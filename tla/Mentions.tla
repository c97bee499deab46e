------------------------------ MODULE Mentions ------------------------------
(***************************************************************************)
(* A message's role and @everyone mentions in the Message service.  The    *)
(* transaction that creates, edits or deletes the message writes its       *)
(* direct mentions, clears the expanded ones when the content changed, and *)
(* enqueues an event.  The mention expander consumes the events, asks the  *)
(* Guild service who is mentioned and materialises one row per user, so    *)
(* that unread mention counts include them.  Messages share no row, so one *)
(* is followed; its rows are abstracted to the revision of the content     *)
(* they were expanded for.                                                 *)
(***************************************************************************)
EXTENDS Naturals, Sequences

CONSTANTS
  Expanders,    \* handlers of the partition, old owners included
  MaxRevision   \* bound on the message's revision

ASSUME MentionConstants == MaxRevision \in Nat \ {0}

VARIABLES
  message,   \* the row: its life, revision and content
  expanded,  \* revision of the content the expanded rows are for, or 0
  log,       \* the message's events, in the order of the topic
  done,      \* records of the log the consumer group is past
  expander,  \* per handler: the record it is expanding, or 0
  gaveUp     \* a record was dropped after its last attempt

mentionVars == <<message, expanded, log, done, expander, gaveUp>>

Revisions == 1..MaxRevision

Events == [type : {"created", "updated", "deleted"}, revision : Revisions,
           rebuild : BOOLEAN, group : BOOLEAN]

MentionTypeOK ==
  /\ message \in [life : {"none", "live", "deleted"}, revision : 0..MaxRevision,
                  content : 0..MaxRevision, group : BOOLEAN]
  /\ expanded \in 0..MaxRevision
  /\ log \in Seq(Events) /\ done \in 0..Len(log)
  /\ expander \in [Expanders -> 0..Len(log)]
  /\ gaveUp \in BOOLEAN

MentionInit ==
  /\ message = [life |-> "none", revision |-> 0, content |-> 0, group |-> FALSE]
  /\ expanded = 0
  /\ log = <<>> /\ done = 0
  /\ expander = [w \in Expanders |-> 0]
  /\ gaveUp = FALSE

(***************************************************************************)
(* Operators                                                               *)
(***************************************************************************)

\* The event of a transaction, appended to the message's stream in its commit.
Publish(type, row, rebuild) ==
  log' = Append(log, [type |-> type, revision |-> row.revision, rebuild |-> rebuild,
                      group |-> row.group])

\* Events with nothing to expand are skipped (handleRecord).
Skipped(e) == e.type = "deleted" \/ (e.type = "updated" /\ ~e.rebuild) \/ ~e.group

\* The stored message moved past the event, or is gone.
Outdated(e) == message.life # "live" \/ message.revision # e.revision

\* The handler is through with record i: the group moves past it.
Finish(i) == done' = IF i > done THEN i ELSE done

(***************************************************************************)
(* Actions                                                                 *)
(***************************************************************************)

\* CreateMessage commits.
CreateMessage(group) ==
  /\ message.life = "none"
  /\ message' = [life |-> "live", revision |-> 1, content |-> 1, group |-> group]
  /\ Publish("created", message', FALSE)
  /\ UNCHANGED <<expanded, done, expander, gaveUp>>

\* UpdateMessage with new content: the mentions are replaced, expanded rows
\* included.
EditContent(group) ==
  /\ message.life = "live" /\ message.revision < MaxRevision
  /\ message' = [life |-> "live", revision |-> message.revision + 1,
                 content |-> message.revision + 1, group |-> group]
  /\ expanded' = 0
  /\ Publish("updated", message', TRUE)
  /\ UNCHANGED <<done, expander, gaveUp>>

\* UpdateMessage with flags or attachments only: the mentions stay, the
\* revision grows.
EditRest ==
  /\ message.life = "live" /\ message.revision < MaxRevision
  /\ message' = [message EXCEPT !.revision = @ + 1]
  /\ Publish("updated", message', FALSE)
  /\ UNCHANGED <<expanded, done, expander, gaveUp>>

DeleteMessage ==
  /\ message.life = "live" /\ message.revision < MaxRevision
  /\ message' = [message EXCEPT !.life = "deleted", !.revision = @ + 1]
  /\ expanded' = 0
  /\ Publish("deleted", message', FALSE)
  /\ UNCHANGED <<done, expander, gaveUp>>

\* A handler takes a record: the next one, or after the partition moved one the
\* group had not committed yet.  A record with nothing to expand, or outdated
\* when the message is loaded, is finished; the others have their targets paged.
HandleRecord(w, i) ==
  /\ expander[w] = 0 /\ i \in 1..Len(log) /\ i <= done + 1
  /\ IF Skipped(log[i]) \/ Outdated(log[i])
       THEN Finish(i) /\ UNCHANGED expander
       ELSE expander' = [expander EXCEPT ![w] = i] /\ UNCHANGED done
  /\ UNCHANGED <<message, expanded, log, gaveUp>>

\* Fault: the rows are replaced without looking at the revision again.
RebuildUnchecked(w) ==
  /\ expander[w] # 0
  /\ expanded' = IF message.life = "live" THEN log[expander[w]].revision ELSE expanded
  /\ Finish(expander[w])
  /\ expander' = [expander EXCEPT ![w] = 0]
  /\ UNCHANGED <<message, log, gaveUp>>

\* With the targets at hand the message row is locked and its revision checked
\* again before the expanded rows are replaced.
RebuildExpandedMessageMentions(w) ==
  /\ expander[w] # 0
  /\ expanded' = IF Outdated(log[expander[w]]) THEN expanded ELSE log[expander[w]].revision
  /\ Finish(expander[w])
  /\ expander' = [expander EXCEPT ![w] = 0]
  /\ UNCHANGED <<message, log, gaveUp>>

\* The store or the Guild service fails, or the partition moves away: the
\* record is handled again.
RetryExpansion(w) ==
  /\ expander[w] # 0
  /\ expander' = [expander EXCEPT ![w] = 0]
  /\ UNCHANGED <<message, expanded, log, done, gaveUp>>

\* The last attempt failed: the record is dropped and the group moves past it.
DropExpansion(w) ==
  /\ expander[w] # 0
  /\ Finish(expander[w])
  /\ expander' = [expander EXCEPT ![w] = 0]
  /\ gaveUp' = TRUE
  /\ UNCHANGED <<message, expanded, log>>

MentionNext ==
  \/ \E group \in BOOLEAN : CreateMessage(group) \/ EditContent(group)
  \/ EditRest \/ DeleteMessage
  \/ \E w \in Expanders :
       \/ \E i \in 1..Len(log) : HandleRecord(w, i)
       \/ RebuildExpandedMessageMentions(w) \/ RetryExpansion(w) \/ DropExpansion(w)

MentionSpec == MentionInit /\ [][MentionNext]_mentionVars

(***************************************************************************)
(* Properties                                                              *)
(***************************************************************************)

\* Expanded rows always belong to the content the live message has now, and a
\* message whose last change was to its content has them once its events are
\* handled, whatever edits, deletions, redeliveries and overlapping handlers
\* race with the paging (mention_expander.go, RebuildExpandedMessageMentions).
ExpandedRowsAreCurrent ==
  /\ expanded # 0 => message.life = "live" /\ message.group /\ expanded = message.content
  /\ message.life = "live" /\ message.group /\ message.content = message.revision
       /\ done = Len(log) /\ ~gaveUp => expanded = message.content

\* A record skipped because the message moved on leaves the expansion to a newer
\* event: once every event is handled, a live message that mentions a role or
\* everyone has its rows (the comment in expand, mention_expander.go).
NewerEventDrivesExpansion ==
  message.life = "live" /\ message.group /\ done = Len(log) /\ ~gaveUp
    => expanded = message.content

=============================================================================
