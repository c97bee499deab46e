--------------------------- MODULE GuildVisibility ---------------------------
(***************************************************************************)
(* The cache a Session node keeps of what one user sees of one guild, and  *)
(* the event handlers that consult it.                                     *)
(*                                                                         *)
(* Guild (external) numbers every change of access with an access revision *)
(* and publishes an event that carries it.  A node holds at most one       *)
(* snapshot per user and guild, shared by the user's logical sessions on   *)
(* the node.  IDENTIFY brings a snapshot, an access event invalidates it,  *)
(* and the next handler that needs it reloads it with one call of Guild    *)
(* that the handlers of the same user and guild share.                     *)
(*                                                                         *)
(* Users meet only in the reload semaphore, whose exhaustion is a reload   *)
(* that times out; the module follows one user, one guild and one channel. *)
(***************************************************************************)
EXTENDS Integers, Sequences, FiniteSets

CONSTANTS
  Sessions,     \* logical sessions of the user that IDENTIFY on this node
  Handlers,     \* Dispatch RPCs that may run at the same time
  None,
  Sights,       \* what the user may see of the channel; "none": not a member
  MaxRevision,  \* bound on Guild's access revision
  MaxEvents     \* bound on the guild events of the topic

ASSUME ConstantsAssumption ==
  /\ IsFiniteSet(Sessions)
  /\ Sights \subseteq {"none", "hidden", "visible"}
  /\ MaxRevision \in Nat \ {0}
  /\ MaxEvents \in Nat

VARIABLES
  access,    \* Guild: access[r] is what the user sees after revision r
  topic,     \* Guild's events in the order of the topic
  cursor,    \* events of the topic the Dispatcher is done with at this node
  session,   \* the logical sessions and the progress of their IDENTIFY
  guildIdx,  \* Server.guilds: the sessions indexed under the guild
  state,     \* Server.visibilityUsers of the user
  reload,    \* the singleflight call of the user and guild
  handler,   \* the Dispatch RPCs
  hints      \* history: reconcile hints since the entry's last invalidation

vars == <<access, topic, cursor, session, guildIdx, state, reload, handler, hints>>

-----------------------------------------------------------------------------
(* Data.                                                                    *)

\* access: a channel was created or updated, or an overwrite changed.  roles:
\* the events that only invalidate (roles, member roles, guild.updated,
\* guild.channel.deleted).  joined: guild.created too.  removed: banned too.
EventTypes == {"access", "roles", "removed", "joined", "deleted"}

Event == [type : EventTypes, rev : 1 .. MaxRevision]

\* A snapshot is labelled rev; the channels it lists were read at revision
\* content.  The label decides everything the code does with it.
Snapshot == [rev : 1 .. MaxRevision, content : 1 .. MaxRevision]

Entry == [snapshot : Snapshot \cup {None}, required : 0 .. MaxRevision,
          generation : Nat, reconcileSent : BOOLEAN]

NewEntry == [snapshot |-> None, required |-> 0, generation |-> 0, reconcileSent |-> FALSE]

UserState == [references : Nat, entry : Entry \cup {None}]

Phases == {"new", "reading", "loaded", "indexed", "live", "leaving", "unindexed", "gone"}

SessionState == [phase : Phases, guild : BOOLEAN, leaves : BOOLEAN,
                 rev : 0 .. MaxRevision, content : 0 .. MaxRevision]

NewSession == [phase |-> "new", guild |-> FALSE, leaves |-> FALSE, rev |-> 0, content |-> 0]

Steps == {"idle", "capture", "invalidate", "attach", "attachInvalidate", "ensure", "wait",
          "decide", "detach", "detachGuild", "dropIndex", "dropEntry"}

HandlerState == [pc : Steps, type : EventTypes \cup {None}, rev : 0 .. MaxRevision,
                 viewer : BOOLEAN, owed : BOOLEAN, sessions : SUBSET Sessions,
                 got : Snapshot \cup {None}]

Idle == [pc |-> "idle", type |-> None, rev |-> 0, viewer |-> FALSE, owed |-> FALSE,
         sessions |-> {}, got |-> None]

ReloadSteps == {"target", "revision", "content", "install", "done"}

ReloadState == [pc : ReloadSteps, attempt : 1 .. 2, generation : Nat, required : 0 .. MaxRevision,
                rev : 0 .. MaxRevision, content : 0 .. MaxRevision,
                result : Snapshot \cup {None}]

ASSUME NoneAssumption == None \notin Snapshot \cup Entry \cup UserState \cup ReloadState

Revision == Len(access)

Sees(r) == access[r] = "visible"

\* Server.users: the sessions of the user, from addSession to removeSession.
UserIdx == {s \in Sessions : session[s].phase \in {"indexed", "live", "leaving"}}

\* The sessions that hold a reference on the user's state.
Holding == {s \in Sessions : session[s].phase \in {"live", "leaving", "unindexed"}}

SetPhase(s, p) == session' = [session EXCEPT ![s].phase = p]

Goto(h, p) == handler' = [handler EXCEPT ![h].pc = p]

\* The rest of the handler no longer looks at the event's type and revision.
Proceed(h, p) == handler' = [handler EXCEPT ![h].pc = p, ![h].type = None, ![h].rev = 0]

Finish(h) == handler' = [handler EXCEPT ![h] = Idle]

Max2(a, b) == IF a >= b THEN a ELSE b

HasEntry == state # None /\ state.entry # None

Cached == HasEntry /\ state.entry.snapshot # None

SetEntry(e) == state' = [state EXCEPT !.entry = e]

-----------------------------------------------------------------------------
(* Guild, external: its changes of access and its reads.                    *)

\* A transaction that changes what the user may see bumps the revision (the
\* triggers of Guild's schema) and writes one event that carries the new one.
Commit(type, sight) ==
  /\ Revision < MaxRevision /\ Len(topic) < MaxEvents
  /\ \A i \in DOMAIN topic : topic[i].type # "deleted"
  /\ CASE type \in {"access", "roles"} -> (sight = "none") = (access[Revision] = "none")
       [] type = "removed" -> sight = "none" /\ access[Revision] # "none"
       [] type = "joined"  -> sight # "none" /\ access[Revision] = "none"
       [] type = "deleted" -> sight = "none"
  /\ access' = Append(access, sight)
  /\ topic' = Append(topic, [type |-> type, rev |-> Revision + 1])
  /\ UNCHANGED <<cursor, session, guildIdx, state, reload, handler, hints>>

\* Every event but guild.deleted carries the revision its transaction reads:
\* guild.channel.updated and guild.updated change no access and repeat it.
UpdateWithoutAccess(type) ==
  /\ type \in {"access", "roles"}
  /\ Len(topic) < MaxEvents
  /\ \A i \in DOMAIN topic : topic[i].type # "deleted"
  /\ topic' = Append(topic, [type |-> type, rev |-> Revision])
  /\ UNCHANGED <<access, cursor, session, guildIdx, state, reload, handler, hints>>

-----------------------------------------------------------------------------
(* IDENTIFY and the removal of a session.                                   *)

\* GetUserReadyState lists the guilds of the user first, with the revision of
\* each, and reads channels, roles and overwrites with later statements.
ReadReadyGuilds(s) ==
  /\ session[s].phase = "new"
  /\ session' = [session EXCEPT ![s].phase = "reading", ![s].rev = Revision,
                                ![s].guild = access[Revision] # "none"]
  /\ UNCHANGED <<access, topic, cursor, guildIdx, state, reload, handler, hints>>

ReadReadyChannels(s) ==
  /\ session[s].phase = "reading"
  /\ session' = [session EXCEPT ![s].phase = "loaded", ![s].content = Revision]
  /\ UNCHANGED <<access, topic, cursor, guildIdx, state, reload, handler, hints>>

\* A failed call, a limit exceeded or a malformed answer ends the IDENTIFY
\* before the session is registered.
loadReadyGuildsFails(s) ==
  /\ session[s].phase \in {"reading", "loaded"}
  /\ session' = [session EXCEPT ![s] = [NewSession EXCEPT !.phase = "gone"]]
  /\ UNCHANGED <<access, topic, cursor, guildIdx, state, reload, handler, hints>>

\* The indexes are written first, under Server.mu ...
addSession(s) ==
  /\ session[s].phase = "loaded"
  /\ SetPhase(s, "indexed")
  /\ guildIdx' = IF session[s].guild THEN guildIdx \cup {s} ELSE guildIdx
  /\ UNCHANGED <<access, topic, cursor, state, reload, handler, hints>>

ReadySnapshot(s) == [rev |-> session[s].rev, content |-> session[s].content]

\* A retained snapshot is replaced by a newer one that is new enough.
Adopts(e, snap) ==
  /\ snap.rev >= e.required
  /\ e.snapshot = None \/ snap.rev > e.snapshot.rev

Retained(e, snap) ==
  IF e = None THEN [NewEntry EXCEPT !.snapshot = snap]
  ELSE IF Adopts(e, snap) THEN [e EXCEPT !.snapshot = snap, !.reconcileSent = FALSE]
  ELSE e

\* ... and the visibility state after them, under visibilityMu.  ready says
\* whether the READY answer listed the guild.
retainVisibilitySnapshots(s) ==
  LET old == IF state = None THEN [references |-> 0, entry |-> None] ELSE state
      ready == access[session[s].rev] # "none"
  IN /\ session[s].phase = "indexed"
     /\ session' = [session EXCEPT ![s].phase = "live", ![s].rev = 0]
     /\ state' = [references |-> old.references + 1,
                  entry |-> IF ready THEN Retained(old.entry, ReadySnapshot(s)) ELSE old.entry]
     /\ UNCHANGED <<access, topic, cursor, guildIdx, reload, handler, hints>>

\* removeSession collects the session's guilds under the session's mutex, ...
removeSession(s) ==
  /\ session[s].phase = "live"
  /\ session' = [session EXCEPT ![s].phase = "leaving", ![s].leaves = session[s].guild,
                                ![s].content = 0]
  /\ UNCHANGED <<access, topic, cursor, guildIdx, state, reload, handler, hints>>

\* ... leaves the indexes under Server.mu, ...
RemoveFromIndexes(s) ==
  /\ session[s].phase = "leaving"
  /\ session' = [session EXCEPT ![s] = [NewSession EXCEPT !.phase = "unindexed"]]
  /\ guildIdx' = IF session[s].leaves THEN guildIdx \ {s} ELSE guildIdx
  /\ UNCHANGED <<access, topic, cursor, state, reload, handler, hints>>

LastReference(n) == n <= 1

\* ... and gives up its reference; the last one drops the user's state.
releaseVisibilitySnapshots(s) ==
  /\ session[s].phase = "unindexed"
  /\ SetPhase(s, "gone")
  /\ IF state = None \/ LastReference(state.references)
     THEN state' = None /\ hints' = 0
     ELSE state' = [state EXCEPT !.references = @ - 1] /\ UNCHANGED hints
  /\ UNCHANGED <<access, topic, cursor, guildIdx, reload, handler>>

-----------------------------------------------------------------------------
(* The entry of the user and guild.                                         *)

\* An invalidation is a no-op when the snapshot is as new as the event, or
\* when the entry already waits for a revision as new.
Ignored(e, r) ==
  \/ e.snapshot # None /\ e.snapshot.rev >= r
  \/ e.snapshot = None /\ r <= e.required

Invalidated(e, r) ==
  IF Ignored(e, r) THEN e
  ELSE [snapshot |-> None, required |-> Max2(e.required, r),
        generation |-> e.generation + 1, reconcileSent |-> FALSE]

invalidateVisibilityGuild(r) ==
  IF state = None THEN UNCHANGED <<state, hints>>
  ELSE LET e == IF state.entry = None THEN NewEntry ELSE state.entry
       IN /\ SetEntry(Invalidated(e, r))
          /\ hints' = IF Ignored(e, r) THEN hints ELSE 0

removeVisibilityGuild ==
  IF state = None THEN UNCHANGED <<state, hints>>
  ELSE SetEntry(None) /\ hints' = 0

\* One hint for an entry that has no snapshot and has not been hinted.
Hints == HasEntry /\ state.entry.snapshot = None /\ ~state.entry.reconcileSent

markVisibilityReconcile ==
  IF Hints
  THEN state' = [state EXCEPT !.entry.reconcileSent = TRUE] /\ hints' = hints + 1
  ELSE UNCHANGED <<state, hints>>

-----------------------------------------------------------------------------
(* DispatchGuildEvent.  The Dispatcher hands the events of a guild to the   *)
(* node one after the other.  A call that times out is repeated, the        *)
(* duplicate filter answers the repetition at once, and the next event      *)
(* follows while the first call still runs: calls overlap.                  *)

FirstStep(type) ==
  CASE type = "access"               -> "capture"
    [] type \in {"roles", "removed"} -> "invalidate"
    [] type = "joined"               -> "attach"
    [] type = "deleted"              -> "detachGuild"

DispatchGuildEvent(h) ==
  /\ handler[h].pc = "idle" /\ cursor < Len(topic)
  /\ cursor' = cursor + 1
  /\ LET e == topic[cursor + 1]
     IN handler' = [handler EXCEPT ![h] = [Idle EXCEPT !.pc = FirstStep(e.type), !.type = e.type,
                                                       !.rev = e.rev]]
  /\ UNCHANGED <<access, topic, session, guildIdx, state, reload, hints>>

\* The node is not among the guild's routes when the event is dispatched.
NotRouted ==
  /\ cursor < Len(topic)
  /\ cursor' = cursor + 1
  /\ UNCHANGED <<access, topic, session, guildIdx, state, reload, handler, hints>>

\* A live session whose READY showed the channel, and for which nothing
\* changed until the revision before r: a viewer before the event of r.
PreviousViewer(s, r) ==
  /\ session[s].phase = "live" /\ session[s].content \in 1 .. (r - 1)
  /\ \A q \in session[s].content .. (r - 1) : Sees(q)

usersWithChannelVisibility(h) ==
  /\ handler[h].pc = "capture"
  /\ handler' = [handler EXCEPT ![h].pc = "invalidate",
                   ![h].viewer = guildIdx # {} /\ Cached /\ Sees(state.entry.snapshot.content),
                   ![h].owed = \E s \in guildIdx : PreviousViewer(s, handler[h].rev)]
  /\ UNCHANGED <<access, topic, cursor, session, guildIdx, state, reload, hints>>

\* The events that are delivered to every session of the guild end here.
invalidateGuildVisibility(h) ==
  /\ handler[h].pc = "invalidate"
  /\ IF guildIdx = {} THEN UNCHANGED <<state, hints>>
     ELSE invalidateVisibilityGuild(handler[h].rev)
  /\ CASE handler[h].type = "access"  -> Proceed(h, "ensure")
       [] handler[h].type = "removed" -> Proceed(h, "detach")
       [] OTHER                       -> Finish(h)
  /\ UNCHANGED <<access, topic, cursor, session, guildIdx, reload>>

\* guild.created and guild.member.joined: the user's sessions join the guild,
\* collected first and indexed one by one after that.
attachGuildUser(h) ==
  /\ handler[h].pc = "attach"
  /\ \/ /\ handler[h].sessions = {} /\ UserIdx # {}
        /\ handler' = [handler EXCEPT ![h].sessions = UserIdx]
        /\ UNCHANGED <<session, guildIdx>>
     \/ /\ handler[h].sessions = {} /\ UserIdx = {}
        /\ Finish(h)
        /\ UNCHANGED <<session, guildIdx>>
     \/ /\ handler[h].sessions # {}
        /\ session' = [s \in Sessions |-> IF s \in handler[h].sessions
                                          THEN [session[s] EXCEPT !.guild = TRUE] ELSE session[s]]
        /\ guildIdx' = guildIdx \cup handler[h].sessions
        /\ Goto(h, "attachInvalidate")
  /\ UNCHANGED <<access, topic, cursor, state, reload, hints>>

AttachInvalidate(h) ==
  /\ handler[h].pc = "attachInvalidate"
  /\ invalidateVisibilityGuild(handler[h].rev)
  /\ Finish(h)
  /\ UNCHANGED <<access, topic, cursor, session, guildIdx, reload>>

\* guild.member.removed and banned: after the delivery the user's sessions
\* leave the guild, and the entry goes if one of them was in it.
detachGuildUser(h) ==
  /\ handler[h].pc = "detach"
  /\ session' = [s \in Sessions |-> IF s \in UserIdx
                                    THEN [session[s] EXCEPT !.guild = FALSE] ELSE session[s]]
  /\ guildIdx' = guildIdx \ UserIdx
  /\ IF \E s \in UserIdx : session[s].guild THEN Goto(h, "dropEntry") ELSE Finish(h)
  /\ UNCHANGED <<access, topic, cursor, state, reload, hints>>

\* guild.deleted: the sessions of the index forget the guild, ...
detachGuild(h) ==
  /\ handler[h].pc = "detachGuild"
  /\ session' = [s \in Sessions |-> IF s \in guildIdx
                                    THEN [session[s] EXCEPT !.guild = FALSE] ELSE session[s]]
  /\ handler' = [handler EXCEPT ![h].pc = "dropIndex", ![h].sessions = guildIdx]
  /\ UNCHANGED <<access, topic, cursor, guildIdx, state, reload, hints>>

\* ... and the whole index of the guild is deleted.
DropIndex(h) ==
  /\ handler[h].pc = "dropIndex"
  /\ guildIdx' = {}
  /\ IF handler[h].sessions # {} THEN Goto(h, "dropEntry") ELSE Finish(h)
  /\ UNCHANGED <<access, topic, cursor, session, state, reload, hints>>

DropEntry(h) ==
  /\ handler[h].pc = "dropEntry"
  /\ removeVisibilityGuild
  /\ Finish(h)
  /\ UNCHANGED <<access, topic, cursor, session, guildIdx, reload>>

-----------------------------------------------------------------------------
(* Guild messages, and the handlers that need the snapshot.                 *)

DispatchGuildMessageEvent(h) ==
  /\ handler[h].pc = "idle"
  /\ handler' = [handler EXCEPT ![h] = [Idle EXCEPT !.pc = "ensure"]]
  /\ UNCHANGED <<access, topic, cursor, session, guildIdx, state, reload, hints>>

NewReload == [pc |-> "target", attempt |-> 1, generation |-> 0, required |-> 0,
              rev |-> 0, content |-> 0, result |-> None]

\* A handler with sessions to serve takes the cached snapshot; without one it
\* starts the reload or joins the one in flight.
ensureVisibilitySnapshot(h) ==
  /\ handler[h].pc = "ensure"
  /\ \/ /\ guildIdx = {}
        /\ Finish(h) /\ UNCHANGED reload
     \/ /\ guildIdx # {} /\ Cached
        /\ handler' = [handler EXCEPT ![h].pc = "decide", ![h].got = state.entry.snapshot]
        /\ UNCHANGED reload
     \/ /\ guildIdx # {} /\ ~Cached
        /\ Goto(h, "wait")
        /\ reload' = IF reload = None THEN NewReload ELSE reload
  /\ UNCHANGED <<access, topic, cursor, session, guildIdx, state, hints>>

\* SnapshotReloadTimeout passes, or the caller's deadline.
ReloadTimeout(h) ==
  /\ handler[h].pc = "wait"
  /\ Goto(h, "decide")
  /\ UNCHANGED <<access, topic, cursor, session, guildIdx, state, reload, hints>>

\* dispatchGuildChannelAccessEvent: the union of previous and current viewers.
Delivers(h) == handler[h].viewer \/ Sees(handler[h].got.content)

\* A handler without a snapshot skips the event and hints at most once.  One
\* with a snapshot delivers to the viewers: nothing here depends on which.
DeliverOrSkip(h) ==
  /\ handler[h].pc = "decide"
  /\ IF handler[h].got = None THEN markVisibilityReconcile ELSE UNCHANGED <<state, hints>>
  /\ Finish(h)
  /\ UNCHANGED <<access, topic, cursor, session, guildIdx, reload>>

-----------------------------------------------------------------------------
(* The reload, two attempts at most.                                        *)

ReloadEnds(snap) == reload' = [NewReload EXCEPT !.pc = "done", !.result = snap]

visibilityReloadTarget ==
  /\ reload # None /\ reload.pc = "target"
  /\ IF HasEntry /\ state.references # 0
     THEN reload' = [reload EXCEPT !.pc = "revision", !.generation = state.entry.generation,
                                   !.required = state.entry.required]
     ELSE ReloadEnds(None)
  /\ UNCHANGED <<access, topic, cursor, session, guildIdx, state, handler, hints>>

\* GetUserGuildChannelVisibility reads the guild row, and with it the label,
\* before the channels, roles and overwrites.  A non-member gets an error.
ReadVisibilityRevision ==
  /\ reload # None /\ reload.pc = "revision"
  /\ IF access[Revision] = "none" THEN ReloadEnds(None)
     ELSE reload' = [reload EXCEPT !.pc = "content", !.rev = Revision]
  /\ UNCHANGED <<access, topic, cursor, session, guildIdx, state, handler, hints>>

\* The answer is refused at once when its label is older than the target's.
StaleAnswer == reload.rev < reload.required

\* Fault: the guild row is read last, and the label may be newer than the
\* channels.
ReadVisibilityChannels_LabelLast ==
  /\ reload # None /\ reload.pc = "content"
  /\ IF StaleAnswer THEN ReloadEnds(None)
     ELSE reload' = [reload EXCEPT !.pc = "install", !.rev = Revision, !.content = reload.rev]
  /\ UNCHANGED <<access, topic, cursor, session, guildIdx, state, handler, hints>>

ReadVisibilityChannels ==
  /\ reload # None /\ reload.pc = "content"
  /\ IF StaleAnswer THEN ReloadEnds(None)
     ELSE reload' = [reload EXCEPT !.pc = "install", !.content = Revision]
  /\ UNCHANGED <<access, topic, cursor, session, guildIdx, state, handler, hints>>

\* The first attempt, and one more when the entry changed under it.
MaxAttempts == 2

Candidate == [rev |-> reload.rev, content |-> reload.content]

Installs ==
  /\ HasEntry /\ state.references # 0
  /\ state.entry.generation = reload.generation
  /\ reload.rev >= state.entry.required

installReloadedVisibilitySnapshot ==
  /\ reload # None /\ reload.pc = "install"
  /\ IF Installs
     THEN /\ state' = [state EXCEPT !.entry.snapshot = Candidate, !.entry.reconcileSent = FALSE]
          /\ ReloadEnds(Candidate)
     ELSE /\ UNCHANGED state
          /\ IF reload.attempt < MaxAttempts
             THEN reload' = [NewReload EXCEPT !.attempt = reload.attempt + 1]
             ELSE ReloadEnds(None)
  /\ UNCHANGED <<access, topic, cursor, session, guildIdx, handler, hints>>

\* No slot of the semaphore in time, a failed call or a malformed answer.
ReloadFails ==
  /\ reload # None /\ reload.pc \in {"target", "revision", "content"}
  /\ ReloadEnds(None)
  /\ UNCHANGED <<access, topic, cursor, session, guildIdx, state, handler, hints>>

\* singleflight hands the result to everyone who waits and forgets the call.
PublishReload ==
  /\ reload # None /\ reload.pc = "done"
  /\ handler' = [h \in Handlers |-> IF handler[h].pc = "wait"
                   THEN [handler[h] EXCEPT !.pc = "decide", !.got = reload.result] ELSE handler[h]]
  /\ reload' = None
  /\ UNCHANGED <<access, topic, cursor, session, guildIdx, state, hints>>

-----------------------------------------------------------------------------
Init ==
  /\ access \in {<<sight>> : sight \in Sights}
  /\ topic = <<>> /\ cursor = 0
  /\ session = [s \in Sessions |-> NewSession]
  /\ guildIdx = {} /\ state = None /\ reload = None
  /\ handler = [h \in Handlers |-> Idle]
  /\ hints = 0

Guild ==
  \/ \E type \in EventTypes, sight \in Sights : Commit(type, sight)
  \/ \E type \in EventTypes : UpdateWithoutAccess(type)

SessionStep(s) ==
  \/ ReadReadyGuilds(s) \/ ReadReadyChannels(s) \/ loadReadyGuildsFails(s)
  \/ addSession(s) \/ retainVisibilitySnapshots(s)
  \/ removeSession(s) \/ RemoveFromIndexes(s) \/ releaseVisibilitySnapshots(s)

HandlerStep(h) ==
  \/ DispatchGuildEvent(h) \/ DispatchGuildMessageEvent(h)
  \/ usersWithChannelVisibility(h) \/ invalidateGuildVisibility(h)
  \/ attachGuildUser(h) \/ AttachInvalidate(h)
  \/ detachGuildUser(h) \/ detachGuild(h) \/ DropIndex(h) \/ DropEntry(h)
  \/ ensureVisibilitySnapshot(h) \/ ReloadTimeout(h) \/ DeliverOrSkip(h)

Reload ==
  \/ visibilityReloadTarget \/ ReadVisibilityRevision \/ ReadVisibilityChannels
  \/ installReloadedVisibilitySnapshot \/ ReloadFails \/ PublishReload

Next ==
  \/ Guild
  \/ NotRouted
  \/ Reload
  \/ \E s \in Sessions : SessionStep(s)
  \/ \E h \in Handlers : HandlerStep(h)

Spec == Init /\ [][Next]_vars

-----------------------------------------------------------------------------
TypeOK ==
  /\ access \in Seq(Sights) /\ Len(access) \in 1 .. MaxRevision
  /\ topic \in Seq(Event) /\ cursor \in 0 .. Len(topic)
  /\ session \in [Sessions -> SessionState]
  /\ guildIdx \subseteq Sessions
  /\ state \in UserState \cup {None}
  /\ reload \in ReloadState \cup {None}
  /\ handler \in [Handlers -> HandlerState]
  /\ hints \in Nat

\* The channels of a retained snapshot were read at or after every revision
\* an invalidation made the entry wait for: whatever reloads, IDENTIFYs,
\* removals and re-joins overlap, no answer that was on its way when the
\* access changed is kept (retain, invalidate and install in visibility.go,
\* and the order of the reads in Guild).
SnapshotMeetsRequired == Cached => state.entry.snapshot.content >= state.entry.required

\* An entry that loses its snapshot causes one session.reconcile at most until
\* it is invalidated again, however many handlers fail to reload it.
OneHintPerInvalidation == hints <= 1

\* The user's state has one reference for each session that has retained and
\* not yet released it, and exists exactly while there is one: the state of a
\* live session is never dropped under it, and that of the last one never kept.
StateHeldBySessions ==
  IF state = None THEN Holding = {} ELSE state.references = Cardinality(Holding)

\* docs/en/services.md:375: "An access event is delivered to the union of
\* previous and current viewers so newly authorized clients can add the
\* channel and revoked clients can remove it."
RevokedViewersAreTold ==
  \A h \in Handlers :
    handler[h].pc = "decide" /\ handler[h].owed /\ handler[h].got # None => Delivers(h)
=============================================================================
