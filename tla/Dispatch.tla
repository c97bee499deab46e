------------------------------- MODULE Dispatch -------------------------------
(***************************************************************************)
(* A partition's records on their way to logical sessions: the Dispatcher  *)
(* resolves the nodes of a record's routes and calls each one, and retries *)
(* the whole record when a call fails (server.go, profile.go); a Session   *)
(* node drops what it has seen (dedup.go, DedupStore) and messages older   *)
(* than the channel's watermark (watermark.go) before it delivers, and     *)
(* delivers a message only under a visibility snapshot, which it loads     *)
(* again when an access event has dropped it (dispatch.go, visibility.go). *)
(*                                                                         *)
(* The partition belongs to one Dispatcher at a time; after a rebalance    *)
(* the new one starts at the committed offset while the old one may still  *)
(* be calling nodes for the record it was at.  A call whose caller has     *)
(* given up goes on at its node.  Each node has one recipient, who sees    *)
(* the channel: other recipients are sent none of its messages.  Records   *)
(* are numbered by their offset, which is also their stream sequence and   *)
(* idempotency key; Messages are those of one channel, the others          *)
(* (profile and presence updates) reach a recipient by its user route and  *)
(* by the guild's.                                                         *)
(***************************************************************************)
EXTENDS Integers, FiniteSets

CONSTANTS Nodes, Dispatchers, NoDispatcher,
          Records,      \* the log has this many
          Messages,     \* offsets of the channel's messages
          MaxMishaps    \* bound: failed calls and reloads, rebalances, restarts,
                        \* lapsed entries and dropped snapshots

ASSUME DispatchConstants ==
    /\ Records \in Nat /\ Messages \subseteq 1 .. Records
    /\ MaxMishaps \in Nat
    /\ NoDispatcher \notin Dispatchers

Offsets == 1 .. Records

VARIABLES
    consumer,   \* the Dispatcher the partition is assigned to
    committed,  \* the group's committed offset
    completed,  \* the last record an assigned Dispatcher completed
    attempt,    \* of each Dispatcher: its record, and the calls it has yet to make
    calls,      \* calls at nodes: who waits for them, and how far they are
    seen,       \* dedup: keys <<path, offset>> of each node
    watermark,  \* the channel's watermark of each node
    view,       \* the recipient's snapshot: held, dropped, or dropped and hinted
    told,       \* how often the recipient of a node was sent each record
    furthest,   \* the last record any assigned Dispatcher completed
    due,        \* nodes called for a record when it was first completed
    forgotten,  \* records some entry of which has expired at a node
    lapsed,     \* messages the node's watermark covered when it expired
    hinted,     \* messages withheld, with a hint to reconcile for that snapshot
    overtaken,  \* messages withheld while another handler loaded the snapshot
    mishaps

filterVars == <<seen, watermark, forgotten, lapsed>>
deliveryVars == <<view, told, hinted, overtaken>>
dispatchVars == <<consumer, committed, completed, attempt, calls, furthest, due,
                  filterVars, deliveryVars, mishaps>>

Mishap == mishaps < MaxMishaps /\ mishaps' = mishaps + 1

(* The routes of a record: a message has one, the others have two. *)
Paths(r) == IF r \in Messages THEN {"guild"} ELSE {"user", "guild"}

Idling == [record |-> 0, left |-> {}, reached |-> {}, resolved |-> FALSE]

Working(r) == [record |-> r, left |-> {}, reached |-> {}, resolved |-> FALSE]

-------------------------------------------------------------------------------
(* The partition's worker takes the next record. *)
Take(d) ==
    /\ consumer = d /\ attempt[d] = Idling /\ completed < Records
    /\ attempt' = [attempt EXCEPT ![d] = Working(completed + 1)]
    /\ UNCHANGED <<consumer, committed, completed, calls, furthest, due, filterVars,
                   deliveryVars, mishaps>>

(* Every attempt resolves the routes again.  *)
Resolve(d) ==
    /\ attempt[d].record # 0 /\ ~attempt[d].resolved
    /\ attempt' = [attempt EXCEPT ![d] =
                     [@ EXCEPT !.left = Nodes \X Paths(attempt[d].record), !.resolved = TRUE]]
    /\ UNCHANGED <<consumer, committed, completed, calls, furthest, due, filterVars,
                   deliveryVars, mishaps>>

(* forEachNode: the nodes of a route are called one after the other. *)
Call(d, n, path) ==
    /\ <<n, path>> \in attempt[d].left
    /\ \A c \in calls : c.by = d => c.path # path
    /\ calls' = calls \cup {[by |-> d, node |-> n, path |-> path,
                             record |-> attempt[d].record, accepted |-> FALSE,
                             failed |-> FALSE]}
    /\ attempt' = [attempt EXCEPT ![d].left = @ \ {<<n, path>>}]
    /\ UNCHANGED <<consumer, committed, completed, furthest, due, filterVars, deliveryVars,
                   mishaps>>

(* The call returned: its caller, if one still waits, has reached the node. *)
Answer(c) ==
    attempt' = IF c.by = NoDispatcher THEN attempt
               ELSE [attempt EXCEPT ![c.by].reached = @ \cup {c.node}]

(* A call times out or fails: its caller drops what is left of the attempt   *)
(* and will retry the record.  Calls it had in flight may still run.         *)
GiveUpRecord(d) ==
    /\ \E c \in calls : c.by = d
    /\ \E cut \in SUBSET {c \in calls : c.by = d /\ ~c.accepted} :
         calls' = {[c EXCEPT !.by = IF @ = d THEN NoDispatcher ELSE @] : c \in calls \ cut}
    /\ attempt' = [attempt EXCEPT ![d] = Working(@.record)]
    /\ Mishap
    /\ UNCHANGED <<consumer, committed, completed, furthest, due, filterVars, deliveryVars>>

(* All calls of the attempt returned: the record is complete.  A Dispatcher  *)
(* that lost the partition stops here; its record counts for nothing.        *)
Complete(d) ==
    /\ attempt[d].resolved /\ attempt[d].left = {} /\ \A c \in calls : c.by # d
    /\ attempt' = [attempt EXCEPT ![d] = Idling]
    /\ IF consumer # d THEN UNCHANGED <<completed, furthest, due>>
       ELSE LET r == attempt[d].record
            IN  /\ completed' = r
                /\ furthest' = IF r > furthest THEN r ELSE furthest
                /\ due' = [due EXCEPT ![r] = IF r > furthest THEN attempt[d].reached ELSE @]
    /\ UNCHANGED <<consumer, committed, calls, filterVars, deliveryVars, mishaps>>

Commit ==
    /\ committed < completed
    /\ committed' = completed
    /\ UNCHANGED <<consumer, completed, attempt, calls, furthest, due, filterVars, deliveryVars,
                   mishaps>>

Rebalance(d) ==
    /\ consumer # d /\ attempt[d] = Idling
    /\ consumer' = d
    /\ completed' = committed
    /\ Mishap
    /\ UNCHANGED <<committed, attempt, calls, furthest, due, filterVars, deliveryVars>>

-------------------------------------------------------------------------------
(* The handler at the node.  The event is marked as seen first; a message    *)
(* must then be newer than the watermark.  A call that is dropped returns    *)
(* without an error.                                                         *)
Drops(c) == <<c.path, c.record>> \in seen[c.node]

(* Fault: a message that equals the watermark is accepted again. *)
StaleIfOlder(c) == c.record \in Messages /\ c.record < watermark[c.node]

(* watermarkStore.accept refuses it; an entry that has expired is 0.         *)
Stale(c) == c.record \in Messages /\ c.record <= watermark[c.node]

(* Fault: the handler fails after it has marked the event as seen.           *)
AcceptThenFail(c) ==
    /\ c \in calls /\ ~c.accepted
    /\ seen' = [seen EXCEPT ![c.node] = @ \cup {<<c.path, c.record>>}]
    /\ \/ /\ Drops(c) \/ Stale(c)
          /\ calls' = calls \ {c} /\ Answer(c)
          /\ UNCHANGED <<watermark, mishaps>>
       \/ /\ ~Drops(c) /\ ~Stale(c)
          /\ watermark' = [watermark EXCEPT ![c.node] =
                             IF c.record \in Messages THEN c.record ELSE @]
          /\ calls' = (calls \ {c}) \cup {[c EXCEPT !.accepted = TRUE]}
          /\ UNCHANGED <<attempt, mishaps>>
       \/ /\ ~Drops(c) /\ c.by # NoDispatcher
          /\ calls' = calls \ {c}
          /\ attempt' = [attempt EXCEPT ![c.by] = Working(@.record)]
          /\ UNCHANGED watermark /\ Mishap
    /\ UNCHANGED <<consumer, committed, completed, furthest, due, forgotten, lapsed,
                   deliveryVars>>

Accept(c) ==
    /\ c \in calls /\ ~c.accepted
    /\ seen' = [seen EXCEPT ![c.node] = @ \cup {<<c.path, c.record>>}]
    /\ IF Drops(c) \/ Stale(c)
       THEN calls' = calls \ {c} /\ Answer(c) /\ UNCHANGED watermark
       ELSE /\ watermark' = [watermark EXCEPT ![c.node] =
                               IF c.record \in Messages THEN c.record ELSE @]
            /\ calls' = (calls \ {c}) \cup {[c EXCEPT !.accepted = TRUE]}
            /\ UNCHANGED attempt
    /\ UNCHANGED <<consumer, committed, completed, furthest, due, forgotten, lapsed,
                   deliveryVars, mishaps>>

(* dispatchProfileSessions, dispatchPresenceSessions: a recipient that was   *)
(* reached by the other route is skipped.                                    *)
Repeated(c) == c.record \notin Messages /\ <<"recipient", c.record>> \in seen[c.node]

(* A message goes out under the recipient's visibility snapshot, which       *)
(* ensureVisibilitySnapshot loads when it is dropped; the others need none.  *)
Deliver(c) ==
    /\ c \in calls /\ c.accepted /\ ~c.failed
    /\ calls' = calls \ {c}
    /\ Answer(c)
    /\ IF c.record \in Messages
       THEN view' = [view EXCEPT ![c.node] = "held"] /\ UNCHANGED seen
       ELSE /\ seen' = [seen EXCEPT ![c.node] = @ \cup {<<"recipient", c.record>>}]
            /\ UNCHANGED view
    /\ told' = IF Repeated(c) THEN told
               ELSE [told EXCEPT ![c.node][c.record] = @ + 1]
    /\ UNCHANGED <<consumer, committed, completed, furthest, due, watermark, forgotten, lapsed,
                   hinted, overtaken, mishaps>>

(* The snapshot cannot be loaded: Guild fails, the reload times out or the   *)
(* caller has gone.                                                          *)
ReloadFails(c) ==
    /\ c \in calls /\ c.accepted /\ ~c.failed
    /\ c.record \in Messages /\ view[c.node] # "held"
    /\ calls' = (calls \ {c}) \cup {[c EXCEPT !.failed = TRUE]}
    /\ Mishap
    /\ UNCHANGED <<consumer, committed, completed, attempt, furthest, due, filterVars,
                   deliveryVars>>

(* Such a message is withheld and the call returns without an error.         *)
(* markVisibilityReconcile lets one hint out for a dropped snapshot, and     *)
(* none if another handler has loaded it in the meantime.                    *)
Withhold(c) ==
    /\ c \in calls /\ c.accepted /\ c.failed
    /\ calls' = calls \ {c}
    /\ Answer(c)
    /\ IF view[c.node] = "held"
       THEN /\ overtaken' = [overtaken EXCEPT ![c.node] = @ \cup {c.record}]
            /\ UNCHANGED <<view, hinted>>
       ELSE /\ view' = [view EXCEPT ![c.node] = "hinted"]
            /\ hinted' = [hinted EXCEPT ![c.node] = @ \cup {c.record}]
            /\ UNCHANGED overtaken
    /\ UNCHANGED <<consumer, committed, completed, furthest, due, filterVars, told, mishaps>>

(* An access event drops the snapshot (visibilityStore.invalidate).          *)
Invalidate(n) ==
    /\ view[n] # "dropped"
    /\ view' = [view EXCEPT ![n] = "dropped"]
    /\ Mishap
    /\ UNCHANGED <<consumer, committed, completed, attempt, calls, furthest, due, filterVars,
                   told, hinted, overtaken>>

(* An entry expires after dedupTTL, which no call outlasts. *)
Forget(n, key) ==
    /\ key \in seen[n]
    /\ \A c \in calls : c.node = n => c.record # key[2]
    /\ seen' = [seen EXCEPT ![n] = @ \ {key}]
    /\ forgotten' = [forgotten EXCEPT ![n] = @ \cup {key[2]}]
    /\ Mishap
    /\ UNCHANGED <<consumer, committed, completed, attempt, calls, furthest, due, watermark,
                   lapsed, deliveryVars>>

(* The watermark expires watermarkTTL after the last message, which no call  *)
(* outlasts either.                                                          *)
Lapse(n) ==
    /\ watermark[n] > 0
    /\ \A c \in calls : c.node = n => ~c.accepted
    /\ watermark' = [watermark EXCEPT ![n] = 0]
    /\ lapsed' = [lapsed EXCEPT ![n] = @ \cup {r \in Messages : r <= watermark[n]}]
    /\ Mishap
    /\ UNCHANGED <<consumer, committed, completed, attempt, calls, furthest, due, seen, forgotten,
                   deliveryVars>>

(* The filters and the sessions live in memory only: a node that restarts    *)
(* has new recipients, which load their state when they identify.            *)
Restart(n) ==
    /\ calls' = {c \in calls : c.node # n}
    /\ attempt' = [d \in Dispatchers |->
                     IF \E c \in calls : c.node = n /\ c.by = d THEN Working(attempt[d].record)
                     ELSE [attempt[d] EXCEPT !.reached = @ \ {n}]]
    /\ seen' = [seen EXCEPT ![n] = {}]
    /\ watermark' = [watermark EXCEPT ![n] = 0]
    /\ told' = [told EXCEPT ![n] = [r \in Offsets |-> 0]]
    /\ due' = [r \in Offsets |-> due[r] \ {n}]
    /\ forgotten' = [forgotten EXCEPT ![n] = {}] /\ lapsed' = [lapsed EXCEPT ![n] = {}]
    /\ view' = [view EXCEPT ![n] = "held"]
    /\ hinted' = [hinted EXCEPT ![n] = {}] /\ overtaken' = [overtaken EXCEPT ![n] = {}]
    /\ Mishap
    /\ UNCHANGED <<consumer, committed, completed, furthest>>

-------------------------------------------------------------------------------
DispatchInit ==
    /\ consumer \in Dispatchers
    /\ committed = 0 /\ completed = 0
    /\ attempt = [d \in Dispatchers |-> Idling]
    /\ calls = {}
    /\ seen = [n \in Nodes |-> {}]
    /\ watermark = [n \in Nodes |-> 0]
    /\ told = [n \in Nodes |-> [r \in Offsets |-> 0]]
    /\ furthest = 0
    /\ due = [r \in Offsets |-> {}]
    /\ forgotten = [n \in Nodes |-> {}] /\ lapsed = [n \in Nodes |-> {}]
    /\ view = [n \in Nodes |-> "held"]
    /\ hinted = [n \in Nodes |-> {}] /\ overtaken = [n \in Nodes |-> {}]
    /\ mishaps = 0

DispatchNext ==
    \/ \E d \in Dispatchers :
         \/ Take(d) \/ Resolve(d) \/ GiveUpRecord(d) \/ Complete(d) \/ Rebalance(d)
         \/ \E n \in Nodes, path \in {"user", "guild"} : Call(d, n, path)
    \/ Commit
    \/ \E c \in calls : Accept(c) \/ Deliver(c) \/ ReloadFails(c) \/ Withhold(c)
    \/ \E n \in Nodes :
         \/ Restart(n) \/ Invalidate(n) \/ Lapse(n)
         \/ \E key \in seen[n] : Forget(n, key)

DispatchSpec == DispatchInit /\ [][DispatchNext]_dispatchVars

-------------------------------------------------------------------------------
(* No completed record is missing.  When a record is first completed, every  *)
(* recipient on the nodes it was resolved to has been sent it, or a handler  *)
(* that has accepted it is about to: dropping repeated calls and stale       *)
(* messages (dispatch.go, watermark.go) never drops a record altogether, for *)
(* all the retries, rebalances and late calls of the Dispatcher.  The one    *)
(* exception is a message whose recipient's snapshot could not be loaded     *)
(* (dispatchVisibleGuildChannel): it is withheld for good, as its retries    *)
(* count as seen.  The recipient has then been told to reconcile since the   *)
(* snapshot was dropped, unless another handler has loaded it again just     *)
(* before the hint.                                                          *)
CompletedRecordsTold ==
    \A r \in Offsets : \A n \in due[r] :
        \/ told[n][r] > 0
        \/ \E c \in calls : c.node = n /\ c.record = r /\ c.accepted
        \/ r \in hinted[n] \cup overtaken[n]

(* Records are repeated, and a delivery is repeated only when what remembers *)
(* it has expired: while its node lives, a recipient is sent a channel's     *)
(* message again only after both the message's entry in the duplicate filter *)
(* and the channel's watermark have expired (dedup.go, watermark.go), and a  *)
(* profile or presence update again, although it arrives by two routes, only *)
(* after an entry of that update has expired.                                *)
ToldOnce ==
    \A n \in DOMAIN told, r \in Offsets :
        told[n][r] > 1 => r \in forgotten[n] /\ (r \in Messages => r \in lapsed[n])
===============================================================================
