-------------------------- MODULE DeliveryProofs ---------------------------
(***************************************************************************)
(* The parts an event passes on its way to a client that share no state    *)
(* with the others: the Dispatcher with the filters of the Session nodes,  *)
(* the filter for duplicates itself, and the presence snapshots.  Each is  *)
(* proved by itself, for any number of keys, nodes, records, calls and     *)
(* failures.                                                               *)
(***************************************************************************)
EXTENDS Dispatch, DedupStore, Presence, TLAPS

-----------------------------------------------------------------------------
(***************************************************************************)
(* The Dispatcher and the Session nodes.  What makes a node drop the       *)
(* newest record shows that the node has it (DropsAreServed), and nobody   *)
(* is more than a record ahead of the group (AttemptsFollowLog); so a      *)
(* record is completed when every node called for it has it, or has        *)
(* withheld it for want of a visibility snapshot.  Deliveries are told     *)
(* once because a message stays below its watermark until that expires and *)
(* is remembered by the filter until its entry does (MessagesPassOnce),    *)
(* and another record is remembered by recipient until its entry expires   *)
(* (UpdatesAreRemembered).                                                 *)
(***************************************************************************)

(* Calls of the Dispatchers, their attempts and the keys of the filters.     *)
CallPaths == {"user", "guild"}

CallSet == [by : Dispatchers \cup {NoDispatcher}, node : Nodes, path : CallPaths,
            record : Offsets, accepted : BOOLEAN, failed : BOOLEAN]

AttemptSet == [record : 0 .. Records, left : SUBSET (Nodes \X CallPaths),
               reached : SUBSET Nodes, resolved : BOOLEAN]

SeenKeys == {"user", "guild", "recipient"} \X Offsets

DispatchTypeOK ==
    /\ consumer \in Dispatchers
    /\ committed \in 0 .. Records /\ completed \in 0 .. Records /\ furthest \in 0 .. Records
    /\ attempt \in [Dispatchers -> AttemptSet]
    /\ calls \subseteq CallSet
    /\ seen \in [Nodes -> SUBSET SeenKeys]
    /\ watermark \in [Nodes -> 0 .. Records]
    /\ told \in [Nodes -> [Offsets -> Nat]]
    /\ due \in [Offsets -> SUBSET Nodes]
    /\ forgotten \in [Nodes -> SUBSET Offsets] /\ lapsed \in [Nodes -> SUBSET Offsets]
    /\ view \in [Nodes -> {"held", "dropped", "hinted"}]
    /\ hinted \in [Nodes -> SUBSET Offsets] /\ overtaken \in [Nodes -> SUBSET Offsets]
    /\ mishaps \in Nat

(* A Dispatcher is at most one record past the last one completed, and its   *)
(* calls are for the record it is at.                                        *)
AttemptsFollowLog ==
    /\ committed <= furthest /\ completed <= furthest
    /\ \A d \in Dispatchers :
         /\ attempt[d].record <= furthest + 1
         /\ attempt[d].record = 0 => attempt[d].left = {} /\ ~attempt[d].resolved
    /\ \A c \in calls : /\ c.record <= furthest + 1
                        /\ c.by # NoDispatcher => attempt[c.by].record = c.record

(* The recipient of n was sent record r, or an accepted call will send it,   *)
(* or it was withheld because no snapshot could be loaded.                   *)
Served(n, r) ==
    \/ told[n][r] > 0
    \/ \E c \in calls : c.node = n /\ c.record = r /\ c.accepted
    \/ r \in hinted[n] \cup overtaken[n]

(* What makes a node drop the newest record shows that it has it.            *)
DropsAreServed ==
    \A n \in Nodes :
        /\ \A key \in seen[n] : key[2] > furthest => Served(n, key[2])
        /\ watermark[n] <= furthest + 1
        /\ watermark[n] > furthest => Served(n, watermark[n])
        /\ \A r \in Offsets : <<"recipient", r>> \in seen[n] => told[n][r] > 0

(* A node that has answered for the newest record has it.                    *)
ReachedAreServed ==
    \A d \in Dispatchers : attempt[d].record > furthest =>
        \A n \in attempt[d].reached : Served(n, attempt[d].record)

(* What the delivery of completed records rests on.                          *)
ServedInv ==
    DispatchTypeOK /\ AttemptsFollowLog /\ DropsAreServed /\ ReachedAreServed
      /\ CompletedRecordsTold

(* A message is called for by the guild's route only.                        *)
MessagesHaveOnePath ==
    /\ \A d \in Dispatchers, n \in Nodes :
         attempt[d].record \in Messages => <<n, "user">> \notin attempt[d].left
    /\ \A c \in calls : c.record \in Messages => c.path = "guild"

(* Call c was accepted at n for record r.                                    *)
Sends(c, n, r) == c.accepted /\ c.node = n /\ c.record = r

(* Message r was sent to the recipient of n, or an accepted call will send   *)
(* it.                                                                       *)
Passed(n, r) == told[n][r] > 0 \/ \E c \in calls : Sends(c, n, r)

(* It was sent once at most, and one call at most will send it.              *)
Single(n, r) ==
    /\ told[n][r] <= 1
    /\ \A c, e \in calls : Sends(c, n, r) /\ Sends(e, n, r) => c = e /\ told[n][r] = 0

(* A message is accepted at a node once: the watermark is past it until that *)
(* expires, and the filter for duplicates has its key until that expires.    *)
PassesOnce(n, r) ==
    /\ r \notin lapsed[n] \/ r \notin forgotten[n] => Single(n, r)
    /\ r \notin lapsed[n] /\ Passed(n, r) => r <= watermark[n]
    /\ r \notin forgotten[n] /\ Passed(n, r) => <<"guild", r>> \in seen[n]

MessagesPassOnce == \A n \in Nodes, r \in Messages : PassesOnce(n, r)

(* The other records are remembered by recipient, until an entry expires.    *)
UpdatesAreRemembered ==
    \A n \in Nodes : \A r \in Offsets \ (Messages \cup forgotten[n]) :
        told[n][r] <= 1 /\ (told[n][r] > 0 => <<"recipient", r>> \in seen[n])

(* What the delivery of a record to one recipient once rests on.             *)
OnceInv ==
    DispatchTypeOK /\ MessagesHaveOnePath /\ MessagesPassOnce /\ UpdatesAreRemembered

-------------------------------------------------------------------------------
(* The fields of a call, and of the same call accepted, failed or orphaned.  *)
LEMMA CallFields ==
    ASSUME NEW c \in CallSet
    PROVE  /\ c.by \in Dispatchers \cup {NoDispatcher} /\ c.node \in Nodes
           /\ c.path \in CallPaths /\ c.record \in Offsets /\ c.accepted \in BOOLEAN
           /\ [c EXCEPT !.failed = TRUE] \in CallSet
           /\ [c EXCEPT !.failed = TRUE].accepted = c.accepted
           /\ [c EXCEPT !.failed = TRUE].node = c.node
           /\ [c EXCEPT !.failed = TRUE].record = c.record
           /\ [c EXCEPT !.failed = TRUE].by = c.by
           /\ [c EXCEPT !.failed = TRUE].path = c.path
           /\ [c EXCEPT !.accepted = TRUE] \in CallSet
           /\ [c EXCEPT !.accepted = TRUE].accepted
           /\ [c EXCEPT !.accepted = TRUE].node = c.node
           /\ [c EXCEPT !.accepted = TRUE].record = c.record
           /\ [c EXCEPT !.accepted = TRUE].by = c.by
           /\ [c EXCEPT !.accepted = TRUE].path = c.path
           /\ \A b \in Dispatchers \cup {NoDispatcher} :
                /\ [c EXCEPT !.by = b] \in CallSet
                /\ [c EXCEPT !.by = b].by = b
                /\ [c EXCEPT !.by = b].accepted = c.accepted
                /\ [c EXCEPT !.by = b].node = c.node
                /\ [c EXCEPT !.by = b].record = c.record
                /\ [c EXCEPT !.by = b].path = c.path
BY Zenon DEF CallSet

(* The record an idle Dispatcher has, and one that starts a record.          *)
LEMMA AttemptValues ==
    /\ Idling \in AttemptSet
    /\ Idling.record = 0 /\ Idling.left = {} /\ Idling.reached = {} /\ ~Idling.resolved
    /\ \A r \in 0 .. Records :
         /\ Working(r) \in AttemptSet
         /\ Working(r).record = r /\ Working(r).left = {} /\ Working(r).reached = {}
         /\ ~Working(r).resolved
BY DispatchConstants DEF Idling, Working, AttemptSet

(* What a Dispatcher's attempt becomes when it resolves the routes, when a   *)
(* node was called, and when a call of it has returned.                      *)
LEMMA AttemptUpdates ==
    ASSUME NEW a \in AttemptSet
    PROVE  /\ a.record \in 0 .. Records /\ a.left \in SUBSET (Nodes \X CallPaths)
           /\ a.reached \in SUBSET Nodes
           /\ \A left \in SUBSET (Nodes \X CallPaths) :
                /\ [a EXCEPT !.left = left] \in AttemptSet
                /\ [a EXCEPT !.left = left].record = a.record
                /\ [a EXCEPT !.left = left].reached = a.reached
                /\ [a EXCEPT !.left = left].resolved = a.resolved
                /\ [a EXCEPT !.left = left, !.resolved = TRUE] \in AttemptSet
                /\ [a EXCEPT !.left = left, !.resolved = TRUE].record = a.record
                /\ [a EXCEPT !.left = left, !.resolved = TRUE].reached = a.reached
           /\ \A reached \in SUBSET Nodes :
                /\ [a EXCEPT !.reached = reached] \in AttemptSet
                /\ [a EXCEPT !.reached = reached].record = a.record
                /\ [a EXCEPT !.reached = reached].reached = reached
                /\ [a EXCEPT !.reached = reached].left = a.left
                /\ [a EXCEPT !.reached = reached].resolved = a.resolved
BY Zenon DEF AttemptSet

(* A returned call adds its node to those its caller has reached.            *)
LEMMA AnswerUpdates ==
    ASSUME attempt \in [Dispatchers -> AttemptSet], NEW c \in CallSet, Answer(c)
    PROVE  /\ attempt' \in [Dispatchers -> AttemptSet]
           /\ \A d \in Dispatchers :
                /\ attempt'[d].record = attempt[d].record /\ attempt'[d].left = attempt[d].left
                /\ attempt'[d].resolved = attempt[d].resolved
                /\ attempt'[d].reached \subseteq
                     attempt[d].reached \cup (IF d = c.by THEN {c.node} ELSE {})
<1>1. CASE attempt' = attempt
  BY <1>1, Zenon
<1>2. CASE attempt' # attempt
  <2> DEFINE a == attempt[c.by]
             b == [a EXCEPT !.reached = a.reached \cup {c.node}]
  <2>1. c.by \in Dispatchers /\ attempt' = [attempt EXCEPT ![c.by] = b]
    BY <1>2, CallFields, Zenon DEF Answer
  <2>2. a \in AttemptSet
    BY <2>1, Zenon
  <2>3. a.reached \cup {c.node} \in SUBSET Nodes
    <3>1. a.reached \in SUBSET Nodes
      BY <2>2, AttemptUpdates, Zenon
    <3>2. c.node \in Nodes
      BY CallFields, Zenon
    <3> QED  BY <3>1, <3>2, Zenon
  <2>4. /\ b \in AttemptSet /\ b.record = a.record /\ b.left = a.left
        /\ b.resolved = a.resolved /\ b.reached = a.reached \cup {c.node}
    BY <2>2, <2>3, AttemptUpdates, Zenon
  <2> HIDE DEF a, b
  <2>5. ASSUME NEW d \in Dispatchers
        PROVE  attempt'[d] = IF d = c.by THEN b ELSE attempt[d]
    BY <2>1, Zenon
  <2>6. a = attempt[c.by]
    BY Zenon DEF a
  <2> QED  BY <2>1, <2>4, <2>5, <2>6, Zenon
<1> QED  BY <1>1, <1>2, Zenon

(* Offsets are positive.                                                     *)
LEMMA OffsetsPositive ==
    /\ Records \in Nat /\ Messages \subseteq Offsets /\ Offsets \subseteq 0 .. Records
    /\ \A r \in Offsets : r \in Nat /\ r # 0 /\ r > 0 /\ r <= Records
BY DispatchConstants DEF Offsets

(* Type correctness of the Dispatcher and of the nodes' filters (server.go,  *)
(* dispatch.go, watermark.go).                                               *)
LEMMA DispatchTypeStep ==
    ASSUME DispatchTypeOK, AttemptsFollowLog, [DispatchNext]_dispatchVars
    PROVE  DispatchTypeOK'
<1>t. /\ consumer \in Dispatchers
      /\ committed \in 0 .. Records /\ completed \in 0 .. Records /\ furthest \in 0 .. Records
      /\ attempt \in [Dispatchers -> AttemptSet]
      /\ calls \subseteq CallSet
      /\ seen \in [Nodes -> SUBSET SeenKeys]
      /\ watermark \in [Nodes -> 0 .. Records]
      /\ told \in [Nodes -> [Offsets -> Nat]]
      /\ due \in [Offsets -> SUBSET Nodes]
      /\ forgotten \in [Nodes -> SUBSET Offsets] /\ lapsed \in [Nodes -> SUBSET Offsets]
      /\ view \in [Nodes -> {"held", "dropped", "hinted"}]
      /\ hinted \in [Nodes -> SUBSET Offsets] /\ overtaken \in [Nodes -> SUBSET Offsets]
      /\ mishaps \in Nat
  BY Zenon DEF DispatchTypeOK
<1>m. Mishap => mishaps' \in Nat
  BY <1>t DEF Mishap
<1>1. ASSUME NEW d \in Dispatchers, Take(d)  PROVE DispatchTypeOK'
  <2>1. completed + 1 \in 0 .. Records
    BY <1>1, <1>t, OffsetsPositive DEF Take
  <2>2. attempt' \in [Dispatchers -> AttemptSet]
    BY <1>1, <1>t, <2>1, AttemptValues, Zenon DEF Take
  <2> QED  BY <1>1, <1>t, <2>2, Zenon DEF Take, DispatchTypeOK, filterVars, deliveryVars
<1>2. ASSUME NEW d \in Dispatchers, Resolve(d)  PROVE DispatchTypeOK'
  <2>1. Paths(attempt[d].record) \subseteq CallPaths
    BY Zenon DEF Paths, CallPaths
  <2>2. Nodes \X Paths(attempt[d].record) \in SUBSET (Nodes \X CallPaths)
    BY <2>1, Zenon
  <2>3. attempt' \in [Dispatchers -> AttemptSet]
    BY <1>2, <1>t, <2>2, AttemptUpdates, Zenon DEF Resolve
  <2> QED  BY <1>2, <1>t, <2>3, Zenon DEF Resolve, DispatchTypeOK, filterVars, deliveryVars
<1>3. ASSUME NEW d \in Dispatchers, NEW n \in Nodes, NEW path \in {"user", "guild"},
             Call(d, n, path)
      PROVE  DispatchTypeOK'
  <2>1. attempt[d].record \in Offsets
    BY <1>3, <1>t, OffsetsPositive DEF Call, AttemptsFollowLog, AttemptSet, Offsets
  <2>2. calls' \subseteq CallSet
    <3>1. [by |-> d, node |-> n, path |-> path, record |-> attempt[d].record,
           accepted |-> FALSE, failed |-> FALSE] \in CallSet
      BY <2>1, Zenon DEF CallSet, CallPaths
    <3> QED  BY <1>3, <1>t, <3>1, Zenon DEF Call
  <2>3. attempt[d].left \ {<<n, path>>} \in SUBSET (Nodes \X CallPaths)
    BY <1>t, AttemptUpdates, Zenon
  <2>4. attempt' \in [Dispatchers -> AttemptSet]
    BY <1>3, <1>t, <2>3, AttemptUpdates, Zenon DEF Call
  <2> QED  BY <1>3, <1>t, <2>2, <2>4, Zenon DEF Call, DispatchTypeOK, filterVars, deliveryVars
<1>4. ASSUME NEW d \in Dispatchers, GiveUpRecord(d)  PROVE DispatchTypeOK'
  <2>1. calls' \subseteq CallSet
    <3>1. PICK cut \in SUBSET calls :
            calls' = {[c EXCEPT !.by = IF @ = d THEN NoDispatcher ELSE @] : c \in calls \ cut}
      BY <1>4, Zenon DEF GiveUpRecord
    <3>2. ASSUME NEW c \in calls
          PROVE  [c EXCEPT !.by = IF @ = d THEN NoDispatcher ELSE @] \in CallSet
      BY <1>t, CallFields, Zenon
    <3> QED  BY <3>1, <3>2, Zenon
  <2>2. attempt' \in [Dispatchers -> AttemptSet]
    BY <1>4, <1>t, AttemptValues, Zenon DEF GiveUpRecord, AttemptSet
  <2> QED  BY <1>4, <1>t, <1>m, <2>1, <2>2, Zenon
          DEF GiveUpRecord, DispatchTypeOK, filterVars, deliveryVars
<1>5. ASSUME NEW d \in Dispatchers, Complete(d)  PROVE DispatchTypeOK'
  <2>1. attempt' \in [Dispatchers -> AttemptSet]
    BY <1>5, <1>t, AttemptValues, Zenon DEF Complete
  <2>2. attempt[d].record \in 0 .. Records /\ attempt[d].reached \in SUBSET Nodes
    BY <1>t, Zenon DEF AttemptSet
  <2>3. due' \in [Offsets -> SUBSET Nodes]
    BY <1>5, <1>t, <2>2, Zenon DEF Complete
  <2> QED  BY <1>5, <1>t, <2>1, <2>2, <2>3, Zenon DEF Complete, DispatchTypeOK, filterVars, deliveryVars
<1>6. ASSUME NEW d \in Dispatchers, Rebalance(d)  PROVE DispatchTypeOK'
  BY <1>6, <1>t, <1>m, Zenon DEF Rebalance, DispatchTypeOK, filterVars, deliveryVars
<1>7. CASE Commit
  BY <1>7, <1>t, Zenon DEF Commit, DispatchTypeOK, filterVars, deliveryVars
<1>8. ASSUME NEW c \in calls, Accept(c)  PROVE DispatchTypeOK'
  <2>1. /\ c.by \in Dispatchers \cup {NoDispatcher} /\ c.node \in Nodes
        /\ c.path \in CallPaths /\ c.record \in Offsets
        /\ [c EXCEPT !.accepted = TRUE] \in CallSet
    BY <1>t, CallFields, Zenon
  <2>2. calls' \subseteq CallSet
    BY <1>8, <1>t, <2>1, Zenon DEF Accept
  <2>3. attempt' \in [Dispatchers -> AttemptSet]
    BY <1>8, <1>t, AnswerUpdates, Zenon DEF Accept
  <2>4. seen' \in [Nodes -> SUBSET SeenKeys]
    BY <1>8, <1>t, <2>1 DEF Accept, SeenKeys, CallPaths
  <2>5. watermark' \in [Nodes -> 0 .. Records]
    BY <1>8, <1>t, <2>1, OffsetsPositive, Zenon DEF Accept
  <2> QED  BY <1>8, <1>t, <2>2, <2>3, <2>4, <2>5, Zenon
          DEF Accept, DispatchTypeOK, deliveryVars
<1>9. ASSUME NEW c \in calls, Deliver(c)  PROVE DispatchTypeOK'
  <2>1. c.by \in Dispatchers \cup {NoDispatcher} /\ c.node \in Nodes /\ c.record \in Offsets
    BY <1>t, CallFields, Zenon
  <2>2. attempt' \in [Dispatchers -> AttemptSet]
    BY <1>9, <1>t, AnswerUpdates, Zenon DEF Deliver
  <2>3. seen' \in [Nodes -> SUBSET SeenKeys]
    BY <1>9, <1>t, <2>1 DEF Deliver, SeenKeys
  <2>4. told' \in [Nodes -> [Offsets -> Nat]]
    <3>1. told' = told
          \/ told' = [told EXCEPT ![c.node] =
                         [told[c.node] EXCEPT ![c.record] = told[c.node][c.record] + 1]]
      BY <1>9, Zenon DEF Deliver
    <3>2. [told[c.node] EXCEPT ![c.record] = @ + 1] \in [Offsets -> Nat]
      BY <1>t, <2>1
    <3> QED  BY <3>1, <3>2, <1>t, <2>1, Zenon
  <2>5. view' \in [Nodes -> {"held", "dropped", "hinted"}]
    BY <1>9, <1>t, <2>1, Zenon DEF Deliver
  <2> QED  BY <1>9, <1>t, <2>2, <2>3, <2>4, <2>5, Zenon DEF Deliver, DispatchTypeOK
<1>10. ASSUME NEW n \in Nodes, Restart(n)  PROVE DispatchTypeOK'
  <2>1. attempt' \in [Dispatchers -> AttemptSet]
    <3>1. ASSUME NEW d \in Dispatchers
          PROVE  /\ Working(attempt[d].record) \in AttemptSet
                 /\ [attempt[d] EXCEPT !.reached = @ \ {n}] \in AttemptSet
      BY <1>t, AttemptValues DEF AttemptSet
    <3> QED  BY <3>1, <1>10, Zenon DEF Restart
  <2>2. told' \in [Nodes -> [Offsets -> Nat]] /\ due' \in [Offsets -> SUBSET Nodes]
    BY <1>10, <1>t, Zenon DEF Restart
  <2>3. watermark' \in [Nodes -> 0 .. Records]
    BY <1>10, <1>t, OffsetsPositive DEF Restart
  <2>4. /\ calls' \subseteq CallSet /\ seen' \in [Nodes -> SUBSET SeenKeys]
        /\ forgotten' \in [Nodes -> SUBSET Offsets] /\ lapsed' \in [Nodes -> SUBSET Offsets]
        /\ view' \in [Nodes -> {"held", "dropped", "hinted"}]
        /\ hinted' \in [Nodes -> SUBSET Offsets] /\ overtaken' \in [Nodes -> SUBSET Offsets]
    BY <1>10, <1>t, Zenon DEF Restart
  <2> QED  BY <1>10, <1>t, <1>m, <2>1, <2>2, <2>3, <2>4, Zenon DEF Restart, DispatchTypeOK
<1>11. ASSUME NEW n \in Nodes, NEW key \in seen[n], Forget(n, key)  PROVE DispatchTypeOK'
  <2>1. key[2] \in Offsets
    BY <1>t DEF SeenKeys
  <2>2. seen' \in [Nodes -> SUBSET SeenKeys] /\ forgotten' \in [Nodes -> SUBSET Offsets]
    BY <1>11, <1>t, <2>1, Zenon DEF Forget
  <2> QED  BY <1>11, <1>t, <1>m, <2>2, Zenon DEF Forget, DispatchTypeOK, deliveryVars
<1>12. CASE UNCHANGED dispatchVars
  BY <1>12, <1>t, Zenon DEF dispatchVars, DispatchTypeOK, filterVars, deliveryVars
<1>13. ASSUME NEW c \in calls, ReloadFails(c)  PROVE DispatchTypeOK'
  <2> DEFINE e == [c EXCEPT !.failed = TRUE]
  <2>0. c \in CallSet /\ e \in CallSet
    BY <1>t, CallFields, Zenon
  <2> HIDE DEF e
  <2>1. calls' \subseteq CallSet
    BY <1>13, <1>t, <2>0, Zenon DEF ReloadFails, e
  <2> QED  BY <1>13, <1>t, <1>m, <2>1, Zenon
          DEF ReloadFails, DispatchTypeOK, filterVars, deliveryVars
<1>14. ASSUME NEW c \in calls, Withhold(c)  PROVE DispatchTypeOK'
  <2>1. c.node \in Nodes /\ c.record \in Offsets
    BY <1>t, CallFields, Zenon
  <2>2. attempt' \in [Dispatchers -> AttemptSet]
    BY <1>14, <1>t, AnswerUpdates, Zenon DEF Withhold
  <2>3. /\ view' \in [Nodes -> {"held", "dropped", "hinted"}]
        /\ hinted' \in [Nodes -> SUBSET Offsets] /\ overtaken' \in [Nodes -> SUBSET Offsets]
    <3>1. CASE view[c.node] = "held"
      <4>1. /\ overtaken' = [overtaken EXCEPT ![c.node] = @ \cup {c.record}]
            /\ view' = view /\ hinted' = hinted
        BY <1>14, <3>1, Zenon DEF Withhold
      <4> QED  BY <4>1, <1>t, <2>1, Zenon
    <3>2. CASE view[c.node] # "held"
      <4>1. /\ view' = [view EXCEPT ![c.node] = "hinted"]
            /\ hinted' = [hinted EXCEPT ![c.node] = @ \cup {c.record}]
            /\ overtaken' = overtaken
        BY <1>14, <3>2, Zenon DEF Withhold
      <4> QED  BY <4>1, <1>t, <2>1, Zenon
    <3> QED  BY <3>1, <3>2, Zenon
  <2> QED  BY <1>14, <1>t, <2>2, <2>3, Zenon DEF Withhold, DispatchTypeOK, filterVars
<1>15. ASSUME NEW n \in Nodes, Invalidate(n)  PROVE DispatchTypeOK'
  <2>1. view' \in [Nodes -> {"held", "dropped", "hinted"}]
    BY <1>15, <1>t, Zenon DEF Invalidate
  <2> QED  BY <1>15, <1>t, <1>m, <2>1, Zenon DEF Invalidate, DispatchTypeOK, filterVars
<1>16. ASSUME NEW n \in Nodes, Lapse(n)  PROVE DispatchTypeOK'
  <2>1. watermark' \in [Nodes -> 0 .. Records]
    BY <1>16, <1>t, OffsetsPositive DEF Lapse
  <2>2. lapsed' \in [Nodes -> SUBSET Offsets]
    BY <1>16, <1>t, OffsetsPositive, Zenon DEF Lapse
  <2> QED  BY <1>16, <1>t, <1>m, <2>1, <2>2, Zenon DEF Lapse, DispatchTypeOK, deliveryVars
<1> QED
  BY <1>1, <1>2, <1>3, <1>4, <1>5, <1>6, <1>7, <1>8, <1>9, <1>10, <1>11, <1>12, <1>13, <1>14,
     <1>15, <1>16, Zenon DEF DispatchNext

(* A Dispatcher works on the record after the last completed one or on an    *)
(* earlier one, also when the partition has moved back to the committed      *)
(* offset (server.go).                                                       *)
LEMMA FollowStep ==
    ASSUME DispatchTypeOK, AttemptsFollowLog, [DispatchNext]_dispatchVars
    PROVE  AttemptsFollowLog' /\ furthest <= furthest'
<1>t. /\ committed \in 0 .. Records /\ completed \in 0 .. Records /\ furthest \in 0 .. Records
      /\ attempt \in [Dispatchers -> AttemptSet]
      /\ calls \subseteq CallSet
      /\ \A d \in Dispatchers : attempt[d].record \in 0 .. Records
      /\ \A c \in calls : c.record \in Offsets /\ c.by \in Dispatchers \cup {NoDispatcher}
      /\ \A c \in calls : c.record \in Nat /\ c.record > 0
  BY CallFields, AttemptUpdates, OffsetsPositive, Zenon DEF DispatchTypeOK
<1>n. Records \in Nat /\ NoDispatcher \notin Dispatchers
  BY DispatchConstants, Zenon
<1>s. ASSUME UNCHANGED <<committed, completed, furthest, attempt>>, calls' \subseteq calls
      PROVE  AttemptsFollowLog' /\ furthest <= furthest'
  BY <1>s, <1>t, <1>n DEF AttemptsFollowLog
<1>1. ASSUME NEW d \in Dispatchers, Take(d)  PROVE AttemptsFollowLog' /\ furthest <= furthest'
  <2>1. completed + 1 \in 0 .. Records
    BY <1>1, <1>t, <1>n DEF Take
  <2>2. /\ \A e \in Dispatchers \ {d} : attempt'[e] = attempt[e]
        /\ attempt'[d].record = completed + 1
        /\ UNCHANGED <<committed, completed, furthest, calls>>
    BY <1>1, <1>t, <2>1, AttemptValues, Zenon DEF Take
  <2>3. \A c \in calls : c.by # d
    BY <1>1, <1>t, <1>n, AttemptValues DEF Take, AttemptsFollowLog
  <2> QED  BY <2>1, <2>2, <2>3, <1>t, <1>n DEF AttemptsFollowLog
<1>2. ASSUME NEW d \in Dispatchers, Resolve(d)  PROVE AttemptsFollowLog' /\ furthest <= furthest'
  <2>1. Nodes \X Paths(attempt[d].record) \in SUBSET (Nodes \X CallPaths)
    BY Zenon DEF Paths, CallPaths
  <2>2. /\ \A e \in Dispatchers \ {d} : attempt'[e] = attempt[e]
        /\ attempt'[d].record = attempt[d].record /\ attempt[d].record # 0
        /\ UNCHANGED <<committed, completed, furthest, calls>>
    BY <1>2, <1>t, <2>1, AttemptUpdates, Zenon DEF Resolve
  <2> QED  BY <2>2, <1>t, <1>n DEF AttemptsFollowLog
<1>3. ASSUME NEW d \in Dispatchers, NEW n \in Nodes, NEW path \in {"user", "guild"},
             Call(d, n, path)
      PROVE  AttemptsFollowLog' /\ furthest <= furthest'
  <2> DEFINE new == [by |-> d, node |-> n, path |-> path, record |-> attempt[d].record,
                     accepted |-> FALSE, failed |-> FALSE]
  <2>1. attempt[d].left \ {<<n, path>>} \in SUBSET (Nodes \X CallPaths)
    BY <1>t, AttemptUpdates, Zenon
  <2>2. /\ \A e \in Dispatchers \ {d} : attempt'[e] = attempt[e]
        /\ attempt'[d].record = attempt[d].record
        /\ UNCHANGED <<committed, completed, furthest>> /\ calls' = calls \cup {new}
    BY <1>3, <1>t, <2>1, AttemptUpdates, Zenon DEF Call
  <2>3. new.record = attempt[d].record /\ new.by = d
    OBVIOUS
  <2>4. attempt[d].record # 0
    BY <1>3, Zenon DEF Call, AttemptsFollowLog
  <2> HIDE DEF new
  <2> QED  BY <2>2, <2>3, <2>4, <1>t, <1>n DEF AttemptsFollowLog
<1>4. ASSUME NEW d \in Dispatchers, GiveUpRecord(d)
      PROVE AttemptsFollowLog' /\ furthest <= furthest'
  <2>1. /\ \A e \in Dispatchers \ {d} : attempt'[e] = attempt[e]
        /\ attempt'[d].record = attempt[d].record
        /\ attempt[d].record # 0
        /\ UNCHANGED <<committed, completed, furthest>>
    BY <1>4, <1>t, <1>n, AttemptValues DEF GiveUpRecord, AttemptsFollowLog
  <2>2. ASSUME NEW c \in calls'
        PROVE  \E e \in calls : /\ c.record = e.record
                                 /\ c.by = IF e.by = d THEN NoDispatcher ELSE e.by
    <3>1. PICK e \in calls : c = [e EXCEPT !.by = IF @ = d THEN NoDispatcher ELSE @]
      BY <1>4, <2>2, Zenon DEF GiveUpRecord
    <3>2. e \in CallSet
      BY <1>t, Zenon
    <3> QED  BY <3>1, <3>2, CallFields
  <2>3. ASSUME NEW c \in calls'
        PROVE  /\ c.record <= furthest' + 1
               /\ c.by # NoDispatcher => attempt'[c.by].record = c.record
    BY <2>1, <2>2, <1>t DEF AttemptsFollowLog
  <2> QED  BY <2>1, <2>3, <1>t, <1>n DEF AttemptsFollowLog
<1>5. ASSUME NEW d \in Dispatchers, Complete(d)  PROVE AttemptsFollowLog' /\ furthest <= furthest'
  <2>1. /\ \A e \in Dispatchers \ {d} : attempt'[e] = attempt[e]
        /\ attempt'[d].record = 0 /\ attempt'[d].left = {} /\ ~attempt'[d].resolved
    BY <1>5, <1>t, AttemptValues, Zenon DEF Complete
  <2>2. /\ committed' = committed /\ calls' = calls /\ \A c \in calls : c.by # d
        /\ \/ UNCHANGED <<completed, furthest>>
           \/ /\ completed' = attempt[d].record
              /\ furthest' = IF attempt[d].record > furthest THEN attempt[d].record ELSE furthest
    BY <1>5, Zenon DEF Complete
  <2>3. committed' <= furthest' /\ completed' <= furthest' /\ furthest <= furthest'
    BY <2>2, <1>5, <1>t, <1>n DEF AttemptsFollowLog, Complete
  <2> QED  BY <2>1, <2>2, <2>3, <1>t, <1>n DEF AttemptsFollowLog
<1>6. ASSUME NEW d \in Dispatchers, Rebalance(d)  PROVE AttemptsFollowLog' /\ furthest <= furthest'
  BY <1>6, <1>t, <1>n DEF Rebalance, AttemptsFollowLog
<1>7. CASE Commit
  BY <1>7, <1>t, <1>n DEF Commit, AttemptsFollowLog
<1>8. ASSUME NEW c \in calls, Accept(c)  PROVE AttemptsFollowLog' /\ furthest <= furthest'
  <2>1. UNCHANGED <<committed, completed, furthest>>
    BY <1>8, Zenon DEF Accept
  <2>2. \A d \in Dispatchers :
          /\ attempt'[d].record = attempt[d].record /\ attempt'[d].left = attempt[d].left
          /\ attempt'[d].resolved = attempt[d].resolved
    BY <1>8, <1>t, AnswerUpdates, Zenon DEF Accept
  <2>3. \A e \in calls' : \E f \in calls : e.record = f.record /\ e.by = f.by
    <3>1. c \in CallSet /\ calls' \subseteq calls \cup {[c EXCEPT !.accepted = TRUE]}
      BY <1>8, <1>t, Zenon DEF Accept
    <3> QED  BY <3>1, Zenon DEF CallSet
  <2>4. ASSUME NEW e \in calls'
        PROVE  /\ e.record <= furthest' + 1
               /\ e.by # NoDispatcher => attempt'[e.by].record = e.record
    BY <2>1, <2>2, <2>3, <1>t DEF AttemptsFollowLog
  <2>5. \A d \in Dispatchers :
          /\ attempt'[d].record <= furthest' + 1
          /\ attempt'[d].record = 0 => attempt'[d].left = {} /\ ~attempt'[d].resolved
    BY <2>1, <2>2, Zenon DEF AttemptsFollowLog
  <2> QED  BY <2>1, <2>4, <2>5, <1>t DEF AttemptsFollowLog
<1>9. ASSUME NEW c \in calls, Deliver(c) \/ Withhold(c)
      PROVE  AttemptsFollowLog' /\ furthest <= furthest'
  <2>1. UNCHANGED <<committed, completed, furthest>> /\ calls' \subseteq calls
    BY <1>9, Zenon DEF Deliver, Withhold
  <2>2. \A d \in Dispatchers :
          /\ attempt'[d].record = attempt[d].record /\ attempt'[d].left = attempt[d].left
          /\ attempt'[d].resolved = attempt[d].resolved
    BY <1>9, <1>t, AnswerUpdates, Zenon DEF Deliver, Withhold
  <2>3. \A d \in Dispatchers :
          /\ attempt'[d].record <= furthest' + 1
          /\ attempt'[d].record = 0 => attempt'[d].left = {} /\ ~attempt'[d].resolved
    BY <2>1, <2>2, Zenon DEF AttemptsFollowLog
  <2> QED  BY <2>1, <2>2, <2>3, <1>t DEF AttemptsFollowLog
<1>10. ASSUME NEW n \in Nodes, Restart(n)  PROVE AttemptsFollowLog' /\ furthest <= furthest'
  <2>1. UNCHANGED <<committed, completed, furthest>> /\ calls' \subseteq calls
    BY <1>10, Zenon DEF Restart
  <2>2. ASSUME NEW d \in Dispatchers
        PROVE  /\ attempt'[d].record = attempt[d].record
               /\ attempt'[d].record = 0 => attempt'[d].left = {} /\ ~attempt'[d].resolved
    <3>1. CASE \E c \in calls : c.node = n /\ c.by = d
      BY <3>1, <1>10, <1>t, AttemptValues, Zenon DEF Restart
    <3>2. CASE ~\E c \in calls : c.node = n /\ c.by = d
      <4> DEFINE others == attempt[d].reached \ {n}
      <4>1. attempt'[d] = [attempt[d] EXCEPT !.reached = others]
        BY <3>2, <1>10, Zenon DEF Restart
      <4>2. attempt[d] \in AttemptSet /\ others \in SUBSET Nodes
        BY <1>t, AttemptUpdates, Zenon
      <4> HIDE DEF others
      <4>3. /\ attempt'[d].record = attempt[d].record /\ attempt'[d].left = attempt[d].left
            /\ attempt'[d].resolved = attempt[d].resolved
        BY <4>1, <4>2, Zenon DEF AttemptSet
      <4> QED  BY <4>3, Zenon DEF AttemptsFollowLog
    <3> QED  BY <3>1, <3>2, Zenon
  <2> QED  BY <2>1, <2>2, <1>t DEF AttemptsFollowLog
<1>11. ASSUME NEW n \in Nodes, NEW key \in seen[n], Forget(n, key)
       PROVE  AttemptsFollowLog' /\ furthest <= furthest'
  BY <1>11, <1>s, Zenon DEF Forget
<1>12. CASE UNCHANGED dispatchVars
  BY <1>12, <1>s, Zenon DEF dispatchVars
<1>13. ASSUME NEW c \in calls, ReloadFails(c)  PROVE AttemptsFollowLog' /\ furthest <= furthest'
  <2>1. UNCHANGED <<committed, completed, furthest, attempt>>
    BY <1>13, Zenon DEF ReloadFails
  <2>2. \A e \in calls' : \E f \in calls : e.record = f.record /\ e.by = f.by
    <3> DEFINE e == [c EXCEPT !.failed = TRUE]
    <3>1. calls' \subseteq calls \cup {e}
      BY <1>13, <1>t, Zenon DEF ReloadFails
    <3>2. e.record = c.record /\ e.by = c.by
      BY <1>t, CallFields, Zenon
    <3> QED  BY <3>1, <3>2, Zenon
  <2> QED  BY <2>1, <2>2, <1>t DEF AttemptsFollowLog
<1>14. ASSUME NEW n \in Nodes, Invalidate(n) \/ Lapse(n)
       PROVE  AttemptsFollowLog' /\ furthest <= furthest'
  BY <1>14, <1>s, Zenon DEF Invalidate, Lapse
<1> QED
  BY <1>1, <1>2, <1>3, <1>4, <1>5, <1>6, <1>7, <1>8, <1>9, <1>10, <1>11, <1>12, <1>13, <1>14,
     Zenon DEF DispatchNext

(* What a node has withheld is remembered until it restarts (dispatch.go).   *)
LEMMA WithheldKept ==
    ASSUME DispatchTypeOK, [DispatchNext]_dispatchVars, NEW n \in Nodes, ~Restart(n)
    PROVE  hinted[n] \subseteq hinted'[n] /\ overtaken[n] \subseteq overtaken'[n]
<1>t. /\ hinted \in [Nodes -> SUBSET Offsets] /\ overtaken \in [Nodes -> SUBSET Offsets]
      /\ \A c \in calls : c.node \in Nodes
  BY CallFields, Zenon DEF DispatchTypeOK
<1>1. ASSUME NEW c \in calls, Withhold(c)
      PROVE  hinted[n] \subseteq hinted'[n] /\ overtaken[n] \subseteq overtaken'[n]
  <2>1. CASE view[c.node] = "held"
    BY <1>1, <1>t, <2>1, Zenon DEF Withhold
  <2>2. CASE view[c.node] # "held"
    BY <1>1, <1>t, <2>2, Zenon DEF Withhold
  <2> QED  BY <2>1, <2>2, Zenon
<1>2. ASSUME NEW m \in Nodes, Restart(m)
      PROVE  hinted[n] \subseteq hinted'[n] /\ overtaken[n] \subseteq overtaken'[n]
  <2>1. m # n
    BY <1>2, Zenon
  <2> QED  BY <1>2, <1>t, <2>1, Zenon DEF Restart
<1>3. CASE /\ ~\E c \in calls : Withhold(c)
           /\ ~\E m \in Nodes : Restart(m)
  <2>1. hinted' = hinted /\ overtaken' = overtaken
    BY <1>3, Zenon DEF DispatchNext, dispatchVars, deliveryVars, Take, Resolve, GiveUpRecord,
                 Complete, Rebalance, Call, Commit, Accept, Deliver, ReloadFails, Invalidate, Lapse,
                 Forget
  <2> QED  BY <2>1, Zenon
<1> QED  BY <1>1, <1>2, <1>3, Zenon

(* A recipient that was sent a record, or is about to be, stays so until its *)
(* node restarts: an accepted call goes on at its node whatever its caller   *)
(* does, and only a recipient that has the record is skipped (dispatch.go).  *)
LEMMA ServedKept ==
    ASSUME DispatchTypeOK, DropsAreServed, [DispatchNext]_dispatchVars,
           NEW n \in Nodes, NEW r \in Offsets, Served(n, r), ~Restart(n)
    PROVE  Served(n, r)'
<1>t. /\ calls \subseteq CallSet /\ told \in [Nodes -> [Offsets -> Nat]]
      /\ seen \in [Nodes -> SUBSET SeenKeys]
      /\ hinted \in [Nodes -> SUBSET Offsets] /\ overtaken \in [Nodes -> SUBSET Offsets]
      /\ \A c \in calls : c.node \in Nodes /\ c.record \in Offsets
  BY CallFields, Zenon DEF DispatchTypeOK
<1>w. CASE r \in hinted[n] \cup overtaken[n]
  <2>1. r \in hinted'[n] \cup overtaken'[n]
    BY <1>w, WithheldKept, Zenon
  <2> QED  BY <2>1, Zenon DEF Served
<1> SUFFICES ASSUME r \notin hinted[n] \cup overtaken[n]
             PROVE  Served(n, r)'
  BY <1>w, Zenon
<1>s. ASSUME calls \subseteq calls', told' = told
      PROVE  Served(n, r)'
  BY <1>s, Zenon DEF Served
<1>1. ASSUME NEW d \in Dispatchers,
             Take(d) \/ Resolve(d) \/ Complete(d) \/ Rebalance(d)
      PROVE  Served(n, r)'
  BY <1>1, <1>s, Zenon DEF Take, Resolve, Complete, Rebalance, deliveryVars
<1>2. ASSUME NEW d \in Dispatchers, NEW m \in Nodes, NEW path \in {"user", "guild"},
             Call(d, m, path)
      PROVE  Served(n, r)'
  BY <1>2, <1>s, Zenon DEF Call, deliveryVars
<1>3. ASSUME NEW d \in Dispatchers, GiveUpRecord(d)  PROVE Served(n, r)'
  <2>1. CASE told[n][r] > 0
    BY <2>1, <1>3, Zenon DEF GiveUpRecord, Served, deliveryVars
  <2>2. CASE ~(told[n][r] > 0)
    <3>1. PICK c \in calls : c.node = n /\ c.record = r /\ c.accepted
      BY <2>2, Zenon DEF Served
    <3>2. PICK cut \in SUBSET {e \in calls : e.by = d /\ ~e.accepted} :
            calls' = {[e EXCEPT !.by = IF @ = d THEN NoDispatcher ELSE @] : e \in calls \ cut}
      BY <1>3, Zenon DEF GiveUpRecord
    <3> DEFINE e == [c EXCEPT !.by = IF @ = d THEN NoDispatcher ELSE @]
    <3>3. c \notin cut
      BY <3>1, Zenon
    <3>4. e \in calls'
      BY <3>2, <3>3, Zenon
    <3>5. e.node = n /\ e.record = r /\ e.accepted
      BY <3>1, <1>t, Zenon DEF CallSet
    <3> QED  BY <3>4, <3>5, Zenon DEF Served
  <2> QED  BY <2>1, <2>2, Zenon
<1>4. ASSUME NEW c \in calls, Accept(c)  PROVE Served(n, r)'
  <2>1. told' = told /\ ~c.accepted /\ calls \ {c} \subseteq calls'
    BY <1>4, Zenon DEF Accept, deliveryVars
  <2> QED  BY <2>1, Zenon DEF Served
<1>5. ASSUME NEW c \in calls, Deliver(c)  PROVE Served(n, r)'
  <2>0. c.node \in Nodes /\ c.record \in Offsets
    BY <1>t, Zenon
  <2>1. /\ calls' = calls \ {c}
        /\ told' = IF Repeated(c) THEN told ELSE [told EXCEPT ![c.node][c.record] = @ + 1]
    BY <1>5, Zenon DEF Deliver
  <2>2. CASE Repeated(c)
    <3>1. told[c.node][c.record] > 0
      BY <2>2, <2>0, Zenon DEF Repeated, DropsAreServed
    <3> QED  BY <2>1, <2>2, <3>1, Zenon DEF Served
  <2>3. CASE ~Repeated(c)
    <3>1. told'[c.node][c.record] = told[c.node][c.record] + 1
      BY <2>1, <2>3, <2>0, <1>t, Zenon
    <3>2. told'[n][r] >= told[n][r]
      BY <2>1, <2>3, <2>0, <1>t
    <3>3. told[n][r] \in Nat /\ told'[n][r] \in Nat /\ told[c.node][c.record] \in Nat
      BY <2>1, <2>3, <2>0, <1>t
    <3>4. CASE told[n][r] > 0
      BY <3>2, <3>3, <3>4 DEF Served
    <3>5. CASE ~(told[n][r] > 0)
      <4>1. PICK e \in calls : e.node = n /\ e.record = r /\ e.accepted
        BY <3>5, Zenon DEF Served
      <4>2. CASE e = c
        BY <4>1, <4>2, <3>1, <3>3 DEF Served
      <4>3. CASE e # c
        BY <4>1, <4>3, <2>1, Zenon DEF Served
      <4> QED  BY <4>2, <4>3, Zenon
    <3> QED  BY <3>4, <3>5, Zenon
  <2> QED  BY <2>2, <2>3, Zenon
<1>6. ASSUME NEW m \in Nodes, Restart(m)  PROVE Served(n, r)'
  <2>1. m # n
    BY <1>6, Zenon
  <2>2. told'[n] = told[n]
    BY <2>1, <1>6, <1>t, Zenon DEF Restart
  <2>3. \A c \in calls : c.node = n => c \in calls'
    BY <2>1, <1>6, Zenon DEF Restart
  <2> QED  BY <2>2, <2>3, Zenon DEF Served
<1>7. ASSUME NEW m \in Nodes, NEW key \in seen[m], Forget(m, key)  PROVE Served(n, r)'
  BY <1>7, <1>s, Zenon DEF Forget, deliveryVars
<1>8. CASE Commit \/ UNCHANGED dispatchVars
  BY <1>8, <1>s, Zenon DEF Commit, dispatchVars, deliveryVars
<1>9. ASSUME NEW c \in calls, ReloadFails(c)  PROVE Served(n, r)'
  <2> DEFINE e == [c EXCEPT !.failed = TRUE]
  <2>1. told' = told /\ calls' = (calls \ {c}) \cup {e}
    BY <1>9, Zenon DEF ReloadFails, deliveryVars
  <2>2. e.node = c.node /\ e.record = c.record /\ e.accepted = c.accepted
    BY <1>t, CallFields, Zenon
  <2> HIDE DEF e
  <2> QED  BY <2>1, <2>2, Zenon DEF Served
<1>10. ASSUME NEW c \in calls, Withhold(c)  PROVE Served(n, r)'
  <2>0. c.node \in Nodes /\ c.record \in Offsets
    BY <1>t, Zenon
  <2>1. told' = told /\ calls' = calls \ {c}
    BY <1>10, Zenon DEF Withhold
  <2>2. CASE c.node = n /\ c.record = r
    <3>1. r \in hinted'[n] \cup overtaken'[n]
      <4>1. CASE view[c.node] = "held"
        <5>1. overtaken' = [overtaken EXCEPT ![c.node] = @ \cup {c.record}]
          BY <1>10, <4>1, Zenon DEF Withhold
        <5> QED  BY <5>1, <1>t, <2>0, <2>2, Zenon
      <4>2. CASE view[c.node] # "held"
        <5>1. hinted' = [hinted EXCEPT ![c.node] = @ \cup {c.record}]
          BY <1>10, <4>2, Zenon DEF Withhold
        <5> QED  BY <5>1, <1>t, <2>0, <2>2, Zenon
      <4> QED  BY <4>1, <4>2, Zenon
    <3> QED  BY <3>1, Zenon DEF Served
  <2>3. CASE ~(c.node = n /\ c.record = r)
    BY <2>1, <2>3, Zenon DEF Served
  <2> QED  BY <2>2, <2>3, Zenon
<1>11. ASSUME NEW m \in Nodes, Invalidate(m) \/ Lapse(m)  PROVE Served(n, r)'
  BY <1>11, <1>s, Zenon DEF Invalidate, Lapse, deliveryVars
<1> QED
  BY <1>1, <1>2, <1>3, <1>4, <1>5, <1>6, <1>7, <1>8, <1>9, <1>10, <1>11, Zenon
  DEF DispatchNext

(* A node drops the newest record only if its recipient has it or will: the  *)
(* key was seen or the watermark reached when a call for it was accepted     *)
(* (dispatch.go, watermark.go).                                              *)
LEMMA DropIsServed ==
    ASSUME DispatchTypeOK, AttemptsFollowLog, DropsAreServed,
           NEW c \in calls, Drops(c) \/ Stale(c), c.record > furthest
    PROVE  Served(c.node, c.record)
<1>t. /\ c.node \in Nodes /\ c.record \in Nat /\ furthest \in Nat
      /\ watermark \in [Nodes -> 0 .. Records] /\ Records \in Nat
  <2>1. c \in CallSet /\ furthest \in 0 .. Records /\ watermark \in [Nodes -> 0 .. Records]
    BY Zenon DEF DispatchTypeOK
  <2>2. c.node \in Nodes /\ c.record \in Offsets
    BY <2>1, CallFields, Zenon
  <2>3. c.record \in Nat
    BY <2>2, OffsetsPositive, Zenon
  <2> QED  BY <2>1, <2>2, <2>3, DispatchConstants
<1>1. CASE Drops(c)
  <2>1. <<c.path, c.record>> \in seen[c.node] /\ <<c.path, c.record>>[2] = c.record
    BY <1>1, Zenon DEF Drops
  <2> QED  BY <2>1, <1>t, Zenon DEF DropsAreServed
<1>2. CASE Stale(c)
  <2>1. c.record <= watermark[c.node] /\ watermark[c.node] <= furthest + 1
        /\ watermark[c.node] \in Nat
    BY <1>2, <1>t DEF Stale, DropsAreServed
  <2>2. watermark[c.node] = c.record
    BY <2>1, <1>t
  <2> QED  BY <2>2, <1>t, Zenon DEF DropsAreServed
<1> QED  BY <1>1, <1>2, Zenon

(* Also after a step: what a node remembers of the newest record stands for  *)
(* a record it has.                                                          *)
LEMMA DropsStep ==
    ASSUME DispatchTypeOK, AttemptsFollowLog, DropsAreServed, [DispatchNext]_dispatchVars
    PROVE  DropsAreServed'
<1>t. /\ calls \subseteq CallSet /\ told \in [Nodes -> [Offsets -> Nat]]
      /\ seen \in [Nodes -> SUBSET SeenKeys] /\ watermark \in [Nodes -> 0 .. Records]
      /\ Records \in Nat
      /\ \A c \in calls : c.node \in Nodes /\ c.record \in Offsets
      /\ \A c \in calls : c.record \in Nat
  BY CallFields, OffsetsPositive, Zenon DEF DispatchTypeOK
<1>f. furthest \in Nat /\ furthest' \in Nat /\ furthest <= furthest'
  <2>1. DispatchTypeOK'
    BY DispatchTypeStep, Zenon
  <2>2. furthest <= furthest'
    BY FollowStep, Zenon
  <2> QED  BY <2>1, <2>2, <1>t DEF DispatchTypeOK
<1>z. 0 <= furthest' + 1 /\ ~(0 > furthest')
  <2>1. \A x \in Nat : 0 <= x + 1 /\ ~(0 > x)
    OBVIOUS
  <2> QED  BY <2>1, <1>f, Zenon
<1>k. \A n \in Nodes : \A key \in seen[n] : key[2] \in Offsets /\ key[2] \in Nat
  <2>1. \A n \in Nodes : \A key \in seen[n] : key[2] \in Offsets
    BY <1>t DEF SeenKeys
  <2> QED  BY <2>1, OffsetsPositive, Zenon
<1>w. \A n \in Nodes : watermark[n] \in Nat /\ (watermark[n] # 0 => watermark[n] \in Offsets)
  BY <1>t DEF Offsets
<1> DEFINE Kept(n) == /\ seen'[n] \subseteq seen[n] /\ watermark'[n] \in {0, watermark[n]}
                      /\ \A r \in Offsets : told[n][r] > 0 => told'[n][r] > 0
           Holds(n) == /\ \A key \in seen[n] : key[2] > furthest => Served(n, key[2])
                       /\ watermark[n] <= furthest + 1
                       /\ watermark[n] > furthest => Served(n, watermark[n])
                       /\ \A r \in Offsets : <<"recipient", r>> \in seen[n] => told[n][r] > 0
<1>h. \A n \in Nodes : Holds(n)
  BY Zenon DEF DropsAreServed
<1>s. ASSUME NEW n \in Nodes, ~Restart(n), Kept(n)
      PROVE  Holds(n)'
  <2>1. ASSUME NEW key \in seen'[n], key[2] > furthest'  PROVE Served(n, key[2])'
    <3>1. key \in seen[n] /\ key[2] \in Offsets /\ key[2] > furthest
      BY <2>1, <1>s, <1>k, <1>f
    <3>2. Served(n, key[2])
      BY <3>1, <1>h, Zenon
    <3> QED  BY <3>1, <3>2, <1>s, ServedKept, Zenon
  <2>2. watermark'[n] <= furthest' + 1
    <3>1. CASE watermark'[n] = 0
      BY <3>1, <1>z, Zenon
    <3>2. CASE watermark'[n] = watermark[n]
      BY <3>2, <1>h, <1>w, <1>f
    <3> QED  BY <1>s, <3>1, <3>2, Zenon
  <2>3. ASSUME watermark'[n] > furthest'  PROVE Served(n, watermark[n])'
    <3>0. watermark'[n] = watermark[n]
      BY <2>3, <1>s, <1>z, Zenon
    <3>1. watermark[n] > furthest /\ watermark[n] \in Offsets
      BY <3>0, <2>3, <1>w, <1>f
    <3>2. Served(n, watermark[n])
      BY <3>1, <1>h, Zenon
    <3>4. PICK w \in Offsets : w = watermark[n]
      BY <3>1, Zenon
    <3>5. Served(n, w)'
      BY <3>2, <3>4, <1>s, ServedKept, Zenon
    <3> QED  BY <3>0, <3>4, <3>5, Zenon DEF Served
  <2>4. \A r \in Offsets : <<"recipient", r>> \in seen'[n] => told'[n][r] > 0
    BY <1>s, <1>h, Zenon
  <2> QED  BY <2>1, <2>2, <2>3, <2>4, Zenon
<1> SUFFICES ASSUME NEW n \in Nodes  PROVE Holds(n)'
  BY Zenon DEF DropsAreServed
<1>r. CASE Restart(n)
  <2>1. seen'[n] = {} /\ watermark'[n] = 0
    BY <1>r, <1>t, Zenon DEF Restart
  <2>2. watermark'[n] <= furthest' + 1 /\ ~(watermark'[n] > furthest')
    BY <2>1, <1>z, Zenon
  <2>3. \A key : key \notin seen'[n]
    BY <2>1, Zenon
  <2> QED  BY <2>2, <2>3, Zenon
<1>o. CASE ~Restart(n)
  <2>1. ASSUME NEW d \in Dispatchers,
               \/ Take(d) \/ Resolve(d) \/ Complete(d) \/ Rebalance(d) \/ GiveUpRecord(d)
               \/ \E m \in Nodes, path \in {"user", "guild"} : Call(d, m, path)
        PROVE  Holds(n)'
    <3>1. UNCHANGED <<seen, watermark, told>>
      BY <2>1, Zenon DEF Take, Resolve, Complete, Rebalance, GiveUpRecord, Call,
                       filterVars, deliveryVars
    <3> QED  BY <3>1, <1>o, <1>s, Zenon
  <2>2. ASSUME NEW c \in calls, Accept(c)  PROVE Holds(n)'
    <3>1. CASE c.node # n
      <4>1. seen'[n] = seen[n] /\ watermark'[n] = watermark[n] /\ told' = told
        BY <2>2, <3>1, <1>t, Zenon DEF Accept, deliveryVars
      <4> QED  BY <4>1, <1>o, <1>s, Zenon
    <3>2. CASE c.node = n
      <4>0. furthest' = furthest /\ told' = told /\ c.record \in Offsets /\ c.record \in Nat
        BY <2>2, <1>t, Zenon DEF Accept, deliveryVars
      <4>1. c.record > furthest => Served(n, c.record)'
        <5>1. CASE Drops(c) \/ Stale(c)
          <6>1. c.record > furthest => Served(n, c.record)
            BY <5>1, <3>2, DropIsServed, Zenon
          <6> QED  BY <6>1, <4>0, <1>o, ServedKept, Zenon
        <5>2. CASE ~(Drops(c) \/ Stale(c))
          <6> DEFINE e == [c EXCEPT !.accepted = TRUE]
          <6>1. e \in calls'
            BY <2>2, <5>2, Zenon DEF Accept
          <6>2. e.node = n /\ e.record = c.record /\ e.accepted
            BY <3>2, <1>t, Zenon DEF CallSet
          <6> QED  BY <6>1, <6>2, Zenon DEF Served
        <5> QED  BY <5>1, <5>2, Zenon
      <4>2. seen'[n] = seen[n] \cup {<<c.path, c.record>>}
        BY <2>2, <3>2, <1>t, Zenon DEF Accept
      <4>3. ASSUME NEW key \in seen'[n], key[2] > furthest'  PROVE Served(n, key[2])'
        <5>1. CASE key \in seen[n]
          <6>1. Served(n, key[2]) /\ key[2] \in Offsets
            BY <5>1, <4>0, <4>3, <1>h, <1>k, Zenon
          <6> QED  BY <6>1, <1>o, ServedKept, Zenon
        <5>2. CASE key \notin seen[n]
          <6>1. key[2] = c.record
            BY <5>2, <4>2
          <6> QED  BY <6>1, <4>0, <4>1, <4>3, Zenon
        <5> QED  BY <5>1, <5>2, Zenon
      <4>4. \/ watermark'[n] = watermark[n]
            \/ watermark'[n] = c.record
        BY <2>2, <3>2, <1>t, Zenon DEF Accept
      <4>5. watermark'[n] <= furthest' + 1
        BY <4>0, <4>4, <1>h, <1>f, Zenon DEF AttemptsFollowLog
      <4>6. ASSUME watermark'[n] > furthest'  PROVE Served(n, watermark[n])'
        <5>1. PICK w \in Offsets : w = watermark'[n]
          BY <4>0, <4>4, <4>6, <1>w, <1>f
        <5>2. Served(n, w)'
          <6>1. CASE w = c.record
            BY <6>1, <5>1, <4>0, <4>1, <4>6, Zenon
          <6>2. CASE w = watermark[n]
            <7>1. Served(n, w)
              BY <6>2, <5>1, <4>0, <4>6, <1>h, Zenon
            <7> QED  BY <7>1, <1>o, ServedKept, Zenon
          <6> QED  BY <6>1, <6>2, <5>1, <4>4, Zenon
        <5> QED  BY <5>1, <5>2, Zenon DEF Served
      <4>7. \A r \in Offsets : <<"recipient", r>> \in seen'[n] => told'[n][r] > 0
        <5>1. c.path # "recipient"
          BY <1>t, Zenon DEF CallSet, CallPaths
        <5> QED  BY <5>1, <4>0, <4>2, <1>h, Zenon
      <4> QED  BY <4>3, <4>5, <4>6, <4>7, Zenon
    <3> QED  BY <3>1, <3>2, Zenon
  <2>3. ASSUME NEW c \in calls, Deliver(c)  PROVE Holds(n)'
    <3>0. /\ c.node \in Nodes /\ c.record \in Offsets
          /\ UNCHANGED <<watermark, furthest>>
          /\ told' = IF Repeated(c) THEN told ELSE [told EXCEPT ![c.node][c.record] = @ + 1]
          /\ seen' = IF c.record \in Messages THEN seen
                     ELSE [seen EXCEPT ![c.node] = @ \cup {<<"recipient", c.record>>}]
      BY <2>3, <1>t, Zenon DEF Deliver
    <3>1. \A r \in Offsets : told[n][r] > 0 => told'[n][r] > 0
      BY <3>0, <1>t
    <3>2. CASE seen'[n] = seen[n]
      BY <3>0, <3>1, <3>2, <1>o, <1>s, Zenon
    <3>3. CASE seen'[n] # seen[n]
      <4>1. c.node = n /\ seen'[n] = seen[n] \cup {<<"recipient", c.record>>}
            /\ c.record \notin Messages
        BY <3>0, <3>3, <1>t, Zenon
      <4>2. told'[n][c.record] > 0
        <5>1. CASE Repeated(c)
          BY <5>1, <4>1, <3>0, <1>h, Zenon DEF Repeated
        <5>2. CASE ~Repeated(c)
          BY <5>2, <4>1, <3>0, <1>t
        <5> QED  BY <5>1, <5>2, Zenon
      <4>3. ASSUME NEW key \in seen'[n], key[2] > furthest'  PROVE Served(n, key[2])'
        <5>1. CASE key \in seen[n]
          <6>1. Served(n, key[2]) /\ key[2] \in Offsets
            BY <5>1, <3>0, <4>3, <1>h, <1>k, Zenon
          <6> QED  BY <6>1, <1>o, ServedKept, Zenon
        <5>2. CASE key \notin seen[n]
          <6>1. key[2] = c.record
            BY <5>2, <4>1
          <6> QED  BY <6>1, <4>2, Zenon DEF Served
        <5> QED  BY <5>1, <5>2, Zenon
      <4>4. \A r \in Offsets : <<"recipient", r>> \in seen'[n] => told'[n][r] > 0
        BY <4>1, <4>2, <3>1, <1>h, Zenon
      <4>5. ASSUME watermark'[n] > furthest'  PROVE Served(n, watermark[n])'
        <5>1. PICK w \in Offsets : w = watermark[n]
          BY <3>0, <4>5, <1>w, <1>f
        <5>2. Served(n, w)
          BY <5>1, <3>0, <4>5, <1>h, Zenon
        <5>3. Served(n, w)'
          BY <5>2, <1>o, ServedKept, Zenon
        <5> QED  BY <5>1, <5>3, <3>0, Zenon DEF Served
      <4> QED  BY <4>3, <4>4, <4>5, <3>0, <1>h, Zenon
    <3> QED  BY <3>2, <3>3, Zenon
  <2>4. ASSUME NEW m \in Nodes, Restart(m)  PROVE Holds(n)'
    <3>1. m # n
      BY <2>4, <1>o, Zenon
    <3>2. seen'[n] = seen[n] /\ watermark'[n] = watermark[n] /\ told'[n] = told[n]
      BY <3>1, <2>4, <1>t, Zenon DEF Restart
    <3> QED  BY <3>2, <1>o, <1>s, Zenon
  <2>5. ASSUME NEW m \in Nodes, NEW key \in seen[m], Forget(m, key)  PROVE Holds(n)'
    <3>1. seen'[n] \subseteq seen[n] /\ watermark' = watermark /\ told' = told
      BY <2>5, <1>t, Zenon DEF Forget, deliveryVars
    <3> QED  BY <3>1, <1>o, <1>s, Zenon
  <2>6. CASE Commit \/ UNCHANGED dispatchVars
    <3>1. UNCHANGED <<seen, watermark, told>>
      BY <2>6, Zenon DEF Commit, dispatchVars, filterVars, deliveryVars
    <3> QED  BY <3>1, <1>o, <1>s, Zenon
  <2>7. ASSUME NEW c \in calls, ReloadFails(c) \/ Withhold(c)  PROVE Holds(n)'
    <3>1. UNCHANGED <<seen, watermark, told>>
      BY <2>7, Zenon DEF ReloadFails, Withhold, filterVars, deliveryVars
    <3> QED  BY <3>1, <1>o, <1>s, Zenon
  <2>8. ASSUME NEW m \in Nodes, Invalidate(m)  PROVE Holds(n)'
    <3>1. UNCHANGED <<seen, watermark, told>>
      BY <2>8, Zenon DEF Invalidate, filterVars
    <3> QED  BY <3>1, <1>o, <1>s, Zenon
  <2>9. ASSUME NEW m \in Nodes, Lapse(m)  PROVE Holds(n)'
    <3>1. /\ UNCHANGED <<seen, told>>
          /\ watermark'[n] \in {0, watermark[n]}
      BY <2>9, <1>t, Zenon DEF Lapse, deliveryVars
    <3> QED  BY <3>1, <1>o, <1>s, Zenon
  <2> QED
    BY <2>1, <2>2, <2>3, <2>4, <2>5, <2>6, <2>7, <2>8, <2>9, Zenon DEF DispatchNext
<1> QED  BY <1>r, <1>o, Zenon

(* The nodes a Dispatcher has reached for the newest record have it, and so  *)
(* have the nodes reached when a record was first completed.                 *)
LEMMA ReachedStep ==
    ASSUME ServedInv, [DispatchNext]_dispatchVars
    PROVE  ReachedAreServed' /\ CompletedRecordsTold'
<1>i. DispatchTypeOK /\ AttemptsFollowLog /\ DropsAreServed /\ ReachedAreServed
  BY Zenon DEF ServedInv
<1>t. /\ calls \subseteq CallSet
      /\ attempt \in [Dispatchers -> AttemptSet] /\ due \in [Offsets -> SUBSET Nodes]
      /\ \A c \in calls : c.node \in Nodes /\ c.record \in Offsets
      /\ \A d \in Dispatchers : attempt[d].record \in 0 .. Records
      /\ \A d \in Dispatchers : attempt[d].reached \in SUBSET Nodes
  BY <1>i, CallFields, AttemptUpdates, Zenon DEF DispatchTypeOK
<1>f. /\ Records \in Nat /\ furthest \in Nat /\ furthest' \in Nat /\ furthest <= furthest'
      /\ \A d \in Dispatchers : attempt[d].record > furthest => attempt[d].record \in Offsets
  <2>1. DispatchTypeOK'
    BY <1>i, DispatchTypeStep, Zenon
  <2>2. furthest <= furthest'
    BY <1>i, FollowStep, Zenon
  <2> QED  BY <1>i, <2>1, <2>2, <1>t, OffsetsPositive DEF DispatchTypeOK, Offsets
<1>d. \A r \in Offsets : \A n \in due[r] : Served(n, r)
  BY Zenon DEF ServedInv, CompletedRecordsTold, Served
<1>k. ASSUME NEW n \in Nodes, NEW r \in Offsets, Served(n, r), ~Restart(n)
      PROVE  Served(n, r)'
  BY <1>k, <1>i, ServedKept, Zenon
(* A Dispatcher's record and what it has reached, after the step.            *)
<1>a. ASSUME NEW d \in Dispatchers, attempt'[d].record > furthest', NEW n \in attempt'[d].reached
      PROVE  Served(n, attempt[d].record)'
  <2>s. ASSUME attempt'[d].record = attempt[d].record, n \in attempt[d].reached, ~Restart(n)
        PROVE  Served(n, attempt[d].record)'
    <3>1. PICK r \in Offsets : r = attempt[d].record
      BY <2>s, <1>a, <1>f, <1>t
    <3>2. Served(n, r) /\ n \in Nodes
      BY <3>1, <2>s, <1>a, <1>f, <1>i, <1>t DEF ReachedAreServed
    <3>3. Served(n, r)'
      BY <3>2, <2>s, <1>k, Zenon
    <3> QED  BY <3>1, <3>3, <2>s, Zenon DEF Served
  <2>r. CASE Restart(n)
    <3>1. CASE \E c \in calls : c.node = n /\ c.by = d
      <4>1. attempt'[d].reached = {}
        BY <2>r, <3>1, <1>t, AttemptValues, Zenon DEF Restart
      <4> QED  BY <4>1, <1>a, Zenon
    <3>2. CASE ~\E c \in calls : c.node = n /\ c.by = d
      <4> DEFINE others == attempt[d].reached \ {n}
      <4>1. attempt'[d] = [attempt[d] EXCEPT !.reached = others]
        BY <2>r, <3>2, Zenon DEF Restart
      <4> HIDE DEF others
      <4>2. attempt'[d].reached = others
        BY <4>1, <1>t, Zenon DEF AttemptSet
      <4> QED  BY <4>2, <1>a, Zenon DEF others
    <3> QED  BY <3>1, <3>2, Zenon
  <2>o. CASE ~Restart(n)
    <3>1. ASSUME NEW e \in Dispatchers, Take(e) \/ Complete(e) \/ GiveUpRecord(e)
          PROVE  Served(n, attempt[d].record)'
      <4>1. CASE d = e
        <5>1. attempt'[d].reached = {}
          <6>1. CASE Take(e)
            <7>1. completed + 1 \in 0 .. Records
              BY <6>1, <1>i, <1>f DEF Take, DispatchTypeOK
            <7> QED  BY <4>1, <6>1, <7>1, <1>t, AttemptValues, Zenon DEF Take
          <6>2. CASE Complete(e)
            BY <4>1, <6>2, <1>t, AttemptValues, Zenon DEF Complete
          <6>3. CASE GiveUpRecord(e)
            BY <4>1, <6>3, <1>t, AttemptValues, Zenon DEF GiveUpRecord
          <6> QED  BY <3>1, <6>1, <6>2, <6>3, Zenon
        <5> QED  BY <5>1, <1>a, Zenon
      <4>2. CASE d # e
        <5>1. attempt'[d] = attempt[d]
          BY <3>1, <4>2, <1>t, Zenon DEF Take, Complete, GiveUpRecord
        <5> QED  BY <5>1, <1>a, <2>o, <2>s, Zenon
      <4> QED  BY <4>1, <4>2, Zenon
    <3>2. ASSUME NEW e \in Dispatchers,
                 \/ Resolve(e)
                 \/ \E m \in Nodes, path \in {"user", "guild"} : Call(e, m, path)
          PROVE  Served(n, attempt[d].record)'
      <4>1. attempt'[d].record = attempt[d].record /\ attempt'[d].reached = attempt[d].reached
        <5>1. CASE Resolve(e)
          <6> DEFINE left == Nodes \X Paths(attempt[e].record)
          <6>1. attempt' =
                  [attempt EXCEPT ![e] = [attempt[e] EXCEPT !.left = left, !.resolved = TRUE]]
            BY <5>1, Zenon DEF Resolve
          <6> HIDE DEF left
          <6>2. attempt[e] \in AttemptSet
            BY <1>t, Zenon
          <6>3. /\ [attempt[e] EXCEPT !.left = left, !.resolved = TRUE].record = attempt[e].record
                /\ [attempt[e] EXCEPT !.left = left, !.resolved = TRUE].reached = attempt[e].reached
            BY <6>2, Zenon DEF AttemptSet
          <6>4. CASE d = e
            BY <6>1, <6>3, <6>4, <1>t, Zenon
          <6>5. CASE d # e
            BY <6>1, <6>5, <1>t, Zenon
          <6> QED  BY <6>4, <6>5, Zenon
        <5>2. CASE \E m \in Nodes, path \in {"user", "guild"} : Call(e, m, path)
          BY <5>2, <1>t DEF Call, AttemptSet
        <5> QED  BY <3>2, <5>1, <5>2, Zenon
      <4> QED  BY <4>1, <1>a, <2>o, <2>s, Zenon
    <3>3. ASSUME NEW e \in Dispatchers, Rebalance(e)  PROVE Served(n, attempt[d].record)'
      BY <3>3, <1>a, <2>o, <2>s, Zenon DEF Rebalance
    <3>4. ASSUME NEW c \in calls, Accept(c) \/ Deliver(c) \/ Withhold(c)
          PROVE  Served(n, attempt[d].record)'
      <4>0. CASE attempt' = attempt
        BY <4>0, <1>a, <2>o, <2>s, Zenon
      <4>1. CASE attempt' # attempt
        <5>1. Answer(c)
          BY <3>4, <4>1, Zenon DEF Accept, Deliver, Withhold
        <5>2. /\ attempt'[d].record = attempt[d].record
              /\ attempt'[d].reached \subseteq
                   attempt[d].reached \cup (IF d = c.by THEN {c.node} ELSE {})
          BY <5>1, <1>t, AnswerUpdates, Zenon
        <5>3. CASE n \in attempt[d].reached
          BY <5>2, <5>3, <2>o, <2>s, Zenon
        <5>4. CASE n \notin attempt[d].reached
          <6>1. n = c.node /\ d = c.by
            BY <5>2, <5>4, <1>a, Zenon
          <6>2. c.by # NoDispatcher /\ attempt[d].record = c.record
            BY <6>1, <1>i, DispatchConstants, Zenon DEF AttemptsFollowLog
          <6>3. c.record > furthest
            BY <6>2, <5>2, <1>a, <1>f, <1>t
          <6>4. Served(n, c.record)'
            <7>1. CASE Accept(c)
              <8>1. Drops(c) \/ Stale(c)
                BY <7>1, <4>1, Zenon DEF Accept
              <8>2. Served(n, c.record)
                BY <8>1, <6>1, <6>3, <1>i, DropIsServed, Zenon
              <8> QED  BY <8>2, <6>1, <1>t, <1>k, <2>o, Zenon
            <7>2. CASE Deliver(c) \/ Withhold(c)
              <8>0. c.accepted
                BY <7>2, Zenon DEF Deliver, Withhold
              <8>1. Served(n, c.record)
                BY <8>0, <6>1, Zenon DEF Served
              <8> QED  BY <8>1, <6>1, <1>t, <1>k, <2>o, Zenon
            <7> QED  BY <3>4, <7>1, <7>2, Zenon
          <6> QED  BY <6>2, <6>4, <5>2, Zenon DEF Served
        <5> QED  BY <5>3, <5>4, Zenon
      <4> QED  BY <4>0, <4>1, Zenon
    <3>5. ASSUME NEW m \in Nodes, Restart(m)  PROVE Served(n, attempt[d].record)'
      <4>1. CASE \E c \in calls : c.node = m /\ c.by = d
        <5>1. attempt'[d].reached = {}
          BY <3>5, <4>1, <1>t, AttemptValues, Zenon DEF Restart
        <5> QED  BY <5>1, <1>a, Zenon
      <4>2. CASE ~\E c \in calls : c.node = m /\ c.by = d
        <5> DEFINE others == attempt[d].reached \ {m}
        <5>1. attempt'[d] = [attempt[d] EXCEPT !.reached = others]
          BY <3>5, <4>2, Zenon DEF Restart
        <5> HIDE DEF others
        <5>2. attempt'[d].reached = others /\ attempt'[d].record = attempt[d].record
          BY <5>1, <1>t, Zenon DEF AttemptSet
        <5>3. n \in attempt[d].reached
          BY <5>2, <1>a, Zenon DEF others
        <5> QED  BY <5>2, <5>3, <2>o, <2>s, Zenon
      <4> QED  BY <4>1, <4>2, Zenon
    <3>6. ASSUME NEW m \in Nodes, NEW key \in seen[m], Forget(m, key)
          PROVE  Served(n, attempt[d].record)'
      BY <3>6, <1>a, <2>o, <2>s, Zenon DEF Forget
    <3>7. CASE Commit \/ UNCHANGED dispatchVars
      BY <3>7, <1>a, <2>o, <2>s, Zenon DEF Commit, dispatchVars
    <3>8. ASSUME NEW c \in calls, ReloadFails(c)  PROVE Served(n, attempt[d].record)'
      BY <3>8, <1>a, <2>o, <2>s, Zenon DEF ReloadFails
    <3>9. ASSUME NEW m \in Nodes, Invalidate(m) \/ Lapse(m)
          PROVE  Served(n, attempt[d].record)'
      BY <3>9, <1>a, <2>o, <2>s, Zenon DEF Invalidate, Lapse
    <3> QED
      BY <3>1, <3>2, <3>3, <3>4, <3>5, <3>6, <3>7, <3>8, <3>9, Zenon DEF DispatchNext
  <2> QED  BY <2>r, <2>o, Zenon
<1>b. ASSUME NEW r \in Offsets, NEW n \in due'[r]  PROVE Served(n, r)'
  <2>1. CASE n \in due[r] /\ ~Restart(n)
    BY <2>1, <1>d, <1>k, <1>t, Zenon
  <2>2. CASE Restart(n)
    BY <2>2, <1>b, <1>t, Zenon DEF Restart
  <2>3. CASE n \notin due[r]
    <3>1. PICK d \in Dispatchers :
            /\ Complete(d) /\ r = attempt[d].record /\ r > furthest
            /\ n \in attempt[d].reached
      <4>1. due' # due
        BY <2>3, <1>b, Zenon
      <4>2. ~\E m \in Nodes : Restart(m)
        <5>1. ASSUME NEW m \in Nodes, Restart(m)  PROVE n \in due[r]
          <6>1. due' = [o \in Offsets |-> due[o] \ {m}]
            BY <5>1, Zenon DEF Restart
          <6> QED  BY <6>1, <1>b, Zenon
        <5> QED  BY <5>1, <2>3, Zenon
      <4>3. \E d \in Dispatchers : Complete(d)
        BY <4>1, <4>2, Zenon DEF DispatchNext, dispatchVars, Take, Resolve, GiveUpRecord, Rebalance,
                          Call, Commit, Accept, Deliver, ReloadFails, Withhold, Invalidate, Lapse,
                          Forget
      <4>4. PICK d \in Dispatchers : Complete(d)
        BY <4>3, Zenon
      <4>5. /\ attempt[d].record > furthest
            /\ due' = [due EXCEPT ![attempt[d].record] = attempt[d].reached]
        BY <4>1, <4>4, <1>t, Zenon DEF Complete
      <4>6. r = attempt[d].record /\ n \in attempt[d].reached
        BY <4>5, <2>3, <1>b, <1>t, Zenon
      <4> QED  BY <4>4, <4>5, <4>6, Zenon
    <3>2. Served(n, r) /\ n \in Nodes
      BY <3>1, <1>i, <1>t, Zenon DEF ReachedAreServed
    <3>3. UNCHANGED <<calls, told, hinted, overtaken>>
      BY <3>1, Zenon DEF Complete, deliveryVars
    <3> QED  BY <3>2, <3>3, Zenon DEF Served
  <2> QED  BY <2>1, <2>2, <2>3, Zenon
<1>c. ReachedAreServed'
  <2> SUFFICES ASSUME NEW d \in Dispatchers, attempt'[d].record > furthest',
                      NEW n \in attempt'[d].reached
               PROVE  Served(n, attempt[d].record)'
    BY Zenon DEF ReachedAreServed
  <2> QED  BY <1>a, Zenon
<1>e. CompletedRecordsTold'
  BY <1>b, Zenon DEF CompletedRecordsTold, Served
<1> QED  BY <1>c, <1>e, Zenon

(* No completed record is missing at a node it was resolved to, for any      *)
(* number of nodes, Dispatchers and records and any retries, rebalances,     *)
(* late calls, restarts and expired entries (dispatch.go, watermark.go,      *)
(* server.go): what was not sent is a message withheld after a failed        *)
(* reload, whose recipient was told to reconcile since its snapshot was      *)
(* dropped, or whose snapshot was loaded again just before the hint.         *)
THEOREM CompletedRecordsReachSessions == DispatchSpec => []CompletedRecordsTold
<1>1. DispatchInit => ServedInv
  <2> SUFFICES ASSUME DispatchInit PROVE ServedInv
    OBVIOUS
  <2>1. DispatchTypeOK
    BY AttemptValues, DispatchConstants DEF DispatchInit, DispatchTypeOK
  <2>2. AttemptsFollowLog
    BY AttemptValues DEF DispatchInit, AttemptsFollowLog
  <2>3. DropsAreServed
    BY DEF DispatchInit, DropsAreServed
  <2>4. ReachedAreServed
    BY AttemptValues, Zenon DEF DispatchInit, ReachedAreServed
  <2>5. CompletedRecordsTold
    BY Zenon DEF DispatchInit, CompletedRecordsTold
  <2> QED  BY <2>1, <2>2, <2>3, <2>4, <2>5, Zenon DEF ServedInv
<1>2. ServedInv /\ [DispatchNext]_dispatchVars => ServedInv'
  BY DispatchTypeStep, FollowStep, DropsStep, ReachedStep, Zenon DEF ServedInv
<1>3. ServedInv => CompletedRecordsTold
  BY Zenon DEF ServedInv
<1> QED  BY <1>1, <1>2, <1>3, PTL DEF DispatchSpec

(* A message is called for by its one route, whatever retries its record     *)
(* (server.go, forEachNode).                                                 *)
LEMMA OnePathStep ==
    ASSUME DispatchTypeOK, MessagesHaveOnePath, [DispatchNext]_dispatchVars
    PROVE  MessagesHaveOnePath'
<1>t. /\ calls \subseteq CallSet /\ attempt \in [Dispatchers -> AttemptSet]
      /\ completed \in 0 .. Records
      /\ \A d \in Dispatchers : attempt[d].record \in 0 .. Records
  BY AttemptUpdates, Zenon DEF DispatchTypeOK
<1> DEFINE Left(d) ==
             attempt[d].record \in Messages => \A n \in Nodes : <<n, "user">> \notin attempt[d].left
           SameWork(d) == /\ attempt'[d].record = attempt[d].record
                          /\ attempt'[d].left \subseteq attempt[d].left
<1>h. /\ \A d \in Dispatchers : Left(d)
      /\ \A c \in calls : c.record \in Messages => c.path = "guild"
  BY Zenon DEF MessagesHaveOnePath
<1>s. ASSUME \A d \in Dispatchers : attempt'[d].left = {} \/ SameWork(d),
             \A c \in calls' : \E e \in calls : c.record = e.record /\ c.path = e.path
      PROVE  MessagesHaveOnePath'
  <2>1. \A d \in Dispatchers : Left(d)'
    BY <1>s, <1>h, Zenon
  <2>2. \A c \in calls' : c.record \in Messages => c.path = "guild"
    BY <1>s, <1>h, Zenon
  <2> QED  BY <2>1, <2>2, Zenon DEF MessagesHaveOnePath
<1>e. ASSUME attempt' = attempt
      PROVE  \A d \in Dispatchers : SameWork(d)
  BY <1>e, Zenon
<1>1. ASSUME NEW d \in Dispatchers, Take(d) \/ Complete(d)  PROVE MessagesHaveOnePath'
  <2>1. attempt'[d].left = {}
    <3>1. CASE Take(d)
      <4>1. completed + 1 \in 0 .. Records
        BY <3>1, <1>t, DispatchConstants DEF Take
      <4> QED  BY <3>1, <4>1, <1>t, AttemptValues, Zenon DEF Take
    <3>2. CASE Complete(d)
      BY <3>2, <1>t, AttemptValues, Zenon DEF Complete
    <3> QED  BY <1>1, <3>1, <3>2, Zenon
  <2>2. \A e \in Dispatchers \ {d} : attempt'[e] = attempt[e]
    BY <1>1, <1>t, Zenon DEF Take, Complete
  <2>3. calls' = calls
    BY <1>1, Zenon DEF Take, Complete
  <2> QED  BY <2>1, <2>2, <2>3, <1>s, Zenon
<1>2. ASSUME NEW d \in Dispatchers, Resolve(d)  PROVE MessagesHaveOnePath'
  <2> DEFINE left == Nodes \X Paths(attempt[d].record)
  <2>1. left \in SUBSET (Nodes \X CallPaths)
    BY Zenon DEF Paths, CallPaths
  <2>2. attempt[d].record \in Messages => \A n \in Nodes : <<n, "user">> \notin left
    BY DEF Paths
  <2>3. attempt' = [attempt EXCEPT ![d] = [attempt[d] EXCEPT !.left = left, !.resolved = TRUE]]
    BY <1>2, Zenon DEF Resolve
  <2> HIDE DEF left
  <2>4. /\ attempt'[d].record = attempt[d].record /\ attempt'[d].left = left
        /\ \A e \in Dispatchers \ {d} : attempt'[e] = attempt[e]
    <3> DEFINE b == [attempt[d] EXCEPT !.left = left, !.resolved = TRUE]
    <3>1. b.record = attempt[d].record /\ b.left = left
      BY <1>t, Zenon DEF AttemptSet
    <3>2. attempt' = [attempt EXCEPT ![d] = b]
      BY <2>3, Zenon
    <3> HIDE DEF b
    <3> QED  BY <3>1, <3>2, <1>t, Zenon
  <2>5. \A e \in Dispatchers : Left(e)'
    BY <2>2, <2>4, <1>h, Zenon
  <2>6. calls' = calls
    BY <1>2, Zenon DEF Resolve
  <2> QED  BY <2>5, <2>6, <1>h, Zenon DEF MessagesHaveOnePath
<1>3. ASSUME NEW d \in Dispatchers, NEW n \in Nodes, NEW path \in {"user", "guild"},
             Call(d, n, path)
      PROVE  MessagesHaveOnePath'
  <2> DEFINE new == [by |-> d, node |-> n, path |-> path, record |-> attempt[d].record,
                     accepted |-> FALSE, failed |-> FALSE]
             left == attempt[d].left \ {<<n, path>>}
  <2>1. left \in SUBSET (Nodes \X CallPaths)
    BY <1>t, AttemptUpdates, Zenon
  <2>2. /\ calls' = calls \cup {new} /\ <<n, path>> \in attempt[d].left
        /\ attempt' = [attempt EXCEPT ![d].left = left]
    BY <1>3, Zenon DEF Call
  <2>3. new.record = attempt[d].record /\ new.path = path
    OBVIOUS
  <2>4. left \subseteq attempt[d].left
    BY Zenon
  <2> HIDE DEF new, left
  <2>5. \A e \in Dispatchers : Left(e)'
    <3>1. /\ attempt'[d].record = attempt[d].record /\ attempt'[d].left = left
          /\ \A e \in Dispatchers \ {d} : attempt'[e] = attempt[e]
      <4> DEFINE b == [attempt[d] EXCEPT !.left = left]
      <4>1. b.record = attempt[d].record /\ b.left = left
        BY <1>t, Zenon DEF AttemptSet
      <4>2. attempt' = [attempt EXCEPT ![d] = b]
        BY <2>2, Zenon
      <4> HIDE DEF b
      <4> QED  BY <4>1, <4>2, <1>t, Zenon
    <3> QED  BY <3>1, <2>4, <1>h, Zenon
  <2>6. new.record \in Messages => new.path = "guild"
    BY <2>2, <2>3, <1>h, Zenon
  <2> QED  BY <2>2, <2>5, <2>6, <1>h, Zenon DEF MessagesHaveOnePath
<1>4. ASSUME NEW d \in Dispatchers, GiveUpRecord(d)  PROVE MessagesHaveOnePath'
  <2>1. /\ attempt'[d].left = {}
        /\ \A e \in Dispatchers \ {d} : attempt'[e] = attempt[e]
    BY <1>4, <1>t, AttemptValues, Zenon DEF GiveUpRecord
  <2>2. ASSUME NEW c \in calls'  PROVE \E e \in calls : c.record = e.record /\ c.path = e.path
    <3>1. PICK e \in calls : c = [e EXCEPT !.by = IF @ = d THEN NoDispatcher ELSE @]
      BY <1>4, <2>2, Zenon DEF GiveUpRecord
    <3>2. e \in CallSet
      BY <1>t, Zenon
    <3> QED  BY <3>1, <3>2, Zenon DEF CallSet
  <2> QED  BY <2>1, <2>2, <1>s, Zenon
<1>5. ASSUME NEW c \in calls, Accept(c)  PROVE MessagesHaveOnePath'
  <2>1. \A d \in Dispatchers : SameWork(d)
    BY <1>5, <1>t, AnswerUpdates, Zenon DEF Accept
  <2> DEFINE e == [c EXCEPT !.accepted = TRUE]
  <2>2. e.record = c.record /\ e.path = c.path
    BY <1>t, CallFields, Zenon
  <2>3. calls' \subseteq calls \cup {e}
    BY <1>5, Zenon DEF Accept
  <2> HIDE DEF e
  <2> QED  BY <2>1, <2>2, <2>3, <1>s, Zenon
<1>6. ASSUME NEW c \in calls, Deliver(c) \/ Withhold(c)  PROVE MessagesHaveOnePath'
  <2>1. \A d \in Dispatchers : SameWork(d)
    BY <1>6, <1>t, AnswerUpdates, Zenon DEF Deliver, Withhold
  <2>2. calls' \subseteq calls
    BY <1>6, Zenon DEF Deliver, Withhold
  <2> QED  BY <2>1, <2>2, <1>s, Zenon
<1>7. ASSUME NEW c \in calls, ReloadFails(c)  PROVE MessagesHaveOnePath'
  <2> DEFINE e == [c EXCEPT !.failed = TRUE]
  <2>1. e.record = c.record /\ e.path = c.path
    BY <1>t, CallFields, Zenon
  <2>2. calls' \subseteq calls \cup {e} /\ attempt' = attempt
    BY <1>7, Zenon DEF ReloadFails
  <2> HIDE DEF e
  <2> QED  BY <2>1, <2>2, <1>e, <1>s, Zenon
<1>8. ASSUME NEW n \in Nodes, Restart(n)  PROVE MessagesHaveOnePath'
  <2>1. calls' \subseteq calls
    BY <1>8, Zenon DEF Restart
  <2>2. ASSUME NEW d \in Dispatchers  PROVE attempt'[d].left = {} \/ SameWork(d)
    <3>1. CASE \E c \in calls : c.node = n /\ c.by = d
      BY <3>1, <1>8, <1>t, AttemptValues, Zenon DEF Restart
    <3>2. CASE ~\E c \in calls : c.node = n /\ c.by = d
      <4> DEFINE others == attempt[d].reached \ {n}
      <4>1. attempt'[d] = [attempt[d] EXCEPT !.reached = others]
        BY <3>2, <1>8, Zenon DEF Restart
      <4> HIDE DEF others
      <4>2. attempt'[d].record = attempt[d].record /\ attempt'[d].left = attempt[d].left
        BY <4>1, <1>t, Zenon DEF AttemptSet
      <4> QED  BY <4>2, Zenon
    <3> QED  BY <3>1, <3>2, Zenon
  <2> QED  BY <2>1, <2>2, <1>s, Zenon
<1>9. CASE attempt' = attempt /\ calls' = calls
  BY <1>9, <1>e, <1>s, Zenon
<1>10. ASSUME NEW n \in Nodes, \/ Invalidate(n) \/ Lapse(n)
                               \/ \E key \in seen[n] : Forget(n, key)
       PROVE  MessagesHaveOnePath'
  BY <1>10, <1>9, Zenon DEF Invalidate, Lapse, Forget
<1>11. ASSUME NEW d \in Dispatchers, Rebalance(d)  PROVE MessagesHaveOnePath'
  BY <1>11, <1>9, Zenon DEF Rebalance
<1>12. CASE Commit \/ UNCHANGED dispatchVars
  BY <1>12, <1>9, Zenon DEF Commit, dispatchVars
<1> QED
  BY <1>1, <1>2, <1>3, <1>4, <1>5, <1>6, <1>7, <1>8, <1>10, <1>11, <1>12, Zenon DEF DispatchNext

(* A message is let through once while the node's watermark or its entry in  *)
(* the filter for duplicates lives (dispatch.go, watermark.go, dedup.go).    *)
LEMMA MessagesStep ==
    ASSUME DispatchTypeOK, MessagesHaveOnePath, MessagesPassOnce, [DispatchNext]_dispatchVars
    PROVE  MessagesPassOnce'
<1>t. /\ calls \subseteq CallSet
      /\ watermark \in [Nodes -> 0 .. Records]
      /\ told \in [Nodes -> [Offsets -> Nat]]
      /\ seen \in [Nodes -> SUBSET SeenKeys]
      /\ forgotten \in [Nodes -> SUBSET Offsets] /\ lapsed \in [Nodes -> SUBSET Offsets]
      /\ \A c \in calls : c.node \in Nodes /\ c.record \in Offsets
  BY CallFields, Zenon DEF DispatchTypeOK
<1>n. /\ Messages \subseteq Offsets /\ Messages \subseteq Nat
      /\ \A m \in Nodes : watermark[m] \in Nat
  BY <1>t, OffsetsPositive, DispatchConstants
<1> SUFFICES ASSUME NEW n \in Nodes, NEW r \in Messages
             PROVE  PassesOnce(n, r)'
  BY Zenon DEF MessagesPassOnce
<1>h. PassesOnce(n, r)
  BY Zenon DEF MessagesPassOnce
(* Steps that send nothing of r at n, and keep what remembers it.            *)
<1>q. ASSUME told'[n][r] = told[n][r],
             lapsed[n] \subseteq lapsed'[n], forgotten[n] \subseteq forgotten'[n],
             r \notin lapsed'[n] /\ r <= watermark[n] => r <= watermark'[n],
             r \notin forgotten'[n] /\ <<"guild", r>> \in seen[n] => <<"guild", r>> \in seen'[n],
             \A c, e \in calls' : Sends(c, n, r) /\ Sends(e, n, r) =>
                 \E a, b \in calls : Sends(a, n, r) /\ Sends(b, n, r) /\ (a = b => c = e)
      PROVE  PassesOnce(n, r)'
  <2>1. Single(n, r) => Single(n, r)'
    BY <1>q, Zenon DEF Single
  <2>2. Passed(n, r)' => Passed(n, r)
    BY <1>q, Zenon DEF Passed
  <2>3. r \notin lapsed'[n] => r \notin lapsed[n]
    BY <1>q, Zenon
  <2>4. r \notin forgotten'[n] => r \notin forgotten[n]
    BY <1>q, Zenon
  <2> QED  BY <1>q, <1>h, <2>1, <2>2, <2>3, <2>4, Zenon DEF PassesOnce
<1>u. ASSUME \A c \in calls' : c.accepted => c \in calls
      PROVE  \A c, e \in calls' : Sends(c, n, r) /\ Sends(e, n, r) =>
                 \E a, b \in calls : Sends(a, n, r) /\ Sends(b, n, r) /\ (a = b => c = e)
  BY <1>u, Zenon DEF Sends
<1>f. ASSUME UNCHANGED <<filterVars, told>>, \A c \in calls' : c.accepted => c \in calls
      PROVE  PassesOnce(n, r)'
  BY <1>f, <1>u, <1>q, Zenon DEF filterVars
<1>1. ASSUME NEW d \in Dispatchers, Take(d) \/ Resolve(d) \/ Complete(d) \/ Rebalance(d)
      PROVE  PassesOnce(n, r)'
  BY <1>1, <1>f, Zenon DEF Take, Resolve, Complete, Rebalance, deliveryVars
<1>2. ASSUME NEW d \in Dispatchers, NEW m \in Nodes, NEW path \in {"user", "guild"},
             Call(d, m, path)
      PROVE  PassesOnce(n, r)'
  <2> DEFINE new == [by |-> d, node |-> m, path |-> path, record |-> attempt[d].record,
                     accepted |-> FALSE, failed |-> FALSE]
  <2>1. calls' = calls \cup {new} /\ UNCHANGED <<filterVars, told>>
    BY <1>2, Zenon DEF Call, deliveryVars
  <2>2. ~new.accepted
    OBVIOUS
  <2> HIDE DEF new
  <2> QED  BY <2>1, <2>2, <1>f, Zenon
<1>3. CASE Commit \/ UNCHANGED dispatchVars
  BY <1>3, <1>f, Zenon DEF Commit, dispatchVars, deliveryVars
<1>4. ASSUME NEW d \in Dispatchers, GiveUpRecord(d)  PROVE PassesOnce(n, r)'
  <2> DEFINE Unwaited(c) == [c EXCEPT !.by = IF @ = d THEN NoDispatcher ELSE @]
  <2>1. PICK cut \in SUBSET {c \in calls : c.by = d /\ ~c.accepted} :
          calls' = {Unwaited(c) : c \in calls \ cut}
    BY <1>4, Zenon DEF GiveUpRecord
  <2>2. UNCHANGED <<filterVars, told>>
    BY <1>4, Zenon DEF GiveUpRecord, deliveryVars
  <2>3. ASSUME NEW c \in calls
        PROVE  Sends(Unwaited(c), n, r) <=> Sends(c, n, r)
    <3>1. /\ Unwaited(c).node = c.node /\ Unwaited(c).record = c.record
          /\ Unwaited(c).accepted = c.accepted
      BY <1>t, Zenon DEF CallSet
    <3> QED  BY <3>1, Zenon DEF Sends
  <2> HIDE DEF Unwaited
  <2>4. ASSUME NEW c \in calls', NEW e \in calls', Sends(c, n, r), Sends(e, n, r)
        PROVE  \E a, b \in calls : Sends(a, n, r) /\ Sends(b, n, r) /\ (a = b => c = e)
    <3>1. PICK a \in calls : c = Unwaited(a)
      BY <2>1, Zenon
    <3>2. PICK b \in calls : e = Unwaited(b)
      BY <2>1, Zenon
    <3> QED  BY <3>1, <3>2, <2>3, <2>4, Zenon
  <2> QED  BY <2>2, <2>4, <1>q, Zenon DEF filterVars
<1>5. ASSUME NEW c \in calls, Accept(c)  PROVE PassesOnce(n, r)'
  <2>0. /\ UNCHANGED <<told, lapsed, forgotten>>
        /\ \A m \in Nodes : seen[m] \subseteq seen'[m]
        /\ <<c.path, c.record>> \in seen'[c.node]
    BY <1>5, <1>t, Zenon DEF Accept, deliveryVars
  <2>1. CASE Drops(c) \/ Stale(c)
    <3>1. watermark' = watermark /\ calls' \subseteq calls
      BY <1>5, <2>1, Zenon DEF Accept
    <3> QED  BY <3>1, <2>0, <1>u, <1>q, Zenon
  <2>2. CASE ~(Drops(c) \/ Stale(c))
    <3> DEFINE b == [c EXCEPT !.accepted = TRUE]
    <3>1. /\ calls' = (calls \ {c}) \cup {b}
          /\ watermark' = [watermark EXCEPT ![c.node] =
                             IF c.record \in Messages THEN c.record ELSE @]
      BY <1>5, <2>2, Zenon DEF Accept
    <3>2. b.node = c.node /\ b.record = c.record /\ b.accepted
      BY <1>t, CallFields, Zenon
    <3> HIDE DEF b
    <3>3. CASE ~(c.node = n /\ c.record = r)
      <4>1. \A e \in calls' : Sends(e, n, r) => e \in calls
        BY <3>1, <3>2, <3>3, Zenon DEF Sends
      <4>2. r <= watermark[n] => r <= watermark'[n]
        <5>1. CASE c.node = n /\ c.record \in Messages
          <6>1. watermark'[n] = c.record /\ ~(c.record <= watermark[n])
            BY <5>1, <2>2, <3>1, <1>t, Zenon DEF Stale
          <6> QED  BY <5>1, <6>1, <1>n
        <5>2. CASE ~(c.node = n /\ c.record \in Messages)
          <6>1. watermark'[n] = watermark[n]
            BY <5>2, <3>1, <1>t, Zenon
          <6> QED  BY <6>1, Zenon
        <5> QED  BY <5>1, <5>2, Zenon
      <4> QED  BY <4>1, <4>2, <2>0, <1>q, Zenon
    <3>4. CASE c.node = n /\ c.record = r
      <4>1. ~(r <= watermark[n]) /\ <<"guild", r>> \notin seen[n] /\ <<"guild", r>> \in seen'[n]
        BY <3>4, <2>0, <2>2, Zenon DEF Stale, Drops, MessagesHaveOnePath
      <4>2. r \notin lapsed[n] \/ r \notin forgotten[n] => ~Passed(n, r)
        BY <4>1, <1>h, Zenon DEF PassesOnce
      <4>3. ~Passed(n, r) => Single(n, r)'
        <5> SUFFICES ASSUME ~Passed(n, r) PROVE Single(n, r)'
          BY Zenon
        <5>1. told'[n][r] = 0
          <6>1. ~(told[n][r] > 0) /\ told[n][r] \in Nat
            BY <1>t, <1>n, Zenon DEF Passed
          <6> QED  BY <6>1, <2>0
        <5>2. \A e \in calls' : Sends(e, n, r) => e = b
          BY <3>1, Zenon DEF Passed
        <5>3. told'[n][r] <= 1
          BY <5>1
        <5> QED  BY <5>1, <5>2, <5>3, Zenon DEF Single
      <4>4. r <= watermark'[n]
        <5>1. watermark'[n] = r
          BY <3>1, <3>4, <1>t, Zenon
        <5> QED  BY <5>1, <1>n
      <4> QED  BY <4>1, <4>2, <4>3, <4>4, <2>0, Zenon DEF PassesOnce
    <3> QED  BY <3>3, <3>4, Zenon
  <2> QED  BY <2>1, <2>2, Zenon
<1>6. ASSUME NEW c \in calls, Deliver(c)  PROVE PassesOnce(n, r)'
  <2>1. /\ calls' = calls \ {c} /\ c.accepted /\ UNCHANGED <<watermark, forgotten, lapsed>>
        /\ \A m \in Nodes : seen[m] \subseteq seen'[m]
    BY <1>6, <1>t, Zenon DEF Deliver
  <2>2. CASE ~(c.node = n /\ c.record = r)
    <3>1. told'[n][r] = told[n][r]
      <4>1. CASE told' = told
        BY <4>1, Zenon
      <4>2. CASE told' = [told EXCEPT ![c.node][c.record] = @ + 1]
        <5>1. CASE n = c.node
          BY <4>2, <5>1, <2>2, <1>t, <1>n, Zenon
        <5>2. CASE n # c.node
          BY <4>2, <5>2, <1>t, Zenon
        <5> QED  BY <5>1, <5>2, Zenon
      <4> QED  BY <1>6, <4>1, <4>2, Zenon DEF Deliver
    <3> QED  BY <3>1, <2>1, <1>u, <1>q, Zenon
  <2>3. CASE c.node = n /\ c.record = r
    <3>1. told'[n][r] = told[n][r] + 1
      BY <1>6, <2>3, <1>t, Zenon DEF Deliver, Repeated
    <3>2. Passed(n, r) /\ Sends(c, n, r)
      BY <2>1, <2>3, Zenon DEF Passed, Sends
    <3>3. Single(n, r) => Single(n, r)'
      <4> SUFFICES ASSUME Single(n, r) PROVE Single(n, r)'
        BY Zenon
      <4>1. told[n][r] = 0 /\ \A e \in calls : Sends(e, n, r) => e = c
        BY <3>2, Zenon DEF Single
      <4>2. told'[n][r] <= 1
        BY <3>1, <4>1
      <4> QED  BY <4>1, <4>2, <2>1, Zenon DEF Single
    <3> QED  BY <3>2, <3>3, <2>1, <1>h, Zenon DEF PassesOnce
  <2> QED  BY <2>2, <2>3, Zenon
<1>7. ASSUME NEW c \in calls, ReloadFails(c)  PROVE PassesOnce(n, r)'
  <2> DEFINE f == [c EXCEPT !.failed = TRUE]
  <2>1. calls' = (calls \ {c}) \cup {f} /\ UNCHANGED <<filterVars, told>>
    BY <1>7, Zenon DEF ReloadFails, deliveryVars
  <2>2. Sends(f, n, r) <=> Sends(c, n, r)
    <3>1. f.node = c.node /\ f.record = c.record /\ f.accepted = c.accepted
      BY <1>t, CallFields, Zenon
    <3> QED  BY <3>1, Zenon DEF Sends
  <2> HIDE DEF f
  <2>3. ASSUME NEW a \in calls', NEW e \in calls', Sends(a, n, r), Sends(e, n, r)
        PROVE  \E g, b \in calls : Sends(g, n, r) /\ Sends(b, n, r) /\ (g = b => a = e)
    <3>1. CASE a = f /\ e = f
      BY <3>1, <2>2, <2>3, Zenon
    <3>2. CASE a = f /\ e # f
      BY <3>2, <2>1, <2>2, <2>3, Zenon
    <3>3. CASE a # f /\ e = f
      BY <3>3, <2>1, <2>2, <2>3, Zenon
    <3>4. CASE a # f /\ e # f
      BY <3>4, <2>1, <2>3, Zenon
    <3> QED  BY <3>1, <3>2, <3>3, <3>4, Zenon
  <2>4. \A a, e \in calls' : Sends(a, n, r) /\ Sends(e, n, r) =>
          \E g, b \in calls : Sends(g, n, r) /\ Sends(b, n, r) /\ (g = b => a = e)
    BY <2>3, Zenon
  <2>5. UNCHANGED <<seen, watermark, forgotten, lapsed, told>>
    BY <2>1, Zenon DEF filterVars
  <2> QED  BY <2>4, <2>5, <1>q, Zenon
<1>8. ASSUME NEW c \in calls, Withhold(c)  PROVE PassesOnce(n, r)'
  BY <1>8, <1>f, Zenon DEF Withhold
<1>9. ASSUME NEW m \in Nodes, Invalidate(m)  PROVE PassesOnce(n, r)'
  BY <1>9, <1>f, Zenon DEF Invalidate
<1>10. ASSUME NEW m \in Nodes, Lapse(m)  PROVE PassesOnce(n, r)'
  <2>1. /\ UNCHANGED <<calls, told, seen, forgotten>>
        /\ watermark' = [watermark EXCEPT ![m] = 0]
        /\ lapsed' = [lapsed EXCEPT ![m] = @ \cup {o \in Messages : o <= watermark[m]}]
    BY <1>10, Zenon DEF Lapse, deliveryVars
  <2>2. lapsed[n] \subseteq lapsed'[n]
    BY <2>1, <1>t, Zenon
  <2>3. r \notin lapsed'[n] /\ r <= watermark[n] => r <= watermark'[n]
    <3>1. CASE n = m
      BY <2>1, <3>1, <1>t, Zenon
    <3>2. CASE n # m
      BY <2>1, <3>2, <1>t, Zenon
    <3> QED  BY <3>1, <3>2, Zenon
  <2> QED  BY <2>1, <2>2, <2>3, <1>u, <1>q, Zenon
<1>11. ASSUME NEW m \in Nodes, NEW key \in seen[m], Forget(m, key)  PROVE PassesOnce(n, r)'
  <2>1. /\ UNCHANGED <<calls, watermark, told, lapsed>>
        /\ seen' = [seen EXCEPT ![m] = @ \ {key}]
        /\ forgotten' = [forgotten EXCEPT ![m] = @ \cup {key[2]}]
    BY <1>11, Zenon DEF Forget, deliveryVars
  <2>2. forgotten[n] \subseteq forgotten'[n]
    BY <2>1, <1>t, Zenon
  <2>3. r \notin forgotten'[n] /\ <<"guild", r>> \in seen[n] => <<"guild", r>> \in seen'[n]
    <3>1. CASE n = m
      <4>1. <<"guild", r>> = key => r = key[2]
        OBVIOUS
      <4> QED  BY <2>1, <3>1, <4>1, <1>t, Zenon
    <3>2. CASE n # m
      BY <2>1, <3>2, <1>t, Zenon
    <3> QED  BY <3>1, <3>2, Zenon
  <2> QED  BY <2>1, <2>2, <2>3, <1>u, <1>q, Zenon
<1>12. ASSUME NEW m \in Nodes, Restart(m)  PROVE PassesOnce(n, r)'
  <2>1. CASE n = m
    <3>1. told'[n][r] = 0 /\ \A c \in calls' : c.node # n
      <4>1. /\ told' = [told EXCEPT ![m] = [o \in Offsets |-> 0]]
            /\ calls' = {c \in calls : c.node # m}
        BY <1>12, Zenon DEF Restart
      <4> QED  BY <4>1, <2>1, <1>t, <1>n, Zenon
    <3>2. ~(told'[n][r] > 0) /\ told'[n][r] <= 1
      BY <3>1
    <3>3. ~Passed(n, r)' /\ Single(n, r)'
      BY <3>1, <3>2, Zenon DEF Passed, Single, Sends
    <3> QED  BY <3>3, Zenon DEF PassesOnce
  <2>2. CASE n # m
    <3>1. /\ seen'[n] = seen[n] /\ watermark'[n] = watermark[n] /\ told'[n] = told[n]
          /\ forgotten'[n] = forgotten[n] /\ lapsed'[n] = lapsed[n] /\ calls' \subseteq calls
      BY <1>12, <2>2, <1>t, Zenon DEF Restart
    <3> QED  BY <3>1, <1>u, <1>q, Zenon
  <2> QED  BY <2>1, <2>2, Zenon
<1> QED
  BY <1>1, <1>2, <1>3, <1>4, <1>5, <1>6, <1>7, <1>8, <1>9, <1>10, <1>11, <1>12, Zenon
  DEF DispatchNext

(* A recipient that was sent an update is skipped while the entry that says  *)
(* so lives (dispatchProfileSessions, dispatchPresenceSessions).             *)
LEMMA UpdatesStep ==
    ASSUME DispatchTypeOK, UpdatesAreRemembered, [DispatchNext]_dispatchVars
    PROVE  UpdatesAreRemembered'
<1>t. /\ told \in [Nodes -> [Offsets -> Nat]]
      /\ seen \in [Nodes -> SUBSET SeenKeys]
      /\ forgotten \in [Nodes -> SUBSET Offsets]
      /\ \A c \in calls : c.node \in Nodes /\ c.record \in Offsets
  BY CallFields, Zenon DEF DispatchTypeOK
<1>q. ASSUME UNCHANGED <<told, forgotten>>, \A n \in Nodes : seen[n] \subseteq seen'[n]
      PROVE  UpdatesAreRemembered'
  BY <1>q, Zenon DEF UpdatesAreRemembered
<1>1. ASSUME NEW d \in Dispatchers,
             \/ Take(d) \/ Resolve(d) \/ Complete(d) \/ Rebalance(d) \/ GiveUpRecord(d)
             \/ \E n \in Nodes, path \in {"user", "guild"} : Call(d, n, path)
      PROVE  UpdatesAreRemembered'
  <2>1. UNCHANGED <<told, forgotten, seen>>
    BY <1>1, Zenon DEF Take, Resolve, Complete, Rebalance, GiveUpRecord, Call, filterVars,
                       deliveryVars
  <2> QED  BY <2>1, <1>q, Zenon
<1>2. CASE Commit \/ UNCHANGED dispatchVars
  BY <1>2, <1>q, Zenon DEF Commit, dispatchVars, filterVars, deliveryVars
<1>3. ASSUME NEW c \in calls, Accept(c)  PROVE UpdatesAreRemembered'
  <2>1. UNCHANGED <<told, forgotten>> /\ \A n \in Nodes : seen[n] \subseteq seen'[n]
    BY <1>3, <1>t, Zenon DEF Accept, deliveryVars
  <2> QED  BY <2>1, <1>q, Zenon
<1>4. ASSUME NEW c \in calls, ReloadFails(c) \/ Withhold(c)  PROVE UpdatesAreRemembered'
  <2>1. UNCHANGED <<told, forgotten, seen>>
    BY <1>4, Zenon DEF ReloadFails, Withhold, filterVars, deliveryVars
  <2> QED  BY <2>1, <1>q, Zenon
<1>5. ASSUME NEW n \in Nodes, Invalidate(n) \/ Lapse(n)  PROVE UpdatesAreRemembered'
  <2>1. UNCHANGED <<told, forgotten, seen>>
    BY <1>5, Zenon DEF Invalidate, Lapse, filterVars, deliveryVars
  <2> QED  BY <2>1, <1>q, Zenon
<1>6. ASSUME NEW c \in calls, Deliver(c)
      PROVE  UpdatesAreRemembered'
  <2>1. /\ UNCHANGED forgotten
        /\ \A n \in Nodes : seen[n] \subseteq seen'[n]
    BY <1>6, <1>t, Zenon DEF Deliver
  <2>2. ASSUME NEW n \in Nodes, NEW r \in Offsets, ~(n = c.node /\ r = c.record)
        PROVE  told'[n][r] = told[n][r]
    <3>1. CASE told' = told
      BY <3>1, Zenon
    <3>2. CASE told' = [told EXCEPT ![c.node][c.record] = @ + 1]
      <4>1. CASE n = c.node
        BY <3>2, <4>1, <2>2, <1>t, Zenon
      <4>2. CASE n # c.node
        BY <3>2, <4>2, <1>t, Zenon
      <4> QED  BY <4>1, <4>2, Zenon
    <3> QED  BY <1>6, <3>1, <3>2, Zenon DEF Deliver
  <2>3. /\ ~Repeated(c) => told'[c.node][c.record] = told[c.node][c.record] + 1
        /\ Repeated(c) => told'[c.node][c.record] = told[c.node][c.record]
    BY <1>6, <1>t, Zenon DEF Deliver
  <2>4. UpdatesAreRemembered'
    <3>1. ASSUME NEW n \in Nodes, NEW r \in Offsets \ (Messages \cup forgotten[n])
          PROVE  told'[n][r] <= 1 /\ (told'[n][r] > 0 => <<"recipient", r>> \in seen'[n])
      <4>0. told[n][r] <= 1 /\ (told[n][r] > 0 => <<"recipient", r>> \in seen[n])
        BY <3>1, Zenon DEF UpdatesAreRemembered
      <4>1. CASE n = c.node /\ r = c.record
        <5>1. <<"recipient", r>> \in seen'[n]
          <6>1. seen' = [seen EXCEPT ![c.node] = @ \cup {<<"recipient", c.record>>}]
            BY <1>6, <4>1, <3>1, Zenon DEF Deliver
          <6> QED  BY <6>1, <4>1, <1>t, Zenon
        <5>2. CASE Repeated(c)
          BY <4>0, <4>1, <5>1, <5>2, <2>3, Zenon
        <5>3. CASE ~Repeated(c)
          <6>1. <<"recipient", r>> \notin seen[n]
            BY <5>3, <4>1, <3>1, Zenon DEF Repeated
          <6>2. told[n][r] \in Nat
            BY <3>1, <1>t, Zenon
          <6>3. told[n][r] = 0
            BY <6>1, <6>2, <4>0
          <6> QED  BY <6>3, <4>1, <5>1, <5>3, <2>3
        <5> QED  BY <5>2, <5>3, Zenon
      <4>2. CASE ~(n = c.node /\ r = c.record)
        BY <4>0, <4>2, <2>1, <2>2, <3>1, Zenon
      <4> QED  BY <4>1, <4>2, Zenon
    <3> QED  BY <3>1, <2>1, Zenon DEF UpdatesAreRemembered
  <2> QED  BY <2>4, Zenon
<1>7. ASSUME NEW m \in Nodes, NEW key \in seen[m], Forget(m, key)
      PROVE  UpdatesAreRemembered'
  <2>1. /\ UNCHANGED told
        /\ seen' = [seen EXCEPT ![m] = @ \ {key}]
        /\ forgotten' = [forgotten EXCEPT ![m] = @ \cup {key[2]}]
    BY <1>7, Zenon DEF Forget, deliveryVars
  <2>3. ASSUME NEW n \in Nodes, NEW r \in Offsets \ (Messages \cup forgotten'[n])
        PROVE  told[n][r] <= 1 /\ (told[n][r] > 0 => <<"recipient", r>> \in seen'[n])
    <3>1. r \in Offsets \ (Messages \cup forgotten[n])
      BY <2>1, <2>3, <1>t, Zenon
    <3>2. told[n][r] <= 1 /\ (told[n][r] > 0 => <<"recipient", r>> \in seen[n])
      BY <3>1, Zenon DEF UpdatesAreRemembered
    <3>3. n = m => <<"recipient", r>> # key
      BY <2>1, <2>3, <1>t
    <3> QED  BY <3>2, <3>3, <2>1, <1>t, Zenon
  <2> QED  BY <2>1, <2>3, Zenon DEF UpdatesAreRemembered
<1>8. ASSUME NEW m \in Nodes, Restart(m)
      PROVE  UpdatesAreRemembered'
  <2>1. /\ \A n \in Nodes \ {m} : /\ seen'[n] = seen[n]
                                 /\ told'[n] = told[n] /\ forgotten'[n] = forgotten[n]
        /\ \A r \in Offsets : told'[m][r] = 0
    BY <1>8, <1>t, Zenon DEF Restart
  <2>3. ASSUME NEW n \in Nodes, NEW r \in Offsets \ (Messages \cup forgotten'[n])
        PROVE  told'[n][r] <= 1 /\ (told'[n][r] > 0 => <<"recipient", r>> \in seen'[n])
    <3>1. CASE n = m
      BY <3>1, <2>1, <2>3
    <3>2. CASE n # m
      BY <3>2, <2>1, <2>3, Zenon DEF UpdatesAreRemembered
    <3> QED  BY <3>1, <3>2, Zenon
  <2> QED  BY <2>3, Zenon DEF UpdatesAreRemembered
<1> QED
  BY <1>1, <1>2, <1>3, <1>4, <1>5, <1>6, <1>7, <1>8, Zenon DEF DispatchNext

(* However often its record is repeated, a recipient is sent a message again *)
(* only after its entry and the watermark have expired, and an update again  *)
(* only after an entry has, for any number of nodes, Dispatchers and records *)
(* (dispatch.go, dedup.go, watermark.go).                                    *)
THEOREM DeliveriesAreNotRepeated == DispatchSpec => []ToldOnce
<1> DEFINE Inv == AttemptsFollowLog /\ OnceInv
<1>1. DispatchInit => Inv
  <2> SUFFICES ASSUME DispatchInit PROVE Inv
    OBVIOUS
  <2>1. DispatchTypeOK
    BY AttemptValues, DispatchConstants DEF DispatchInit, DispatchTypeOK
  <2>2. MessagesHaveOnePath
    BY AttemptValues, Zenon DEF DispatchInit, MessagesHaveOnePath
  <2>3. MessagesPassOnce
    BY DispatchConstants
       DEF DispatchInit, MessagesPassOnce, PassesOnce, Passed, Single, Offsets
  <2>4. UpdatesAreRemembered
    BY OffsetsPositive DEF DispatchInit, UpdatesAreRemembered
  <2>5. AttemptsFollowLog
    BY AttemptValues DEF DispatchInit, AttemptsFollowLog
  <2> QED  BY <2>1, <2>2, <2>3, <2>4, <2>5, Zenon DEF OnceInv
<1>2. Inv /\ [DispatchNext]_dispatchVars => Inv'
  <2> SUFFICES ASSUME AttemptsFollowLog, OnceInv, [DispatchNext]_dispatchVars
               PROVE  AttemptsFollowLog' /\ OnceInv'
    BY Zenon
  <2>1. DispatchTypeOK /\ MessagesHaveOnePath /\ MessagesPassOnce /\ UpdatesAreRemembered
    BY Zenon DEF OnceInv
  <2>2. DispatchTypeOK' /\ AttemptsFollowLog'
    BY <2>1, DispatchTypeStep, FollowStep, Zenon
  <2>3. MessagesHaveOnePath'
    BY <2>1, OnePathStep, Zenon
  <2>4. MessagesPassOnce' /\ UpdatesAreRemembered'
    BY <2>1, MessagesStep, UpdatesStep, Zenon
  <2> QED  BY <2>2, <2>3, <2>4, Zenon DEF OnceInv
<1>3. Inv => ToldOnce
  <2> SUFFICES ASSUME OnceInv, NEW n \in DOMAIN told, NEW r \in Offsets, told[n][r] > 1
               PROVE  r \in forgotten[n] /\ (r \in Messages => r \in lapsed[n])
    BY Zenon DEF ToldOnce
  <2>1. n \in Nodes /\ told[n][r] \in Nat /\ ~(told[n][r] <= 1)
    BY DEF OnceInv, DispatchTypeOK
  <2> QED  BY <2>1, Zenon DEF OnceInv, MessagesPassOnce, PassesOnce, Single, UpdatesAreRemembered
<1> QED  BY <1>1, <1>2, <1>3, PTL DEF DispatchSpec

-----------------------------------------------------------------------------
(***************************************************************************)
(* The filter for duplicates.  A live entry is the last addition of its    *)
(* key (LiveIsLast); the last addition of a key, while it lives, is in     *)
(* some generation (LastIsHeld); maxExpiresAt bounds its generation        *)
(* (MaxBounds), so that a generation a rotation drops holds nothing alive; *)
(* and a ring that has not filled up is its first generations, the others  *)
(* empty (Filling).                                                        *)
(***************************************************************************)

LiveIsLast ==
    \A gen \in Gens, key \in Keys :
        clock < entries[gen][key] => entries[gen][key] = remembered[key]

LastIsHeld ==
    \A key \in Keys : clock < remembered[key] =>
        \E gen \in Gens : entries[gen][key] = remembered[key]

MaxBounds == \A gen \in Gens, key \in Keys : entries[gen][key] <= maxExpiresAt[gen]

Filling ==
    inUse < NumGens =>
        /\ head = inUse - 1
        /\ \A gen \in Gens, key \in Keys : head < gen => entries[gen][key] = 0

DedupInv == DedupTypeOK /\ LiveIsLast /\ LastIsHeld /\ MaxBounds /\ Filling

----------------------------------------------------------------------------

(* The generations that shard.find visits: all of them once the ring is    *)
(* full, those up to the head before (dedup.go).                           *)
LEMMA WindowIs ==
    ASSUME DedupTypeOK, Filling
    PROVE  Window = IF inUse = NumGens THEN Gens ELSE 0 .. head
<1>1. /\ NumGens \in Nat \ {0} /\ head \in 0 .. NumGens - 1 /\ inUse \in 1 .. NumGens
      /\ inUse < NumGens => head = inUse - 1
  BY DedupConstants, Zenon DEF DedupTypeOK, Gens, Filling
<1>2. CASE inUse = NumGens
  <2>1. \A i \in 0 .. inUse - 1 : Slot(i) \in 0 .. NumGens - 1
    BY <1>1, <1>2 DEF Slot
  <2>2. ASSUME NEW g \in 0 .. NumGens - 1
        PROVE  \E i \in 0 .. inUse - 1 : Slot(i) = g
    <3>1. CASE g <= head
      <4>1. head - g \in 0 .. inUse - 1 /\ Slot(head - g) = g
        BY <1>1, <1>2, <2>2, <3>1 DEF Slot
      <4> QED  BY <4>1, Zenon
    <3>2. CASE ~(g <= head)
      <4>1. head - g + NumGens \in 0 .. inUse - 1 /\ Slot(head - g + NumGens) = g
        BY <1>1, <1>2, <2>2, <3>2 DEF Slot
      <4> QED  BY <4>1, Zenon
    <3> QED  BY <3>1, <3>2, Zenon
  <2>3. Window = 0 .. NumGens - 1
    BY <2>1, <2>2, Zenon DEF Window
  <2> QED  BY <2>3, <1>2, Zenon DEF Gens
<1>3. CASE inUse # NumGens
  <2>1. head = inUse - 1
    BY <1>1, <1>3
  <2>2. \A i \in 0 .. inUse - 1 : Slot(i) = head - i /\ Slot(i) \in 0 .. head
    BY <1>1, <2>1 DEF Slot
  <2>3. ASSUME NEW g \in 0 .. head
        PROVE  \E i \in 0 .. inUse - 1 : Slot(i) = g
    <3>1. head - g \in 0 .. inUse - 1 /\ Slot(head - g) = g
      BY <1>1, <2>1, <2>3 DEF Slot
    <3> QED  BY <3>1, Zenon
  <2>4. Window = 0 .. head
    BY <2>2, <2>3, Zenon DEF Window
  <2> QED  BY <2>4, <1>3, Zenon
<1> QED  BY <1>2, <1>3, Zenon

(* An entry that is alive is visited by shard.find.                        *)
LEMMA LiveIsVisited ==
    ASSUME DedupInv, NEW key \in Keys
    PROVE  Found(key) <=> \E gen \in Gens : clock < entries[gen][key]
<1>1. /\ DedupTypeOK /\ Filling
      /\ NumGens \in Nat \ {0} /\ head \in 0 .. NumGens - 1 /\ inUse \in 1 .. NumGens
      /\ clock \in Nat
  BY DedupConstants, Zenon DEF DedupInv, DedupTypeOK, Gens
<1>2. Window = IF inUse = NumGens THEN Gens ELSE 0 .. head
  BY <1>1, WindowIs, Zenon
<1>3. Window \subseteq Gens
  BY <1>1, <1>2 DEF Gens
<1>4. ASSUME NEW gen \in Gens, clock < entries[gen][key]
      PROVE  gen \in Window
  <2>1. CASE inUse = NumGens
    BY <2>1, <1>2, Zenon
  <2>2. CASE inUse # NumGens
    <3>1. ~(head < gen)
      BY <2>2, <1>1, <1>4 DEF Filling
    <3> QED  BY <2>2, <3>1, <1>1, <1>2 DEF Gens
  <2> QED  BY <2>1, <2>2, Zenon
<1> QED  BY <1>3, <1>4, Zenon DEF Found

(* The strengthening implies that the ring is exactly the filter.          *)
LEMMA ExactByInvariant == DedupInv => FilterIsExact
<1> SUFFICES ASSUME DedupInv, NEW key \in Keys
             PROVE  Found(key) <=> clock < remembered[key]
  BY Zenon DEF FilterIsExact
<1>1. Found(key) <=> \E gen \in Gens : clock < entries[gen][key]
  BY LiveIsVisited, Zenon
<1>2. ASSUME Found(key) PROVE clock < remembered[key]
  BY <1>1, <1>2, Zenon DEF DedupInv, LiveIsLast
<1>3. ASSUME clock < remembered[key] PROVE Found(key)
  BY <1>1, <1>3, Zenon DEF DedupInv, LastIsHeld
<1> QED  BY <1>2, <1>3, Zenon

----------------------------------------------------------------------------

(* checkAndAdd adds a key only when no live entry of it is left, so the new *)
(* entry is the only live one.                                             *)
LEMMA AddKeeps ==
    ASSUME DedupInv, NEW k \in Keys, CheckAndAdd(k)
    PROVE  DedupInv'
<1> DEFINE x == clock + DedupTTL
<1>t. /\ entries \in [Gens -> [Keys -> Nat]] /\ maxExpiresAt \in [Gens -> Nat]
      /\ head \in Gens /\ inUse \in 1 .. NumGens
      /\ clock \in Nat /\ remembered \in [Keys -> Nat]
  BY Zenon DEF DedupInv, DedupTypeOK
<1>1. x \in Nat /\ clock < x
  BY <1>t, DedupConstants
<1>2. /\ ~Found(k)
      /\ entries' = [entries EXCEPT ![head] = [@ EXCEPT ![k] = x]]
      /\ maxExpiresAt' = [maxExpiresAt EXCEPT ![head] = IF @ > x THEN @ ELSE x]
      /\ remembered' = [remembered EXCEPT ![k] = x]
      /\ UNCHANGED <<head, inUse, clock>>
  BY Zenon DEF CheckAndAdd
<1> HIDE DEF x
<1>3. \A gen \in Gens : ~(clock < entries[gen][k])
  BY <1>2, LiveIsVisited, Zenon
<1>4. entries'[head][k] = x
  BY <1>2, <1>t, Zenon
<1>5. \A gen \in Gens, key \in Keys :
        ~(gen = head /\ key = k) => entries'[gen][key] = entries[gen][key]
  BY <1>2, <1>t, Zenon
<1>6. remembered'[k] = x /\ \A key \in Keys : key # k => remembered'[key] = remembered[key]
  BY <1>2, <1>t, Zenon
<1>7. /\ maxExpiresAt'[head] = IF maxExpiresAt[head] > x THEN maxExpiresAt[head] ELSE x
      /\ \A gen \in Gens : gen # head => maxExpiresAt'[gen] = maxExpiresAt[gen]
  BY <1>2, <1>t, Zenon
<1>8. DedupTypeOK'
  <2>1. entries' \in [Gens -> [Keys -> Nat]]
    BY <1>1, <1>2, <1>t, Zenon
  <2>2. maxExpiresAt' \in [Gens -> Nat]
    BY <1>1, <1>2, <1>t, Zenon
  <2>3. remembered' \in [Keys -> Nat]
    BY <1>1, <1>2, <1>t, Zenon
  <2> QED  BY <1>2, <1>t, <2>1, <2>2, <2>3, Zenon DEF DedupTypeOK
<1>9. LiveIsLast'
  <2> SUFFICES ASSUME NEW gen \in Gens, NEW key \in Keys, clock < entries'[gen][key]
               PROVE  entries'[gen][key] = remembered'[key]
    BY <1>2, Zenon DEF LiveIsLast, Gens
  <2>1. CASE key # k
    BY <2>1, <1>5, <1>6, Zenon DEF DedupInv, LiveIsLast
  <2>2. CASE key = k /\ gen # head
    BY <2>2, <1>3, <1>5, Zenon
  <2>3. CASE key = k /\ gen = head
    BY <2>3, <1>4, <1>6, Zenon
  <2> QED  BY <2>1, <2>2, <2>3, Zenon
<1>10. LastIsHeld'
  <2> SUFFICES ASSUME NEW key \in Keys, clock < remembered'[key]
               PROVE  \E gen \in Gens : entries'[gen][key] = remembered'[key]
    BY <1>2, Zenon DEF LastIsHeld, Gens
  <2>1. CASE key = k
    BY <2>1, <1>t, <1>4, <1>6, Zenon
  <2>2. CASE key # k
    BY <2>2, <1>5, <1>6, Zenon DEF DedupInv, LastIsHeld
  <2> QED  BY <2>1, <2>2, Zenon
<1>11. MaxBounds'
  <2> SUFFICES ASSUME NEW gen \in Gens, NEW key \in Keys
               PROVE  entries'[gen][key] <= maxExpiresAt'[gen]
    BY Zenon DEF MaxBounds, Gens
  <2>1. entries[gen][key] <= maxExpiresAt[gen] /\ entries[gen][key] \in Nat
        /\ maxExpiresAt[gen] \in Nat
    BY <1>t, Zenon DEF DedupInv, MaxBounds
  <2>2. CASE gen # head
    BY <2>1, <2>2, <1>5, <1>7, Zenon
  <2>3. CASE gen = head /\ key # k
    BY <2>1, <2>3, <1>1, <1>5, <1>7
  <2>4. CASE gen = head /\ key = k
    BY <2>1, <2>4, <1>1, <1>4, <1>7
  <2> QED  BY <2>2, <2>3, <2>4, Zenon
<1>12. Filling'
  <2> SUFFICES ASSUME inUse < NumGens
               PROVE  /\ head = inUse - 1
                      /\ \A gen \in Gens, key \in Keys : head < gen => entries'[gen][key] = 0
    BY <1>2, Zenon DEF Filling, Gens
  <2>1. /\ head = inUse - 1
        /\ \A gen \in Gens, key \in Keys : head < gen => entries[gen][key] = 0
    BY Zenon DEF DedupInv, Filling
  <2>2. \A gen \in Gens : head < gen => gen # head
    BY <1>t, DedupConstants DEF Gens
  <2> QED  BY <2>1, <2>2, <1>5, Zenon
<1> QED  BY <1>8, <1>9, <1>10, <1>11, <1>12, Zenon DEF DedupInv

(* remove takes the key out of every generation that may hold it.          *)
LEMMA RemoveKeeps ==
    ASSUME DedupInv, NEW k \in Keys, Remove(k)
    PROVE  DedupInv'
<1>t. /\ entries \in [Gens -> [Keys -> Nat]] /\ maxExpiresAt \in [Gens -> Nat]
      /\ head \in Gens /\ inUse \in 1 .. NumGens
      /\ clock \in Nat /\ remembered \in [Keys -> Nat]
  BY Zenon DEF DedupInv, DedupTypeOK
<1>1. /\ entries' = [gen \in Gens |->
             IF gen \in Window THEN [entries[gen] EXCEPT ![k] = 0] ELSE entries[gen]]
      /\ remembered' = [remembered EXCEPT ![k] = 0]
      /\ UNCHANGED <<maxExpiresAt, head, inUse, clock>>
  BY Zenon DEF Remove
<1>2. \A gen \in Gens, key \in Keys : key # k => entries'[gen][key] = entries[gen][key]
  BY <1>1, <1>t, Zenon
<1>3. \A gen \in Gens : entries'[gen][k] = 0
  <2> SUFFICES ASSUME NEW gen \in Gens
               PROVE  entries'[gen][k] = 0
    OBVIOUS
  <2>1. CASE gen \in Window
    BY <2>1, <1>1, <1>t, Zenon
  <2>2. CASE gen \notin Window
    <3>1. Window = IF inUse = NumGens THEN Gens ELSE 0 .. head
      BY WindowIs, Zenon DEF DedupInv
    <3>2. inUse < NumGens /\ head < gen
      BY <2>2, <3>1, <1>t, DedupConstants DEF Gens
    <3>3. entries[gen][k] = 0
      BY <3>2, Zenon DEF DedupInv, Filling
    <3> QED  BY <2>2, <3>3, <1>1, Zenon
  <2> QED  BY <2>1, <2>2, Zenon
<1>4. remembered'[k] = 0 /\ \A key \in Keys : key # k => remembered'[key] = remembered[key]
  BY <1>1, <1>t, Zenon
<1>5. DedupTypeOK'
  <2>1. entries' \in [Gens -> [Keys -> Nat]]
    BY <1>1, <1>t, Zenon
  <2>2. remembered' \in [Keys -> Nat]
    BY <1>1, <1>t, Zenon
  <2> QED  BY <1>1, <1>t, <2>1, <2>2, Zenon DEF DedupTypeOK
<1>6. LiveIsLast'
  <2> SUFFICES ASSUME NEW gen \in Gens, NEW key \in Keys, clock < entries'[gen][key]
               PROVE  entries'[gen][key] = remembered'[key]
    BY <1>1, Zenon DEF LiveIsLast, Gens
  <2>1. CASE key = k
    BY <2>1, <1>3, <1>4, Zenon
  <2>2. CASE key # k
    BY <2>2, <1>2, <1>4, Zenon DEF DedupInv, LiveIsLast
  <2> QED  BY <2>1, <2>2, Zenon
<1>7. LastIsHeld'
  <2> SUFFICES ASSUME NEW key \in Keys, clock < remembered'[key]
               PROVE  \E gen \in Gens : entries'[gen][key] = remembered'[key]
    BY <1>1, Zenon DEF LastIsHeld, Gens
  <2>1. key # k
    BY <1>4, <1>t
  <2> QED  BY <2>1, <1>2, <1>4, Zenon DEF DedupInv, LastIsHeld
<1>8. MaxBounds'
  <2> SUFFICES ASSUME NEW gen \in Gens, NEW key \in Keys
               PROVE  entries'[gen][key] <= maxExpiresAt[gen]
    BY <1>1, Zenon DEF MaxBounds, Gens
  <2>1. CASE key = k
    BY <2>1, <1>3, <1>t
  <2>2. CASE key # k
    BY <2>2, <1>2, Zenon DEF DedupInv, MaxBounds
  <2> QED  BY <2>1, <2>2, Zenon
<1>9. Filling'
  <2> SUFFICES ASSUME inUse < NumGens
               PROVE  /\ head = inUse - 1
                      /\ \A gen \in Gens, key \in Keys : head < gen => entries'[gen][key] = 0
    BY <1>1, Zenon DEF Filling, Gens
  <2> QED  BY <1>2, <1>3, Zenon DEF DedupInv, Filling
<1> QED  BY <1>5, <1>6, <1>7, <1>8, <1>9, Zenon DEF DedupInv

(* rotateAll empties a generation in which nothing is alive: before the    *)
(* ring is full it was never used, and afterwards its maxExpiresAt has     *)
(* passed.                                                                 *)
LEMMA RotateKeeps ==
    ASSUME DedupInv, RotateAll
    PROVE  DedupInv'
<1> DEFINE oldest == IF head = NumGens - 1 THEN 0 ELSE head + 1
<1>t. /\ entries \in [Gens -> [Keys -> Nat]] /\ maxExpiresAt \in [Gens -> Nat]
      /\ head \in Gens /\ inUse \in 1 .. NumGens
      /\ clock \in Nat /\ remembered \in [Keys -> Nat]
  BY Zenon DEF DedupInv, DedupTypeOK
<1>1. /\ ~(inUse = NumGens /\ maxExpiresAt[oldest] > clock)
      /\ head' = oldest
      /\ entries' = [entries EXCEPT ![oldest] = [key \in Keys |-> 0]]
      /\ maxExpiresAt' = [maxExpiresAt EXCEPT ![oldest] = 0]
      /\ inUse' = IF inUse < NumGens THEN inUse + 1 ELSE inUse
      /\ UNCHANGED <<clock, remembered>>
  BY Zenon DEF RotateAll
<1>2. /\ oldest \in Gens
      /\ inUse < NumGens => oldest = head + 1 /\ head = inUse - 1
      /\ inUse' \in 1 .. NumGens
  BY <1>1, <1>t, DedupConstants DEF Gens, DedupInv, Filling
<1> HIDE DEF oldest
<1>3. \A key \in Keys : entries'[oldest][key] = 0
  BY <1>1, <1>2, <1>t, Zenon
<1>4. \A gen \in Gens, key \in Keys : gen # oldest => entries'[gen][key] = entries[gen][key]
  BY <1>1, <1>2, <1>t, Zenon
<1>5. maxExpiresAt'[oldest] = 0
      /\ \A gen \in Gens : gen # oldest => maxExpiresAt'[gen] = maxExpiresAt[gen]
  BY <1>1, <1>2, <1>t, Zenon
<1>6. ASSUME NEW key \in Keys PROVE ~(clock < entries[oldest][key])
  <2>1. CASE inUse = NumGens
    <3>1. maxExpiresAt[oldest] \in Nat /\ ~(maxExpiresAt[oldest] > clock)
      BY <2>1, <1>1, <1>2, <1>t, Zenon
    <3>2. entries[oldest][key] <= maxExpiresAt[oldest] /\ entries[oldest][key] \in Nat
      BY <1>2, <1>t, Zenon DEF DedupInv, MaxBounds
    <3> QED  BY <3>1, <3>2, <1>t
  <2>2. CASE inUse # NumGens
    <3>1. inUse < NumGens /\ head < oldest
      BY <2>2, <1>2, <1>t, DedupConstants DEF Gens
    <3>2. entries[oldest][key] = 0
      BY <3>1, <1>2, Zenon DEF DedupInv, Filling
    <3> QED  BY <3>2, <1>t
  <2> QED  BY <2>1, <2>2, Zenon
<1>7. DedupTypeOK'
  <2>1. entries' \in [Gens -> [Keys -> Nat]]
    BY <1>1, <1>2, <1>t, Zenon
  <2>2. maxExpiresAt' \in [Gens -> Nat]
    BY <1>1, <1>2, <1>t, Zenon
  <2> QED  BY <1>1, <1>2, <1>t, <2>1, <2>2, Zenon DEF DedupTypeOK
<1>8. LiveIsLast'
  <2> SUFFICES ASSUME NEW gen \in Gens, NEW key \in Keys, clock < entries'[gen][key]
               PROVE  entries'[gen][key] = remembered[key]
    BY <1>1, Zenon DEF LiveIsLast, Gens
  <2>1. gen # oldest
    BY <1>3, <1>t
  <2> QED  BY <2>1, <1>4, Zenon DEF DedupInv, LiveIsLast
<1>9. LastIsHeld'
  <2> SUFFICES ASSUME NEW key \in Keys, clock < remembered[key]
               PROVE  \E gen \in Gens : entries'[gen][key] = remembered[key]
    BY <1>1, Zenon DEF LastIsHeld, Gens
  <2>1. PICK gen \in Gens : entries[gen][key] = remembered[key]
    BY Zenon DEF DedupInv, LastIsHeld
  <2>2. gen # oldest
    BY <2>1, <1>6, Zenon
  <2> QED  BY <2>1, <2>2, <1>4, Zenon
<1>10. MaxBounds'
  <2> SUFFICES ASSUME NEW gen \in Gens, NEW key \in Keys
               PROVE  entries'[gen][key] <= maxExpiresAt'[gen]
    BY Zenon DEF MaxBounds, Gens
  <2>1. CASE gen = oldest
    BY <2>1, <1>3, <1>5
  <2>2. CASE gen # oldest
    BY <2>2, <1>4, <1>5, Zenon DEF DedupInv, MaxBounds
  <2> QED  BY <2>1, <2>2, Zenon
<1>11. Filling'
  <2> SUFFICES ASSUME inUse' < NumGens
               PROVE  /\ head' = inUse' - 1
                      /\ \A gen \in Gens, key \in Keys : head' < gen => entries'[gen][key] = 0
    BY Zenon DEF Filling, Gens
  <2>1. inUse < NumGens /\ inUse' = inUse + 1
    BY <1>1, <1>t, DedupConstants, Zenon
  <2>2. head' = head + 1 /\ head = inUse - 1 /\ head' = oldest
    BY <2>1, <1>1, <1>2, Zenon
  <2>3. \A gen \in Gens : head' < gen => gen # oldest /\ head < gen
    BY <2>2, <1>t, DedupConstants DEF Gens
  <2>4. \A gen \in Gens, key \in Keys : head < gen => entries[gen][key] = 0
    BY <2>1, Zenon DEF DedupInv, Filling
  <2>5. head' = inUse' - 1
    BY <2>1, <2>2, <1>t
  <2> QED  BY <2>3, <2>4, <2>5, <1>4, Zenon
<1> QED  BY <1>7, <1>8, <1>9, <1>10, <1>11, Zenon DEF DedupInv

(* Entries only expire as time passes.                                     *)
LEMMA ClockKeeps ==
    ASSUME DedupInv, ClockTicks
    PROVE  DedupInv'
<1>t. /\ entries \in [Gens -> [Keys -> Nat]] /\ clock \in Nat
      /\ remembered \in [Keys -> Nat]
  BY Zenon DEF DedupInv, DedupTypeOK
<1>1. clock' = clock + 1 /\ UNCHANGED <<entries, maxExpiresAt, head, inUse, remembered>>
  BY Zenon DEF ClockTicks
<1>2. DedupTypeOK'
  BY <1>1, <1>t DEF DedupInv, DedupTypeOK, Gens
<1>3. LiveIsLast'
  <2>1. \A gen \in Gens, key \in Keys :
          clock + 1 < entries[gen][key] => entries[gen][key] = remembered[key]
    <3> SUFFICES ASSUME NEW gen \in Gens, NEW key \in Keys, clock + 1 < entries[gen][key]
                 PROVE  entries[gen][key] = remembered[key]
      OBVIOUS
    <3>1. entries[gen][key] \in Nat
      BY <1>t, Zenon
    <3>2. clock < entries[gen][key]
      BY <3>1, <1>t
    <3> QED  BY <3>2, Zenon DEF DedupInv, LiveIsLast
  <2> QED  BY <2>1, <1>1, Zenon DEF LiveIsLast, Gens
<1>4. LastIsHeld'
  <2>1. ASSUME NEW key \in Keys, clock + 1 < remembered[key]
        PROVE  \E gen \in Gens : entries[gen][key] = remembered[key]
    <3>1. remembered[key] \in Nat
      BY <1>t, Zenon
    <3>2. clock < remembered[key]
      BY <2>1, <3>1, <1>t
    <3> QED  BY <3>2, Zenon DEF DedupInv, LastIsHeld
  <2> QED  BY <2>1, <1>1, Zenon DEF LastIsHeld, Gens
<1>5. MaxBounds' /\ Filling'
  BY <1>1, Zenon DEF DedupInv, MaxBounds, Filling, Gens
<1> QED  BY <1>2, <1>3, <1>4, <1>5, Zenon DEF DedupInv

(* newDedupStore's shard is empty and remembers nothing.                   *)
LEMMA DedupInitial == DedupInit => DedupInv
<1> SUFFICES ASSUME DedupInit
             PROVE  DedupInv
  OBVIOUS
<1>1. \A gen \in Gens, key \in Keys : entries[gen][key] = 0
  BY Zenon DEF DedupInit
<1>2. /\ \A gen \in Gens : maxExpiresAt[gen] = 0
      /\ head = 0 /\ inUse = 1 /\ clock = 0
      /\ \A key \in Keys : remembered[key] = 0
  BY Zenon DEF DedupInit
<1>3. DedupTypeOK
  BY DedupConstants DEF DedupInit, DedupTypeOK, Gens
<1>4. LiveIsLast /\ LastIsHeld /\ MaxBounds /\ Filling
  BY <1>1, <1>2 DEF LiveIsLast, LastIsHeld, MaxBounds, Filling
<1> QED  BY <1>3, <1>4, Zenon DEF DedupInv

(* The duplicate filter of a Session node drops a key exactly while its    *)
(* last addition has neither expired nor been removed, for any keys, any   *)
(* number of generations, any TTL and any rotations (dedup.go).            *)
THEOREM DedupIsExact == DedupSpec => []FilterIsExact
<1>1. DedupInv /\ [DedupNext]_dedupVars => DedupInv'
  <2> SUFFICES ASSUME DedupInv, [DedupNext]_dedupVars
               PROVE  DedupInv'
    OBVIOUS
  <2>1. CASE UNCHANGED dedupVars
    BY <2>1, Zenon DEF dedupVars, DedupInv, DedupTypeOK, LiveIsLast, LastIsHeld, MaxBounds, Filling, Gens
  <2> QED  BY <2>1, AddKeeps, RemoveKeeps, RotateKeeps, ClockKeeps, Zenon DEF DedupNext
<1> QED  BY DedupInitial, <1>1, ExactByInvariant, PTL DEF DedupSpec

-----------------------------------------------------------------------------
(***************************************************************************)
(* Presence, when no call outlasts its lock.  A version names one status   *)
(* because the snapshot a call read is still the snapshot when it saves:   *)
(* the lock excludes every other writer (Exclusive), so what a call is     *)
(* about to save is newer than the snapshot or equal to it (SnapshotInv),  *)
(* and everything that left the service is the snapshot or older           *)
(* (ObservedInv).                                                          *)
(***************************************************************************)

\* A registration carries a status, and so does a call that selects one.
CallInv ==
  \A h \in Handlers :
    /\ call[h].op = "register" => call[h].status # None
    /\ pc[h] = "choose" => call[h].status # None

\* Only the holder of the lock is inside a mutation.
Exclusive == \A h \in Handlers : pc[h] \in Locked => lock = h

\* What a call is about to save as the preference is newer than the stored one.
PreferenceInv ==
  \A h \in Handlers :
    /\ pc[h] = "initialize" => preference.version = 0 /\ own[h].version > 0
    /\ pc[h] = "choose" => own[h] = preference

\* What a call is about to save as the snapshot is newer than the stored one, or
\* is the stored one; what it publishes or returns is the stored one.
SnapshotInv ==
  \A h \in Handlers :
    /\ pc[h] = "save" /\ changed[h] => next[h].version > snapshot.version
    /\ pc[h] = "save" /\ ~changed[h] => next[h] = snapshot
    /\ pc[h] \in {"publish", "unlock"} => next[h] = snapshot

\* What left the service is the snapshot or has an older version.
ObservedInv == \A a \in observed : a.version < snapshot.version \/ a = snapshot

PresenceInv == Exclusive /\ PreferenceInv /\ SnapshotInv /\ ObservedInv /\ VersionNamesStatus

----------------------------------------------------------------------------

\* The values the variables start from, and a call returns to, are well typed.
LEMMA InitialValues ==
  /\ Unset \in Preference
  /\ NoSnapshot \in Aggregate
  /\ NoCall \in Calls
  /\ Calls \subseteq CallRecords
BY PresenceConstants DEF Unset, NoSnapshot, NoCall, Preference, Aggregate, Public, Version

\* A version of nextVersion is above the previous one and within the range.
LEMMA VersionsAbove ==
  ASSUME NEW p \in Version, NEW v \in NextVersions(p)
  PROVE  v \in Version /\ v > p
BY PresenceConstants DEF Version, NextVersions

\* A finished call leaves well-typed local variables behind.
LEMMA ReturnTypes ==
  ASSUME TypeOK, NEW h \in Handlers, Return(h)
  PROVE  /\ pc' \in [Handlers -> Pcs]
         /\ call' \in [Handlers -> CallRecords]
         /\ own' \in [Handlers -> Preference]
         /\ members' \in [Handlers -> SUBSET Sessions]
         /\ alive' \in [Handlers -> SUBSET Sessions]
         /\ next' \in [Handlers -> Aggregate]
         /\ changed' \in [Handlers -> BOOLEAN]
<1>1. NoCall \in CallRecords
  BY InitialValues, Zenon
<1>2. "idle" \in Pcs
  BY Zenon DEF Pcs
<1>3. changed' \in [Handlers -> BOOLEAN]
  BY Zenon DEF TypeOK, Return
<1> QED  BY <1>1, <1>2, <1>3, InitialValues, Zenon DEF TypeOK, Return, Go

\* A step name is a program counter.
LEMMA StepNames ==
  /\ Locked \subseteq Pcs
  /\ {"preference", "initialize", "choose", "announce", "lookup", "write", "delete", "list",
      "gather", "prune", "reconcile", "save", "publish", "unlock", "failed"} = Locked
  /\ {"idle", "lock", "renew", "reindex"} \subseteq Pcs \ Locked
BY Zenon DEF Pcs, Locked

\* The types hold initially.
LEMMA TypeInit == Init => TypeOK /\ CallInv
<1> SUFFICES ASSUME Init PROVE TypeOK /\ CallInv
  OBVIOUS
<1>1. NoCall \in CallRecords /\ (NoCall.op = "register" => NoCall.status # None)
  BY InitialValues, PresenceConstants, Zenon
<1>2. CallInv
  BY <1>1, Zenon DEF Init, CallInv
<1>3. TypeOK
  <2>1. pc \in [Handlers -> Pcs] /\ changed \in [Handlers -> BOOLEAN]
    BY Zenon DEF Init, Pcs
  <2>2. last \in [Streams -> Version] /\ faults \in 0..MaxFaults
    BY PresenceConstants DEF Init, Version
  <2> QED  BY <1>1, <2>1, <2>2, InitialValues, Zenon DEF Init, TypeOK
<1> QED  BY <1>2, <1>3, Zenon

\* A step of a call keeps the program counters and arguments well typed.
LEMMA CallStep ==
  ASSUME TypeOK, CallInv, NEW h \in Handlers, Step(h)
  PROVE  pc' \in [Handlers -> Pcs] /\ call' \in [Handlers -> CallRecords] /\ CallInv'
<1> USE DEF TypeOK, CallInv
<1>1. CASE Receive(h)
  <2>1. PICK c \in Calls : call' = [call EXCEPT ![h] = c]
                           /\ Go(h, IF c.op = "renew" THEN "renew" ELSE "lock")
    BY <1>1, Zenon DEF Receive
  <2>2. c \in CallRecords /\ (c.op = "register" => c.status # None)
    BY InitialValues, PresenceConstants, Zenon
  <2> QED  BY <2>1, <2>2, StepNames, Zenon DEF Go
<1>2. CASE Return(h)
  <2>1. NoCall \in CallRecords /\ (NoCall.op = "register" => NoCall.status # None)
    BY InitialValues, PresenceConstants, Zenon
  <2> QED  BY <1>2, <2>1, StepNames, Zenon DEF Return, Go
<1>3. CASE LookupSession(h)
  <2>1. owner[call[h].session] # None => owner[call[h].session] \in Generations
    BY Zenon DEF CallRecords
  <2>2. CASE owner[call[h].session] = None
    BY <1>3, <2>2, StepNames, Zenon DEF LookupSession, Go
  <2>3. CASE owner[call[h].session] # None
    <3> DEFINE c == [call[h] EXCEPT !.generation = owner[call[h].session]]
    <3>1. call' = [call EXCEPT ![h] = c] /\ Go(h, "write")
      BY <1>3, <2>3, Zenon DEF LookupSession
    <3>2. c \in CallRecords /\ c.op = call[h].op /\ c.status = call[h].status
      BY <2>1, <2>3, Zenon DEF CallRecords
    <3> HIDE DEF c
    <3> QED  BY <3>1, <3>2, StepNames, Zenon DEF Go
  <2> QED  BY <2>2, <2>3, Zenon
<1>4. CASE /\ call' = call
           /\ \E step \in Pcs : Go(h, step) /\ (step = "choose" => call[h].status # None)
  BY <1>4, Zenon DEF Go
<1>5. ASSUME ReadPreference(h) \/ InitializePreference(h)
      PROVE  /\ call' = call
             /\ \E step \in Pcs : Go(h, step) /\ (step = "choose" => call[h].status # None)
  <2>1. \A p : /\ AfterPreference(h, p) \in Pcs
               /\ AfterPreference(h, p) = "choose" => call[h].status # None
    BY StepNames, Zenon DEF AfterPreference
  <2> QED  BY <1>5, <2>1, StepNames, Zenon DEF ReadPreference, InitializePreference
<1>6. ASSUME \/ Acquire(h) \/ SavePreference(h) \/ PublishPreference(h) \/ WriteSession(h)
             \/ DeleteSession(h) \/ ListMembers(h) \/ GatherSessions(h) \/ PruneAndAggregate(h)
             \/ Exhausted(h) \/ SaveSnapshot(h) \/ PublishTransition(h)
      PROVE  /\ call' = call
             /\ \E step \in Pcs : Go(h, step) /\ (step = "choose" => call[h].status # None)
  BY <1>6, StepNames, Zenon DEF Acquire, SavePreference, PublishPreference, WriteSession, DeleteSession,
     ListMembers, GatherSessions, PruneAndAggregate, Exhausted, SaveSnapshot,
     PublishTransition
<1>7. ASSUME Reconcile(h)
      PROVE  /\ call' = call
             /\ \E step \in Pcs : Go(h, step) /\ (step = "choose" => call[h].status # None)
  BY <1>7, StepNames, Zenon DEF Reconcile
<1>8. CASE GiveUp(h) \/ Unlock(h) \/ RenewMember(h) \/ Crash(h)
  BY <1>2, <1>8, Zenon DEF GiveUp, Unlock, RenewMember, Crash
<1>9. CASE RenewHash(h) \/ Fail(h)
  <2>1. Return(h) \/ (call' = call /\ (Go(h, "reindex") \/ Go(h, "failed")))
    BY <1>9, Zenon DEF RenewHash, Fail
  <2> QED  BY <1>2, <1>4, <2>1, StepNames, Zenon
<1> HIDE DEF TypeOK, CallInv
<1> QED
  BY <1>1, <1>3, <1>4, <1>5, <1>6, <1>7, <1>8, <1>9, Zenon DEF Step, LockedStep

\* A step of a call keeps what it read and computed well typed.
LEMMA LocalStep ==
  ASSUME TypeOK, CallInv, NEW h \in Handlers, Step(h)
  PROVE  /\ own' \in [Handlers -> Preference]
         /\ members' \in [Handlers -> SUBSET Sessions]
         /\ alive' \in [Handlers -> SUBSET Sessions]
         /\ next' \in [Handlers -> Aggregate]
         /\ changed' \in [Handlers -> BOOLEAN]
<1> USE DEF TypeOK
<1>1. CASE Return(h)
  BY <1>1, ReturnTypes, Zenon
<1>2. CASE UNCHANGED <<own, members, alive, next, changed>>
  BY <1>2, Zenon
<1>3. CASE ReadPreference(h)
  <2>1. ASSUME NEW v \in NextVersions(0)
        PROVE  [status |-> InitialStatus(h), version |-> v] \in Preference
    <3>1. v \in Version
      BY VersionsAbove, PresenceConstants DEF Version
    <3>2. InitialStatus(h) \in Statuses
      BY PresenceConstants, Zenon DEF InitialStatus, CallInv, CallRecords
    <3> QED  BY <3>1, <3>2, Zenon DEF Preference
  <2> QED  BY <1>3, <2>1, Zenon DEF ReadPreference
<1>4. CASE SavePreference(h)
  <2>1. ASSUME NEW v \in NextVersions(own[h].version)
        PROVE  [status |-> call[h].status, version |-> v] \in Preference
    <3>1. v \in Version
      BY VersionsAbove, Zenon DEF Preference
    <3>2. call[h].status \in Statuses
      BY <1>4, Zenon DEF SavePreference, CallInv, CallRecords
    <3> QED  BY <3>1, <3>2, Zenon DEF Preference
  <2> QED  BY <1>4, <2>1, Zenon DEF SavePreference
<1>5. CASE ListMembers(h) \/ GatherSessions(h)
  BY <1>5, Zenon DEF ListMembers, GatherSessions
<1>6. CASE PruneAndAggregate(h)
  <2>1. AggregateStatus(preference, alive[h]) \in Public
    BY Zenon DEF AggregateStatus, Public, Preference
  <2>2. [next[h] EXCEPT !.status = AggregateStatus(preference, alive[h])] \in Aggregate
    BY <2>1, Zenon DEF Aggregate
  <2> QED  BY <1>6, <2>2, Zenon DEF PruneAndAggregate
<1>7. CASE Reconcile(h)
  <2>1. ASSUME NEW v \in Version
        PROVE  [next[h] EXCEPT !.version = v] \in Aggregate
    BY Zenon DEF Aggregate
  <2>2. snapshot.version \in Version
    BY Zenon DEF Aggregate
  <2>3. \E v \in Version : next' = [next EXCEPT ![h].version = v]
    BY <1>7, <2>2, VersionsAbove, Zenon DEF Reconcile
  <2>4. next' \in [Handlers -> Aggregate]
    BY <2>1, <2>3, Zenon
  <2>5. changed' \in [Handlers -> BOOLEAN]
    BY <1>7, Zenon DEF Reconcile, Differs
  <2> QED  BY <1>7, <2>4, <2>5, Zenon DEF Reconcile
<1> HIDE DEF TypeOK
<1>8. CASE \/ Receive(h) \/ Acquire(h) \/ InitializePreference(h) \/ PublishPreference(h)
           \/ LookupSession(h) \/ WriteSession(h) \/ DeleteSession(h) \/ Exhausted(h)
           \/ SaveSnapshot(h) \/ PublishTransition(h)
  BY <1>2, <1>8, Zenon DEF Receive, Acquire, InitializePreference, PublishPreference, LookupSession,
     WriteSession, DeleteSession, Exhausted, SaveSnapshot, PublishTransition
<1>9. CASE \/ GiveUp(h) \/ Unlock(h) \/ RenewHash(h) \/ RenewMember(h) \/ Fail(h) \/ Crash(h)
  BY <1>1, <1>2, <1>9, Zenon DEF GiveUp, Unlock, RenewHash, RenewMember, Fail, Crash
<1> QED
  BY <1>3, <1>4, <1>5, <1>6, <1>7, <1>8, <1>9, Zenon DEF Step, LockedStep

\* A step of a call keeps the service's keys well typed.
LEMMA KeyStep ==
  ASSUME TypeOK, CallInv, NEW h \in Handlers, Step(h)
  PROVE  /\ preference' \in Preference
         /\ snapshot' \in Aggregate
         /\ owner' \in [Sessions -> Generations \cup {None}]
         /\ index' \in SUBSET Sessions
         /\ lock' \in Handlers \cup {None, Orphan}
<1> USE DEF TypeOK
<1>1. CASE UNCHANGED keyVars
  BY <1>1, Zenon DEF keyVars
<1>2. CASE InitializePreference(h)
  BY <1>2, Zenon DEF InitializePreference
<1>3. CASE SavePreference(h)
  <2>1. own' \in [Handlers -> Preference]
    BY LocalStep, Zenon
  <2> QED  BY <1>3, <2>1 DEF SavePreference
<1>4. CASE WriteSession(h) \/ DeleteSession(h) \/ RenewMember(h)
  <2>1. call[h].session \in Sessions /\ call[h].generation \in Generations
    BY Zenon DEF CallRecords
  <2> QED  BY <1>4, <2>1, Zenon DEF WriteSession, DeleteSession, RenewMember
<1>5. CASE Acquire(h) \/ PruneAndAggregate(h) \/ SaveSnapshot(h) \/ Unlock(h) \/ Crash(h)
  BY <1>5, Zenon DEF Acquire, PruneAndAggregate, SaveSnapshot, Unlock, Crash
<1> HIDE DEF TypeOK
<1>6. CASE \/ Receive(h) \/ GiveUp(h) \/ ReadPreference(h) \/ PublishPreference(h)
           \/ LookupSession(h) \/ ListMembers(h) \/ GatherSessions(h) \/ Reconcile(h)
           \/ Exhausted(h) \/ PublishTransition(h) \/ RenewHash(h) \/ Fail(h)
  BY <1>1, <1>6, Zenon DEF Receive, GiveUp, ReadPreference, PublishPreference, LookupSession,
     ListMembers, GatherSessions, Reconcile, Exhausted, PublishTransition, RenewHash, Fail
<1> QED
  BY <1>2, <1>3, <1>4, <1>5, <1>6, Zenon DEF Step, LockedStep

\* A step of a call keeps the published events well typed.
LEMMA OutStep ==
  ASSUME TypeOK, CallInv, NEW h \in Handlers, Step(h)
  PROVE  /\ observed' \in SUBSET Aggregate
         /\ last' \in [Streams -> Version]
         /\ late' \in SUBSET (Streams \X Version)
         /\ consumed' \in BOOLEAN /\ overlapped' \in BOOLEAN
         /\ faults' \in 0..MaxFaults
<1> USE DEF TypeOK
<1>1. CASE UNCHANGED <<outVars, faults>>
  BY <1>1, Zenon DEF outVars
<1>2. ASSUME NEW t \in Streams, NEW v \in Version, Publish(t, v)
      PROVE  /\ last' \in [Streams -> Version]
             /\ late' \in SUBSET (Streams \X Version)
             /\ faults' \in 0..MaxFaults
  BY <1>2, PresenceConstants DEF Publish, Arrive, TimesOut
<1>3. "public" \in Streams /\ "private" \in Streams
  BY Zenon DEF Streams
<1>4. CASE PublishPreference(h)
  <2>1. own[h].version \in Version
    BY Zenon DEF Preference
  <2> QED  BY <1>2, <1>3, <1>4, <2>1, Zenon DEF PublishPreference
<1>5. CASE PublishTransition(h)
  <2>1. next[h].version \in Version
    BY Zenon DEF Aggregate
  <2> QED  BY <1>2, <1>3, <1>5, <2>1, Zenon DEF PublishTransition
<1>6. CASE Unlock(h)
  BY <1>6, Zenon DEF Unlock
<1>7. CASE Fail(h) \/ Crash(h)
  <2>1. /\ UNCHANGED <<observed, last, late, consumed, overlapped>>
        /\ faults' = faults + 1 /\ faults < MaxFaults
    BY <1>7, Zenon DEF Fail, Crash, outVars
  <2>2. faults \in 0..MaxFaults
    OBVIOUS
  <2>3. faults' \in 0..MaxFaults
    BY <2>1, <2>2, PresenceConstants
  <2> QED  BY <2>1, <2>3, Zenon
<1> HIDE DEF TypeOK
<1>8. CASE \/ Receive(h) \/ Acquire(h) \/ GiveUp(h) \/ ReadPreference(h)
           \/ InitializePreference(h) \/ SavePreference(h) \/ LookupSession(h)
           \/ WriteSession(h) \/ DeleteSession(h) \/ GatherSessions(h)
           \/ PruneAndAggregate(h) \/ Reconcile(h) \/ Exhausted(h)
           \/ RenewHash(h) \/ RenewMember(h)
  BY <1>1, <1>8, Zenon DEF Receive, Acquire, GiveUp, ReadPreference, InitializePreference,
     SavePreference, LookupSession, WriteSession, DeleteSession, GatherSessions,
     PruneAndAggregate, Reconcile, Exhausted, RenewHash, RenewMember
<1>9. CASE ListMembers(h)
  <2>1. overlapped' \in BOOLEAN
    BY <1>9, Zenon DEF ListMembers
  <2> QED  BY <1>9, <2>1, Zenon DEF ListMembers, TypeOK
<1>10. CASE SaveSnapshot(h)
  <2>1. consumed' \in BOOLEAN
    BY <1>10, Zenon DEF SaveSnapshot, TypeOK
  <2> QED  BY <1>10, <2>1, Zenon DEF SaveSnapshot, TypeOK
<1> QED
  BY <1>4, <1>5, <1>6, <1>7, <1>8, <1>9, <1>10, Zenon DEF Step, LockedStep

\* The types are preserved by every step of the service and of time.
LEMMA TypeStep == TypeOK /\ CallInv /\ [Next]_vars => TypeOK' /\ CallInv'
<1> SUFFICES ASSUME TypeOK, CallInv, [Next]_vars PROVE TypeOK' /\ CallInv'
  BY Zenon
<1>1. ASSUME NEW h \in Handlers, Step(h) PROVE TypeOK' /\ CallInv'
  BY <1>1, CallStep, LocalStep, KeyStep, OutStep, Zenon DEF TypeOK
<1>2. CASE \E s \in Sessions : ExpireSession(s) \/ ExpireMember(s)
  BY <1>2, Zenon DEF ExpireSession, ExpireMember, TypeOK, CallInv, callVars, outVars
<1>3. CASE ExpireLock
  BY <1>3, Zenon DEF ExpireLock, TypeOK, CallInv, callVars, outVars
<1>4. CASE ArriveLate
  <2>1. PICK e \in late : Arrive(e[1], e[2]) /\ late' = late \ {e}
    BY <1>4, Zenon DEF ArriveLate
  <2>2. e[1] \in Streams /\ e[2] \in Version
    BY Zenon DEF TypeOK
  <2> QED  BY <1>4, <2>1, <2>2, Zenon DEF ArriveLate, Arrive, TypeOK, CallInv, keyVars, callVars
<1>5. CASE UNCHANGED vars
  BY <1>5, Zenon DEF vars, keyVars, callVars, outVars, TypeOK, CallInv
<1> QED  BY <1>1, <1>2, <1>3, <1>4, <1>5, Zenon DEF Next

\* The keys, the calls in progress and the events always have their types.
THEOREM PresenceTypeCorrect == Spec => []TypeOK
<1>1. Spec => [](TypeOK /\ CallInv)
  BY TypeInit, TypeStep, PTL DEF Spec
<1> QED  BY <1>1, PTL

----------------------------------------------------------------------------

\* A step of one call leaves the others where they are.
LEMMA OthersWait ==
  ASSUME TypeOK, NEW h \in Handlers, Step(h), NEW g \in Handlers, g # h
  PROVE  /\ pc'[g] = pc[g] /\ own'[g] = own[g] /\ next'[g] = next[g]
         /\ changed'[g] = changed[g]
<1>1. CASE Return(h)
  BY <1>1, Zenon DEF Return, Go, TypeOK
<1>2. CASE /\ \E step : Go(h, step)
           /\ own' = own \/ \E x : own' = [own EXCEPT ![h] = x]
           /\ next' = next \/ \E x : next' = [next EXCEPT ![h] = x]
           /\ changed' = changed \/ \E x : changed' = [changed EXCEPT ![h] = x]
  BY <1>2, Zenon DEF Go, TypeOK
<1>3. CASE GiveUp(h) \/ Unlock(h) \/ RenewMember(h) \/ Crash(h)
  BY <1>1, <1>3, Zenon DEF GiveUp, Unlock, RenewMember, Crash
<1>4. CASE \/ Receive(h) \/ Acquire(h) \/ InitializePreference(h) \/ PublishPreference(h)
           \/ LookupSession(h) \/ WriteSession(h) \/ DeleteSession(h) \/ ListMembers(h)
           \/ GatherSessions(h) \/ Exhausted(h) \/ SaveSnapshot(h) \/ PublishTransition(h)
  <2>1. (\E step : Go(h, step)) /\ own' = own /\ next' = next /\ changed' = changed
    BY <1>4, Zenon DEF Receive, Acquire, InitializePreference, PublishPreference, LookupSession,
       WriteSession, DeleteSession, ListMembers, GatherSessions, Exhausted, SaveSnapshot,
       PublishTransition
  <2> QED  BY <1>2, <2>1, Zenon
<1>5. CASE ReadPreference(h) \/ SavePreference(h)
  <2>1. (\E step : Go(h, step)) /\ next' = next /\ changed' = changed
    BY <1>5, Zenon DEF ReadPreference, SavePreference
  <2>2. \E x : own' = [own EXCEPT ![h] = x]
    BY <1>5, Zenon DEF ReadPreference, SavePreference
  <2> QED  BY <1>2, <2>1, <2>2, Zenon
<1>6. CASE PruneAndAggregate(h)
  BY <1>6, Zenon DEF PruneAndAggregate, Go, TypeOK
<1>7. CASE Reconcile(h)
  <2>1. own' = own /\ changed' = [changed EXCEPT ![h] = Differs(h)]
    BY <1>7, Zenon DEF Reconcile
  <2>2. \E v : next' = [next EXCEPT ![h].version = v]
    BY <1>7, Zenon DEF Reconcile
  <2>3. \E step : Go(h, step)
    BY <1>7, Zenon DEF Reconcile
  <2> QED  BY <2>1, <2>2, <2>3, Zenon DEF Go, TypeOK
<1>8. CASE RenewHash(h) \/ Fail(h)
  <2>1. Return(h) \/ ((\E step : Go(h, step)) /\ UNCHANGED <<own, next, changed>>)
    BY <1>8, Zenon DEF RenewHash, Fail
  <2> QED  BY <1>1, <1>2, <2>1, Zenon
<1> QED
  BY <1>3, <1>4, <1>5, <1>6, <1>7, <1>8, Zenon DEF Step, LockedStep

\* A call is inside a mutation after its step only if it was inside before or
\* acquired the lock.
LEMMA LockIsKept ==
  ASSUME TypeOK, NEW h \in Handlers, Step(h)
  PROVE  \/ Acquire(h)
         \/ pc'[h] \in Locked /\ pc[h] \in Locked /\ lock' = lock
         \/ pc'[h] \notin Locked /\ (lock' = lock \/ lock = h)
<1> USE StepNames DEF TypeOK
<1>1. CASE GiveUp(h) \/ Unlock(h) \/ RenewMember(h) \/ Crash(h)
  BY <1>1, Zenon DEF GiveUp, Unlock, RenewMember, Crash, Return, Go, keyVars
<1>2. CASE RenewHash(h) \/ Fail(h)
  BY <1>2, Zenon DEF RenewHash, Fail, Return, Go, keyVars
<1>3. CASE Receive(h)
  BY <1>3, Zenon DEF Receive, Go, keyVars
<1>4. CASE ReadPreference(h) \/ InitializePreference(h)
  <2>1. \A p : AfterPreference(h, p) \in Locked
    BY Zenon DEF AfterPreference
  <2> QED  BY <1>4, <2>1, Zenon DEF ReadPreference, InitializePreference, Go, keyVars
<1>5. CASE \/ SavePreference(h) \/ PublishPreference(h) \/ LookupSession(h)
           \/ WriteSession(h) \/ DeleteSession(h) \/ ListMembers(h) \/ GatherSessions(h)
           \/ PruneAndAggregate(h) \/ Exhausted(h) \/ SaveSnapshot(h) \/ PublishTransition(h)
  BY <1>5, Zenon DEF SavePreference, PublishPreference, LookupSession, WriteSession, DeleteSession,
     ListMembers, GatherSessions, PruneAndAggregate, Exhausted, SaveSnapshot,
     PublishTransition, Go, keyVars
<1>6. CASE Reconcile(h)
  BY <1>6, Zenon DEF Reconcile, Go, keyVars
<1> QED
  BY <1>1, <1>2, <1>3, <1>4, <1>5, <1>6, Zenon DEF Step, LockedStep

\* The lock excludes: a step of a call keeps its holder alone in the mutation.
LEMMA ExclusiveStep ==
  ASSUME TypeOK, Exclusive, NEW h \in Handlers, Step(h)
  PROVE  Exclusive'
<1> SUFFICES ASSUME NEW g \in Handlers, pc'[g] \in Locked PROVE lock' = g
  BY Zenon DEF Exclusive
<1>1. CASE g = h
  BY <1>1, LockIsKept, Zenon DEF Acquire, Exclusive
<1>2. CASE g # h
  <2>1. pc[g] \in Locked /\ lock = g
    BY <1>2, OthersWait, Zenon DEF Exclusive
  <2>2. ~Acquire(h)
    BY <2>1, PresenceConstants, Zenon DEF Acquire
  <2> QED  BY <1>2, <2>1, <2>2, LockIsKept, Zenon DEF Exclusive
<1> QED  BY <1>1, <1>2, Zenon

\* Only these two actions write the preference, and only one the snapshot.
LEMMA KeyWriters ==
  ASSUME NEW h \in Handlers, Step(h)
  PROVE  /\ preference' = preference \/ InitializePreference(h) \/ SavePreference(h)
         /\ snapshot' = snapshot \/ SaveSnapshot(h)
         /\ observed' = observed \/ PublishTransition(h) \/ Unlock(h)
BY Zenon DEF Step, LockedStep, Receive, Acquire, GiveUp, ReadPreference, InitializePreference,
   SavePreference, PublishPreference, LookupSession, WriteSession, DeleteSession, ListMembers,
   GatherSessions, PruneAndAggregate, Reconcile, Exhausted, SaveSnapshot, PublishTransition,
   Unlock, RenewHash, RenewMember, Fail, Crash, keyVars, outVars

\* Where a call comes from when it is about to save or publish.
LEMMA Predecessors ==
  ASSUME TypeOK, NEW h \in Handlers, Step(h)
  PROVE  /\ pc'[h] = "initialize" => ReadPreference(h)
         /\ pc'[h] = "choose" => ReadPreference(h) \/ InitializePreference(h)
         /\ pc'[h] = "save" => Reconcile(h)
         /\ pc'[h] = "publish" => SaveSnapshot(h)
         /\ pc'[h] = "unlock" => Reconcile(h) \/ SaveSnapshot(h) \/ PublishTransition(h)
<1> DEFINE Watched == {"initialize", "choose", "save", "publish", "unlock"}
<1>1. CASE \/ Receive(h) \/ Acquire(h) \/ SavePreference(h) \/ PublishPreference(h)
           \/ LookupSession(h) \/ WriteSession(h) \/ DeleteSession(h) \/ ListMembers(h)
           \/ GatherSessions(h) \/ PruneAndAggregate(h) \/ Exhausted(h)
  <2>1. pc'[h] \notin Watched
    BY <1>1, Zenon DEF Receive, Acquire, SavePreference, PublishPreference, LookupSession,
       WriteSession, DeleteSession, ListMembers, GatherSessions, PruneAndAggregate, Exhausted,
       Go, TypeOK
  <2> QED  BY <2>1, Zenon
<1>2. CASE GiveUp(h) \/ Unlock(h) \/ RenewHash(h) \/ RenewMember(h) \/ Fail(h) \/ Crash(h)
  <2>1. pc'[h] \notin Watched
    BY <1>2, Zenon DEF GiveUp, Unlock, RenewHash, RenewMember, Fail, Crash, Return, Go, TypeOK
  <2> QED  BY <2>1, Zenon
<1>3. CASE ReadPreference(h)
  <2>1. pc'[h] \in {"initialize", "write", "choose", "lookup", "list"}
    BY <1>3, Zenon DEF ReadPreference, AfterPreference, Go, TypeOK
  <2> QED  BY <1>3, <2>1, Zenon
<1>4. CASE InitializePreference(h)
  <2>1. pc'[h] \in {"write", "choose", "lookup", "list"}
    BY <1>4, Zenon DEF InitializePreference, AfterPreference, Go, TypeOK
  <2> QED  BY <1>4, <2>1, Zenon
<1>5. CASE Reconcile(h)
  <2>1. pc'[h] \in {"save", "unlock"}
    BY <1>5, Zenon DEF Reconcile, Go, TypeOK
  <2> QED  BY <1>5, <2>1, Zenon
<1>6. CASE SaveSnapshot(h)
  <2>1. pc'[h] \in {"publish", "unlock"}
    BY <1>6, Zenon DEF SaveSnapshot, Go, TypeOK
  <2> QED  BY <1>6, <2>1, Zenon
<1>7. CASE PublishTransition(h)
  <2>1. pc'[h] = "unlock"
    BY <1>7, Zenon DEF PublishTransition, Go, TypeOK
  <2> QED  BY <1>7, <2>1, Zenon
<1> QED
  BY <1>1, <1>2, <1>3, <1>4, <1>5, <1>6, <1>7, Zenon DEF Step, LockedStep

\* The preference a call read stays current while the call holds the lock.
LEMMA PreferenceStep ==
  ASSUME TypeOK, CallInv, Exclusive, PreferenceInv, NEW h \in Handlers, Step(h)
  PROVE  PreferenceInv'
<1> SUFFICES ASSUME NEW g \in Handlers
             PROVE  /\ pc'[g] = "initialize" => preference'.version = 0 /\ own'[g].version > 0
                    /\ pc'[g] = "choose" => own'[g] = preference'
  BY Zenon DEF PreferenceInv
<1>1. CASE g # h
  <2>1. pc[g] \in {"initialize", "choose"} => preference' = preference
    BY <1>1, KeyWriters, Zenon DEF Exclusive, InitializePreference, SavePreference, Locked
  <2> QED  BY <1>1, <2>1, OthersWait, Zenon DEF PreferenceInv
<1>2. CASE g = h
  <2>1. ASSUME pc'[h] = "initialize"
        PROVE  preference'.version = 0 /\ own'[h].version > 0
    <3>1. ReadPreference(h) /\ pc' = [pc EXCEPT ![h] = "initialize"]
      BY <2>1, Predecessors DEF ReadPreference, Go, AfterPreference, TypeOK
    <3>2. preference.version = 0
      BY <2>1, <3>1, Zenon DEF ReadPreference, Go, AfterPreference, TypeOK
    <3>3. PICK v \in NextVersions(0) :
            own' = [own EXCEPT ![h] = [status |-> InitialStatus(h), version |-> v]]
      BY <3>1, <3>2, Zenon DEF ReadPreference
    <3>4. v > 0
      BY VersionsAbove, PresenceConstants DEF Version
    <3> QED  BY <3>1, <3>2, <3>3, <3>4, Zenon DEF ReadPreference, keyVars, TypeOK
  <2>2. ASSUME pc'[h] = "choose"
        PROVE  own'[h] = preference'
    <3>1. CASE ReadPreference(h)
      BY <2>2, <3>1, Zenon DEF ReadPreference, Go, keyVars, TypeOK
    <3>2. CASE InitializePreference(h)
      BY <3>2, Zenon DEF InitializePreference
    <3> QED  BY <2>2, <3>1, <3>2, Predecessors, Zenon
  <2> QED  BY <1>2, <2>1, <2>2, Zenon
<1> QED  BY <1>1, <1>2, Zenon

\* The snapshot a call reconciled with stays current while it holds the lock.
LEMMA SnapshotStep ==
  ASSUME TypeOK, Exclusive, SnapshotInv, NEW h \in Handlers, Step(h)
  PROVE  SnapshotInv'
<1> SUFFICES ASSUME NEW g \in Handlers
             PROVE  /\ pc'[g] = "save" /\ changed'[g] => next'[g].version > snapshot'.version
                    /\ pc'[g] = "save" /\ ~changed'[g] => next'[g] = snapshot'
                    /\ pc'[g] \in {"publish", "unlock"} => next'[g] = snapshot'
  BY Zenon DEF SnapshotInv
<1>1. CASE g # h
  <2>1. pc[g] \in {"save", "publish", "unlock"} => snapshot' = snapshot
    BY <1>1, KeyWriters, Zenon DEF Exclusive, SaveSnapshot, Locked
  <2>2. /\ pc'[g] = pc[g] /\ next'[g] = next[g] /\ changed'[g] = changed[g]
    BY <1>1, OthersWait, Zenon
  <2> QED  BY <2>1, <2>2, Zenon DEF SnapshotInv
<1>2. CASE g = h /\ Reconcile(h)
  <2>1. snapshot' = snapshot /\ changed'[h] = Differs(h)
    BY <1>2, Zenon DEF Reconcile, keyVars, TypeOK
  <2>2. CASE Differs(h)
    <3>1. PICK v \in NextVersions(snapshot.version) : next' = [next EXCEPT ![h].version = v]
      BY <1>2, <2>2, Zenon DEF Reconcile
    <3>2. v > snapshot.version
      BY VersionsAbove, Zenon DEF TypeOK, Aggregate
    <3>3. next'[h].version = v
      BY <3>1, Zenon DEF TypeOK, Aggregate
    <3>4. pc'[h] = "save"
      BY <1>2, <2>2, Zenon DEF Reconcile, Go, TypeOK
    <3> QED  BY <1>2, <2>1, <2>2, <3>2, <3>3, <3>4, Zenon
  <2>3. CASE ~Differs(h)
    <3>1. next' = [next EXCEPT ![h].version = snapshot.version]
      BY <1>2, <2>3, Zenon DEF Reconcile
    <3>2. next[h].status = snapshot.status
      BY <2>3, Zenon DEF Differs
    <3>3. next'[h] = snapshot
      BY <3>1, <3>2, Zenon DEF TypeOK, Aggregate
    <3> QED  BY <1>2, <2>1, <2>3, <3>3, Zenon
  <2> QED  BY <2>2, <2>3
<1>3. CASE g = h /\ SaveSnapshot(h)
  <2>1. snapshot' = next[h] /\ next' = next
    BY <1>3, Zenon DEF SaveSnapshot
  <2>2. pc'[h] \in {"publish", "unlock"}
    BY <1>3, Zenon DEF SaveSnapshot, Go, TypeOK
  <2> QED  BY <1>3, <2>1, <2>2, Zenon
<1>4. CASE g = h /\ PublishTransition(h)
  <2>1. snapshot' = snapshot /\ next' = next /\ pc[h] = "publish"
    BY <1>4, Zenon DEF PublishTransition, keyVars
  <2>2. pc'[h] = "unlock"
    BY <1>4, Zenon DEF PublishTransition, Go, TypeOK
  <2> QED  BY <1>4, <2>1, <2>2, Zenon DEF SnapshotInv
<1> QED  BY <1>1, <1>2, <1>3, <1>4, Predecessors, Zenon

\* What leaves the service is the snapshot, and the snapshot only moves forward.
LEMMA ObservedStep ==
  ASSUME TypeOK, SnapshotInv, ObservedInv, NEW h \in Handlers, Step(h)
  PROVE  ObservedInv'
<1>1. CASE SaveSnapshot(h)
  <2>1. snapshot' = next[h] /\ observed' = observed /\ pc[h] = "save"
    BY <1>1, Zenon DEF SaveSnapshot, outVars
  <2>2. next[h] = snapshot \/ next[h].version > snapshot.version
    BY <2>1, Zenon DEF SnapshotInv
  <2>3. snapshot.version \in Int /\ next[h].version \in Int
    BY DEF TypeOK, Aggregate, Version
  <2>4. \A a \in observed : a.version \in Int
    BY DEF TypeOK, Aggregate, Version
  <2> QED  BY <2>1, <2>2, <2>3, <2>4 DEF ObservedInv
<1>2. CASE PublishTransition(h) \/ Unlock(h)
  <2>1. snapshot' = snapshot
    BY <1>2, Zenon DEF PublishTransition, Unlock, keyVars
  <2>2. observed' = observed \/ (observed' = observed \cup {next[h]}
                                 /\ pc[h] \in {"publish", "unlock"})
    BY <1>2, Zenon DEF PublishTransition, Unlock
  <2> QED  BY <2>1, <2>2 DEF ObservedInv, SnapshotInv
<1>3. CASE snapshot' = snapshot /\ observed' = observed
  BY <1>3, Zenon DEF ObservedInv
<1> QED  BY <1>1, <1>2, <1>3, KeyWriters, Zenon

\* If what left the service is the snapshot or older by version, the newest part of
\* it is one aggregate; with the older part unchanged, a version names a status.
LEMMA NamesStep ==
  ASSUME TypeOK, SnapshotInv, ObservedInv, VersionNamesStatus, NEW h \in Handlers, Step(h)
  PROVE  VersionNamesStatus'
<1>1. CASE PublishTransition(h) \/ Unlock(h)
  <2>1. observed' = observed \/ (observed' = observed \cup {snapshot})
    BY <1>1, Zenon DEF PublishTransition, Unlock, SnapshotInv
  <2>2. \A a \in observed : a.version = snapshot.version => a.status = snapshot.status
    BY DEF ObservedInv, TypeOK, Aggregate, Version
  <2> QED  BY <2>1, <2>2, Zenon DEF VersionNamesStatus
<1>2. CASE observed' = observed
  BY <1>2, Zenon DEF VersionNamesStatus
<1> QED  BY <1>1, <1>2, KeyWriters, Zenon

\* The invariant holds initially.
LEMMA PresenceInit == Init => PresenceInv
BY PresenceConstants, Zenon DEF Init, PresenceInv, Exclusive, PreferenceInv, SnapshotInv, ObservedInv,
   VersionNamesStatus, Locked

\* Every step preserves it, as long as no lock expires under its holder.
LEMMA PresenceStep ==
  ASSUME LockMayExpire = FALSE
  PROVE  TypeOK /\ CallInv /\ PresenceInv /\ [Next]_vars => PresenceInv'
<1> SUFFICES ASSUME TypeOK, CallInv, PresenceInv, [Next]_vars PROVE PresenceInv'
  OBVIOUS
<1>1. ASSUME NEW h \in Handlers, Step(h) PROVE PresenceInv'
  BY <1>1, ExclusiveStep, PreferenceStep, SnapshotStep, ObservedStep, NamesStep, Zenon
     DEF PresenceInv
<1> USE DEF PresenceInv, Exclusive, PreferenceInv, SnapshotInv, ObservedInv, VersionNamesStatus
<1>2. CASE \E s \in Sessions : ExpireSession(s) \/ ExpireMember(s)
  BY <1>2, Zenon DEF ExpireSession, ExpireMember, callVars, outVars
<1>3. CASE ExpireLock
  <2>1. \A h \in Handlers : pc[h] \notin Locked
    BY <1>3, PresenceConstants, Zenon DEF ExpireLock
  <2> QED  BY <1>3, <2>1, Zenon DEF ExpireLock, callVars, outVars
<1>4. CASE ArriveLate
  BY <1>4, Zenon DEF ArriveLate, keyVars, callVars
<1>5. CASE UNCHANGED vars
  BY <1>5, Zenon DEF vars, keyVars, callVars, outVars
<1> HIDE DEF PresenceInv
<1> QED  BY <1>1, <1>2, <1>3, <1>4, <1>5, Zenon DEF Next

\* Whoever sees a version sees the same status with it, for any number of calls,
\* sessions and failures, if no mutation outlasts the TTL of its lock.
THEOREM VersionsNameStatuses ==
  ASSUME LockMayExpire = FALSE
  PROVE  Spec => []VersionNamesStatus
<1>1. Init => TypeOK /\ CallInv /\ PresenceInv
  BY TypeInit, PresenceInit, Zenon
<1>2. TypeOK /\ CallInv /\ PresenceInv /\ [Next]_vars => (TypeOK /\ CallInv /\ PresenceInv)'
  BY TypeStep, PresenceStep, Zenon
<1>3. PresenceInv => VersionNamesStatus
  BY Zenon DEF PresenceInv
<1> QED  BY <1>1, <1>2, <1>3, PTL DEF Spec

\* The snapshot and the preference only move to greater versions, for any number
\* of calls, sessions and failures, if no mutation outlasts the TTL of its lock.
THEOREM VersionsOnlyGrow ==
  ASSUME LockMayExpire = FALSE
  PROVE  Spec => VersionsGrow
<1> DEFINE Grow == /\ snapshot' # snapshot => snapshot'.version > snapshot.version
                   /\ preference' # preference => preference'.version > preference.version
<1>1. Init => TypeOK /\ CallInv /\ PresenceInv
  BY TypeInit, PresenceInit, Zenon
<1>2. TypeOK /\ CallInv /\ PresenceInv /\ [Next]_vars => (TypeOK /\ CallInv /\ PresenceInv)'
  BY TypeStep, PresenceStep, Zenon
<1>3. TypeOK /\ CallInv /\ PresenceInv /\ [Next]_vars => [Grow]_vars
  <2> SUFFICES ASSUME TypeOK, PresenceInv, Next PROVE Grow
    OBVIOUS
  <2>1. ASSUME NEW h \in Handlers, Step(h) PROVE Grow
    <3>1. CASE SaveSnapshot(h)
      BY <3>1, Zenon DEF SaveSnapshot, PresenceInv, SnapshotInv
    <3>2. CASE InitializePreference(h)
      BY <3>2, Zenon DEF InitializePreference, PresenceInv, PreferenceInv
    <3>3. CASE SavePreference(h)
      <4>1. PICK v \in NextVersions(own[h].version) :
              /\ own' = [own EXCEPT ![h] = [status |-> call[h].status, version |-> v]]
              /\ preference' = own'[h]
        BY <3>3, Zenon DEF SavePreference
      <4>2. own[h] = preference /\ snapshot' = snapshot
        BY <3>3, Zenon DEF SavePreference, PresenceInv, PreferenceInv
      <4>3. v > preference.version
        BY <4>2, VersionsAbove, Zenon DEF TypeOK, Preference
      <4>4. preference'.version = v
        BY <4>1, Zenon DEF TypeOK
      <4> QED  BY <4>2, <4>3, <4>4, Zenon
    <3> QED  BY <2>1, <3>1, <3>2, <3>3, KeyWriters, Zenon
  <2>2. CASE \E s \in Sessions : ExpireSession(s) \/ ExpireMember(s)
    BY <2>2, Zenon DEF ExpireSession, ExpireMember
  <2>3. CASE ExpireLock \/ ArriveLate
    BY <2>3, Zenon DEF ExpireLock, ArriveLate, keyVars
  <2> QED  BY <2>1, <2>2, <2>3, Zenon DEF Next
<1> QED  BY <1>1, <1>2, <1>3, PTL DEF Spec, VersionsGrow

----------------------------------------------------------------------------
(* What a settled service has announced, while no command has failed and no  *)
(* call outlasts its lock.  A resolution on demand records a transition      *)
(* without publishing it (consumed), and a renewal, which renews a session's *)
(* hash outside the lock and its member after it, can leave a live session   *)
(* out of the sorted set for a while (overlapped); both run throughout.      *)

\* Sessions whose hash is there.
Live == {s \in Sessions : owner[s] # None}

\* Sessions whose member of the sorted set a renewal is about to renew.
Reindexing == {call[h].session : h \in {g \in Handlers : pc[g] = "reindex"}}

\* Steps of a mutation whose aggregate has not been saved yet.
Unresolved == {"announce", "lookup", "write", "list", "gather", "prune", "reconcile", "save"}

\* A status a settled snapshot may have.
Current(status) ==
  \/ status = AggregateStatus(preference, Sessions)
  \/ status = "offline" /\ (overlapped \/ Live = {})

StatusCurrent == snapshot.version < MaxVersion => Current(snapshot.status)

\* Until the user has a preference there is no session and nothing but offline.
UnsetInv ==
  /\ \A h \in Handlers :
       pc[h] \in {"choose", "announce", "lookup", "write"} => preference.version > 0
  /\ preference.version = 0 =>
       /\ Live = {} /\ snapshot.status = "offline"
       /\ \A h \in Handlers : alive[h] = {} /\ next[h].status = "offline"

\* What a call knows of the live sessions and of the status they call for.
ResolveInv(h) ==
  /\ pc[h] = "gather" => Live \subseteq members[h] \/ overlapped
  /\ pc[h] = "prune" => /\ Live \subseteq alive[h] \/ overlapped
                        /\ Live \cap members[h] \subseteq alive[h]
  /\ pc[h] \in {"reconcile", "save"} => Current(next[h].status)

\* A live session is in the sorted set or about to be, and the snapshot has its
\* status unless a call is still about to save one.
StatusInv ==
  faults = 0 =>
    /\ \A h \in Handlers : ResolveInv(h)
    /\ Live \subseteq index \cup Reindexing
    /\ (\E h \in Handlers : pc[h] \in Unresolved) \/ StatusCurrent

\* The newest public event is the snapshot's, unless a call is about to publish it
\* or a resolution recorded it.
AnnounceInv ==
  faults = 0 =>
    /\ late = {}
    /\ (\E h \in Handlers : pc[h] = "publish") \/ consumed \/ last["public"] = snapshot.version

\* A step that leaves no failure behind is not one and follows none.
LEMMA NothingFailed ==
  ASSUME TypeOK, NEW h \in Handlers, Step(h), faults' = 0
  PROVE  /\ faults = 0 /\ ~Fail(h) /\ ~Crash(h)
         /\ \A t, v : ~TimesOut(t, v)
<1>1. faults \in Nat
  BY DEF TypeOK
<1>2. faults' # faults + 1
  BY <1>1
<1>3. ~Fail(h) /\ ~Crash(h) /\ \A t, v : ~TimesOut(t, v)
  BY <1>2, Zenon DEF Fail, Crash, TimesOut
<1>4. faults' = faults
  <2>1. CASE PublishPreference(h) \/ PublishTransition(h)
    BY <1>3, <2>1, Zenon DEF PublishPreference, PublishTransition, Publish
  <2>2. CASE ~(PublishPreference(h) \/ PublishTransition(h))
    BY <1>3, <2>2, Zenon DEF Step, LockedStep, Receive, Acquire, GiveUp, ReadPreference,
       InitializePreference, SavePreference, LookupSession, WriteSession, DeleteSession,
       ListMembers, GatherSessions, PruneAndAggregate, Reconcile, Exhausted, SaveSnapshot,
       Unlock, RenewHash, RenewMember
  <2> QED  BY <2>1, <2>2, Zenon
<1> QED  BY <1>3, <1>4, Zenon

\* Only one step each writes what is remembered of resolutions and renewals.
LEMMA HistoryWriters ==
  ASSUME NEW h \in Handlers, Step(h)
  PROVE  /\ consumed' = consumed \/ SaveSnapshot(h)
         /\ overlapped' = overlapped \/ ListMembers(h)
BY Zenon DEF Step, LockedStep, Receive, Acquire, GiveUp, ReadPreference, InitializePreference,
   SavePreference, PublishPreference, LookupSession, WriteSession, DeleteSession, ListMembers,
   GatherSessions, PruneAndAggregate, Reconcile, Exhausted, SaveSnapshot, PublishTransition,
   Unlock, RenewHash, RenewMember, Fail, Crash, outVars

\* Without failures every publication arrives, and only the publication of a
\* transition reaches the public stream.
LEMMA PublicationsArrive ==
  ASSUME TypeOK, NEW h \in Handlers, Step(h), faults' = 0
  PROVE  /\ late' = late
         /\ PublishTransition(h) => last'["public"] = next[h].version
         /\ PublishTransition(h) \/ last'["public"] = last["public"]
<1>0. last \in [Streams -> Version] /\ \A t, v : ~TimesOut(t, v)
  BY NothingFailed, Zenon DEF TypeOK
<1>1. CASE PublishPreference(h) \/ PublishTransition(h)
  <2>1. \A t, v : Publish(t, v) => late' = late /\ last' = [last EXCEPT ![t] = v]
    BY <1>0, Zenon DEF Publish, Arrive
  <2>2. CASE PublishPreference(h)
    <3>1. late' = late /\ last' = [last EXCEPT !["private"] = own[h].version]
      BY <2>1, <2>2, Zenon DEF PublishPreference
    <3>2. ~PublishTransition(h)
      BY <2>2 DEF PublishPreference, PublishTransition
    <3> QED  BY <1>0, <3>1, <3>2, Zenon DEF Streams
  <2>3. CASE PublishTransition(h)
    <3>1. late' = late /\ last' = [last EXCEPT !["public"] = next[h].version]
      BY <2>1, <2>3, Zenon DEF PublishTransition
    <3> QED  BY <1>0, <2>3, <3>1, Zenon DEF Streams
  <2> QED  BY <1>1, <2>2, <2>3, Zenon
<1>2. CASE ~(PublishPreference(h) \/ PublishTransition(h))
  <2>1. UNCHANGED <<last, late>>
    BY <1>2, Zenon DEF Step, LockedStep, Receive, Acquire, GiveUp, ReadPreference,
       InitializePreference, SavePreference, LookupSession, WriteSession, DeleteSession,
       ListMembers, GatherSessions, PruneAndAggregate, Reconcile, Exhausted, SaveSnapshot,
       Unlock, RenewHash, RenewMember, Fail, Crash, outVars
  <2> QED  BY <1>2, <2>1, Zenon
<1> QED  BY <1>1, <1>2, Zenon

\* A transition that is saved is published before anything else can be saved.
LEMMA AnnounceStep ==
  ASSUME TypeOK, PresenceInv, AnnounceInv, NEW h \in Handlers, Step(h)
  PROVE  AnnounceInv'
<1> SUFFICES ASSUME faults' = 0
             PROVE  /\ late' = {}
                    /\ \/ \E g \in Handlers : pc'[g] = "publish"
                       \/ consumed' \/ last'["public"] = snapshot'.version
  BY Zenon DEF AnnounceInv
<1>0. /\ late = {} /\ ~Fail(h) /\ ~Crash(h)
      /\ \/ \E g \in Handlers : pc[g] = "publish"
         \/ consumed \/ last["public"] = snapshot.version
  BY NothingFailed, Zenon DEF AnnounceInv
<1>1. late' = {}
  BY <1>0, PublicationsArrive, Zenon
<1>2. \/ \E g \in Handlers : pc'[g] = "publish"
      \/ consumed' \/ last'["public"] = snapshot'.version
  <2>1. CASE PublishTransition(h)
    <3>1. snapshot' = snapshot /\ pc[h] = "publish"
      BY <2>1, Zenon DEF PublishTransition, keyVars
    <3>2. last'["public"] = next[h].version
      BY <2>1, PublicationsArrive, Zenon
    <3> QED  BY <3>1, <3>2, Zenon DEF PresenceInv, SnapshotInv
  <2>2. CASE SaveSnapshot(h)
    <3>1. /\ snapshot' = next[h] /\ pc[h] = "save"
          /\ consumed' = IF changed[h] THEN call[h].op = "resolve" ELSE consumed
          /\ pc' = [pc EXCEPT ![h] = IF Announces(h) THEN "publish" ELSE "unlock"]
      BY <2>2, Zenon DEF SaveSnapshot, Go
    <3>2. CASE changed[h]
      <4>1. CASE Announces(h)
        <5>1. pc'[h] = "publish"
          BY <3>1, <4>1, Zenon DEF TypeOK
        <5> QED  BY <5>1, Zenon
      <4>2. CASE ~Announces(h)
        <5>1. consumed'
          BY <3>1, <3>2, <4>2, Zenon DEF Announces
        <5> QED  BY <5>1, Zenon
      <4> QED  BY <4>1, <4>2, Zenon
    <3>3. CASE ~changed[h]
      <4>1. snapshot' = snapshot /\ consumed' = consumed
        BY <3>1, <3>3, Zenon DEF PresenceInv, SnapshotInv
      <4>2. ~\E g \in Handlers : pc[g] = "publish"
        BY <3>1, StepNames, Zenon DEF PresenceInv, Exclusive
      <4>3. ~PublishTransition(h)
        BY <3>1, Zenon DEF PublishTransition
      <4> QED  BY <1>0, <4>1, <4>2, <4>3, PublicationsArrive, Zenon
    <3> QED  BY <3>2, <3>3, Zenon
  <2>3. CASE ~PublishTransition(h) /\ ~SaveSnapshot(h)
    <3>1. /\ snapshot' = snapshot /\ last'["public"] = last["public"]
          /\ consumed' = consumed
      BY <2>3, KeyWriters, HistoryWriters, PublicationsArrive, Zenon
    <3>2. \A g \in Handlers : pc[g] = "publish" => pc'[g] = "publish"
      <4> SUFFICES ASSUME NEW g \in Handlers, pc[g] = "publish" PROVE pc'[g] = "publish"
        OBVIOUS
      <4>1. CASE g # h
        BY <4>1, OthersWait, Zenon
      <4>2. CASE g = h
        <5> QED
          BY <1>0, <2>3, <4>2, Zenon DEF Step, LockedStep, Receive, Acquire, GiveUp, ReadPreference,
             InitializePreference, SavePreference, PublishPreference, LookupSession,
             WriteSession, DeleteSession, ListMembers, GatherSessions, PruneAndAggregate,
             Reconcile, Exhausted, Unlock, RenewHash, RenewMember
      <4> QED  BY <4>1, <4>2, Zenon
    <3> QED  BY <1>0, <3>1, <3>2, Zenon
  <2> QED  BY <2>1, <2>2, <2>3, Zenon
<1> QED  BY <1>1, <1>2, Zenon

\* While nothing fails and no call outlasts its lock, every aggregate transition is
\* published, whatever resolutions and renewals run: with no call in progress the
\* newest public event has the version of the snapshot, unless ResolveUsersPresence
\* recorded that version.
THEOREM TransitionsAreAnnounced ==
  ASSUME LockMayExpire = FALSE
  PROVE  Spec => []TransitionsAnnounced
<1> DEFINE IInv == TypeOK /\ CallInv /\ PresenceInv /\ AnnounceInv
<1>1. Init => IInv
  <2>1. Init => AnnounceInv
    BY InitialValues DEF Init, AnnounceInv, NoSnapshot, Streams
  <2> QED  BY <2>1, TypeInit, PresenceInit, Zenon
<1>2. IInv /\ [Next]_vars => IInv'
  <2> SUFFICES ASSUME IInv, [Next]_vars PROVE AnnounceInv'
    BY TypeStep, PresenceStep, Zenon
  <2>1. ASSUME NEW h \in Handlers, Step(h) PROVE AnnounceInv'
    BY <2>1, AnnounceStep, Zenon
  <2>2. CASE \/ \E s \in Sessions : ExpireSession(s) \/ ExpireMember(s)
             \/ ExpireLock \/ UNCHANGED vars
    BY <2>2, Zenon DEF ExpireSession, ExpireMember, ExpireLock, callVars, outVars, keyVars,
       vars, AnnounceInv
  <2>3. ASSUME ArriveLate PROVE AnnounceInv'
    <3>1. faults' = faults /\ late # {}
      BY <2>3, Zenon DEF ArriveLate
    <3> QED  BY <3>1, Zenon DEF AnnounceInv
  <2> QED  BY <2>1, <2>2, <2>3, Zenon DEF Next
<1>3. IInv => TransitionsAnnounced
  BY Zenon DEF AnnounceInv, TransitionsAnnounced, Settled
<1> QED  BY <1>1, <1>2, <1>3, PTL DEF Spec

\* What a call has read stays with it while others take a step.
LEMMA OthersRemember ==
  ASSUME TypeOK, NEW h \in Handlers, Step(h), NEW g \in Handlers, g # h
  PROVE  members'[g] = members[g] /\ alive'[g] = alive[g] /\ call'[g] = call[g]
<1>0. /\ members \in [Handlers -> SUBSET Sessions] /\ alive \in [Handlers -> SUBSET Sessions]
      /\ call \in [Handlers -> CallRecords]
  BY Zenon DEF TypeOK
<1>1. CASE UNCHANGED <<members, alive, call>>
  BY <1>1, Zenon
<1>2. CASE Return(h)
  BY <1>0, <1>2, Zenon DEF Return
<1>3. CASE ListMembers(h)
  BY <1>0, <1>3, Zenon DEF ListMembers
<1>4. CASE GatherSessions(h)
  BY <1>0, <1>4, Zenon DEF GatherSessions
<1>5. CASE GiveUp(h) \/ Unlock(h) \/ RenewHash(h) \/ RenewMember(h) \/ Fail(h) \/ Crash(h)
  <2>1. UNCHANGED <<members, alive, call>> \/ Return(h)
    BY <1>5, Zenon DEF GiveUp, Unlock, RenewHash, RenewMember, Fail, Crash
  <2> QED  BY <1>1, <1>2, <2>1, Zenon
<1>6. CASE \/ Acquire(h) \/ ReadPreference(h) \/ InitializePreference(h)
           \/ SavePreference(h) \/ PublishPreference(h) \/ WriteSession(h)
           \/ DeleteSession(h) \/ PruneAndAggregate(h) \/ Reconcile(h) \/ Exhausted(h)
           \/ SaveSnapshot(h) \/ PublishTransition(h)
  <2>1. UNCHANGED <<members, alive, call>>
    BY <1>6, Zenon DEF Acquire, ReadPreference, InitializePreference, SavePreference,
       PublishPreference, WriteSession, DeleteSession, PruneAndAggregate,
       Reconcile, Exhausted, SaveSnapshot, PublishTransition
  <2> QED  BY <1>1, <2>1, Zenon
<1>7. CASE Receive(h) \/ LookupSession(h)
  <2>1. UNCHANGED <<members, alive>>
    BY <1>7, Zenon DEF Receive, LookupSession
  <2>2. \/ call' = call \/ \E c : call' = [call EXCEPT ![h] = c]
        \/ \E x : call' = [call EXCEPT ![h].generation = x]
    BY <1>7, Zenon DEF Receive, LookupSession
  <2> QED  BY <1>0, <2>1, <2>2, Zenon
<1> QED  BY <1>3, <1>4, <1>5, <1>6, <1>7, Zenon DEF Step, LockedStep

\* Where a call comes from when it has just learned the preference.
LEMMA Arrivals ==
  ASSUME TypeOK, NEW h \in Handlers, Step(h),
         pc'[h] \in {"choose", "announce", "lookup", "write"},
         pc[h] \notin {"choose", "announce", "lookup", "write"}
  PROVE  ReadPreference(h) \/ InitializePreference(h)
<1>t. pc \in [Handlers -> Pcs]
  BY Zenon DEF TypeOK
<1>1. ~(SavePreference(h) \/ PublishPreference(h) \/ LookupSession(h) \/ WriteSession(h))
  BY Zenon DEF SavePreference, PublishPreference, LookupSession, WriteSession
<1>2. ~(GiveUp(h) \/ Unlock(h) \/ RenewMember(h) \/ Crash(h))
  BY <1>t, Zenon DEF GiveUp, Unlock, RenewMember, Crash, Return, Go
<1>3. ~(RenewHash(h) \/ Fail(h))
  BY <1>t, Zenon DEF RenewHash, Fail, Return, Go
<1>4. ~(\/ DeleteSession(h) \/ ListMembers(h) \/ GatherSessions(h) \/ PruneAndAggregate(h)
        \/ Exhausted(h) \/ PublishTransition(h))
  BY <1>t, Zenon DEF DeleteSession, ListMembers, GatherSessions, PruneAndAggregate, Exhausted,
     PublishTransition, Go
<1>5. ~(Receive(h) \/ Acquire(h) \/ Reconcile(h) \/ SaveSnapshot(h))
  BY <1>t, Zenon DEF Receive, Acquire, Reconcile, SaveSnapshot, Go
<1> QED  BY <1>1, <1>2, <1>3, <1>4, <1>5, Zenon DEF Step, LockedStep

\* Within a call two steps write a session's hash.
LEMMA OwnerWriters ==
  ASSUME NEW h \in Handlers, Step(h)
  PROVE  \/ owner' = owner \/ WriteSession(h)
         \/ owner' = [owner EXCEPT ![call[h].session] = None]
BY Zenon DEF Step, LockedStep, Receive, Acquire, GiveUp, ReadPreference, InitializePreference,
   SavePreference, PublishPreference, LookupSession, WriteSession, DeleteSession, ListMembers,
   GatherSessions, PruneAndAggregate, Reconcile, Exhausted, SaveSnapshot, PublishTransition,
   Unlock, RenewHash, RenewMember, Fail, Crash, keyVars

\* The renewals of other calls go on.
LEMMA RenewalsGoOn ==
  ASSUME TypeOK, NEW h \in Handlers, Step(h)
  PROVE  /\ Reindexing \subseteq Reindexing' \cup {call[h].session}
         /\ pc[h] # "reindex" => Reindexing \subseteq Reindexing'
<1>1. ASSUME NEW g \in Handlers, pc[g] = "reindex", g # h
      PROVE  call[g].session \in Reindexing'
  <2>1. pc'[g] = "reindex" /\ call'[g] = call[g]
    BY <1>1, OthersWait, OthersRemember, Zenon
  <2> QED  BY <2>1, Zenon DEF Reindexing
<1> QED  BY <1>1, Zenon DEF Reindexing

\* A step of a call keeps a user without a preference offline.
LEMMA UnsetStep ==
  ASSUME TypeOK, PresenceInv, UnsetInv, NEW h \in Handlers, Step(h)
  PROVE  UnsetInv'
<1>t. /\ pc \in [Handlers -> Pcs] /\ next \in [Handlers -> Aggregate]
      /\ owner \in [Sessions -> Generations \cup {None}]
      /\ members \in [Handlers -> SUBSET Sessions] /\ alive \in [Handlers -> SUBSET Sessions]
      /\ own \in [Handlers -> Preference]
  BY Zenon DEF TypeOK
<1>v. preference.version \in Nat /\ own[h].version \in Nat
  BY DEF TypeOK, Preference, Version
<1>p. preference' = preference \/ preference'.version > 0
  <2>1. CASE InitializePreference(h)
    BY <2>1, Zenon DEF InitializePreference, PresenceInv, PreferenceInv
  <2>2. CASE SavePreference(h)
    <3>1. PICK v \in NextVersions(own[h].version) :
            own' = [own EXCEPT ![h] = [status |-> call[h].status, version |-> v]]
            /\ preference' = own'[h]
      BY <2>2, Zenon DEF SavePreference
    <3>2. v > 0
      BY <1>v, PresenceConstants DEF NextVersions
    <3>3. preference'.version = v
      BY <1>t, <3>1, Zenon
    <3> QED  BY <3>2, <3>3, Zenon
  <2> QED  BY <2>1, <2>2, KeyWriters, Zenon
<1>1. ASSUME NEW g \in Handlers, pc'[g] \in {"choose", "announce", "lookup", "write"}
      PROVE  preference'.version > 0
  <2>1. CASE pc[g] \in {"choose", "announce", "lookup", "write"}
    BY <2>1, <1>p, Zenon DEF UnsetInv
  <2>2. CASE pc[g] \notin {"choose", "announce", "lookup", "write"}
    <3>1. g = h
      BY <1>1, <2>2, OthersWait, Zenon
    <3>2. ReadPreference(h) \/ InitializePreference(h)
      BY <1>1, <2>2, <3>1, Arrivals, Zenon
    <3>3. CASE ReadPreference(h)
      <4>1. preference.version # 0 /\ preference' = preference
        BY <1>1, <1>t, <3>1, <3>3, Zenon DEF ReadPreference, Go, keyVars
      <4> QED  BY <1>v, <4>1
    <3>4. CASE InitializePreference(h)
      BY <3>4, Zenon DEF InitializePreference, PresenceInv, PreferenceInv
    <3> QED  BY <3>2, <3>3, <3>4, Zenon
  <2> QED  BY <2>1, <2>2, Zenon
<1>2. ASSUME preference'.version = 0
      PROVE  /\ Live' = {} /\ snapshot'.status = "offline"
             /\ \A g \in Handlers : alive'[g] = {} /\ next'[g].status = "offline"
  <2>0. preference' = preference /\ preference.version = 0 /\ ~(preference.version > 0)
    <3>1. ~(preference'.version > 0)
      BY <1>2
    <3> QED  BY <1>2, <1>p, <3>1, Zenon
  <2>1. /\ Live = {} /\ snapshot.status = "offline"
        /\ \A g \in Handlers : alive[g] = {} /\ next[g].status = "offline"
    BY <2>0, Zenon DEF UnsetInv
  <2>2. ~WriteSession(h)
    BY <2>0, Zenon DEF WriteSession, UnsetInv
  <2>3. Live' = {}
    <3>1. owner' = owner \/ owner' = [owner EXCEPT ![call[h].session] = None]
      BY <2>2, OwnerWriters, Zenon
    <3>2. \A s \in Sessions : owner[s] = None
      BY <2>1, Zenon DEF Live
    <3>3. \A s \in Sessions : owner'[s] = None
      BY <1>t, <3>1, <3>2, Zenon
    <3> QED  BY <3>3, Zenon DEF Live
  <2>4. snapshot'.status = "offline"
    BY <2>1, KeyWriters, Zenon DEF SaveSnapshot
  <2>5. \A g \in Handlers \ {h} : alive'[g] = {} /\ next'[g].status = "offline"
    BY <2>1, OthersWait, OthersRemember, Zenon
  <2>6. alive'[h] = {} /\ next'[h].status = "offline"
    <3>1. CASE UNCHANGED <<alive, next>>
      BY <2>1, <3>1, Zenon
    <3>2. CASE Return(h)
      <4>1. alive'[h] = {} /\ next'[h] = NoSnapshot
        BY <1>t, <3>2, Zenon DEF Return
      <4> QED  BY <4>1 DEF NoSnapshot
    <3>3. CASE GatherSessions(h)
      <4>1. alive' = [alive EXCEPT ![h] = {s \in members[h] : owner[s] # None}] /\ next' = next
        BY <3>3, Zenon DEF GatherSessions
      <4>2. {s \in members[h] : owner[s] # None} = {}
        BY <1>t, <2>1, Zenon DEF Live
      <4> QED  BY <1>t, <2>1, <4>1, <4>2, Zenon
    <3>4. CASE PruneAndAggregate(h)
      <4>1. /\ alive' = alive
            /\ next' = [next EXCEPT ![h].status = AggregateStatus(preference, alive[h])]
        BY <3>4, Zenon DEF PruneAndAggregate
      <4>2. AggregateStatus(preference, alive[h]) = "offline"
        BY <2>1, Zenon DEF AggregateStatus
      <4>3. next'[h].status = AggregateStatus(preference, alive[h])
        BY <1>t, <4>1, Zenon DEF Aggregate
      <4> QED  BY <2>1, <4>1, <4>2, <4>3, Zenon
    <3>5. CASE Reconcile(h)
      <4>1. PICK v : next' = [next EXCEPT ![h].version = v] /\ alive' = alive
        BY <3>5, Zenon DEF Reconcile
      <4>2. next'[h].status = next[h].status
        BY <1>t, <4>1, Zenon DEF Aggregate
      <4> QED  BY <2>1, <4>1, <4>2, Zenon
    <3>6. CASE \/ GiveUp(h) \/ Unlock(h) \/ RenewHash(h) \/ RenewMember(h) \/ Fail(h)
               \/ Crash(h)
      <4>1. UNCHANGED <<alive, next>> \/ Return(h)
        BY <3>6, Zenon DEF GiveUp, Unlock, RenewHash, RenewMember, Fail, Crash
      <4> QED  BY <3>1, <3>2, <4>1, Zenon
    <3>7. CASE \/ Receive(h) \/ Acquire(h) \/ ReadPreference(h) \/ InitializePreference(h)
               \/ SavePreference(h) \/ PublishPreference(h) \/ LookupSession(h)
               \/ WriteSession(h) \/ DeleteSession(h) \/ ListMembers(h) \/ Exhausted(h)
               \/ SaveSnapshot(h) \/ PublishTransition(h)
      <4>1. UNCHANGED <<alive, next>>
        BY <3>7, Zenon DEF Receive, Acquire, ReadPreference, InitializePreference,
           SavePreference, PublishPreference, LookupSession, WriteSession, DeleteSession,
           ListMembers, Exhausted, SaveSnapshot, PublishTransition
      <4> QED  BY <3>1, <4>1, Zenon
    <3> QED  BY <3>3, <3>4, <3>5, <3>6, <3>7, Zenon DEF Step, LockedStep
  <2> QED  BY <2>3, <2>4, <2>5, <2>6, Zenon
<1> QED  BY <1>1, <1>2, Zenon DEF UnsetInv

\* The step of a mutation leaves the other calls, which are outside of it, alone.
LEMMA OthersResolve ==
  ASSUME TypeOK, Exclusive, StatusInv, faults = 0, NEW h \in Handlers, Step(h),
         pc[h] \in Locked
  PROVE  /\ \A g \in Handlers \ {h} : ResolveInv(g)'
         /\ pc[h] \in Unresolved \/ StatusCurrent
         /\ Reindexing \subseteq Reindexing'
<1>2. \A g \in Handlers \ {h} : pc[g] \notin Locked
  BY Zenon DEF Exclusive
<1>3. \A g \in Handlers \ {h} : pc'[g] \notin Locked
  BY <1>2, OthersWait, Zenon
<1>4. \A g \in Handlers \ {h} : ResolveInv(g)'
  BY <1>3, StepNames, Zenon DEF ResolveInv
<1>5. pc[h] \in Unresolved \/ StatusCurrent
  BY <1>2, StepNames, Zenon DEF StatusInv, Unresolved
<1>6. Reindexing \subseteq Reindexing'
  BY StepNames, RenewalsGoOn, Zenon
<1> QED  BY <1>4, <1>5, <1>6, Zenon

\* A mutation that only chooses its next step keeps what it knows.
LEMMA MutationStep ==
  ASSUME TypeOK, PresenceInv, UnsetInv, StatusInv, NEW h \in Handlers, LockedStep(h),
         pc[h] \in Locked, faults = 0
  PROVE  StatusInv'
<1>s. Step(h)
  BY Zenon DEF Step
<1>0. /\ \A g \in Handlers \ {h} : ResolveInv(g)'
      /\ pc[h] \in Unresolved \/ StatusCurrent
      /\ Reindexing \subseteq Reindexing'
  BY <1>s, OthersResolve, Zenon DEF PresenceInv
<1>r. ResolveInv(h) /\ Live \subseteq index \cup Reindexing
  BY Zenon DEF StatusInv
<1>o. overlapped' = overlapped \/ ListMembers(h)
  BY <1>s, HistoryWriters, Zenon
<1>t. /\ pc \in [Handlers -> Pcs] /\ next \in [Handlers -> Aggregate]
      /\ owner \in [Sessions -> Generations \cup {None}] /\ call[h].session \in Sessions
      /\ members \in [Handlers -> SUBSET Sessions] /\ alive \in [Handlers -> SUBSET Sessions]
      /\ preference.version \in Nat /\ own[h].version \in Nat /\ snapshot.version \in Nat
  BY DEF TypeOK, CallRecords, Preference, Aggregate, Version
<1> DEFINE Fits(status) ==
           \/ status = AggregateStatus(preference', Sessions)
           \/ status = "offline" /\ (overlapped' \/ Live' = {})
<1>q. ASSUME /\ pc'[h] = "gather" => Live' \subseteq members'[h] \/ overlapped'
             /\ pc'[h] = "prune" => /\ Live' \subseteq alive'[h] \/ overlapped'
                                    /\ Live' \cap members'[h] \subseteq alive'[h]
             /\ pc'[h] \in {"reconcile", "save"} => Fits(next'[h].status)
             /\ Live' \subseteq index' \cup Reindexing
             /\ pc'[h] \in Unresolved \/ StatusCurrent'
      PROVE  StatusInv'
  <2>1. ResolveInv(h)'
    BY <1>q, Zenon DEF ResolveInv, Current
  <2>2. Live' \subseteq index' \cup Reindexing'
    BY <1>0, <1>q, Zenon
  <2> QED  BY <1>0, <1>q, <2>1, <2>2, Zenon DEF StatusInv
<1>k. ASSUME preference' = preference, overlapped' = overlapped, Live' = Live, NEW status,
             Current(status)
      PROVE  Fits(status)
  BY <1>k, Zenon DEF Current
<1>c. ASSUME snapshot'.version < MaxVersion => Fits(snapshot'.status)
      PROVE  StatusCurrent'
  BY <1>c, Zenon DEF StatusCurrent, Current
<1>u. ASSUME UNCHANGED <<preference, snapshot, overlapped>>, Live' = Live, StatusCurrent
      PROVE  StatusCurrent'
  BY <1>c, <1>k, <1>u, Zenon DEF StatusCurrent
<1> HIDE DEF Fits
<1>1. CASE ReadPreference(h)
  <2>1. /\ UNCHANGED <<preference, snapshot, owner, index, overlapped>>
        /\ pc[h] = "preference"
    BY <1>1, Zenon DEF ReadPreference, keyVars, outVars
  <2>2. Live' = Live
    BY <2>1, Zenon DEF Live
  <2>3. StatusCurrent'
    BY <1>0, <1>u, <2>1, <2>2 DEF Unresolved
  <2>4. pc'[h] \in {"initialize", "write", "choose", "lookup", "list"}
    BY <1>1, <1>t, Zenon DEF ReadPreference, AfterPreference, Go
  <2> QED  BY <1>q, <1>r, <2>1, <2>2, <2>3, <2>4, Zenon
<1>2. CASE InitializePreference(h)
  <2>1. /\ UNCHANGED <<snapshot, owner, index, overlapped>>
        /\ pc[h] = "initialize"
    BY <1>2, Zenon DEF InitializePreference, outVars
  <2>2. Live' = {} /\ Live = {} /\ snapshot'.status = "offline"
    BY <2>1, Zenon DEF Live, PresenceInv, PreferenceInv, UnsetInv
  <2>3. pc'[h] \in {"write", "choose", "lookup", "list"}
    BY <1>2, <1>t, Zenon DEF InitializePreference, AfterPreference, Go
  <2>4. StatusCurrent'
    BY <1>c, <2>2, Zenon DEF Fits
  <2> QED  BY <1>q, <2>2, <2>3, <2>4, Zenon
<1>3. CASE SavePreference(h)
  <2>1. UNCHANGED <<owner, index>> /\ pc'[h] = "announce"
    BY <1>3, <1>t, Zenon DEF SavePreference, Go
  <2>2. Live' = Live
    BY <2>1, Zenon DEF Live
  <2> QED  BY <1>q, <1>r, <2>1, <2>2, Zenon DEF Unresolved
<1>4. CASE PublishPreference(h) \/ LookupSession(h)
  <2>1. UNCHANGED <<owner, index>>
    BY <1>4, Zenon DEF PublishPreference, LookupSession, keyVars
  <2>2. pc'[h] \in {"lookup", "write", "list"}
    BY <1>4, <1>t, Zenon DEF PublishPreference, LookupSession, Go
  <2>3. Live' = Live
    BY <2>1, Zenon DEF Live
  <2> QED  BY <1>q, <1>r, <2>1, <2>2, <2>3, Zenon DEF Unresolved
<1>5. CASE WriteSession(h)
  <2>1. /\ owner' = [owner EXCEPT ![call[h].session] = call[h].generation]
        /\ index' = index \cup {call[h].session}
        /\ pc'[h] = "list"
    BY <1>5, <1>t, Zenon DEF WriteSession, Go
  <2>2. Live' \subseteq Live \cup {call[h].session}
    BY <1>t, <2>1, Zenon DEF Live
  <2> QED  BY <1>q, <1>r, <2>1, <2>2, Zenon DEF Unresolved
<1>6. CASE DeleteSession(h)
  <2>1. /\ owner' = [owner EXCEPT ![call[h].session] = None]
        /\ index' = index \ {call[h].session}
        /\ pc'[h] = "list"
    BY <1>6, <1>t, Zenon DEF DeleteSession, Go
  <2>2. Live' \subseteq Live \ {call[h].session}
    BY <1>t, <2>1 DEF Live
  <2> QED  BY <1>q, <1>r, <2>1, <2>2 DEF Unresolved
<1>7. CASE ListMembers(h)
  <2>1. /\ UNCHANGED <<owner, index>> /\ members'[h] = index /\ pc'[h] = "gather"
        /\ overlapped' = (\E g \in Handlers : pc[g] = "reindex")
    BY <1>7, <1>t DEF ListMembers, Go, keyVars
  <2>2. Live' = Live
    BY <2>1, Zenon DEF Live
  <2>3. Live' \subseteq members'[h] \/ overlapped'
    <3>1. ASSUME ~overlapped' PROVE Reindexing = {}
      BY <2>1, <3>1, Zenon DEF Reindexing
    <3> QED  BY <1>r, <2>1, <2>2, <3>1, Zenon
  <2> QED  BY <1>q, <1>r, <2>1, <2>2, <2>3, Zenon DEF Unresolved
<1>8. CASE GatherSessions(h)
  <2>1. /\ UNCHANGED <<owner, index, overlapped, members>>
        /\ pc[h] = "gather" /\ pc'[h] = "prune"
        /\ alive'[h] = {s \in members[h] : owner[s] # None}
    BY <1>8, <1>t DEF GatherSessions, Go, keyVars, outVars
  <2>2. Live' = Live
    BY <2>1, Zenon DEF Live
  <2>3. Live \cap members[h] \subseteq alive'[h]
    BY <2>1, Zenon DEF Live
  <2>4. Live \subseteq members[h] \/ overlapped
    BY <1>r, <2>1, Zenon DEF ResolveInv
  <2> QED  BY <1>q, <1>r, <2>1, <2>2, <2>3, <2>4, Zenon DEF Unresolved
<1>9. CASE PruneAndAggregate(h)
  <2>1. /\ UNCHANGED <<preference, owner, overlapped>>
        /\ pc[h] = "prune" /\ pc'[h] = "reconcile"
        /\ index' = index \ (members[h] \ alive[h])
        /\ next' = [next EXCEPT ![h].status = AggregateStatus(preference, alive[h])]
    BY <1>9, <1>t, Zenon DEF PruneAndAggregate, Go, outVars
  <2>2. next'[h].status = AggregateStatus(preference, alive[h])
    BY <1>t, <2>1, Zenon DEF Aggregate
  <2>3. /\ Live' = Live /\ (Live \subseteq alive[h] \/ overlapped)
        /\ Live \cap members[h] \subseteq alive[h] /\ alive[h] \subseteq Sessions
    BY <1>r, <1>t, <2>1, Zenon DEF Live, ResolveInv
  <2>4. Fits(next'[h].status)
    <3>1. CASE alive[h] = {}
      BY <2>1, <2>2, <2>3, <3>1, Zenon DEF Fits, AggregateStatus
    <3>2. CASE alive[h] # {}
      <4>1. Sessions # {}
        BY <2>3, <3>2, Zenon
      <4>2. AggregateStatus(preference, alive[h]) = AggregateStatus(preference, Sessions)
        BY <3>2, <4>1, Zenon DEF AggregateStatus
      <4> QED  BY <2>1, <2>2, <4>2, Zenon DEF Fits
    <3> QED  BY <3>1, <3>2, Zenon
  <2>5. Live' \subseteq index' \cup Reindexing
    BY <1>r, <2>1, <2>3, Zenon
  <2> QED  BY <1>q, <2>1, <2>4, <2>5 DEF Unresolved
<1>10. CASE Reconcile(h)
  <2>1. /\ UNCHANGED <<preference, snapshot, owner, index, overlapped>>
        /\ pc[h] = "reconcile"
    BY <1>10, Zenon DEF Reconcile, keyVars, outVars
  <2>2. Live' = Live
    BY <2>1, Zenon DEF Live
  <2>3. PICK v : next' = [next EXCEPT ![h].version = v]
    BY <1>10, Zenon DEF Reconcile
  <2>4. next'[h].status = next[h].status
    BY <1>t, <2>3, Zenon DEF Aggregate
  <2>5. Fits(next[h].status)
    BY <1>k, <1>r, <2>1, <2>2, Zenon DEF ResolveInv
  <2>6. pc'[h] = "save" \/ (pc'[h] = "unlock" /\ ~Differs(h))
    BY <1>10, <1>t, Zenon DEF Reconcile, Go
  <2>7. CASE pc'[h] = "save"
    BY <1>q, <1>r, <2>1, <2>2, <2>4, <2>5, <2>7, Zenon DEF Unresolved
  <2>8. CASE pc'[h] = "unlock" /\ ~Differs(h)
    <3>1. StatusCurrent'
      BY <1>c, <2>1, <2>5, <2>8, Zenon DEF Differs
    <3> QED  BY <1>q, <1>r, <2>1, <2>2, <2>8, <3>1, Zenon
  <2> QED  BY <2>6, <2>7, <2>8, Zenon
<1>11. CASE Exhausted(h)
  <2>1. /\ UNCHANGED <<preference, snapshot, owner, index, overlapped>>
        /\ pc'[h] = "failed"
    BY <1>11, <1>t, Zenon DEF Exhausted, Go, keyVars, outVars
  <2>2. pc[h] = "choose" \/ (pc[h] = "reconcile" /\ NextVersions(snapshot.version) = {})
    BY <1>11, Zenon DEF Exhausted
  <2>3. StatusCurrent
    <3>1. CASE pc[h] = "choose"
      BY <1>0, <3>1, Zenon DEF Unresolved
    <3>2. CASE NextVersions(snapshot.version) = {}
      <4>1. ~(snapshot.version < MaxVersion)
        <5> SUFFICES ASSUME snapshot.version < MaxVersion PROVE FALSE
          BY SMTT(20)
        <5>1. MaxVersion \in NextVersions(snapshot.version)
          BY <1>t, PresenceConstants DEF NextVersions
        <5> QED  BY <3>2, <5>1, Zenon
      <4> QED  BY <4>1, Zenon DEF StatusCurrent
    <3> QED  BY <2>2, <3>1, <3>2, Zenon
  <2>4. Live' = Live
    BY <2>1, Zenon DEF Live
  <2>5. StatusCurrent'
    BY <1>u, <2>1, <2>3, <2>4, Zenon
  <2> QED  BY <1>q, <1>r, <2>1, <2>4, <2>5, Zenon
<1>12. CASE SaveSnapshot(h)
  <2>1. /\ UNCHANGED <<preference, owner, index, overlapped>>
        /\ snapshot' = next[h] /\ pc[h] = "save"
    BY <1>12, Zenon DEF SaveSnapshot
  <2>2. Live' = Live
    BY <2>1, Zenon DEF Live
  <2>3. StatusCurrent'
    BY <1>c, <1>k, <1>r, <2>1, <2>2, Zenon DEF ResolveInv
  <2>4. pc'[h] \in {"publish", "unlock"}
    BY <1>12, <1>t, Zenon DEF SaveSnapshot, Go
  <2> QED  BY <1>q, <1>r, <2>1, <2>2, <2>3, <2>4, Zenon
<1>13. CASE PublishTransition(h) \/ Unlock(h)
  <2>1. /\ UNCHANGED <<preference, snapshot, owner, index, overlapped>>
        /\ pc[h] \in {"publish", "unlock", "failed"} /\ pc'[h] \in {"unlock", "idle"}
    BY <1>13, <1>t, Zenon DEF PublishTransition, Unlock, Return, Go, keyVars
  <2>2. Live' = Live
    BY <2>1, Zenon DEF Live
  <2>3. StatusCurrent'
    BY <1>0, <1>u, <2>1, <2>2 DEF Unresolved
  <2> QED  BY <1>q, <1>r, <2>1, <2>2, <2>3, Zenon
<1> QED
  BY <1>1, <1>2, <1>3, <1>4, <1>5, <1>6, <1>7, <1>8, <1>9, <1>10, <1>11, <1>12, <1>13, Zenon
     DEF LockedStep

\* A call that waits for the lock or renews a lease, and the environment, write
\* neither the preference nor the snapshot, and sessions only go.
LEMMA OutsideStep ==
  ASSUME StatusInv, UNCHANGED <<preference, snapshot, overlapped, faults>>,
         Live' \subseteq Live, Live \subseteq index \cup Reindexing =>
                                 Live' \subseteq index' \cup Reindexing',
         \A g \in Handlers :
           \/ UNCHANGED <<pc[g], members[g], alive[g], next[g]>>
           \/ /\ pc[g] \notin Locked
              /\ pc'[g] \in {"idle", "lock", "renew", "reindex", "preference", "delete", "list"}
  PROVE  StatusInv'
<1> SUFFICES ASSUME faults = 0
             PROVE  /\ \A h \in Handlers : ResolveInv(h)'
                    /\ (\E h \in Handlers : pc'[h] \in Unresolved) \/ StatusCurrent'
  BY Zenon DEF StatusInv
<1>1. ASSUME NEW status, Current(status)
      PROVE  \/ status = AggregateStatus(preference', Sessions)
             \/ status = "offline" /\ (overlapped' \/ Live' = {})
  BY <1>1, Zenon DEF Current
<1>2. ASSUME NEW g \in Handlers PROVE ResolveInv(g)'
  <2>1. CASE UNCHANGED <<pc[g], members[g], alive[g], next[g]>>
    <3>1. ResolveInv(g)
      BY Zenon DEF StatusInv
    <3>2. /\ pc'[g] = "gather" => Live' \subseteq members'[g] \/ overlapped'
          /\ pc'[g] = "prune" => /\ Live' \subseteq alive'[g] \/ overlapped'
                                 /\ Live' \cap members'[g] \subseteq alive'[g]
      BY <2>1, <3>1, Zenon DEF ResolveInv
    <3>3. pc'[g] \in {"reconcile", "save"} =>
            \/ next'[g].status = AggregateStatus(preference', Sessions)
            \/ next'[g].status = "offline" /\ (overlapped' \/ Live' = {})
      BY <1>1, <2>1, <3>1, Zenon DEF ResolveInv
    <3> QED  BY <3>2, <3>3, Zenon DEF ResolveInv, Current
  <2>2. CASE pc'[g] \in {"idle", "lock", "renew", "reindex", "preference", "delete", "list"}
    BY <2>2 DEF ResolveInv
  <2> QED  BY <2>1, <2>2, Zenon
<1>3. ASSUME StatusCurrent PROVE StatusCurrent'
  BY <1>1, <1>3, Zenon DEF StatusCurrent, Current
<1>4. ASSUME NEW g \in Handlers, pc[g] \in Unresolved PROVE pc'[g] \in Unresolved
  <2>1. pc[g] \in Locked
    BY <1>4 DEF Unresolved, Locked
  <2> QED  BY <1>4, <2>1, Zenon
<1> QED  BY <1>2, <1>3, <1>4, Zenon DEF StatusInv

\* A step of a call keeps the statuses of live users current.
LEMMA StatusStep ==
  ASSUME TypeOK, PresenceInv, UnsetInv, StatusInv, NEW h \in Handlers, Step(h)
  PROVE  StatusInv'
<1> SUFFICES ASSUME faults' = 0 PROVE StatusInv'
  BY Zenon DEF StatusInv
<1>1. faults = 0 /\ ~Fail(h) /\ ~Crash(h)
  BY NothingFailed, Zenon
<1>2. \A g \in Handlers \ {h} : UNCHANGED <<pc[g], members[g], alive[g], next[g]>>
  BY OthersWait, OthersRemember, Zenon
<1>3. CASE Receive(h) \/ Acquire(h) \/ GiveUp(h) \/ RenewHash(h)
  <2>1. /\ pc[h] \in {"idle", "lock", "renew"}
        /\ UNCHANGED <<preference, snapshot, owner, index, overlapped, faults>>
    BY <1>3, Zenon DEF Receive, Acquire, GiveUp, RenewHash, keyVars, outVars
  <2>2. pc'[h] \in {"idle", "lock", "renew", "reindex", "preference", "delete", "list"}
    <3>1. PICK step \in {"idle", "lock", "renew", "reindex", "preference", "delete", "list"} :
            Go(h, step)
      BY <1>3, Zenon DEF Receive, Acquire, GiveUp, RenewHash, Return
    <3> QED  BY <3>1, Zenon DEF Go, TypeOK
  <2>3. Live' = Live
    BY <2>1, Zenon DEF Live
  <2>4. pc[h] \notin Locked /\ pc[h] # "reindex"
    BY <2>1 DEF Locked
  <2>5. Reindexing \subseteq Reindexing'
    BY <2>4, RenewalsGoOn, Zenon
  <2>6. Live \subseteq index \cup Reindexing => Live' \subseteq index' \cup Reindexing'
    BY <2>1, <2>3, <2>5, Zenon
  <2> QED  BY <1>2, <2>1, <2>2, <2>3, <2>4, <2>6, OutsideStep, Zenon
<1>4. CASE RenewMember(h)
  <2>1. /\ pc[h] = "reindex" /\ index' = index \cup {call[h].session}
        /\ UNCHANGED <<preference, snapshot, owner, overlapped, faults>> /\ Go(h, "idle")
    BY <1>4, Zenon DEF RenewMember, Return, outVars
  <2>2. pc'[h] = "idle" /\ Live' = Live
    BY <2>1, Zenon DEF Go, TypeOK, Live
  <2>3. pc[h] \notin Locked
    BY <2>1 DEF Locked
  <2>4. Live \subseteq index \cup Reindexing => Live' \subseteq index' \cup Reindexing'
    BY <2>1, <2>2, RenewalsGoOn, Zenon
  <2> QED  BY <1>2, <2>1, <2>2, <2>3, <2>4, OutsideStep, Zenon
<1>5. CASE LockedStep(h)
  <2>1. pc[h] \in Locked
    BY <1>5, Zenon DEF LockedStep, ReadPreference, InitializePreference, SavePreference,
       PublishPreference, LookupSession, WriteSession, DeleteSession, ListMembers,
       GatherSessions, PruneAndAggregate, Reconcile, Exhausted, SaveSnapshot,
       PublishTransition, Unlock, Locked
  <2> QED  BY <1>1, <1>5, <2>1, MutationStep, Zenon
<1> QED  BY <1>1, <1>3, <1>4, <1>5, Zenon DEF Step

\* With no call in progress, nothing failed, no call that outlasted its lock and
\* versions left, a user with a live session has the status of their preference.
\* The only exception is a resolution that listed the sessions while a renewal was
\* half done; all calls, the renewal among them, run throughout.
THEOREM LiveUsersHaveStatus ==
  ASSUME LockMayExpire = FALSE
  PROVE  Spec => []LiveUserHasStatus
<1> DEFINE IInv == TypeOK /\ CallInv /\ PresenceInv /\ UnsetInv /\ StatusInv
<1>1. Init => IInv
  <2>1. Init => UnsetInv /\ StatusInv
    <3> SUFFICES ASSUME Init PROVE UnsetInv /\ StatusInv
      OBVIOUS
    <3>1. /\ Live = {} /\ snapshot.status = "offline"
          /\ \A h \in Handlers : /\ pc[h] = "idle" /\ alive[h] = {}
                                 /\ next[h].status = "offline"
      BY Zenon DEF Init, Live, NoSnapshot
    <3> QED  BY <3>1 DEF UnsetInv, StatusInv, ResolveInv, StatusCurrent, Current
  <2> QED  BY <2>1, TypeInit, PresenceInit, Zenon
<1>2. IInv /\ [Next]_vars => IInv'
  <2> SUFFICES ASSUME IInv, [Next]_vars PROVE UnsetInv' /\ StatusInv'
    BY TypeStep, PresenceStep, Zenon
  <2>1. ASSUME NEW h \in Handlers, Step(h) PROVE UnsetInv' /\ StatusInv'
    BY <2>1, UnsetStep, StatusStep, Zenon
  <2>2. ASSUME UNCHANGED <<preference, snapshot, callVars, overlapped, faults>>,
               Live' \subseteq Live,
               Live \subseteq index \cup Reindexing => Live' \subseteq index' \cup Reindexing
        PROVE  UnsetInv' /\ StatusInv'
    <3>1. UnsetInv'
      BY <2>2, Zenon DEF UnsetInv, callVars
    <3>2. /\ Reindexing' = Reindexing
          /\ \A g \in Handlers : UNCHANGED <<pc[g], members[g], alive[g], next[g]>>
      BY <2>2, Zenon DEF Reindexing, callVars
    <3> QED  BY <2>2, <3>1, <3>2, OutsideStep, Zenon
  <2>3. ASSUME NEW s \in Sessions, ExpireSession(s) PROVE UnsetInv' /\ StatusInv'
    <3>1. Live' \subseteq Live \ {s} /\ index' = index \ {s}
      BY <2>3, Zenon DEF ExpireSession, Live, TypeOK
    <3> QED  BY <2>2, <2>3, <3>1, Zenon DEF ExpireSession, outVars
  <2>4. ASSUME NEW s \in Sessions, ExpireMember(s) PROVE UnsetInv' /\ StatusInv'
    <3>1. owner[s] = None \/ s \in Reindexing
      BY <2>4, Zenon DEF ExpireMember, Reindexing
    <3>2. Live' = Live /\ (s \notin Live \/ s \in Reindexing) /\ index' = index \ {s}
      BY <2>4, <3>1, Zenon DEF ExpireMember, Live
    <3> QED  BY <2>2, <2>4, <3>2, Zenon DEF ExpireMember, outVars
  <2>5. CASE ExpireLock \/ ArriveLate \/ UNCHANGED vars
    <3>1. UNCHANGED <<preference, snapshot, owner, index, callVars, overlapped, faults>>
      BY <2>5, Zenon DEF ExpireLock, ArriveLate, vars, keyVars, outVars
    <3>2. Live' = Live
      BY <3>1, Zenon DEF Live
    <3> QED  BY <2>2, <3>1, <3>2, Zenon
  <2> QED  BY <2>1, <2>3, <2>4, <2>5, Zenon DEF Next
<1>3. IInv => LiveUserHasStatus
  <2> SUFFICES ASSUME IInv, Settled, faults = 0, snapshot.version < MaxVersion
               PROVE  Current(snapshot.status)
    BY Zenon DEF LiveUserHasStatus, Current, Live
  <2>1. \A h \in Handlers : pc[h] \notin Unresolved
    BY Zenon DEF Settled, Unresolved
  <2> QED  BY <2>1, Zenon DEF StatusInv, StatusCurrent
<1> QED  BY <1>1, <1>2, <1>3, PTL DEF Spec
=============================================================================
