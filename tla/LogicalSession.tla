--------------------------- MODULE LogicalSession ---------------------------
(***************************************************************************)
(* One logical session of the Session service: IDENTIFY, RESUME, the       *)
(* sequence numbers and the replay window, the binding of the session to a *)
(* Gateway stream, checkpoints and heartbeats, detaching, draining, and    *)
(* the removal of a session nobody resumed.                                *)
(*                                                                         *)
(* A connection is one SessionService.Connect stream, used once.  The      *)
(* binding a connection creates is named after it (binding.id is the       *)
(* connection's id).  Sessions share only the node's maps, so one session  *)
(* is modelled; the owner key, Presence and routes kept in Redis are not   *)
(* part of this module, only the failure of the calls that refresh them.   *)
(* session.mu is taken for every action below, and an action is cut where  *)
(* the code releases it.                                                   *)
(***************************************************************************)
EXTENDS Integers, Sequences, FiniteSets

CONSTANTS
  Conns,                 \* Connect streams
  None,                  \* no binding
  Janitor,               \* the cleanupDetached goroutine
  QueueSize,             \* NodeConfig.QueueSize: capacity of binding.send
  ReplayLimit,           \* NodeConfig.ReplayLimit
  MaxPendingDispatches,  \* NodeConfig.MaxPendingDispatches
  MaxEvents,             \* bound: no event is dispatched beyond this sequence
  RefreshFails           \* may refreshOwner and refreshPresence fail in RESUME?

ASSUME SessionConstants ==
  /\ None \notin Conns /\ Janitor \notin Conns
  /\ QueueSize \in Nat \ {0} /\ ReplayLimit \in Nat \ {0}
  /\ MaxPendingDispatches \in Nat /\ MaxEvents \in Nat
  /\ RefreshFails \in BOOLEAN

VARIABLES
  registered,    \* the session is in Server.sessions and its indexes
  initializing, pending, pendingOverflow,
  sequence, ackedSequence, replay, replayFloor,
  binding,       \* session.binding: the connection that created it, or None
  bindingEpoch,
  detachedAt,    \* "never" is the zero time; "old" is ResumeTTL ago or more
  draining,      \* Server.Drain: "no", "draining", and "notified" this session
  \* one binding per connection that created one
  epoch, send, capacity, done,
  from,          \* the sequence its RESUME asked for
  \* one Connect handler per connection
  pc,
  current,       \* the binding the handler serves
  highest,       \* highest dispatch sequence sent on the stream
  \* callers of removeSession: connections and the janitor
  removal

replayVars == <<sequence, ackedSequence, replay, replayFloor>>
bindVars == <<binding, bindingEpoch, detachedAt>>
chanVars == <<epoch, send, capacity, done, from>>
connVars == <<pc, current, highest>>
readyVars == <<initializing, pending, pendingOverflow>>
vars == <<registered, readyVars, replayVars, bindVars, draining, chanVars,
          connVars, removal>>

Removers == Conns \cup {Janitor}
Larger(a, b) == IF a >= b THEN a ELSE b
Smaller(a, b) == IF a <= b THEN a ELSE b

\* NodeConfig.PendingDispatchLimit.
PendingDispatchLimit ==
  Smaller(MaxPendingDispatches, Smaller(ReplayLimit - 1, QueueSize - 1))
-----------------------------------------------------------------------------
(* Replay window *)

\* The entries of the replay buffer at its front that q covers: the loop of
\* acknowledgeLocked.  Entries ascend, so they are all the entries q covers,
\* and RESUME replays exactly the rest.
Covered(q) ==
  CHOOSE k \in 0 .. Len(replay) :
    /\ \A i \in 1 .. k : replay[i] <= q
    /\ k < Len(replay) => replay[k + 1] > q
Beyond(q) == SubSeq(replay, Covered(q) + 1, Len(replay))

acknowledgeLocked(q) ==
  IF q <= ackedSequence
    THEN UNCHANGED <<ackedSequence, replay>>
    ELSE ackedSequence' = q /\ replay' = Beyond(q)

\* appendDispatchLocked, what it does to the replay window, n times over.
Retain(n) ==
  LET all == replay \o [i \in 1 .. n |-> sequence + i]
      overflow == Larger(0, Len(all) - ReplayLimit)
  IN /\ sequence' = sequence + n
     /\ replay' = SubSeq(all, overflow + 1, Len(all))
     /\ replayFloor' = IF overflow > 0 THEN all[overflow] ELSE replayFloor

\* appendDispatchLocked, what it does to binding b when the queues hold q, the
\* bindings in closed are closed and the detach time is at: the new frames are
\* enqueued, and a queue that overflows ends the binding.
Deliver(n, b, q, closed, at) ==
  IF b = None
    THEN binding' = None /\ send' = q /\ done' = closed /\ detachedAt' = at
    ELSE LET sent == Smaller(n, capacity'[b] - Len(q[b]))
         IN /\ send' = [q EXCEPT ![b] = @ \o [i \in 1 .. sent |-> sequence + i]]
            /\ binding' = IF sent = n THEN b ELSE None
            /\ done' = IF sent = n THEN closed ELSE [closed EXCEPT ![b] = TRUE]
            /\ detachedAt' = IF sent = n THEN at ELSE "recent"
-----------------------------------------------------------------------------
(* Bindings *)

\* Fault: a replaced connection detaches its successor.
detach_Any(b) ==
  /\ binding' = None
  /\ detachedAt' = "recent"
  /\ done' = [done EXCEPT ![b] = TRUE]

\* detach: only the current binding ends the attachment.
detach(b) ==
  IF binding = b
    THEN /\ binding' = None
         /\ detachedAt' = "recent"
         /\ done' = [done EXCEPT ![b] = TRUE]
    ELSE UNCHANGED <<binding, detachedAt, done>>

\* A frame that is no dispatch (sequence 0) offered to binding b's queue.
Offer(b) ==
  send' = IF Len(send[b]) < capacity[b] THEN [send EXCEPT ![b] = Append(@, 0)] ELSE send

\* newBinding's capacity in RESUME: the replayed frames and RESUMED must fit.
ResumeCapacity(n) == Larger(QueueSize, n + 1)
-----------------------------------------------------------------------------
(* IDENTIFY *)

\* A handshake that ends without touching the session: a bad first frame, a
\* draining node, a rejected credential, a rate limit, an unknown session.
Reject(c) ==
  /\ pc[c] = "new"
  /\ pc' = [pc EXCEPT ![c] = "closed"]
  /\ UNCHANGED <<registered, readyVars, replayVars, bindVars, draining, chanVars,
                 current, highest, removal>>

\* identify up to addSession: the session exists and receives events.
IdentifyAdd(c) ==
  /\ pc[c] = "new" /\ draining = "no" /\ bindingEpoch = 0
  /\ pc' = [pc EXCEPT ![c] = "identifying"]
  /\ registered' = TRUE /\ initializing' = TRUE
  /\ binding' = c /\ bindingEpoch' = 1
  /\ epoch' = [epoch EXCEPT ![c] = 1]
  /\ capacity' = [capacity EXCEPT ![c] = QueueSize]
  /\ UNCHANGED <<pending, pendingOverflow, replayVars, detachedAt, draining, send,
                 done, from, current, highest, removal>>

\* A failed call after addSession, or pendingDispatchOverflow: removeSession.
IdentifyFail(c) ==
  /\ pc[c] = "identifying"
  /\ pc' = [pc EXCEPT ![c] = "closed"]
  /\ removal' = [removal EXCEPT ![c] = "unbind"]
  /\ UNCHANGED <<registered, readyVars, replayVars, bindVars, draining, chanVars,
                 current, highest>>

\* READY takes sequence 1, the events buffered meanwhile follow it.
IdentifyReady(c) ==
  /\ pc[c] = "identifying" /\ ~pendingOverflow
  /\ Retain(pending + 1) /\ UNCHANGED <<epoch, capacity>>
  /\ Deliver(pending + 1, binding, send, done, detachedAt)
  /\ initializing' = FALSE /\ pending' = 0
  /\ pc' = [pc EXCEPT ![c] = "ready"]
  /\ UNCHANGED <<registered, pendingOverflow, ackedSequence, bindingEpoch, draining,
                 from, current, highest, removal>>
-----------------------------------------------------------------------------
(* RESUME *)

\* The session is looked up under s.mu, which is released before the
\* credential is verified by an RPC.  A client knows the id from READY.
ResumeLookup(c) ==
  /\ pc[c] = "new" /\ draining = "no" /\ registered
  /\ \E d \in Conns : highest[d] > 0
  /\ pc' = [pc EXCEPT ![c] = "verifying"]
  /\ UNCHANGED <<registered, readyVars, replayVars, bindVars, draining, chanVars,
                 current, highest, removal>>

\* The credential is rejected, or sequence r cannot be resumed from.
ResumeReject(c) ==
  /\ pc[c] = "verifying"
  /\ pc' = [pc EXCEPT ![c] = "closed"]
  /\ UNCHANGED <<registered, readyVars, replayVars, bindVars, draining, chanVars,
                 current, highest, removal>>

\* A plausible fault: the floor is not looked at.
Resumable_NoFloor(r) == r <= sequence /\ r >= ackedSequence

\* The tests on the requested sequence.
Resumable(r) == r <= sequence /\ r >= replayFloor /\ r >= ackedSequence

ResumeBind(c, r) ==
  /\ pc[c] = "verifying" /\ Resumable(r)
  /\ bindingEpoch' = bindingEpoch + 1
  /\ epoch' = [epoch EXCEPT ![c] = bindingEpoch + 1]
  /\ capacity' = [capacity EXCEPT ![c] = ResumeCapacity(Len(Beyond(r)))]
  /\ from' = [from EXCEPT ![c] = r]
  /\ Deliver(1, c, [send EXCEPT ![c] = Beyond(r)],
             [d \in Conns |-> done[d] \/ d = binding], "never")
  /\ Retain(1)
  /\ pc' = [pc EXCEPT ![c] = "refreshing"]
  /\ UNCHANGED <<registered, readyVars, ackedSequence, draining, current, highest,
                 removal>>

\* refreshOwner or refreshPresence fails, or the stream's context is cancelled:
\* the error is returned as it is.
ResumeRefreshFails(c) ==
  /\ RefreshFails /\ pc[c] = "refreshing"
  /\ pc' = [pc EXCEPT ![c] = "closed"]
  /\ UNCHANGED <<registered, readyVars, replayVars, bindVars, draining, chanVars,
                 current, highest, removal>>
-----------------------------------------------------------------------------
(* The Connect loop *)

\* Connect reads session.binding in a second critical section: what it finds
\* may be the binding of a later RESUME.
Attach(c) ==
  /\ pc[c] \in {"ready", "refreshing"}
  /\ current' = [current EXCEPT ![c] = binding]
  /\ pc' = [pc EXCEPT ![c] = IF binding = None THEN "closed" ELSE "serving"]
  /\ UNCHANGED <<registered, readyVars, replayVars, bindVars, draining, chanVars,
                 highest, removal>>

\* A frame of current.send goes out on the stream.
Send(c) ==
  /\ pc[c] = "serving" /\ send[current[c]] # << >>
  /\ send' = [send EXCEPT ![current[c]] = Tail(@)]
  /\ highest' = [highest EXCEPT ![c] = Larger(@, Head(send[current[c]]))]
  /\ UNCHANGED <<registered, readyVars, replayVars, bindVars, draining, epoch, capacity,
                 done, from, pc, current, removal>>

\* stream.Send fails: the frame is lost with the stream.
SendFails(c) ==
  /\ pc[c] = "serving" /\ send[current[c]] # << >>
  /\ send' = [send EXCEPT ![current[c]] = Tail(@)]
  /\ detach(current[c])
  /\ pc' = [pc EXCEPT ![c] = "closed"]
  /\ UNCHANGED <<registered, readyVars, replayVars, bindingEpoch, draining, epoch,
                 capacity, from, current, highest, removal>>

\* The stream ends, receiveFrames fails, or the Gateway sends Detach.  A Detach
\* that is not resumable goes on to removeSession if it was current.
Close(c, resumable) ==
  /\ pc[c] = "serving"
  /\ detach(current[c])
  /\ pc' = [pc EXCEPT ![c] = "closed"]
  /\ removal' = IF ~resumable /\ binding = current[c]
                  THEN [removal EXCEPT ![c] = "unbind"] ELSE removal
  /\ UNCHANGED <<registered, readyVars, replayVars, bindingEpoch, draining, epoch, send,
                 capacity, from, current, highest>>

\* current.done is closed; frames may remain in the queue.
Superseded(c) ==
  /\ pc[c] = "serving" /\ done[current[c]]
  /\ pc' = [pc EXCEPT ![c] = "closed"]
  /\ UNCHANGED <<registered, readyVars, replayVars, bindVars, draining, chanVars,
                 current, highest, removal>>

\* heartbeat of a connection on its own binding (any other connection id ends
\* the stream: Close).  A stale binding, a sequence ahead of the session's or a
\* full queue ends the stream.
Heartbeat(c, q) ==
  /\ pc[c] = "serving" /\ current[c] = c
  /\ LET valid == binding = c /\ q <= sequence
     IN /\ IF valid THEN acknowledgeLocked(q) ELSE UNCHANGED <<ackedSequence, replay>>
        /\ IF valid /\ Len(send[c]) < capacity[c]
             THEN Offer(c) /\ UNCHANGED <<binding, detachedAt, done, pc>>
             ELSE detach(c) /\ pc' = [pc EXCEPT ![c] = "closed"] /\ send' = send
  /\ UNCHANGED <<registered, readyVars, sequence, replayFloor, bindingEpoch, draining,
                 epoch, capacity, from, current, highest, removal>>
-----------------------------------------------------------------------------
(* The Gateway's checkpoints *)

\* A plausible fault: any attached binding will do.
Matches_AnyBinding(c) == binding # None

\* SyncGatewayConnections: does the checkpoint of connection c, which carries
\* the epoch of the frames c received, match the current binding?
Matches(c) == binding = c /\ epoch[binding] = epoch[current[c]]

\* A checkpoint for any sequence c acknowledged is delivered at any later time,
\* any number of times: the Gateway coalesces, delays and resends them.
Checkpoint(c, q) ==
  /\ registered /\ current[c] # None /\ highest[c] > 0
  /\ Matches(c) /\ q <= sequence
  /\ acknowledgeLocked(q)
  /\ UNCHANGED <<registered, readyVars, sequence, replayFloor, bindVars, draining,
                 chanVars, connVars, removal>>
-----------------------------------------------------------------------------
(* Events *)

\* dispatchSession for an event of the session's user or Guilds; large says
\* that the event does not fit in PendingDispatchByteLimit.
Dispatch(large) ==
  /\ registered /\ sequence + pending < MaxEvents
  /\ UNCHANGED <<epoch, capacity>>
  /\ IF initializing
       THEN /\ IF pendingOverflow \/ large \/ pending >= PendingDispatchLimit
                 THEN pendingOverflow' = TRUE /\ pending' = 0
                 ELSE pending' = pending + 1 /\ UNCHANGED pendingOverflow
            /\ UNCHANGED <<replayVars, binding, send, done, detachedAt>>
       ELSE /\ Retain(1) /\ Deliver(1, binding, send, done, detachedAt)
            /\ UNCHANGED <<pending, pendingOverflow, ackedSequence>>
  /\ UNCHANGED <<registered, initializing, bindingEpoch, draining, from, connVars,
                 removal>>

\* Drain, which tells each bound session to identify elsewhere.
StartDrain ==
  /\ draining = "no"
  /\ draining' = "draining"
  /\ UNCHANGED <<registered, readyVars, replayVars, bindVars, chanVars, connVars, removal>>

DrainNotify ==
  /\ draining = "draining" /\ registered
  /\ draining' = "notified"
  /\ IF binding = None THEN send' = send ELSE Offer(binding)
  /\ UNCHANGED <<registered, readyVars, replayVars, bindVars, epoch, capacity, done,
                 from, connVars, removal>>
-----------------------------------------------------------------------------
(* Removal *)

\* ResumeTTL passes after a detach.
ResumeTTLPasses ==
  /\ detachedAt = "recent"
  /\ detachedAt' = "old"
  /\ UNCHANGED <<registered, readyVars, replayVars, binding, bindingEpoch, draining,
                 chanVars, connVars, removal>>

\* cleanupDetached: the sessions are listed, then each is examined.
CleanupList ==
  /\ removal[Janitor] = "idle" /\ registered
  /\ removal' = [removal EXCEPT ![Janitor] = "check"]
  /\ UNCHANGED <<registered, readyVars, replayVars, bindVars, draining, chanVars, connVars>>

\* A plausible fault: the zero detach time is the one taken for expired.
Expired_ZeroTime == binding = None /\ detachedAt = "never"

\* The test of cleanupDetached.
Expired == binding = None /\ detachedAt = "old"

CleanupCheck ==
  /\ removal[Janitor] = "check"
  /\ removal' = [removal EXCEPT ![Janitor] = IF Expired THEN "unbind" ELSE "idle"]
  /\ UNCHANGED <<registered, readyVars, replayVars, bindVars, draining, chanVars, connVars>>

\* removeSession, under session.mu ...
RemoveUnbind(x) ==
  /\ removal[x] = "unbind"
  /\ removal' = [removal EXCEPT ![x] = "delete"]
  /\ binding' = None
  /\ done' = [c \in Conns |-> done[c] \/ c = binding]
  /\ UNCHANGED <<registered, readyVars, replayVars, bindingEpoch, detachedAt, draining,
                 epoch, send, capacity, from, connVars>>

\* ... and under s.mu.
RemoveDelete(x) ==
  /\ removal[x] = "delete"
  /\ removal' = [removal EXCEPT ![x] = "idle"]
  /\ registered' = FALSE
  /\ UNCHANGED <<readyVars, replayVars, bindVars, draining, chanVars, connVars>>
-----------------------------------------------------------------------------
Init ==
  /\ registered = FALSE /\ initializing = FALSE
  /\ pending = 0 /\ pendingOverflow = FALSE
  /\ sequence = 0 /\ ackedSequence = 0 /\ replay = << >> /\ replayFloor = 0
  /\ binding = None /\ bindingEpoch = 0 /\ detachedAt = "never" /\ draining = "no"
  /\ epoch = [c \in Conns |-> 0] /\ send = [c \in Conns |-> << >>]
  /\ capacity = [c \in Conns |-> 0] /\ done = [c \in Conns |-> FALSE]
  /\ from = [c \in Conns |-> 0]
  /\ pc = [c \in Conns |-> "new"] /\ current = [c \in Conns |-> None]
  /\ highest = [c \in Conns |-> 0]
  /\ removal = [x \in Removers |-> "idle"]

ConnStep(c) ==
  \/ Reject(c) \/ IdentifyAdd(c) \/ IdentifyFail(c) \/ IdentifyReady(c)
  \/ ResumeLookup(c) \/ ResumeReject(c) \/ ResumeRefreshFails(c)
  \/ \E r \in 0 .. sequence : ResumeBind(c, r)
  \/ Attach(c) \/ Send(c) \/ SendFails(c) \/ Superseded(c)
  \/ \E resumable \in BOOLEAN : Close(c, resumable)
  \/ \E q \in 0 .. highest[c] : Heartbeat(c, q) \/ Checkpoint(c, q)

Next ==
  \/ \E c \in Conns : ConnStep(c)
  \/ \E large \in BOOLEAN : Dispatch(large)
  \/ StartDrain \/ DrainNotify \/ ResumeTTLPasses
  \/ CleanupList \/ CleanupCheck
  \/ \E x \in Removers : RemoveUnbind(x) \/ RemoveDelete(x)

Spec == Init /\ [][Next]_vars

\* Time passes, the cleanup goroutine runs, and a removal once begun goes on.
\* Nothing is assumed of clients, of events or of draining.
Fairness ==
  /\ WF_vars(ResumeTTLPasses) /\ WF_vars(CleanupList) /\ WF_vars(CleanupCheck)
  /\ \A x \in Removers : WF_vars(RemoveUnbind(x)) /\ WF_vars(RemoveDelete(x))

FairSpec == Spec /\ Fairness
-----------------------------------------------------------------------------
(* Properties *)

Stages == {"new", "identifying", "ready", "verifying", "refreshing", "serving", "closed"}

ReplayType ==
  /\ sequence \in Nat /\ ackedSequence \in Nat /\ replayFloor \in Nat
  /\ replay \in Seq(Nat) /\ Len(replay) <= ReplayLimit

ReadyType ==
  /\ registered \in BOOLEAN /\ initializing \in BOOLEAN /\ pendingOverflow \in BOOLEAN
  /\ pending \in Nat

BindingType ==
  /\ binding \in Conns \cup {None} /\ bindingEpoch \in Nat
  /\ detachedAt \in {"never", "recent", "old"}
  /\ epoch \in [Conns -> Nat] /\ send \in [Conns -> Seq(Nat)]
  /\ capacity \in [Conns -> Nat] /\ done \in [Conns -> BOOLEAN]
  /\ from \in [Conns -> Nat]

HandlerType ==
  /\ pc \in [Conns -> Stages] /\ current \in [Conns -> Conns \cup {None}]
  /\ \A c \in Conns : pc[c] = "serving" => current[c] # None
  /\ highest \in [Conns -> Nat]
  /\ draining \in {"no", "draining", "notified"}
  /\ removal \in [Removers -> {"idle", "check", "unbind", "delete"}]

\* The types of the session's state; the replay buffer never holds more than
\* ReplayLimit entries (appendDispatchLocked).
TypeOK == ReplayType /\ ReadyType /\ BindingType /\ HandlerType

Base == Larger(replayFloor, ackedSequence)

\* The replay buffer holds exactly the dispatches after the floor and after the
\* acknowledged prefix, in order and without a hole, up to the newest: whatever
\* sequence a RESUME is accepted from, everything after it is there.
ReplayWindow ==
  /\ Base <= sequence
  /\ Len(replay) = sequence - Base
  /\ \A i \in 1 .. Len(replay) : replay[i] = Base + i

\* Each binding has an epoch of its own and the current one has the newest.
EpochInv ==
  /\ \A c \in Conns : epoch[c] <= bindingEpoch
  /\ \A c, d \in Conns : epoch[c] = epoch[d] /\ epoch[c] > 0 => c = d
  /\ binding # None => epoch[binding] = bindingEpoch /\ bindingEpoch > 0
  /\ bindingEpoch = 0 => ackedSequence = 0

\* The session acknowledges only what was sent on the newest binding's stream
\* or was already behind the position that binding resumed from: a delayed or
\* repeated checkpoint or heartbeat of a replaced connection changes nothing.
AckedWasDelivered ==
  \A c \in Conns : bindingEpoch > 0 /\ epoch[c] = bindingEpoch =>
    ackedSequence <= Larger(from[c], highest[c])

\* Connection c serves its own binding, if any, and no other one has served it.
Sole(c) == \A d \in Conns : current[d] = c <=> d = c /\ current[c] # None

\* The dispatches among the first j frames of a queue; the others have no number.
Carried(q, j) == {q[i] : i \in 1 .. j} \ {0}

\* Every dispatch of queue q comes right after all those between it and position p.
Continues(q, p) ==
  \A j \in 1 .. Len(q) : q[j] # 0 => q[j] > p /\ Carried(q, j - 1) = p + 1 .. q[j] - 1

\* What a binding has queued continues what its stream has carried, or the
\* position it resumed from, without a hole or a repetition, and the current
\* binding's queue goes up to the newest dispatch; replay, RESUMED and live
\* events join seamlessly.  Of bindings served by their own connection alone.
StreamsContinue ==
  \A c \in Conns : epoch[c] > 0 /\ pc[c] # "closed" /\ Sole(c) =>
    LET position == Larger(from[c], highest[c])
    IN /\ Continues(send[c], position)
       /\ binding = c /\ ~initializing =>
            Carried(send[c], Len(send[c])) = position + 1 .. sequence

\* A queue never holds more than its channel: RESUME, which fills it with the
\* session's mutex held and nobody receiving yet, never blocks.
QueueFits == \A c \in Conns : Len(send[c]) <= capacity[c]

\* The current binding is open and is the newest; every other one is closed,
\* so the handler that serves it ends.
OneOpenBinding ==
  \A c \in Conns : epoch[c] > 0 => (done[c] <=> c # binding)

\* Both: a replaced handler ends, and never keeps its successor from being bound.
BindingsAreServed == OneOpenBinding /\ QueueFits

\* A session all of whose connections are gone is removed in the end, whatever
\* replaced, closed or removed it on the way (cleanupDetached, removeSession).
SessionEnds ==
  <>[](\A c \in Conns : pc[c] \in {"new", "closed"}) => <>[]~registered
=============================================================================
