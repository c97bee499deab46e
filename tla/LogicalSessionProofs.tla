----------------------- MODULE LogicalSessionProofs ------------------------
(***************************************************************************)
(* A logical session, for every set of connections and every queue size    *)
(* and replay limit, and the checkpoints that a Gateway sends it.          *)
(***************************************************************************)
EXTENDS LogicalSession, Checkpoints, SequenceTheorems, TLAPS

-----------------------------------------------------------------------------
(***************************************************************************)
(* The replay window and the types of a session.  They are established     *)
(* together: the prefix an acknowledgement covers is known to exist only   *)
(* because the window is an unbroken run.                                  *)
(***************************************************************************)

\* Larger and Smaller return one of their arguments, and bound both.
LEMMA LargerSmaller ==
  ASSUME NEW a \in Int, NEW b \in Int
  PROVE  /\ Larger(a, b) \in {a, b} /\ Larger(a, b) >= a /\ Larger(a, b) >= b
         /\ Smaller(a, b) \in {a, b} /\ Smaller(a, b) <= a /\ Smaller(a, b) <= b
  BY DEF Larger, Smaller

\* A run of n sequence numbers after s is a sequence of n naturals.
LEMMA RunType ==
  ASSUME NEW s \in Nat, NEW n \in Int
  PROVE  /\ [i \in 1 .. n |-> s + i] \in Seq(Nat)
         /\ Len([i \in 1 .. n |-> s + i]) = IF n > 0 THEN n ELSE 0
<1>1. CASE n > 0
  <2>1. [i \in 1 .. n |-> s + i] \in [1 .. n -> Nat] /\ n \in Nat
    BY <1>1
  <2> QED  BY <1>1, <2>1
<1>2. CASE ~(n > 0)
  <2> DEFINE f == [i \in 1 .. n |-> s + i]
  <2>1. f \in [1 .. 0 -> Nat]
    <3>1. 1 .. n = 1 .. 0
      BY <1>2
    <3>2. [i \in 1 .. 0 |-> s + i] \in [1 .. 0 -> Nat]
      OBVIOUS
    <3> QED  BY <3>1, <3>2, Zenon
  <2> HIDE DEF f
  <2>2. f \in Seq(Nat) /\ Len(f) = 0
    BY <2>1
  <2> QED  BY <1>2, <2>2, Zenon DEF f
<1> QED  BY <1>1, <1>2, Zenon

\* The suffix of a sequence of naturals after its first k entries.
LEMMA DropPrefix ==
  ASSUME NEW q \in Seq(Nat), NEW k \in 0 .. Len(q)
  PROVE  /\ SubSeq(q, k + 1, Len(q)) \in Seq(Nat)
         /\ Len(SubSeq(q, k + 1, Len(q))) = Len(q) - k
         /\ \A i \in 1 .. Len(q) - k : SubSeq(q, k + 1, Len(q))[i] = q[k + i]
<1>1. Len(q) \in Nat /\ k \in Nat /\ k <= Len(q)
  BY LenProperties
<1>2. \A i \in (k + 1) .. Len(q) : q[i] \in Nat
  BY <1>1, ElementOfSeq
<1>3. SubSeq(q, k + 1, Len(q)) \in Seq(Nat)
  BY <1>1, <1>2, SubSeqProperties
<1>4. Len(SubSeq(q, k + 1, Len(q))) = Len(q) - k
  BY <1>1, SubSeqProperties
<1>5. ASSUME NEW i \in 1 .. Len(q) - k
      PROVE  SubSeq(q, k + 1, Len(q))[i] = q[k + i]
  <2>1. i \in 1 .. (Len(q) - (k + 1) + 1) /\ (k + 1) + i - 1 = k + i
    BY <1>1
  <2> QED  BY <1>1, <2>1, SubSeqProperties
<1> QED  BY <1>3, <1>4, <1>5, Zenon

\* The loop of acknowledgeLocked stops: some prefix is exactly what q covers.
LEMMA CoveredExists ==
  ASSUME ReplayType, ReplayWindow, NEW q \in Nat
  PROVE  /\ Covered(q) \in 0 .. Len(replay)
         /\ \A i \in 1 .. Covered(q) : replay[i] <= q
         /\ Covered(q) < Len(replay) => replay[Covered(q) + 1] > q
<1> DEFINE P(k) == /\ \A i \in 1 .. k : replay[i] <= q
                   /\ k < Len(replay) => replay[k + 1] > q
<1>1. /\ Len(replay) \in Nat /\ Base \in Nat
      /\ \A i \in 1 .. Len(replay) : replay[i] = Base + i
  BY LenProperties, LargerSmaller, Zenon DEF ReplayType, ReplayWindow, Base, Larger
<1>2. \E k \in 0 .. Len(replay) : P(k)
  <2>1. CASE q <= Base
    <3>1. 0 \in 0 .. Len(replay) /\ P(0)
      BY <1>1, <2>1
    <3> QED  BY <3>1, Zenon
  <2>2. CASE q > Base /\ q - Base <= Len(replay)
    <3>1. PICK k \in Nat : Base + k = q
      BY <1>1, <2>2
    <3>2. k \in 0 .. Len(replay) /\ \A i \in 1 .. k : replay[i] <= q
      BY <1>1, <2>2, <3>1
    <3>3. k < Len(replay) => replay[k + 1] > q
      BY <1>1, <2>2, <3>1
    <3> QED  BY <3>2, <3>3, Zenon
  <2>3. CASE q > Base /\ q - Base > Len(replay)
    <3>1. Len(replay) \in 0 .. Len(replay) /\ P(Len(replay))
      BY <1>1, <2>3
    <3> QED  BY <3>1, Zenon
  <2> QED  BY <1>1, <2>1, <2>2, <2>3
<1>3. Covered(q) \in 0 .. Len(replay) /\ P(Covered(q))
  BY <1>2, Zenon DEF Covered
<1> QED  BY <1>3, Zenon

\* What RESUME replays and an acknowledgement keeps: the entries after the
\* covered ones.
LEMMA BeyondEntries ==
  ASSUME ReplayType, ReplayWindow, NEW q \in Nat
  PROVE  /\ Beyond(q) \in Seq(Nat)
         /\ Len(Beyond(q)) = Len(replay) - Covered(q)
         /\ \A i \in 1 .. Len(replay) - Covered(q) : Beyond(q)[i] = replay[Covered(q) + i]
  BY CoveredExists, DropPrefix, Zenon DEF Beyond, ReplayType

\* An acknowledgement of something dispatched moves the front of the window
\* and leaves no hole.
LEMMA AcknowledgeKeepsWindow ==
  ASSUME ReplayType, ReplayWindow, NEW q \in Nat, q <= sequence,
         acknowledgeLocked(q), UNCHANGED <<sequence, replayFloor>>
  PROVE  ReplayType' /\ ReplayWindow'
<1>0. /\ sequence \in Nat /\ ackedSequence \in Nat /\ replayFloor \in Nat
      /\ Len(replay) \in Nat /\ Len(replay) <= ReplayLimit /\ ReplayLimit \in Nat
      /\ Base \in Nat /\ Base <= sequence /\ Len(replay) = sequence - Base
      /\ \A i \in 1 .. Len(replay) : replay[i] = Base + i
      /\ Base = (IF replayFloor >= ackedSequence THEN replayFloor ELSE ackedSequence)
  BY LenProperties, SessionConstants, Zenon DEF ReplayType, ReplayWindow, Base, Larger
<1>1. CASE q <= ackedSequence
  <2>1. UNCHANGED <<sequence, ackedSequence, replay, replayFloor>>
    BY <1>1, Zenon DEF acknowledgeLocked
  <2> QED  BY <2>1, Zenon DEF ReplayType, ReplayWindow, Base, Larger
<1>2. CASE q > ackedSequence
  <2>1. ackedSequence' = q /\ replay' = Beyond(q)
    BY <1>0, <1>2 DEF acknowledgeLocked
  <2>2. PICK k \in 0 .. Len(replay) :
          /\ k = Covered(q)
          /\ \A i \in 1 .. k : replay[i] <= q
          /\ k < Len(replay) => replay[k + 1] > q
    BY CoveredExists, Zenon
  <2>3. /\ replay' \in Seq(Nat) /\ Len(replay') = Len(replay) - k
        /\ \A i \in 1 .. Len(replay) - k : replay'[i] = replay[k + i]
    BY <2>1, <2>2, BeyondEntries, Zenon
  <2>4. Base' = IF replayFloor >= q THEN replayFloor ELSE q
    BY <2>1, Zenon DEF Base, Larger
  <2>5. k > 0 => Base + k <= q
    BY <1>0, <2>2
  <2>6. k < Len(replay) => Base + k + 1 > q
    BY <1>0, <2>2
  <2>7. Base' = Base + k
    BY <1>0, <1>2, <2>4, <2>5, <2>6
  <2>8. ReplayType'
    BY <1>0, <2>1, <2>3 DEF ReplayType
  <2>9. Base' <= sequence' /\ Len(replay') = sequence' - Base'
    BY <1>0, <2>3, <2>7
  <2>10. ASSUME NEW i \in 1 .. Len(replay') PROVE replay'[i] = Base' + i
    BY <1>0, <2>3, <2>7
  <2> QED  BY <2>8, <2>9, <2>10, Zenon DEF ReplayWindow
<1> QED  BY <1>0, <1>1, <1>2

\* Appending n dispatches moves the back of the window, and its front when the
\* buffer is full, and leaves no hole.
LEMMA RetainKeepsWindow ==
  ASSUME ReplayType, ReplayWindow, NEW n \in Nat, Retain(n), UNCHANGED ackedSequence
  PROVE  ReplayType' /\ ReplayWindow'
<1>0. /\ sequence \in Nat /\ ackedSequence \in Nat /\ replayFloor \in Nat
      /\ replay \in Seq(Nat) /\ Len(replay) \in Nat /\ ReplayLimit \in Nat
      /\ Base \in Nat /\ Base <= sequence /\ Len(replay) = sequence - Base
      /\ \A i \in 1 .. Len(replay) : replay[i] = Base + i
      /\ Base = (IF replayFloor >= ackedSequence THEN replayFloor ELSE ackedSequence)
  BY LenProperties, SessionConstants, Zenon DEF ReplayType, ReplayWindow, Base, Larger
<1> DEFINE new == [i \in 1 .. n |-> sequence + i]
           all == replay \o new
           overflow == Larger(0, Len(all) - ReplayLimit)
<1>1. new \in Seq(Nat) /\ Len(new) = n /\ \A i \in 1 .. n : new[i] = sequence + i
  BY <1>0, RunType
<1>2. /\ sequence' = sequence + n
      /\ replay' = SubSeq(all, overflow + 1, Len(all))
      /\ replayFloor' = IF overflow > 0 THEN all[overflow] ELSE replayFloor
  BY Zenon DEF Retain
<1> HIDE DEF new
<1>3. /\ all \in Seq(Nat) /\ Len(all) = Len(replay) + n
      /\ \A i \in 1 .. Len(replay) + n :
           all[i] = IF i <= Len(replay) THEN replay[i] ELSE new[i - Len(replay)]
  BY <1>0, <1>1, ConcatProperties, Zenon
<1> HIDE DEF all
<1>4. ASSUME NEW i \in 1 .. Len(all) PROVE all[i] = Base + i
  <2>0. i \in 1 .. Len(replay) + n
    BY <1>3, Zenon
  <2>1. CASE i <= Len(replay)
    <3>1. all[i] = replay[i] /\ i \in 1 .. Len(replay)
      BY <1>0, <1>3, <2>0, <2>1
    <3> QED  BY <1>0, <3>1, Zenon
  <2>2. CASE i > Len(replay)
    <3>1. i - Len(replay) \in 1 .. n
      BY <1>0, <2>0, <2>2
    <3>2. all[i] = new[i - Len(replay)]
      <4>1. ~(i <= Len(replay))
        BY <1>0, <2>2
      <4> QED  BY <1>3, <2>0, <4>1, Zenon
    <3>3. all[i] = sequence + (i - Len(replay))
      BY <1>1, <3>1, <3>2, Zenon
    <3> QED  BY <1>0, <3>3
  <2> QED  BY <1>0, <2>1, <2>2
<1>5. PICK k \in 0 .. Len(all) :
        /\ k = overflow /\ Len(all) - k <= ReplayLimit
        /\ k > 0 => Len(all) - k = ReplayLimit
  <2>1. Len(all) \in Nat
    BY <1>0, <1>3
  <2>2. overflow = IF Len(all) > ReplayLimit THEN Len(all) - ReplayLimit ELSE 0
    BY <1>0, <2>1 DEF Larger
  <2> HIDE DEF overflow
  <2>3. /\ overflow \in 0 .. Len(all) /\ Len(all) - overflow <= ReplayLimit
        /\ overflow > 0 => Len(all) - overflow = ReplayLimit
    BY <1>0, <2>1, <2>2
  <2> QED  BY <2>3, Zenon
<1> HIDE DEF overflow
<1>6. /\ replay' \in Seq(Nat) /\ Len(replay') = Len(all) - k
      /\ \A i \in 1 .. Len(all) - k : replay'[i] = all[k + i]
  BY <1>2, <1>3, <1>5, DropPrefix, Zenon
<1>7. replayFloor' = IF k > 0 THEN Base + k ELSE replayFloor
  BY <1>2, <1>4, <1>5
<1>8. Base' = Base + k
  BY <1>0, <1>5, <1>7 DEF Base, Larger
<1>9. ReplayType'
  BY <1>0, <1>2, <1>3, <1>5, <1>6, <1>7 DEF ReplayType
<1>10. Base' <= sequence' /\ Len(replay') = sequence' - Base'
  BY <1>0, <1>2, <1>3, <1>5, <1>6, <1>8
<1>11. ASSUME NEW i \in 1 .. Len(replay') PROVE replay'[i] = Base' + i
  <2>1. i \in 1 .. Len(all) - k /\ k + i \in 1 .. Len(all)
    BY <1>0, <1>3, <1>5, <1>6
  <2> QED  BY <1>0, <1>4, <1>5, <1>6, <1>8, <2>1
<1> QED  BY <1>9, <1>10, <1>11, Zenon DEF ReplayWindow

Times == {"never", "recent", "old"}

\* Delivering keeps the types of the binding and its queues, and either keeps
\* the binding it delivers to or ends it.
LEMMA DeliverType ==
  ASSUME NEW n \in Nat, NEW b \in Conns \cup {None}, NEW q \in [Conns -> Seq(Nat)],
         NEW closed \in [Conns -> BOOLEAN], NEW at \in Times,
         sequence \in Nat, capacity' \in [Conns -> Nat], Deliver(n, b, q, closed, at)
  PROVE  /\ binding' \in {b, None} /\ send' \in [Conns -> Seq(Nat)]
         /\ done' \in [Conns -> BOOLEAN] /\ detachedAt' \in Times
<1>1. CASE b = None
  BY <1>1, Zenon DEF Deliver
<1>2. CASE b \in Conns
  <2>0. b # None
    BY <1>2, SessionConstants, Zenon
  <2> DEFINE sent == Smaller(n, capacity'[b] - Len(q[b]))
             run == [i \in 1 .. sent |-> sequence + i]
  <2>1. /\ send' = [q EXCEPT ![b] = @ \o run]
        /\ binding' = IF sent = n THEN b ELSE None
        /\ done' = IF sent = n THEN closed ELSE [closed EXCEPT ![b] = TRUE]
        /\ detachedAt' = IF sent = n THEN at ELSE "recent"
    BY <2>0, Zenon DEF Deliver
  <2>2. sent \in Int
    <3>1. capacity'[b] \in Nat /\ q[b] \in Seq(Nat)
      BY <1>2, Zenon
    <3>2. Len(q[b]) \in Nat
      BY <3>1, LenProperties, Zenon
    <3> QED  BY <3>1, <3>2 DEF Smaller
  <2> HIDE DEF sent
  <2>3. run \in Seq(Nat)
    BY <2>2, RunType, Zenon
  <2> HIDE DEF run
  <2>4. q[b] \o run \in Seq(Nat)
    BY <1>2, <2>3, ConcatProperties, Zenon
  <2>5. send' \in [Conns -> Seq(Nat)]
    BY <2>1, <2>4, Zenon
  <2>6. binding' \in {b, None} /\ detachedAt' \in Times
    BY <2>1, Zenon DEF Times
  <2>7. done' \in [Conns -> BOOLEAN]
    BY <2>1, Zenon
  <2> QED  BY <2>5, <2>6, <2>7, Zenon
<1> QED  BY <1>1, <1>2, Zenon

\* No step but an acknowledgement or a dispatch touches the replay window.
LEMMA WindowStep ==
  ASSUME TypeOK, ReplayWindow, [Next]_vars
  PROVE  ReplayType' /\ ReplayWindow'
<1>0. ReplayType /\ ReadyType /\ HandlerType
  BY Zenon DEF TypeOK
<1>frame. ASSUME UNCHANGED replayVars PROVE ReplayType' /\ ReplayWindow'
  BY <1>0, <1>frame, Zenon DEF ReplayType, ReplayWindow, Base, Larger, replayVars
<1>ack. ASSUME NEW q \in Nat, q <= sequence, acknowledgeLocked(q),
               UNCHANGED <<sequence, replayFloor>>
        PROVE  ReplayType' /\ ReplayWindow'
  BY <1>0, <1>ack, AcknowledgeKeepsWindow, Zenon
<1>app. ASSUME NEW n \in Nat, Retain(n), UNCHANGED ackedSequence
        PROVE  ReplayType' /\ ReplayWindow'
  BY <1>0, <1>app, RetainKeepsWindow, Zenon
<1>1. ASSUME NEW c \in Conns, ConnStep(c) PROVE ReplayType' /\ ReplayWindow'
  <2>1. CASE \/ Reject(c) \/ IdentifyAdd(c) \/ IdentifyFail(c) \/ ResumeLookup(c)
             \/ ResumeReject(c) \/ ResumeRefreshFails(c) \/ Attach(c) \/ Send(c)
             \/ SendFails(c) \/ Superseded(c)
    <3>1. UNCHANGED replayVars
      BY <2>1, Zenon DEF Reject, IdentifyAdd, IdentifyFail, ResumeLookup, ResumeReject,
           ResumeRefreshFails, Attach, Send, SendFails, Superseded, replayVars
    <3> QED  BY <3>1, <1>frame, Zenon
  <2>2. CASE IdentifyReady(c)
    <3>1. pending + 1 \in Nat /\ Retain(pending + 1) /\ UNCHANGED ackedSequence
      BY <1>0, <2>2 DEF IdentifyReady, ReadyType
    <3> QED  BY <3>1, <1>app, Zenon
  <2>3. ASSUME NEW r \in 0 .. sequence, ResumeBind(c, r)
        PROVE  ReplayType' /\ ReplayWindow'
    <3>1. 1 \in Nat /\ Retain(1) /\ UNCHANGED ackedSequence
      BY <2>3, Zenon DEF ResumeBind
    <3> QED  BY <3>1, <1>app, Zenon
  <2>4. ASSUME NEW resumable \in BOOLEAN, Close(c, resumable)
        PROVE  ReplayType' /\ ReplayWindow'
    <3>1. UNCHANGED replayVars
      BY <2>4, Zenon DEF Close, replayVars
    <3> QED  BY <3>1, <1>frame, Zenon
  <2>5. ASSUME NEW q \in 0 .. highest[c], Heartbeat(c, q)
        PROVE  ReplayType' /\ ReplayWindow'
    <3>0. q \in Nat /\ UNCHANGED <<sequence, replayFloor>>
      BY <1>0, <2>5 DEF Heartbeat, HandlerType
    <3>1. CASE binding = c /\ q <= sequence
      <4>1. acknowledgeLocked(q)
        BY <2>5, <3>1, Zenon DEF Heartbeat
      <4> QED  BY <3>0, <3>1, <4>1, <1>ack, Zenon
    <3>2. CASE ~(binding = c /\ q <= sequence)
      <4>1. UNCHANGED replayVars
        BY <2>5, <3>0, <3>2, Zenon DEF Heartbeat, replayVars
      <4> QED  BY <4>1, <1>frame, Zenon
    <3> QED  BY <3>1, <3>2, Zenon
  <2>6. ASSUME NEW q \in 0 .. highest[c], Checkpoint(c, q)
        PROVE  ReplayType' /\ ReplayWindow'
    <3>1. /\ q \in Nat /\ q <= sequence /\ acknowledgeLocked(q)
          /\ UNCHANGED <<sequence, replayFloor>>
      BY <1>0, <2>6 DEF Checkpoint, HandlerType
    <3> QED  BY <3>1, <1>ack, Zenon
  <2> QED  BY <1>1, <2>1, <2>2, <2>3, <2>4, <2>5, <2>6, Zenon DEF ConnStep
<1>2. ASSUME NEW large \in BOOLEAN, Dispatch(large) PROVE ReplayType' /\ ReplayWindow'
  <2>1. CASE initializing
    <3>1. UNCHANGED replayVars
      BY <1>2, <2>1, Zenon DEF Dispatch, replayVars
    <3> QED  BY <3>1, <1>frame, Zenon
  <2>2. CASE ~initializing
    <3>1. 1 \in Nat /\ Retain(1) /\ UNCHANGED ackedSequence
      BY <1>2, <2>2, Zenon DEF Dispatch
    <3> QED  BY <3>1, <1>app, Zenon
  <2> QED  BY <2>1, <2>2, Zenon
<1>3. CASE StartDrain \/ DrainNotify \/ ResumeTTLPasses \/ CleanupList \/ CleanupCheck
  <2>1. UNCHANGED replayVars
    BY <1>3, Zenon DEF StartDrain, DrainNotify, ResumeTTLPasses, CleanupList, CleanupCheck, replayVars
  <2> QED  BY <2>1, <1>frame, Zenon
<1>4. ASSUME NEW x \in Removers, RemoveUnbind(x) \/ RemoveDelete(x)
      PROVE  ReplayType' /\ ReplayWindow'
  <2>1. UNCHANGED replayVars
    BY <1>4, Zenon DEF RemoveUnbind, RemoveDelete, replayVars
  <2> QED  BY <2>1, <1>frame, Zenon
<1>5. CASE UNCHANGED vars
  <2>1. UNCHANGED replayVars
    BY <1>5, Zenon DEF vars, replayVars
  <2> QED  BY <2>1, <1>frame, Zenon
<1> QED  BY <1>1, <1>2, <1>3, <1>4, <1>5, Zenon DEF Next

\* detach keeps the types of the binding.
LEMMA DetachType ==
  ASSUME BindingType, NEW b \in Conns, detach(b)
  PROVE  /\ binding' \in Conns \cup {None} /\ detachedAt' \in Times
         /\ done' \in [Conns -> BOOLEAN]
<1>1. /\ binding \in Conns \cup {None} /\ detachedAt \in Times
      /\ done \in [Conns -> BOOLEAN]
  BY Zenon DEF BindingType, Times
<1>2. CASE binding = b
  <2>1. /\ binding' = None /\ detachedAt' = "recent" /\ done' = [done EXCEPT ![b] = TRUE]
    BY <1>2, Zenon DEF detach
  <2>2. done' \in [Conns -> BOOLEAN]
    BY <1>1, <2>1, Zenon
  <2> QED  BY <2>1, <2>2, Zenon DEF Times
<1>3. CASE binding # b
  <2>1. UNCHANGED <<binding, detachedAt, done>>
    BY <1>3, Zenon DEF detach
  <2> QED  BY <1>1, <2>1, Zenon
<1> QED  BY <1>2, <1>3, Zenon

\* Every step keeps the types of the READY buffer.
LEMMA ReadyStep ==
  ASSUME ReadyType, [Next]_vars
  PROVE  ReadyType'
<1>1. ASSUME NEW c \in Conns, ConnStep(c) PROVE ReadyType'
  <2>1. CASE IdentifyAdd(c)
    BY <2>1, Zenon DEF ReadyType, IdentifyAdd
  <2>2. CASE IdentifyReady(c)
    BY <2>2, Zenon DEF ReadyType, IdentifyReady
  <2>3. CASE ~IdentifyAdd(c) /\ ~IdentifyReady(c)
    <3>1. UNCHANGED <<registered, readyVars>>
      BY <1>1, <2>3, Zenon DEF ConnStep, Reject, IdentifyFail, ResumeLookup, ResumeReject,
           ResumeRefreshFails, ResumeBind, Attach, Send, SendFails, Superseded, Close,
           Heartbeat, Checkpoint
    <3> QED  BY <3>1, Zenon DEF ReadyType, readyVars
  <2> QED  BY <2>1, <2>2, <2>3, Zenon
<1>2. ASSUME NEW large \in BOOLEAN, Dispatch(large) PROVE ReadyType'
  <2>1. CASE initializing
    <3>1. /\ UNCHANGED <<registered, initializing>>
          /\ \/ pendingOverflow' = TRUE /\ pending' = 0
             \/ pendingOverflow' = pendingOverflow /\ pending' = pending + 1
      BY <1>2, <2>1, Zenon DEF Dispatch
    <3>2. pending' \in Nat
      BY <3>1 DEF ReadyType
    <3>3. pendingOverflow' \in BOOLEAN
      BY <3>1, Zenon DEF ReadyType
    <3> QED  BY <3>1, <3>2, <3>3, Zenon DEF ReadyType
  <2>2. CASE ~initializing
    BY <1>2, <2>2, Zenon DEF ReadyType, Dispatch
  <2> QED  BY <2>1, <2>2, Zenon
<1>3. CASE StartDrain \/ DrainNotify \/ ResumeTTLPasses \/ CleanupList \/ CleanupCheck
  BY <1>3, Zenon DEF ReadyType, StartDrain, DrainNotify, ResumeTTLPasses, CleanupList,
       CleanupCheck, readyVars
<1>4. ASSUME NEW x \in Removers, RemoveUnbind(x) \/ RemoveDelete(x) PROVE ReadyType'
  BY <1>4, Zenon DEF ReadyType, RemoveUnbind, RemoveDelete, readyVars
<1>5. CASE UNCHANGED vars
  BY <1>5, Zenon DEF ReadyType, vars, readyVars
<1> QED  BY <1>1, <1>2, <1>3, <1>4, <1>5, Zenon DEF Next

\* Every step keeps the types of the connection handlers.
LEMMA HandlerStep ==
  ASSUME TypeOK, [Next]_vars
  PROVE  HandlerType'
<1>0. HandlerType /\ BindingType /\ Janitor \notin Conns /\ None \notin Conns
  BY SessionConstants, Zenon DEF TypeOK
<1>1. ASSUME NEW c \in Conns, ConnStep(c) PROVE HandlerType'
  <2>1. CASE \/ Reject(c) \/ IdentifyAdd(c) \/ ResumeLookup(c) \/ ResumeReject(c)
             \/ ResumeRefreshFails(c) \/ Superseded(c) \/ SendFails(c) \/ IdentifyReady(c)
             \/ \E r \in 0 .. sequence : ResumeBind(c, r)
    <3>1. /\ UNCHANGED <<current, highest, draining, removal>>
          /\ \E s \in Stages \ {"serving"} : pc' = [pc EXCEPT ![c] = s]
      BY <2>1, Zenon DEF Reject, IdentifyAdd, ResumeLookup, ResumeReject, ResumeRefreshFails,
           Superseded, SendFails, IdentifyReady, ResumeBind, Stages
    <3> QED  BY <1>0, <3>1 DEF HandlerType
  <2>2. CASE IdentifyFail(c) \/ \E resumable \in BOOLEAN : Close(c, resumable)
    <3>1. /\ UNCHANGED <<current, highest, draining>>
          /\ pc' = [pc EXCEPT ![c] = "closed"]
          /\ removal' = removal \/ removal' = [removal EXCEPT ![c] = "unbind"]
      BY <2>2, Zenon DEF IdentifyFail, Close
    <3>2. removal' \in [Removers -> {"idle", "check", "unbind", "delete"}]
      BY <1>0, <3>1, Zenon DEF HandlerType, Removers
    <3> QED  BY <1>0, <3>1, <3>2, Zenon DEF HandlerType, Stages
  <2>3. CASE Attach(c)
    <3>1. /\ UNCHANGED <<highest, draining, removal>>
          /\ current' = [current EXCEPT ![c] = binding]
          /\ pc' = [pc EXCEPT ![c] = IF binding = None THEN "closed" ELSE "serving"]
      BY <2>3, Zenon DEF Attach
    <3>2. binding \in Conns \cup {None}
      BY <1>0, Zenon DEF BindingType
    <3> QED  BY <1>0, <3>1, <3>2, Zenon DEF HandlerType, Stages
  <2>4. CASE Send(c)
    <3>1. /\ UNCHANGED <<pc, current, draining, removal>>
          /\ highest' = [highest EXCEPT ![c] = Larger(highest[c], Head(send[current[c]]))]
          /\ current[c] \in Conns /\ send[current[c]] # << >>
      BY <1>0, <2>4, Zenon DEF Send, HandlerType
    <3>2. send[current[c]] \in Seq(Nat)
      BY <1>0, <3>1, Zenon DEF BindingType
    <3>3. Head(send[current[c]]) \in Nat /\ highest[c] \in Nat
      BY <1>0, <3>1, <3>2, HeadTailProperties, Zenon DEF HandlerType
    <3>4. Larger(highest[c], Head(send[current[c]])) \in Nat
      BY <3>3, Zenon DEF Larger
    <3> QED  BY <1>0, <3>1, <3>4, Zenon DEF HandlerType
  <2>5. ASSUME NEW q \in 0 .. highest[c], Heartbeat(c, q) PROVE HandlerType'
    <3>1. /\ UNCHANGED <<current, highest, draining, removal>>
          /\ pc' = pc \/ pc' = [pc EXCEPT ![c] = "closed"]
      BY <2>5, Zenon DEF Heartbeat
    <3> QED  BY <1>0, <3>1, Zenon DEF HandlerType, Stages
  <2>6. ASSUME NEW q \in 0 .. highest[c], Checkpoint(c, q) PROVE HandlerType'
    BY <1>0, <2>6, Zenon DEF Checkpoint, HandlerType, connVars
  <2> QED  BY <1>1, <2>1, <2>2, <2>3, <2>4, <2>5, <2>6, Zenon DEF ConnStep
<1>2. ASSUME NEW large \in BOOLEAN, Dispatch(large) PROVE HandlerType'
  BY <1>0, <1>2, Zenon DEF HandlerType, Dispatch, connVars
<1>3. CASE StartDrain \/ DrainNotify \/ ResumeTTLPasses
  BY <1>0, <1>3, Zenon DEF HandlerType, StartDrain, DrainNotify, ResumeTTLPasses, connVars
<1>4. CASE CleanupList \/ CleanupCheck
  <2>1. /\ UNCHANGED <<connVars, draining>>
        /\ \E s \in {"idle", "check", "unbind"} : removal' = [removal EXCEPT ![Janitor] = s]
    BY <1>4, Zenon DEF CleanupList, CleanupCheck
  <2> QED  BY <1>0, <2>1, Zenon DEF HandlerType, connVars, Removers
<1>5. ASSUME NEW x \in Removers, RemoveUnbind(x) \/ RemoveDelete(x) PROVE HandlerType'
  <2>1. /\ UNCHANGED <<connVars, draining>>
        /\ \E s \in {"idle", "delete"} : removal' = [removal EXCEPT ![x] = s]
    BY <1>5, Zenon DEF RemoveUnbind, RemoveDelete
  <2> QED  BY <1>0, <2>1, Zenon DEF HandlerType, connVars
<1>6. CASE UNCHANGED vars
  BY <1>0, <1>6, Zenon DEF HandlerType, vars, connVars
<1> QED  BY <1>1, <1>2, <1>3, <1>4, <1>5, <1>6, Zenon DEF Next

\* Every step keeps the types of the bindings and their queues.
LEMMA BindingStep ==
  ASSUME TypeOK, ReplayWindow, [Next]_vars
  PROVE  BindingType'
<1>0. ReplayType /\ ReadyType /\ BindingType /\ HandlerType
  BY Zenon DEF TypeOK
<1>a. /\ binding \in Conns \cup {None} /\ bindingEpoch \in Nat /\ detachedAt \in Times
      /\ epoch \in [Conns -> Nat] /\ send \in [Conns -> Seq(Nat)]
      /\ capacity \in [Conns -> Nat] /\ done \in [Conns -> BOOLEAN]
      /\ from \in [Conns -> Nat]
  BY <1>0, Zenon DEF BindingType, Times
<1>b. sequence \in Nat /\ pending \in Nat
  BY <1>0, Zenon DEF ReplayType, ReadyType
<1>c. QueueSize \in Nat /\ None \notin Conns
  BY SessionConstants, Zenon
<1>frame. ASSUME UNCHANGED <<bindVars, chanVars>> PROVE BindingType'
  BY <1>0, <1>frame, Zenon DEF BindingType, bindVars, chanVars
<1>kept. ASSUME UNCHANGED <<bindingEpoch, epoch, capacity, from>>,
                binding' \in Conns \cup {None}, detachedAt' \in Times,
                send' \in [Conns -> Seq(Nat)], done' \in [Conns -> BOOLEAN]
         PROVE  BindingType'
  BY <1>a, <1>kept, Zenon DEF BindingType, Times
<1>offer. ASSUME NEW b \in Conns, Offer(b) PROVE send' \in [Conns -> Seq(Nat)]
  <2>1. Append(send[b], 0) \in Seq(Nat)
    BY <1>a, AppendProperties, Zenon
  <2> QED  BY <1>a, <1>offer, <2>1, Zenon DEF Offer
<1>tail. ASSUME NEW b \in Conns, send[b] # << >>, send' = [send EXCEPT ![b] = Tail(@)]
         PROVE  send' \in [Conns -> Seq(Nat)]
  <2>1. Tail(send[b]) \in Seq(Nat)
    BY <1>a, <1>tail, HeadTailProperties, Zenon
  <2> QED  BY <1>a, <1>tail, <2>1, Zenon
<1>1. ASSUME NEW c \in Conns, ConnStep(c) PROVE BindingType'
  <2>1. CASE \/ Reject(c) \/ IdentifyFail(c) \/ ResumeLookup(c) \/ ResumeReject(c)
             \/ ResumeRefreshFails(c) \/ Attach(c) \/ Superseded(c)
             \/ \E q \in 0 .. highest[c] : Checkpoint(c, q)
    <3>1. UNCHANGED <<bindVars, chanVars>>
      BY <2>1, Zenon DEF Reject, IdentifyFail, ResumeLookup, ResumeReject, ResumeRefreshFails,
           Attach, Superseded, Checkpoint
    <3> QED  BY <3>1, <1>frame, Zenon
  <2>2. CASE IdentifyAdd(c)
    <3>1. /\ binding' = c /\ bindingEpoch' = 1
          /\ epoch' = [epoch EXCEPT ![c] = 1]
          /\ capacity' = [capacity EXCEPT ![c] = QueueSize]
          /\ UNCHANGED <<detachedAt, send, done, from>>
      BY <2>2, Zenon DEF IdentifyAdd
    <3> QED  BY <1>a, <1>c, <3>1, Zenon DEF BindingType, Times
  <2>3. CASE IdentifyReady(c)
    <3>1. /\ UNCHANGED <<bindingEpoch, epoch, capacity, from>>
          /\ pending + 1 \in Nat /\ Deliver(pending + 1, binding, send, done, detachedAt)
      BY <1>b, <2>3 DEF IdentifyReady
    <3>2. /\ binding' \in {binding, None} /\ send' \in [Conns -> Seq(Nat)]
          /\ done' \in [Conns -> BOOLEAN] /\ detachedAt' \in Times
      BY <1>a, <1>b, <3>1, DeliverType, Zenon
    <3> QED  BY <1>a, <3>1, <3>2, <1>kept, Zenon
  <2>4. ASSUME NEW r \in 0 .. sequence, ResumeBind(c, r) PROVE BindingType'
    <3> DEFINE q == [send EXCEPT ![c] = Beyond(r)]
               closed == [d \in Conns |-> done[d] \/ d = binding]
    <3>1. /\ bindingEpoch' = bindingEpoch + 1
          /\ epoch' = [epoch EXCEPT ![c] = bindingEpoch + 1]
          /\ capacity' = [capacity EXCEPT ![c] = ResumeCapacity(Len(Beyond(r)))]
          /\ from' = [from EXCEPT ![c] = r]
          /\ Deliver(1, c, q, closed, "never")
      BY <2>4, Zenon DEF ResumeBind
    <3>2. r \in Nat /\ Beyond(r) \in Seq(Nat)
      BY <1>0, <1>b, BeyondEntries
    <3>3. Len(Beyond(r)) \in Nat
      BY <3>2, LenProperties, Zenon
    <3>4. ResumeCapacity(Len(Beyond(r))) \in Nat
      BY <1>c, <3>3 DEF ResumeCapacity, Larger
    <3>5. capacity' \in [Conns -> Nat]
      BY <1>a, <3>1, <3>4, Zenon
    <3>6. q \in [Conns -> Seq(Nat)]
      BY <1>a, <3>2, Zenon
    <3>7. closed \in [Conns -> BOOLEAN]
      OBVIOUS
    <3> HIDE DEF q, closed
    <3>8. /\ binding' \in {c, None} /\ send' \in [Conns -> Seq(Nat)]
          /\ done' \in [Conns -> BOOLEAN] /\ detachedAt' \in Times
      BY <1>b, <3>1, <3>5, <3>6, <3>7, DeliverType, SMTT(20) DEF Times
    <3>9. /\ bindingEpoch' \in Nat /\ epoch' \in [Conns -> Nat]
          /\ from' \in [Conns -> Nat]
      BY <1>a, <1>b, <3>1, <3>2
    <3> QED  BY <3>5, <3>8, <3>9, Zenon DEF BindingType, Times
  <2>5. CASE Send(c) \/ SendFails(c)
    <3>0. /\ current[c] \in Conns /\ send[current[c]] # << >>
          /\ send' = [send EXCEPT ![current[c]] = Tail(@)]
          /\ UNCHANGED <<bindingEpoch, epoch, capacity, from>>
      BY <1>0, <2>5, Zenon DEF Send, SendFails, HandlerType, bindVars
    <3>1. send' \in [Conns -> Seq(Nat)]
      BY <3>0, <1>tail, Zenon
    <3>2. /\ binding' \in Conns \cup {None} /\ detachedAt' \in Times
          /\ done' \in [Conns -> BOOLEAN]
      <4>1. CASE Send(c)
        <5>1. UNCHANGED <<binding, detachedAt, done>>
          BY <4>1, Zenon DEF Send, bindVars
        <5> QED  BY <1>a, <5>1, Zenon
      <4>2. CASE SendFails(c)
        <5>1. detach(current[c])
          BY <4>2, Zenon DEF SendFails
        <5> QED  BY <1>0, <3>0, <5>1, DetachType, Zenon
      <4> QED  BY <2>5, <4>1, <4>2, Zenon
    <3> QED  BY <3>0, <3>1, <3>2, <1>kept, Zenon
  <2>6. ASSUME NEW resumable \in BOOLEAN, Close(c, resumable) PROVE BindingType'
    <3>1. /\ current[c] \in Conns /\ detach(current[c])
          /\ UNCHANGED <<bindingEpoch, epoch, send, capacity, from>>
      BY <1>0, <2>6, Zenon DEF Close, HandlerType
    <3>2. /\ binding' \in Conns \cup {None} /\ detachedAt' \in Times
          /\ done' \in [Conns -> BOOLEAN]
      BY <1>0, <3>1, DetachType, Zenon
    <3> QED  BY <1>a, <3>1, <3>2, <1>kept, Zenon
  <2>7. ASSUME NEW q \in 0 .. highest[c], Heartbeat(c, q) PROVE BindingType'
    <3>1. UNCHANGED <<bindingEpoch, epoch, capacity, from>>
      BY <2>7, Zenon DEF Heartbeat
    <3>2. CASE Offer(c) /\ UNCHANGED <<binding, detachedAt, done, pc>>
      <4>1. send' \in [Conns -> Seq(Nat)]
        BY <3>2, <1>offer, Zenon
      <4>2. UNCHANGED <<binding, detachedAt, done>>
        BY <3>2, Zenon
      <4> QED  BY <1>a, <3>1, <4>1, <4>2, <1>kept, Zenon
    <3>3. CASE detach(c) /\ send' = send
      <4>1. /\ binding' \in Conns \cup {None} /\ detachedAt' \in Times
            /\ done' \in [Conns -> BOOLEAN]
        BY <1>0, <3>3, DetachType, Zenon
      <4> QED  BY <1>a, <3>1, <3>3, <4>1, <1>kept, Zenon
    <3> QED  BY <2>7, <3>2, <3>3, Zenon DEF Heartbeat
  <2> QED  BY <1>1, <2>1, <2>2, <2>3, <2>4, <2>5, <2>6, <2>7, Zenon DEF ConnStep
<1>2. ASSUME NEW large \in BOOLEAN, Dispatch(large) PROVE BindingType'
  <2>1. UNCHANGED <<bindingEpoch, epoch, capacity, from>>
    BY <1>2, Zenon DEF Dispatch
  <2>2. CASE initializing
    <3>1. UNCHANGED <<binding, send, done, detachedAt>>
      BY <1>2, <2>2, Zenon DEF Dispatch
    <3> QED  BY <1>a, <2>1, <3>1, <1>kept, Zenon
  <2>3. CASE ~initializing
    <3>1. Deliver(1, binding, send, done, detachedAt)
      BY <1>2, <2>3, Zenon DEF Dispatch
    <3>2. /\ binding' \in {binding, None} /\ send' \in [Conns -> Seq(Nat)]
          /\ done' \in [Conns -> BOOLEAN] /\ detachedAt' \in Times
      BY <1>a, <1>b, <2>1, <3>1, DeliverType, Zenon
    <3> QED  BY <1>a, <2>1, <3>2, <1>kept, Zenon
  <2> QED  BY <2>2, <2>3, Zenon
<1>3. CASE StartDrain \/ CleanupList \/ CleanupCheck \/ UNCHANGED vars
         \/ \E x \in Removers : RemoveDelete(x)
  <2>1. UNCHANGED <<bindVars, chanVars>>
    BY <1>3, Zenon DEF StartDrain, CleanupList, CleanupCheck, RemoveDelete, vars
  <2> QED  BY <2>1, <1>frame, Zenon
<1>4. CASE DrainNotify
  <2>1. UNCHANGED <<binding, detachedAt, done, bindingEpoch, epoch, capacity, from>>
    BY <1>4, Zenon DEF DrainNotify, bindVars
  <2>2. send' \in [Conns -> Seq(Nat)]
    BY <1>4, <1>a, <1>offer, Zenon DEF DrainNotify
  <2> QED  BY <1>a, <2>1, <2>2, <1>kept, Zenon
<1>5. CASE ResumeTTLPasses
  <2>1. /\ UNCHANGED <<binding, send, done, bindingEpoch, epoch, capacity, from>>
        /\ detachedAt' \in Times
    BY <1>5, Zenon DEF ResumeTTLPasses, chanVars, Times
  <2> QED  BY <1>a, <2>1, <1>kept, Zenon
<1>6. ASSUME NEW x \in Removers, RemoveUnbind(x) PROVE BindingType'
  <2>1. /\ UNCHANGED <<detachedAt, send, bindingEpoch, epoch, capacity, from>>
        /\ binding' = None /\ done' = [c \in Conns |-> done[c] \/ c = binding]
    BY <1>6, Zenon DEF RemoveUnbind
  <2>2. done' \in [Conns -> BOOLEAN]
    BY <2>1, Zenon
  <2> QED  BY <1>a, <2>1, <2>2, <1>kept, Zenon
<1> QED  BY <1>1, <1>2, <1>3, <1>4, <1>5, <1>6, Zenon DEF Next

WindowInv == TypeOK /\ ReplayWindow

\* A new session's window is empty.
LEMMA WindowInit == Init => WindowInv
<1> SUFFICES ASSUME Init PROVE WindowInv
  OBVIOUS
<1>0. ReplayLimit \in Nat
  BY SessionConstants, Zenon
<1>1. ReplayType
  <2>1. << >> \in Seq(Nat) /\ Len(<< >>) = 0
    BY EmptySeq, Zenon
  <2> QED  BY <1>0, <2>1 DEF Init, ReplayType
<1>2. ReadyType
  BY Zenon DEF Init, ReadyType
<1>3. BindingType
  BY DEF Init, BindingType
<1>4. HandlerType
  BY Zenon DEF Init, HandlerType, Stages, Removers
<1>5. ReplayWindow
  BY DEF Init, ReplayWindow, Base, Larger
<1> QED  BY <1>1, <1>2, <1>3, <1>4, <1>5, Zenon DEF WindowInv, TypeOK

\* Every step keeps the types and the window.
LEMMA WindowInvStep == WindowInv /\ [Next]_vars => WindowInv'
<1> SUFFICES ASSUME WindowInv, [Next]_vars PROVE WindowInv'
  OBVIOUS
<1>1. TypeOK /\ ReplayWindow
  BY Zenon DEF WindowInv
<1>2. ReplayType' /\ ReplayWindow'
  BY <1>1, WindowStep, Zenon
<1>3. ReadyType' /\ HandlerType' /\ BindingType'
  BY <1>1, ReadyStep, HandlerStep, BindingStep, Zenon DEF TypeOK
<1> QED  BY <1>2, <1>3, Zenon DEF WindowInv, TypeOK

\* The replay buffer of a session (appendDispatchLocked, acknowledgeLocked) is
\* always the unbroken run of dispatches after the floor and the acknowledged
\* prefix, whatever connections, checkpoints, overflows and resumes come.
THEOREM ReplayWindowHolds == Spec => []ReplayWindow
<1>1. WindowInv => ReplayWindow
  BY Zenon DEF WindowInv
<1> QED  BY <1>1, WindowInit, WindowInvStep, PTL DEF Spec

\* The types of the session's state hold in every reachable state.
THEOREM SessionTypeCorrect == Spec => []TypeOK
<1>1. WindowInv => TypeOK
  BY Zenon DEF WindowInv
<1> QED  BY <1>1, WindowInit, WindowInvStep, PTL DEF Spec
-----------------------------------------------------------------------------
AckInv == EpochInv /\ AckedWasDelivered

\* What a step must leave alone for the acknowledged prefix to stay behind what
\* was delivered: only the binding may be dropped, and streams only advance.
LEMMA AckFrame ==
  ASSUME TypeOK, TypeOK', AckInv,
         UNCHANGED <<epoch, bindingEpoch, ackedSequence, from>>,
         binding' \in {binding, None}, \A c \in Conns : highest'[c] >= highest[c]
  PROVE  AckInv'
<1>1. EpochInv'
  BY Zenon DEF EpochInv, AckInv
<1>2. ASSUME NEW c \in Conns, bindingEpoch' > 0, epoch'[c] = bindingEpoch'
      PROVE  ackedSequence' <= Larger(from'[c], highest'[c])
  <2>1. ackedSequence <= Larger(from[c], highest[c])
    BY <1>2, Zenon DEF AckInv, AckedWasDelivered
  <2>2. /\ from[c] \in Nat /\ highest[c] \in Nat /\ highest'[c] \in Nat
        /\ ackedSequence \in Nat
    BY Zenon DEF TypeOK, ReplayType, BindingType, HandlerType
  <2> QED  BY <2>1, <2>2 DEF Larger
<1> QED  BY <1>1, <1>2, Zenon DEF AckInv, AckedWasDelivered

\* The newest binding's own connection acknowledges what its stream carried.
LEMMA AckAdvance ==
  ASSUME TypeOK, AckInv, NEW c \in Conns, NEW q \in 0 .. highest[c], binding = c,
         acknowledgeLocked(q),
         UNCHANGED <<epoch, bindingEpoch, from, highest>>, binding' \in {binding, None}
  PROVE  AckInv'
<1>0. /\ highest \in [Conns -> Nat] /\ from \in [Conns -> Nat] /\ ackedSequence \in Nat
      /\ epoch \in [Conns -> Nat] /\ bindingEpoch \in Nat /\ None \notin Conns
  BY SessionConstants, Zenon DEF TypeOK, ReplayType, BindingType, HandlerType
<1>1. epoch[c] = bindingEpoch /\ bindingEpoch > 0
  BY <1>0, Zenon DEF AckInv, EpochInv
<1>2. ackedSequence' = ackedSequence \/ ackedSequence' = q
  BY Zenon DEF acknowledgeLocked
<1>3. EpochInv'
  BY <1>0, <1>1 DEF EpochInv, AckInv
<1>4. ASSUME NEW d \in Conns, epoch[d] = bindingEpoch
      PROVE  ackedSequence' <= Larger(from[d], highest[d])
  <2>1. d = c
    BY <1>1, <1>4, Zenon DEF AckInv, EpochInv
  <2>2. ackedSequence <= Larger(from[d], highest[d])
    BY <1>1, <1>4, Zenon DEF AckInv, AckedWasDelivered
  <2>3. q <= highest[d] /\ q \in Nat /\ highest[d] \in Nat /\ from[d] \in Nat
    BY <1>0, <2>1
  <2> QED  BY <1>0, <1>2, <2>2, <2>3 DEF Larger
<1> QED  BY <1>3, <1>4, Zenon DEF AckInv, AckedWasDelivered

\* Every step keeps the acknowledged prefix behind what was delivered.
LEMMA AckStep ==
  ASSUME TypeOK, TypeOK', ReplayWindow, AckInv, [Next]_vars
  PROVE  AckInv'
<1>0. /\ highest \in [Conns -> Nat] /\ from \in [Conns -> Nat] /\ ackedSequence \in Nat
      /\ epoch \in [Conns -> Nat] /\ bindingEpoch \in Nat /\ None \notin Conns
      /\ highest' \in [Conns -> Nat]
  BY SessionConstants, Zenon DEF TypeOK, ReplayType, BindingType, HandlerType
<1>same. (highest' = highest) => \A c \in Conns : highest'[c] >= highest[c]
  BY <1>0
<1>detach. ASSUME NEW b \in Conns, detach(b) PROVE binding' \in {binding, None}
  BY <1>detach, Zenon DEF detach
<1>deliver. ASSUME NEW n \in Nat, Deliver(n, binding, send, done, detachedAt)
            PROVE  binding' \in {binding, None}
  BY <1>deliver, DeliverType, Zenon DEF TypeOK, BindingType, ReplayType, Times
<1>1. ASSUME NEW c \in Conns, ConnStep(c) PROVE AckInv'
  <2>1. CASE \/ Reject(c) \/ IdentifyFail(c) \/ ResumeLookup(c) \/ ResumeReject(c)
             \/ ResumeRefreshFails(c) \/ Attach(c) \/ Superseded(c)
    <3>1. UNCHANGED <<epoch, bindingEpoch, ackedSequence, from, highest, binding>>
      BY <2>1, Zenon DEF Reject, IdentifyFail, ResumeLookup, ResumeReject, ResumeRefreshFails,
           Attach, Superseded, bindVars, chanVars, replayVars
    <3> QED  BY <3>1, <1>same, AckFrame, Zenon
  <2>2. CASE IdentifyAdd(c)
    <3>1. /\ bindingEpoch = 0 /\ bindingEpoch' = 1 /\ binding' = c
          /\ epoch' = [epoch EXCEPT ![c] = 1]
          /\ UNCHANGED <<ackedSequence, from, highest>>
      BY <2>2, Zenon DEF IdentifyAdd, replayVars
    <3>2. ackedSequence = 0 /\ \A d \in Conns : epoch[d] = 0
      BY <1>0, <3>1 DEF AckInv, EpochInv
    <3>3. EpochInv'
      BY <1>0, <3>1, <3>2 DEF EpochInv
    <3>4. ASSUME NEW d \in Conns PROVE ackedSequence' <= Larger(from'[d], highest'[d])
      BY <1>0, <3>1, <3>2 DEF Larger
    <3> QED  BY <3>3, <3>4, Zenon DEF AckInv, AckedWasDelivered
  <2>3. CASE IdentifyReady(c)
    <3>1. /\ pending + 1 \in Nat /\ Deliver(pending + 1, binding, send, done, detachedAt)
          /\ UNCHANGED <<epoch, bindingEpoch, ackedSequence, from, highest, capacity>>
      BY <2>3 DEF IdentifyReady, TypeOK, ReadyType
    <3> QED  BY <3>1, <1>same, <1>deliver, AckFrame, Zenon
  <2>4. ASSUME NEW r \in 0 .. sequence, ResumeBind(c, r) PROVE AckInv'
    <3>1. /\ bindingEpoch' = bindingEpoch + 1
          /\ epoch' = [epoch EXCEPT ![c] = bindingEpoch + 1]
          /\ from' = [from EXCEPT ![c] = r]
          /\ r >= ackedSequence
          /\ UNCHANGED <<ackedSequence, highest>>
      BY <2>4, Zenon DEF ResumeBind, Resumable
    <3>2. binding' \in {c, None}
      BY <2>4, Zenon DEF ResumeBind, Deliver
    <3>3. EpochInv'
      <4>1. \A d \in Conns : epoch'[d] <= bindingEpoch'
        BY <1>0, <3>1 DEF AckInv, EpochInv
      <4>2. ASSUME NEW d \in Conns, NEW e \in Conns, epoch'[d] = epoch'[e], epoch'[d] > 0
            PROVE  d = e
        <5>1. epoch[d] <= bindingEpoch /\ epoch[e] <= bindingEpoch
          BY Zenon DEF AckInv, EpochInv
        <5>2. epoch[d] \in Nat /\ epoch[e] \in Nat
          BY <1>0, Zenon
        <5>3. CASE d = c /\ e # c
          BY <1>0, <3>1, <4>2, <5>1, <5>2, <5>3
        <5>4. CASE d # c /\ e = c
          BY <1>0, <3>1, <4>2, <5>1, <5>2, <5>4
        <5>5. CASE d # c /\ e # c
          <6>1. epoch[d] = epoch[e] /\ epoch[d] > 0
            BY <1>0, <3>1, <4>2, <5>5, Zenon
          <6> QED  BY <6>1, Zenon DEF AckInv, EpochInv
        <5> QED  BY <5>3, <5>4, <5>5, Zenon
      <4>3. binding' # None => epoch'[binding'] = bindingEpoch' /\ bindingEpoch' > 0
        BY <1>0, <3>1, <3>2
      <4>4. bindingEpoch' # 0
        BY <1>0, <3>1
      <4> QED  BY <4>1, <4>2, <4>3, <4>4, Zenon DEF EpochInv
    <3>4. ASSUME NEW d \in Conns, epoch'[d] = bindingEpoch'
          PROVE  ackedSequence' <= Larger(from'[d], highest'[d])
      <4>1. d = c
        BY <1>0, <3>1, <3>4 DEF AckInv, EpochInv
      <4>2. from'[d] = r /\ r \in Nat /\ highest'[d] \in Nat
        BY <1>0, <3>1, <4>1 DEF TypeOK, ReplayType
      <4> QED  BY <1>0, <3>1, <4>2 DEF Larger
    <3> QED  BY <3>3, <3>4, Zenon DEF AckInv, AckedWasDelivered
  <2>5. CASE Send(c)
    <3>1. /\ UNCHANGED <<epoch, bindingEpoch, ackedSequence, from, binding>>
          /\ highest' = [highest EXCEPT ![c] = Larger(highest[c], Head(send[current[c]]))]
          /\ current[c] \in Conns /\ send[current[c]] # << >>
      BY <2>5, Zenon DEF Send, bindVars, replayVars, TypeOK, HandlerType
    <3>2. send[current[c]] \in Seq(Nat)
      BY <3>1, Zenon DEF TypeOK, BindingType
    <3>3. Head(send[current[c]]) \in Nat
      BY <3>1, <3>2, HeadTailProperties, Zenon
    <3>4. \A d \in Conns : highest'[d] >= highest[d]
      BY <1>0, <3>1, <3>3 DEF Larger
    <3> QED  BY <3>1, <3>4, AckFrame, Zenon
  <2>6. CASE SendFails(c) \/ \E resumable \in BOOLEAN : Close(c, resumable)
    <3>1. /\ UNCHANGED <<epoch, bindingEpoch, ackedSequence, from, highest>>
          /\ current[c] \in Conns /\ detach(current[c])
      BY <2>6, Zenon DEF SendFails, Close, replayVars, TypeOK, HandlerType
    <3> QED  BY <3>1, <1>same, <1>detach, AckFrame, Zenon
  <2>7. ASSUME NEW q \in 0 .. highest[c], Heartbeat(c, q) PROVE AckInv'
    <3>1. /\ UNCHANGED <<epoch, bindingEpoch, from, highest>>
          /\ binding' \in {binding, None}
      BY <2>7, <1>detach, Zenon DEF Heartbeat
    <3>2. CASE binding = c /\ q <= sequence
      <4>1. acknowledgeLocked(q)
        BY <2>7, <3>2, Zenon DEF Heartbeat
      <4> QED  BY <3>1, <3>2, <4>1, AckAdvance, Zenon
    <3>3. CASE ~(binding = c /\ q <= sequence)
      <4>1. UNCHANGED ackedSequence
        BY <2>7, <3>3, Zenon DEF Heartbeat
      <4> QED  BY <3>1, <4>1, <1>same, AckFrame, Zenon
    <3> QED  BY <3>2, <3>3, Zenon
  <2>8. ASSUME NEW q \in 0 .. highest[c], Checkpoint(c, q) PROVE AckInv'
    <3>1. /\ UNCHANGED <<epoch, bindingEpoch, from, highest, binding>>
          /\ binding = c /\ acknowledgeLocked(q)
      BY <2>8, Zenon DEF Checkpoint, Matches, bindVars, chanVars, connVars
    <3> QED  BY <3>1, AckAdvance, Zenon
  <2> QED  BY <1>1, <2>1, <2>2, <2>3, <2>4, <2>5, <2>6, <2>7, <2>8, Zenon DEF ConnStep
<1>2. ASSUME NEW large \in BOOLEAN, Dispatch(large) PROVE AckInv'
  <2>1. UNCHANGED <<epoch, bindingEpoch, ackedSequence, from, highest, capacity>>
    BY <1>2, Zenon DEF Dispatch, replayVars, connVars
  <2>2. binding' \in {binding, None}
    <3>1. CASE initializing
      BY <1>2, <3>1, Zenon DEF Dispatch
    <3>2. CASE ~initializing
      <4>1. Deliver(1, binding, send, done, detachedAt)
        BY <1>2, <3>2, Zenon DEF Dispatch
      <4> QED  BY <4>1, <2>1, <1>deliver, Zenon
    <3> QED  BY <3>1, <3>2, Zenon
  <2> QED  BY <2>1, <2>2, <1>same, AckFrame, Zenon
<1>3. CASE StartDrain \/ DrainNotify \/ ResumeTTLPasses \/ CleanupList \/ CleanupCheck
           \/ UNCHANGED vars
  <2>1. UNCHANGED <<epoch, bindingEpoch, ackedSequence, from, highest, binding>>
    BY <1>3, Zenon DEF StartDrain, DrainNotify, ResumeTTLPasses, CleanupList, CleanupCheck, vars,
         bindVars, chanVars, connVars, replayVars
  <2> QED  BY <2>1, <1>same, AckFrame, Zenon
<1>4. ASSUME NEW x \in Removers, RemoveUnbind(x) \/ RemoveDelete(x) PROVE AckInv'
  <2>1. /\ UNCHANGED <<epoch, bindingEpoch, ackedSequence, from, highest>>
        /\ binding' \in {binding, None}
    BY <1>4, Zenon DEF RemoveUnbind, RemoveDelete, bindVars, chanVars, connVars, replayVars
  <2> QED  BY <2>1, <1>same, AckFrame, Zenon
<1> QED  BY <1>1, <1>2, <1>3, <1>4, Zenon DEF Next

\* SyncGatewayConnections and heartbeat never acknowledge, on behalf of a
\* replaced connection, what the newest binding's stream has not carried.
THEOREM StaleCheckpointsAreHarmless == Spec => []AckedWasDelivered
<1>1. Init => WindowInv /\ AckInv
  <2>1. Init => AckInv
    BY DEF Init, AckInv, EpochInv, AckedWasDelivered
  <2> QED  BY <2>1, WindowInit, Zenon
<1>2. WindowInv /\ AckInv /\ [Next]_vars => (WindowInv /\ AckInv)'
  <2> SUFFICES ASSUME WindowInv, AckInv, [Next]_vars PROVE WindowInv' /\ AckInv'
    OBVIOUS
  <2>1. WindowInv'
    BY WindowInvStep, Zenon
  <2> QED  BY <2>1, AckStep, Zenon DEF WindowInv
<1>3. AckInv => AckedWasDelivered
  BY Zenon DEF AckInv
<1> QED  BY <1>1, <1>2, <1>3, PTL DEF Spec

-----------------------------------------------------------------------------
(***************************************************************************)
(* Bindings and streams.  A connection creates at most one binding and     *)
(* serves none before that (ConnStages), nothing is dispatched before      *)
(* READY (SessionStages), and no frame is ahead of the session             *)
(* (FramesWithin): so RESUME starts from an empty stream, READY from an    *)
(* empty queue, and every later frame is the next one.                     *)
(***************************************************************************)

\* Handlers that serve no binding yet.
Unserved == {"new", "verifying", "identifying", "ready", "refreshing"}

\* How far the session has come: nothing is dispatched before READY, and only a
\* session that has dispatched something can be resumed (identify, resume).
SessionStages ==
  /\ bindingEpoch = 0 => sequence = 0 /\ ~registered
  /\ initializing => sequence = 0
  /\ \A c \in Conns : pc[c] = "identifying" => initializing /\ epoch[c] = 1
  /\ \A c \in Conns : pc[c] = "verifying" => sequence > 0

\* How far each connection has come: a binding is created once, and served only
\* after it was created.
ConnStage(c) ==
  /\ pc[c] \in {"new", "verifying"} => epoch[c] = 0
  /\ pc[c] \in Unserved => current[c] = None
  /\ current[c] = None => highest[c] = 0
  /\ current[c] # None => epoch[current[c]] > 0
  /\ epoch[c] = 0 => ~done[c] /\ send[c] = << >>
ConnStages == \A c \in Conns : ConnStage(c)

\* No frame, stream or resume position is ahead of the session.
Within(c) ==
  /\ from[c] <= sequence /\ highest[c] <= sequence
  /\ \A i \in 1 .. Len(send[c]) : send[c][i] <= sequence
FramesWithin == \A c \in Conns : Within(c)

-----------------------------------------------------------------------------

\* A frame without a number leaves the dispatches of a queue as they are.
LEMMA ContinuesOffer ==
  ASSUME NEW q \in Seq(Nat), NEW p \in Nat, Continues(q, p)
  PROVE  /\ Continues(Append(q, 0), p)
         /\ Carried(Append(q, 0), Len(Append(q, 0))) = Carried(q, Len(q))
<1> DEFINE r == Append(q, 0)
<1>1. Len(q) \in Nat /\ Len(r) = Len(q) + 1 /\ r[Len(q) + 1] = 0
  BY LenProperties, AppendProperties
<1>2. \A i \in 1 .. Len(q) : r[i] = q[i]
  BY AppendProperties
<1> HIDE DEF r
<1>3. ASSUME NEW j \in 0 .. Len(q) PROVE Carried(r, j) = Carried(q, j)
  <2>1. \A i \in 1 .. j : r[i] = q[i]
    BY <1>1, <1>2
  <2> QED  BY <2>1, Zenon DEF Carried
<1>4. Continues(r, p)
  <2> SUFFICES ASSUME NEW j \in 1 .. Len(r), r[j] # 0
               PROVE  r[j] > p /\ Carried(r, j - 1) = p + 1 .. r[j] - 1
    BY Zenon DEF Continues
  <2>1. j \in 1 .. Len(q) /\ j - 1 \in 0 .. Len(q)
    BY <1>1
  <2> QED  BY <1>2, <1>3, <2>1, Zenon DEF Continues
<1>5. Carried(r, Len(r)) = Carried(q, Len(q))
  <2>1. Carried(q, Len(q)) = Carried(r, Len(q))
    BY <1>1, <1>3
  <2>2. 1 .. Len(r) = 1 .. Len(q) \cup {Len(q) + 1}
    BY <1>1
  <2> QED  BY <1>1, <2>1, <2>2, Zenon DEF Carried
<1> QED  BY <1>4, <1>5, Zenon DEF r

\* Adjacent intervals join, and an interval without its least number is one.
LEMMA IntervalFacts ==
  ASSUME NEW p \in Nat, NEW e \in Int
  PROVE  /\ \A j \in Nat : p <= e => (p + 1 .. e) \cup (e + 1 .. e + j) = p + 1 .. e + j
         /\ (p + 1 .. e) \ {p + 1} = (p + 1) + 1 .. e
<1>1. ASSUME NEW j \in Nat, p <= e
      PROVE  (p + 1 .. e) \cup (e + 1 .. e + j) = p + 1 .. e + j
  <2>1. ASSUME NEW n \in Int
        PROVE  n \in (p + 1 .. e) \cup (e + 1 .. e + j) <=> n \in p + 1 .. e + j
    BY <1>1
  <2>2. /\ (p + 1 .. e) \cup (e + 1 .. e + j) \subseteq Int
        /\ p + 1 .. e + j \subseteq Int
    OBVIOUS
  <2> QED  BY <2>1, <2>2, Zenon
<1>2. (p + 1 .. e) \ {p + 1} = (p + 1) + 1 .. e
  OBVIOUS
<1> QED  BY <1>1, <1>2, Zenon

\* A run of new dispatches continues a queue that goes up to the newest one.
LEMMA ContinuesRun ==
  ASSUME NEW q \in Seq(Nat), NEW p \in Nat, NEW e \in Nat, p <= e, NEW k \in Nat,
         Continues(q, p), Carried(q, Len(q)) = p + 1 .. e
  PROVE  LET r == q \o [i \in 1 .. k |-> e + i]
         IN  Continues(r, p) /\ Carried(r, Len(r)) = p + 1 .. e + k
<1> DEFINE run == [i \in 1 .. k |-> e + i]
           r == q \o run
<1>1. run \in Seq(Nat) /\ Len(run) = k /\ \A i \in 1 .. k : run[i] = e + i
  <2>1. Len(run) = IF k > 0 THEN k ELSE 0
    BY RunType
  <2>2. run \in Seq(Nat)
    BY RunType
  <2>3. \A i \in 1 .. k : run[i] = e + i
    OBVIOUS
  <2> QED  BY <2>1, <2>2, <2>3
<1> HIDE DEF run
<1>2. /\ Len(q) \in Nat /\ Len(r) = Len(q) + k
      /\ \A i \in 1 .. Len(q) + k : r[i] = IF i <= Len(q) THEN q[i] ELSE run[i - Len(q)]
  BY <1>1, LenProperties, ConcatProperties, Zenon
<1> HIDE DEF r
<1>3. \A i \in 1 .. Len(q) : r[i] = q[i]
  BY <1>2
<1>4. ASSUME NEW i \in Len(q) + 1 .. Len(q) + k PROVE r[i] = e + (i - Len(q))
  <2>1. i - Len(q) \in 1 .. k /\ i \in 1 .. Len(q) + k /\ ~(i <= Len(q))
    BY <1>2
  <2> QED  BY <1>1, <1>2, <2>1, Zenon
<1>5. ASSUME NEW j \in 0 .. Len(q) PROVE Carried(r, j) = Carried(q, j)
  <2>1. \A i \in 1 .. j : r[i] = q[i]
    BY <1>2, <1>3
  <2> QED  BY <2>1, Zenon DEF Carried
<1>6. ASSUME NEW j \in 0 .. k PROVE Carried(r, Len(q) + j) = p + 1 .. e + j
  <2>1. Carried(r, Len(q)) = p + 1 .. e
    BY <1>2, <1>5
  <2>2. Carried(r, Len(q) + j) = Carried(r, Len(q)) \cup (e + 1 .. e + j)
    <3>1. ASSUME NEW n \in Carried(r, Len(q) + j)
          PROVE  n \in Carried(r, Len(q)) \cup (e + 1 .. e + j)
      <4>1. PICK i \in 1 .. Len(q) + j : n = r[i] /\ n # 0
        BY <3>1, Zenon DEF Carried
      <4>2. CASE i <= Len(q)
        BY <1>2, <4>1, <4>2 DEF Carried
      <4>3. CASE ~(i <= Len(q))
        <5>1. i \in Len(q) + 1 .. Len(q) + k /\ i - Len(q) \in 1 .. j
          BY <1>2, <4>3
        <5> QED  BY <1>4, <4>1, <5>1
      <4> QED  BY <4>2, <4>3, Zenon
    <3>2. ASSUME NEW n \in Carried(r, Len(q)) PROVE n \in Carried(r, Len(q) + j)
      <4>1. PICK i \in 1 .. Len(q) : n = r[i] /\ n # 0
        BY <3>2, Zenon DEF Carried
      <4>2. i \in 1 .. Len(q) + j
        BY <1>2
      <4> QED  BY <4>1, <4>2, Zenon DEF Carried
    <3>3. ASSUME NEW n \in e + 1 .. e + j PROVE n \in Carried(r, Len(q) + j)
      <4> DEFINE i == Len(q) + (n - e)
      <4>1. Len(q) \in Nat /\ n \in Nat /\ j \in Nat /\ e + 1 <= n /\ n <= e + j /\ j <= k
        BY <1>2
      <4>2. i \in Len(q) + 1 .. Len(q) + k /\ i \in 1 .. Len(q) + j
        BY <4>1
      <4>3. e + (i - Len(q)) = n /\ n # 0
        BY <4>1
      <4> HIDE DEF i
      <4>4. r[i] = n
        BY <1>4, <4>2, <4>3, Zenon
      <4> QED  BY <4>2, <4>3, <4>4, Zenon DEF Carried
    <3> QED  BY <3>1, <3>2, <3>3, Zenon
  <2>3. (p + 1 .. e) \cup (e + 1 .. e + j) = p + 1 .. e + j
    BY IntervalFacts
  <2> QED  BY <2>1, <2>2, <2>3, Zenon
<1>7. Continues(r, p)
  <2> SUFFICES ASSUME NEW j \in 1 .. Len(r), r[j] # 0
               PROVE  r[j] > p /\ Carried(r, j - 1) = p + 1 .. r[j] - 1
    BY Zenon DEF Continues
  <2>1. CASE j <= Len(q)
    <3>1. j \in 1 .. Len(q) /\ j - 1 \in 0 .. Len(q)
      BY <1>2, <2>1
    <3> QED  BY <1>3, <1>5, <3>1, Zenon DEF Continues
  <2>2. CASE ~(j <= Len(q))
    <3> DEFINE m == j - 1 - Len(q)
    <3>1. Len(q) \in Nat /\ j \in Nat /\ j <= Len(q) + k
      BY <1>2
    <3>2. /\ m \in 0 .. k /\ j \in Len(q) + 1 .. Len(q) + k
          /\ j - 1 = Len(q) + m /\ j - Len(q) = m + 1
      BY <2>2, <3>1
    <3> HIDE DEF m
    <3>3. r[j] = e + (m + 1)
      BY <1>4, <3>2, Zenon
    <3>4. Carried(r, j - 1) = p + 1 .. e + m
      BY <1>6, <3>2, Zenon
    <3>5. m \in Nat
      BY <3>2
    <3>6. (e + (m + 1)) - 1 = e + m /\ e + (m + 1) > p
      BY <3>5
    <3> QED  BY <3>3, <3>4, <3>6, Zenon
  <2> QED  BY <2>1, <2>2, Zenon
<1>8. Carried(r, Len(r)) = p + 1 .. e + k
  BY <1>2, <1>6
<1> QED  BY <1>7, <1>8, Zenon DEF r, run

\* Sending the first frame of a queue moves the position of the stream to it,
\* and the rest of the queue continues that.
LEMMA ContinuesTail ==
  ASSUME NEW q \in Seq(Nat), q # << >>, NEW p \in Nat, Continues(q, p)
  PROVE  LET n == Larger(p, Head(q))
         IN  /\ Continues(Tail(q), n)
             /\ \A e \in Nat : Carried(q, Len(q)) = p + 1 .. e
                  => Carried(Tail(q), Len(Tail(q))) = n + 1 .. e
<1> DEFINE r == Tail(q)
           h == Head(q)
           n == Larger(p, h)
<1>1. Len(q) \in Nat /\ Len(q) # 0 /\ h = q[1] /\ h \in Nat
  <2>1. Len(q) \in Nat /\ Len(q) # 0
    BY LenProperties, EmptySeq, Zenon
  <2>2. Head(q) \in Nat
    BY HeadTailProperties, Zenon
  <2>3. Head(q) = q[1]
    OBVIOUS
  <2> QED  BY <2>1, <2>2, <2>3, Zenon
<1>2. r \in Seq(Nat) /\ Len(r) = Len(q) - 1 /\ \A i \in 1 .. Len(r) : r[i] = q[i + 1]
  BY HeadTailProperties, Zenon
<1> HIDE DEF r, h
<1>3. h # 0 => h = p + 1 /\ h > p
  <2> SUFFICES ASSUME h # 0 PROVE h = p + 1 /\ h > p
    OBVIOUS
  <2>1. h > p /\ Carried(q, 1 - 1) = p + 1 .. h - 1
    BY <1>1 DEF Continues
  <2>2. Carried(q, 1 - 1) = {}
    BY DEF Carried
  <2>3. p + 1 \notin p + 1 .. h - 1
    BY <2>1, <2>2, Zenon
  <2> QED  BY <1>1, <2>1, <2>3
<1>4. n = IF h = 0 THEN p ELSE h
  BY <1>1, <1>3 DEF Larger
<1> HIDE DEF n
<1>5. ASSUME NEW i \in 1 .. Len(r), r[i] # 0, h # 0 PROVE r[i] > h
  <2>1. i + 1 \in 1 .. Len(q) /\ q[i + 1] = r[i] /\ (i + 1) - 1 = i
    BY <1>1, <1>2
  <2>2. Carried(q, i) = p + 1 .. r[i] - 1
    BY <1>5, <2>1, Zenon DEF Continues
  <2>3. h \in Carried(q, i)
    BY <1>1, <1>5 DEF Carried
  <2>4. r[i] \in Nat
    BY <1>2, ElementOfSeq, Zenon
  <2> QED  BY <1>1, <2>2, <2>3, <2>4
<1>6. ASSUME NEW j \in 0 .. Len(r) PROVE Carried(r, j) = Carried(q, j + 1) \ {h}
  <2>1. ASSUME NEW m \in Carried(r, j) PROVE m \in Carried(q, j + 1) \ {h}
    <3>1. PICK i \in 1 .. j : m = r[i] /\ m # 0
      BY <2>1, Zenon DEF Carried
    <3>a. Len(r) \in Nat
      BY <1>1, <1>2
    <3>b. i + 1 \in 1 .. j + 1 /\ i \in 1 .. Len(r)
      BY <3>a
    <3>2. i + 1 \in 1 .. j + 1 /\ i \in 1 .. Len(r) /\ m = q[i + 1]
      BY <1>2, <3>1, <3>b, Zenon
    <3>3. m # h
      <4>1. r[i] \in Nat
        BY <1>2, <3>2, ElementOfSeq, Zenon
      <4>2. h # 0 => r[i] > h
        BY <1>5, <3>1, <3>2, Zenon
      <4> QED  BY <1>1, <3>1, <4>1, <4>2
    <3> QED  BY <3>1, <3>2, <3>3, Zenon DEF Carried
  <2>2. ASSUME NEW m \in Carried(q, j + 1) \ {h} PROVE m \in Carried(r, j)
    <3>1. PICK i \in 1 .. j + 1 : m = q[i] /\ m # 0 /\ m # h
      BY <2>2, Zenon DEF Carried
    <3>2. i # 1
      BY <1>1, <3>1, Zenon
    <3>3. PICK l \in 1 .. j : l = i - 1
      BY <1>2, <3>2
    <3>4. l \in 1 .. Len(r) /\ r[l] = q[i]
      BY <1>1, <1>2, <3>3, SMTT(20)
    <3> QED  BY <3>1, <3>4, Zenon DEF Carried
  <2> QED  BY <2>1, <2>2, Zenon
<1>7. Continues(r, n)
  <2> SUFFICES ASSUME NEW j \in 1 .. Len(r), r[j] # 0
               PROVE  r[j] > n /\ Carried(r, j - 1) = n + 1 .. r[j] - 1
    BY Zenon DEF Continues
  <2>1. j + 1 \in 1 .. Len(q) /\ q[j + 1] = r[j] /\ (j + 1) - 1 = j /\ r[j] \in Nat
    BY <1>1, <1>2, ElementOfSeq, SMTT(20)
  <2>2. r[j] > p /\ Carried(q, j) = p + 1 .. r[j] - 1
    BY <2>1, Zenon DEF Continues
  <2>3. j - 1 \in 0 .. Len(r) /\ (j - 1) + 1 = j
    BY <1>1, <1>2
  <2>4. Carried(r, j - 1) = (p + 1 .. r[j] - 1) \ {h}
    BY <1>6, <2>2, <2>3, Zenon
  <2>5. CASE h = 0
    <3>1. n = p
      BY <1>4, <2>5, Zenon
    <3>2. (p + 1 .. r[j] - 1) \ {0} = p + 1 .. r[j] - 1
      BY <2>1
    <3> QED  BY <2>2, <2>4, <2>5, <3>1, <3>2, Zenon
  <2>6. CASE h # 0
    <3>1. r[j] > h
      BY <1>5, <2>6, Zenon
    <3>2. n = h /\ h = p + 1
      BY <1>3, <1>4, <2>6, Zenon
    <3>3. (p + 1 .. r[j] - 1) \ {p + 1} = (p + 1) + 1 .. r[j] - 1
      BY <2>1, IntervalFacts
    <3> QED  BY <2>4, <3>1, <3>2, <3>3, Zenon
  <2> QED  BY <2>5, <2>6, Zenon
<1>8. ASSUME NEW e \in Nat, Carried(q, Len(q)) = p + 1 .. e
      PROVE  Carried(r, Len(r)) = n + 1 .. e
  <2>1. Len(r) \in 0 .. Len(r) /\ Len(r) + 1 = Len(q)
    BY <1>1, <1>2
  <2>2. Carried(r, Len(r)) = (p + 1 .. e) \ {h}
    BY <1>6, <1>8, <2>1, Zenon
  <2>3. CASE h = 0
    BY <1>4, <2>2, <2>3
  <2>4. CASE h # 0
    BY <1>1, <1>3, <1>4, <2>2, <2>4
  <2> QED  BY <2>3, <2>4, Zenon
<1> QED  BY <1>7, <1>8, Zenon DEF r, h, n
-----------------------------------------------------------------------------
\* What the steps of a session do to its streams, the other variables left out.
OnlyCloses == \A c \in Conns : pc'[c] \in {pc[c], "closed"}
Kept == UNCHANGED <<registered, initializing, sequence, bindingEpoch, epoch, capacity, from,
                    current, highest>>

\* At most a handler ends or the session leaves the node's maps.
Quiet ==
  /\ UNCHANGED <<initializing, sequence, bindingEpoch, epoch, capacity, from, current,
                 highest, binding, send, done>>
  /\ registered' => registered
  /\ OnlyCloses

\* The current binding is ended.
Unbinds ==
  /\ Kept /\ OnlyCloses /\ send' = send
  /\ binding \in Conns /\ binding' = None /\ done' = [done EXCEPT ![binding] = TRUE]

\* The current binding is offered a frame without a number, and has room for it.
Offers ==
  /\ Kept /\ UNCHANGED <<pc, binding, done>>
  /\ binding \in Conns /\ Len(send[binding]) < capacity[binding]
  /\ send' = [send EXCEPT ![binding] = Append(@, 0)]

\* An event is dispatched to a session that is ready.
Live ==
  /\ UNCHANGED <<registered, initializing, bindingEpoch, epoch, capacity, from, current,
                 highest, pc>>
  /\ registered /\ ~initializing
  /\ sequence' = sequence + 1
  /\ Deliver(1, binding, send, done, detachedAt)

ConnMoves(c) ==
  \/ IdentifyAdd(c) \/ IdentifyReady(c) \/ ResumeLookup(c) \/ Attach(c) \/ Send(c)
  \/ SendFails(c) \/ \E r \in 0 .. sequence : ResumeBind(c, r)

\* detach ends the current binding or does nothing.
LEMMA DetachMoves ==
  ASSUME BindingType, NEW b \in Conns, detach(b), Kept, OnlyCloses, send' = send
  PROVE  Quiet \/ Unbinds
<1>1. CASE binding = b
  BY <1>1, Zenon DEF detach, Unbinds
<1>2. CASE binding # b
  BY <1>2, Zenon DEF detach, Quiet, Kept
<1> QED  BY <1>1, <1>2, Zenon

\* Every step is one of those.
LEMMA StreamMoves ==
  ASSUME TypeOK, [Next]_vars
  PROVE  \/ Quiet \/ Unbinds \/ Offers \/ Live
         \/ \E c \in Conns : ConnMoves(c)
<1>0. /\ BindingType /\ pc \in [Conns -> Stages] /\ binding \in Conns \cup {None}
      /\ \A c \in Conns : pc[c] = "serving" => current[c] \in Conns
      /\ done \in [Conns -> BOOLEAN] /\ None \notin Conns
  BY SessionConstants, Zenon DEF TypeOK, BindingType, HandlerType
<1>same. (pc' = pc) => OnlyCloses
  BY Zenon DEF OnlyCloses
<1>close. ASSUME NEW c \in Conns, pc' = [pc EXCEPT ![c] = "closed"] PROVE OnlyCloses
  BY <1>0, <1>close, Zenon DEF OnlyCloses
<1>1. ASSUME NEW c \in Conns, ConnStep(c)
      PROVE  Quiet \/ Unbinds \/ Offers \/ ConnMoves(c)
  <2>1. CASE Reject(c) \/ IdentifyFail(c) \/ ResumeReject(c) \/ ResumeRefreshFails(c)
             \/ Superseded(c)
    <3>1. pc' = [pc EXCEPT ![c] = "closed"]
      BY <2>1, Zenon DEF Reject, IdentifyFail, ResumeReject, ResumeRefreshFails, Superseded
    <3>2. /\ UNCHANGED <<initializing, sequence, bindingEpoch, epoch, capacity, from, current,
                         highest, binding, send, done, registered>>
      BY <2>1, Zenon DEF Reject, IdentifyFail, ResumeReject, ResumeRefreshFails, Superseded,
           readyVars, replayVars, bindVars, chanVars
    <3> QED  BY <3>1, <3>2, <1>close, Zenon DEF Quiet
  <2>2. ASSUME NEW q \in 0 .. highest[c], Checkpoint(c, q) PROVE Quiet
    <3>1. /\ UNCHANGED <<initializing, sequence, bindingEpoch, epoch, capacity, from, current,
                         highest, binding, send, done, registered, pc>>
      BY <2>2, Zenon DEF Checkpoint, readyVars, bindVars, chanVars, connVars
    <3> QED  BY <3>1, <1>same, Zenon DEF Quiet
  <2>3. ASSUME NEW resumable \in BOOLEAN, Close(c, resumable) PROVE Quiet \/ Unbinds
    <3>1. pc[c] = "serving" /\ detach(current[c]) /\ pc' = [pc EXCEPT ![c] = "closed"]
      BY <2>3, Zenon DEF Close
    <3>2. Kept /\ send' = send
      BY <2>3, Zenon DEF Close, Kept, readyVars, replayVars
    <3> QED  BY <1>0, <3>1, <3>2, <1>close, DetachMoves, Zenon
  <2>4. ASSUME NEW q \in 0 .. highest[c], Heartbeat(c, q) PROVE Quiet \/ Unbinds \/ Offers
    <3>1. Kept
      BY <2>4, Zenon DEF Heartbeat, Kept, readyVars
    <3>2. CASE binding = c /\ Len(send[c]) < capacity[c] /\ Offer(c)
               /\ UNCHANGED <<binding, detachedAt, done, pc>>
      BY <3>1, <3>2, Zenon DEF Offer, Offers
    <3>3. CASE detach(c) /\ pc' = [pc EXCEPT ![c] = "closed"] /\ send' = send
      BY <1>0, <3>1, <3>3, <1>close, DetachMoves, Zenon
    <3> QED  BY <2>4, <3>2, <3>3, Zenon DEF Heartbeat
  <2> QED  BY <1>1, <2>1, <2>2, <2>3, <2>4, Zenon DEF ConnStep, ConnMoves
<1>2. ASSUME NEW large \in BOOLEAN, Dispatch(large) PROVE Quiet \/ Live
  <2>1. UNCHANGED <<registered, initializing, bindingEpoch, epoch, capacity, from, current,
                    highest, pc>> /\ registered
    BY <1>2, Zenon DEF Dispatch, connVars
  <2>2. CASE initializing
    <3>1. UNCHANGED <<sequence, binding, send, done>>
      BY <1>2, <2>2, Zenon DEF Dispatch, replayVars
    <3> QED  BY <2>1, <3>1, <1>same, Zenon DEF Quiet
  <2>3. CASE ~initializing
    BY <1>2, <2>1, <2>3, Zenon DEF Dispatch, Live, Retain
  <2> QED  BY <2>2, <2>3, Zenon
<1>3. CASE StartDrain \/ ResumeTTLPasses \/ CleanupList \/ CleanupCheck \/ UNCHANGED vars
  <2>1. UNCHANGED <<initializing, sequence, bindingEpoch, epoch, capacity, from, current,
                    highest, binding, send, done, pc, registered>>
    BY <1>3, Zenon DEF StartDrain, ResumeTTLPasses, CleanupList, CleanupCheck, vars,
         readyVars, replayVars, bindVars, chanVars, connVars
  <2> QED  BY <2>1, <1>same, Zenon DEF Quiet
<1>4. CASE DrainNotify
  <2>1. Kept /\ UNCHANGED <<binding, done, pc>>
    BY <1>4, Zenon DEF DrainNotify, Kept, readyVars, replayVars, bindVars, connVars
  <2>2. CASE send' = send
    BY <2>1, <2>2, <1>same, Zenon DEF Quiet, Kept
  <2>3. CASE binding # None /\ Offer(binding) /\ send' # send
    BY <1>0, <2>1, <2>3, Zenon DEF Offer, Offers
  <2> QED  BY <1>4, <2>2, <2>3, Zenon DEF DrainNotify
<1>5. ASSUME NEW x \in Removers, RemoveUnbind(x) PROVE Quiet \/ Unbinds
  <2>1. /\ Kept /\ pc' = pc /\ send' = send
        /\ binding' = None /\ done' = [c \in Conns |-> done[c] \/ c = binding]
    BY <1>5, Zenon DEF RemoveUnbind, Kept, readyVars, replayVars, connVars
  <2>2. CASE binding = None
    <3>1. done' = done
      BY <1>0, <2>1, <2>2, Zenon
    <3> QED  BY <2>1, <2>2, <3>1, <1>same, Zenon DEF Quiet, Kept
  <2>3. CASE binding \in Conns
    <3>1. done' = [done EXCEPT ![binding] = TRUE]
      BY <1>0, <2>1, <2>3, Zenon
    <3> QED  BY <2>1, <2>3, <3>1, <1>same, Zenon DEF Unbinds
  <2> QED  BY <1>0, <2>2, <2>3, Zenon
<1>6. ASSUME NEW x \in Removers, RemoveDelete(x) PROVE Quiet
  <2>1. UNCHANGED <<initializing, sequence, bindingEpoch, epoch, capacity, from, current,
                    highest, binding, send, done, pc>> /\ ~registered'
    BY <1>6, Zenon DEF RemoveDelete, readyVars, replayVars, bindVars, chanVars, connVars
  <2> QED  BY <2>1, <1>same, Zenon DEF Quiet
<1> QED  BY <1>1, <1>2, <1>3, <1>4, <1>5, <1>6, Zenon DEF Next

-----------------------------------------------------------------------------
\* The next k dispatches of the session.
Run(k) == [i \in 1 .. k |-> sequence + i]

\* The first k of n dispatches are appended to the queue of binding b, all that
\* it has room for, and the binding is ended when they are not all.
Fills(n, b, q, closed) ==
  \E k \in 0 .. n :
    /\ send' = [q EXCEPT ![b] = @ \o Run(k)]
    /\ Len(q[b] \o Run(k)) <= capacity'[b]
    /\ k = n \/ Len(q[b]) + k = capacity'[b]
    /\ \/ k = n /\ binding' = b /\ done' = closed
       \/ k # n /\ binding' = None /\ done' = [closed EXCEPT ![b] = TRUE]

\* That is what appendDispatchLocked does to a binding with room left.
LEMMA DeliverQueue ==
  ASSUME NEW n \in Nat, NEW b \in Conns, NEW q \in [Conns -> Seq(Nat)], 
         NEW closed \in [Conns -> BOOLEAN], NEW at \in Times,
         sequence \in Nat, capacity' \in [Conns -> Nat], Len(q[b]) <= capacity'[b],
         Deliver(n, b, q, closed, at)
  PROVE  Fills(n, b, q, closed)
<1> DEFINE k == Smaller(n, capacity'[b] - Len(q[b]))
<1>0. b # None
  BY SessionConstants, Zenon
<1>1. /\ send' = [q EXCEPT ![b] = @ \o [i \in 1 .. k |-> sequence + i]]
      /\ binding' = IF k = n THEN b ELSE None
      /\ done' = IF k = n THEN closed ELSE [closed EXCEPT ![b] = TRUE]
  BY <1>0, Zenon DEF Deliver
<1>2. q[b] \in Seq(Nat) /\ capacity'[b] \in Nat
  OBVIOUS
<1>3. Len(q[b]) \in Nat
  BY <1>2, LenProperties, Zenon
<1>4. k \in 0 .. n /\ Len(q[b]) + k <= capacity'[b] /\ (k = n \/ Len(q[b]) + k = capacity'[b])
  BY <1>2, <1>3 DEF Smaller
<1> HIDE DEF k
<1>5. Run(k) \in Seq(Nat) /\ Len(Run(k)) = k
  <2>1. k \in Nat
    BY <1>4
  <2> QED  BY <2>1, RunType DEF Run
<1>6. Len(q[b] \o Run(k)) = Len(q[b]) + k
  <2> DEFINE f == q[b]
             g == Run(k)
  <2>1. f \in Seq(Nat) /\ g \in Seq(Nat) /\ Len(g) = k
    BY <1>2, <1>5, Zenon
  <2> HIDE DEF f, g
  <2>2. Len(f \o g) = Len(f) + k
    BY <2>1, ConcatProperties, Zenon
  <2> QED  BY <2>2, Zenon DEF f, g
<1>7. send' = [q EXCEPT ![b] = @ \o Run(k)]
  BY <1>1, Zenon DEF Run
<1> QED  BY <1>1, <1>4, <1>6, <1>7, Zenon DEF Fills

\* What delivering to the current binding does.
Appends(n) ==
  \/ binding = None /\ UNCHANGED <<binding, send, done>>
  \/ /\ binding \in Conns
     /\ \E k \in 0 .. n :
          /\ send' = [send EXCEPT ![binding] = @ \o Run(k)]
          /\ Len(send[binding] \o Run(k)) <= capacity[binding]
          /\ \/ k = n /\ UNCHANGED <<binding, done>>
             \/ k # n /\ binding' = None /\ done' = [done EXCEPT ![binding] = TRUE]

\* IDENTIFY's READY and every later event reach the current binding that way.
LEMMA DeliverAppends ==
  ASSUME TypeOK, QueueFits, NEW n \in Nat, UNCHANGED capacity,
         Deliver(n, binding, send, done, detachedAt)
  PROVE  Appends(n)
<1>0. /\ binding \in Conns \cup {None} /\ send \in [Conns -> Seq(Nat)]
      /\ capacity \in [Conns -> Nat] /\ sequence \in Nat
      /\ done \in [Conns -> BOOLEAN] /\ detachedAt \in Times
  BY Zenon DEF TypeOK, BindingType, ReplayType, Times
<1>1. CASE binding = None
  BY <1>1, Zenon DEF Deliver, Appends
<1>2. CASE binding \in Conns
  <2>1. capacity' \in [Conns -> Nat] /\ Len(send[binding]) <= capacity'[binding]
    BY <1>0, <1>2, Zenon DEF QueueFits
  <2>2. Fills(n, binding, send, done)
    BY <1>0, <1>2, <2>1, DeliverQueue, Zenon
  <2> QED  BY <1>2, <2>2, Zenon DEF Appends, Fills
<1> QED  BY <1>0, <1>1, <1>2, Zenon

\* RESUME fills the new binding's queue with the replayed dispatches and RESUMED:
\* they fit, and the binding it replaces is ended.
Rebinds(c, r) ==
  /\ sequence' = sequence + 1
  /\ bindingEpoch' = bindingEpoch + 1 /\ epoch' = [epoch EXCEPT ![c] = bindingEpoch + 1]
  /\ from' = [from EXCEPT ![c] = r]
  /\ send' = [send EXCEPT ![c] = Beyond(r) \o Run(1)]
  /\ capacity' = [capacity EXCEPT ![c] = ResumeCapacity(Len(Beyond(r)))]
  /\ Len(Beyond(r) \o Run(1)) <= capacity'[c]
  /\ binding' = c /\ done' = [d \in Conns |-> done[d] \/ d = binding]
  /\ pc[c] = "verifying" /\ pc' = [pc EXCEPT ![c] = "refreshing"]
  /\ UNCHANGED <<registered, initializing, current, highest>>

\* That is what RESUME does to the streams.
LEMMA ResumeRebinds ==
  ASSUME TypeOK, TypeOK', ReplayWindow, NEW c \in Conns, NEW r \in 0 .. sequence,
         ResumeBind(c, r)
  PROVE  Rebinds(c, r)
<1>0. /\ ReplayType /\ send \in [Conns -> Seq(Nat)] /\ capacity \in [Conns -> Nat]
      /\ sequence \in Nat /\ capacity' \in [Conns -> Nat] /\ QueueSize \in Nat
  BY SessionConstants, Zenon DEF TypeOK, BindingType, ReplayType
<1> DEFINE q == [send EXCEPT ![c] = Beyond(r)]
           closed == [d \in Conns |-> done[d] \/ d = binding]
<1>1. r \in Nat /\ Beyond(r) \in Seq(Nat)
  BY <1>0, BeyondEntries
<1>2. Len(Beyond(r)) \in Nat
  BY <1>1, LenProperties, Zenon
<1>3. capacity' = [capacity EXCEPT ![c] = ResumeCapacity(Len(Beyond(r)))]
  BY Zenon DEF ResumeBind
<1>4. capacity'[c] \in Nat /\ Len(Beyond(r)) + 1 <= capacity'[c]
  <2>1. capacity'[c] = ResumeCapacity(Len(Beyond(r)))
    BY <1>0, <1>3, Zenon
  <2> QED  BY <1>0, <1>2, <2>1 DEF ResumeCapacity, Larger
<1>5. q \in [Conns -> Seq(Nat)] /\ q[c] = Beyond(r)
  BY <1>0, <1>1, Zenon
<1>6. Deliver(1, c, q, closed, "never")
  BY Zenon DEF ResumeBind
<1>c. closed \in [Conns -> BOOLEAN] /\ "never" \in Times
  BY Zenon DEF Times
<1> HIDE DEF q, closed
<1>7. PICK k \in 0 .. 1 :
        /\ send' = [q EXCEPT ![c] = @ \o Run(k)]
        /\ Len(q[c] \o Run(k)) <= capacity'[c]
        /\ k = 1 \/ Len(q[c]) + k = capacity'[c]
        /\ \/ k = 1 /\ binding' = c /\ done' = closed
           \/ k # 1 /\ binding' = None /\ done' = [closed EXCEPT ![c] = TRUE]
  <2>1. Len(q[c]) <= capacity'[c]
    BY <1>2, <1>4, <1>5
  <2>2. 1 \in Nat
    OBVIOUS
  <2>3. Fills(1, c, q, closed)
    BY <1>0, <1>5, <1>6, <1>c, <2>1, <2>2, DeliverQueue, Zenon
  <2> QED  BY <2>3, Zenon DEF Fills
<1>8. k = 1
  BY <1>2, <1>4, <1>5, <1>7
<1>9. send' = [send EXCEPT ![c] = Beyond(r) \o Run(1)]
  BY <1>0, <1>5, <1>7, <1>8, Zenon DEF q
<1>10. Len(Beyond(r) \o Run(1)) <= capacity'[c] /\ binding' = c /\ done' = closed
  BY <1>5, <1>7, <1>8, Zenon
<1>11. /\ sequence' = sequence + 1
       /\ bindingEpoch' = bindingEpoch + 1 /\ epoch' = [epoch EXCEPT ![c] = bindingEpoch + 1]
       /\ from' = [from EXCEPT ![c] = r]
       /\ pc[c] = "verifying" /\ pc' = [pc EXCEPT ![c] = "refreshing"]
       /\ UNCHANGED <<registered, initializing, current, highest>>
  BY Zenon DEF ResumeBind, Retain, readyVars
<1> QED  BY <1>3, <1>9, <1>10, <1>11, Zenon DEF Rebinds, closed

-----------------------------------------------------------------------------
\* What a step must leave alone for a connection to stay at its stage: only
\* bindings that were created may be ended or given frames.
LEMMA StageFrame ==
  ASSUME NEW c \in Conns, ConnStage(c), TypeOK,
         pc'[c] \in {"new", "verifying"} => pc[c] \in {"new", "verifying"},
         pc'[c] \in Unserved => pc[c] \in Unserved,
         current'[c] = current[c], current'[c] = None => highest'[c] = highest[c],
         epoch'[c] = epoch[c], \A d \in Conns : epoch[d] > 0 => epoch'[d] > 0,
         epoch[c] = 0 => done'[c] = done[c] /\ send'[c] = send[c]
  PROVE  ConnStage(c)'
<1>1. current[c] \in Conns \cup {None}
  BY Zenon DEF TypeOK, HandlerType
<1>2. current[c] # None => epoch'[current[c]] > 0
  BY <1>1, Zenon DEF ConnStage
<1> QED  BY <1>2, Zenon DEF ConnStage

\* Every step takes a connection from one stage to the next.
LEMMA StagesStep ==
  ASSUME TypeOK, TypeOK', ReplayWindow, EpochInv, ConnStages, QueueFits, [Next]_vars
  PROVE  ConnStages'
<1> SUFFICES ASSUME NEW c \in Conns PROVE ConnStage(c)'
  BY Zenon DEF ConnStages
<1>0. /\ pc \in [Conns -> Stages] /\ current \in [Conns -> Conns \cup {None}]
      /\ highest \in [Conns -> Nat] /\ epoch \in [Conns -> Nat] /\ bindingEpoch \in Nat
      /\ send \in [Conns -> Seq(Nat)] /\ done \in [Conns -> BOOLEAN] /\ None \notin Conns
      /\ binding \in Conns \cup {None} /\ pending \in Nat
      /\ \A d \in Conns : pc[d] = "serving" => current[d] \in Conns
  BY SessionConstants, Zenon DEF TypeOK, BindingType, HandlerType, ReadyType
<1>s. ConnStage(c)
  BY Zenon DEF ConnStages
<1>b. binding \in Conns => epoch[binding] > 0
  BY <1>0, Zenon DEF EpochInv
<1>close. OnlyCloses => /\ pc'[c] \in {"new", "verifying"} => pc[c] \in {"new", "verifying"}
                        /\ pc'[c] \in Unserved => pc[c] \in Unserved
  BY Zenon DEF OnlyCloses, Unserved
<1>1. CASE Quiet
  BY <1>1, <1>s, <1>close, StageFrame, Zenon DEF Quiet
<1>2. CASE Unbinds
  <2>0. epoch[c] = 0 => c # binding
    BY <1>0, <1>b
  <2>1. epoch[c] = 0 => done'[c] = done[c]
    BY <1>0, <1>2, <2>0, Zenon DEF Unbinds
  <2> QED  BY <1>2, <1>s, <1>close, <2>1, StageFrame, Zenon DEF Unbinds, Kept
<1>3. CASE Offers
  <2>1. epoch[c] = 0 => send'[c] = send[c]
    BY <1>0, <1>3, <1>b DEF Offers
  <2> QED  BY <1>3, <1>s, <2>1, StageFrame, Zenon DEF Offers, Kept
<1>app. ASSUME NEW n \in Nat, Appends(n)
        PROVE  epoch[c] = 0 => done'[c] = done[c] /\ send'[c] = send[c]
  BY <1>0, <1>b, <1>app DEF Appends
<1>4. CASE Live
  <2>1. Appends(1)
    BY <1>4, DeliverAppends, Zenon DEF Live
  <2>2. epoch[c] = 0 => done'[c] = done[c] /\ send'[c] = send[c]
    BY <2>1, <1>app, Zenon
  <2> QED  BY <1>4, <1>s, <2>2, StageFrame, Zenon DEF Live
<1>5. ASSUME NEW x \in Conns, IdentifyAdd(x) PROVE ConnStage(c)'
  <2>1. /\ pc[x] = "new" /\ pc' = [pc EXCEPT ![x] = "identifying"]
        /\ epoch' = [epoch EXCEPT ![x] = 1] /\ UNCHANGED <<send, done, current, highest>>
    BY <1>5, Zenon DEF IdentifyAdd
  <2>2. CASE c = x
    <3>1. pc'[c] = "identifying" /\ epoch'[c] = 1 /\ pc[c] = "new"
      BY <1>0, <2>1, <2>2, Zenon
    <3>2. current'[c] = None /\ highest'[c] = 0
      BY <1>s, <2>1, <3>1, Zenon DEF ConnStage, Unserved
    <3> QED  BY <3>1, <3>2 DEF ConnStage, Unserved
  <2>3. CASE c # x
    <3>1. pc'[c] = pc[c] /\ epoch'[c] = epoch[c] /\ \A d \in Conns : epoch[d] > 0 => epoch'[d] > 0
      BY <1>0, <2>1, <2>3
    <3> QED  BY <1>s, <2>1, <3>1, StageFrame, Zenon
  <2> QED  BY <2>2, <2>3, Zenon
<1>6. ASSUME NEW x \in Conns, IdentifyReady(x) PROVE ConnStage(c)'
  <2>1. /\ pc[x] = "identifying" /\ pc' = [pc EXCEPT ![x] = "ready"]
        /\ UNCHANGED <<epoch, capacity, current, highest>>
        /\ pending + 1 \in Nat /\ Deliver(pending + 1, binding, send, done, detachedAt)
    BY <1>0, <1>6 DEF IdentifyReady
  <2>2. epoch[c] = 0 => done'[c] = done[c] /\ send'[c] = send[c]
    <3>1. Appends(pending + 1)
      BY <2>1, DeliverAppends, Zenon
    <3> QED  BY <2>1, <3>1, <1>app, Zenon
  <2>3. /\ pc'[c] \in {"new", "verifying"} => pc[c] \in {"new", "verifying"}
        /\ pc'[c] \in Unserved => pc[c] \in Unserved
    BY <1>0, <2>1, Zenon DEF Unserved
  <2> QED  BY <1>s, <2>1, <2>2, <2>3, StageFrame, Zenon
<1>7. ASSUME NEW x \in Conns, ResumeLookup(x) PROVE ConnStage(c)'
  <2>1. /\ pc[x] = "new" /\ pc' = [pc EXCEPT ![x] = "verifying"]
        /\ UNCHANGED <<epoch, send, done, current, highest>>
    BY <1>7, Zenon DEF ResumeLookup, chanVars
  <2>2. /\ pc'[c] \in {"new", "verifying"} => pc[c] \in {"new", "verifying"}
        /\ pc'[c] \in Unserved => pc[c] \in Unserved
    BY <1>0, <2>1, Zenon DEF Unserved
  <2> QED  BY <1>s, <2>1, <2>2, StageFrame, Zenon
<1>8. ASSUME NEW x \in Conns, Attach(x) PROVE ConnStage(c)'
  <2>1. /\ pc[x] \in Unserved /\ current' = [current EXCEPT ![x] = binding]
        /\ pc' = [pc EXCEPT ![x] = IF binding = None THEN "closed" ELSE "serving"]
        /\ UNCHANGED <<epoch, send, done, highest>>
    BY <1>8, Zenon DEF Attach, chanVars, Unserved
  <2>2. CASE c = x
    <3>1. pc'[c] \in {"closed", "serving"} /\ current'[c] = binding
      BY <1>0, <2>1, <2>2, Zenon
    <3>2. highest'[c] = 0
      BY <1>s, <2>1, <2>2, Zenon DEF ConnStage
    <3>3. epoch'[c] = 0 => ~done'[c] /\ send'[c] = << >>
      BY <1>s, <2>1, Zenon DEF ConnStage
    <3>4. binding # None => epoch'[binding] > 0
      BY <1>0, <1>b, <2>1, Zenon
    <3> QED  BY <3>1, <3>2, <3>3, <3>4, Zenon DEF ConnStage, Unserved
  <2>3. CASE c # x
    <3>1. pc'[c] = pc[c] /\ current'[c] = current[c]
      BY <1>0, <2>1, <2>3, Zenon
    <3> QED  BY <1>s, <2>1, <3>1, StageFrame, Zenon
  <2> QED  BY <2>2, <2>3, Zenon
<1>9. ASSUME NEW x \in Conns, Send(x) \/ SendFails(x) PROVE ConnStage(c)'
  <2>1. /\ pc[x] = "serving" /\ current[x] \in Conns
        /\ send' = [send EXCEPT ![current[x]] = Tail(@)]
        /\ UNCHANGED <<epoch, current>>
    BY <1>0, <1>9, Zenon DEF Send, SendFails
  <2>2. epoch[current[x]] > 0
    BY <1>0, <2>1, Zenon DEF ConnStages, ConnStage
  <2>3. epoch[c] = 0 => send'[c] = send[c]
    BY <1>0, <2>1, <2>2
  <2>4. epoch[c] = 0 => done'[c] = done[c]
    BY <1>0, <1>9, <2>1, <2>2 DEF Send, SendFails, detach
  <2>5. current'[c] = None => highest'[c] = highest[c]
    BY <1>0, <1>9, <2>1, Zenon DEF Send, SendFails
  <2>6. pc'[c] \in {pc[c], "closed"}
    BY <1>0, <1>9, Zenon DEF Send, SendFails
  <2>7. /\ pc'[c] \in {"new", "verifying"} => pc[c] \in {"new", "verifying"}
        /\ pc'[c] \in Unserved => pc[c] \in Unserved
    BY <2>6, Zenon DEF Unserved
  <2> QED  BY <1>s, <2>1, <2>3, <2>4, <2>5, <2>7, StageFrame, Zenon
<1>10. ASSUME NEW x \in Conns, NEW r \in 0 .. sequence, ResumeBind(x, r) PROVE ConnStage(c)'
  <2>1. Rebinds(x, r)
    BY <1>10, ResumeRebinds, Zenon
  <2>2. /\ pc[x] = "verifying" /\ pc' = [pc EXCEPT ![x] = "refreshing"]
        /\ epoch' = [epoch EXCEPT ![x] = bindingEpoch + 1] /\ UNCHANGED <<current, highest>>
        /\ send' = [send EXCEPT ![x] = Beyond(r) \o Run(1)]
        /\ done' = [d \in Conns |-> done[d] \/ d = binding]
    BY <2>1, Zenon DEF Rebinds
  <2>3. CASE c = x
    <3>1. pc'[c] = "refreshing" /\ epoch'[c] > 0 /\ pc[c] = "verifying"
      BY <1>0, <2>2, <2>3
    <3>2. current'[c] = None /\ highest'[c] = 0
      BY <1>s, <2>2, <3>1, Zenon DEF ConnStage, Unserved
    <3> QED  BY <1>0, <2>2, <3>1, <3>2 DEF ConnStage, Unserved
  <2>4. CASE c # x
    <3>1. /\ pc'[c] = pc[c] /\ epoch'[c] = epoch[c] /\ send'[c] = send[c]
          /\ \A d \in Conns : epoch[d] > 0 => epoch'[d] > 0
      BY <1>0, <2>2, <2>4
    <3>2. epoch[c] = 0 => done'[c] = done[c]
      BY <1>0, <1>b, <2>2
    <3> QED  BY <1>s, <2>2, <3>1, <3>2, StageFrame, Zenon
  <2> QED  BY <2>3, <2>4, Zenon
<1>11. \/ Quiet \/ Unbinds \/ Offers \/ Live
       \/ \E x \in Conns : ConnMoves(x)
  BY StreamMoves, Zenon
<1> QED
  BY <1>1, <1>2, <1>3, <1>4, <1>5, <1>6, <1>7, <1>8, <1>9, <1>10, <1>11, Zenon DEF ConnMoves

-----------------------------------------------------------------------------
\* A binding that is ended, or was already, leaves no other one open.
LEMMA EndedBinding ==
  ASSUME TypeOK, OneOpenBinding, epoch' = epoch,
         \/ UNCHANGED <<binding, done>>
         \/ binding \in Conns /\ binding' = None /\ done' = [done EXCEPT ![binding] = TRUE]
  PROVE  OneOpenBinding'
<1>0. done \in [Conns -> BOOLEAN] /\ None \notin Conns
  BY SessionConstants, Zenon DEF TypeOK, BindingType
<1>1. CASE UNCHANGED <<binding, done>>
  BY <1>1, Zenon DEF OneOpenBinding
<1>2. CASE binding \in Conns /\ binding' = None /\ done' = [done EXCEPT ![binding] = TRUE]
  <2> SUFFICES ASSUME NEW c \in Conns, epoch[c] > 0 PROVE done'[c] /\ c # None
    BY <1>2, Zenon DEF OneOpenBinding
  <2>1. CASE c = binding
    BY <1>0, <1>2, <2>1, Zenon
  <2>2. CASE c # binding
    <3>1. done[c]
      BY <2>2, Zenon DEF OneOpenBinding
    <3> QED  BY <1>0, <1>2, <2>2, <3>1, Zenon
  <2> QED  BY <2>1, <2>2, Zenon
<1> QED  BY <1>1, <1>2, Zenon

\* A queue of which at most one changed, to one that fits, still fits.
LEMMA QueueFrame ==
  ASSUME TypeOK, QueueFits, capacity' = capacity,
         \/ send' = send
         \/ \E b \in Conns, q \in Seq(Nat) : send' = [send EXCEPT ![b] = q] /\ Len(q) <= capacity[b]
  PROVE  QueueFits'
<1>0. send \in [Conns -> Seq(Nat)]
  BY Zenon DEF TypeOK, BindingType
<1>1. CASE send' = send
  BY <1>1, Zenon DEF QueueFits
<1>2. ASSUME NEW b \in Conns, NEW q \in Seq(Nat),
             send' = [send EXCEPT ![b] = q], Len(q) <= capacity[b]
      PROVE  QueueFits'
  BY <1>0, <1>2, Zenon DEF QueueFits
<1> QED  BY <1>1, <1>2, Zenon

\* Every step keeps the current binding the only open one and its queue within
\* its channel.
LEMMA ServedStep ==
  ASSUME TypeOK, TypeOK', ReplayWindow, EpochInv, ConnStages, BindingsAreServed, [Next]_vars
  PROVE  BindingsAreServed'
<1>0. /\ pc \in [Conns -> Stages] /\ current \in [Conns -> Conns \cup {None}]
      /\ epoch \in [Conns -> Nat] /\ bindingEpoch \in Nat /\ capacity \in [Conns -> Nat]
      /\ send \in [Conns -> Seq(Nat)] /\ done \in [Conns -> BOOLEAN] /\ None \notin Conns
      /\ binding \in Conns \cup {None} /\ pending \in Nat /\ QueueSize \in Nat
      /\ \A d \in Conns : pc[d] = "serving" => current[d] \in Conns
  BY SessionConstants, Zenon DEF TypeOK, BindingType, HandlerType, ReadyType
<1>s. OneOpenBinding /\ QueueFits
  BY Zenon DEF BindingsAreServed
<1> SUFFICES OneOpenBinding' /\ QueueFits'
  BY Zenon DEF BindingsAreServed
<1>1. CASE Quiet
  BY <1>1, <1>s, EndedBinding, QueueFrame, Zenon DEF Quiet
<1>2. CASE Unbinds
  BY <1>2, <1>s, EndedBinding, QueueFrame, Zenon DEF Unbinds, Kept
<1>3. CASE Offers
  <2>1. /\ binding \in Conns /\ Len(send[binding]) < capacity[binding]
        /\ send' = [send EXCEPT ![binding] = Append(send[binding], 0)]
        /\ UNCHANGED <<epoch, capacity, binding, done>>
    BY <1>3, Zenon DEF Offers, Kept
  <2>2. send[binding] \in Seq(Nat) /\ capacity[binding] \in Nat
    BY <1>0, <2>1, Zenon
  <2>3. /\ Append(send[binding], 0) \in Seq(Nat)
        /\ Len(Append(send[binding], 0)) = Len(send[binding]) + 1
    BY <2>2, AppendProperties
  <2>4. Len(Append(send[binding], 0)) <= capacity[binding]
    BY <2>1, <2>2, <2>3, LenProperties
  <2> QED  BY <1>s, <2>1, <2>3, <2>4, EndedBinding, QueueFrame, Zenon
<1>app. ASSUME NEW n \in Nat, Appends(n), UNCHANGED <<epoch, capacity>>
        PROVE  OneOpenBinding' /\ QueueFits'
  <2>1. CASE binding = None /\ UNCHANGED <<binding, send, done>>
    BY <1>s, <1>app, <2>1, EndedBinding, QueueFrame, Zenon
  <2>2. ASSUME binding \in Conns, NEW k \in 0 .. n,
               send' = [send EXCEPT ![binding] = @ \o Run(k)],
               Len(send[binding] \o Run(k)) <= capacity[binding],
               \/ k = n /\ UNCHANGED <<binding, done>>
               \/ k # n /\ binding' = None /\ done' = [done EXCEPT ![binding] = TRUE]
        PROVE  OneOpenBinding' /\ QueueFits'
    <3>1. send' \in [Conns -> Seq(Nat)]
      BY Zenon DEF TypeOK, BindingType
    <3>2. send'[binding] = send[binding] \o Run(k)
      BY <1>0, <2>2, Zenon
    <3>3. send[binding] \o Run(k) \in Seq(Nat)
      BY <2>2, <3>1, <3>2, Zenon
    <3>4. OneOpenBinding'
      BY <1>s, <1>app, <2>2, EndedBinding, Zenon
    <3> QED  BY <1>s, <1>app, <2>2, <3>3, <3>4, QueueFrame, Zenon
  <2> QED  BY <1>app, <2>1, <2>2, Zenon DEF Appends
<1>4. CASE Live
  <2>1. Appends(1) /\ UNCHANGED <<epoch, capacity>>
    BY <1>4, <1>s, DeliverAppends, Zenon DEF Live
  <2> QED  BY <2>1, <1>app, Zenon
<1>5. ASSUME NEW x \in Conns, IdentifyAdd(x) PROVE OneOpenBinding' /\ QueueFits'
  <2>1. /\ pc[x] = "new" /\ binding' = x /\ bindingEpoch = 0
        /\ epoch' = [epoch EXCEPT ![x] = 1]
        /\ capacity' = [capacity EXCEPT ![x] = QueueSize]
        /\ UNCHANGED <<send, done>>
    BY <1>5, Zenon DEF IdentifyAdd
  <2>2. ~done[x] /\ send[x] = << >>
    BY <2>1, Zenon DEF ConnStages, ConnStage
  <2>3. ASSUME NEW c \in Conns, epoch'[c] > 0 PROVE c = x
    BY <1>0, <2>1, <2>3 DEF EpochInv
  <2>4. OneOpenBinding'
    BY <2>1, <2>2, <2>3, Zenon DEF OneOpenBinding
  <2>5. ASSUME NEW c \in Conns PROVE Len(send'[c]) <= capacity'[c]
    <3>1. CASE c = x
      BY <1>0, <2>1, <2>2, <3>1, EmptySeq
    <3>2. CASE c # x
      BY <1>0, <1>s, <2>1, <3>2, Zenon DEF QueueFits
    <3> QED  BY <3>1, <3>2, Zenon
  <2> QED  BY <2>4, <2>5, Zenon DEF QueueFits
<1>6. ASSUME NEW x \in Conns, IdentifyReady(x) PROVE OneOpenBinding' /\ QueueFits'
  <2>1. /\ UNCHANGED <<epoch, capacity>>
        /\ pending + 1 \in Nat /\ Deliver(pending + 1, binding, send, done, detachedAt)
    BY <1>0, <1>6 DEF IdentifyReady
  <2>2. Appends(pending + 1)
    BY <1>s, <2>1, DeliverAppends, Zenon
  <2> QED  BY <2>1, <2>2, <1>app, Zenon
<1>7. ASSUME NEW x \in Conns, ResumeLookup(x) \/ Attach(x)
      PROVE  OneOpenBinding' /\ QueueFits'
  <2>1. UNCHANGED <<epoch, capacity, binding, done, send>>
    BY <1>7, Zenon DEF ResumeLookup, Attach, bindVars, chanVars
  <2> QED  BY <1>s, <2>1, EndedBinding, QueueFrame, Zenon
<1>8. ASSUME NEW x \in Conns, Send(x) \/ SendFails(x) PROVE OneOpenBinding' /\ QueueFits'
  <2>1. /\ current[x] \in Conns /\ send[current[x]] # << >>
        /\ send' = [send EXCEPT ![current[x]] = Tail(send[current[x]])]
        /\ UNCHANGED <<epoch, capacity>>
    BY <1>0, <1>8, Zenon DEF Send, SendFails
  <2>2. send[current[x]] \in Seq(Nat) /\ Len(send[current[x]]) <= capacity[current[x]]
    BY <1>0, <1>s, <2>1, Zenon DEF QueueFits
  <2>3. /\ Tail(send[current[x]]) \in Seq(Nat)
        /\ Len(Tail(send[current[x]])) = Len(send[current[x]]) - 1
    BY <2>1, <2>2, HeadTailProperties, Zenon
  <2>4. capacity[current[x]] \in Nat /\ Len(send[current[x]]) \in Nat
    BY <1>0, <2>1, <2>2, LenProperties, Zenon
  <2>5. Len(Tail(send[current[x]])) <= capacity[current[x]]
    BY <2>2, <2>3, <2>4
  <2>6. QueueFits'
    BY <1>s, <2>1, <2>3, <2>5, QueueFrame, Zenon
  <2>7. \/ UNCHANGED <<binding, done>>
        \/ binding \in Conns /\ binding' = None /\ done' = [done EXCEPT ![binding] = TRUE]
    BY <1>8, <2>1, Zenon DEF Send, SendFails, detach, bindVars
  <2> QED  BY <1>s, <2>1, <2>6, <2>7, EndedBinding, Zenon
<1>9. ASSUME NEW x \in Conns, NEW r \in 0 .. sequence, ResumeBind(x, r)
      PROVE  OneOpenBinding' /\ QueueFits'
  <2>1. Rebinds(x, r)
    BY <1>9, ResumeRebinds, Zenon
  <2>2. epoch[x] = 0 /\ ~done[x]
    BY <2>1, Zenon DEF Rebinds, ConnStages, ConnStage
  <2>3. x # binding
    BY <1>0, <2>2 DEF EpochInv
  <2>4. ASSUME NEW c \in Conns, epoch'[c] > 0 PROVE done'[c] <=> c # binding'
    <3>1. binding' = x /\ (done'[c] <=> done[c] \/ c = binding)
      BY <2>1, Zenon DEF Rebinds
    <3>2. CASE c = x
      BY <2>2, <2>3, <3>1, <3>2, Zenon
    <3>3. CASE c # x
      <4>1. epoch[c] > 0
        BY <1>0, <2>1, <2>4, <3>3, Zenon DEF Rebinds
      <4>2. done[c] <=> c # binding
        BY <1>s, <4>1, Zenon DEF OneOpenBinding
      <4> QED  BY <3>1, <3>3, <4>2, Zenon
    <3> QED  BY <3>2, <3>3, Zenon
  <2>5. ASSUME NEW c \in Conns PROVE Len(send'[c]) <= capacity'[c]
    <3>1. CASE c = x
      <4>1. send'[c] = Beyond(r) \o Run(1) /\ Len(Beyond(r) \o Run(1)) <= capacity'[c]
        BY <1>0, <2>1, <3>1, Zenon DEF Rebinds
      <4> QED  BY <4>1, Zenon
    <3>2. CASE c # x
      <4>1. send'[c] = send[c] /\ capacity'[c] = capacity[c]
        BY <1>0, <2>1, <3>2, Zenon DEF Rebinds
      <4> QED  BY <1>s, <4>1, Zenon DEF QueueFits
    <3> QED  BY <3>1, <3>2, Zenon
  <2> QED  BY <2>4, <2>5, Zenon DEF OneOpenBinding, QueueFits
<1>10. \/ Quiet \/ Unbinds \/ Offers \/ Live
       \/ \E x \in Conns : ConnMoves(x)
  BY StreamMoves, Zenon
<1> QED
  BY <1>1, <1>2, <1>3, <1>4, <1>5, <1>6, <1>7, <1>8, <1>9, <1>10, Zenon DEF ConnMoves

\* The strengthened invariant of the bindings.
BindingsInv == WindowInv /\ AckInv /\ ConnStages /\ BindingsAreServed

\* It holds before any connection, and every step keeps it.
LEMMA BindingsInvInit == Init => BindingsInv
<1> SUFFICES ASSUME Init PROVE BindingsInv
  OBVIOUS
<1>1. AckInv
  BY DEF Init, AckInv, EpochInv, AckedWasDelivered
<1>2. ConnStages
  BY Zenon DEF Init, ConnStages, ConnStage
<1>3. BindingsAreServed
  BY EmptySeq DEF Init, BindingsAreServed, OneOpenBinding, QueueFits
<1> QED  BY <1>1, <1>2, <1>3, WindowInit, Zenon DEF BindingsInv

\* Every step keeps the bindings, their stages and their queues in order.
LEMMA BindingsInvStep == BindingsInv /\ [Next]_vars => BindingsInv'
<1> SUFFICES ASSUME BindingsInv, [Next]_vars PROVE BindingsInv'
  OBVIOUS
<1>1. WindowInv /\ AckInv /\ ConnStages /\ BindingsAreServed /\ QueueFits /\ EpochInv
  BY Zenon DEF BindingsInv, BindingsAreServed, AckInv
<1>2. WindowInv'
  BY <1>1, WindowInvStep, Zenon
<1>3. TypeOK /\ TypeOK' /\ ReplayWindow
  BY <1>1, <1>2, Zenon DEF WindowInv
<1>4. AckInv'
  BY <1>1, <1>3, AckStep, Zenon
<1>5. ConnStages'
  BY <1>1, <1>3, StagesStep, Zenon
<1>6. BindingsAreServed'
  BY <1>1, <1>3, ServedStep, Zenon
<1> QED  BY <1>2, <1>4, <1>5, <1>6, Zenon DEF BindingsInv

\* RESUME, detach, appendDispatchLocked and removeSession leave at most the
\* current binding open, so every replaced handler ends, and no queue is ever
\* filled beyond its channel, so RESUME never blocks with the mutex held.
THEOREM BindingsStayServed == Spec => []BindingsAreServed
<1>1. BindingsInv => BindingsAreServed
  BY Zenon DEF BindingsInv
<1> QED  BY <1>1, BindingsInvInit, BindingsInvStep, PTL DEF Spec
-----------------------------------------------------------------------------
\* Every frame of queue q has a number up to n.
UpTo(q, n) == \A i \in 1 .. Len(q) : q[i] <= n

\* Frames without a number, the next dispatches, and sending the first frame.
LEMMA UpToQueues ==
  ASSUME NEW q \in Seq(Nat), NEW n \in Nat, UpTo(q, n)
  PROVE  /\ UpTo(Append(q, 0), n)
         /\ q # << >> => Head(q) \in Nat /\ Head(q) <= n /\ UpTo(Tail(q), n)
         /\ \A k \in Nat : UpTo(q \o [i \in 1 .. k |-> n + i], n + k)
<1>0. Len(q) \in Nat /\ \A i \in 1 .. Len(q) : q[i] \in Nat
  BY LenProperties, ElementOfSeq, Zenon
<1>1. UpTo(Append(q, 0), n)
  <2> DEFINE r == Append(q, 0)
  <2>1. Len(r) = Len(q) + 1 /\ r[Len(q) + 1] = 0 /\ \A i \in 1 .. Len(q) : r[i] = q[i]
    BY AppendProperties
  <2> HIDE DEF r
  <2>2. ASSUME NEW i \in 1 .. Len(r) PROVE r[i] <= n
    <3>1. i \in 1 .. Len(q) \/ i = Len(q) + 1
      BY <1>0, <2>1
    <3> QED  BY <2>1, <3>1 DEF UpTo
  <2> QED  BY <2>2, Zenon DEF UpTo, r
<1>2. ASSUME q # << >> PROVE Head(q) \in Nat /\ Head(q) <= n /\ UpTo(Tail(q), n)
  <2>1. Len(q) # 0
    BY <1>2, EmptySeq, Zenon
  <2>2. Head(q) = q[1] /\ 1 \in 1 .. Len(q)
    BY <1>0, <2>1
  <2> DEFINE r == Tail(q)
  <2>3. Len(r) = Len(q) - 1 /\ \A i \in 1 .. Len(r) : r[i] = q[i + 1]
    BY <1>2, HeadTailProperties, Zenon
  <2> HIDE DEF r
  <2>4. ASSUME NEW i \in 1 .. Len(r) PROVE r[i] <= n
    <3>1. i + 1 \in 1 .. Len(q)
      BY <1>0, <2>3
    <3> QED  BY <2>3, <3>1, Zenon DEF UpTo
  <2> QED  BY <1>0, <2>2, <2>4, Zenon DEF UpTo, r
<1>3. ASSUME NEW k \in Nat PROVE UpTo(q \o [i \in 1 .. k |-> n + i], n + k)
  <2> DEFINE run == [i \in 1 .. k |-> n + i]
             r == q \o run
  <2>1. run \in Seq(Nat) /\ Len(run) = k
    <3>1. Len(run) = IF k > 0 THEN k ELSE 0
      BY RunType
    <3>2. run \in Seq(Nat)
      BY RunType
    <3> QED  BY <3>1, <3>2
  <2>2. \A i \in 1 .. k : run[i] = n + i
    OBVIOUS
  <2> HIDE DEF run
  <2>3. /\ Len(r) = Len(q) + k
        /\ \A i \in 1 .. Len(q) + k : r[i] = IF i <= Len(q) THEN q[i] ELSE run[i - Len(q)]
    BY <2>1, ConcatProperties, Zenon
  <2> HIDE DEF r
  <2>4. ASSUME NEW i \in 1 .. Len(r) PROVE r[i] <= n + k
    <3>1. CASE i <= Len(q)
      <4>1. i \in 1 .. Len(q) /\ r[i] = q[i]
        BY <1>0, <2>3, <3>1
      <4>2. q[i] <= n /\ q[i] \in Nat
        BY <1>0, <4>1, Zenon DEF UpTo
      <4> QED  BY <4>1, <4>2
    <3>2. CASE ~(i <= Len(q))
      <4>1. i - Len(q) \in 1 .. k /\ r[i] = run[i - Len(q)]
        BY <1>0, <2>3, <3>2
      <4> QED  BY <2>2, <4>1
    <3> QED  BY <3>1, <3>2, Zenon
  <2> QED  BY <2>4, Zenon DEF UpTo, r, run
<1> QED  BY <1>1, <1>2, <1>3, Zenon

\* What RESUME replays: the dispatches after r, all of them.
LEMMA ReplayedRun ==
  ASSUME TypeOK, ReplayWindow, NEW r \in 0 .. sequence, Resumable(r)
  PROVE  /\ r \in Nat /\ Beyond(r) \in Seq(Nat) /\ Len(Beyond(r)) = sequence - r
         /\ \A i \in 1 .. Len(Beyond(r)) : Beyond(r)[i] = r + i
<1>0. /\ ReplayType /\ sequence \in Nat /\ Base \in Nat /\ Base <= sequence
      /\ Len(replay) = sequence - Base
      /\ \A i \in 1 .. Len(replay) : replay[i] = Base + i
  BY Zenon DEF TypeOK, ReplayType, ReplayWindow, Base, Larger
<1>1. r \in Nat /\ r >= Base /\ r <= sequence
  BY <1>0 DEF Resumable, Base, Larger
<1>2. PICK k \in 0 .. Len(replay) :
        /\ k = Covered(r)
        /\ \A i \in 1 .. k : replay[i] <= r
        /\ k < Len(replay) => replay[k + 1] > r
  BY <1>0, <1>1, CoveredExists, Zenon
<1>3. /\ Beyond(r) \in Seq(Nat) /\ Len(Beyond(r)) = Len(replay) - k
      /\ \A i \in 1 .. Len(replay) - k : Beyond(r)[i] = replay[k + i]
  BY <1>0, <1>1, <1>2, BeyondEntries, Zenon
<1>4. k > 0 => Base + k <= r
  BY <1>0, <1>2
<1>5. k < Len(replay) => Base + k + 1 > r
  BY <1>0, <1>2
<1>a. /\ sequence \in Nat /\ Base \in Nat /\ Len(replay) = sequence - Base /\ Base <= r
      /\ r \in Nat /\ r <= sequence /\ k \in Nat /\ k <= Len(replay)
  BY <1>0, <1>1
<1>6. Base + k = r
  BY <1>a, <1>4, <1>5
<1>7. Len(Beyond(r)) = sequence - r
  BY <1>0, <1>1, <1>2, <1>3, <1>6
<1>8. ASSUME NEW i \in 1 .. Len(Beyond(r)) PROVE Beyond(r)[i] = r + i
  <2>1. k + i \in 1 .. Len(replay) /\ i \in 1 .. Len(replay) - k
    <3>1. i \in 1 .. Len(replay) - k
      BY <1>3, Zenon
    <3> QED  BY <1>a, <3>1
  <2>2. Beyond(r)[i] = replay[k + i] /\ replay[k + i] = Base + (k + i)
    BY <1>0, <1>3, <2>1, Zenon
  <2>3. Base + (k + i) = r + i
    BY <1>a, <1>6
  <2> QED  BY <2>2, <2>3, Zenon
<1> QED  BY <1>1, <1>3, <1>7, <1>8, Zenon

\* What a step must leave alone for a stream to stay within the session.
LEMMA WithinFrame ==
  ASSUME TypeOK, NEW c \in Conns, Within(c), sequence' \in Nat, sequence' >= sequence,
         from'[c] = from[c], highest'[c] = highest[c],
         send'[c] = send[c] \/ UpTo(send'[c], sequence')
  PROVE  Within(c)'
<1>0. /\ sequence \in Nat /\ from[c] \in Nat /\ highest[c] \in Nat
      /\ send[c] \in Seq(Nat)
  BY Zenon DEF TypeOK, ReplayType, BindingType, HandlerType
<1>a. from[c] <= sequence /\ highest[c] <= sequence
  BY Zenon DEF Within
<1>1. from'[c] <= sequence' /\ highest'[c] <= sequence'
  BY <1>0, <1>a
<1>2. \A i \in 1 .. Len(send[c]) : send[c][i] \in Nat
  BY <1>0, ElementOfSeq, Zenon
<1>3. ASSUME NEW i \in 1 .. Len(send'[c]) PROVE send'[c][i] <= sequence'
  <2>1. CASE send'[c] = send[c]
    <3>1. send[c][i] \in Nat /\ send[c][i] <= sequence
      BY <1>2, <2>1, Zenon DEF Within
    <3> QED  BY <1>0, <2>1, <3>1
  <2>2. CASE UpTo(send'[c], sequence')
    BY <2>2, Zenon DEF UpTo
  <2> QED  BY <2>1, <2>2, Zenon
<1> QED  BY <1>1, <1>3, Zenon DEF Within

\* Every step keeps the stream of a connection within the session.
LEMMA StreamWithinStep ==
  ASSUME TypeOK, TypeOK', ReplayWindow, QueueFits, FramesWithin, [Next]_vars,
         NEW c \in Conns
  PROVE  Within(c)'
<1>0. /\ current \in [Conns -> Conns \cup {None}] /\ highest \in [Conns -> Nat]
      /\ from \in [Conns -> Nat] /\ sequence \in Nat /\ sequence' \in Nat
      /\ send \in [Conns -> Seq(Nat)] /\ None \notin Conns /\ pending \in Nat
      /\ binding \in Conns \cup {None}
      /\ \A d \in Conns : pc[d] = "serving" => current[d] \in Conns
  BY SessionConstants, Zenon DEF TypeOK, ReplayType, BindingType, HandlerType, ReadyType
<1>s. Within(c)
  BY Zenon DEF FramesWithin
<1>up. \A d \in Conns : send[d] \in Seq(Nat) /\ UpTo(send[d], sequence)
  BY <1>0, Zenon DEF FramesWithin, Within, UpTo
<1>same. ASSUME UNCHANGED <<sequence, from, highest, send>> PROVE Within(c)'
  BY <1>0, <1>s, <1>same, WithinFrame
<1>1. CASE Quiet \/ Unbinds
  BY <1>1, <1>same, Zenon DEF Quiet, Unbinds, Kept
<1>2. CASE Offers
  <2>1. /\ binding \in Conns /\ send' = [send EXCEPT ![binding] = Append(send[binding], 0)]
        /\ UNCHANGED <<sequence, from, highest>>
    BY <1>2, Zenon DEF Offers, Kept
  <2>2. UpTo(Append(send[binding], 0), sequence)
    BY <1>0, <1>up, <2>1, UpToQueues, Zenon
  <2>3. send'[c] = send[c] \/ UpTo(send'[c], sequence')
    BY <1>0, <2>1, <2>2, Zenon
  <2> QED  BY <1>0, <1>s, <2>1, <2>3, WithinFrame
<1>app. ASSUME NEW n \in Nat, Appends(n), sequence' = sequence + n, UNCHANGED <<from, highest>>
        PROVE  Within(c)'
  <2>1. CASE binding = None /\ UNCHANGED <<binding, send, done>>
    BY <1>0, <1>s, <1>app, <2>1, WithinFrame
  <2>2. ASSUME binding \in Conns, NEW k \in 0 .. n,
               send' = [send EXCEPT ![binding] = @ \o Run(k)]
        PROVE  Within(c)'
    <3>1. UpTo(send[binding] \o Run(k), sequence + k)
      <4>1. k \in Nat
        OBVIOUS
      <4> QED  BY <1>0, <1>up, <2>2, <4>1, UpToQueues, Zenon DEF Run
    <3>2. CASE c = binding
      <4>1. send'[c] = send[binding] \o Run(k)
        BY <1>0, <2>2, <3>2, Zenon
      <4>2. send'[c] \in Seq(Nat)
        BY Zenon DEF TypeOK, BindingType
      <4>3. ASSUME NEW i \in 1 .. Len(send'[c]) PROVE send'[c][i] <= sequence'
        <5>1. send'[c][i] \in Nat
          BY <4>2, ElementOfSeq, Zenon
        <5>2. send'[c][i] <= sequence + k
          BY <3>1, <4>1, Zenon DEF UpTo
        <5> QED  BY <1>0, <1>app, <5>1, <5>2, SMTT(20)
      <4>4. UpTo(send'[c], sequence')
        BY <4>3, Zenon DEF UpTo
      <4> QED  BY <1>0, <1>s, <1>app, <4>4, WithinFrame
    <3>3. CASE c # binding
      <4>1. send'[c] = send[c]
        BY <1>0, <2>2, <3>3, Zenon
      <4> QED  BY <1>0, <1>s, <1>app, <4>1, WithinFrame
    <3> QED  BY <3>2, <3>3, Zenon
  <2> QED  BY <1>app, <2>1, <2>2, Zenon DEF Appends
<1>3. CASE Live
  <2>1. Appends(1) /\ sequence' = sequence + 1 /\ UNCHANGED <<from, highest>>
    BY <1>3, DeliverAppends, Zenon DEF Live
  <2> QED  BY <2>1, <1>app, Zenon
<1>4. ASSUME NEW x \in Conns, IdentifyReady(x) PROVE Within(c)'
  <2>1. /\ sequence' = sequence + (pending + 1) /\ UNCHANGED <<from, highest, capacity>>
        /\ pending + 1 \in Nat /\ Deliver(pending + 1, binding, send, done, detachedAt)
    BY <1>0, <1>4 DEF IdentifyReady, Retain
  <2>2. Appends(pending + 1)
    BY <2>1, DeliverAppends, Zenon
  <2> QED  BY <2>1, <2>2, <1>app, Zenon
<1>5. ASSUME NEW x \in Conns, IdentifyAdd(x) \/ ResumeLookup(x) \/ Attach(x) PROVE Within(c)'
  <2>1. UNCHANGED <<sequence, from, highest, send>>
    BY <1>5, Zenon DEF IdentifyAdd, ResumeLookup, Attach, replayVars, chanVars
  <2> QED  BY <2>1, <1>same, Zenon
<1>6. ASSUME NEW x \in Conns, Send(x) \/ SendFails(x) PROVE Within(c)'
  <2>1. /\ current[x] \in Conns /\ send[current[x]] # << >>
        /\ send' = [send EXCEPT ![current[x]] = Tail(send[current[x]])]
        /\ UNCHANGED <<sequence, from>>
    BY <1>0, <1>6, Zenon DEF Send, SendFails, replayVars
  <2>2. /\ Head(send[current[x]]) \in Nat /\ Head(send[current[x]]) <= sequence
        /\ UpTo(Tail(send[current[x]]), sequence)
    BY <1>0, <1>up, <2>1, UpToQueues, Zenon
  <2>3. send'[c] = send[c] \/ UpTo(send'[c], sequence')
    BY <1>0, <2>1, <2>2, Zenon
  <2>4. CASE highest'[c] = highest[c]
    BY <1>0, <1>s, <2>1, <2>3, <2>4, WithinFrame
  <2>5. CASE highest'[c] = Larger(highest[c], Head(send[current[x]]))
    <3>1. from'[c] <= sequence' /\ highest'[c] <= sequence'
      BY <1>0, <1>s, <2>1, <2>2, <2>5, Zenon DEF Within, Larger
    <3>2. UpTo(send'[c], sequence')
      BY <1>up, <2>1, <2>3, Zenon
    <3> QED  BY <3>1, <3>2, Zenon DEF Within, UpTo
  <2> QED  BY <1>0, <1>6, <2>4, <2>5, Zenon DEF Send, SendFails
<1>7. ASSUME NEW x \in Conns, NEW r \in 0 .. sequence, ResumeBind(x, r) PROVE Within(c)'
  <2>1. Rebinds(x, r)
    BY <1>7, ResumeRebinds, Zenon
  <2>2. CASE c # x
    <3>1. /\ send'[c] = send[c] /\ from'[c] = from[c] /\ highest' = highest
          /\ sequence' = sequence + 1
      BY <1>0, <2>1, <2>2, Zenon DEF Rebinds
    <3> QED  BY <1>0, <1>s, <3>1, WithinFrame
  <2>3. CASE c = x
    <3>1. /\ send'[c] = Beyond(r) \o Run(1) /\ from'[c] = r /\ highest'[c] = highest[c]
          /\ sequence' = sequence + 1
      BY <1>0, <2>1, <2>3, Zenon DEF Rebinds
    <3>2. /\ r \in Nat /\ Beyond(r) \in Seq(Nat) /\ Len(Beyond(r)) = sequence - r
          /\ \A i \in 1 .. Len(Beyond(r)) : Beyond(r)[i] = r + i
      BY <1>7, ReplayedRun, Zenon DEF ResumeBind
    <3>3. UpTo(Beyond(r), sequence)
      BY <1>0, <3>2, SMTT(20) DEF UpTo
    <3>4. UpTo(Beyond(r) \o Run(1), sequence + 1)
      BY <1>0, <3>2, <3>3, UpToQueues, Zenon DEF Run
    <3>5. from'[c] <= sequence' /\ highest'[c] <= sequence'
      BY <1>0, <1>s, <3>1 DEF Within
    <3> QED  BY <3>1, <3>4, <3>5, Zenon DEF Within, UpTo
  <2> QED  BY <2>2, <2>3, Zenon
<1>8. \/ Quiet \/ Unbinds \/ Offers \/ Live
      \/ \E x \in Conns : ConnMoves(x)
  BY StreamMoves, Zenon
<1> QED  BY <1>1, <1>2, <1>3, <1>4, <1>5, <1>6, <1>7, <1>8, Zenon DEF ConnMoves

\* What a step must leave alone for the session to stay at its stage.
LEMMA SessionFrame ==
  ASSUME SessionStages, UNCHANGED <<bindingEpoch, sequence, initializing, epoch>>,
         registered' => registered,
         \A c \in Conns : pc'[c] \in {"identifying", "verifying"} => pc'[c] = pc[c]
  PROVE  SessionStages'
<1>1. bindingEpoch' = 0 => sequence' = 0 /\ ~registered'
  BY Zenon DEF SessionStages
<1>2. initializing' => sequence' = 0
  BY Zenon DEF SessionStages
<1>3. ASSUME NEW c \in Conns
      PROVE  /\ pc'[c] = "identifying" => initializing' /\ epoch'[c] = 1
             /\ pc'[c] = "verifying" => sequence' > 0
  BY Zenon DEF SessionStages
<1> QED  BY <1>1, <1>2, <1>3, Zenon DEF SessionStages

\* Every step takes the session from one stage to the next.
LEMMA SessionStep ==
  ASSUME TypeOK, TypeOK', ReplayWindow, EpochInv, FramesWithin, SessionStages, [Next]_vars
  PROVE  SessionStages'
<1>0. /\ pc \in [Conns -> Stages] /\ highest \in [Conns -> Nat] /\ epoch \in [Conns -> Nat]
      /\ bindingEpoch \in Nat /\ sequence \in Nat /\ pending \in Nat
  BY Zenon DEF TypeOK, ReplayType, BindingType, HandlerType, ReadyType
<1>close. OnlyCloses => \A c \in Conns : pc'[c] \in {"identifying", "verifying"} => pc'[c] = pc[c]
  BY Zenon DEF OnlyCloses
<1>1. CASE Quiet \/ Unbinds
  BY <1>1, <1>close, SessionFrame DEF Quiet, Unbinds, Kept
<1>2. CASE Offers
  BY <1>2, SessionFrame, Zenon DEF Offers, Kept
<1>3. CASE Live
  <2>1. /\ UNCHANGED <<bindingEpoch, initializing, epoch, pc, registered>>
        /\ registered /\ ~initializing /\ sequence' = sequence + 1
    BY <1>3, Zenon DEF Live
  <2>2. bindingEpoch # 0
    BY <2>1, Zenon DEF SessionStages
  <2>3. \A c \in Conns : pc[c] = "identifying" => initializing /\ epoch[c] = 1
    BY Zenon DEF SessionStages
  <2>4. sequence' > 0
    BY <1>0, <2>1
  <2> QED  BY <2>1, <2>2, <2>3, <2>4, Zenon DEF SessionStages
<1>4. ASSUME NEW x \in Conns, IdentifyAdd(x) PROVE SessionStages'
  <2>1. /\ bindingEpoch = 0 /\ bindingEpoch' = 1 /\ initializing' = TRUE
        /\ epoch' = [epoch EXCEPT ![x] = 1] /\ pc' = [pc EXCEPT ![x] = "identifying"]
        /\ sequence' = sequence
    BY <1>4, Zenon DEF IdentifyAdd, replayVars
  <2>2. sequence = 0
    BY <2>1, Zenon DEF SessionStages
  <2>3. ASSUME NEW c \in Conns
        PROVE  /\ pc'[c] = "identifying" => epoch'[c] = 1
               /\ pc'[c] # "verifying"
    <3>1. pc[c] # "verifying"
      BY <1>0, <2>2 DEF SessionStages
    <3>2. pc[c] = "identifying" => epoch[c] = 1
      BY Zenon DEF SessionStages
    <3> QED  BY <1>0, <2>1, <3>1, <3>2, Zenon
  <2> QED  BY <2>1, <2>2, <2>3 DEF SessionStages
<1>5. ASSUME NEW x \in Conns, IdentifyReady(x) PROVE SessionStages'
  <2>1. /\ pc[x] = "identifying" /\ pc' = [pc EXCEPT ![x] = "ready"]
        /\ initializing' = FALSE /\ sequence' = sequence + (pending + 1)
        /\ UNCHANGED <<bindingEpoch, epoch>>
    BY <1>5, Zenon DEF IdentifyReady, Retain
  <2>2. epoch[x] = 1
    BY <2>1, Zenon DEF SessionStages
  <2>3. bindingEpoch # 0
    BY <1>0, <2>2 DEF EpochInv
  <2>4. ASSUME NEW c \in Conns, pc'[c] = "identifying" PROVE FALSE
    <3>1. c # x /\ pc[c] = "identifying"
      BY <1>0, <2>1, <2>4, Zenon
    <3>2. epoch[c] = 1
      BY <3>1, Zenon DEF SessionStages
    <3> QED  BY <2>2, <3>1, <3>2 DEF EpochInv
  <2>5. sequence' > 0
    BY <1>0, <2>1
  <2> QED  BY <2>1, <2>3, <2>4, <2>5, Zenon DEF SessionStages
<1>6. ASSUME NEW x \in Conns, ResumeLookup(x) PROVE SessionStages'
  <2>1. /\ UNCHANGED <<bindingEpoch, sequence, initializing, epoch, registered>>
        /\ pc' = [pc EXCEPT ![x] = "verifying"]
    BY <1>6, Zenon DEF ResumeLookup, bindVars, chanVars, replayVars, readyVars
  <2>2. PICK d \in Conns : highest[d] > 0
    BY <1>6, Zenon DEF ResumeLookup
  <2>3. highest[d] <= sequence
    BY Zenon DEF FramesWithin, Within
  <2>4. sequence > 0
    BY <1>0, <2>2, <2>3
  <2>5. \A c \in Conns : pc'[c] = "identifying" => pc[c] = "identifying"
    BY <1>0, <2>1, Zenon
  <2>6. \A c \in Conns : pc[c] = "identifying" => initializing /\ epoch[c] = 1
    BY Zenon DEF SessionStages
  <2>7. (bindingEpoch = 0 => sequence = 0 /\ ~registered) /\ (initializing => sequence = 0)
    BY Zenon DEF SessionStages
  <2> QED  BY <2>1, <2>4, <2>5, <2>6, <2>7, Zenon DEF SessionStages
<1>7. ASSUME NEW x \in Conns, Attach(x) \/ Send(x) \/ SendFails(x) PROVE SessionStages'
  <2>1. UNCHANGED <<bindingEpoch, sequence, initializing, epoch, registered>>
    BY <1>7, Zenon DEF Attach, Send, SendFails, bindVars, chanVars, replayVars, readyVars
  <2>2. pc' = pc \/ \E s \in {"closed", "serving"} : pc' = [pc EXCEPT ![x] = s]
    BY <1>7, Zenon DEF Attach, Send, SendFails
  <2>3. \A c \in Conns : pc'[c] \in {"identifying", "verifying"} => pc'[c] = pc[c]
    BY <1>0, <2>2, Zenon
  <2> QED  BY <2>1, <2>3, SessionFrame, Zenon
<1>8. ASSUME NEW x \in Conns, NEW r \in 0 .. sequence, ResumeBind(x, r) PROVE SessionStages'
  <2>1. Rebinds(x, r)
    BY <1>8, ResumeRebinds, Zenon
  <2>2. /\ pc[x] = "verifying" /\ pc' = [pc EXCEPT ![x] = "refreshing"]
        /\ bindingEpoch' = bindingEpoch + 1 /\ sequence' = sequence + 1
        /\ initializing' = initializing
    BY <2>1, Zenon DEF Rebinds
  <2>3. ~initializing
    BY <1>0, <2>2 DEF SessionStages
  <2>4. ASSUME NEW c \in Conns PROVE pc'[c] # "identifying"
    BY <1>0, <2>2, <2>3, Zenon DEF SessionStages
  <2>5. bindingEpoch' # 0 /\ sequence' > 0
    BY <1>0, <2>2
  <2> QED  BY <2>2, <2>3, <2>4, <2>5, Zenon DEF SessionStages
<1>9. \/ Quiet \/ Unbinds \/ Offers \/ Live
      \/ \E x \in Conns : ConnMoves(x)
  BY StreamMoves, Zenon
<1> QED  BY <1>1, <1>2, <1>3, <1>4, <1>5, <1>6, <1>7, <1>8, <1>9, Zenon DEF ConnMoves

-----------------------------------------------------------------------------
\* The position of connection c's stream.
Position(c) == Larger(from[c], highest[c])

\* Connection c's part of StreamsContinue.
Seamless(c) ==
  /\ Continues(send[c], Position(c))
  /\ binding = c /\ ~initializing =>
       Carried(send[c], Len(send[c])) = Position(c) + 1 .. sequence

\* Connection c's part has to hold.
Counts(c) == epoch[c] > 0 /\ pc[c] # "closed" /\ Sole(c)

\* A queue of consecutive dispatches continues the position before them.
LEMMA RunContinues ==
  ASSUME NEW q \in Seq(Nat), NEW p \in Nat, \A i \in 1 .. Len(q) : q[i] = p + i
  PROVE  Continues(q, p) /\ Carried(q, Len(q)) = p + 1 .. p + Len(q)
<1>0. Len(q) \in Nat
  BY LenProperties, Zenon
<1>1. ASSUME NEW j \in 0 .. Len(q) PROVE Carried(q, j) = p + 1 .. p + j
  <2>1. ASSUME NEW n \in Carried(q, j) PROVE n \in p + 1 .. p + j
    <3>1. PICK i \in 1 .. j : n = q[i]
      BY <2>1, Zenon DEF Carried
    <3>2. i \in 1 .. Len(q)
      BY <1>0
    <3> QED  BY <3>1, <3>2
  <2>2. ASSUME NEW n \in p + 1 .. p + j PROVE n \in Carried(q, j)
    <3>1. n - p \in 1 .. j /\ n - p \in 1 .. Len(q) /\ p + (n - p) = n /\ n # 0
      BY <1>0
    <3>2. q[n - p] = n
      BY <3>1, Zenon
    <3> QED  BY <3>1, <3>2, Zenon DEF Carried
  <2> QED  BY <2>1, <2>2, Zenon
<1>2. ASSUME NEW j \in 1 .. Len(q), q[j] # 0
      PROVE  q[j] > p /\ Carried(q, j - 1) = p + 1 .. q[j] - 1
  <2>1. j - 1 \in 0 .. Len(q) /\ q[j] = p + j
    BY <1>0
  <2>2. Carried(q, j - 1) = p + 1 .. p + (j - 1)
    BY <1>1, <2>1, Zenon
  <2>3. p + (j - 1) = q[j] - 1 /\ q[j] > p
    BY <2>1
  <2> QED  BY <2>2, <2>3, Zenon
<1>3. Carried(q, Len(q)) = p + 1 .. p + Len(q)
  BY <1>0, <1>1
<1> QED  BY <1>2, <1>3, Zenon DEF Continues

\* A handler attaches once, so who serves a binding alone always has.
LEMMA SolePast ==
  ASSUME NEW c \in Conns, None \notin Conns, Sole(c)',
         \A d \in Conns : current'[d] = current[d] \/ current[d] = None
  PROVE  Sole(c)
<1> SUFFICES ASSUME NEW d \in Conns PROVE current[d] = c <=> d = c /\ current[c] # None
  BY Zenon DEF Sole
<1>1. current'[d] = c <=> d = c /\ current'[c] # None
  BY Zenon DEF Sole
<1> QED  BY <1>1, Zenon

\* What a step must leave alone for a stream to stay seamless.
LEMMA SeamlessFrame ==
  ASSUME NEW c \in Conns, Seamless(c),
         send'[c] = send[c], from'[c] = from[c], highest'[c] = highest[c],
         binding' = c /\ ~initializing' => binding = c /\ ~initializing /\ sequence' = sequence
  PROVE  Seamless(c)'
<1>1. Position(c)' = Position(c)
  BY Zenon DEF Position
<1>2. Continues(send[c], Position(c))'
  <2>1. Continues(send'[c], Position(c)')
    BY <1>1, Zenon DEF Seamless
  <2> QED  BY <2>1, Zenon DEF Continues, Carried
<1>3. ASSUME binding' = c /\ ~initializing'
      PROVE  Carried(send'[c], Len(send'[c])) = Position(c)' + 1 .. sequence'
  BY <1>1, <1>3, Zenon DEF Seamless
<1> QED  BY <1>2, <1>3, Zenon DEF Seamless, Continues, Carried

\* A queue that got a frame without a number is as seamless as before.
LEMMA SeamlessOffer ==
  ASSUME TypeOK, NEW c \in Conns, Seamless(c), send'[c] = Append(send[c], 0),
         from'[c] = from[c], highest'[c] = highest[c],
         UNCHANGED <<binding, initializing, sequence>>
  PROVE  Seamless(c)'
<1>0. send[c] \in Seq(Nat) /\ from[c] \in Nat /\ highest[c] \in Nat
  BY Zenon DEF TypeOK, BindingType, HandlerType
<1>1. Position(c)' = Position(c) /\ Position(c) \in Nat
  BY <1>0, Zenon DEF Position, Larger
<1>2. /\ Continues(Append(send[c], 0), Position(c))
      /\ Carried(Append(send[c], 0), Len(Append(send[c], 0))) = Carried(send[c], Len(send[c]))
  BY <1>0, <1>1, ContinuesOffer, Zenon DEF Seamless
<1>3. Continues(send'[c], Position(c)')
  BY <1>1, <1>2, Zenon
<1>4. binding' = c /\ ~initializing' =>
        Carried(send'[c], Len(send'[c])) = Position(c)' + 1 .. sequence'
  BY <1>1, <1>2, Zenon DEF Seamless
<1> QED  BY <1>3, <1>4, Zenon DEF Seamless, Continues, Carried

\* A queue that goes up to the newest dispatch and gets the next k stays so.
LEMMA SeamlessRun ==
  ASSUME TypeOK, NEW c \in Conns, NEW k \in Nat, NEW q \in Seq(Nat), NEW p \in Nat,
         p <= sequence, Continues(q, p), Carried(q, Len(q)) = p + 1 .. sequence,
         send'[c] = q \o Run(k), Position(c)' = p,
         binding' = c => sequence' = sequence + k
  PROVE  Seamless(c)'
<1>0. sequence \in Nat
  BY Zenon DEF TypeOK, ReplayType
<1>1. /\ Continues(q \o Run(k), p)
      /\ Carried(q \o Run(k), Len(q \o Run(k))) = p + 1 .. sequence + k
  BY <1>0, ContinuesRun DEF Run
<1>2. Continues(send'[c], Position(c)')
  BY <1>1, Zenon
<1>3. binding' = c => Carried(send'[c], Len(send'[c])) = Position(c)' + 1 .. sequence'
  BY <1>1, Zenon
<1> QED  BY <1>2, <1>3, Zenon DEF Seamless, Continues, Carried

\* A stream that sent the first frame of its queue stays seamless.
LEMMA SeamlessSend ==
  ASSUME TypeOK, NEW c \in Conns, Seamless(c), send[c] # << >>, send'[c] = Tail(send[c]),
         from'[c] = from[c], highest'[c] = Larger(highest[c], Head(send[c])),
         UNCHANGED <<binding, initializing, sequence>>
  PROVE  Seamless(c)'
<1>0. /\ send[c] \in Seq(Nat) /\ from[c] \in Nat /\ highest[c] \in Nat /\ sequence \in Nat
  BY Zenon DEF TypeOK, ReplayType, BindingType, HandlerType
<1>1. Head(send[c]) \in Nat /\ Position(c) \in Nat
  BY <1>0, HeadTailProperties, Zenon DEF Position, Larger
<1>2. Position(c)' = Larger(Position(c), Head(send[c]))
  BY <1>0, <1>1 DEF Position, Larger
<1>3. /\ Continues(Tail(send[c]), Position(c)')
      /\ \A e \in Nat : Carried(send[c], Len(send[c])) = Position(c) + 1 .. e
           => Carried(Tail(send[c]), Len(Tail(send[c]))) = Position(c)' + 1 .. e
  <2>1. Continues(send[c], Position(c))
    BY Zenon DEF Seamless
  <2> DEFINE q == send[c]
             p == Position(c)
  <2> HIDE DEF q, p
  <2>2. /\ Continues(Tail(q), Larger(p, Head(q)))
        /\ \A e \in Nat : Carried(q, Len(q)) = p + 1 .. e
             => Carried(Tail(q), Len(Tail(q))) = Larger(p, Head(q)) + 1 .. e
    <3>1. q \in Seq(Nat) /\ q # << >> /\ p \in Nat /\ Continues(q, p)
      BY <1>0, <1>1, <2>1, Zenon DEF q, p
    <3> QED  BY <3>1, ContinuesTail, Zenon
  <2> QED  BY <1>2, <2>2, Zenon DEF q, p
<1>4. Continues(send'[c], Position(c)')
  BY <1>3, Zenon
<1>5. binding' = c /\ ~initializing' =>
        Carried(send'[c], Len(send'[c])) = Position(c)' + 1 .. sequence'
  BY <1>0, <1>3, Zenon DEF Seamless
<1> QED  BY <1>4, <1>5, Zenon DEF Seamless, Continues, Carried

\* The inductive invariant of the streams.
StreamInv == BindingsInv /\ SessionStages /\ FramesWithin /\ StreamsContinue

\* Every step keeps every stream that counts seamless.
LEMMA StreamsStep ==
  ASSUME TypeOK, TypeOK', ReplayWindow, EpochInv, ConnStages, QueueFits, SessionStages,
         FramesWithin, StreamsContinue, [Next]_vars, NEW c \in Conns, Counts(c)'
  PROVE  Seamless(c)'
<1>0. /\ pc \in [Conns -> Stages] /\ current \in [Conns -> Conns \cup {None}]
      /\ highest \in [Conns -> Nat] /\ epoch \in [Conns -> Nat] /\ bindingEpoch \in Nat
      /\ send \in [Conns -> Seq(Nat)] /\ None \notin Conns /\ from \in [Conns -> Nat]
      /\ binding \in Conns \cup {None} /\ pending \in Nat /\ sequence \in Nat
      /\ \A d \in Conns : pc[d] = "serving" => current[d] \in Conns
  BY SessionConstants, Zenon DEF TypeOK, ReplayType, BindingType, HandlerType, ReadyType
<1>c. epoch'[c] > 0 /\ pc'[c] # "closed" /\ Sole(c)'
  BY Zenon DEF Counts, Sole
<1>p. Position(c) \in Nat /\ Position(c) <= sequence
  BY <1>0, Zenon DEF Position, Larger, FramesWithin, Within
<1>s. Counts(c) => Seamless(c)
  BY Zenon DEF StreamsContinue, Counts, Seamless, Position
<1>old. ASSUME epoch'[c] = epoch[c], pc[c] = "closed" => pc'[c] = "closed",
               \A d \in Conns : current'[d] = current[d] \/ current[d] = None
        PROVE  Counts(c) /\ Seamless(c)
  <2>1. Sole(c)
    BY <1>0, <1>c, <1>old, SolePast, Zenon
  <2>2. Counts(c)
    BY <1>c, <1>old, <2>1, Zenon DEF Counts
  <2> QED  BY <2>2, <1>s, Zenon
<1>close. OnlyCloses => (pc[c] = "closed" => pc'[c] = "closed")
  BY Zenon DEF OnlyCloses
<1>1. CASE Quiet \/ Unbinds
  <2>1. /\ UNCHANGED <<epoch, current, send, from, highest, sequence, initializing>>
        /\ OnlyCloses /\ binding' \in {binding, None}
    BY <1>1, Zenon DEF Quiet, Unbinds, Kept
  <2>2. Seamless(c)
    BY <2>1, <1>close, <1>old, Zenon
  <2> QED  BY <1>0, <2>1, <2>2, SeamlessFrame, Zenon
<1>2. CASE Offers
  <2>1. /\ UNCHANGED <<epoch, current, pc, from, highest, sequence, initializing, binding>>
        /\ send' = [send EXCEPT ![binding] = Append(send[binding], 0)]
    BY <1>2, Zenon DEF Offers, Kept
  <2>2. Seamless(c)
    BY <2>1, <1>old, Zenon
  <2>3. CASE c = binding
    <3>1. send'[c] = Append(send[c], 0)
      BY <1>0, <2>1, <2>3, Zenon
    <3> QED  BY <2>1, <2>2, <3>1, SeamlessOffer, Zenon
  <2>4. CASE c # binding
    <3>1. send'[c] = send[c]
      BY <1>0, <2>1, <2>4, Zenon
    <3> QED  BY <2>1, <2>2, <3>1, SeamlessFrame, Zenon
  <2> QED  BY <2>3, <2>4, Zenon
<1>app. ASSUME NEW n \in Nat, Appends(n), sequence' = sequence + n,
               UNCHANGED <<from, highest>>, Seamless(c),
               binding = c => Carried(send[c], Len(send[c])) = Position(c) + 1 .. sequence
        PROVE  Seamless(c)'
  <2>0. Position(c)' = Position(c)
    BY <1>app, Zenon DEF Position
  <2>1. CASE binding = None /\ UNCHANGED <<binding, send, done>>
    BY <1>0, <1>app, <2>1, SeamlessFrame, Zenon
  <2>2. ASSUME binding \in Conns, NEW k \in 0 .. n,
               send' = [send EXCEPT ![binding] = @ \o Run(k)],
               \/ k = n /\ UNCHANGED <<binding, done>>
               \/ k # n /\ binding' = None /\ done' = [done EXCEPT ![binding] = TRUE]
        PROVE  Seamless(c)'
    <3>1. CASE c = binding
      <4>1. send'[c] = send[c] \o Run(k) /\ send[c] \in Seq(Nat) /\ k \in Nat
        BY <1>0, <2>2, <3>1
      <4>2. binding' = c => sequence' = sequence + k
        BY <1>0, <1>app, <2>2, Zenon
      <4>3. Continues(send[c], Position(c))
        BY <1>app, Zenon DEF Seamless
      <4> QED  BY <1>p, <1>app, <2>0, <3>1, <4>1, <4>2, <4>3, SeamlessRun, Zenon
    <3>2. CASE c # binding
      <4>1. send'[c] = send[c] /\ binding' # c
        BY <1>0, <2>2, <3>2, Zenon
      <4> QED  BY <1>app, <4>1, SeamlessFrame, Zenon
    <3> QED  BY <3>1, <3>2, Zenon
  <2> QED  BY <1>app, <2>1, <2>2, Zenon DEF Appends
<1>3. CASE Live
  <2>1. /\ Appends(1) /\ sequence' = sequence + 1 /\ ~initializing
        /\ UNCHANGED <<epoch, pc, current, from, highest>>
    BY <1>3, DeliverAppends, Zenon DEF Live
  <2>2. Seamless(c)
    BY <2>1, <1>old, Zenon
  <2>3. binding = c => Carried(send[c], Len(send[c])) = Position(c) + 1 .. sequence
    BY <2>1, <2>2, Zenon DEF Seamless
  <2> QED  BY <2>1, <2>2, <2>3, <1>app, Zenon
<1>4. ASSUME NEW x \in Conns, IdentifyReady(x) PROVE Seamless(c)'
  <2>1. /\ sequence' = sequence + (pending + 1) /\ pc[x] = "identifying"
        /\ UNCHANGED <<epoch, current, from, highest, capacity>>
        /\ pc' = [pc EXCEPT ![x] = "ready"]
        /\ pending + 1 \in Nat /\ Deliver(pending + 1, binding, send, done, detachedAt)
    BY <1>0, <1>4 DEF IdentifyReady, Retain
  <2>2. Appends(pending + 1)
    BY <2>1, DeliverAppends, Zenon
  <2>3. pc[c] = "closed" => pc'[c] = "closed"
    BY <1>0, <2>1, Zenon
  <2>4. Seamless(c)
    BY <2>1, <2>3, <1>old, Zenon
  <2>5. sequence = 0
    BY <2>1, Zenon DEF SessionStages
  <2>6. Carried(send[c], Len(send[c])) = {}
    <3>1. ASSUME NEW i \in 1 .. Len(send[c]) PROVE send[c][i] = 0
      <4>1. send[c][i] \in Nat
        BY <1>0, ElementOfSeq, Zenon
      <4>2. send[c][i] <= 0
        BY <2>5, Zenon DEF FramesWithin, Within
      <4> QED  BY <4>1, <4>2
    <3> QED  BY <3>1, Zenon DEF Carried
  <2>7. Position(c) + 1 .. sequence = {}
    BY <1>p, <2>5
  <2> QED  BY <2>1, <2>2, <2>4, <2>6, <2>7, <1>app, Zenon
<1>5. ASSUME NEW x \in Conns, IdentifyAdd(x) PROVE Seamless(c)'
  <2>1. /\ pc[x] = "new" /\ pc' = [pc EXCEPT ![x] = "identifying"] /\ binding' = x
        /\ epoch' = [epoch EXCEPT ![x] = 1] /\ initializing' = TRUE
        /\ UNCHANGED <<send, current, from, highest>>
    BY <1>5, Zenon DEF IdentifyAdd
  <2>2. CASE c = x
    <3>1. send'[c] = << >>
      BY <2>1, <2>2, Zenon DEF ConnStages, ConnStage
    <3>2. Len(send'[c]) = 0
      BY <3>1, EmptySeq, Zenon
    <3> QED  BY <2>1, <3>2 DEF Seamless, Continues
  <2>3. CASE c # x
    <3>1. epoch'[c] = epoch[c] /\ pc'[c] = pc[c]
      BY <1>0, <2>1, <2>3, Zenon
    <3>2. Seamless(c)
      BY <2>1, <3>1, <1>old, Zenon
    <3> QED  BY <2>1, <2>3, <3>2, SeamlessFrame, Zenon
  <2> QED  BY <2>2, <2>3, Zenon
<1>6. ASSUME NEW x \in Conns, ResumeLookup(x) \/ Attach(x) PROVE Seamless(c)'
  <2>1. UNCHANGED <<epoch, send, from, highest, binding, initializing, sequence>>
    BY <1>6, Zenon DEF ResumeLookup, Attach, bindVars, chanVars, replayVars, readyVars
  <2>2. pc[x] \in Unserved /\ pc[x] # "closed"
    BY <1>6, Zenon DEF ResumeLookup, Attach, Unserved
  <2>3. current[x] = None
    BY <2>2, Zenon DEF ConnStages, ConnStage
  <2>4. \A d \in Conns : current'[d] = current[d] \/ current[d] = None
    BY <1>0, <1>6, <2>3, Zenon DEF ResumeLookup, Attach
  <2>5. pc[c] = "closed" => pc'[c] = "closed"
    BY <1>0, <1>6, <2>2, Zenon DEF ResumeLookup, Attach
  <2>6. Seamless(c)
    BY <2>1, <2>4, <2>5, <1>old, Zenon
  <2> QED  BY <2>1, <2>6, SeamlessFrame, Zenon
<1>7. ASSUME NEW x \in Conns, Send(x) \/ SendFails(x) PROVE Seamless(c)'
  <2>1. /\ pc[x] = "serving" /\ current[x] \in Conns /\ send[current[x]] # << >>
        /\ send' = [send EXCEPT ![current[x]] = Tail(send[current[x]])]
        /\ UNCHANGED <<epoch, current, from, initializing, sequence>>
        /\ binding' \in {binding, None}
    BY <1>0, <1>7, Zenon DEF Send, SendFails, replayVars, readyVars, bindVars, detach
  <2>2. pc[c] = "closed" => pc'[c] = "closed"
    BY <1>0, <1>7, Zenon DEF Send, SendFails
  <2>3. Counts(c) /\ Seamless(c)
    BY <2>1, <2>2, <1>old, Zenon
  <2>4. \A d \in Conns : current[d] = c <=> d = c /\ current[c] # None
    BY <2>3, Zenon DEF Counts, Sole
  <2>5. CASE c = x
    <3>1. current[c] = c
      BY <1>0, <2>1, <2>4, <2>5, Zenon
    <3>2. Send(c)
      BY <1>0, <1>7, <1>c, <2>5, Zenon DEF SendFails
    <3>3. /\ highest'[c] = Larger(highest[c], Head(send[c])) /\ binding' = binding
      BY <1>0, <3>1, <3>2, Zenon DEF Send, bindVars
    <3>4. send'[c] = Tail(send[c]) /\ send[c] # << >>
      BY <1>0, <2>1, <2>5, <3>1, Zenon
    <3> QED  BY <2>1, <2>3, <3>3, <3>4, SeamlessSend, Zenon
  <2>6. CASE c # x
    <3>1. current[x] # c
      BY <2>4, <2>6, Zenon
    <3>2. send'[c] = send[c]
      BY <1>0, <2>1, <3>1, Zenon
    <3>3. highest'[c] = highest[c]
      BY <1>0, <1>7, <2>6, Zenon DEF Send, SendFails
    <3> QED  BY <1>0, <2>1, <2>3, <3>2, <3>3, SeamlessFrame, Zenon
  <2> QED  BY <2>5, <2>6, Zenon
<1>8. ASSUME NEW x \in Conns, NEW r \in 0 .. sequence, ResumeBind(x, r) PROVE Seamless(c)'
  <2>1. Rebinds(x, r)
    BY <1>8, ResumeRebinds, Zenon
  <2>2. CASE c # x
    <3>1. /\ send'[c] = send[c] /\ from'[c] = from[c] /\ highest'[c] = highest[c]
          /\ epoch'[c] = epoch[c] /\ pc'[c] = pc[c] /\ current' = current /\ binding' # c
      BY <1>0, <2>1, <2>2, Zenon DEF Rebinds
    <3>2. Seamless(c)
      BY <3>1, <1>old, Zenon
    <3> QED  BY <3>1, <3>2, SeamlessFrame, Zenon
  <2>3. CASE c = x
    <3>1. /\ send'[c] = Beyond(r) \o Run(1) /\ from'[c] = r /\ highest'[c] = highest[c]
          /\ sequence' = sequence + 1 /\ pc[c] = "verifying"
      BY <1>0, <2>1, <2>3, Zenon DEF Rebinds
    <3>2. highest'[c] = 0
      BY <3>1, Zenon DEF ConnStages, ConnStage, Unserved
    <3>3. /\ r \in Nat /\ Beyond(r) \in Seq(Nat) /\ Len(Beyond(r)) = sequence - r
          /\ \A i \in 1 .. Len(Beyond(r)) : Beyond(r)[i] = r + i
      BY <1>8, ReplayedRun, Zenon DEF ResumeBind
    <3>4. Position(c)' = r
      BY <3>1, <3>2, <3>3 DEF Position, Larger
    <3>5. /\ Continues(Beyond(r), r)
          /\ Carried(Beyond(r), Len(Beyond(r))) = r + 1 .. r + Len(Beyond(r))
      BY <3>3, RunContinues, Zenon
    <3>6. r + Len(Beyond(r)) = sequence /\ r <= sequence
      BY <1>0, <3>3
    <3>7. Carried(Beyond(r), Len(Beyond(r))) = r + 1 .. sequence
      BY <3>5, <3>6, Zenon
    <3> QED  BY <3>1, <3>3, <3>4, <3>5, <3>6, <3>7, SeamlessRun, Zenon
  <2> QED  BY <2>2, <2>3, Zenon
<1>9. \/ Quiet \/ Unbinds \/ Offers \/ Live
      \/ \E x \in Conns : ConnMoves(x)
  BY StreamMoves, Zenon
<1> QED  BY <1>1, <1>2, <1>3, <1>4, <1>5, <1>6, <1>7, <1>8, <1>9, Zenon DEF ConnMoves

\* Nothing is queued or dispatched in a new session.
LEMMA StreamInit == Init => StreamInv
<1> SUFFICES ASSUME Init PROVE StreamInv
  OBVIOUS
<1>1. SessionStages
  BY Zenon DEF Init, SessionStages
<1>2. Len(<< >>) = 0
  BY EmptySeq, Zenon
<1>3. FramesWithin
  BY <1>2 DEF Init, FramesWithin, Within
<1>4. StreamsContinue
  BY DEF Init, StreamsContinue
<1> QED  BY <1>1, <1>3, <1>4, BindingsInvInit, Zenon DEF StreamInv

\* Every step keeps the streams seamless.
LEMMA StreamInvStep == StreamInv /\ [Next]_vars => StreamInv'
<1> SUFFICES ASSUME StreamInv, [Next]_vars PROVE StreamInv'
  OBVIOUS
<1>1. /\ BindingsInv /\ SessionStages /\ FramesWithin /\ StreamsContinue
      /\ ConnStages /\ QueueFits /\ EpochInv /\ TypeOK /\ ReplayWindow
  BY Zenon DEF StreamInv, BindingsInv, BindingsAreServed, AckInv, WindowInv
<1>2. BindingsInv' /\ TypeOK'
  BY <1>1, BindingsInvStep, Zenon DEF BindingsInv, WindowInv
<1>3. SessionStages'
  BY <1>1, <1>2, SessionStep, Zenon
<1>4. FramesWithin'
  BY <1>1, <1>2, StreamWithinStep, Zenon DEF FramesWithin
<1>5. \A c \in Conns : Counts(c)' => Seamless(c)'
  BY <1>1, <1>2, StreamsStep, Zenon
<1>6. StreamsContinue'
  BY <1>5, Zenon DEF StreamsContinue, Counts, Seamless, Position
<1> QED  BY <1>2, <1>3, <1>4, <1>6, Zenon DEF StreamInv

\* Whatever connections come, resume, replace one another and go, what a binding
\* has queued continues its stream without a hole or a repetition, and the
\* current binding's queue goes up to the newest dispatch.
THEOREM StreamsAlwaysContinue == Spec => []StreamsContinue
<1>1. StreamInv => StreamsContinue
  BY Zenon DEF StreamInv
<1> QED  BY <1>1, StreamInit, StreamInvStep, PTL DEF Spec

-----------------------------------------------------------------------------
(***************************************************************************)
(* Checkpoints.  Whatever is on its way was acknowledged on a connection   *)
(* of the epoch it names (CheckpointsWereTaken), so an epoch decides which *)
(* one a session may apply; what flush drops has been applied              *)
(* (AnsweredIsApplied).                                                    *)
(***************************************************************************)

Phases == {"new", "binding", "ready", "closed"}

CheckpointSet == [conn : Sockets \cup {NoSocket}, epoch : Nat, sequence : Nat]

(* What the Gateway knows of its connections, the session and the            *)
(* checkpoints between them.                                                 *)
CheckpointTypeOK ==
    /\ socket \in [Sockets -> [phase : Phases, epoch : Nat, got : Nat, ready : Nat,
                               queued : Nat, highest : Nat, acked : Nat, noting : BOOLEAN]]
    /\ session \in [bound : Sockets \cup {NoSocket}, epoch : Nat, sequence : Nat, acked : Nat]
    /\ dirty \in CheckpointSet /\ batch \in CheckpointSet
    /\ requests \subseteq CheckpointSet

(* On each connection a client acknowledges what it was sent, and is sent    *)
(* what was written for it; a position is noted on a connection that is      *)
(* ready.                                                                    *)
PositionsOrdered ==
    \A c \in Sockets :
        /\ socket[c].acked <= socket[c].highest /\ socket[c].highest <= socket[c].got
        /\ socket[c].got <= socket[c].queued /\ socket[c].queued <= session.sequence
        /\ socket[c].phase = "binding" => socket[c].acked = 0
        /\ socket[c].noting => socket[c].phase = "ready"

(* The connection the session is bound to has its epoch.                     *)
BoundIsLatest ==
    session.bound \in Sockets =>
        /\ socket[session.bound].phase # "new"
        /\ socket[session.bound].epoch = session.epoch

(* Checkpoint k notes a position that the client of connection c has         *)
(* acknowledged.                                                             *)
TakenFrom(k, c) ==
    /\ k.conn = c /\ socket[c].phase # "new"
    /\ k.epoch = socket[c].epoch /\ k.sequence <= socket[c].acked

(* Every checkpoint on its way was taken from a connection.                  *)
CheckpointsWereTaken ==
    \A k \in {dirty, batch} \cup requests : k # Clean => \E c \in Sockets : TakenFrom(k, c)

(* A batch that was answered has been applied, if the session is still bound *)
(* to its connection.                                                        *)
AnsweredIsApplied ==
    batch # Clean /\ batch \notin requests /\ batch.conn = session.bound
      => batch.sequence <= session.acked

CheckpointInv ==
    /\ CheckpointTypeOK /\ PositionsOrdered /\ BoundIsLatest
    /\ CheckpointsWereTaken /\ AnsweredIsApplied
    /\ AcksReachBinding

(* Type correctness of the checkpoints on their way from a heartbeat to the  *)
(* session (client.go, checkpoint.go, SyncGatewayConnections).               *)
LEMMA CheckpointTypeStep ==
    ASSUME CheckpointTypeOK, [CheckpointNext]_checkpointVars
    PROVE  CheckpointTypeOK'
<1> USE CheckpointConstants DEF Phases
<1>t. /\ socket \in [Sockets -> [phase : Phases, epoch : Nat, got : Nat, ready : Nat,
                                 queued : Nat, highest : Nat, acked : Nat, noting : BOOLEAN]]
      /\ session \in [bound : Sockets \cup {NoSocket}, epoch : Nat, sequence : Nat, acked : Nat]
      /\ dirty \in CheckpointSet /\ batch \in CheckpointSet
      /\ requests \subseteq CheckpointSet
  BY Zenon DEF CheckpointTypeOK
<1>c. Clean \in CheckpointSet /\ \A c \in Sockets : CheckpointOf(c) \in CheckpointSet
  BY <1>t, Zenon DEF Clean, CheckpointOf, CheckpointSet
<1>1. ASSUME NEW c \in Sockets, NEW q \in 0 .. MaxSequence, Bind(c, q)
      PROVE  CheckpointTypeOK'
  <2> DEFINE new == [phase |-> "binding", epoch |-> session.epoch + 1, got |-> q,
                     ready |-> session.sequence + 1, queued |-> session.sequence + 1,
                     highest |-> 0, acked |-> 0, noting |-> FALSE]
  <2>1. q \in Nat /\ session.epoch + 1 \in Nat /\ session.sequence + 1 \in Nat
    BY <1>t
  <2>2. new \in [phase : Phases, epoch : Nat, got : Nat, ready : Nat,
                 queued : Nat, highest : Nat, acked : Nat, noting : BOOLEAN]
    BY <2>1, Zenon
  <2>3. /\ socket' = [socket EXCEPT ![c] = new]
        /\ session' = [session EXCEPT !.bound = c, !.epoch = @ + 1, !.sequence = @ + 1]
        /\ UNCHANGED <<dirty, batch, requests>>
    BY <1>1, Zenon DEF Bind
  <2> HIDE DEF new
  <2>4. socket' \in [Sockets -> [phase : Phases, epoch : Nat, got : Nat, ready : Nat,
                                 queued : Nat, highest : Nat, acked : Nat, noting : BOOLEAN]]
    BY <2>2, <2>3, <1>t, Zenon
  <2>5. session' \in [bound : Sockets \cup {NoSocket}, epoch : Nat, sequence : Nat, acked : Nat]
    <3>1. session \in [bound : Sockets \cup {NoSocket}, epoch : Nat, sequence : Nat, acked : Nat]
      BY <1>t, Zenon
    <3>2. session' = [session EXCEPT !.bound = c, !.epoch = session.epoch + 1,
                                     !.sequence = session.sequence + 1]
      BY <2>3, Zenon
    <3> QED  BY <2>1, <3>1, <3>2, Zenon
  <2>6. dirty' = dirty /\ batch' = batch /\ requests' = requests
    BY <2>3, Zenon
  <2> QED  BY <2>4, <2>5, <2>6, <1>t, Zenon DEF CheckpointTypeOK
<1>2. ASSUME NEW c \in Sockets, NEW q \in 0 .. MaxSequence, HandleHeartbeat(c, q)
      PROVE  CheckpointTypeOK'
  BY <1>2, <1>t DEF CheckpointTypeOK, HandleHeartbeat
<1>3. ASSUME NEW c \in Sockets, WriteFrame(c)  PROVE CheckpointTypeOK'
  BY <1>3, <1>t DEF CheckpointTypeOK, WriteFrame
<1>4. ASSUME NEW c \in Sockets, RecordBindingMetadata(c)  PROVE CheckpointTypeOK'
  <2> DEFINE p == IF socket[c].got >= socket[c].ready THEN "ready" ELSE socket[c].phase
  <2>1. p \in Phases
    BY <1>t, Zenon
  <2>2. /\ socket' = [socket EXCEPT ![c].highest = socket[c].got, ![c].phase = p]
        /\ UNCHANGED <<session, dirty, batch, requests>>
    BY <1>4, <1>t, Zenon DEF RecordBindingMetadata
  <2> HIDE DEF p
  <2>3. socket' \in [Sockets -> [phase : Phases, epoch : Nat, got : Nat, ready : Nat,
                                 queued : Nat, highest : Nat, acked : Nat, noting : BOOLEAN]]
    BY <2>1, <2>2, <1>t, ZenonT(30)
  <2>4. session' = session /\ dirty' = dirty /\ batch' = batch /\ requests' = requests
    BY <2>2, Zenon
  <2> QED  BY <2>3, <2>4, <1>t, Zenon DEF CheckpointTypeOK
<1>5. ASSUME NEW c \in Sockets, Record(c)  PROVE CheckpointTypeOK'
  BY <1>5, <1>t, <1>c, Zenon DEF CheckpointTypeOK, Record
<1>6. ASSUME NEW c \in Sockets, EndConnection(c)  PROVE CheckpointTypeOK'
  BY <1>6, <1>t, <1>c DEF CheckpointTypeOK, EndConnection
<1>7. ASSUME NEW c \in Sockets, DetachBinding(c)  PROVE CheckpointTypeOK'
  BY <1>7, <1>t, Zenon DEF CheckpointTypeOK, DetachBinding
<1>8. CASE AppendEvent
  BY <1>8, <1>t DEF CheckpointTypeOK, AppendEvent
<1>9. CASE Flush
  BY <1>9, <1>t, Zenon DEF CheckpointTypeOK, Flush
<1>10. CASE DeleteSynced
  BY <1>10, <1>t, <1>c, Zenon DEF CheckpointTypeOK, DeleteSynced
<1>11. CASE SyncFails
  BY <1>11, <1>t, <1>c, Zenon DEF CheckpointTypeOK, SyncFails
<1>12. ASSUME NEW r \in requests, SyncGatewayConnections(r)  PROVE CheckpointTypeOK'
  <2>1. r.sequence \in Nat
    BY <1>t, Zenon DEF CheckpointSet
  <2> QED  BY <1>12, <2>1, <1>t, Zenon DEF CheckpointTypeOK, SyncGatewayConnections
<1>13. CASE UNCHANGED checkpointVars
  BY <1>13, <1>t, Zenon DEF CheckpointTypeOK, checkpointVars
<1> QED
  BY <1>1, <1>2, <1>3, <1>4, <1>5, <1>6, <1>7, <1>8, <1>9, <1>10, <1>11, <1>12, <1>13, Zenon
     DEF CheckpointNext

(* What the Gateway has written, recorded and had acknowledged stays in the  *)
(* order of the session's events, and a connection that has begun never      *)
(* takes back a position or its epoch (frames.go, client.go).                *)
LEMMA SocketStep ==
    ASSUME CheckpointTypeOK, PositionsOrdered, [CheckpointNext]_checkpointVars
    PROVE  /\ PositionsOrdered'
           /\ session.sequence <= session'.sequence /\ session.acked <= session'.acked
           /\ \A c \in Sockets : socket[c].phase # "new" =>
                /\ socket'[c].phase # "new" /\ socket'[c].epoch = socket[c].epoch
                /\ socket[c].acked <= socket'[c].acked /\ socket[c].got <= socket'[c].got
<1> DEFINE Goal == /\ PositionsOrdered'
                   /\ session.sequence <= session'.sequence /\ session.acked <= session'.acked
                   /\ \A c \in Sockets : socket[c].phase # "new" =>
                        /\ socket'[c].phase # "new" /\ socket'[c].epoch = socket[c].epoch
                        /\ socket[c].acked <= socket'[c].acked
                        /\ socket[c].got <= socket'[c].got
<1> USE CheckpointConstants DEF Phases
<1>t. /\ socket \in [Sockets -> [phase : Phases, epoch : Nat, got : Nat, ready : Nat,
                                 queued : Nat, highest : Nat, acked : Nat, noting : BOOLEAN]]
      /\ session \in [bound : Sockets \cup {NoSocket}, epoch : Nat, sequence : Nat, acked : Nat]
  BY Zenon DEF CheckpointTypeOK
<1>s. ASSUME UNCHANGED <<socket, session>>  PROVE Goal
  BY <1>s, <1>t DEF PositionsOrdered
<1>1. ASSUME NEW c \in Sockets, NEW q \in 0 .. MaxSequence, Bind(c, q)  PROVE Goal
  <2>1. q \in Nat /\ q <= session.sequence
    BY <1>1, <1>t DEF Bind, PositionsOrdered
  <2> QED  BY <1>1, <1>t, <2>1 DEF PositionsOrdered, Bind
<1>2. ASSUME NEW c \in Sockets, NEW q \in 0 .. MaxSequence, HandleHeartbeat(c, q)  PROVE Goal
  BY <1>2, <1>t DEF PositionsOrdered, HandleHeartbeat
<1>3. ASSUME NEW c \in Sockets, WriteFrame(c)  PROVE Goal
  BY <1>3, <1>t DEF PositionsOrdered, WriteFrame
<1>4. ASSUME NEW c \in Sockets, RecordBindingMetadata(c)  PROVE Goal
  BY <1>4, <1>t DEF PositionsOrdered, RecordBindingMetadata
<1>5. ASSUME NEW c \in Sockets, Record(c)  PROVE Goal
  BY <1>5, <1>t DEF PositionsOrdered, Record
<1>6. ASSUME NEW c \in Sockets, EndConnection(c)  PROVE Goal
  BY <1>6, <1>t DEF PositionsOrdered, EndConnection
<1>7. ASSUME NEW c \in Sockets, DetachBinding(c)  PROVE Goal
  BY <1>7, <1>t DEF PositionsOrdered, DetachBinding
<1>8. CASE AppendEvent
  BY <1>8, <1>t DEF PositionsOrdered, AppendEvent
<1>9. ASSUME Flush \/ DeleteSynced \/ SyncFails \/ UNCHANGED checkpointVars  PROVE Goal
  BY <1>9, <1>s, Zenon DEF Flush, DeleteSynced, SyncFails, checkpointVars
<1>10. ASSUME NEW r \in requests, SyncGatewayConnections(r)  PROVE Goal
  <2>1. r.sequence \in Nat
    BY Zenon DEF CheckpointTypeOK, CheckpointSet
  <2> QED  BY <1>10, <2>1, <1>t DEF PositionsOrdered, SyncGatewayConnections
<1> QED
  BY <1>1, <1>2, <1>3, <1>4, <1>5, <1>6, <1>7, <1>8, <1>9, <1>10, Zenon DEF CheckpointNext

(* The bound connection is the one bound last.                               *)
LEMMA BoundStep ==
    ASSUME CheckpointTypeOK, BoundIsLatest, [CheckpointNext]_checkpointVars,
           \A c \in Sockets : socket[c].phase # "new" =>
               socket'[c].phase # "new" /\ socket'[c].epoch = socket[c].epoch
    PROVE  BoundIsLatest'
<1>t. /\ socket \in [Sockets -> [phase : Phases, epoch : Nat, got : Nat, ready : Nat,
                                 queued : Nat, highest : Nat, acked : Nat, noting : BOOLEAN]]
      /\ session \in [bound : Sockets \cup {NoSocket}, epoch : Nat, sequence : Nat, acked : Nat]
  BY Zenon DEF CheckpointTypeOK
<1>s. ASSUME session'.bound = session.bound, session'.epoch = session.epoch
      PROVE  BoundIsLatest'
  BY <1>s, Zenon DEF BoundIsLatest
<1>1. ASSUME NEW c \in Sockets, NEW q \in 0 .. MaxSequence, Bind(c, q)  PROVE BoundIsLatest'
  BY <1>1, <1>t, Zenon DEF BoundIsLatest, Bind
<1>2. ASSUME NEW c \in Sockets, NEW q \in 0 .. MaxSequence, HandleHeartbeat(c, q)
      PROVE  BoundIsLatest'
  BY <1>2, <1>s, Zenon DEF HandleHeartbeat
<1>3. ASSUME NEW c \in Sockets,
             \/ WriteFrame(c) \/ RecordBindingMetadata(c) \/ Record(c) \/ EndConnection(c)
      PROVE  BoundIsLatest'
  BY <1>3, <1>s, Zenon DEF WriteFrame, RecordBindingMetadata, Record, EndConnection
<1>4. ASSUME NEW c \in Sockets, DetachBinding(c)  PROVE BoundIsLatest'
  BY <1>4, <1>t, CheckpointConstants, Zenon DEF BoundIsLatest, DetachBinding
<1>5. CASE AppendEvent
  BY <1>5, <1>t, <1>s, Zenon DEF AppendEvent
<1>6. CASE Flush \/ DeleteSynced \/ SyncFails \/ UNCHANGED checkpointVars
  BY <1>6, <1>s, Zenon DEF Flush, DeleteSynced, SyncFails, checkpointVars
<1>7. ASSUME NEW r \in requests, SyncGatewayConnections(r)  PROVE BoundIsLatest'
  BY <1>7, <1>t, <1>s, Zenon DEF SyncGatewayConnections
<1> QED
  BY <1>1, <1>2, <1>3, <1>4, <1>5, <1>6, <1>7, Zenon DEF CheckpointNext

(* A checkpoint that record has noted, flush has copied or a request carries *)
(* names an epoch of its connection and a sequence acknowledged on it.       *)
LEMMA TakenStep ==
    ASSUME CheckpointTypeOK, PositionsOrdered, CheckpointsWereTaken,
           [CheckpointNext]_checkpointVars,
           \A c \in Sockets : socket[c].phase # "new" =>
               /\ socket'[c].phase # "new" /\ socket'[c].epoch = socket[c].epoch
               /\ socket[c].acked <= socket'[c].acked
    PROVE  CheckpointsWereTaken'
<1>t. /\ socket \in [Sockets -> [phase : Phases, epoch : Nat, got : Nat, ready : Nat,
                                 queued : Nat, highest : Nat, acked : Nat, noting : BOOLEAN]]
      /\ \A k \in {dirty, batch} \cup requests : k.sequence \in Nat
  BY Zenon DEF CheckpointTypeOK, CheckpointSet
<1>a. \A c \in Sockets :
         socket[c].acked \in Nat /\ (socket[c].phase # "new" => socket'[c].acked \in Nat)
  <2>1. CheckpointTypeOK'
    BY CheckpointTypeStep, Zenon
  <2> QED  BY <1>t, <2>1, Zenon DEF CheckpointTypeOK
<1>k. ASSUME NEW k \in {dirty, batch} \cup requests, k # Clean
      PROVE  \E c \in Sockets : TakenFrom(k, c)'
  <2>1. PICK c \in Sockets : TakenFrom(k, c)
    BY <1>k, Zenon DEF CheckpointsWereTaken
  <2>2. TakenFrom(k, c)'
    BY <2>1, <1>t, <1>a DEF TakenFrom
  <2> QED  BY <2>2, Zenon
<1>1. ASSUME {dirty', batch'} \cup requests' \subseteq {dirty, batch, Clean} \cup requests
      PROVE  CheckpointsWereTaken'
  BY <1>1, <1>k, Zenon DEF CheckpointsWereTaken, Clean
<1>2. ASSUME NEW c \in Sockets, Record(c)  PROVE CheckpointsWereTaken'
  <2>1. dirty' \in {dirty, CheckpointOf(c)} /\ batch' = batch /\ requests' = requests
    BY <1>2, Zenon DEF Record
  <2>2. socket'[c].acked = socket[c].acked /\ socket[c].phase = "ready"
    BY <1>2, <1>t, Zenon DEF Record, PositionsOrdered
  <2>3. CheckpointOf(c)' = CheckpointOf(c) /\ TakenFrom(CheckpointOf(c), c)'
    BY <2>2, <1>t, Zenon DEF TakenFrom, CheckpointOf
  <2> QED  BY <2>1, <2>3, <1>k, Zenon DEF CheckpointsWereTaken, Clean
<1>3. ASSUME NEW c \in Sockets, NEW q \in 0 .. MaxSequence, Bind(c, q) \/ HandleHeartbeat(c, q)
      PROVE  CheckpointsWereTaken'
  BY <1>3, <1>1, Zenon DEF Bind, HandleHeartbeat
<1>4. ASSUME NEW c \in Sockets,
             WriteFrame(c) \/ RecordBindingMetadata(c) \/ EndConnection(c) \/ DetachBinding(c)
      PROVE  CheckpointsWereTaken'
  BY <1>4, <1>1, Zenon DEF WriteFrame, RecordBindingMetadata, EndConnection, DetachBinding
<1>5. CASE AppendEvent \/ Flush \/ DeleteSynced \/ SyncFails \/ UNCHANGED checkpointVars
  BY <1>5, <1>1, Zenon DEF AppendEvent, Flush, DeleteSynced, SyncFails, checkpointVars
<1>6. ASSUME NEW r \in requests, SyncGatewayConnections(r)  PROVE CheckpointsWereTaken'
  BY <1>6, <1>1, Zenon DEF SyncGatewayConnections
<1> QED
  BY <1>2, <1>3, <1>4, <1>5, <1>6, Zenon DEF CheckpointNext

(* A checkpoint whose call has returned is applied, if its connection is     *)
(* still the bound one; so deleteSynced drops nothing the session lacks.     *)
LEMMA AnsweredStep ==
    ASSUME CheckpointInv, CheckpointNext \/ UNCHANGED checkpointVars,
           session.acked <= session'.acked
    PROVE  AnsweredIsApplied'
<1>t. /\ session \in [bound : Sockets \cup {NoSocket}, epoch : Nat, sequence : Nat, acked : Nat]
      /\ batch.sequence \in Nat /\ session'.acked \in Nat
      /\ socket \in [Sockets -> [phase : Phases, epoch : Nat, got : Nat, ready : Nat,
                                 queued : Nat, highest : Nat, acked : Nat, noting : BOOLEAN]]
  <2>1. CheckpointTypeOK'
    BY CheckpointTypeStep, Zenon DEF CheckpointInv
  <2> QED  BY <2>1, Zenon DEF CheckpointInv, CheckpointTypeOK, CheckpointSet
<1>a. AnsweredIsApplied
  BY Zenon DEF CheckpointInv
<1>s. ASSUME batch' = batch, batch \in requests => batch \in requests',
             session'.bound \in {session.bound, NoSocket}
      PROVE  AnsweredIsApplied'
  <2> SUFFICES ASSUME batch # Clean, batch \notin requests, batch.conn = session'.bound
               PROVE  batch.sequence <= session'.acked
    BY <1>s, Zenon DEF AnsweredIsApplied, Clean
  <2>1. batch.conn \in Sockets
    BY Zenon DEF CheckpointInv, CheckpointsWereTaken, TakenFrom
  <2>2. batch.conn = session.bound
    BY <2>1, <1>s, CheckpointConstants, Zenon
  <2> QED  BY <2>2, <1>a, <1>t DEF AnsweredIsApplied
<1>1. ASSUME NEW c \in Sockets, NEW q \in 0 .. MaxSequence, Bind(c, q)  PROVE AnsweredIsApplied'
  <2>1. socket[c].phase = "new" /\ session'.bound = c /\ batch' = batch
    BY <1>1, <1>t, Zenon DEF Bind
  <2>2. batch # Clean => batch.conn # c
    BY <2>1, Zenon DEF CheckpointInv, CheckpointsWereTaken, TakenFrom
  <2> QED  BY <2>1, <2>2, Zenon DEF AnsweredIsApplied, Clean
<1>2. ASSUME NEW c \in Sockets, NEW q \in 0 .. MaxSequence, HandleHeartbeat(c, q)
      PROVE  AnsweredIsApplied'
  BY <1>2, <1>s, Zenon DEF HandleHeartbeat
<1>3. ASSUME NEW c \in Sockets,
             WriteFrame(c) \/ RecordBindingMetadata(c) \/ Record(c) \/ EndConnection(c)
      PROVE  AnsweredIsApplied'
  BY <1>3, <1>s, Zenon DEF WriteFrame, RecordBindingMetadata, Record, EndConnection
<1>4. ASSUME NEW c \in Sockets, DetachBinding(c)  PROVE AnsweredIsApplied'
  BY <1>4, <1>s, <1>t, Zenon DEF DetachBinding
<1>5. CASE AppendEvent \/ UNCHANGED checkpointVars
  BY <1>5, <1>s, <1>t, Zenon DEF AppendEvent, checkpointVars
<1>6. CASE Flush
  BY <1>6, Zenon DEF Flush, AnsweredIsApplied
<1>7. CASE DeleteSynced \/ SyncFails
  BY <1>7, Zenon DEF DeleteSynced, SyncFails, AnsweredIsApplied, Clean
<1>8. ASSUME NEW r \in requests, SyncGatewayConnections(r)  PROVE AnsweredIsApplied'
  <2>1. CASE r # batch
    BY <2>1, <1>8, <1>s, <1>t, Zenon DEF SyncGatewayConnections
  <2>2. CASE r = batch
    <3> SUFFICES ASSUME batch # Clean, batch.conn = session.bound
                 PROVE  batch.sequence <= session'.acked
      BY <2>2, <1>8, <1>t, Zenon DEF AnsweredIsApplied, SyncGatewayConnections, Clean
    <3>1. PICK c \in Sockets : TakenFrom(batch, c)
      BY Zenon DEF CheckpointInv, CheckpointsWereTaken
    <3>2. batch.sequence <= session.sequence
      BY <3>1, <1>t DEF CheckpointInv, PositionsOrdered, TakenFrom
    <3>3. batch.epoch = session.epoch
      BY <3>1, Zenon DEF CheckpointInv, BoundIsLatest, TakenFrom
    <3> QED  BY <2>2, <3>2, <3>3, <1>8, <1>t DEF SyncGatewayConnections, Applies
  <2> QED  BY <2>1, <2>2, Zenon
<1> QED
  BY <1>1, <1>2, <1>3, <1>4, <1>5, <1>6, <1>7, <1>8, Zenon DEF CheckpointNext

(* No checkpoint, however late, moves the session past what its client has.  *)
LEMMA WithinStep ==
    ASSUME CheckpointInv, CheckpointNext \/ UNCHANGED checkpointVars,
           \A c \in Sockets : socket[c].phase # "new" => socket[c].got <= socket'[c].got
    PROVE  AckWithinBinding'
<1>t. /\ session \in [bound : Sockets \cup {NoSocket}, epoch : Nat, sequence : Nat, acked : Nat]
      /\ socket \in [Sockets -> [phase : Phases, epoch : Nat, got : Nat, ready : Nat,
                                 queued : Nat, highest : Nat, acked : Nat, noting : BOOLEAN]]
      /\ \A c \in Sockets : socket'[c].got \in Nat
      /\ \A r \in requests : r.sequence \in Nat
  <2>1. CheckpointTypeOK'
    BY CheckpointTypeStep, Zenon DEF CheckpointInv
  <2> QED  BY <2>1, Zenon DEF CheckpointInv, CheckpointTypeOK, CheckpointSet
<1>a. session.bound \in Sockets => /\ session.acked <= socket[session.bound].got
                                  /\ socket[session.bound].got <= socket'[session.bound].got
  BY Zenon DEF CheckpointInv, AcksReachBinding, AckWithinBinding, BoundIsLatest
<1>s. ASSUME session'.acked = session.acked, session'.bound \in {session.bound, NoSocket}
      PROVE  AckWithinBinding'
  BY <1>s, <1>a, <1>t, CheckpointConstants DEF AckWithinBinding
<1>1. ASSUME NEW c \in Sockets, NEW q \in 0 .. MaxSequence, Bind(c, q)  PROVE AckWithinBinding'
  BY <1>1, <1>t, Zenon DEF AckWithinBinding, Bind
<1>2. ASSUME NEW c \in Sockets, NEW q \in 0 .. MaxSequence, HandleHeartbeat(c, q)
      PROVE  AckWithinBinding'
  BY <1>2, <1>s, Zenon DEF HandleHeartbeat
<1>3. ASSUME NEW c \in Sockets,
             WriteFrame(c) \/ RecordBindingMetadata(c) \/ Record(c) \/ EndConnection(c)
      PROVE  AckWithinBinding'
  BY <1>3, <1>s, Zenon DEF WriteFrame, RecordBindingMetadata, Record, EndConnection
<1>4. ASSUME NEW c \in Sockets, DetachBinding(c)  PROVE AckWithinBinding'
  BY <1>4, <1>s, <1>t, Zenon DEF DetachBinding
<1>5. CASE AppendEvent
  BY <1>5, <1>s, <1>t, Zenon DEF AppendEvent
<1>6. CASE Flush \/ DeleteSynced \/ SyncFails \/ UNCHANGED checkpointVars
  BY <1>6, <1>s, Zenon DEF Flush, DeleteSynced, SyncFails, checkpointVars
<1>7. ASSUME NEW r \in requests, SyncGatewayConnections(r)  PROVE AckWithinBinding'
  <2>1. CASE session' = session
    BY <2>1, <1>s, Zenon
  <2>2. CASE session' # session
    <3>1. /\ session' = [session EXCEPT !.acked = r.sequence] /\ socket' = socket
          /\ r.conn = session.bound /\ r.sequence > session.acked
      BY <2>2, <1>7, Zenon DEF SyncGatewayConnections, Applies
    <3>2. r # Clean
      BY <3>1, <1>t DEF Clean
    <3>3. PICK c \in Sockets : TakenFrom(r, c)
      BY <3>2, Zenon DEF CheckpointInv, CheckpointsWereTaken
    <3>4. r.sequence <= socket[session.bound].got
      BY <3>1, <3>3, <1>t, SMTT(20) DEF CheckpointInv, PositionsOrdered, TakenFrom
    <3> QED  BY <3>1, <3>4, <1>t, Zenon DEF AckWithinBinding
  <2> QED  BY <2>1, <2>2, Zenon
<1> QED
  BY <1>1, <1>2, <1>3, <1>4, <1>5, <1>6, <1>7, Zenon DEF CheckpointNext

(* What was acknowledged is noted until it is applied.                       *)
LEMMA PendingStep ==
    ASSUME CheckpointInv, CheckpointNext \/ UNCHANGED checkpointVars,
           session.acked <= session'.acked
    PROVE  AckIsPending'
<1>t. /\ session \in [bound : Sockets \cup {NoSocket}, epoch : Nat, sequence : Nat, acked : Nat]
      /\ session'.acked \in Nat
      /\ socket \in [Sockets -> [phase : Phases, epoch : Nat, got : Nat, ready : Nat,
                                 queued : Nat, highest : Nat, acked : Nat, noting : BOOLEAN]]
      /\ dirty \in CheckpointSet
  <2>1. CheckpointTypeOK'
    BY CheckpointTypeStep, Zenon DEF CheckpointInv
  <2> QED  BY <2>1, Zenon DEF CheckpointInv, CheckpointTypeOK
<1> DEFINE Pending(c) == \/ socket[c].acked <= session.acked
                         \/ dirty = CheckpointOf(c)
                         \/ c \in displaced
           Awaits(c) == session.bound = c /\ socket[c].phase = "ready" /\ ~socket[c].noting
<1>a. \A c \in Sockets : Awaits(c) => Pending(c)
  BY Zenon DEF CheckpointInv, AcksReachBinding, AckIsPending
<1> SUFFICES ASSUME NEW d \in Sockets, Awaits(d)'
             PROVE  Pending(d)'
  BY Zenon DEF AckIsPending
<1>s. ASSUME Awaits(d), socket'[d].acked = socket[d].acked, socket'[d].epoch = socket[d].epoch,
             dirty = CheckpointOf(d) => dirty' = dirty, displaced \subseteq displaced'
      PROVE  Pending(d)'
  BY <1>s, <1>a, <1>t DEF CheckpointOf
<1>1. ASSUME NEW c \in Sockets, NEW q \in 0 .. MaxSequence, Bind(c, q)  PROVE Pending(d)'
  BY <1>1, <1>t, Zenon DEF Bind
<1>2. ASSUME NEW c \in Sockets, NEW q \in 0 .. MaxSequence, HandleHeartbeat(c, q)
      PROVE  Pending(d)'
  <2>1. c # d
    BY <1>2, <1>t, Zenon DEF HandleHeartbeat
  <2> QED  BY <2>1, <1>2, <1>s, <1>t, Zenon DEF HandleHeartbeat
<1>3. ASSUME NEW c \in Sockets, WriteFrame(c)  PROVE Pending(d)'
  BY <1>3, <1>s, <1>t, Zenon DEF WriteFrame
<1>4. ASSUME NEW c \in Sockets, RecordBindingMetadata(c)  PROVE Pending(d)'
  <2>1. CASE socket[d].phase = "ready"
    BY <2>1, <1>4, <1>s, <1>t DEF RecordBindingMetadata
  <2>2. CASE socket[d].phase # "ready"
    <3>1. socket[d].phase = "binding" /\ socket'[d].acked = socket[d].acked
      BY <2>2, <1>4, <1>t, Zenon DEF RecordBindingMetadata
    <3> QED  BY <3>1, <1>t DEF CheckpointInv, PositionsOrdered
  <2> QED  BY <2>1, <2>2, Zenon
<1>5. ASSUME NEW c \in Sockets, Record(c)  PROVE Pending(d)'
  <2>0. /\ session' = session
        /\ socket' = [socket EXCEPT ![c].noting = FALSE]
        /\ dirty' = IF \/ dirty.conn # c \/ dirty.epoch # socket[c].epoch
                       \/ socket[c].acked > dirty.sequence
                    THEN CheckpointOf(c) ELSE dirty
        /\ displaced' = IF dirty.conn \in Sockets \ {c} THEN displaced \cup {dirty.conn}
                        ELSE displaced
    BY <1>5, Zenon DEF Record, CheckpointOf
  <2>1. CASE c = d
    <3>1. CheckpointOf(d)' = CheckpointOf(d)
      BY <2>0, <1>t, Zenon DEF CheckpointOf
    <3>2. CASE dirty' = CheckpointOf(c)
      BY <3>1, <3>2, <2>1, Zenon
    <3>3. CASE dirty' # CheckpointOf(c)
      <4>1. /\ dirty' = dirty /\ dirty.conn = c /\ dirty.epoch = socket[c].epoch
            /\ ~(socket[c].acked > dirty.sequence)
        BY <2>0, <3>3, Zenon
      <4>2. dirty # Clean
        BY <4>1, CheckpointConstants DEF Clean
      <4>3. dirty.sequence <= socket[c].acked
        BY <4>1, <4>2, Zenon DEF CheckpointInv, CheckpointsWereTaken, TakenFrom
      <4>4. dirty.sequence = socket[c].acked
        BY <4>1, <4>3, <1>t DEF CheckpointSet
      <4>5. dirty = CheckpointOf(c)
        BY <4>1, <4>4, <1>t, Zenon DEF CheckpointOf, CheckpointSet
      <4> QED  BY <4>1, <4>5, <3>3, Zenon
    <3> QED  BY <3>2, <3>3, Zenon
  <2>2. CASE c # d
    <3>1. Awaits(d) /\ socket'[d] = socket[d] /\ CheckpointOf(d)' = CheckpointOf(d)
      BY <2>0, <2>2, <1>t, Zenon DEF CheckpointOf
    <3>2. ASSUME dirty = CheckpointOf(d)  PROVE d \in displaced'
      BY <3>2, <2>0, <2>2, Zenon DEF CheckpointOf
    <3>3. displaced \subseteq displaced'
      BY <2>0, Zenon
    <3> QED  BY <1>a, <3>1, <3>2, <3>3, <2>0, Zenon
  <2> QED  BY <2>1, <2>2, Zenon
<1>6. ASSUME NEW c \in Sockets, EndConnection(c)  PROVE Pending(d)'
  <2>1. c # d
    BY <1>6, <1>t, Zenon DEF EndConnection
  <2>2. dirty = CheckpointOf(d) => dirty' = dirty
    BY <2>1, <1>6 DEF EndConnection, CheckpointOf
  <2> QED  BY <2>1, <2>2, <1>6, <1>s, <1>t, Zenon DEF EndConnection
<1>7. ASSUME NEW c \in Sockets, DetachBinding(c)  PROVE Pending(d)'
  BY <1>7, <1>t, CheckpointConstants, Zenon DEF DetachBinding
<1>8. CASE AppendEvent
  BY <1>8, <1>s, <1>t DEF AppendEvent
<1>9. CASE Flush \/ SyncFails \/ UNCHANGED checkpointVars
  BY <1>9, <1>s, <1>t, Zenon DEF Flush, SyncFails, checkpointVars
<1>10. CASE DeleteSynced
  <2>1. CASE dirty = batch /\ dirty = CheckpointOf(d)
    <3>1. batch.conn = session.bound /\ batch.sequence = socket[d].acked
      BY <2>1, <1>10 DEF DeleteSynced, CheckpointOf
    <3>2. socket[d].acked <= session.acked
      BY <3>1, <1>10, Zenon DEF CheckpointInv, AnsweredIsApplied, DeleteSynced
    <3> QED  BY <3>2, <1>10, Zenon DEF DeleteSynced
  <2>2. CASE ~(dirty = batch /\ dirty = CheckpointOf(d))
    BY <2>2, <1>10, <1>s, Zenon DEF DeleteSynced
  <2> QED  BY <2>1, <2>2, Zenon
<1>11. ASSUME NEW r \in requests, SyncGatewayConnections(r)  PROVE Pending(d)'
  BY <1>11, <1>s, <1>t, Zenon DEF SyncGatewayConnections
<1> QED
  BY <1>1, <1>2, <1>3, <1>4, <1>5, <1>6, <1>7, <1>8, <1>9, <1>10, <1>11, Zenon DEF CheckpointNext

(* The session's acknowledged position is one its client has been at, and an *)
(* acknowledgement is applied, noted or displaced: for any number of         *)
(* connections, events and failed synchronizations (checkpoint.go;           *)
(* server.go, SyncGatewayConnections).                                       *)
THEOREM AcksAlwaysReachBinding == CheckpointSpec => []AcksReachBinding
<1>1. CheckpointInit => CheckpointInv
  <2> SUFFICES ASSUME CheckpointInit PROVE CheckpointInv
    OBVIOUS
  <2>1. CheckpointTypeOK
    BY CheckpointConstants, Zenon
       DEF CheckpointInit, CheckpointTypeOK, CheckpointSet, Phases, Nobody, Clean
  <2>2. PositionsOrdered
    <3>1. /\ \A c \in Sockets : socket[c] = Nobody
          /\ session.sequence = 0
      BY Zenon DEF CheckpointInit
    <3>2. /\ Nobody.acked = 0 /\ Nobody.highest = 0 /\ Nobody.got = 0 /\ Nobody.queued = 0
          /\ Nobody.phase = "new"
      BY Zenon DEF Nobody
    <3>3. ASSUME NEW c \in Sockets
          PROVE  /\ socket[c].acked = 0 /\ socket[c].highest = 0 /\ socket[c].got = 0
                 /\ socket[c].queued = 0 /\ socket[c].phase = "new"
      BY <3>1, <3>2, Zenon
    <3>4. ASSUME NEW c \in Sockets  PROVE ~socket[c].noting
      BY <3>1 DEF Nobody
    <3>5. ASSUME NEW c \in Sockets
          PROVE  /\ socket[c].acked <= socket[c].highest /\ socket[c].highest <= socket[c].got
                 /\ socket[c].got <= socket[c].queued /\ socket[c].queued <= session.sequence
      BY <3>1, <3>3
    <3> QED  BY <3>3, <3>4, <3>5, Zenon DEF PositionsOrdered
  <2>3. BoundIsLatest /\ AckWithinBinding /\ AckIsPending
    BY CheckpointConstants, Zenon DEF CheckpointInit, BoundIsLatest, AckWithinBinding, AckIsPending
  <2>4. CheckpointsWereTaken /\ AnsweredIsApplied
    BY Zenon DEF CheckpointInit, CheckpointsWereTaken, AnsweredIsApplied
  <2> QED  BY <2>1, <2>2, <2>3, <2>4, Zenon DEF CheckpointInv, AcksReachBinding
<1>2. CheckpointInv /\ [CheckpointNext]_checkpointVars => CheckpointInv'
  <2> SUFFICES ASSUME CheckpointInv, [CheckpointNext]_checkpointVars PROVE CheckpointInv'
    OBVIOUS
  <2>1. /\ PositionsOrdered'
        /\ session.acked <= session'.acked
        /\ \A c \in Sockets : socket[c].phase # "new" =>
             /\ socket'[c].phase # "new" /\ socket'[c].epoch = socket[c].epoch
             /\ socket[c].acked <= socket'[c].acked /\ socket[c].got <= socket'[c].got
    BY SocketStep, Zenon DEF CheckpointInv
  <2>2. CheckpointTypeOK'
    BY CheckpointTypeStep, Zenon DEF CheckpointInv
  <2>3. BoundIsLatest'
    BY <2>1, BoundStep, Zenon DEF CheckpointInv
  <2>4. CheckpointsWereTaken'
    BY <2>1, TakenStep, Zenon DEF CheckpointInv
  <2>5. AnsweredIsApplied' /\ AckIsPending'
    BY <2>1, AnsweredStep, PendingStep, Zenon
  <2>6. AckWithinBinding'
    BY <2>1, WithinStep, Zenon
  <2> QED  BY <2>1, <2>2, <2>3, <2>4, <2>5, <2>6, Zenon DEF CheckpointInv, AcksReachBinding
<1>3. CheckpointInv => AcksReachBinding
  BY Zenon DEF CheckpointInv
<1> QED  BY <1>1, <1>2, <1>3, PTL DEF CheckpointSpec

=============================================================================
