---------------------- MODULE PartitionConsumerProofs ----------------------
(***************************************************************************)
(* Proofs about PartitionConsumer, for every size of log, queue, poll and  *)
(* batch and any number of assignments and crashes.                        *)
(*                                                                         *)
(* OnlyCompletedCommitted is not inductive: a commit reads an offset that  *)
(* was stored by an earlier mark, a mark reads the record a worker holds,  *)
(* and the worker took it from a channel filled by enqueue.  CommitInv     *)
(* follows that path backwards: CommitSourcesInv for the committer's       *)
(* offsets, WorkerInv for the workers, StreamInv for what is still on its  *)
(* way to the current worker, LifecycleInv and HoldInv for who may act.    *)
(***************************************************************************)
EXTENDS PartitionConsumer, SequenceTheorems, TLAPS

USE DEF NoOffset, Offsets, Workers, Procs, Reasons, Busy, Ready

\* pauseLocked keeps the set of pause reasons and the pause flag well typed.
LEMMA PauseType ==
  ASSUME NEW r \in Reasons, pauseReasons \subseteq Reasons, paused \in BOOLEAN, pauseLocked(r)
  PROVE  pauseReasons' \subseteq Reasons /\ paused' \in BOOLEAN
<1>1. pauseReasons' \subseteq Reasons
  BY Zenon DEF pauseLocked
<1>2. paused' \in BOOLEAN
  BY Zenon DEF pauseLocked
<1> QED  BY <1>1, <1>2, Zenon

\* resumeLocked, or leaving both alone, keeps the pause reasons and the flag well typed.
LEMMA ResumeType ==
  ASSUME NEW r, pauseReasons \subseteq Reasons, paused \in BOOLEAN,
         resumeLocked(r) \/ UNCHANGED pauseVars
  PROVE  pauseReasons' \subseteq Reasons /\ paused' \in BOOLEAN
<1>1. pauseReasons' \subseteq Reasons
  BY Zenon DEF resumeLocked, pauseVars
<1>2. paused' \in BOOLEAN
  BY Zenon DEF resumeLocked, pauseVars
<1> QED  BY <1>1, <1>2, Zenon

\* A commit leaves the committed offset within the log, whether Kafka applies it or not.
LEMMA CommitType ==
  ASSUME NEW o \in [applied : BOOLEAN, ok : BOOLEAN], NEW offset \in Offsets,
         committed \in 0 .. Records, CommitRecords(offset, o)
  PROVE  committed' \in 0 .. Records
BY ConstantsAssumption DEF CommitRecords

\* The two parts of a concatenation: afterProcessed appends queued records to the
\* channel of the worker.
LEMMA ConcatParts ==
  ASSUME NEW q \in Seq(Offsets), NEW m \in Seq(Offsets)
  PROVE  /\ Len(q \o m) = Len(q) + Len(m)
         /\ \A i \in 1 .. Len(q) : (q \o m)[i] = q[i]
         /\ \A i \in 1 .. Len(m) : (q \o m)[Len(q) + i] = m[i]
<1>1. Len(q) \in Nat /\ Len(m) \in Nat
  BY LenProperties, Zenon
<1>2. /\ Len(q \o m) = Len(q) + Len(m)
      /\ \A i \in 1 .. Len(q) + Len(m) :
           (q \o m)[i] = IF i <= Len(q) THEN q[i] ELSE m[i - Len(q)]
  BY ConcatProperties, Zenon
<1>3. ASSUME NEW i \in 1 .. Len(q) PROVE (q \o m)[i] = q[i]
  <2>1. i \in 1 .. Len(q) + Len(m) /\ i <= Len(q)
    BY <1>1
  <2> QED  BY <1>2, <2>1, Zenon
<1>4. ASSUME NEW i \in 1 .. Len(m) PROVE (q \o m)[Len(q) + i] = m[i]
  <2>1. /\ Len(q) + i \in 1 .. Len(q) + Len(m) /\ ~(Len(q) + i <= Len(q))
        /\ (Len(q) + i) - Len(q) = i
    BY <1>1
  <2> QED  BY <1>2, <2>1, Zenon
<1> QED  BY <1>2, <1>3, <1>4, Zenon

\* The two parts of a sequence that is cut: afterProcessed moves as many queued
\* records as the channel has room for and keeps the rest.
LEMMA TakePrefix ==
  ASSUME NEW q \in Seq(Offsets), NEW n \in 0 .. Len(q)
  PROVE  /\ SubSeq(q, 1, n) \in Seq(Offsets) /\ Len(SubSeq(q, 1, n)) = n
         /\ \A i \in 1 .. n : SubSeq(q, 1, n)[i] = q[i]
         /\ SubSeq(q, n + 1, Len(q)) \in Seq(Offsets)
         /\ Len(SubSeq(q, n + 1, Len(q))) = Len(q) - n
         /\ \A i \in 1 .. Len(q) - n : SubSeq(q, n + 1, Len(q))[i] = q[n + i]
<1>1. Len(q) \in Nat /\ \A i \in 1 .. Len(q) : q[i] \in Offsets
  BY Zenon, LenProperties
<1>2. /\ n \in Int /\ Len(q) \in Int /\ 1 \in Int /\ n + 1 \in Int
      /\ \A i \in 1 .. n : q[i] \in Offsets
      /\ \A i \in n + 1 .. Len(q) : q[i] \in Offsets
  BY <1>1
<1> HIDE DEF Offsets
<1>3. /\ SubSeq(q, 1, n) \in Seq(Offsets)
      /\ Len(SubSeq(q, 1, n)) = IF 1 <= n THEN n - 1 + 1 ELSE 0
      /\ \A i \in 1 .. n - 1 + 1 : SubSeq(q, 1, n)[i] = q[1 + i - 1]
  BY <1>2, SubSeqProperties
<1>4. /\ SubSeq(q, n + 1, Len(q)) \in Seq(Offsets)
      /\ Len(SubSeq(q, n + 1, Len(q))) = IF n + 1 <= Len(q) THEN Len(q) - (n + 1) + 1 ELSE 0
      /\ \A i \in 1 .. Len(q) - (n + 1) + 1 : SubSeq(q, n + 1, Len(q))[i] = q[(n + 1) + i - 1]
  BY <1>2, SubSeqProperties
<1>5. Len(SubSeq(q, 1, n)) = n /\ Len(SubSeq(q, n + 1, Len(q))) = Len(q) - n
  BY <1>1, <1>3, <1>4
<1>6. \A i \in 1 .. n : SubSeq(q, 1, n)[i] = q[i]
  BY <1>1, <1>3
<1>7. \A i \in 1 .. Len(q) - n : SubSeq(q, n + 1, Len(q))[i] = q[n + i]
  BY <1>1, <1>4
<1> QED  BY <1>3, <1>4, <1>5, <1>6, <1>7, Zenon

\* Every step of the consumer preserves the type invariant, the bound on the
\* channel of a worker included.
LEMMA TypeStep ==
  ASSUME TypeOK, [Next]_vars
  PROVE  TypeOK'
<1> USE ConstantsAssumption
<1> USE DEF TypeOK, RuntimeType, WorkerType, CommitterType
<1> USE DEF kafkaVars, runVars, pauseVars, workerVars, commitVars, procVars
<1>1. CASE assign
  <2>1. CASE stopped
    BY <1>1, <2>1 DEF assign
  <2>2. CASE ~stopped
    <3>1. assignments + 1 \in Workers
      BY <1>1 DEF assign
    <3>2. /\ cur' = assignments + 1 /\ paused' = FALSE
          /\ pc' = [pc EXCEPT ![assignments + 1] = "idle"]
          /\ active' = [active EXCEPT ![assignments + 1] = TRUE]
          /\ ctxDone' = [ctxDone EXCEPT ![assignments + 1] = closed]
          /\ UNCHANGED <<rec, attempt, records, lastCompleted>>
      BY <1>1, <2>2, Zenon DEF assign
    <3>3. WorkerType'
      BY Zenon, <3>1, <3>2
    <3>5. RuntimeType'
      <4>1. /\ assignments' = assignments + 1 /\ member' = "in" /\ fetchPos' = committed
            /\ fetched' = committed
            /\ UNCHANGED <<committed, polled, queued, stopped, closed, pauseReasons, crashes,
                           settled>>
        BY <1>1, Zenon DEF assign
      <4>2. /\ paused' \in BOOLEAN /\ stopped' \in BOOLEAN /\ closed' \in BOOLEAN
        BY Zenon, <3>2, <4>1
      <4>3. /\ polled' \in Seq(Offsets) /\ queued' \in Seq(Offsets)
        BY <4>1, Zenon
      <4>4. /\ assignments' \in 0 .. MaxAssignments /\ cur' \in 0 .. assignments'
        BY <3>1, <3>2, <4>1
      <4> QED  BY <4>1, <4>2, <4>3, <4>4
    <3>4. CommitterType'
      BY <1>1, Zenon DEF assign
    <3> QED  BY Zenon, <3>3, <3>4, <3>5
  <2> QED  BY Zenon, <2>1, <2>2
<1>2. CASE Fetch
  <2>1. RuntimeType'
    BY <1>2 DEF Fetch
  <2>2. WorkerType'
    BY <1>2, Zenon DEF Fetch
  <2>3. CommitterType'
    BY <1>2, Zenon DEF Fetch
  <2> QED  BY Zenon, <2>1, <2>2, <2>3
<1>3. CASE Poll
  <2>1. RuntimeType'
    BY <1>3 DEF Poll, Min2
  <2>2. WorkerType'
    BY <1>3, Zenon DEF Poll, Min2
  <2>3. CommitterType'
    BY <1>3, Zenon DEF Poll, Min2
  <2> QED  BY Zenon, <2>1, <2>2, <2>3
<1>4. CASE Evict
  <2>1. RuntimeType'
    BY <1>4, Zenon DEF Evict
  <2>2. WorkerType'
    BY <1>4, Zenon DEF Evict
  <2>3. CommitterType'
    BY <1>4, Zenon DEF Evict
  <2> QED  BY Zenon, <2>1, <2>2, <2>3
<1>5. CASE OtherMember
  <2>1. RuntimeType'
    BY <1>5 DEF OtherMember
  <2>2. WorkerType'
    BY <1>5, Zenon DEF OtherMember
  <2>3. CommitterType'
    BY <1>5, Zenon DEF OtherMember
  <2> QED  BY Zenon, <2>1, <2>2, <2>3
<1>6. CASE enqueue
  <2>1. polled # <<>> /\ Head(polled) \in Offsets /\ Tail(polled) \in Seq(Offsets)
    <3>1. polled # <<>>
      BY <1>6, Zenon DEF enqueue
    <3> QED  BY <3>1, HeadTailProperties, Zenon
  <2>2. CommitterType'
    BY <1>6, Zenon DEF enqueue
  <2>3. CASE UNCHANGED <<queued, pauseVars, records>>
    BY Zenon, <1>6, <2>1, <2>2, <2>3 DEF enqueue
  <2>4. CASE /\ cur # 0 /\ ~MustQueue
             /\ records' = [records EXCEPT ![cur] = Append(@, Head(polled))]
             /\ UNCHANGED <<queued, pauseVars>>
    <3>1. cur \in Workers /\ Append(records[cur], Head(polled)) \in Seq(Offsets)
      BY <2>1, <2>4
    <3>2. Len(Append(records[cur], Head(polled))) <= QueueSize
      BY <2>1, <2>4, <3>1 DEF MustQueue, HasRoom
    <3>3. WorkerType'
      BY Zenon, <1>6, <2>4, <3>1, <3>2 DEF enqueue
    <3>4. RuntimeType'
      BY <1>6, <2>1, <2>4, SMTT(20) DEF enqueue
    <3> QED  BY Zenon, <2>2, <3>3, <3>4
  <2>5. CASE /\ queued' = Append(queued, Head(polled)) /\ pauseLocked("queue")
             /\ UNCHANGED records
    <3>1. queued' \in Seq(Offsets)
      BY <2>1, <2>5
    <3>2. pauseReasons' \subseteq Reasons /\ paused' \in BOOLEAN
      BY Zenon, <2>5, PauseType
    <3> QED  BY Zenon, <1>6, <2>1, <2>2, <2>5, <3>1, <3>2 DEF enqueue
  <2> QED  BY Zenon, <1>6, <2>3, <2>4, <2>5 DEF enqueue
<1>7. ASSUME NEW w \in Workers, Take(w) PROVE TypeOK'
  <2>1. RuntimeType'
    BY <1>7, Zenon DEF Take
  <2>2. WorkerType'
    <3>1. /\ Head(records[w]) \in Offsets /\ Tail(records[w]) \in Seq(Offsets)
          /\ Len(Tail(records[w])) <= QueueSize
      BY <1>7, SMTT(20) DEF Take
    <3>2. /\ pc' = [pc EXCEPT ![w] = "handling"]
          /\ rec' = [rec EXCEPT ![w] = Head(records[w])]
          /\ records' = [records EXCEPT ![w] = Tail(records[w])]
          /\ UNCHANGED <<attempt, ctxDone, active, lastCompleted>>
      BY <1>7, Zenon DEF Take
    <3>3. records' \in [Workers -> Seq(Offsets)]
      BY <3>1, <3>2, Zenon
    <3>4. /\ pc' \in [Workers -> {"none", "exited"} \cup Busy \cup Ready]
          /\ rec' \in [Workers -> Offsets \cup {NoOffset}]
      BY <3>1, <3>2, SMTT(20)
    <3>5. \A v \in Workers : Len(records'[v]) <= QueueSize
      BY <3>1, <3>2, Zenon
    <3>6. \A v \in Workers : pc'[v] \in Busy => rec'[v] # NoOffset
      BY <3>1, <3>2, SMTT(20)
    <3> QED  BY Zenon, <3>2, <3>3, <3>4, <3>5, <3>6
  <2>3. CommitterType'
    BY <1>7, Zenon DEF Take
  <2> QED  BY Zenon, <2>1, <2>2, <2>3
<1>8. ASSUME NEW w \in Workers, Exit(w) PROVE TypeOK'
  <2>1. RuntimeType'
    BY <1>8, Zenon DEF Exit
  <2>2. WorkerType'
    BY Zenon, <1>8 DEF Exit
  <2>3. CommitterType'
    BY <1>8, Zenon DEF Exit
  <2> QED  BY Zenon, <2>1, <2>2, <2>3
<1>9. ASSUME NEW w \in Workers, Settle(w) PROVE TypeOK'
  <2>1. RuntimeType'
    BY Zenon, <1>9 DEF Settle
  <2>2. WorkerType'
    BY Zenon, <1>9 DEF Settle
  <2>3. CommitterType'
    BY <1>9, Zenon DEF Settle
  <2> QED  BY Zenon, <2>1, <2>2, <2>3
<1>10. ASSUME NEW w \in Workers, FirstFailure(w) PROVE TypeOK'
  <2>1. RuntimeType'
    BY Zenon, <1>10 DEF FirstFailure, pauseLocked
  <2>2. WorkerType'
    BY <1>10, SMTT(20) DEF FirstFailure, pauseLocked
  <2>3. CommitterType'
    BY <1>10, Zenon DEF FirstFailure, pauseLocked
  <2> QED  BY Zenon, <2>1, <2>2, <2>3
<1>11. ASSUME NEW w \in Workers, RetryFailure(w) PROVE TypeOK'
  <2>1. RuntimeType'
    BY ZenonT(30), <1>11 DEF RetryFailure
  <2>2. WorkerType'
    <3>1. PICK n \in Nat : attempt' = [attempt EXCEPT ![w] = n]
      BY <1>11, SMTT(20) DEF RetryFailure
    <3>2. pc' = pc \/ pc' = [pc EXCEPT ![w] = "returned"]
      BY <1>11, Zenon DEF RetryFailure
    <3>3. pc[w] = "backoff" /\ UNCHANGED <<rec, records, ctxDone, active, lastCompleted>>
      BY <1>11, Zenon DEF RetryFailure
    <3> QED  BY Zenon, <3>1, <3>2, <3>3
  <2>3. CommitterType'
    BY <1>11, Zenon DEF RetryFailure
  <2> QED  BY Zenon, <2>1, <2>2, <2>3
<1>12. ASSUME NEW w \in Workers, CheckContext(w) PROVE TypeOK'
  <2>1. RuntimeType'
    BY <1>12, Zenon DEF CheckContext
  <2>2. WorkerType'
    BY <1>12, SMTT(20) DEF CheckContext
  <2>3. CommitterType'
    BY <1>12, Zenon DEF CheckContext
  <2> QED  BY Zenon, <2>1, <2>2, <2>3
<1>13. ASSUME NEW w \in Workers, markCompleted(w) PROVE TypeOK'
  <2>1. RuntimeType'
    BY Zenon, <1>13 DEF markCompleted, mark, setCommitBackpressure, pauseLocked, resumeLocked
  <2>2. WorkerType'
    BY Zenon, <1>13 DEF markCompleted, mark, setCommitBackpressure, pauseLocked, resumeLocked
  <2>3. CommitterType'
    <3>1. CASE active[w]
      <4>1. rec[w] \in Offsets /\ mark(rec[w])
        BY <1>13, <3>1, Zenon DEF markCompleted
      <4>2. pending' \in Offsets \cup {NoOffset} /\ uncommitted' \in Nat
        BY <4>1 DEF mark
      <4>3. backpressured' \in BOOLEAN
        BY <4>1, Zenon DEF mark
      <4> QED  BY <1>13, <4>1, <4>2, <4>3, Zenon DEF markCompleted, mark
    <3>2. CASE ~active[w]
      BY <1>13, <3>2, Zenon DEF markCompleted
    <3> QED  BY <3>1, <3>2, Zenon
  <2> QED  BY Zenon, <2>1, <2>2, <2>3
<1>14. ASSUME NEW w \in Workers, afterProcessed(w) PROVE TypeOK'
  <2> DEFINE n == Min2(QueueSize - Len(records[w]), Len(queued))
  <2>1. CommitterType'
    BY <1>14, Zenon DEF afterProcessed
  <2>2. CASE cur # w \/ stopped
    BY Zenon, <1>14, <2>1, <2>2 DEF afterProcessed
  <2>3. CASE ~(cur # w \/ stopped)
    <3>1. n \in 0 .. Len(queued) /\ Len(records[w]) + n <= QueueSize
      BY DEF Min2
    <3>2. /\ SubSeq(queued, 1, n) \in Seq(Offsets) /\ Len(SubSeq(queued, 1, n)) = n
          /\ SubSeq(queued, n + 1, Len(queued)) \in Seq(Offsets)
      <4> HIDE DEF n
      <4> QED  BY Zenon, <3>1, TakePrefix
    <3>3. /\ records' = [records EXCEPT ![w] = @ \o SubSeq(queued, 1, n)]
          /\ queued' = SubSeq(queued, n + 1, Len(queued))
          /\ resumeLocked({"queue", "retry"}) \/ UNCHANGED pauseVars
      BY Zenon, <1>14, <2>3 DEF afterProcessed
    <3> HIDE DEF n
    <3>4. pauseReasons' \subseteq Reasons /\ paused' \in BOOLEAN
      BY Zenon, <3>3, ResumeType
    <3>5. /\ records[w] \o SubSeq(queued, 1, n) \in Seq(Offsets)
          /\ Len(records[w] \o SubSeq(queued, 1, n)) <= QueueSize
      BY <3>1, <3>2
    <3>6. RuntimeType'
      BY Zenon, <1>14, <3>2, <3>3, <3>4 DEF afterProcessed
    <3>7. WorkerType'
      BY Zenon, <1>14, <3>3, <3>5 DEF afterProcessed
    <3> QED  BY Zenon, <2>1, <3>6, <3>7
  <2> QED  BY Zenon, <2>2, <2>3
<1>15. CASE takePending
  <2>1. RuntimeType'
    BY <1>15, Zenon DEF takePending
  <2>2. WorkerType'
    BY <1>15, Zenon DEF takePending
  <2>3. CommitterType'
    BY <1>15, Zenon DEF takePending
  <2> QED  BY Zenon, <2>1, <2>2, <2>3
<1>16. ASSUME NEW outcome \in CommitOutcomes, FlushResult(outcome) PROVE TypeOK'
  <2>1. RuntimeType'
    <3>1. committed' \in 0 .. Records
      BY <1>16, CommitType, Zenon DEF FlushResult, CommitOutcomes
    <3>2. pauseReasons' \subseteq Reasons /\ paused' \in BOOLEAN
      <4>1. \/ UNCHANGED pauseVars
            \/ setCommitBackpressure(FALSE)
        BY Zenon, <1>16 DEF FlushResult, acknowledge, requeue
      <4> QED  BY <4>1, PauseType, ResumeType, Zenon DEF setCommitBackpressure
    <3> QED  BY <1>16, <3>1, <3>2, Zenon DEF FlushResult
  <2>2. WorkerType'
    BY <1>16, Zenon DEF FlushResult, CommitOutcomes, CommitRecords, acknowledge, requeue,
                 setCommitBackpressure, pauseLocked, resumeLocked
  <2>3. CommitterType'
    <3>1. pending' \in Offsets \cup {NoOffset}
      BY Zenon, <1>16 DEF FlushResult, acknowledge, requeue
    <3>2. uncommitted' \in Nat
      <4>1. \/ UNCHANGED uncommitted
            \/ uncommitted' = IF uncommitted - flushCount <= 0 THEN 0 ELSE uncommitted - flushCount
        BY <1>16, Zenon DEF FlushResult, acknowledge, requeue
      <4> QED  BY <4>1
    <3>3. backpressured' \in BOOLEAN
      BY <1>16, Zenon DEF FlushResult, acknowledge, requeue
    <3> QED  BY <1>16, <3>1, <3>2, <3>3, Zenon DEF FlushResult
  <2> QED  BY Zenon, <2>1, <2>2, <2>3
<1>17. CASE beginRevoke
  <2>1. RuntimeType'
    BY <1>17 DEF beginRevoke, removeWorkers
  <2>2. WorkerType'
    BY <1>17, Zenon DEF beginRevoke, removeWorkers
  <2>3. CommitterType'
    BY <1>17 DEF beginRevoke, removeWorkers
  <2> QED  BY Zenon, <2>1, <2>2, <2>3
<1>18. CASE beginShutdown
  <2>1. RuntimeType'
    BY <1>18 DEF beginShutdown, removeWorkers
  <2>2. WorkerType'
    BY <1>18, Zenon DEF beginShutdown, removeWorkers
  <2>3. CommitterType'
    BY <1>18 DEF beginShutdown, removeWorkers
  <2> QED  BY Zenon, <2>1, <2>2, <2>3
<1>19. CASE finishRevoke
  <2>1. RuntimeType'
    <3>1. committed' \in 0 .. Records
      <4>1. Completed("revoke") \in Offsets \cup {NoOffset}
        BY DEF Completed
      <4>2. CASE UNCHANGED committed
        BY <4>2, Zenon
      <4>3. CASE ~UNCHANGED committed
        <5>1. PICK o \in CommitOutcomes : CommitRecords(Completed("revoke"), o)
          BY <1>19, <4>3, Zenon DEF finishRevoke
        <5>2. Completed("revoke") \in Offsets
          BY <1>19, <4>1, <4>3, Zenon DEF finishRevoke
        <5> QED  BY <5>1, <5>2, CommitType, Zenon DEF CommitOutcomes
      <4> QED  BY <4>2, <4>3, Zenon
    <3> QED  BY <1>19, <3>1, Zenon DEF finishRevoke
  <2>2. WorkerType'
    BY Zenon, <1>19 DEF finishRevoke, dropPartitions, Completed, CommitOutcomes, CommitRecords
  <2>3. CommitterType'
    <3>1. /\ pending' = NoOffset /\ uncommitted' = 0 /\ backpressured' = FALSE
          /\ ppc' = [ppc EXCEPT !["revoke"] = "idle"]
          /\ pworker' = [pworker EXCEPT !["revoke"] = 0]
          /\ UNCHANGED <<flushing, flushCount, pexpired>>
      BY <1>19, Zenon DEF finishRevoke, dropPartitions
    <3>2. backpressured' \in BOOLEAN /\ pexpired' \in [Procs -> BOOLEAN]
      BY Zenon, <3>1
    <3>3. /\ ppc' \in [Procs -> {"idle", "cancel", "deactivate", "wait", "finish", "done"}]
          /\ pworker' \in [Procs -> 0 .. MaxAssignments]
      BY <3>1
    <3> QED  BY <3>1, <3>2, <3>3, Zenon
  <2> QED  BY Zenon, <2>1, <2>2, <2>3
<1>20. CASE finishShutdown
  <2>1. RuntimeType'
    <3>1. committed' \in 0 .. Records
      <4>1. Completed("shutdown") \in Offsets \cup {NoOffset}
        BY DEF Completed
      <4>2. CASE UNCHANGED committed
        BY <4>2, Zenon
      <4>3. CASE ~UNCHANGED committed
        <5>1. PICK o \in CommitOutcomes : CommitRecords(Completed("shutdown"), o)
          BY <1>20, <4>3, Zenon DEF finishShutdown
        <5>2. Completed("shutdown") \in Offsets
          BY <1>20, <4>1, <4>3, Zenon DEF finishShutdown
        <5> QED  BY <5>1, <5>2, CommitType, Zenon DEF CommitOutcomes
      <4> QED  BY <4>2, <4>3, Zenon
    <3> QED  BY <1>20, <3>1, Zenon DEF finishShutdown
  <2>2. WorkerType'
    BY <1>20, Zenon DEF finishShutdown, Completed, CommitOutcomes, CommitRecords
  <2>3. CommitterType'
    BY <1>20, Zenon DEF finishShutdown, Completed, CommitOutcomes, CommitRecords
  <2> QED  BY Zenon, <2>1, <2>2, <2>3
<1>21. ASSUME NEW p \in Procs, Cancel(p) PROVE TypeOK'
  <2>1. RuntimeType'
    BY <1>21, Zenon DEF Cancel
  <2>2. WorkerType'
    BY <1>21, Zenon DEF Cancel
  <2>3. CommitterType'
    BY <1>21, Zenon DEF Cancel
  <2> QED  BY Zenon, <2>1, <2>2, <2>3
<1>22. ASSUME NEW p \in Procs, Deactivate(p) PROVE TypeOK'
  <2>1. RuntimeType'
    BY <1>22, Zenon DEF Deactivate
  <2>2. WorkerType'
    BY Zenon, <1>22 DEF Deactivate
  <2>3. CommitterType'
    BY <1>22, Zenon DEF Deactivate
  <2> QED  BY Zenon, <2>1, <2>2, <2>3
<1>23. ASSUME NEW p \in Procs, Waited(p) PROVE TypeOK'
  <2>1. RuntimeType'
    BY <1>23, Zenon DEF Waited
  <2>2. WorkerType'
    BY <1>23, Zenon DEF Waited
  <2>3. CommitterType'
    <3>1. pexpired' = pexpired \/ pexpired' = [pexpired EXCEPT ![p] = TRUE]
      BY <1>23, Zenon DEF Waited
    <3>2. pexpired' \in [Procs -> BOOLEAN]
      <4>1. CASE pexpired' = pexpired
        BY <4>1, Zenon
      <4>2. CASE pexpired' = [pexpired EXCEPT ![p] = TRUE]
        BY <4>2, Zenon
      <4> QED  BY <3>1, <4>1, <4>2, Zenon
    <3> QED  BY <1>23, <3>2, Zenon DEF Waited
  <2> QED  BY Zenon, <2>1, <2>2, <2>3
<1>24. CASE Crash
  <2>1. RuntimeType'
    <3>1. committed' \in 0 .. Records
      <4>1. CASE UNCHANGED committed
        BY <4>1, Zenon
      <4>2. CASE ~UNCHANGED committed
        <5>1. PICK o \in CommitOutcomes : CommitRecords(flushing, o)
          BY <1>24, <4>2, Zenon DEF Crash
        <5>2. flushing \in Offsets
          BY <1>24, <4>2, Zenon DEF Crash
        <5> QED  BY <5>1, <5>2, CommitType, Zenon DEF CommitOutcomes
      <4> QED  BY <4>1, <4>2, Zenon
    <3>2. /\ member' = "out" /\ fetched' = fetchPos /\ crashes' = crashes + 1
          /\ crashes < MaxCrashes
          /\ polled' = <<>> /\ cur' = 0 /\ queued' = <<>> /\ stopped' = FALSE /\ closed' = FALSE
          /\ pauseReasons' = {} /\ paused' = FALSE
          /\ UNCHANGED <<fetchPos, assignments, settled>>
      BY <1>24, Zenon DEF Crash
    <3>3. paused' \in BOOLEAN /\ stopped' \in BOOLEAN /\ closed' \in BOOLEAN
      BY Zenon, <3>2
    <3>4. polled' \in Seq(Offsets) /\ queued' \in Seq(Offsets)
      BY <3>2
    <3> QED  BY <3>1, <3>2, <3>3, <3>4
  <2>2. WorkerType'
    BY <1>24 DEF Crash, AllWorkers
  <2>3. CommitterType'
    <3>1. /\ pending' = NoOffset /\ uncommitted' = 0 /\ backpressured' = FALSE
          /\ flushing' = NoOffset /\ flushCount' = 0
          /\ ppc' = [p \in Procs |-> "idle"] /\ pworker' = [p \in Procs |-> 0]
          /\ pexpired' = [p \in Procs |-> FALSE]
      BY <1>24, Zenon DEF Crash, BothProcs
    <3>2. backpressured' \in BOOLEAN /\ pexpired' \in [Procs -> BOOLEAN]
      BY Zenon, <3>1
    <3>3. /\ ppc' \in [Procs -> {"idle", "cancel", "deactivate", "wait", "finish", "done"}]
          /\ pworker' \in [Procs -> 0 .. MaxAssignments]
      BY <3>1
    <3> QED  BY <3>1, <3>2, <3>3, Zenon
  <2> QED  BY Zenon, <2>1, <2>2, <2>3
<1>25. CASE UNCHANGED vars
  BY <1>25, Zenon DEF vars
<1> QED
  BY Zenon, <1>1, <1>2, <1>3, <1>4, <1>5, <1>6, <1>7, <1>8, <1>9, <1>10, <1>11, <1>12,
            <1>13, <1>14, <1>15, <1>16, <1>17, <1>18, <1>19, <1>20, <1>21, <1>22, <1>23,
            <1>24, <1>25
         DEF Next, Worker, Procedures

\* A worker that moves on without touching the runtime preserves LifecycleInv.
LEMMA WorkerKeepsLifecycle ==
  ASSUME TypeOK, LifecycleInv, NEW w \in Workers, NEW label, w <= assignments,
         label \in Busy \cup Ready \/ w # cur,
         pc' = [pc EXCEPT ![w] = label],
         \A v \in Workers : v # w => records'[v] = records[v],
         UNCHANGED <<closed, stopped, cur, assignments, active, ctxDone, ppc, pworker>>
  PROVE  LifecycleInv'
<1> USE ConstantsAssumption
<1> USE DEF LifecycleInv
<1>1. /\ closed' => stopped' /\ (stopped' => cur' = 0)
      /\ ppc'["shutdown"] # "idle" => stopped'
  OBVIOUS
<1>2. cur' # 0 => active'[cur'] /\ ~ctxDone'[cur'] /\ pc'[cur'] \in Busy \cup Ready
  OBVIOUS
<1>3. \A p \in Procs : pworker'[p] <= assignments' /\ (pworker'[p] # 0 => pworker'[p] # cur')
  OBVIOUS
<1>4. \A v \in Workers :
        v > assignments' => pc'[v] = "none" /\ ~active'[v] /\ records'[v] = <<>>
  <2> TAKE v \in Workers
  <2> HAVE v > assignments'
  <2>1. v # w /\ v > assignments
    BY DEF TypeOK, RuntimeType, WorkerType, CommitterType
  <2>2. pc'[v] = pc[v] /\ active'[v] = active[v] /\ records'[v] = records[v]
    BY <2>1
  <2> QED  BY <2>1, <2>2, Zenon
<1> QED  BY Zenon, <1>1, <1>2, <1>3, <1>4

\* Every step preserves LifecycleInv: the current worker is active, and the worker
\* that revocation or shutdown waits for is not the current one.
LEMMA LifecycleStep ==
  ASSUME TypeOK, LifecycleInv, [Next]_vars
  PROVE  LifecycleInv'
<1> USE ConstantsAssumption
<1> USE DEF LifecycleInv
<1> USE DEF kafkaVars, runVars, pauseVars, workerVars, commitVars, procVars
<1>1. CASE assign
  <2>1. CASE stopped
    <3>1. /\ assignments' = assignments + 1
          /\ UNCHANGED <<cur, workerVars, stopped, closed, procVars>>
      BY <1>1, <2>1, Zenon DEF assign
    <3>2. \A p \in Procs : pworker'[p] <= assignments' /\ (pworker'[p] # 0 => pworker'[p] # cur')
      <4> TAKE p \in Procs
      <4>1. pworker[p] <= assignments /\ (pworker[p] # 0 => pworker[p] # cur)
        OBVIOUS
      <4>2. pworker[p] \in Nat
        BY DEF TypeOK, RuntimeType, WorkerType, CommitterType
      <4>3. pworker'[p] = pworker[p]
        BY <3>1, Zenon
      <4> QED  BY <3>1, <4>1, <4>2, <4>3 DEF TypeOK, RuntimeType, WorkerType, CommitterType
    <3>3. \A v \in Workers :
            v > assignments' => pc'[v] = "none" /\ ~active'[v] /\ records'[v] = <<>>
      <4> TAKE v \in Workers
      <4> HAVE v > assignments'
      <4>1. v > assignments
        BY <3>1 DEF TypeOK, RuntimeType, WorkerType, CommitterType
      <4>2. pc'[v] = pc[v] /\ active'[v] = active[v] /\ records'[v] = records[v]
        BY <3>1, Zenon
      <4> QED  BY <4>1, <4>2, Zenon
    <3> QED  BY Zenon, <2>1, <3>1, <3>2, <3>3
  <2>2. CASE ~stopped
    <3> DEFINE w == assignments + 1
    <3>1. w \in Workers /\ ~closed
      BY <1>1, <2>2 DEF assign, TypeOK, RuntimeType, WorkerType, CommitterType
    <3>2. /\ cur' = w /\ assignments' = w
          /\ pc' = [pc EXCEPT ![w] = "idle"]
          /\ active' = [active EXCEPT ![w] = TRUE]
          /\ ctxDone' = [ctxDone EXCEPT ![w] = closed]
          /\ UNCHANGED <<closed, stopped, records, ppc, pworker>>
      BY Zenon, <1>1, <2>2 DEF assign
    <3>3. active'[cur'] /\ ~ctxDone'[cur'] /\ pc'[cur'] \in Busy \cup Ready
      BY <3>1, <3>2, Zenon DEF TypeOK, RuntimeType, WorkerType, CommitterType
    <3>4. \A p \in Procs : pworker'[p] <= assignments' /\ (pworker'[p] # 0 => pworker'[p] # cur')
      <4> TAKE p \in Procs
      <4>1. pworker[p] <= assignments
        OBVIOUS
      <4>2. pworker[p] \in Nat
        BY DEF TypeOK, RuntimeType, WorkerType, CommitterType
      <4>3. pworker'[p] = pworker[p]
        BY <3>2, Zenon
      <4> QED  BY <3>2, <4>1, <4>2, <4>3 DEF TypeOK, RuntimeType, WorkerType, CommitterType
    <3>5. \A v \in Workers :
            v > assignments' => pc'[v] = "none" /\ ~active'[v] /\ records'[v] = <<>>
      <4> TAKE v \in Workers
      <4> HAVE v > assignments'
      <4>1. v # w /\ v > assignments
        BY <3>2 DEF TypeOK, RuntimeType, WorkerType, CommitterType
      <4>2. pc'[v] = pc[v] /\ active'[v] = active[v] /\ records'[v] = records[v]
        BY <3>2, <4>1
      <4> QED  BY <4>1, <4>2, Zenon
    <3> QED  BY Zenon, <2>2, <3>1, <3>2, <3>3, <3>4, <3>5
  <2> QED  BY <2>1, <2>2, Zenon
<1>2. CASE Fetch
  BY <1>2, Zenon DEF Fetch
<1>3. CASE Poll
  BY <1>3, Zenon DEF Poll
<1>4. CASE Evict
  BY <1>4, Zenon DEF Evict
<1>5. CASE OtherMember
  BY <1>5, Zenon DEF OtherMember
<1>6. CASE enqueue
  BY Zenon, <1>6 DEF enqueue, TypeOK, RuntimeType, WorkerType, CommitterType
<1>7. ASSUME NEW w \in Workers, Take(w) PROVE LifecycleInv'
  <2>1. w <= assignments
    BY <1>7 DEF Take, TypeOK, RuntimeType, WorkerType, CommitterType
  <2>2. /\ pc' = [pc EXCEPT ![w] = "handling"]
        /\ \A v \in Workers : v # w => records'[v] = records[v]
        /\ UNCHANGED <<closed, stopped, cur, assignments, active, ctxDone, ppc, pworker>>
    BY <1>7 DEF Take
  <2> QED  BY Zenon, <2>1, <2>2, WorkerKeepsLifecycle
<1>8. ASSUME NEW w \in Workers, Exit(w) PROVE LifecycleInv'
  BY <1>8 DEF Exit
<1>9. ASSUME NEW w \in Workers, Settle(w) PROVE LifecycleInv'
  <2>1. w <= assignments
    <3>1. pc[w] # "none"
      BY <1>9, Zenon DEF Settle
    <3> QED  BY <3>1 DEF TypeOK, RuntimeType, WorkerType, CommitterType
  <2>2. /\ pc' = [pc EXCEPT ![w] = "returned"]
        /\ \A v \in Workers : v # w => records'[v] = records[v]
        /\ UNCHANGED <<closed, stopped, cur, assignments, active, ctxDone, ppc, pworker>>
    BY <1>9, Zenon DEF Settle
  <2> QED  BY Zenon, <2>1, <2>2, WorkerKeepsLifecycle
<1>10. ASSUME NEW w \in Workers, FirstFailure(w) PROVE LifecycleInv'
  BY <1>10 DEF FirstFailure
<1>11. ASSUME NEW w \in Workers, RetryFailure(w) PROVE LifecycleInv'
  <2>1. w <= assignments
    BY <1>11 DEF RetryFailure, TypeOK, RuntimeType, WorkerType, CommitterType
  <2>2. /\ pc' = [pc EXCEPT ![w] = "returned"] \/ pc' = [pc EXCEPT ![w] = "backoff"]
        /\ \A v \in Workers : v # w => records'[v] = records[v]
        /\ UNCHANGED <<closed, stopped, cur, assignments, active, ctxDone, ppc, pworker>>
    BY <1>11 DEF RetryFailure, TypeOK, RuntimeType, WorkerType, CommitterType
  <2> QED  BY Zenon, <2>1, <2>2, WorkerKeepsLifecycle
<1>12. ASSUME NEW w \in Workers, CheckContext(w) PROVE LifecycleInv'
  BY <1>12 DEF CheckContext
<1>13. ASSUME NEW w \in Workers, markCompleted(w) PROVE LifecycleInv'
  <2>1. w <= assignments
    BY <1>13 DEF markCompleted, TypeOK, RuntimeType, WorkerType, CommitterType
  <2>2. /\ \/ pc' = [pc EXCEPT ![w] = "after"]
           \/ ~active[w] /\ pc' = [pc EXCEPT ![w] = "exited"]
        /\ UNCHANGED <<closed, stopped, cur, assignments, records, active, ctxDone, ppc, pworker>>
    BY <1>13, Zenon DEF markCompleted
  <2>3. ~active[w] => w # cur
    OBVIOUS
  <2> QED  BY Zenon, <2>1, <2>2, <2>3, WorkerKeepsLifecycle
<1>14. ASSUME NEW w \in Workers, afterProcessed(w) PROVE LifecycleInv'
  <2>1. w <= assignments
    BY <1>14 DEF afterProcessed, TypeOK, RuntimeType, WorkerType, CommitterType
  <2>2. /\ pc' = [pc EXCEPT ![w] = "idle"]
        /\ \A v \in Workers : v # w => records'[v] = records[v]
        /\ UNCHANGED <<closed, stopped, cur, assignments, active, ctxDone, ppc, pworker>>
    BY <1>14, Zenon DEF afterProcessed, TypeOK, RuntimeType, WorkerType, CommitterType
  <2> QED  BY Zenon, <2>1, <2>2, WorkerKeepsLifecycle
<1>15. CASE takePending
  BY <1>15, Zenon DEF takePending
<1>16. ASSUME NEW outcome \in CommitOutcomes, FlushResult(outcome) PROVE LifecycleInv'
  BY <1>16, Zenon DEF FlushResult
<1>17. CASE beginRevoke
  BY <1>17 DEF beginRevoke, removeWorkers, TypeOK, RuntimeType, WorkerType, CommitterType
<1>18. CASE beginShutdown
  BY <1>18 DEF beginShutdown, removeWorkers, TypeOK, RuntimeType, WorkerType, CommitterType
<1>19. CASE finishRevoke
  BY <1>19 DEF finishRevoke, TypeOK, RuntimeType, WorkerType, CommitterType
<1>20. CASE finishShutdown
  BY <1>20, Zenon DEF finishShutdown
<1>21. ASSUME NEW p \in Procs, Cancel(p) PROVE LifecycleInv'
  BY <1>21 DEF Cancel, TypeOK, RuntimeType, WorkerType, CommitterType
<1>22. ASSUME NEW p \in Procs, Deactivate(p) PROVE LifecycleInv'
  BY <1>22 DEF Deactivate
<1>23. ASSUME NEW p \in Procs, Waited(p) PROVE LifecycleInv'
  BY <1>23 DEF Waited
<1>24. CASE Crash
  BY <1>24 DEF Crash, AllWorkers, BothProcs, TypeOK, RuntimeType, WorkerType, CommitterType
<1>25. CASE UNCHANGED vars
  BY <1>25, Zenon DEF vars
<1> QED
  BY Zenon, <1>1, <1>2, <1>3, <1>4, <1>5, <1>6, <1>7, <1>8, <1>9, <1>10, <1>11, <1>12,
     <1>13, <1>14, <1>15, <1>16, <1>17, <1>18, <1>19, <1>20, <1>21, <1>22, <1>23, <1>24, <1>25
  DEF Next, Worker, Procedures

\* A record that was processed or given up stays so.
LEMMA SettledGrows ==
  ASSUME TypeOK, [Next]_vars
  PROVE  settled \subseteq settled'
<1> USE DEF vars, kafkaVars, runVars, pauseVars, workerVars, commitVars, procVars
<1>1. ASSUME NEW w \in Workers, Worker(w) PROVE settled \subseteq settled'
  BY <1>1, Zenon DEF Worker, Take, Exit, Settle, FirstFailure, RetryFailure, CheckContext,
              markCompleted, afterProcessed
<1>2. CASE Procedures
  BY <1>2, Zenon DEF Procedures, beginRevoke, beginShutdown, finishRevoke, finishShutdown,
              Cancel, Deactivate, Waited
<1>3. CASE assign \/ Fetch \/ Poll \/ Evict \/ OtherMember \/ enqueue \/ takePending \/ Crash
  BY Zenon, <1>3 DEF assign, Fetch, Poll, Evict, OtherMember, enqueue, takePending, Crash
<1>4. ASSUME NEW outcome \in CommitOutcomes, FlushResult(outcome)
      PROVE  settled \subseteq settled'
  BY <1>4, Zenon DEF FlushResult
<1>5. CASE UNCHANGED vars
  BY <1>5, Zenon
<1> QED  BY <1>1, <1>2, <1>3, <1>4, <1>5, Zenon DEF Next

\* A commit that takes its offset from a completed record, and a mark that takes
\* its offset from there, preserve CommitSourcesInv.
LEMMA SourcesFrame ==
  ASSUME TypeOK, CommitSourcesInv, settled \subseteq settled',
         \/ committed' = committed
         \/ committed' = flushing + 1
         \/ \E w \in Workers : committed' = lastCompleted[w] + 1,
         pending' \in {pending, flushing, NoOffset},
         flushing' \in {pending, flushing, NoOffset},
         \A w \in Workers : lastCompleted'[w] \in {lastCompleted[w], NoOffset}
  PROVE  CommitSourcesInv'
<1> DEFINE P(n) == \A o \in Offsets : o < n => o \in settled'
<1>1. \A n : Prefix(n) => P(n)
  BY Zenon DEF Prefix
<1>2. P(NoOffset + 1)
  BY ConstantsAssumption
<1>3. P(committed') /\ P(pending' + 1) /\ P(flushing' + 1)
  <2> HIDE DEF P
  <2> QED  BY <1>1, <1>2, Zenon DEF CommitSourcesInv
<1>4. ASSUME NEW w \in Workers PROVE P(lastCompleted'[w] + 1)
  <2> HIDE DEF P
  <2> QED  BY <1>1, <1>2, Zenon DEF CommitSourcesInv
<1> QED  BY <1>3, <1>4, Zenon DEF CommitSourcesInv, Prefix

\* Every step preserves HoldInv: rebalance callbacks run only between polls.
LEMMA HoldStep ==
  ASSUME TypeOK, LifecycleInv, HoldInv, [Next]_vars
  PROVE  HoldInv'
<1> USE ConstantsAssumption
<1> USE DEF HoldInv
<1> USE DEF kafkaVars, runVars, pauseVars, workerVars, commitVars, procVars
<1>1. CASE assign
  BY <1>1, Zenon DEF assign
<1>2. CASE Fetch
  BY <1>2, Zenon DEF Fetch
<1>3. CASE Poll
  BY <1>3, Zenon DEF Poll
<1>4. CASE Evict
  BY <1>4, Zenon DEF Evict
<1>5. CASE OtherMember
  BY <1>5, Zenon DEF OtherMember
<1>6. CASE enqueue
  BY <1>6, Zenon DEF enqueue
<1>7. ASSUME NEW w \in Workers, Take(w) PROVE HoldInv'
  BY <1>7, Zenon DEF Take
<1>8. ASSUME NEW w \in Workers, Exit(w) PROVE HoldInv'
  BY <1>8, Zenon DEF Exit
<1>9. ASSUME NEW w \in Workers, Settle(w) PROVE HoldInv'
  BY <1>9, Zenon DEF Settle
<1>10. ASSUME NEW w \in Workers, FirstFailure(w) PROVE HoldInv'
  BY <1>10, Zenon DEF FirstFailure
<1>11. ASSUME NEW w \in Workers, RetryFailure(w) PROVE HoldInv'
  BY <1>11, Zenon DEF RetryFailure
<1>12. ASSUME NEW w \in Workers, CheckContext(w) PROVE HoldInv'
  BY <1>12, Zenon DEF CheckContext
<1>13. ASSUME NEW w \in Workers, markCompleted(w) PROVE HoldInv'
  BY <1>13, Zenon DEF markCompleted
<1>14. ASSUME NEW w \in Workers, afterProcessed(w) PROVE HoldInv'
  BY <1>14 DEF afterProcessed
<1>15. CASE takePending
  BY <1>15, Zenon DEF takePending
<1>16. ASSUME NEW outcome \in CommitOutcomes, FlushResult(outcome) PROVE HoldInv'
  BY <1>16, Zenon DEF FlushResult
<1>17. CASE beginRevoke
  BY <1>17, Zenon DEF beginRevoke, removeWorkers
<1>18. CASE beginShutdown
  BY <1>18, Zenon DEF beginShutdown, removeWorkers
<1>19. CASE finishRevoke
  BY <1>19, Zenon DEF finishRevoke
<1>20. CASE finishShutdown
  BY <1>20 DEF finishShutdown
<1>21. ASSUME NEW p \in Procs, Cancel(p) PROVE HoldInv'
  BY <1>21 DEF Cancel
<1>22. ASSUME NEW p \in Procs, Deactivate(p) PROVE HoldInv'
  BY <1>22 DEF Deactivate
<1>23. ASSUME NEW p \in Procs, Waited(p) PROVE HoldInv'
  BY <1>23 DEF Waited
<1>24. CASE Crash
  BY <1>24, Zenon DEF Crash
<1>25. CASE UNCHANGED vars
  BY <1>25, Zenon DEF vars
<1> QED
  BY <1>1, <1>2, <1>3, <1>4, <1>5, <1>6, <1>7, <1>8, <1>9, <1>10, <1>11, <1>12,
     <1>13, <1>14, <1>15, <1>16, <1>17, <1>18, <1>19, <1>20, <1>21, <1>22, <1>23, <1>24, <1>25, Zenon
  DEF Next, Worker, Procedures

\* Every step preserves CommitSourcesInv: what is committed, pending or being
\* flushed ends a prefix of settled records.
LEMMA SourcesStep ==
  ASSUME TypeOK, CommitSourcesInv, WorkerInv, settled \subseteq settled', [Next]_vars
  PROVE  CommitSourcesInv'
<1> USE DEF kafkaVars, runVars, pauseVars, workerVars, commitVars, procVars
<1>1. CASE assign
  <2>1. UNCHANGED <<committed, pending, flushing, lastCompleted>>
    BY <1>1, Zenon DEF assign
  <2> QED  BY <2>1, SourcesFrame, Zenon
<1>2. CASE Fetch
  <2>1. UNCHANGED <<committed, pending, flushing, lastCompleted>>
    BY <1>2, Zenon DEF Fetch
  <2> QED  BY <2>1, SourcesFrame, Zenon
<1>3. CASE Poll
  <2>1. UNCHANGED <<committed, pending, flushing, lastCompleted>>
    BY <1>3, Zenon DEF Poll
  <2> QED  BY <2>1, SourcesFrame, Zenon
<1>4. CASE Evict
  <2>1. UNCHANGED <<committed, pending, flushing, lastCompleted>>
    BY <1>4, Zenon DEF Evict
  <2> QED  BY <2>1, SourcesFrame, Zenon
<1>5. CASE OtherMember
  <2>1. /\ committed' = committed + 1 /\ settled' = settled \cup {committed}
        /\ UNCHANGED <<pending, flushing, lastCompleted>>
    BY <1>5, Zenon DEF OtherMember
  <2>2. Prefix(committed)'
    BY <2>1 DEF CommitSourcesInv, Prefix, TypeOK, RuntimeType
  <2> QED  BY <2>1, <2>2, Zenon DEF CommitSourcesInv, Prefix
<1>6. CASE enqueue
  <2>1. UNCHANGED <<committed, pending, flushing, lastCompleted>>
    BY <1>6, Zenon DEF enqueue
  <2> QED  BY <2>1, SourcesFrame, Zenon
<1>7. ASSUME NEW w \in Workers, Take(w) PROVE CommitSourcesInv'
  <2>1. UNCHANGED <<committed, pending, flushing, lastCompleted>>
    BY <1>7, Zenon DEF Take
  <2> QED  BY <2>1, SourcesFrame, Zenon
<1>8. ASSUME NEW w \in Workers, Exit(w) PROVE CommitSourcesInv'
  <2>1. UNCHANGED <<committed, pending, flushing, lastCompleted>>
    BY <1>8, Zenon DEF Exit
  <2> QED  BY <2>1, SourcesFrame, Zenon
<1>9. ASSUME NEW w \in Workers, Settle(w) PROVE CommitSourcesInv'
  <2>1. UNCHANGED <<committed, pending, flushing, lastCompleted>>
    BY <1>9, Zenon DEF Settle
  <2> QED  BY <2>1, SourcesFrame, Zenon
<1>10. ASSUME NEW w \in Workers, FirstFailure(w) PROVE CommitSourcesInv'
  <2>1. UNCHANGED <<committed, pending, flushing, lastCompleted>>
    BY <1>10, Zenon DEF FirstFailure
  <2> QED  BY <2>1, SourcesFrame, Zenon
<1>11. ASSUME NEW w \in Workers, RetryFailure(w) PROVE CommitSourcesInv'
  <2>1. UNCHANGED <<committed, pending, flushing, lastCompleted>>
    BY <1>11, Zenon DEF RetryFailure
  <2> QED  BY <2>1, SourcesFrame, Zenon
<1>12. ASSUME NEW w \in Workers, CheckContext(w) PROVE CommitSourcesInv'
  <2>1. UNCHANGED <<committed, pending, flushing, lastCompleted>>
    BY <1>12, Zenon DEF CheckContext
  <2> QED  BY <2>1, SourcesFrame, Zenon
<1>13. ASSUME NEW w \in Workers, markCompleted(w) PROVE CommitSourcesInv'
  <2>1. CASE active[w]
    <3>1. Prefix(rec[w]) /\ rec[w] \in settled
      BY <1>13, <2>1, Zenon DEF markCompleted, WorkerInv, WorkerOK
    <3>2. rec[w] \in Offsets
      BY <1>13, Zenon DEF markCompleted, TypeOK, WorkerType
    <3>3. \A o \in Offsets : o < rec[w] + 1 => o \in settled'
      BY <3>1, <3>2 DEF Prefix
    <3>4. /\ lastCompleted' = [lastCompleted EXCEPT ![w] = rec[w]]
          /\ pending' \in {pending, rec[w]}
          /\ UNCHANGED <<committed, flushing>>
      BY <1>13, <2>1, Zenon DEF markCompleted, mark
    <3>5. \A v \in Workers : lastCompleted'[v] \in {lastCompleted[v], rec[w]}
      BY <3>4, Zenon DEF TypeOK, WorkerType
    <3> QED  BY <3>3, <3>4, <3>5, Zenon DEF CommitSourcesInv, Prefix
  <2>2. CASE ~active[w]
    <3>1. UNCHANGED <<committed, pending, flushing, lastCompleted>>
      BY <1>13, <2>2, Zenon DEF markCompleted
    <3> QED  BY <3>1, SourcesFrame, Zenon
  <2> QED  BY <2>1, <2>2, Zenon
<1>14. ASSUME NEW w \in Workers, afterProcessed(w) PROVE CommitSourcesInv'
  <2>1. UNCHANGED <<committed, pending, flushing, lastCompleted>>
    BY <1>14, Zenon DEF afterProcessed
  <2> QED  BY <2>1, SourcesFrame, Zenon
<1>15. CASE takePending
  <2>1. /\ UNCHANGED <<committed, lastCompleted>>
        /\ pending' = NoOffset /\ flushing' \in {pending, flushing}
    BY <1>15, Zenon DEF takePending
  <2> QED  BY <2>1, SourcesFrame, Zenon
<1>16. ASSUME NEW outcome \in CommitOutcomes, FlushResult(outcome) PROVE CommitSourcesInv'
  <2>1. /\ committed' \in {committed, flushing + 1}
        /\ flushing' = NoOffset /\ UNCHANGED lastCompleted
    BY <1>16, Zenon DEF FlushResult, CommitRecords
  <2>2. pending' \in {pending, flushing}
    BY Zenon, <1>16 DEF FlushResult, acknowledge, requeue
  <2> QED  BY <2>1, <2>2, SourcesFrame, Zenon
<1>17. CASE beginRevoke
  <2>1. UNCHANGED <<committed, pending, flushing, lastCompleted>>
    BY <1>17, Zenon DEF beginRevoke, removeWorkers
  <2> QED  BY <2>1, SourcesFrame, Zenon
<1>18. CASE beginShutdown
  <2>1. UNCHANGED <<committed, pending, flushing, lastCompleted>>
    BY <1>18, Zenon DEF beginShutdown, removeWorkers
  <2> QED  BY <2>1, SourcesFrame, Zenon
<1>19. CASE finishRevoke
  <2>1. \/ committed' = committed
        \/ \E w \in Workers : committed' = lastCompleted[w] + 1
    <3>1. \/ committed' = committed
          \/ committed' = Completed("revoke") + 1 /\ Completed("revoke") # NoOffset
      BY <1>19, Zenon DEF finishRevoke, CommitRecords
    <3>2. Completed("revoke") # NoOffset =>
            pworker["revoke"] \in Workers /\ Completed("revoke") = lastCompleted[pworker["revoke"]]
      BY ConstantsAssumption DEF Completed, TypeOK, CommitterType
    <3> QED  BY <3>1, <3>2, Zenon
  <2>2. pending' = NoOffset /\ UNCHANGED <<flushing, lastCompleted>>
    BY <1>19, Zenon DEF finishRevoke, dropPartitions
  <2> QED  BY <2>1, <2>2, SourcesFrame, Zenon
<1>20. CASE finishShutdown
  <2>1. \/ committed' = committed
        \/ \E w \in Workers : committed' = lastCompleted[w] + 1
    <3>1. \/ committed' = committed
          \/ committed' = Completed("shutdown") + 1 /\ Completed("shutdown") # NoOffset
      BY <1>20, Zenon DEF finishShutdown, CommitRecords
    <3>2. Completed("shutdown") # NoOffset =>
            /\ pworker["shutdown"] \in Workers
            /\ Completed("shutdown") = lastCompleted[pworker["shutdown"]]
      BY ConstantsAssumption DEF Completed, TypeOK, CommitterType
    <3> QED  BY <3>1, <3>2, Zenon
  <2>2. UNCHANGED <<pending, flushing, lastCompleted>>
    BY <1>20, Zenon DEF finishShutdown
  <2> QED  BY <2>1, <2>2, SourcesFrame, Zenon
<1>21. ASSUME NEW p \in Procs, Cancel(p) PROVE CommitSourcesInv'
  <2>1. UNCHANGED <<committed, pending, flushing, lastCompleted>>
    BY <1>21, Zenon DEF Cancel
  <2> QED  BY <2>1, SourcesFrame, Zenon
<1>22. ASSUME NEW p \in Procs, Deactivate(p) PROVE CommitSourcesInv'
  <2>1. UNCHANGED <<committed, pending, flushing, lastCompleted>>
    BY <1>22, Zenon DEF Deactivate
  <2> QED  BY <2>1, SourcesFrame, Zenon
<1>23. ASSUME NEW p \in Procs, Waited(p) PROVE CommitSourcesInv'
  <2>1. UNCHANGED <<committed, pending, flushing, lastCompleted>>
    BY <1>23, Zenon DEF Waited
  <2> QED  BY <2>1, SourcesFrame, Zenon
<1>24. CASE Crash
  <2>1. committed' \in {committed, flushing + 1}
    BY <1>24, Zenon DEF Crash, CommitRecords
  <2>2. /\ pending' = NoOffset /\ flushing' = NoOffset
        /\ \A w \in Workers : lastCompleted'[w] = NoOffset
    BY <1>24, Zenon DEF Crash, AllWorkers
  <2> QED  BY <2>1, <2>2, SourcesFrame, Zenon
<1>25. CASE UNCHANGED vars
  <2>1. UNCHANGED <<committed, pending, flushing, lastCompleted>>
    BY <1>25, Zenon DEF vars
  <2> QED  BY <2>1, SourcesFrame, Zenon
<1> QED
  BY <1>1, <1>2, <1>3, <1>4, <1>5, <1>6, <1>7, <1>8, <1>9, <1>10, <1>11, <1>12,
     <1>13, <1>14, <1>15, <1>16, <1>17, <1>18, <1>19, <1>20, <1>21, <1>22, <1>23, <1>24, <1>25, Zenon
  DEF Next, Worker, Procedures

\* A worker whose own state is left alone keeps WorkerOK.
LEMMA WorkerFrame ==
  ASSUME NEW w \in Workers, WorkerOK(w), settled \subseteq settled',
         pc'[w] = pc[w], rec'[w] = rec[w], records'[w] = records[w], active'[w] => active[w]
  PROVE  WorkerOK(w)'
BY Zenon DEF WorkerOK, Prefix

\* A step of one worker leaves WorkerOK of the others alone.
LEMMA OthersFrame ==
  ASSUME NEW w \in Workers, WorkerInv, settled \subseteq settled', WorkerOK(w)',
         \A v \in Workers \ {w} : /\ pc'[v] = pc[v] /\ rec'[v] = rec[v]
                                 /\ records'[v] = records[v] /\ active'[v] = active[v]
  PROVE  WorkerInv'
<1>1. \A v \in Workers \ {w} : WorkerOK(v)'
  BY WorkerFrame, Zenon DEF WorkerInv
<1> QED  BY <1>1, Zenon DEF WorkerInv

\* Every step preserves WorkerInv: an active worker has consecutive records before
\* it and a settled prefix behind it.
LEMMA WorkerStep ==
  ASSUME TypeOK, LifecycleInv, WorkerInv, StreamInv, settled \subseteq settled', [Next]_vars
  PROVE  WorkerInv'
<1> USE ConstantsAssumption
<1> USE DEF kafkaVars, runVars, pauseVars, workerVars, commitVars, procVars
<1>1. CASE assign
  <2>1. CASE stopped
    <3>1. UNCHANGED <<pc, rec, records, active>>
      BY <1>1, <2>1, Zenon DEF assign
    <3> QED  BY <3>1, WorkerFrame, Zenon DEF WorkerInv
  <2>2. CASE ~stopped
    <3>1. PICK w \in Workers : w = assignments + 1
      BY <1>1 DEF assign, TypeOK, RuntimeType, WorkerType
    <3>2. /\ pc' = [pc EXCEPT ![w] = "idle"] /\ active' = [active EXCEPT ![w] = TRUE]
          /\ UNCHANGED <<rec, records>>
      BY <1>1, <2>2, <3>1, Zenon DEF assign
    <3>3. records[w] = <<>>
      BY <3>1 DEF LifecycleInv, TypeOK, RuntimeType, WorkerType
    <3>4. pc'[w] = "idle" /\ records'[w] = <<>>
      BY <3>2, <3>3, Zenon DEF TypeOK, RuntimeType, WorkerType
    <3>6. WorkerOK(w)'
      BY <3>4 DEF WorkerOK
    <3>5. \A v \in Workers \ {w} : /\ pc'[v] = pc[v] /\ rec'[v] = rec[v]
                                   /\ records'[v] = records[v] /\ active'[v] = active[v]
      BY <3>2
    <3> QED  BY Zenon, <3>5, <3>6, OthersFrame
  <2> QED  BY <2>1, <2>2, Zenon
<1>2. CASE Fetch
  <2>1. UNCHANGED <<pc, rec, records, active>>
    BY <1>2, Zenon DEF Fetch
  <2> QED  BY <2>1, WorkerFrame, Zenon DEF WorkerInv
<1>3. CASE Poll
  <2>1. UNCHANGED <<pc, rec, records, active>>
    BY <1>3, Zenon DEF Poll
  <2> QED  BY <2>1, WorkerFrame, Zenon DEF WorkerInv
<1>4. CASE Evict
  <2>1. UNCHANGED <<pc, rec, records, active>>
    BY <1>4, Zenon DEF Evict
  <2> QED  BY <2>1, WorkerFrame, Zenon DEF WorkerInv
<1>5. CASE OtherMember
  <2>1. UNCHANGED <<pc, rec, records, active>>
    BY <1>5, Zenon DEF OtherMember
  <2> QED  BY <2>1, WorkerFrame, Zenon DEF WorkerInv
<1>6. CASE enqueue
  <2>1. CASE UNCHANGED records
    <3>1. UNCHANGED <<pc, rec, active>>
      BY <1>6, Zenon DEF enqueue
    <3> QED  BY <2>1, <3>1, WorkerFrame, Zenon DEF WorkerInv
  <2>2. CASE ~UNCHANGED records
    <3>1. /\ polled # <<>> /\ cur # 0 /\ ~MustQueue
          /\ records' = [records EXCEPT ![cur] = Append(records[cur], Head(polled))]
          /\ UNCHANGED <<pc, rec, active>>
      BY <1>6, <2>2, Zenon DEF enqueue
    <3>2. PICK w \in Workers : w = cur
      BY <3>1 DEF TypeOK, RuntimeType, WorkerType
    <3> DEFINE q == records[w]
               r == Append(q, Head(polled))
    <3>3. q \in Seq(Offsets) /\ queued = <<>>
      BY <3>1, <3>2, Zenon DEF MustQueue, TypeOK, RuntimeType, WorkerType
    <3>4. /\ Len(polled) > 0 /\ Head(polled) = polled[1] /\ Head(polled) \in Offsets
      BY <3>1, HeadTailProperties, EmptySeq DEF TypeOK, RuntimeType, WorkerType
    <3>5. Head(polled) = StreamStart + Len(q)
      BY <3>1, <3>2, <3>3, <3>4 DEF StreamInv, StreamStart, TypeOK, RuntimeType, WorkerType
    <3>6. /\ Len(r) = Len(q) + 1 /\ r[Len(q) + 1] = Head(polled)
          /\ \A i \in 1 .. Len(q) : r[i] = q[i]
      BY <3>3, <3>4, AppendProperties
    <3>7. /\ \A i \in 1 .. Len(q) : q[i] = StreamStart + (i - 1)
          /\ pc[w] \in Busy => rec[w] = StreamStart - 1
          /\ pc[w] \in Ready => Prefix(StreamStart)
      BY <3>1, <3>2, Zenon DEF StreamInv
    <3>8. Len(q) \in Nat /\ StreamStart \in Int
      BY <3>2, <3>3, LenProperties DEF StreamStart, TypeOK, RuntimeType, WorkerType
    <3>9. \A i \in 1 .. Len(r) : r[i] = StreamStart + (i - 1)
      <4> HIDE DEF q, r
      <4> TAKE i \in 1 .. Len(r)
      <4>1. CASE i <= Len(q)
        BY <3>6, <3>7, <3>8, <4>1
      <4>2. CASE i = Len(q) + 1
        BY <3>5, <3>6, <3>8, <4>2
      <4> QED  BY <3>6, <3>8, <4>1, <4>2
    <3>10. Len(r) \in Nat /\ 1 \in 1 .. Len(r)
      BY <3>6, <3>8
    <3>11. /\ records'[w] = r /\ pc'[w] = pc[w] /\ rec'[w] = rec[w] /\ active'[w] = active[w]
      BY <3>1, <3>2, Zenon DEF TypeOK, RuntimeType, WorkerType
    <3>12. WorkerOK(w)'
      <4> HIDE DEF q, r
      <4>1. r[1] = StreamStart
        BY <3>8, <3>9, <3>10
      <4>2. \A i \in 1 .. Len(r) : r[i] = r[1] + (i - 1)
        BY <3>9, <4>1, Zenon
      <4>3. pc[w] \in Busy => r[1] = rec[w] + 1
        BY <3>7, <3>8, <4>1
      <4>4. pc[w] \in Ready => \A o \in Offsets : o < r[1] => o \in settled'
        BY <3>7, <4>1, Zenon DEF Prefix
      <4>5. WorkerOK(w)
        BY Zenon DEF WorkerInv
      <4>6. active[w] /\ pc[w] \in Busy => \A o \in Offsets : o < rec[w] => o \in settled'
        BY <4>5, Zenon DEF WorkerOK, Prefix
      <4>7. pc[w] \in {"returned", "marking"} => rec[w] \in settled'
        BY <4>5, Zenon DEF WorkerOK
      <4> QED  BY <3>11, <4>2, <4>3, <4>4, <4>6, <4>7, Zenon DEF WorkerOK, Prefix
    <3>13. \A v \in Workers \ {w} : /\ pc'[v] = pc[v] /\ rec'[v] = rec[v]
                                    /\ records'[v] = records[v] /\ active'[v] = active[v]
      BY <3>1, <3>2
    <3> QED  BY Zenon, <3>12, <3>13, OthersFrame
  <2> QED  BY <2>1, <2>2, Zenon
<1>7. ASSUME NEW w \in Workers, Take(w) PROVE WorkerInv'
  <2> DEFINE q == records[w]
  <2>1. /\ pc[w] = "idle" /\ q # <<>>
        /\ pc' = [pc EXCEPT ![w] = "handling"] /\ rec' = [rec EXCEPT ![w] = Head(q)]
        /\ records' = [records EXCEPT ![w] = Tail(q)] /\ UNCHANGED <<active, settled>>
    BY <1>7, Zenon DEF Take
  <2>2. q \in Seq(Offsets) /\ Len(q) \in Nat /\ Len(q) > 0 /\ Head(q) = q[1]
    BY <2>1, EmptySeq, LenProperties DEF TypeOK, RuntimeType, WorkerType
  <2>3. Len(Tail(q)) = Len(q) - 1 /\ \A i \in 1 .. Len(Tail(q)) : Tail(q)[i] = q[i + 1]
    BY <2>1, <2>2, HeadTailProperties, Zenon
  <2>4. pc'[w] = "handling" /\ rec'[w] = q[1] /\ records'[w] = Tail(q) /\ active'[w] = active[w]
    BY <2>1, <2>2, Zenon DEF TypeOK, RuntimeType, WorkerType
  <2>5. active[w] => /\ \A i \in 1 .. Len(q) : q[i] = q[1] + (i - 1)
                     /\ Prefix(q[1])
    BY <2>1, Zenon DEF WorkerInv, WorkerOK
  <2>6. Tail(q) # <<>> => Len(Tail(q)) > 0
    <3>1. Tail(q) \in Seq(Offsets)
      BY Zenon, <2>1, <2>2, HeadTailProperties
    <3> QED  BY <3>1, EmptySeq
  <2>7. q[1] \in Int
    BY <2>2
  <2>8. active[w] => /\ \A i \in 1 .. Len(Tail(q)) : Tail(q)[i] = Tail(q)[1] + (i - 1)
                     /\ Tail(q) # <<>> => Tail(q)[1] = q[1] + 1
    <3> HIDE DEF q
    <3> SUFFICES ASSUME active[w]
                 PROVE  /\ \A i \in 1 .. Len(Tail(q)) : Tail(q)[i] = Tail(q)[1] + (i - 1)
                        /\ Tail(q) # <<>> => Tail(q)[1] = q[1] + 1
      OBVIOUS
    <3>1. \A i \in 1 .. Len(Tail(q)) : Tail(q)[i] = q[1] + i
      BY <2>2, <2>3, <2>5, <2>7
    <3>2. Len(Tail(q)) \in Nat
      BY <2>2, <2>3
    <3>3. Len(Tail(q)) > 0 => Tail(q)[1] = q[1] + 1
      BY <3>1, <3>2
    <3>4. \A i \in 1 .. Len(Tail(q)) : Tail(q)[i] = Tail(q)[1] + (i - 1)
      <4> TAKE i \in 1 .. Len(Tail(q))
      <4>1. Len(Tail(q)) > 0 /\ i \in Int
        BY <3>2
      <4>2. Tail(q)[i] = q[1] + i /\ Tail(q)[1] = q[1] + 1
        BY <3>1, <3>3, <4>1, Zenon
      <4> QED  BY <2>7, <4>1, <4>2
    <3> QED  BY <2>6, <3>3, <3>4, Zenon
  <2>9. WorkerOK(w)'
    <3> HIDE DEF q
    <3> QED  BY Zenon, <2>1, <2>4, <2>5, <2>8 DEF WorkerOK, Prefix
  <2>10. \A v \in Workers \ {w} : /\ pc'[v] = pc[v] /\ rec'[v] = rec[v]
                                  /\ records'[v] = records[v] /\ active'[v] = active[v]
    BY <2>1
  <2> QED  BY Zenon, <2>9, <2>10, OthersFrame
<1>8. ASSUME NEW w \in Workers, Exit(w) PROVE WorkerInv'
  <2>1. /\ pc[w] \in Busy \cup {"idle"} /\ pc'[w] \in Busy \cup {"exited"}
        /\ pc[w] = "idle" => pc'[w] = "exited"
        /\ pc'[w] \in {"returned", "marking"} => rec[w] \in settled'
        /\ UNCHANGED <<rec, records, active>>
    BY <1>8, Zenon DEF Exit, WorkerInv, WorkerOK, TypeOK, RuntimeType, WorkerType
  <2>2. \A v \in Workers \ {w} : /\ pc'[v] = pc[v] /\ rec'[v] = rec[v]
                                 /\ records'[v] = records[v] /\ active'[v] = active[v]
    BY <1>8 DEF Exit
  <2>3. WorkerOK(w)'
    BY Zenon, <2>1 DEF WorkerInv, WorkerOK, Prefix
  <2> QED  BY Zenon, <2>2, <2>3, OthersFrame
<1>9. ASSUME NEW w \in Workers, Settle(w) PROVE WorkerInv'
  <2>1. /\ pc[w] \in Busy \cup {"idle"} /\ pc'[w] \in Busy \cup {"exited"}
        /\ pc[w] = "idle" => pc'[w] = "exited"
        /\ pc'[w] \in {"returned", "marking"} => rec[w] \in settled'
        /\ UNCHANGED <<rec, records, active>>
    BY <1>9 DEF Settle, WorkerInv, WorkerOK
  <2>2. \A v \in Workers \ {w} : /\ pc'[v] = pc[v] /\ rec'[v] = rec[v]
                                 /\ records'[v] = records[v] /\ active'[v] = active[v]
    BY <1>9 DEF Settle
  <2>3. WorkerOK(w)'
    BY Zenon, <2>1 DEF WorkerInv, WorkerOK, Prefix
  <2> QED  BY Zenon, <2>2, <2>3, OthersFrame
<1>10. ASSUME NEW w \in Workers, FirstFailure(w) PROVE WorkerInv'
  <2>1. /\ pc[w] \in Busy \cup {"idle"} /\ pc'[w] \in Busy \cup {"exited"}
        /\ pc[w] = "idle" => pc'[w] = "exited"
        /\ pc'[w] \in {"returned", "marking"} => rec[w] \in settled'
        /\ UNCHANGED <<rec, records, active>>
    BY <1>10 DEF FirstFailure, WorkerInv, WorkerOK
  <2>2. \A v \in Workers \ {w} : /\ pc'[v] = pc[v] /\ rec'[v] = rec[v]
                                 /\ records'[v] = records[v] /\ active'[v] = active[v]
    BY <1>10 DEF FirstFailure
  <2>3. WorkerOK(w)'
    BY Zenon, <2>1 DEF WorkerInv, WorkerOK, Prefix
  <2> QED  BY Zenon, <2>2, <2>3, OthersFrame
<1>11. ASSUME NEW w \in Workers, RetryFailure(w) PROVE WorkerInv'
  <2>1. /\ pc[w] \in Busy \cup {"idle"} /\ pc'[w] \in Busy \cup {"exited"}
        /\ pc[w] = "idle" => pc'[w] = "exited"
        /\ pc'[w] \in {"returned", "marking"} => rec[w] \in settled'
        /\ UNCHANGED <<rec, records, active>>
    BY <1>11, SMTT(20) DEF RetryFailure, WorkerInv, WorkerOK, TypeOK, RuntimeType, WorkerType
  <2>2. \A v \in Workers \ {w} : /\ pc'[v] = pc[v] /\ rec'[v] = rec[v]
                                 /\ records'[v] = records[v] /\ active'[v] = active[v]
    BY <1>11, Zenon DEF RetryFailure, TypeOK, RuntimeType, WorkerType
  <2>3. WorkerOK(w)'
    BY Zenon, <2>1 DEF WorkerInv, WorkerOK, Prefix
  <2> QED  BY Zenon, <2>2, <2>3, OthersFrame
<1>12. ASSUME NEW w \in Workers, CheckContext(w) PROVE WorkerInv'
  <2>1. /\ pc[w] \in Busy \cup {"idle"} /\ pc'[w] \in Busy \cup {"exited"}
        /\ pc[w] = "idle" => pc'[w] = "exited"
        /\ pc'[w] \in {"returned", "marking"} => rec[w] \in settled'
        /\ UNCHANGED <<rec, records, active>>
    BY <1>12 DEF CheckContext, WorkerInv, WorkerOK
  <2>2. \A v \in Workers \ {w} : /\ pc'[v] = pc[v] /\ rec'[v] = rec[v]
                                 /\ records'[v] = records[v] /\ active'[v] = active[v]
    BY <1>12 DEF CheckContext
  <2>3. WorkerOK(w)'
    BY Zenon, <2>1 DEF WorkerInv, WorkerOK, Prefix
  <2> QED  BY Zenon, <2>2, <2>3, OthersFrame
<1>13. ASSUME NEW w \in Workers, markCompleted(w) PROVE WorkerInv'
  <2>1. /\ pc[w] = "marking"
        /\ \/ pc' = [pc EXCEPT ![w] = "after"]
           \/ ~active[w] /\ pc' = [pc EXCEPT ![w] = "exited"]
        /\ UNCHANGED <<rec, records, active>>
    BY <1>13, Zenon DEF markCompleted
  <2>2. rec[w] \in Offsets /\ rec[w] \in settled
    BY <2>1, Zenon DEF WorkerInv, WorkerOK, TypeOK, RuntimeType, WorkerType
  <2>3. active[w] => \A o \in Offsets : o < rec[w] + 1 => o \in settled'
    BY <2>1, <2>2 DEF WorkerInv, WorkerOK, Prefix
  <2>4. pc'[w] \in {"after", "exited"}
    BY <2>1, Zenon DEF TypeOK, RuntimeType, WorkerType
  <2>5. WorkerOK(w)'
    BY <2>1, <2>3, <2>4, Zenon DEF WorkerInv, WorkerOK, Prefix
  <2>6. \A v \in Workers \ {w} : /\ pc'[v] = pc[v] /\ rec'[v] = rec[v]
                                 /\ records'[v] = records[v] /\ active'[v] = active[v]
    BY <2>1, SMTT(20) DEF TypeOK, RuntimeType, WorkerType
  <2> QED  BY Zenon, <2>5, <2>6, OthersFrame
<1>14. ASSUME NEW w \in Workers, afterProcessed(w) PROVE WorkerInv'
  <2>1. /\ pc[w] = "after" /\ pc' = [pc EXCEPT ![w] = "idle"]
        /\ UNCHANGED <<rec, active>>
    BY <1>14, Zenon DEF afterProcessed
  <2>2. CASE UNCHANGED records
    <3>1. WorkerOK(w)'
      BY <2>1, <2>2 DEF WorkerInv, WorkerOK, Prefix
    <3>2. \A v \in Workers \ {w} : /\ pc'[v] = pc[v] /\ rec'[v] = rec[v]
                                   /\ records'[v] = records[v] /\ active'[v] = active[v]
      BY <2>1, <2>2
    <3> QED  BY Zenon, <3>1, <3>2, OthersFrame
  <2>3. CASE ~UNCHANGED records
    <3> DEFINE n == Min2(QueueSize - Len(records[w]), Len(queued))
               q == records[w]
               r == q \o SubSeq(queued, 1, n)
    <3>1. cur = w /\ records' = [records EXCEPT ![w] = r]
      BY Zenon, <1>14, <2>3 DEF afterProcessed
    <3>2. cur # 0 /\ n \in 0 .. Len(queued)
      BY <3>1 DEF Min2, TypeOK, RuntimeType, WorkerType
    <3>3. /\ SubSeq(queued, 1, n) \in Seq(Offsets)
          /\ Len(SubSeq(queued, 1, n)) = n
          /\ \A i \in 1 .. n : SubSeq(queued, 1, n)[i] = queued[i]
      <4> HIDE DEF n
      <4> QED  BY <3>2, TakePrefix, Zenon DEF TypeOK, RuntimeType, WorkerType
    <3>4. /\ Len(r) = Len(q) + n
          /\ \A i \in 1 .. Len(q) : r[i] = q[i]
          /\ \A i \in 1 .. n : r[Len(q) + i] = queued[i]
      <4> DEFINE m == SubSeq(queued, 1, n)
      <4>1. q \in Seq(Offsets) /\ m \in Seq(Offsets)
        BY <3>1, <3>2, <3>3, Zenon DEF TypeOK, RuntimeType, WorkerType
      <4>2. /\ Len(r) = Len(q) + Len(m)
            /\ \A i \in 1 .. Len(q) : r[i] = q[i]
            /\ \A i \in 1 .. Len(m) : r[Len(q) + i] = m[i]
        <5>1. r = q \o m
          OBVIOUS
        <5> HIDE DEF q, m, r
        <5> QED  BY <4>1, <5>1, ConcatParts, Zenon
      <4>3. Len(m) = n /\ \A i \in 1 .. n : m[i] = queued[i]
        BY Zenon, <3>3
      <4> HIDE DEF n, m, q, r
      <4> QED  BY <4>2, <4>3, Zenon
    <3>5. /\ \A i \in 1 .. Len(q) : q[i] = StreamStart + (i - 1)
          /\ \A i \in 1 .. Len(queued) : queued[i] = StreamStart + Len(q) + (i - 1)
          /\ Prefix(StreamStart)
      BY <2>1, <3>1, <3>2, Zenon DEF StreamInv
    <3>6. Len(q) \in Nat /\ Len(queued) \in Nat /\ StreamStart \in Int
      BY <3>1, LenProperties DEF StreamStart, TypeOK, RuntimeType, WorkerType
    <3>7. \A i \in 1 .. Len(r) : r[i] = StreamStart + (i - 1)
      <4> HIDE DEF q, r, n
      <4> TAKE i \in 1 .. Len(r)
      <4>1. CASE i <= Len(q)
        BY <3>2, <3>4, <3>5, <3>6, <4>1
      <4>2. CASE i > Len(q)
        <5>1. i - Len(q) \in 1 .. n /\ i = Len(q) + (i - Len(q))
          BY <3>2, <3>4, <3>6, <4>2
        <5>2. r[i] = queued[i - Len(q)]
          BY <3>4, <5>1, Zenon
        <5> QED  BY <3>2, <3>5, <3>6, <5>1, <5>2
      <4> QED  BY <3>6, <4>1, <4>2
    <3>8. /\ records'[w] = r /\ pc'[w] = "idle" /\ rec'[w] = rec[w]
      BY Zenon, <2>1, <3>1 DEF TypeOK, RuntimeType, WorkerType
    <3>9. r # <<>> => Len(r) > 0
      <4> HIDE DEF n
      <4>1. r \in Seq(Offsets)
        BY <3>3, ConcatProperties, Zenon DEF TypeOK, RuntimeType, WorkerType
      <4> HIDE DEF r
      <4> QED  BY <4>1, EmptySeq
    <3>10. WorkerOK(w)'
      <4> HIDE DEF q, r, n
      <4>1. Len(r) \in Nat
        BY <3>2, <3>4, <3>6
      <4>2. Len(r) > 0 => r[1] = StreamStart
        <5>1. Len(r) > 0 => 1 \in 1 .. Len(r)
          BY <4>1
        <5>2. Len(r) > 0 => r[1] = StreamStart + (1 - 1)
          BY <3>7, <5>1, Zenon
        <5> QED  BY <3>6, <5>2
      <4>3. \A i \in 1 .. Len(r) : r[i] = r[1] + (i - 1)
        <5> TAKE i \in 1 .. Len(r)
        <5>1. Len(r) > 0
          BY <4>1
        <5> QED  BY <3>7, <4>2, <5>1, Zenon
      <4> QED  BY <3>5, <3>8, <3>9, <4>2, <4>3, Zenon DEF WorkerOK, Prefix
    <3>11. \A v \in Workers \ {w} : /\ pc'[v] = pc[v] /\ rec'[v] = rec[v]
                                    /\ records'[v] = records[v] /\ active'[v] = active[v]
      BY <2>1, <3>1
    <3> QED  BY Zenon, <3>10, <3>11, OthersFrame
  <2> QED  BY <2>2, <2>3, Zenon
<1>15. CASE takePending
  <2>1. UNCHANGED <<pc, rec, records, active>>
    BY <1>15, Zenon DEF takePending
  <2> QED  BY <2>1, WorkerFrame, Zenon DEF WorkerInv
<1>16. ASSUME NEW outcome \in CommitOutcomes, FlushResult(outcome) PROVE WorkerInv'
  <2>1. UNCHANGED <<pc, rec, records, active>>
    BY <1>16, Zenon DEF FlushResult
  <2> QED  BY <2>1, WorkerFrame, Zenon DEF WorkerInv
<1>17. CASE beginRevoke
  <2>1. UNCHANGED <<pc, rec, records, active>>
    BY <1>17, Zenon DEF beginRevoke, removeWorkers
  <2> QED  BY <2>1, WorkerFrame, Zenon DEF WorkerInv
<1>18. CASE beginShutdown
  <2>1. UNCHANGED <<pc, rec, records, active>>
    BY <1>18, Zenon DEF beginShutdown, removeWorkers
  <2> QED  BY <2>1, WorkerFrame, Zenon DEF WorkerInv
<1>19. CASE finishRevoke
  <2>1. UNCHANGED <<pc, rec, records, active>>
    BY <1>19, Zenon DEF finishRevoke
  <2> QED  BY <2>1, WorkerFrame, Zenon DEF WorkerInv
<1>20. CASE finishShutdown
  <2>1. UNCHANGED <<pc, rec, records, active>>
    BY <1>20, Zenon DEF finishShutdown
  <2> QED  BY <2>1, WorkerFrame, Zenon DEF WorkerInv
<1>21. ASSUME NEW p \in Procs, Cancel(p) PROVE WorkerInv'
  <2>1. UNCHANGED <<pc, rec, records, active>>
    BY <1>21, Zenon DEF Cancel
  <2> QED  BY <2>1, WorkerFrame, Zenon DEF WorkerInv
<1>22. ASSUME NEW p \in Procs, Deactivate(p) PROVE WorkerInv'
  <2>1. UNCHANGED <<pc, rec, records>> /\ \A w \in Workers : active'[w] => active[w]
    BY <1>22 DEF Deactivate
  <2> QED  BY Zenon, <2>1, WorkerFrame DEF WorkerInv
<1>23. ASSUME NEW p \in Procs, Waited(p) PROVE WorkerInv'
  <2>1. UNCHANGED <<pc, rec, records, active>>
    BY <1>23, Zenon DEF Waited
  <2> QED  BY <2>1, WorkerFrame, Zenon DEF WorkerInv
<1>24. CASE Crash
  <2>1. \A w \in Workers : pc'[w] = "none" /\ ~active'[w]
    BY <1>24, Zenon DEF Crash, AllWorkers
  <2> QED  BY <2>1, Zenon DEF WorkerInv, WorkerOK
<1>25. CASE UNCHANGED vars
  <2>1. UNCHANGED <<pc, rec, records, active>>
    BY <1>25, Zenon DEF vars
  <2> QED  BY <2>1, WorkerFrame, Zenon DEF WorkerInv
<1> QED
  BY <1>1, <1>2, <1>3, <1>4, <1>5, <1>6, <1>7, <1>8, <1>9, <1>10, <1>11, <1>12,
     <1>13, <1>14, <1>15, <1>16, <1>17, <1>18, <1>19, <1>20, <1>21, <1>22, <1>23, <1>24, <1>25, Zenon
  DEF Next, Worker, Procedures

\* A step that leaves the position of the stream alone preserves StreamInv.
LEMMA StreamFrame ==
  ASSUME StreamInv, settled \subseteq settled', UNCHANGED <<cur, fetchPos, polled, queued>>,
         cur # 0 => /\ records'[cur] = records[cur] /\ rec'[cur] = rec[cur]
                    /\ pc'[cur] \in Busy => pc[cur] \in Busy
                    /\ pc'[cur] \in Ready => pc[cur] \in Ready
  PROVE  StreamInv'
BY Zenon DEF StreamInv, StreamStart, Prefix

\* Every step preserves StreamInv: the channel, the queue and the rest of the last
\* poll continue one another without a gap.  This is where a poll that spans a
\* rebalance would break the argument.
LEMMA StreamStep ==
  ASSUME TypeOK, ~PollSpansRebalance, LifecycleInv, HoldInv, CommitSourcesInv,
         WorkerInv, StreamInv, settled \subseteq settled', [Next]_vars
  PROVE  StreamInv'
<1> USE ConstantsAssumption
<1> USE DEF kafkaVars, runVars, pauseVars, workerVars, commitVars, procVars
<1>1. CASE assign
  <2>1. CASE stopped
    <3>1. cur' = 0
      BY <1>1, <2>1, Zenon DEF assign, LifecycleInv
    <3> QED  BY <3>1 DEF StreamInv
  <2>2. CASE ~stopped
    <3>1. /\ member = "out" /\ polled = <<>> /\ fetchPos' = committed
          /\ cur' = assignments + 1 /\ assignments + 1 \in Workers
          /\ UNCHANGED <<polled, queued, records, settled>>
      BY <1>1, <2>2 DEF assign, TypeOK, RuntimeType, WorkerType
    <3>2. queued = <<>>
      BY <3>1, Zenon DEF HoldInv
    <3>3. records[assignments + 1] = <<>>
      BY <3>1 DEF LifecycleInv, TypeOK, RuntimeType, WorkerType
    <3>4. pc' = [pc EXCEPT ![assignments + 1] = "idle"]
      BY <1>1, <2>2, Zenon DEF assign
    <3>5. pc'[cur'] = "idle" /\ records'[cur'] = <<>> /\ queued' = <<>> /\ polled' = <<>>
      BY <3>1, <3>2, <3>3, <3>4, Zenon DEF TypeOK, RuntimeType, WorkerType
    <3>6. StreamStart' = committed
      BY <3>1, <3>5 DEF StreamStart, TypeOK, RuntimeType, WorkerType
    <3>7. Prefix(StreamStart)'
      BY <3>1, <3>6, Zenon DEF CommitSourcesInv, Prefix
    <3> QED  BY <3>5, <3>7 DEF StreamInv
  <2> QED  BY <2>1, <2>2, Zenon
<1>2. CASE Fetch
  <2>1. UNCHANGED <<cur, fetchPos, polled, queued, records, rec, pc>>
    BY <1>2, Zenon DEF Fetch
  <2> QED  BY <2>1, StreamFrame, Zenon
<1>3. CASE Poll
  <2>1. PICK n \in 1 .. Min2(MaxPoll, fetched - fetchPos) :
            polled' = [i \in 1 .. n |-> fetchPos + i - 1] /\ fetchPos' = fetchPos + n
    BY <1>3, Zenon DEF Poll
  <2>2. polled = <<>> /\ UNCHANGED <<cur, queued, records, rec, pc, settled>>
    BY <1>3, Zenon DEF Poll
  <2>3. n \in Nat
    BY DEF Min2
  <2>4. Len(polled') = n /\ \A i \in 1 .. n : polled'[i] = fetchPos + i - 1
    BY <2>1, <2>3
  <2>5. SUFFICES ASSUME cur # 0 PROVE StreamInv'
    BY <2>2, Zenon DEF StreamInv
  <2>6. Len(queued) \in Nat /\ Len(records[cur]) \in Nat
    BY <2>5
  <2>7. StreamStart' = StreamStart /\ StreamStart \in Int
    BY <2>1, <2>2, <2>3, <2>4, <2>6 DEF StreamStart, TypeOK, RuntimeType, WorkerType
  <2>8. \A i \in 1 .. Len(polled') :
          polled'[i] = StreamStart + Len(records[cur]) + Len(queued) + (i - 1)
    BY <2>2, <2>3, <2>4, <2>6 DEF StreamStart, TypeOK, RuntimeType, WorkerType
  <2> QED  BY <2>2, <2>5, <2>7, <2>8, Zenon DEF StreamInv, Prefix
<1>4. CASE Evict
  <2>1. UNCHANGED <<cur, fetchPos, polled, queued, records, rec, pc>>
    BY <1>4, Zenon DEF Evict
  <2> QED  BY <2>1, StreamFrame, Zenon
<1>5. CASE OtherMember
  <2>1. UNCHANGED <<cur, fetchPos, polled, queued, records, rec, pc>>
    BY <1>5, Zenon DEF OtherMember
  <2> QED  BY <2>1, StreamFrame, Zenon
<1>6. CASE enqueue
  <2>1. SUFFICES ASSUME cur # 0 PROVE StreamInv'
    <3>1. cur' = cur
      BY <1>6, Zenon DEF enqueue
    <3> QED  BY <3>1, Zenon DEF StreamInv
  <2>2. /\ polled # <<>> /\ polled' = Tail(polled) /\ ~stopped
        /\ UNCHANGED <<cur, fetchPos, rec, pc, settled>>
    BY <1>6, <2>1, Zenon DEF enqueue, LifecycleInv
  <2>3. /\ Head(polled) \in Offsets /\ Len(polled) \in Nat /\ Len(polled) > 0
        /\ Head(polled) = polled[1]
        /\ Len(polled') = Len(polled) - 1 /\ \A i \in 1 .. Len(polled') : polled'[i] = polled[i + 1]
    BY <2>2, HeadTailProperties, EmptySeq DEF TypeOK, RuntimeType, WorkerType
  <2>4. PICK w \in Workers : w = cur
    BY <2>1 DEF TypeOK, RuntimeType, WorkerType
  <2> DEFINE q == records[w]
  <2>5. /\ q \in Seq(Offsets) /\ Len(q) \in Nat /\ Len(queued) \in Nat /\ StreamStart \in Int
    BY <2>3, <2>4, LenProperties DEF StreamStart, TypeOK, RuntimeType, WorkerType
  <2>6. /\ \A i \in 1 .. Len(q) : q[i] = StreamStart + (i - 1)
        /\ \A i \in 1 .. Len(queued) : queued[i] = StreamStart + Len(q) + (i - 1)
        /\ \A i \in 1 .. Len(polled) : polled[i] = StreamStart + Len(q) + Len(queued) + (i - 1)
        /\ pc[w] \in Busy => rec[w] = StreamStart - 1
        /\ pc[w] \in Ready => Prefix(StreamStart)
    BY <2>1, <2>4, Zenon DEF StreamInv
  <2>7. Head(polled) = StreamStart + Len(q) + Len(queued)
    BY <2>3, <2>5, <2>6
  <2>8. \A i \in 1 .. Len(polled') :
          polled'[i] = StreamStart + Len(q) + Len(queued) + 1 + (i - 1)
    <3> HIDE DEF q
    <3> QED  BY <2>3, <2>5, <2>6
  <2>9. CASE ~MustQueue
    <3> DEFINE r == Append(q, Head(polled))
    <3>1. queued = <<>> /\ UNCHANGED queued /\ records' = [records EXCEPT ![w] = r]
      BY Zenon, <1>6, <2>1, <2>2, <2>4, <2>9 DEF enqueue, MustQueue
    <3>2. /\ Len(r) = Len(q) + 1 /\ r[Len(q) + 1] = Head(polled)
          /\ \A i \in 1 .. Len(q) : r[i] = q[i]
      BY <2>3, <2>5, AppendProperties
    <3>3. records'[cur'] = r /\ queued' = <<>> /\ Len(queued) = 0
      BY <2>2, <2>4, <3>1, Zenon DEF TypeOK, RuntimeType, WorkerType
    <3> HIDE DEF q, r
    <3>4. StreamStart' = StreamStart
      <4>1. /\ StreamStart = fetchPos - Len(polled) - Len(queued) - Len(q)
            /\ StreamStart' = fetchPos - Len(polled') - Len(queued') - Len(r)
        BY <2>2, <2>4, <3>3, Zenon DEF StreamStart, q
      <4>2. Len(queued') = 0
        BY <3>3, Zenon
      <4> QED  BY <2>3, <2>5, <3>2, <3>3, <4>1, <4>2 DEF TypeOK, RuntimeType, WorkerType
    <3>5. \A i \in 1 .. Len(r) : r[i] = StreamStart + (i - 1)
      <4> TAKE i \in 1 .. Len(r)
      <4>1. CASE i <= Len(q)
        BY <2>5, <2>6, <3>2, <4>1
      <4>2. CASE i = Len(q) + 1
        BY <2>5, <2>7, <3>2, <3>3, <4>2
      <4> QED  BY <2>5, <3>2, <4>1, <4>2
    <3>6. \A i \in 1 .. Len(polled') :
            polled'[i] = StreamStart + Len(r) + Len(queued') + (i - 1)
      BY <2>5, <2>8, <3>2, <3>3
    <3> QED  BY <2>2, <2>4, <2>6, <3>3, <3>4, <3>5, <3>6 DEF StreamInv, Prefix
  <2>10. CASE MustQueue
    <3> DEFINE r == Append(queued, Head(polled))
    <3>1. queued' = r /\ UNCHANGED records
      BY <1>6, <2>1, <2>2, <2>10, Zenon DEF enqueue
    <3>2. /\ Len(r) = Len(queued) + 1 /\ r[Len(queued) + 1] = Head(polled)
          /\ \A i \in 1 .. Len(queued) : r[i] = queued[i]
      BY <2>3, <2>5, AppendProperties
    <3>3. records'[cur'] = q
      BY <2>2, <2>4, <3>1, Zenon
    <3> HIDE DEF q, r
    <3>4. StreamStart' = StreamStart
      BY <2>2, <2>3, <2>4, <2>5, <3>1, <3>2, <3>3
         DEF StreamStart, q, TypeOK, RuntimeType, WorkerType
    <3>5. \A i \in 1 .. Len(r) : r[i] = StreamStart + Len(q) + (i - 1)
      <4> TAKE i \in 1 .. Len(r)
      <4>1. CASE i <= Len(queued)
        BY <2>5, <2>6, <3>2, <4>1
      <4>2. CASE i = Len(queued) + 1
        BY <2>5, <2>7, <3>2, <4>2
      <4> QED  BY <2>5, <3>2, <4>1, <4>2
    <3>6. \A i \in 1 .. Len(polled') : polled'[i] = StreamStart + Len(q) + Len(r) + (i - 1)
      BY <2>5, <2>8, <3>2
    <3> QED  BY <2>2, <2>4, <2>6, <3>1, <3>3, <3>4, <3>5, <3>6, Zenon DEF StreamInv, Prefix
  <2> QED  BY <2>9, <2>10, Zenon
<1>7. ASSUME NEW w \in Workers, Take(w) PROVE StreamInv'
  <2> DEFINE q == records[w]
  <2>1. /\ pc[w] = "idle" /\ q # <<>>
        /\ pc' = [pc EXCEPT ![w] = "handling"] /\ rec' = [rec EXCEPT ![w] = Head(q)]
        /\ records' = [records EXCEPT ![w] = Tail(q)]
        /\ UNCHANGED <<cur, fetchPos, polled, queued, settled>>
    BY <1>7, Zenon DEF Take
  <2>2. CASE cur # w
    <3>1. cur # 0 => records'[cur] = records[cur] /\ rec'[cur] = rec[cur] /\ pc'[cur] = pc[cur]
      BY <2>1, <2>2
    <3> QED  BY <2>1, <3>1, StreamFrame, Zenon
  <2>3. CASE cur = w
    <3>1. q \in Seq(Offsets) /\ Len(q) \in Nat /\ Len(q) > 0 /\ Head(q) = q[1]
      BY <2>1, EmptySeq, LenProperties DEF TypeOK, RuntimeType, WorkerType
    <3>2. Len(Tail(q)) = Len(q) - 1 /\ \A i \in 1 .. Len(Tail(q)) : Tail(q)[i] = q[i + 1]
      BY <2>1, <3>1, HeadTailProperties, Zenon
    <3>3. /\ \A i \in 1 .. Len(q) : q[i] = StreamStart + (i - 1)
          /\ \A i \in 1 .. Len(queued) : queued[i] = StreamStart + Len(q) + (i - 1)
          /\ \A i \in 1 .. Len(polled) : polled[i] = StreamStart + Len(q) + Len(queued) + (i - 1)
      BY <2>3 DEF StreamInv
    <3>4. cur' = w /\ pc'[w] = "handling" /\ rec'[w] = q[1] /\ records'[w] = Tail(q)
      BY <2>1, <2>3, <3>1, Zenon DEF TypeOK, RuntimeType, WorkerType
    <3>5. Len(queued) \in Nat /\ Len(polled) \in Nat /\ StreamStart \in Int
      BY <2>3, <3>1, LenProperties DEF StreamStart, TypeOK, RuntimeType, WorkerType
    <3> HIDE DEF q
    <3>6. StreamStart' = StreamStart + 1
      BY <2>1, <2>3, <3>1, <3>2, <3>4, <3>5 DEF StreamStart, q, TypeOK, RuntimeType, WorkerType
    <3>7. q[1] = StreamStart
      <4>1. 1 \in 1 .. Len(q)
        BY <3>1
      <4>2. q[1] = StreamStart + (1 - 1)
        BY <3>3, <4>1, Zenon
      <4> QED  BY <3>5, <4>2
    <3>8. \A i \in 1 .. Len(Tail(q)) : Tail(q)[i] = StreamStart' + (i - 1)
      BY <3>1, <3>2, <3>3, <3>5, <3>6
    <3>12. StreamStart' + Len(Tail(q)) = StreamStart + Len(q)
      <4>1. PICK l \in Nat : l = Len(q) /\ Len(Tail(q)) = l - 1
        BY <3>1, <3>2, Zenon
      <4>2. PICK a \in Int : a = StreamStart /\ StreamStart' = a + 1
        BY <3>5, <3>6, Zenon
      <4>3. (a + 1) + (l - 1) = a + l
        OBVIOUS
      <4> QED  BY Zenon, <4>1, <4>2, <4>3
    <3>9. \A i \in 1 .. Len(queued) : queued[i] = StreamStart' + Len(Tail(q)) + (i - 1)
      BY <3>3, <3>12, Zenon
    <3>10. \A i \in 1 .. Len(polled) :
             polled[i] = StreamStart' + Len(Tail(q)) + Len(queued) + (i - 1)
      BY <3>3, <3>12, Zenon
    <3>11. rec'[w] = StreamStart' - 1
      BY <3>4, <3>5, <3>6, <3>7
    <3> QED  BY <2>1, <3>4, <3>8, <3>9, <3>10, <3>11, Zenon DEF StreamInv, TypeOK, RuntimeType, WorkerType
  <2> QED  BY <2>2, <2>3, Zenon
<1>8. ASSUME NEW w \in Workers, Exit(w) PROVE StreamInv'
  <2>1. /\ UNCHANGED <<cur, fetchPos, polled, queued, records, rec>>
        /\ (pc'[w] \in Busy /\ pc[w] \in Busy) \/ pc'[w] = "exited"
        /\ \A v \in Workers : v # w => pc'[v] = pc[v]
    BY <1>8, Zenon DEF Exit, TypeOK, RuntimeType, WorkerType
  <2>2. cur # 0 => /\ pc'[cur] \in Busy => pc[cur] \in Busy
                   /\ pc'[cur] \in Ready => pc[cur] \in Ready
    BY <2>1, SMTT(20) DEF TypeOK, RuntimeType, WorkerType
  <2> QED  BY <2>1, <2>2, StreamFrame, Zenon
<1>9. ASSUME NEW w \in Workers, Settle(w) PROVE StreamInv'
  <2>1. /\ UNCHANGED <<cur, fetchPos, polled, queued, records, rec>>
        /\ (pc'[w] \in Busy /\ pc[w] \in Busy) \/ pc'[w] = "exited"
        /\ \A v \in Workers : v # w => pc'[v] = pc[v]
    BY <1>9 DEF Settle
  <2>2. cur # 0 => /\ pc'[cur] \in Busy => pc[cur] \in Busy
                   /\ pc'[cur] \in Ready => pc[cur] \in Ready
    BY <2>1, SMTT(20) DEF TypeOK, RuntimeType, WorkerType
  <2> QED  BY <2>1, <2>2, StreamFrame, Zenon
<1>10. ASSUME NEW w \in Workers, FirstFailure(w) PROVE StreamInv'
  <2>1. /\ UNCHANGED <<cur, fetchPos, polled, queued, records, rec>>
        /\ (pc'[w] \in Busy /\ pc[w] \in Busy) \/ pc'[w] = "exited"
        /\ \A v \in Workers : v # w => pc'[v] = pc[v]
    BY <1>10 DEF FirstFailure
  <2>2. cur # 0 => /\ pc'[cur] \in Busy => pc[cur] \in Busy
                   /\ pc'[cur] \in Ready => pc[cur] \in Ready
    BY <2>1 DEF TypeOK, RuntimeType, WorkerType
  <2> QED  BY <2>1, <2>2, StreamFrame, Zenon
<1>11. ASSUME NEW w \in Workers, RetryFailure(w) PROVE StreamInv'
  <2>1. /\ UNCHANGED <<cur, fetchPos, polled, queued, records, rec>>
        /\ (pc'[w] \in Busy /\ pc[w] \in Busy) \/ pc'[w] = "exited"
        /\ \A v \in Workers : v # w => pc'[v] = pc[v]
    BY <1>11, SMTT(20) DEF RetryFailure, TypeOK, RuntimeType, WorkerType
  <2>2. cur # 0 => /\ pc'[cur] \in Busy => pc[cur] \in Busy
                   /\ pc'[cur] \in Ready => pc[cur] \in Ready
    BY <2>1 DEF TypeOK, RuntimeType, WorkerType
  <2> QED  BY <2>1, <2>2, StreamFrame, Zenon
<1>12. ASSUME NEW w \in Workers, CheckContext(w) PROVE StreamInv'
  <2>1. /\ UNCHANGED <<cur, fetchPos, polled, queued, records, rec>>
        /\ (pc'[w] \in Busy /\ pc[w] \in Busy) \/ pc'[w] = "exited"
        /\ \A v \in Workers : v # w => pc'[v] = pc[v]
    BY <1>12 DEF CheckContext
  <2>2. cur # 0 => /\ pc'[cur] \in Busy => pc[cur] \in Busy
                   /\ pc'[cur] \in Ready => pc[cur] \in Ready
    BY <2>1 DEF TypeOK, RuntimeType, WorkerType
  <2> QED  BY <2>1, <2>2, StreamFrame, Zenon
<1>13. ASSUME NEW w \in Workers, markCompleted(w) PROVE StreamInv'
  <2>1. /\ UNCHANGED <<cur, fetchPos, polled, queued, records, rec, settled>>
        /\ pc[w] = "marking"
        /\ \/ pc' = [pc EXCEPT ![w] = "after"]
           \/ ~active[w] /\ pc' = [pc EXCEPT ![w] = "exited"]
    BY <1>13, Zenon DEF markCompleted
  <2>2. CASE cur # w
    <3>1. cur # 0 => pc'[cur] = pc[cur]
      BY <2>1, <2>2, SMTT(20) DEF TypeOK, RuntimeType, WorkerType
    <3> QED  BY <2>1, <3>1, StreamFrame, Zenon
  <2>3. CASE cur = w
    <3>1. active[w]
      BY <2>3 DEF LifecycleInv
    <3>2. rec[w] \in settled /\ Prefix(rec[w])
      BY Zenon, <2>1, <3>1 DEF WorkerInv, WorkerOK
    <3>3. rec[w] = StreamStart - 1
      BY <2>1, <2>3 DEF StreamInv
    <3>4. rec[w] \in Int /\ StreamStart \in Int
      BY <2>3, LenProperties DEF StreamStart, TypeOK, RuntimeType, WorkerType
    <3>5. Prefix(StreamStart)
      <4>1. \A o \in Offsets : o < StreamStart => o < rec[w] \/ o = rec[w]
        BY <3>3, <3>4
      <4> QED  BY <3>2, <4>1, Zenon DEF Prefix
    <3>6. pc'[w] = "after" /\ cur' = w
      BY <2>1, <2>3, <3>1, Zenon DEF TypeOK, RuntimeType, WorkerType
    <3> QED  BY <2>1, <2>3, <3>5, <3>6, Zenon DEF StreamInv, StreamStart, Prefix
  <2> QED  BY <2>2, <2>3, Zenon
<1>14. ASSUME NEW w \in Workers, afterProcessed(w) PROVE StreamInv'
  <2>1. /\ pc[w] = "after" /\ pc' = [pc EXCEPT ![w] = "idle"]
        /\ UNCHANGED <<rec, cur, fetchPos, polled, settled>>
    BY <1>14, Zenon DEF afterProcessed
  <2>2. CASE cur # w \/ stopped
    <3>1. UNCHANGED <<queued, records>>
      BY <1>14, <2>2, Zenon DEF afterProcessed
    <3>2. cur # 0 => pc'[cur] = pc[cur]
      BY <2>1, <2>2 DEF LifecycleInv
    <3> QED  BY <2>1, <3>1, <3>2, StreamFrame, Zenon
  <2>3. CASE cur = w /\ ~stopped
    <3> DEFINE n == Min2(QueueSize - Len(records[w]), Len(queued))
               q == records[w]
               m == SubSeq(queued, 1, n)
               r == q \o m
               k == SubSeq(queued, n + 1, Len(queued))
    <3>1. records' = [records EXCEPT ![w] = r] /\ queued' = k
      BY Zenon, <1>14, <2>3 DEF afterProcessed
    <3>2. n \in 0 .. Len(queued)
      BY <2>3 DEF Min2, TypeOK, RuntimeType, WorkerType
    <3> HIDE DEF n
    <3>3. /\ m \in Seq(Offsets) /\ Len(m) = n /\ Len(k) = Len(queued) - n
          /\ \A i \in 1 .. n : m[i] = queued[i]
          /\ \A i \in 1 .. Len(queued) - n : k[i] = queued[n + i]
      BY <3>2, TakePrefix, Zenon DEF TypeOK, RuntimeType, WorkerType
    <3> HIDE DEF m, k
    <3>4. /\ Len(r) = Len(q) + n
          /\ \A i \in 1 .. Len(q) : r[i] = q[i]
          /\ \A i \in 1 .. n : r[Len(q) + i] = queued[i]
      <4>1. q \in Seq(Offsets)
        BY Zenon DEF TypeOK, RuntimeType, WorkerType
      <4> HIDE DEF q
      <4>2. /\ Len(r) = Len(q) + Len(m)
            /\ \A i \in 1 .. Len(q) : r[i] = q[i]
            /\ \A i \in 1 .. Len(m) : r[Len(q) + i] = m[i]
        BY Zenon, <3>3, <4>1, ConcatParts
      <4> QED  BY <3>3, <4>2, Zenon
    <3>5. /\ \A i \in 1 .. Len(q) : q[i] = StreamStart + (i - 1)
          /\ \A i \in 1 .. Len(queued) : queued[i] = StreamStart + Len(q) + (i - 1)
          /\ \A i \in 1 .. Len(polled) : polled[i] = StreamStart + Len(q) + Len(queued) + (i - 1)
          /\ Prefix(StreamStart)
      BY <2>1, <2>3 DEF StreamInv
    <3>6. /\ Len(q) \in Nat /\ Len(queued) \in Nat /\ Len(polled) \in Nat
          /\ StreamStart \in Int
      BY <2>3, LenProperties DEF StreamStart, TypeOK, RuntimeType, WorkerType
    <3>7. records'[w] = r /\ cur' = w /\ pc'[w] = "idle"
      BY <2>1, <2>3, <3>1, Zenon DEF TypeOK, RuntimeType, WorkerType
    <3> HIDE DEF q, r
    <3>8. StreamStart' = StreamStart
      <4>1. fetchPos' = fetchPos /\ polled' = polled /\ cur = w /\ records[w] = q
        BY <2>1, <2>3, Zenon DEF q
      <4>2. Len(queued') = Len(queued) - n
        BY <3>1, <3>3, Zenon
      <4>3. Len(records'[cur']) = Len(q) + n
        BY <3>4, <3>7, Zenon
      <4>4. n \in Int /\ fetchPos \in Int
        BY <3>2 DEF TypeOK, RuntimeType, WorkerType
      <4> QED  BY <3>6, <4>1, <4>2, <4>3, <4>4 DEF StreamStart
    <3>9. \A i \in 1 .. Len(r) : r[i] = StreamStart + (i - 1)
      <4> TAKE i \in 1 .. Len(r)
      <4>1. CASE i <= Len(q)
        BY <3>2, <3>4, <3>5, <3>6, <4>1
      <4>2. CASE i > Len(q)
        <5>1. i - Len(q) \in 1 .. n /\ i = Len(q) + (i - Len(q))
          BY <3>2, <3>4, <3>6, <4>2
        <5>2. r[i] = queued[i - Len(q)]
          BY <3>4, <5>1, Zenon
        <5> QED  BY <3>2, <3>5, <3>6, <5>1, <5>2
      <4> QED  BY <3>6, <4>1, <4>2
    <3>10. \A i \in 1 .. Len(k) : k[i] = StreamStart + Len(r) + (i - 1)
      <4> TAKE i \in 1 .. Len(k)
      <4>1. k[i] = queued[n + i] /\ n + i \in 1 .. Len(queued)
        BY <3>2, <3>3, <3>6
      <4> QED  BY <3>2, <3>4, <3>5, <3>6, <4>1
    <3>11. \A i \in 1 .. Len(polled) : polled[i] = StreamStart + Len(r) + Len(k) + (i - 1)
      BY <3>2, <3>3, <3>4, <3>5, <3>6
    <3> QED  BY <2>1, <3>1, <3>5, <3>7, <3>8, <3>9, <3>10, <3>11 DEF StreamInv, Prefix
  <2> QED  BY <2>2, <2>3, Zenon
<1>15. CASE takePending
  <2>1. UNCHANGED <<cur, fetchPos, polled, queued, records, rec, pc>>
    BY <1>15, Zenon DEF takePending
  <2> QED  BY <2>1, StreamFrame, Zenon
<1>16. ASSUME NEW outcome \in CommitOutcomes, FlushResult(outcome) PROVE StreamInv'
  <2>1. UNCHANGED <<cur, fetchPos, polled, queued, records, rec, pc>>
    BY <1>16, Zenon DEF FlushResult
  <2> QED  BY <2>1, StreamFrame, Zenon
<1>17. CASE beginRevoke
  <2>1. cur' = 0
    BY <1>17, Zenon DEF beginRevoke, removeWorkers
  <2> QED  BY <2>1, Zenon DEF StreamInv
<1>18. CASE beginShutdown
  <2>1. cur' = 0
    BY <1>18, Zenon DEF beginShutdown, removeWorkers
  <2> QED  BY <2>1, Zenon DEF StreamInv
<1>19. CASE finishRevoke
  <2>1. UNCHANGED <<cur, fetchPos, polled, queued, records, rec, pc>>
    BY <1>19, Zenon DEF finishRevoke
  <2> QED  BY <2>1, StreamFrame, Zenon
<1>20. CASE finishShutdown
  <2>1. UNCHANGED <<cur, fetchPos, polled, queued, records, rec, pc>>
    BY <1>20, Zenon DEF finishShutdown
  <2> QED  BY <2>1, StreamFrame, Zenon
<1>21. ASSUME NEW p \in Procs, Cancel(p) PROVE StreamInv'
  <2>1. UNCHANGED <<cur, fetchPos, polled, queued, records, rec, pc>>
    BY <1>21, Zenon DEF Cancel
  <2> QED  BY <2>1, StreamFrame, Zenon
<1>22. ASSUME NEW p \in Procs, Deactivate(p) PROVE StreamInv'
  <2>1. UNCHANGED <<cur, fetchPos, polled, queued, records, rec, pc>>
    BY <1>22, Zenon DEF Deactivate
  <2> QED  BY <2>1, StreamFrame, Zenon
<1>23. ASSUME NEW p \in Procs, Waited(p) PROVE StreamInv'
  <2>1. UNCHANGED <<cur, fetchPos, polled, queued, records, rec, pc>>
    BY <1>23, Zenon DEF Waited
  <2> QED  BY <2>1, StreamFrame, Zenon
<1>24. CASE Crash
  <2>1. cur' = 0
    BY <1>24, Zenon DEF Crash
  <2> QED  BY <2>1, Zenon DEF StreamInv
<1>25. CASE UNCHANGED vars
  <2>1. UNCHANGED <<cur, fetchPos, polled, queued, records, rec, pc>>
    BY <1>25, Zenon DEF vars
  <2> QED  BY <2>1, StreamFrame, Zenon
<1> QED
  BY <1>1, <1>2, <1>3, <1>4, <1>5, <1>6, <1>7, <1>8, <1>9, <1>10, <1>11, <1>12,
     <1>13, <1>14, <1>15, <1>16, <1>17, <1>18, <1>19, <1>20, <1>21, <1>22, <1>23, <1>24, <1>25, Zenon
  DEF Next, Worker, Procedures

\* The consumer starts in a state that satisfies the inductive invariant.
LEMMA CommitInvInit ==
  ASSUME Init
  PROVE  TypeOK /\ CommitInv
<1> USE ConstantsAssumption DEF Init, AllWorkers, BothProcs
<1>1. RuntimeType
  <2>1. paused \in BOOLEAN /\ stopped \in BOOLEAN /\ closed \in BOOLEAN
    BY Zenon
  <2>2. polled \in Seq(Offsets) /\ queued \in Seq(Offsets)
    OBVIOUS
  <2>3. member \in {"out", "in", "revoking", "lost"} /\ pauseReasons \subseteq Reasons
    OBVIOUS
  <2> QED  BY <2>1, <2>2, <2>3 DEF RuntimeType
<1>2. WorkerType
  BY DEF WorkerType
<1>3. CommitterType
  <2>1. backpressured \in BOOLEAN /\ pexpired \in [Procs -> BOOLEAN]
    BY Zenon
  <2>2. /\ ppc \in [Procs -> {"idle", "cancel", "deactivate", "wait", "finish", "done"}]
        /\ pworker \in [Procs -> 0 .. MaxAssignments]
    OBVIOUS
  <2> QED  BY <2>1, <2>2, Zenon DEF CommitterType
<1>4. LifecycleInv
  BY DEF LifecycleInv
<1>5. HoldInv
  BY Zenon DEF HoldInv
<1>6. CommitSourcesInv
  BY DEF CommitSourcesInv, Prefix
<1>7. WorkerInv
  BY Zenon DEF WorkerInv, WorkerOK
<1>8. StreamInv
  BY Zenon DEF StreamInv
<1> QED  BY <1>1, <1>2, <1>3, <1>4, <1>5, <1>6, <1>7, <1>8, Zenon DEF TypeOK, CommitInv

\* The types, the capacity of every worker's channel included, hold in every
\* reachable state of the consumer: enqueue and afterProcessed together never
\* send to a full channel while they hold the runtime's lock.
THEOREM TypeCorrect == Spec => []TypeOK
<1>1. Init => TypeOK
  BY CommitInvInit, Zenon
<1>2. TypeOK /\ [Next]_vars => TypeOK'
  BY TypeStep, Zenon
<1> QED  BY <1>1, <1>2, PTL DEF Spec

\* As long as no poll spans a rebalance, the group's committed offset passes
\* settled records only: "workers stop and only completed records are committed",
\* for every log, queue, poll and batch size, any number of reassignments, crashes
\* and evictions, and any outcome of the commits.
THEOREM OnlyCompletedIsCommitted ==
  ASSUME ~PollSpansRebalance
  PROVE  Spec => []OnlyCompletedCommitted
<1>1. Init => TypeOK /\ CommitInv
  BY CommitInvInit, Zenon
<1>2. TypeOK /\ CommitInv /\ [Next]_vars => TypeOK' /\ CommitInv'
  <2> SUFFICES ASSUME TypeOK, CommitInv, [Next]_vars
               PROVE  TypeOK' /\ CommitInv'
    OBVIOUS
  <2>1. settled \subseteq settled'
    BY SettledGrows, Zenon
  <2>2. LifecycleInv' /\ HoldInv'
    BY LifecycleStep, HoldStep, Zenon DEF CommitInv
  <2>3. CommitSourcesInv' /\ WorkerInv' /\ StreamInv'
    BY <2>1, SourcesStep, WorkerStep, StreamStep, Zenon DEF CommitInv
  <2> QED  BY <2>2, <2>3, TypeStep, Zenon DEF CommitInv
<1>3. CommitInv => OnlyCompletedCommitted
  BY Zenon DEF CommitInv, CommitSourcesInv, Prefix, OnlyCompletedCommitted
<1> QED  BY <1>1, <1>2, <1>3, PTL DEF Spec
=============================================================================
