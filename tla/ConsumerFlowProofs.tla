------------------------- MODULE ConsumerFlowProofs -------------------------
(***************************************************************************)
(* How records flow through the partition consumer: that pauses hold, that *)
(* the records of a partition are handled in order, one at a time, and     *)
(* that the committed offset never regresses.  CommitInv of                *)
(* PartitionConsumerProofs is the start of each argument.                  *)
(***************************************************************************)
EXTENDS PartitionConsumerProofs

USE DEF NoOffset, Offsets, Workers, Procs, Reasons, Busy, Ready

----------------------------------------------------------------------------
(* PausesHold is about a worker's pauses, the committer's and the overflow   *)
(* queue's at once.  PauseInv adds who may still mark a record and what the  *)
(* reasons are worth: the next assignment starts unpaused because nothing    *)
(* survives the last one.                                                    *)

\* Only the worker in the runtime's map, or the one a revocation is taking out,
\* can still mark a record.
OwnersAct ==
  /\ member = "out" => ppc["revoke"] = "idle"
  /\ ppc["revoke"] = "deactivate" => pworker["revoke"] # 0
  /\ ~stopped => \A w \in Workers : active[w] =>
       \/ w = cur
       \/ w = pworker["revoke"] /\ ppc["revoke"] \in {"cancel", "deactivate"}

\* The client is paused for a reason, the reasons are those of the current
\* worker, and neither they nor the committer's flag outlive the assignment.
ReasonsMatch ==
  /\ cur = 0 => pauseReasons = {}
  /\ cur # 0 => (paused <=> pauseReasons # {}) /\ ("commit" \in pauseReasons <=> backpressured)
  /\ queued # <<>> => "queue" \in pauseReasons
  /\ ~stopped /\ member = "out" => ~backpressured

\* One poll, the client's buffer, and both with the overflow queue are bounded.
BacklogBounded ==
  /\ Len(polled) <= MaxPoll
  /\ fetched - fetchPos <= MaxBuffered
  /\ Len(queued) + Len(polled) + (fetched - fetchPos) <= MaxPoll + MaxBuffered

\* The inductive invariant behind PausesHold.
PauseInv == OwnersAct /\ ReasonsMatch /\ BacklogBounded

\* A step that leaves assignments, procedures and activity alone keeps OwnersAct.
LEMMA OwnersFrame ==
  ASSUME OwnersAct, UNCHANGED <<member, cur, stopped, active, pworker>>,
         ppc'["revoke"] = ppc["revoke"]
  PROVE  OwnersAct'
BY Zenon DEF OwnersAct

\* Every step keeps OwnersAct: a worker is deactivated before its revocation
\* goes on (worker.stop), and assign finds none left.
LEMMA OwnersStep ==
  ASSUME TypeOK, LifecycleInv, HoldInv, OwnersAct, [Next]_vars
  PROVE  OwnersAct'
<1> USE DEF kafkaVars, runVars, pauseVars, workerVars, commitVars, procVars
<1>1. CASE assign
  <2>1. /\ member = "out" /\ member' = "in" /\ ppc["revoke"] = "idle"
        /\ UNCHANGED <<ppc, pworker, stopped>>
    BY <1>1, Zenon DEF assign
  <2>2. ~stopped => /\ cur' = assignments + 1
                    /\ active' = [active EXCEPT ![assignments + 1] = TRUE]
    BY <1>1, Zenon DEF assign
  <2>3. cur = 0
    BY <2>1, Zenon DEF HoldInv
  <2>4. ASSUME ~stopped, NEW w \in Workers, active'[w]
        PROVE  w = cur'
    <3>1. CASE w = assignments + 1
      BY <2>2, <2>4, <3>1, Zenon
    <3>2. CASE w # assignments + 1
      <4>1. active[w]
        BY <2>2, <2>4, <3>2, Zenon DEF TypeOK, WorkerType
      <4> QED  BY <2>1, <2>3, <2>4, <4>1 DEF OwnersAct
    <3> QED  BY <3>1, <3>2, Zenon
  <2> QED  BY <2>1, <2>4, Zenon DEF OwnersAct
<1>2. CASE Fetch \/ Poll \/ OtherMember \/ enqueue \/ takePending
  <2>1. UNCHANGED <<member, cur, stopped, active, pworker, ppc>>
    BY <1>2, Zenon DEF Fetch, Poll, OtherMember, enqueue, takePending
  <2> QED  BY <2>1, OwnersFrame, Zenon
<1>3. CASE Evict
  BY <1>3, Zenon DEF Evict, OwnersAct
<1>4. ASSUME NEW w \in Workers, Worker(w) PROVE OwnersAct'
  <2>1. UNCHANGED <<member, cur, stopped, active, pworker, ppc>>
    BY <1>4, Zenon DEF Worker, Take, Exit, Settle, FirstFailure, RetryFailure, CheckContext,
                markCompleted, afterProcessed
  <2> QED  BY <2>1, OwnersFrame, Zenon
<1>5. ASSUME NEW outcome \in CommitOutcomes, FlushResult(outcome) PROVE OwnersAct'
  <2>1. UNCHANGED <<member, cur, stopped, active, pworker, ppc>>
    BY <1>5, Zenon DEF FlushResult
  <2> QED  BY <2>1, OwnersFrame, Zenon
<1>6. CASE beginRevoke
  <2>1. /\ member \in {"in", "lost"} /\ member' \in {"revoking", "lost"}
        /\ ppc["revoke"] = "idle" /\ ppc'["revoke"] = "cancel"
        /\ pworker'["revoke"] = cur /\ cur' = 0 /\ UNCHANGED <<stopped, active>>
    BY <1>6, Zenon DEF beginRevoke, removeWorkers, TypeOK, CommitterType
  <2> QED  BY <2>1, Zenon DEF OwnersAct
<1>7. CASE beginShutdown
  <2>1. /\ stopped' = TRUE /\ UNCHANGED member
        /\ ppc'["revoke"] = ppc["revoke"] /\ pworker'["revoke"] = pworker["revoke"]
    BY <1>7, Zenon DEF beginShutdown, removeWorkers, TypeOK, CommitterType
  <2> QED  BY <2>1, Zenon DEF OwnersAct
<1>8. CASE finishRevoke
  <2>1. /\ ppc["revoke"] = "finish" /\ ppc'["revoke"] = "idle"
        /\ UNCHANGED <<cur, stopped, active>>
    BY <1>8, Zenon DEF finishRevoke, TypeOK, CommitterType
  <2> QED  BY <2>1, Zenon DEF OwnersAct
<1>9. CASE finishShutdown
  <2>1. UNCHANGED <<member, cur, stopped, active, pworker>> /\ ppc'["revoke"] = ppc["revoke"]
    BY <1>9, Zenon DEF finishShutdown, TypeOK, CommitterType
  <2> QED  BY <2>1, OwnersFrame, Zenon
<1>10. ASSUME NEW p \in Procs, Cancel(p) PROVE OwnersAct'
  <2>1. /\ UNCHANGED <<member, cur, stopped, active, pworker>> /\ ppc[p] = "cancel"
        /\ ppc' = [ppc EXCEPT ![p] = IF pworker[p] = 0 THEN "finish" ELSE "deactivate"]
    BY <1>10, Zenon DEF Cancel
  <2>2. CASE p = "shutdown"
    <3>1. ppc'["revoke"] = ppc["revoke"]
      BY <2>1, <2>2, Zenon DEF TypeOK, CommitterType
    <3> QED  BY <2>1, <3>1, OwnersFrame, Zenon
  <2>3. CASE p = "revoke"
    <3>1. ppc'["revoke"] = IF pworker["revoke"] = 0 THEN "finish" ELSE "deactivate"
      BY <2>1, <2>3, Zenon DEF TypeOK, CommitterType
    <3>2. \A w \in Workers : w # 0
      OBVIOUS
    <3> QED  BY <2>1, <2>3, <3>1, <3>2 DEF OwnersAct
  <2> QED  BY <2>2, <2>3, Zenon
<1>11. ASSUME NEW p \in Procs, Deactivate(p) PROVE OwnersAct'
  <2>1. /\ UNCHANGED <<member, cur, stopped, pworker>> /\ ppc[p] = "deactivate"
        /\ ppc' = [ppc EXCEPT ![p] = "wait"]
        /\ active' = [active EXCEPT ![pworker[p]] = FALSE]
    BY <1>11, Zenon DEF Deactivate
  <2>2. \A w \in Workers : active'[w] => active[w] /\ w # pworker[p]
    BY <2>1, Zenon DEF TypeOK, WorkerType
  <2>3. CASE p = "shutdown"
    <3>1. ppc'["revoke"] = ppc["revoke"]
      BY <2>1, <2>3, Zenon DEF TypeOK, CommitterType
    <3> QED  BY <2>1, <2>2, <3>1, Zenon DEF OwnersAct
  <2>4. CASE p = "revoke"
    <3>1. ppc'["revoke"] = "wait"
      BY <2>1, <2>4, Zenon DEF TypeOK, CommitterType
    <3> QED  BY <2>1, <2>2, <2>4, <3>1, Zenon DEF OwnersAct
  <2> QED  BY <2>3, <2>4, Zenon
<1>12. ASSUME NEW p \in Procs, Waited(p) PROVE OwnersAct'
  <2>1. /\ UNCHANGED <<member, cur, stopped, active, pworker>> /\ ppc[p] = "wait"
        /\ ppc'["revoke"] = ppc["revoke"] \/ (p = "revoke" /\ ppc'["revoke"] = "finish")
    BY <1>12, Zenon DEF Waited, TypeOK, CommitterType
  <2> QED  BY <2>1, Zenon DEF OwnersAct
<1>13. CASE Crash
  <2>1. ppc'["revoke"] = "idle" /\ \A w \in Workers : ~active'[w]
    BY <1>13, Zenon DEF Crash, AllWorkers, BothProcs
  <2> QED  BY <2>1, Zenon DEF OwnersAct
<1>14. CASE UNCHANGED vars
  BY <1>14, OwnersFrame, Zenon DEF vars
<1> QED
  BY <1>1, <1>2, <1>3, <1>4, <1>5, <1>6, <1>7, <1>8, <1>9, <1>10, <1>11, <1>12, <1>13, <1>14, Zenon
  DEF Next, Procedures

\* A pause keeps the client paused for a reason (pauseLocked).
LEMMA PauseMatches ==
  ASSUME NEW r, paused \in BOOLEAN, paused <=> pauseReasons # {}, pauseLocked(r)
  PROVE  /\ paused' <=> pauseReasons' # {}
         /\ pauseReasons' = pauseReasons \cup {r}
BY Zenon DEF pauseLocked

\* A resume keeps the client paused for a reason (resumeLocked).
LEMMA ResumeMatches ==
  ASSUME NEW rs, paused \in BOOLEAN, paused <=> pauseReasons # {}, resumeLocked(rs)
  PROVE  /\ paused' <=> pauseReasons' # {}
         /\ pauseReasons' = pauseReasons \ rs
<1>1. paused' = (paused /\ (pauseReasons \cap rs = {} \/ pauseReasons \ rs # {}))
  BY Zenon DEF resumeLocked
<1>2. pauseReasons \cap rs = {} => pauseReasons \ rs = pauseReasons
  OBVIOUS
<1>3. pauseReasons \ rs # {} => pauseReasons # {}
  OBVIOUS
<1>4. pauseReasons' = pauseReasons \ rs
  BY Zenon DEF resumeLocked
<1> QED  BY <1>1, <1>2, <1>3, <1>4, Zenon

\* A step that touches neither the pauses nor what they stand for keeps them.
LEMMA ReasonsFrame ==
  ASSUME ReasonsMatch, UNCHANGED <<cur, pauseReasons, paused, backpressured, queued, stopped>>,
         member' = "out" => member = "out"
  PROVE  ReasonsMatch'
BY Zenon DEF ReasonsMatch

\* The committer's flag and the commit reason change together while a worker is
\* in the map (mark and acknowledge call setCommitBackpressure under commitMu).
LEMMA BackpressureMatches ==
  ASSUME TypeOK, ReasonsMatch, LifecycleInv, NEW b \in BOOLEAN,
         setCommitBackpressure(b), backpressured' = b, UNCHANGED <<cur, queued, stopped, member>>,
         ~stopped /\ member = "out" => ~b
  PROVE  ReasonsMatch'
<1>0. paused \in BOOLEAN
  BY Zenon DEF TypeOK, RuntimeType
<1>1. CASE cur = 0
  <2>1. UNCHANGED pauseReasons
    BY <1>1, Zenon DEF setCommitBackpressure, pauseVars
  <2> QED  BY <1>1, <2>1, Zenon DEF ReasonsMatch
<1>2. CASE cur # 0 /\ b = TRUE
  <2>1. pauseLocked("commit") /\ (paused <=> pauseReasons # {})
    BY <1>2, Zenon DEF setCommitBackpressure, LifecycleInv, ReasonsMatch
  <2>2. (paused' <=> pauseReasons' # {}) /\ pauseReasons' = pauseReasons \cup {"commit"}
    BY <1>0, <2>1, PauseMatches
  <2> QED  BY <1>2, <2>2, Zenon DEF ReasonsMatch
<1>3. CASE cur # 0 /\ b = FALSE
  <2>1. resumeLocked({"commit"}) /\ (paused <=> pauseReasons # {})
    BY <1>3, Zenon DEF setCommitBackpressure, LifecycleInv, ReasonsMatch
  <2>2. (paused' <=> pauseReasons' # {}) /\ pauseReasons' = pauseReasons \ {"commit"}
    BY <1>0, <2>1, ResumeMatches
  <2>3. "queue" \in pauseReasons => "queue" \in pauseReasons'
    BY <2>2, Zenon
  <2>4. "commit" \notin pauseReasons'
    BY <2>2, Zenon
  <2> QED  BY <1>3, <2>2, <2>3, <2>4, Zenon DEF ReasonsMatch
<1> QED  BY <1>1, <1>2, <1>3, Zenon

\* afterProcessed takes records from the front of the overflow queue.
LEMMA QueueShrinks ==
  ASSUME TypeOK, NEW w \in Workers, afterProcessed(w)
  PROVE  Len(queued') <= Len(queued) /\ (queued = <<>> => queued' = <<>>)
<1> USE DEF kafkaVars, runVars, pauseVars, workerVars, commitVars, procVars
<1> DEFINE n == Min2(QueueSize - Len(records[w]), Len(queued))
<1>0. queued \in Seq(Offsets) /\ Len(queued) \in Nat
  BY LenProperties, Zenon DEF TypeOK, RuntimeType
<1>1. queued' = queued \/ queued' = SubSeq(queued, n + 1, Len(queued))
  BY Zenon DEF afterProcessed
<1>2. n \in 0 .. Len(queued)
  <2>1. Len(records[w]) \in Nat /\ Len(records[w]) <= QueueSize
    BY LenProperties, Zenon DEF TypeOK, WorkerType
  <2> QED  BY <1>0, <2>1, ConstantsAssumption DEF Min2
<1> HIDE DEF n
<1>3. CASE queued' = queued
  BY <1>0, <1>3
<1>4. CASE queued' = SubSeq(queued, n + 1, Len(queued))
  <2>1. queued' \in Seq(Offsets) /\ Len(queued') = Len(queued) - n
    BY <1>0, <1>2, <1>4, TakePrefix, Zenon
  <2>2. \A q \in Seq(Offsets) : q = <<>> <=> Len(q) = 0
    BY EmptySeq, Zenon
  <2> QED  BY <1>0, <1>2, <2>1, <2>2
<1> QED  BY <1>1, <1>3, <1>4, Zenon

\* Every step keeps ReasonsMatch: each of the three reasons is given and taken
\* back under the lock of the runtime.
LEMMA ReasonsStep ==
  ASSUME TypeOK, LifecycleInv, HoldInv, OwnersAct, ReasonsMatch, [Next]_vars
  PROVE  ReasonsMatch'
<1> USE DEF kafkaVars, runVars, pauseVars, workerVars, commitVars, procVars
<1>0. paused \in BOOLEAN /\ backpressured \in BOOLEAN
  BY Zenon DEF TypeOK, RuntimeType, CommitterType
<1>1. CASE assign
  <2>1. /\ member = "out" /\ member' = "in"
        /\ UNCHANGED <<pauseReasons, backpressured, queued, stopped>>
        /\ stopped => cur' = cur
        /\ ~stopped => paused' = FALSE
    BY <1>1, Zenon DEF assign
  <2>2. cur = 0 /\ pauseReasons = {}
    BY <2>1, Zenon DEF HoldInv, ReasonsMatch
  <2> QED  BY <2>1, <2>2, Zenon DEF ReasonsMatch
<1>2. CASE Fetch \/ Poll \/ OtherMember \/ takePending \/ finishShutdown
  <2>1. UNCHANGED <<cur, pauseReasons, paused, backpressured, queued, stopped, member>>
    BY <1>2, Zenon DEF Fetch, Poll, OtherMember, takePending, finishShutdown
  <2> QED  BY <2>1, ReasonsFrame, Zenon
<1>3. CASE Evict
  <2>1. /\ UNCHANGED <<cur, pauseReasons, paused, backpressured, queued, stopped>>
        /\ member' = "lost"
    BY <1>3, Zenon DEF Evict
  <2> QED  BY <2>1, ReasonsFrame, Zenon
<1>4. CASE enqueue
  <2>1. UNCHANGED <<cur, stopped, member, backpressured>>
    BY <1>4, Zenon DEF enqueue
  <2>2. CASE UNCHANGED <<queued, pauseReasons, paused>>
    BY <2>1, <2>2, ReasonsFrame, Zenon
  <2>3. CASE cur # 0 /\ pauseLocked("queue")
    <3>1. paused <=> pauseReasons # {}
      BY <2>3, Zenon DEF ReasonsMatch
    <3>2. (paused' <=> pauseReasons' # {}) /\ pauseReasons' = pauseReasons \cup {"queue"}
      BY <1>0, <2>3, <3>1, PauseMatches
    <3>3. "commit" \in pauseReasons' <=> "commit" \in pauseReasons
      BY <3>2, Zenon
    <3> QED  BY <2>1, <2>3, <3>2, <3>3, Zenon DEF ReasonsMatch
  <2> QED  BY <1>4, <2>2, <2>3, Zenon DEF enqueue
<1>5. ASSUME NEW w \in Workers,
             Take(w) \/ Exit(w) \/ Settle(w) \/ RetryFailure(w) \/ CheckContext(w)
      PROVE  ReasonsMatch'
  <2>1. UNCHANGED <<cur, pauseReasons, paused, backpressured, queued, stopped, member>>
    BY <1>5, Zenon DEF Take, Exit, Settle, RetryFailure, CheckContext
  <2> QED  BY <2>1, ReasonsFrame, Zenon
<1>6. ASSUME NEW w \in Workers, FirstFailure(w) PROVE ReasonsMatch'
  <2>1. UNCHANGED <<cur, stopped, member, backpressured, queued>>
    BY <1>6, Zenon DEF FirstFailure
  <2>2. CASE UNCHANGED <<pauseReasons, paused>>
    BY <2>1, <2>2, ReasonsFrame, Zenon
  <2>3. CASE cur = w /\ pauseLocked("retry")
    <3>0. cur # 0
      BY <2>3
    <3>1. paused <=> pauseReasons # {}
      BY <3>0, Zenon DEF ReasonsMatch
    <3>2. (paused' <=> pauseReasons' # {}) /\ pauseReasons' = pauseReasons \cup {"retry"}
      BY <1>0, <2>3, <3>1, PauseMatches
    <3>3. /\ "commit" \in pauseReasons' <=> "commit" \in pauseReasons
          /\ "queue" \in pauseReasons => "queue" \in pauseReasons'
      BY <3>2, Zenon
    <3> QED  BY <2>1, <3>0, <3>2, <3>3, Zenon DEF ReasonsMatch
  <2> QED  BY <1>6, <2>2, <2>3, Zenon DEF FirstFailure
<1>7. ASSUME NEW w \in Workers, markCompleted(w) PROVE ReasonsMatch'
  <2>1. UNCHANGED <<cur, stopped, member, queued>>
    BY <1>7, Zenon DEF markCompleted
  <2>2. CASE UNCHANGED <<pauseReasons, paused, backpressured>>
    BY <2>1, <2>2, ReasonsFrame, Zenon
  <2>3. CASE active[w] /\ setCommitBackpressure(TRUE) /\ backpressured' = TRUE
    <3>1. ~(~stopped /\ member = "out")
      BY <2>3 DEF OwnersAct, HoldInv
    <3> QED  BY <2>1, <2>3, <3>1, BackpressureMatches, Zenon
  <2>4. \/ UNCHANGED <<pauseReasons, paused, backpressured>>
        \/ active[w] /\ setCommitBackpressure(TRUE) /\ backpressured' = TRUE
    BY <1>0, <1>7, Zenon DEF markCompleted, mark
  <2> QED  BY <2>2, <2>3, <2>4, Zenon
<1>8. ASSUME NEW w \in Workers, afterProcessed(w) PROVE ReasonsMatch'
  <2>1. UNCHANGED <<cur, stopped, member, backpressured>>
    BY <1>8, Zenon DEF afterProcessed
  <2>2. queued' # <<>> => queued # <<>>
    BY <1>8, QueueShrinks, Zenon
  <2>3. CASE UNCHANGED <<pauseReasons, paused>>
    BY <2>1, <2>2, <2>3, Zenon DEF ReasonsMatch
  <2>4. CASE cur = w /\ queued = <<>> /\ resumeLocked({"queue", "retry"})
    <3>0. cur # 0
      BY <2>4
    <3>1. paused <=> pauseReasons # {}
      BY <3>0, Zenon DEF ReasonsMatch
    <3>2. (paused' <=> pauseReasons' # {}) /\ pauseReasons' = pauseReasons \ {"queue", "retry"}
      BY <1>0, <2>4, <3>1, ResumeMatches
    <3>3. "commit" \in pauseReasons' <=> "commit" \in pauseReasons
      BY <3>2, Zenon
    <3> QED  BY <2>1, <2>2, <2>4, <3>0, <3>2, <3>3, Zenon DEF ReasonsMatch
  <2> QED  BY <1>8, <2>3, <2>4, Zenon DEF afterProcessed
<1>9. ASSUME NEW outcome \in CommitOutcomes, FlushResult(outcome) PROVE ReasonsMatch'
  <2>1. UNCHANGED <<cur, stopped, member, queued>>
    BY <1>9, Zenon DEF FlushResult
  <2>2. CASE UNCHANGED <<pauseReasons, paused, backpressured>>
    BY <2>1, <2>2, ReasonsFrame, Zenon
  <2>3. CASE setCommitBackpressure(FALSE) /\ backpressured' = FALSE
    BY <2>1, <2>3, BackpressureMatches, Zenon
  <2>4. \/ UNCHANGED <<pauseReasons, paused, backpressured>>
        \/ setCommitBackpressure(FALSE) /\ backpressured' = FALSE
    BY <1>0, <1>9, Zenon DEF FlushResult, acknowledge, requeue
  <2> QED  BY <2>2, <2>3, <2>4, Zenon
<1>10. CASE beginRevoke
  <2>1. /\ cur' = 0 /\ queued' = <<>> /\ pauseReasons' = {} /\ member' # "out"
    BY <1>10, Zenon DEF beginRevoke, removeWorkers
  <2> QED  BY <2>1, Zenon DEF ReasonsMatch
<1>11. CASE beginShutdown
  <2>1. /\ cur' = 0 /\ queued' = <<>> /\ pauseReasons' = {} /\ stopped' = TRUE
    BY <1>11, Zenon DEF beginShutdown, removeWorkers
  <2> QED  BY <2>1, Zenon DEF ReasonsMatch
<1>12. CASE finishRevoke
  <2>1. backpressured' = FALSE /\ UNCHANGED <<cur, queued, pauseReasons>>
    BY <1>12, Zenon DEF finishRevoke, dropPartitions
  <2>2. cur = 0
    BY <1>12, Zenon DEF finishRevoke, HoldInv
  <2> QED  BY <2>1, <2>2, Zenon DEF ReasonsMatch
<1>13. ASSUME NEW p \in Procs, Cancel(p) \/ Deactivate(p) \/ Waited(p) PROVE ReasonsMatch'
  <2>1. UNCHANGED <<cur, pauseReasons, paused, backpressured, queued, stopped, member>>
    BY <1>13, Zenon DEF Cancel, Deactivate, Waited
  <2> QED  BY <2>1, ReasonsFrame, Zenon
<1>14. CASE Crash
  <2>1. cur' = 0 /\ queued' = <<>> /\ pauseReasons' = {} /\ backpressured' = FALSE
    BY <1>14, Zenon DEF Crash
  <2> QED  BY <2>1, Zenon DEF ReasonsMatch
<1>15. CASE UNCHANGED vars
  BY <1>15, ReasonsFrame, Zenon DEF vars
<1> QED
  BY <1>1, <1>2, <1>3, <1>4, <1>5, <1>6, <1>7, <1>8, <1>9, <1>10, <1>11, <1>12, <1>13,
     <1>14, <1>15, Zenon DEF Next, Worker, Procedures

\* A step that leaves the queue, the poll and the client's buffer alone keeps
\* their bounds.
LEMMA BacklogFrame ==
  ASSUME BacklogBounded, UNCHANGED <<queued, polled, fetched, fetchPos>>
  PROVE  BacklogBounded'
BY Zenon DEF BacklogBounded

\* Every step keeps BacklogBounded: the client fetches only while nothing is
\* queued, since a queued record is a reason to be paused.
LEMMA BacklogStep ==
  ASSUME TypeOK, LifecycleInv, HoldInv, ReasonsMatch, BacklogBounded, [Next]_vars
  PROVE  BacklogBounded'
<1> USE DEF kafkaVars, runVars, pauseVars, workerVars, commitVars, procVars
<1>0. /\ Len(queued) \in Nat /\ Len(polled) \in Nat /\ fetched \in Nat /\ fetchPos \in Nat
      /\ fetchPos <= fetched /\ MaxPoll \in Nat /\ MaxBuffered \in Nat
  BY ConstantsAssumption, LenProperties DEF TypeOK, RuntimeType
<1>e. Len(<<>>) = 0
  OBVIOUS
<1>1. CASE assign
  <2>1. fetched' = committed /\ fetchPos' = committed /\ UNCHANGED <<polled, queued>>
    BY <1>1, Zenon DEF assign
  <2>2. queued = <<>>
    BY <1>1, Zenon DEF assign, HoldInv
  <2>3. fetched' - fetchPos' = 0
    BY <2>1 DEF TypeOK, RuntimeType
  <2> QED  BY <1>0, <1>e, <2>1, <2>2, <2>3 DEF BacklogBounded
<1>2. CASE Fetch
  <2>1. /\ ~paused /\ fetched - fetchPos < MaxBuffered /\ fetched' = fetched + 1
        /\ UNCHANGED <<fetchPos, polled, queued>>
    BY <1>2, Zenon DEF Fetch
  <2>2. queued = <<>>
    BY <2>1, Zenon DEF HoldInv, ReasonsMatch
  <2>3. Len(queued) = 0
    BY <1>e, <2>2, Zenon
  <2>4. fetched' - fetchPos' <= MaxBuffered
    BY <1>0, <2>1
  <2> QED  BY <1>0, <2>1, <2>3, <2>4 DEF BacklogBounded
<1>3. CASE Poll
  <2>1. PICK n \in 1 .. Min2(MaxPoll, fetched - fetchPos) :
            polled' = [i \in 1 .. n |-> fetchPos + i - 1] /\ fetchPos' = fetchPos + n
    BY <1>3, Zenon DEF Poll
  <2>2. polled = <<>> /\ UNCHANGED <<fetched, queued>>
    BY <1>3, Zenon DEF Poll
  <2>3. n \in Nat /\ n <= MaxPoll /\ n <= fetched - fetchPos
    BY <1>0 DEF Min2
  <2>4. Len(polled') = n /\ Len(polled) = 0
    BY <1>e, <2>1, <2>2, <2>3
  <2> QED  BY <1>0, <2>1, <2>2, <2>3, <2>4 DEF BacklogBounded
<1>4. CASE enqueue
  <2>1. polled # <<>> /\ polled' = Tail(polled) /\ UNCHANGED <<fetched, fetchPos>>
    BY <1>4, Zenon DEF enqueue
  <2>2. /\ Len(polled) > 0 /\ Len(polled') = Len(polled) - 1
        /\ Head(polled) \in Offsets
    <3>1. polled \in Seq(Offsets)
      BY Zenon DEF TypeOK, RuntimeType
    <3>2. Len(polled) # 0
      BY <2>1, <3>1, EmptySeq, Zenon
    <3>3. Head(polled) \in Offsets /\ Len(Tail(polled)) = Len(polled) - 1
      BY <2>1, <3>1, HeadTailProperties, Zenon
    <3> QED  BY <1>0, <2>1, <3>2, <3>3
  <2>3. queued' = queued \/ queued' = Append(queued, Head(polled))
    BY <1>4, Zenon DEF enqueue
  <2>4. Len(queued') <= Len(queued) + 1 /\ Len(queued') \in Nat
    <3>1. Len(Append(queued, Head(polled))) = Len(queued) + 1
      BY <2>2, AppendProperties DEF TypeOK, RuntimeType
    <3> QED  BY <1>0, <2>3, <3>1
  <2> QED  BY <1>0, <2>1, <2>2, <2>4 DEF BacklogBounded
<1>5. ASSUME NEW w \in Workers,
             \/ Take(w) \/ Exit(w) \/ Settle(w) \/ FirstFailure(w) \/ RetryFailure(w)
             \/ CheckContext(w) \/ markCompleted(w)
      PROVE  BacklogBounded'
  <2>1. UNCHANGED <<queued, polled, fetched, fetchPos>>
    BY <1>5, Zenon DEF Take, Exit, Settle, FirstFailure, RetryFailure, CheckContext, markCompleted
  <2> QED  BY <2>1, BacklogFrame, Zenon
<1>6. ASSUME NEW w \in Workers, afterProcessed(w) PROVE BacklogBounded'
  <2>1. UNCHANGED <<polled, fetched, fetchPos>>
    BY <1>6, Zenon DEF afterProcessed
  <2>2. Len(queued') \in Nat
    BY <1>6, TypeStep, LenProperties, Zenon DEF TypeOK, RuntimeType, Next, Worker
  <2> QED  BY <1>0, <1>6, <2>1, <2>2, QueueShrinks DEF BacklogBounded
<1>7. CASE \/ Evict \/ OtherMember \/ takePending \/ finishRevoke \/ finishShutdown
           \/ \E outcome \in CommitOutcomes : FlushResult(outcome)
  <2>1. UNCHANGED <<queued, polled, fetched, fetchPos>>
    BY <1>7, Zenon DEF Evict, OtherMember, takePending, finishRevoke, finishShutdown, FlushResult
  <2> QED  BY <2>1, BacklogFrame, Zenon
<1>8. CASE beginRevoke \/ Crash
  <2>1. /\ queued' = <<>> /\ fetched' = fetchPos /\ UNCHANGED fetchPos
        /\ polled' = polled \/ polled' = <<>>
    BY <1>8, Zenon DEF beginRevoke, removeWorkers, Crash
  <2>2. fetched' - fetchPos' = 0
    BY <1>0, <2>1
  <2> QED  BY <1>0, <1>e, <2>1, <2>2 DEF BacklogBounded
<1>9. CASE beginShutdown
  <2>1. queued' = <<>> /\ UNCHANGED <<polled, fetched, fetchPos>>
    BY <1>9, Zenon DEF beginShutdown, removeWorkers
  <2> QED  BY <1>0, <1>e, <2>1 DEF BacklogBounded
<1>10. ASSUME NEW p \in Procs, Cancel(p) \/ Deactivate(p) \/ Waited(p) PROVE BacklogBounded'
  <2>1. UNCHANGED <<queued, polled, fetched, fetchPos>>
    BY <1>10, Zenon DEF Cancel, Deactivate, Waited
  <2> QED  BY <2>1, BacklogFrame, Zenon
<1>11. CASE UNCHANGED vars
  BY <1>11, BacklogFrame, Zenon DEF vars
<1> QED
  BY <1>1, <1>2, <1>3, <1>4, <1>5, <1>6, <1>7, <1>8, <1>9, <1>10, <1>11, Zenon
  DEF Next, Worker, Procedures

\* The fetch of an assigned partition is paused exactly while a reason stands,
\* the commit reason exactly while the committer is backpressured, and the
\* overflow queue is bounded: for every size of log, queue, poll, buffer and
\* batch, across rebalances and crashes (pauseLocked, resumeLocked, mark).
THEOREM PausesAlwaysHold == Spec => []PausesHold
<1>1. Init => TypeOK /\ LifecycleInv /\ HoldInv /\ PauseInv
  <2> SUFFICES ASSUME Init PROVE TypeOK /\ LifecycleInv /\ HoldInv /\ PauseInv
    OBVIOUS
  <2>1. TypeOK /\ LifecycleInv /\ HoldInv
    BY CommitInvInit, Zenon DEF CommitInv
  <2>2. OwnersAct
    BY Zenon DEF Init, AllWorkers, BothProcs, OwnersAct
  <2>3. ReasonsMatch
    BY Zenon DEF Init, ReasonsMatch
  <2>4. BacklogBounded
    BY ConstantsAssumption DEF Init, BacklogBounded
  <2> QED  BY <2>1, <2>2, <2>3, <2>4, Zenon DEF PauseInv
<1>2. TypeOK /\ LifecycleInv /\ HoldInv /\ PauseInv /\ [Next]_vars
        => TypeOK' /\ LifecycleInv' /\ HoldInv' /\ PauseInv'
  BY TypeStep, LifecycleStep, HoldStep, OwnersStep, ReasonsStep, BacklogStep, Zenon DEF PauseInv
<1>3. PauseInv => PausesHold
  BY Zenon DEF PauseInv, ReasonsMatch, BacklogBounded, PausesHold
<1> QED  BY <1>1, <1>2, <1>3, PTL DEF Spec

----------------------------------------------------------------------------
(* SerialInOrder is about one step: SerialInv says what is in the channel of *)
(* the worker when it takes it.                                              *)

\* What a worker has in its channel is one run of offsets that follows the
\* record it took last, whether it is still active or not.
ChannelFollows(w) ==
  /\ \A i \in 1 .. Len(records[w]) : records[w][i] = records[w][1] + (i - 1)
  /\ rec[w] # NoOffset /\ records[w] # <<>> => records[w][1] = rec[w] + 1

\* Workers not created yet have neither taken nor completed a record.
FreshWorkers ==
  \A w \in Workers : w > assignments => rec[w] = NoOffset /\ lastCompleted[w] = NoOffset

\* The record the current worker took last is the one before the stream.
StreamFollows == cur # 0 /\ rec[cur] # NoOffset => rec[cur] = StreamStart - 1

\* The inductive invariant behind SerialInOrder.
SerialInv == (\A w \in Workers : ChannelFollows(w)) /\ FreshWorkers /\ StreamFollows

\* A poll moves the fetch position and hands over as many records: the stream
\* starts where it did.
LEMMA PollKeepsStart ==
  ASSUME TypeOK, Poll
  PROVE  StreamStart' = StreamStart
<1>1. PICK n \in 1 .. Min2(MaxPoll, fetched - fetchPos) :
          polled' = [i \in 1 .. n |-> fetchPos + i - 1] /\ fetchPos' = fetchPos + n
  BY Zenon DEF Poll
<1>2. polled = <<>> /\ UNCHANGED <<records, cur, queued>>
  BY Zenon DEF Poll, workerVars
<1>3. n \in Nat /\ fetchPos \in Nat
  BY DEF Min2, TypeOK, RuntimeType
<1>4. Len(polled') = n /\ Len(polled) = 0
  BY <1>1, <1>2, <1>3
<1>5. fetchPos' - Len(polled') = fetchPos - Len(polled)
  BY <1>1, <1>3, <1>4
<1> QED  BY <1>2, <1>5, Zenon DEF StreamStart

\* A record that goes from the poll to the channel or the overflow queue does
\* not move the start of the stream (enqueue).
LEMMA EnqueueKeepsStart ==
  ASSUME TypeOK, LifecycleInv, enqueue, cur # 0
  PROVE  StreamStart' = StreamStart
<1> USE DEF kafkaVars, runVars, pauseVars, workerVars, commitVars, procVars
<1>1. /\ polled # <<>> /\ polled' = Tail(polled) /\ UNCHANGED <<cur, fetchPos>> /\ ~stopped
  BY Zenon DEF enqueue, LifecycleInv
<1>2. PICK w \in Workers : w = cur
  BY ConstantsAssumption DEF TypeOK, RuntimeType
<1>3. /\ polled \in Seq(Offsets) /\ queued \in Seq(Offsets) /\ records[w] \in Seq(Offsets)
      /\ records \in [Workers -> Seq(Offsets)] /\ fetchPos \in Nat
  BY SMTT(20) DEF TypeOK, RuntimeType, WorkerType
<1>4. Head(polled) \in Offsets /\ Len(polled') = Len(polled) - 1
  BY <1>1, <1>3, HeadTailProperties, Zenon
<1>5. Len(polled) \in Nat /\ Len(queued) \in Nat /\ Len(records[w]) \in Nat
  BY <1>3, LenProperties, Zenon
<1>6. CASE records' = [records EXCEPT ![w] = Append(@, Head(polled))] /\ UNCHANGED queued
  <2>1. records'[w] = Append(records[w], Head(polled))
    BY <1>3, <1>6, Zenon
  <2>2. Len(records'[w]) = Len(records[w]) + 1
    BY <1>3, <1>4, <2>1, AppendProperties
  <2> QED  BY <1>1, <1>2, <1>3, <1>4, <1>5, <1>6, <2>2 DEF StreamStart
<1>7. CASE queued' = Append(queued, Head(polled)) /\ UNCHANGED records
  <2>1. Len(queued') = Len(queued) + 1
    BY <1>3, <1>4, <1>7, AppendProperties
  <2> QED  BY <1>1, <1>2, <1>3, <1>4, <1>5, <1>7, <2>1 DEF StreamStart
<1> QED  BY <1>1, <1>2, <1>6, <1>7, Zenon DEF enqueue

\* Neither does a record that goes from the overflow queue to the channel
\* (afterProcessed).
LEMMA AfterKeepsStart ==
  ASSUME TypeOK, NEW w \in Workers, afterProcessed(w), cur = w
  PROVE  StreamStart' = StreamStart
<1> USE DEF kafkaVars, runVars, pauseVars, workerVars, commitVars, procVars
<1> DEFINE n == Min2(QueueSize - Len(records[w]), Len(queued))
<1>1. /\ queued \in Seq(Offsets) /\ Len(queued) \in Nat /\ records[w] \in Seq(Offsets)
      /\ records \in [Workers -> Seq(Offsets)] /\ fetchPos \in Nat
      /\ Len(records[w]) \in Nat /\ Len(records[w]) <= QueueSize /\ Len(polled) \in Nat
  BY ConstantsAssumption, LenProperties DEF TypeOK, RuntimeType, WorkerType
<1>2. n \in 0 .. Len(queued)
  BY <1>1, ConstantsAssumption DEF Min2
<1>3. UNCHANGED <<cur, fetchPos, polled>>
  BY Zenon DEF afterProcessed
<1>4. \/ UNCHANGED <<records, queued>>
      \/ /\ records' = [records EXCEPT ![w] = @ \o SubSeq(queued, 1, n)]
         /\ queued' = SubSeq(queued, n + 1, Len(queued))
  BY Zenon DEF afterProcessed
<1> HIDE DEF n
<1>5. CASE UNCHANGED <<records, queued>>
  BY <1>3, <1>5, Zenon DEF StreamStart
<1>6. CASE /\ records' = [records EXCEPT ![w] = @ \o SubSeq(queued, 1, n)]
           /\ queued' = SubSeq(queued, n + 1, Len(queued))
  <2>1. /\ SubSeq(queued, 1, n) \in Seq(Offsets) /\ Len(SubSeq(queued, 1, n)) = n
        /\ Len(queued') = Len(queued) - n
    BY <1>1, <1>2, <1>6, TakePrefix, Zenon
  <2>2. records'[w] = records[w] \o SubSeq(queued, 1, n)
    BY <1>1, <1>6, Zenon
  <2>3. Len(records'[w]) = Len(records[w]) + n
    BY <1>1, <2>1, <2>2, ConcatProperties
  <2> QED  BY <1>1, <1>2, <1>3, <2>1, <2>3 DEF StreamStart
<1> QED  BY <1>4, <1>5, <1>6, Zenon

\* After a step, the channel of the current worker follows because the stream does.
LEMMA CurrentFollows ==
  ASSUME TypeOK', StreamInv', StreamFollows', NEW w \in Workers, w = cur'
  PROVE  ChannelFollows(w)'
<1> DEFINE q == records'[w]
           s == StreamStart'
<1>1. w # 0
  OBVIOUS
<1>2. q \in Seq(Offsets) /\ Len(q) \in Nat /\ Len(polled') \in Nat /\ Len(queued') \in Nat
  BY LenProperties, Zenon DEF TypeOK, RuntimeType, WorkerType
<1>3. fetchPos' \in Nat /\ rec'[w] \in Offsets \cup {NoOffset}
  BY ConstantsAssumption DEF TypeOK, RuntimeType, WorkerType
<1>4. s \in Int
  BY <1>2, <1>3 DEF StreamStart
<1>5. \A i \in 1 .. Len(q) : q[i] = s + (i - 1)
  BY <1>1, Zenon DEF StreamInv
<1>6. rec'[w] # NoOffset => rec'[w] = s - 1
  BY <1>1, Zenon DEF StreamFollows
<1> HIDE DEF q, s
<1>7. q # <<>> => 1 \in 1 .. Len(q)
  BY <1>2, EmptySeq
<1>8. q # <<>> => q[1] = s
  BY <1>4, <1>5, <1>7
<1>9. \A i \in 1 .. Len(q) : 1 \in 1 .. Len(q)
  BY <1>2
<1>10. \A i \in 1 .. Len(q) : q[i] = q[1] + (i - 1)
  BY <1>4, <1>5, <1>9
<1>11. rec'[w] # NoOffset /\ q # <<>> => q[1] = rec'[w] + 1
  BY <1>3, <1>4, <1>6, <1>8
<1> QED  BY <1>10, <1>11, Zenon DEF ChannelFollows, q

\* A step that moves no record keeps SerialInv.
LEMMA SerialFrame ==
  ASSUME SerialInv, UNCHANGED <<rec, records, lastCompleted, cur, assignments>>,
         StreamStart' = StreamStart
  PROVE  SerialInv'
BY Zenon DEF SerialInv, ChannelFollows, FreshWorkers, StreamFollows

\* A record leaves the channel of a worker in the order of the offsets (run).
LEMMA TakeFollows ==
  ASSUME TypeOK, NEW w \in Workers, ChannelFollows(w), Take(w)
  PROVE  /\ ChannelFollows(w)'
         /\ rec[w] # NoOffset => rec'[w] = rec[w] + 1
<1> DEFINE q == records[w]
<1>1. /\ q # <<>> /\ q \in Seq(Offsets)
      /\ rec'[w] = Head(q) /\ records'[w] = Tail(q)
  BY Zenon DEF Take, TypeOK, WorkerType
<1>2. /\ Len(q) \in Nat /\ Len(q) # 0 /\ Head(q) = q[1] /\ Head(q) \in Offsets
      /\ Tail(q) \in Seq(Offsets) /\ Len(Tail(q)) = Len(q) - 1
      /\ \A i \in 1 .. Len(Tail(q)) : Tail(q)[i] = q[i + 1]
  <2>1. Len(q) \in Nat /\ Len(q) # 0
    BY <1>1, LenProperties, EmptySeq, Zenon
  <2>2. Head(q) \in Offsets /\ Tail(q) \in Seq(Offsets) /\ Len(Tail(q)) = Len(q) - 1
    BY <1>1, HeadTailProperties, Zenon
  <2>3. Head(q) = q[1] /\ \A i \in 1 .. Len(Tail(q)) : Tail(q)[i] = q[i + 1]
    <3> HIDE DEF q
    <3> QED  BY <1>1, HeadTailProperties
  <2> QED  BY <2>1, <2>2, <2>3, Zenon
<1>3. /\ \A i \in 1 .. Len(q) : q[i] = q[1] + (i - 1)
      /\ rec[w] # NoOffset /\ q # <<>> => q[1] = rec[w] + 1
  BY Zenon DEF ChannelFollows
<1> HIDE DEF q
<1>4. Tail(q) # <<>> => 1 \in 1 .. Len(Tail(q))
  BY <1>2, EmptySeq
<1>5. \A i \in 1 .. Len(Tail(q)) : Tail(q)[i] = q[1] + i
  BY <1>2, <1>3
<1>6. \A i \in 1 .. Len(Tail(q)) : 1 \in 1 .. Len(Tail(q))
  BY <1>2
<1>7. \A i \in 1 .. Len(Tail(q)) : Tail(q)[i] = Tail(q)[1] + (i - 1)
  BY <1>2, <1>5, <1>6
<1>8. Tail(q) # <<>> => Tail(q)[1] = q[1] + 1
  BY <1>4, <1>5, Zenon
<1> QED  BY <1>1, <1>2, <1>3, <1>7, <1>8, Zenon DEF ChannelFollows

\* Every step keeps SerialInv.
LEMMA SerialStep ==
  ASSUME TypeOK, TypeOK', LifecycleInv, LifecycleInv', StreamInv', SerialInv, [Next]_vars
  PROVE  SerialInv'
<1> USE DEF kafkaVars, runVars, pauseVars, workerVars, commitVars, procVars
<1>1. CASE assign
  <2>1. assignments' = assignments + 1 /\ UNCHANGED <<rec, records, lastCompleted>>
    BY <1>1, Zenon DEF assign
  <2>2. assignments \in Nat
    BY DEF TypeOK, RuntimeType
  <2>3. FreshWorkers'
    BY <2>1, <2>2 DEF SerialInv, FreshWorkers
  <2>4. StreamFollows'
    <3>1. CASE stopped
      BY <1>1, <3>1, Zenon DEF assign, LifecycleInv, StreamFollows
    <3>2. CASE ~stopped
      <4>1. cur' = assignments + 1 /\ cur' \in Workers
        BY <1>1, <3>2, ConstantsAssumption DEF assign, TypeOK, RuntimeType
      <4>2. rec[cur'] = NoOffset
        BY <2>2, <4>1 DEF SerialInv, FreshWorkers
      <4> QED  BY <2>1, <4>2, Zenon DEF StreamFollows
    <3> QED  BY <3>1, <3>2, Zenon
  <2> QED  BY <2>1, <2>3, <2>4, Zenon DEF SerialInv, ChannelFollows
<1>2. CASE Fetch \/ Evict \/ OtherMember \/ takePending \/ finishRevoke \/ finishShutdown
  <2>1. UNCHANGED <<rec, records, lastCompleted, cur, assignments, fetchPos, polled, queued>>
    BY <1>2, Zenon DEF Fetch, Evict, OtherMember, takePending, finishRevoke, finishShutdown
  <2> QED  BY <2>1, SerialFrame, Zenon DEF StreamStart
<1>3. CASE Poll
  <2>1. UNCHANGED <<rec, records, lastCompleted, cur, assignments>>
    BY <1>3, Zenon DEF Poll
  <2> QED  BY <1>3, <2>1, PollKeepsStart, SerialFrame, Zenon
<1>4. CASE enqueue
  <2>1. UNCHANGED <<cur, rec, assignments, lastCompleted>>
    BY <1>4, Zenon DEF enqueue
  <2>2. StreamFollows'
    <3>1. CASE cur = 0
      BY <2>1, <3>1, Zenon DEF StreamFollows
    <3>2. CASE cur # 0
      BY <1>4, <2>1, <3>2, EnqueueKeepsStart, Zenon DEF SerialInv, StreamFollows
    <3> QED  BY <3>1, <3>2, Zenon
  <2>3. ASSUME NEW w \in Workers PROVE ChannelFollows(w)'
    <3>1. CASE w = cur
      BY <2>1, <2>2, <3>1, CurrentFollows, Zenon
    <3>2. CASE w # cur
      <4>1. records'[w] = records[w]
        BY <1>4, <3>2, Zenon DEF enqueue, TypeOK, WorkerType
      <4> QED  BY <2>1, <4>1, Zenon DEF SerialInv, ChannelFollows
    <3> QED  BY <3>1, <3>2, Zenon
  <2> QED  BY <2>1, <2>2, <2>3, Zenon DEF SerialInv, FreshWorkers
<1>5. ASSUME NEW w \in Workers, Take(w) PROVE SerialInv'
  <2>1. /\ UNCHANGED <<cur, assignments, lastCompleted, polled, queued, fetchPos>>
        /\ pc[w] = "idle" /\ pc'[w] = "handling"
        /\ \A v \in Workers \ {w} : rec'[v] = rec[v] /\ records'[v] = records[v]
    BY <1>5, Zenon DEF Take, TypeOK, WorkerType
  <2>2. StreamFollows'
    <3>1. CASE cur = w
      BY <2>1, <3>1, Zenon DEF StreamInv, StreamFollows
    <3>2. CASE cur # w
      <4>1. cur # 0 => cur \in Workers \ {w}
        BY <3>2, ConstantsAssumption DEF TypeOK, RuntimeType
      <4> QED  BY <2>1, <4>1, Zenon DEF SerialInv, StreamFollows, StreamStart
    <3> QED  BY <3>1, <3>2, Zenon
  <2>3. w <= assignments /\ assignments \in Nat
    BY <2>1, ConstantsAssumption DEF LifecycleInv, TypeOK, RuntimeType
  <2>4. FreshWorkers'
    BY <2>1, <2>3 DEF SerialInv, FreshWorkers
  <2>5. ChannelFollows(w)'
    BY <1>5, TakeFollows, Zenon DEF SerialInv
  <2>6. \A v \in Workers \ {w} : ChannelFollows(v)'
    BY <2>1 DEF SerialInv, ChannelFollows
  <2> QED  BY <2>2, <2>4, <2>5, <2>6, Zenon DEF SerialInv
<1>6. ASSUME NEW w \in Workers,
             \/ Exit(w) \/ Settle(w) \/ FirstFailure(w) \/ RetryFailure(w) \/ CheckContext(w)
      PROVE  SerialInv'
  <2>1. UNCHANGED <<rec, records, lastCompleted, cur, assignments, fetchPos, polled, queued>>
    BY <1>6, Zenon DEF Exit, Settle, FirstFailure, RetryFailure, CheckContext
  <2> QED  BY <2>1, SerialFrame, Zenon DEF StreamStart
<1>7. ASSUME NEW w \in Workers, markCompleted(w) PROVE SerialInv'
  <2>1. /\ UNCHANGED <<rec, records, cur, assignments, fetchPos, polled, queued>>
        /\ pc[w] = "marking"
        /\ \A v \in Workers \ {w} : lastCompleted'[v] = lastCompleted[v]
    BY <1>7, Zenon DEF markCompleted, TypeOK, WorkerType
  <2>2. w <= assignments /\ assignments \in Nat
    <3>1. ~(w > assignments)
      BY <2>1, Zenon DEF LifecycleInv
    <3>2. assignments \in 0 .. MaxAssignments /\ w \in 1 .. MaxAssignments /\ MaxAssignments \in Nat
      BY ConstantsAssumption, Zenon DEF TypeOK, RuntimeType
    <3> QED  BY ONLY <3>1, <3>2
  <2>3. \A v \in Workers : ChannelFollows(v)'
    BY <2>1, Zenon DEF SerialInv, ChannelFollows
  <2>4. FreshWorkers'
    BY <2>1, <2>2 DEF SerialInv, FreshWorkers
  <2>5. StreamFollows'
    BY <2>1, Zenon DEF SerialInv, StreamFollows, StreamStart
  <2> QED  BY <2>3, <2>4, <2>5, Zenon DEF SerialInv
<1>8. ASSUME NEW w \in Workers, afterProcessed(w) PROVE SerialInv'
  <2>1. /\ UNCHANGED <<cur, rec, assignments, lastCompleted, polled, fetchPos>>
        /\ \A v \in Workers \ {w} : records'[v] = records[v]
        /\ cur # w => UNCHANGED <<records, queued>>
    BY <1>8, Zenon DEF afterProcessed, TypeOK, WorkerType
  <2>2. CASE cur # w
    BY <2>1, <2>2, SerialFrame, Zenon DEF StreamStart
  <2>3. CASE cur = w
    <3>1. StreamFollows'
      BY <1>8, <2>1, <2>3, AfterKeepsStart, Zenon DEF SerialInv, StreamFollows
    <3>2. ChannelFollows(w)'
      BY <2>1, <2>3, <3>1, CurrentFollows, Zenon
    <3>3. \A v \in Workers \ {w} : ChannelFollows(v)'
      BY <2>1, Zenon DEF SerialInv, ChannelFollows
    <3> QED  BY <2>1, <3>1, <3>2, <3>3, Zenon DEF SerialInv, FreshWorkers
  <2> QED  BY <2>2, <2>3, Zenon
<1>9. ASSUME NEW outcome \in CommitOutcomes, FlushResult(outcome) PROVE SerialInv'
  <2>1. UNCHANGED <<rec, records, lastCompleted, cur, assignments, fetchPos, polled, queued>>
    BY <1>9, Zenon DEF FlushResult
  <2> QED  BY <2>1, SerialFrame, Zenon DEF StreamStart
<1>10. CASE beginRevoke \/ beginShutdown
  <2>1. cur' = 0 /\ UNCHANGED <<rec, records, lastCompleted, assignments>>
    BY <1>10, Zenon DEF beginRevoke, beginShutdown, removeWorkers
  <2> QED  BY <2>1, Zenon DEF SerialInv, FreshWorkers, ChannelFollows, StreamFollows
<1>11. ASSUME NEW p \in Procs, Cancel(p) \/ Deactivate(p) \/ Waited(p) PROVE SerialInv'
  <2>1. UNCHANGED <<rec, records, lastCompleted, cur, assignments, fetchPos, polled, queued>>
    BY <1>11, Zenon DEF Cancel, Deactivate, Waited
  <2> QED  BY <2>1, SerialFrame, Zenon DEF StreamStart
<1>12. CASE Crash
  <2>1. /\ cur' = 0 /\ rec' = AllWorkers(NoOffset) /\ records' = AllWorkers(<<>>)
        /\ lastCompleted' = AllWorkers(NoOffset)
    BY <1>12, Zenon DEF Crash
  <2> QED  BY <2>1 DEF SerialInv, FreshWorkers, ChannelFollows, StreamFollows, AllWorkers
<1>13. CASE UNCHANGED vars
  BY <1>13, SerialFrame, Zenon DEF vars, StreamStart
<1> QED
  BY <1>1, <1>2, <1>3, <1>4, <1>5, <1>6, <1>7, <1>8, <1>9, <1>10, <1>11, <1>12, <1>13, Zenon
  DEF Next, Worker, Procedures

\* A worker handles the records of its partition in offset order without a gap,
\* for every size of log, channel, poll and buffer, across rebalances and
\* crashes, when a poll is enqueued within one assignment (enqueue, run,
\* afterProcessed).
THEOREM RecordsAreHandledInOrder ==
  ASSUME ~PollSpansRebalance
  PROVE  Spec => SerialInOrder
<1> DEFINE Inv == TypeOK /\ CommitInv /\ SerialInv
<1>1. Init => Inv
  <2> SUFFICES ASSUME Init PROVE Inv
    OBVIOUS
  <2>1. SerialInv
    BY DEF Init, AllWorkers, SerialInv, ChannelFollows, FreshWorkers, StreamFollows
  <2> QED  BY <2>1, CommitInvInit, Zenon
<1>2. Inv /\ [Next]_vars => Inv'
  <2> SUFFICES ASSUME Inv, [Next]_vars PROVE Inv'
    OBVIOUS
  <2>1. TypeOK' /\ settled \subseteq settled'
    BY TypeStep, SettledGrows, Zenon
  <2>2. LifecycleInv' /\ HoldInv'
    BY LifecycleStep, HoldStep, Zenon DEF CommitInv
  <2>3. CommitSourcesInv' /\ WorkerInv' /\ StreamInv'
    BY <2>1, SourcesStep, WorkerStep, StreamStep, Zenon DEF CommitInv
  <2>4. SerialInv'
    BY <2>1, <2>2, <2>3, SerialStep, Zenon DEF CommitInv
  <2> QED  BY <2>1, <2>2, <2>3, <2>4, Zenon DEF CommitInv
<1>3. Inv /\ [Next]_vars
        => [\A w \in Workers :
              pc[w] = "idle" /\ pc'[w] = "handling" /\ rec[w] # NoOffset
                => rec'[w] = rec[w] + 1]_vars
  <2> SUFFICES ASSUME Inv, Next, NEW w \in Workers, pc[w] = "idle", pc'[w] = "handling",
                      rec[w] # NoOffset
               PROVE  rec'[w] = rec[w] + 1
    OBVIOUS
  <2>1. Take(w)
    <3>1. pc[w] # "handling"
      OBVIOUS
    <3>2. pc' # pc
      BY <3>1, Zenon
    <3>3. ~(\/ Fetch \/ Poll \/ Evict \/ OtherMember \/ enqueue \/ takePending
            \/ beginRevoke \/ beginShutdown \/ finishRevoke \/ finishShutdown)
      BY <3>2, Zenon DEF Fetch, Poll, Evict, OtherMember, enqueue, takePending, beginRevoke,
                  beginShutdown, finishRevoke, finishShutdown, workerVars
    <3>4. ~(\E p \in Procs : Cancel(p) \/ Deactivate(p) \/ Waited(p))
      BY <3>2, Zenon DEF Cancel, Deactivate, Waited, workerVars
    <3>5. ~(\E outcome \in CommitOutcomes : FlushResult(outcome))
      BY <3>2, Zenon DEF FlushResult, workerVars
    <3>6. ~assign
      BY <3>2, Zenon DEF assign, workerVars, TypeOK, WorkerType
    <3>7. ~Crash
      BY Zenon DEF Crash, AllWorkers
    <3>8. ASSUME NEW v \in Workers, Worker(v), ~Take(v) PROVE FALSE
      BY <3>8, Zenon DEF Worker, Exit, Settle, FirstFailure, RetryFailure, CheckContext,
                  markCompleted, afterProcessed, TypeOK, WorkerType
    <3>9. PICK v \in Workers : Take(v)
      BY <3>3, <3>4, <3>5, <3>6, <3>7, <3>8, Zenon DEF Next, Procedures
    <3> QED  BY <3>9, Zenon DEF Take, TypeOK, WorkerType
  <2> QED  BY <2>1, TakeFollows, Zenon DEF SerialInv
<1> HIDE DEF Inv
<1> QED  BY <1>1, <1>2, <1>3, PTL DEF Spec, SerialInOrder

----------------------------------------------------------------------------
(* CommittedNeverRegresses is about the offsets that are still on their way. *)
(* ForwardInv orders them: committed, in flight, pending, the watermark, the *)
(* record in hand and the rest of the stream.                                *)

\* The worker whose watermark this member may still commit: the current one, or
\* the one its revocation is taking out.
Keeper == IF cur # 0 THEN cur ELSE pworker["revoke"]

\* The committer holds nothing for a partition that is not assigned, and an
\* assigned one has a worker (assign, dropPartitions).
HoldsPartition ==
  ~stopped => /\ member = "out" => pending = NoOffset /\ flushing = NoOffset
              /\ member = "in" => cur # 0
              /\ member = "revoking" => cur = 0 /\ pworker["revoke"] # 0

\* Whatever the committer may still send is at or past what the group has
\* committed, and at or before the watermark of the worker.
CommitsAhead(w) ==
  /\ pending <= lastCompleted[w] /\ flushing <= lastCompleted[w]
  /\ lastCompleted[w] # NoOffset => committed <= lastCompleted[w] + 1
  /\ pending # NoOffset => flushing <= pending /\ committed <= pending + 1
  /\ flushing # NoOffset => committed <= flushing + 1

\* The record a worker has and the ones it will take are at n or later.
AheadOf(w, n) ==
  /\ pc[w] \in Busy => rec[w] >= n
  /\ pc[w] \in Ready /\ records[w] # <<>> => records[w][1] >= n

\* Whatever the worker may still complete is past its watermark and not before
\* what the group has committed.
RecordsAhead(w) ==
  /\ active[w] => AheadOf(w, committed) /\ AheadOf(w, lastCompleted[w] + 1)
  /\ w = cur /\ pc[w] \in Ready => StreamStart >= committed /\ StreamStart > lastCompleted[w]

\* The inductive invariant behind CommittedNeverRegresses.
ForwardInv ==
  ~stopped /\ member \in {"in", "revoking"} => CommitsAhead(Keeper) /\ RecordsAhead(Keeper)

\* The types the arithmetic below needs.
LEMMA OffsetTypes ==
  ASSUME TypeOK
  PROVE  /\ committed \in Nat /\ fetchPos \in Nat /\ assignments \in Nat
         /\ pending \in Nat \cup {NoOffset} /\ flushing \in Nat \cup {NoOffset}
         /\ \A w \in Workers : /\ lastCompleted[w] \in Nat \cup {NoOffset}
                               /\ rec[w] \in Nat \cup {NoOffset}
BY ConstantsAssumption DEF TypeOK, RuntimeType, WorkerType, CommitterType

\* A worker that may still mark a record of a partition this member has not lost
\* is the one whose watermark it commits.
LEMMA OwnerIsKeeper ==
  ASSUME TypeOK, HoldInv, OwnersAct, HoldsPartition, ~stopped, member # "lost",
         NEW w \in Workers, active[w]
  PROVE  w = Keeper /\ member \in {"in", "revoking"}
<1>1. w # 0
  OBVIOUS
<1>2. \/ w = cur
      \/ w = pworker["revoke"] /\ ppc["revoke"] \in {"cancel", "deactivate"}
  BY Zenon DEF OwnersAct
<1>3. CASE w = cur
  BY <1>1, <1>3, Zenon DEF HoldInv, Keeper
<1>4. CASE w = pworker["revoke"] /\ ppc["revoke"] \in {"cancel", "deactivate"}
  <2>1. cur = 0
    BY <1>4, Zenon DEF HoldInv
  <2>2. member # "out"
    BY <1>4, Zenon DEF OwnersAct
  <2> QED  BY <1>4, <2>1, <2>2, Zenon DEF Keeper, TypeOK, RuntimeType
<1> QED  BY <1>2, <1>3, <1>4, Zenon

\* The Keeper of an assigned partition is a worker.
LEMMA KeeperIsWorker ==
  ASSUME TypeOK, HoldsPartition, ~stopped, member \in {"in", "revoking"}
  PROVE  Keeper \in Workers
<1>1. cur \in Workers \cup {0} /\ pworker["revoke"] \in Workers \cup {0}
  BY ConstantsAssumption DEF TypeOK, RuntimeType, CommitterType
<1> QED  BY <1>1, Zenon DEF HoldsPartition, Keeper

\* Every step keeps HoldsPartition.
LEMMA HoldsStep ==
  ASSUME TypeOK, LifecycleInv, HoldInv, OwnersAct, HoldsPartition, [Next]_vars
  PROVE  HoldsPartition'
<1> USE DEF kafkaVars, runVars, pauseVars, workerVars, commitVars, procVars
<1>1. CASE assign
  <2>1. ~stopped => cur' = assignments + 1
    BY <1>1, Zenon DEF assign
  <2>2. assignments + 1 # 0
    BY DEF TypeOK, RuntimeType
  <2>3. member' = "in" /\ stopped' = stopped
    BY <1>1, Zenon DEF assign
  <2> QED  BY <2>1, <2>2, <2>3, Zenon DEF HoldsPartition
<1>2. CASE Fetch \/ Poll \/ OtherMember \/ enqueue
  BY <1>2, Zenon DEF Fetch, Poll, OtherMember, enqueue, HoldsPartition
<1>3. CASE Evict
  BY <1>3, Zenon DEF Evict, HoldsPartition
<1>4. ASSUME NEW w \in Workers, Worker(w), ~markCompleted(w) PROVE HoldsPartition'
  <2>1. UNCHANGED <<member, cur, stopped, pworker, pending, flushing>>
    BY <1>4, Zenon DEF Worker, Take, Exit, Settle, FirstFailure, RetryFailure, CheckContext,
                afterProcessed
  <2> QED  BY <2>1, Zenon DEF HoldsPartition
<1>5. ASSUME NEW w \in Workers, markCompleted(w) PROVE HoldsPartition'
  <2>1. /\ UNCHANGED <<member, cur, stopped, pworker>>
        /\ ~active[w] => UNCHANGED <<pending, flushing>>
    BY <1>5, Zenon DEF markCompleted
  <2>2. ~stopped /\ active[w] => member # "out"
    BY OwnerIsKeeper, Zenon
  <2> QED  BY <2>1, <2>2, Zenon DEF HoldsPartition
<1>6. CASE takePending
  BY <1>6, Zenon DEF takePending, HoldsPartition
<1>7. ASSUME NEW outcome \in CommitOutcomes, FlushResult(outcome) PROVE HoldsPartition'
  BY <1>7, Zenon DEF FlushResult, HoldsPartition
<1>8. CASE beginRevoke
  <2>1. /\ member \in {"in", "lost"} /\ member' = IF member = "in" THEN "revoking" ELSE "lost"
        /\ pworker'["revoke"] = cur /\ cur' = 0 /\ stopped' = stopped
    BY <1>8, Zenon DEF beginRevoke, removeWorkers, TypeOK, CommitterType
  <2> QED  BY <2>1, Zenon DEF HoldsPartition
<1>9. CASE beginShutdown
  BY <1>9, Zenon DEF beginShutdown, HoldsPartition
<1>10. CASE finishRevoke
  BY <1>10, Zenon DEF finishRevoke, dropPartitions, HoldsPartition
<1>11. CASE finishShutdown
  BY <1>11, Zenon DEF finishShutdown, HoldsPartition
<1>12. ASSUME NEW p \in Procs, Cancel(p) \/ Deactivate(p) \/ Waited(p) PROVE HoldsPartition'
  BY <1>12, Zenon DEF Cancel, Deactivate, Waited, HoldsPartition
<1>13. CASE Crash
  BY <1>13 DEF Crash, HoldsPartition
<1>14. CASE UNCHANGED vars
  BY <1>14, Zenon DEF vars, HoldsPartition
<1> QED
  BY <1>1, <1>2, <1>3, <1>4, <1>5, <1>6, <1>7, <1>8, <1>9, <1>10, <1>11, <1>12, <1>13, <1>14, Zenon
  DEF Next, Worker, Procedures

\* A step that leaves the offsets alone and gives the worker no record keeps
\* what is ahead of it.
LEMMA AheadFrame ==
  ASSUME NEW w \in Workers, CommitsAhead(w), RecordsAhead(w),
         UNCHANGED <<committed, pending, flushing>>,
         lastCompleted'[w] = lastCompleted[w], rec'[w] = rec[w], records'[w] = records[w],
         active'[w] => active[w],
         pc'[w] \in Busy => pc[w] \in Busy, pc'[w] \in Ready => pc[w] \in Ready,
         w = cur' => cur' = cur /\ StreamStart' = StreamStart
  PROVE  CommitsAhead(w)' /\ RecordsAhead(w)'
BY Zenon DEF CommitsAhead, RecordsAhead, AheadOf

\* After a step, the records of a current worker that is between two records
\* start with the stream.
LEMMA CurrentIsAhead ==
  ASSUME TypeOK', StreamInv', NEW w \in Workers, w = cur', pc'[w] \in Ready,
         StreamStart' >= committed', StreamStart' > lastCompleted'[w]
  PROVE  RecordsAhead(w)'
<1> DEFINE q == records'[w]
           s == StreamStart'
<1>1. w # 0
  OBVIOUS
<1>2. q \in Seq(Offsets) /\ Len(q) \in Nat /\ Len(polled') \in Nat /\ Len(queued') \in Nat
  BY LenProperties, Zenon DEF TypeOK, RuntimeType, WorkerType
<1>3. /\ fetchPos' \in Nat /\ committed' \in Nat
      /\ lastCompleted'[w] \in Nat \cup {NoOffset}
  BY ConstantsAssumption DEF TypeOK, RuntimeType, WorkerType
<1>4. s \in Int
  BY <1>2, <1>3 DEF StreamStart
<1>5. \A i \in 1 .. Len(q) : q[i] = s + (i - 1)
  BY <1>1, Zenon DEF StreamInv
<1> HIDE DEF q, s
<1>6. q # <<>> => 1 \in 1 .. Len(q)
  BY <1>2, EmptySeq
<1>7. q # <<>> => q[1] = s
  BY <1>4, <1>5, <1>6
<1>8. s >= committed' /\ s >= lastCompleted'[w] + 1
  BY <1>3, <1>4 DEF s
<1>9. pc'[w] \notin Busy
  OBVIOUS
<1> QED  BY <1>7, <1>8, <1>9 DEF RecordsAhead, AheadOf, q

\* A worker of the past takes, completes and moves nothing that belongs to the
\* Keeper.
LEMMA OtherWorkerFrame ==
  ASSUME TypeOK, NEW v \in Workers, NEW w \in Workers, w # v, w = Keeper,
         CommitsAhead(w), RecordsAhead(w), Worker(v), ~(markCompleted(v) /\ active[v])
  PROVE  CommitsAhead(w)' /\ RecordsAhead(w)'
<1>1. /\ UNCHANGED <<committed, pending, flushing, cur, fetchPos, polled, active>>
      /\ lastCompleted' = lastCompleted
  BY DEF Worker, Take, Exit, Settle, FirstFailure, RetryFailure, CheckContext,
         markCompleted, afterProcessed, kafkaVars, runVars, commitVars
<1>2. rec'[w] = rec[w] /\ records'[w] = records[w] /\ pc'[w] = pc[w]
  BY Zenon DEF Worker, Take, Exit, Settle, FirstFailure, RetryFailure, CheckContext,
         markCompleted, afterProcessed, TypeOK, WorkerType
<1>3. w = cur => queued' = queued
  BY Zenon DEF Worker, Take, Exit, Settle, FirstFailure, RetryFailure, CheckContext,
         markCompleted, afterProcessed, runVars
<1>4. w = cur => StreamStart' = StreamStart
  BY <1>1, <1>2, <1>3 DEF StreamStart
<1> QED  BY <1>1, <1>2, <1>4, AheadFrame, Zenon

\* What the Keeper's own steps leave ahead of it.  Take hands it the first record
\* of its channel; markCompleted raises the watermark and the pending offset to
\* the record just handled.
LEMMA OwnStep ==
  ASSUME TypeOK, TypeOK', LifecycleInv, WorkerInv, StreamInv, StreamInv',
         NEW w \in Workers, w = Keeper, CommitsAhead(w), RecordsAhead(w), Worker(w)
  PROVE  CommitsAhead(w)' /\ RecordsAhead(w)'
<1> USE DEF kafkaVars, runVars, pauseVars, workerVars, commitVars, procVars
<1>0. /\ committed \in Nat /\ pending \in Nat \cup {NoOffset}
      /\ flushing \in Nat \cup {NoOffset} /\ lastCompleted[w] \in Nat \cup {NoOffset}
      /\ rec[w] \in Nat \cup {NoOffset}
  BY OffsetTypes, Zenon
<1>1. CASE Take(w)
  <2>1. /\ UNCHANGED <<committed, pending, flushing, cur, active, lastCompleted>>
        /\ records[w] # <<>> /\ records[w] \in Seq(Offsets) /\ pc[w] = "idle"
        /\ pc'[w] = "handling" /\ rec'[w] = Head(records[w])
    BY <1>1, Zenon DEF Take, TypeOK, WorkerType
  <2>2. rec'[w] = records[w][1]
    BY <2>1
  <2>3. active[w] => rec'[w] >= committed /\ rec'[w] >= lastCompleted[w] + 1
    BY <2>1, <2>2, Zenon DEF RecordsAhead, AheadOf
  <2> QED  BY <2>1, <2>3, Zenon DEF CommitsAhead, RecordsAhead, AheadOf
<1>2. CASE Exit(w) \/ Settle(w) \/ FirstFailure(w) \/ RetryFailure(w) \/ CheckContext(w)
  <2>1. UNCHANGED <<committed, pending, flushing, cur, active, lastCompleted, rec, records,
                    fetchPos, polled, queued>>
    BY <1>2, Zenon DEF Exit, Settle, FirstFailure, RetryFailure, CheckContext
  <2>2. (pc'[w] \in Busy => pc[w] \in Busy) /\ (pc'[w] \in Ready => pc[w] \in Ready)
    BY <1>2, Zenon DEF Exit, Settle, FirstFailure, RetryFailure, CheckContext, TypeOK, WorkerType
  <2>3. StreamStart' = StreamStart
    BY <2>1, Zenon DEF StreamStart
  <2> QED  BY <2>1, <2>2, <2>3, AheadFrame, Zenon
<1>3. CASE markCompleted(w) /\ ~active[w]
  <2>1. /\ UNCHANGED <<committed, pending, flushing, cur, active, lastCompleted, rec, records>>
        /\ pc'[w] = "exited"
    BY <1>3, Zenon DEF markCompleted, TypeOK, WorkerType
  <2> QED  BY <1>3, <2>1, Zenon DEF CommitsAhead, RecordsAhead
<1>4. CASE markCompleted(w) /\ active[w]
  <2>1. /\ UNCHANGED <<committed, flushing, cur, active, rec, records, fetchPos, polled, queued>>
        /\ pc[w] = "marking" /\ pc'[w] = "after" /\ lastCompleted'[w] = rec[w]
        /\ pending' = IF pending < rec[w] THEN rec[w] ELSE pending
    BY <1>4, Zenon DEF markCompleted, mark, TypeOK, WorkerType
  <2>2. rec[w] >= committed /\ rec[w] >= lastCompleted[w] + 1
    BY <1>4, <2>1, Zenon DEF RecordsAhead, AheadOf
  <2>3. pending <= lastCompleted[w] /\ flushing <= lastCompleted[w]
    BY Zenon DEF CommitsAhead
  <2>4. pending' = rec[w] /\ flushing <= rec[w] /\ committed <= rec[w] + 1
    BY <1>0, <2>1, <2>2, <2>3
  <2>5. CommitsAhead(w)'
    BY <1>0, <2>1, <2>4 DEF CommitsAhead
  <2>6. records[w] # <<>> => records[w][1] = rec[w] + 1
    BY <1>4, <2>1, Zenon DEF WorkerInv, WorkerOK
  <2>7. AheadOf(w, committed)' /\ AheadOf(w, lastCompleted[w] + 1)'
    BY <1>0, <2>1, <2>2, <2>6 DEF AheadOf
  <2>8. w = cur => StreamStart' >= committed /\ StreamStart' > rec[w]
    <3>1. StreamStart' = StreamStart
      BY <2>1, Zenon DEF StreamStart
    <3>2. w # 0
      OBVIOUS
    <3>3. w = cur => rec[w] = StreamStart - 1
      BY <2>1, <3>2, Zenon DEF StreamInv
    <3>4. w = cur => StreamStart \in Int
      BY LenProperties DEF StreamStart, TypeOK, RuntimeType, WorkerType
    <3> QED  BY <1>0, <2>2, <3>1, <3>3, <3>4
  <2> QED  BY <2>1, <2>5, <2>7, <2>8, Zenon DEF RecordsAhead
<1>5. CASE afterProcessed(w)
  <2>1. /\ UNCHANGED <<committed, pending, flushing, cur, active, lastCompleted, rec>>
        /\ pc[w] = "after" /\ pc'[w] = "idle"
        /\ cur # w => UNCHANGED records
    BY <1>5, Zenon DEF afterProcessed, TypeOK, WorkerType
  <2>2. CASE w = cur
    <3>1. StreamStart >= committed /\ StreamStart > lastCompleted[w]
      BY <2>1, <2>2, Zenon DEF RecordsAhead
    <3>2. StreamStart' = StreamStart
      BY <1>5, <2>2, AfterKeepsStart, Zenon
    <3>3. RecordsAhead(w)'
      BY <2>1, <2>2, <3>1, <3>2, CurrentIsAhead, Zenon
    <3> QED  BY <2>1, <3>3, Zenon DEF CommitsAhead
  <2>3. CASE w # cur
    BY <2>1, <2>3, AheadFrame, Zenon
  <2> QED  BY <2>2, <2>3, Zenon
<1> QED  BY <1>1, <1>2, <1>3, <1>4, <1>5, Zenon DEF Worker

\* A commit that returns leaves everything else ahead of it: what it carried was
\* at or before the watermark and at or before what is pending (flush, requeue).
LEMMA FlushStep ==
  ASSUME TypeOK, LifecycleInv, NEW w \in Workers, CommitsAhead(w), RecordsAhead(w), ~stopped,
         NEW outcome \in CommitOutcomes, FlushResult(outcome)
  PROVE  committed' >= committed /\ CommitsAhead(w)' /\ RecordsAhead(w)'
<1> USE DEF kafkaVars, runVars, pauseVars, workerVars, commitVars, procVars
<1>0. /\ committed \in Nat /\ pending \in Nat \cup {NoOffset}
      /\ flushing \in Nat \cup {NoOffset} /\ lastCompleted[w] \in Nat \cup {NoOffset}
  BY OffsetTypes, Zenon
<1>1. /\ flushing # NoOffset /\ flushing' = NoOffset /\ ~closed
      /\ UNCHANGED <<cur, active, lastCompleted, rec, records, pc, fetchPos, polled, queued>>
  BY Zenon DEF FlushResult, LifecycleInv
<1>2. committed' = committed \/ committed' = flushing + 1
  BY Zenon DEF FlushResult, CommitRecords
<1>3. \/ pending' = pending /\ committed' = flushing + 1
      \/ pending' = IF pending < flushing THEN flushing ELSE pending
  BY <1>1, Zenon DEF FlushResult, CommitRecords, acknowledge, requeue, CommitOutcomes
<1>4. /\ pending <= lastCompleted[w] /\ flushing <= lastCompleted[w]
      /\ committed <= flushing + 1 /\ committed <= lastCompleted[w] + 1
      /\ pending # NoOffset => flushing <= pending /\ committed <= pending + 1
  BY <1>0, <1>1 DEF CommitsAhead
<1>5. committed' \in Nat /\ committed' >= committed /\ committed' <= lastCompleted[w] + 1
  BY <1>0, <1>1, <1>2, <1>4
<1>6. CommitsAhead(w)'
  BY <1>0, <1>1, <1>2, <1>3, <1>4, <1>5 DEF CommitsAhead
<1>7. ASSUME active[w] PROVE AheadOf(w, committed)' /\ AheadOf(w, lastCompleted[w] + 1)'
  <2>1. AheadOf(w, lastCompleted[w] + 1)
    BY <1>7, Zenon DEF RecordsAhead
  <2>2. rec[w] \in Int
    BY OffsetTypes
  <2>3. records[w] # <<>> => records[w][1] \in Int
    <3>1. records[w] \in Seq(Offsets)
      BY Zenon DEF TypeOK, WorkerType
    <3>2. records[w] # <<>> => Head(records[w]) \in Offsets
      BY <3>1, HeadTailProperties, Zenon
    <3> QED  BY <3>1, <3>2
  <2> QED  BY <1>0, <1>1, <1>5, <2>1, <2>2, <2>3 DEF AheadOf
<1>8. ASSUME w = cur, pc[w] \in Ready
      PROVE  StreamStart' >= committed' /\ StreamStart' > lastCompleted'[w]
  <2>1. StreamStart' = StreamStart
    BY <1>1, Zenon DEF StreamStart
  <2>2. StreamStart > lastCompleted[w]
    BY <1>8, Zenon DEF RecordsAhead
  <2>3. StreamStart \in Int
    BY <1>8, LenProperties DEF StreamStart, TypeOK, RuntimeType, WorkerType
  <2> QED  BY <1>0, <1>1, <1>5, <2>1, <2>2, <2>3
<1> QED  BY <1>1, <1>5, <1>6, <1>7, <1>8, Zenon DEF RecordsAhead

\* Every step keeps ForwardInv.
LEMMA ForwardStep ==
  ASSUME TypeOK, TypeOK', ~PollSpansRebalance, LifecycleInv, HoldInv, WorkerInv, StreamInv,
         StreamInv', FreshWorkers, OwnersAct, HoldsPartition, ForwardInv, [Next]_vars
  PROVE  ForwardInv'
<1> USE DEF kafkaVars, runVars, pauseVars, workerVars, commitVars, procVars
<1>1. CASE assign
  <2>1. SUFFICES ASSUME ~stopped PROVE CommitsAhead(Keeper)' /\ RecordsAhead(Keeper)'
    BY <1>1, Zenon DEF assign, ForwardInv
  <2>2. PICK w \in Workers : w = assignments + 1
    BY <1>1 DEF assign, TypeOK, RuntimeType
  <2>3. /\ member = "out" /\ polled = <<>> /\ fetchPos' = committed /\ cur' = w
        /\ UNCHANGED <<committed, pending, flushing, polled, queued, records, lastCompleted>>
        /\ pc'[w] = "idle"
    BY <1>1, <2>1, <2>2, Zenon DEF assign, TypeOK, WorkerType
  <2>4. pending = NoOffset /\ flushing = NoOffset /\ queued = <<>>
    BY <2>1, <2>3, Zenon DEF HoldsPartition, HoldInv
  <2>5. records[w] = <<>> /\ lastCompleted[w] = NoOffset
    BY <2>2, OffsetTypes DEF LifecycleInv, FreshWorkers
  <2>6. committed \in Nat
    BY OffsetTypes, Zenon
  <2>7. Keeper' = w
    BY <2>3 DEF Keeper
  <2>8. CommitsAhead(w)'
    BY <2>3, <2>4, <2>5 DEF CommitsAhead
  <2>9. StreamStart' = committed
    BY <2>3, <2>4, <2>5, <2>6 DEF StreamStart
  <2>10. RecordsAhead(w)'
    BY <2>3, <2>5, <2>6, <2>9, CurrentIsAhead
  <2> QED  BY <2>7, <2>8, <2>10, Zenon
<1>2. CASE Evict \/ OtherMember
  BY <1>2, Zenon DEF Evict, OtherMember, ForwardInv
<1>3. CASE beginShutdown \/ finishRevoke \/ Crash
  BY <1>3, Zenon DEF beginShutdown, finishRevoke, Crash, ForwardInv
<1>4. CASE finishShutdown
  <2>1. stopped /\ stopped' = stopped
    BY <1>4, Zenon DEF finishShutdown, LifecycleInv
  <2> QED  BY <2>1, Zenon DEF ForwardInv
<1>5. SUFFICES ASSUME ~stopped, member \in {"in", "revoking"}, NEW w \in Workers, w = Keeper,
                      CommitsAhead(w), RecordsAhead(w),
                      \/ Fetch \/ Poll \/ enqueue \/ (\E v \in Workers : Worker(v)) \/ takePending
                      \/ (\E outcome \in CommitOutcomes : FlushResult(outcome)) \/ beginRevoke
                      \/ (\E p \in Procs : Cancel(p) \/ Deactivate(p) \/ Waited(p))
                      \/ UNCHANGED vars
               PROVE  Keeper' = w /\ CommitsAhead(w)' /\ RecordsAhead(w)'
  <2>1. SUFFICES ASSUME ~stopped', member' \in {"in", "revoking"}, ~assign, ~Evict, ~OtherMember,
                        ~beginShutdown, ~finishRevoke, ~Crash, ~finishShutdown
                 PROVE  CommitsAhead(Keeper)' /\ RecordsAhead(Keeper)'
    BY <1>1, <1>2, <1>3, <1>4, Zenon DEF ForwardInv
  <2>2. \/ Fetch \/ Poll \/ enqueue \/ (\E v \in Workers : Worker(v)) \/ takePending
        \/ (\E outcome \in CommitOutcomes : FlushResult(outcome)) \/ beginRevoke
        \/ (\E p \in Procs : Cancel(p) \/ Deactivate(p) \/ Waited(p))
        \/ UNCHANGED vars
    BY <2>1, Zenon DEF Next, Procedures
  <2>3. stopped' = stopped
    BY <2>2, Zenon DEF Fetch, Poll, enqueue, Worker, Take, Exit, Settle, FirstFailure, RetryFailure,
                CheckContext, markCompleted, afterProcessed, takePending, FlushResult,
                beginRevoke, Cancel, Deactivate, Waited, vars
  <2>4. member \in {"in", "revoking"}
    BY <2>1, <2>2, Zenon DEF Fetch, Poll, enqueue, Worker, Take, Exit, Settle, FirstFailure,
                RetryFailure, CheckContext, markCompleted, afterProcessed, takePending,
                FlushResult, beginRevoke, Cancel, Deactivate, Waited, vars
  <2>5. Keeper \in Workers
    BY <2>1, <2>3, <2>4, KeeperIsWorker, Zenon
  <2>6. CommitsAhead(Keeper) /\ RecordsAhead(Keeper)
    BY <2>1, <2>3, <2>4, Zenon DEF ForwardInv
  <2> QED  BY <1>5, <2>1, <2>2, <2>3, <2>4, <2>5, <2>6, Zenon
<1>6. CASE Fetch \/ UNCHANGED vars
  <2>1. UNCHANGED <<committed, pending, flushing, lastCompleted, rec, records, active, pc, cur,
                    fetchPos, polled, queued, pworker>>
    BY <1>6, Zenon DEF Fetch, vars
  <2> QED  BY <1>5, <2>1, AheadFrame, Zenon DEF StreamStart, Keeper
<1>7. CASE Poll
  <2>1. UNCHANGED <<committed, pending, flushing, lastCompleted, rec, records, active, pc, cur,
                    pworker>>
    BY <1>7, Zenon DEF Poll
  <2> QED  BY <1>5, <1>7, <2>1, PollKeepsStart, AheadFrame, Zenon DEF Keeper
<1>8. CASE enqueue
  <2>1. UNCHANGED <<committed, pending, flushing, lastCompleted, rec, active, pc, cur, pworker>>
    BY <1>8, Zenon DEF enqueue
  <2>2. Keeper' = w
    BY <1>5, <2>1, Zenon DEF Keeper
  <2>3. CommitsAhead(w)'
    BY <1>5, <2>1, Zenon DEF CommitsAhead
  <2>4. CASE w # cur
    <3>1. records'[w] = records[w]
      BY <1>8, <2>4, Zenon DEF enqueue, TypeOK, WorkerType
    <3> QED  BY <1>5, <2>1, <2>2, <2>4, <3>1, AheadFrame, Zenon
  <2>5. CASE w = cur
    <3>1. StreamStart' = StreamStart
      BY <1>8, <2>5, EnqueueKeepsStart
    <3>2. CASE pc[w] \in Ready
      <4>1. StreamStart >= committed /\ StreamStart > lastCompleted[w]
        BY <1>5, <2>5, <3>2, Zenon DEF RecordsAhead
      <4>2. RecordsAhead(w)'
        BY <2>1, <2>5, <3>1, <3>2, <4>1, CurrentIsAhead, Zenon
      <4> QED  BY <2>2, <2>3, <4>2, Zenon
    <3>3. CASE pc[w] \notin Ready
      <4>1. RecordsAhead(w)'
        BY <1>5, <2>1, <3>3 DEF RecordsAhead, AheadOf
      <4> QED  BY <2>2, <2>3, <4>1, Zenon
    <3> QED  BY <3>2, <3>3, Zenon
  <2> QED  BY <2>4, <2>5, Zenon
<1>9. ASSUME NEW v \in Workers, Worker(v) PROVE Keeper' = w /\ CommitsAhead(w)' /\ RecordsAhead(w)'
  <2>1. UNCHANGED <<cur, pworker>>
    BY <1>9 DEF Worker, Take, Exit, Settle, FirstFailure, RetryFailure, CheckContext,
                markCompleted, afterProcessed
  <2>2. Keeper' = w
    BY <1>5, <2>1, Zenon DEF Keeper
  <2>3. CASE v = w
    BY <1>5, <1>9, <2>2, <2>3, OwnStep, Zenon
  <2>4. CASE v # w
    <3>1. ~active[v]
      BY <1>5, <2>4, OwnerIsKeeper, Zenon
    <3> QED  BY <1>5, <1>9, <2>2, <2>4, <3>1, OtherWorkerFrame, Zenon
  <2> QED  BY <2>3, <2>4, SMTT(20)
<1>10. CASE takePending
  <2>1. /\ UNCHANGED <<committed, lastCompleted, rec, records, active, pc, cur, fetchPos, polled,
                       queued, pworker>>
        /\ pending # NoOffset /\ flushing' = pending /\ pending' = NoOffset
    BY <1>5, <1>10, Zenon DEF takePending, LifecycleInv
  <2>2. /\ lastCompleted[w] \in Nat \cup {NoOffset} /\ pending \in Nat \cup {NoOffset}
        /\ committed \in Nat
    BY OffsetTypes, Zenon
  <2>3. CommitsAhead(w)'
    BY <1>5, <2>1, <2>2 DEF CommitsAhead
  <2>4. RecordsAhead(w)'
    BY <1>5, <2>1, Zenon DEF RecordsAhead, AheadOf, StreamStart
  <2> QED  BY <1>5, <2>1, <2>3, <2>4, Zenon DEF Keeper
<1>11. ASSUME NEW outcome \in CommitOutcomes, FlushResult(outcome)
       PROVE  Keeper' = w /\ CommitsAhead(w)' /\ RecordsAhead(w)'
  <2>1. UNCHANGED <<cur, pworker>>
    BY <1>11, Zenon DEF FlushResult
  <2> QED  BY <1>5, <1>11, <2>1, FlushStep, Zenon DEF Keeper
<1>12. CASE beginRevoke
  <2>1. /\ UNCHANGED <<committed, pending, flushing, lastCompleted, rec, records, active, pc>>
        /\ cur' = 0 /\ pworker'["revoke"] = cur /\ member \in {"in", "lost"}
    BY <1>12, Zenon DEF beginRevoke, removeWorkers, TypeOK, CommitterType
  <2>2. cur # 0
    BY <1>5, <2>1, Zenon DEF HoldsPartition
  <2>3. Keeper' = w /\ w # cur'
    BY <1>5, <2>1, <2>2, Zenon DEF Keeper
  <2> QED  BY <1>5, <2>1, <2>3, AheadFrame, Zenon
<1>13. ASSUME NEW p \in Procs, Cancel(p) \/ Deactivate(p) \/ Waited(p)
       PROVE  Keeper' = w /\ CommitsAhead(w)' /\ RecordsAhead(w)'
  <2>1. /\ UNCHANGED <<committed, pending, flushing, lastCompleted, rec, records, pc, cur,
                       fetchPos, polled, queued, pworker>>
        /\ active'[w] => active[w]
    BY <1>13, Zenon DEF Cancel, Deactivate, Waited, TypeOK, WorkerType
  <2> QED  BY <1>5, <2>1, AheadFrame, Zenon DEF StreamStart, Keeper
<1> QED  BY <1>5, <1>6, <1>7, <1>8, <1>9, <1>10, <1>11, <1>12, <1>13, Zenon

\* What the group has committed never moves backwards under a member that is not
\* shutting down, for every size of log, channel, poll, buffer and batch, across
\* rebalances, evictions, crashes and commits that fail or are applied late, when
\* a poll is enqueued within one assignment (mark, flush, commitRevoked,
\* dropPartitions).
THEOREM CommittedOnlyGrows ==
  ASSUME ~PollSpansRebalance
  PROVE  Spec => CommittedNeverRegresses
<1> DEFINE Inv == /\ TypeOK /\ CommitInv /\ SerialInv /\ OwnersAct
                  /\ HoldsPartition /\ ForwardInv
<1>1. Init => Inv
  <2> SUFFICES ASSUME Init PROVE Inv
    OBVIOUS
  <2>1. SerialInv
    BY DEF Init, AllWorkers, SerialInv, ChannelFollows, FreshWorkers, StreamFollows
  <2>2. OwnersAct
    BY Zenon DEF Init, AllWorkers, BothProcs, OwnersAct
  <2>3. HoldsPartition /\ ForwardInv
    BY Zenon DEF Init, HoldsPartition, ForwardInv
  <2> QED  BY <2>1, <2>2, <2>3, CommitInvInit, Zenon
<1>2. Inv /\ [Next]_vars => Inv'
  <2> SUFFICES ASSUME Inv, [Next]_vars PROVE Inv'
    OBVIOUS
  <2>1. TypeOK' /\ settled \subseteq settled'
    BY TypeStep, SettledGrows, Zenon
  <2>2. LifecycleInv' /\ HoldInv'
    BY LifecycleStep, HoldStep, Zenon DEF CommitInv
  <2>3. CommitSourcesInv' /\ WorkerInv' /\ StreamInv'
    BY <2>1, SourcesStep, WorkerStep, StreamStep, Zenon DEF CommitInv
  <2>4. SerialInv'
    BY <2>1, <2>2, <2>3, SerialStep, Zenon DEF CommitInv
  <2>5. OwnersAct' /\ HoldsPartition'
    BY OwnersStep, HoldsStep, Zenon DEF CommitInv
  <2>6. ForwardInv'
    BY <2>1, <2>3, ForwardStep, Zenon DEF CommitInv, SerialInv
  <2> QED  BY <2>1, <2>2, <2>3, <2>4, <2>5, <2>6, Zenon DEF CommitInv
<1>3. Inv /\ [Next]_vars => [committed' >= committed \/ stopped]_vars
  <2> SUFFICES ASSUME Inv, Next, ~stopped PROVE committed' >= committed
    OBVIOUS
  <2> USE DEF kafkaVars
  <2>1. committed \in Nat
    BY OffsetTypes, Zenon
  <2>2. CASE assign \/ Fetch \/ Poll \/ Evict \/ enqueue \/ takePending \/ beginRevoke
             \/ beginShutdown
    BY <2>1, <2>2 DEF assign, Fetch, Poll, Evict, enqueue, takePending, beginRevoke,
                      beginShutdown
  <2>3. CASE OtherMember
    BY <2>1, <2>3 DEF OtherMember
  <2>4. ASSUME NEW w \in Workers, Worker(w) PROVE committed' >= committed
    <3>1. committed' = committed
      BY <2>4, Zenon DEF Worker, Take, Exit, Settle, FirstFailure, RetryFailure, CheckContext,
                         markCompleted, afterProcessed
    <3> QED  BY <2>1, <3>1
  <2>5. ASSUME NEW outcome \in CommitOutcomes, flushing # NoOffset,
               CommitRecords(flushing, outcome)
        PROVE  committed' >= committed
    <3>1. CASE ~outcome.applied
      BY <2>1, <2>5, <3>1 DEF CommitRecords
    <3>2. CASE outcome.applied
      <4>1. member # "lost" /\ member # "out"
        BY <2>5, <3>2, Zenon DEF CommitOutcomes, HoldsPartition
      <4>2. CommitsAhead(Keeper)
        BY <4>1, Zenon DEF ForwardInv, TypeOK, RuntimeType
      <4>3. committed <= flushing + 1
        BY <2>5, <4>2, Zenon DEF CommitsAhead
      <4>4. flushing \in Int
        BY OffsetTypes
      <4> QED  BY <2>1, <2>5, <3>2, <4>3, <4>4, Zenon DEF CommitRecords
    <3> QED  BY <3>1, <3>2, Zenon
  <2>6. ASSUME NEW outcome \in CommitOutcomes, FlushResult(outcome) PROVE committed' >= committed
    BY <2>5, <2>6, Zenon DEF FlushResult
  <2>7. CASE finishRevoke
    <3>1. CASE ~(member = "revoking" /\ Completed("revoke") # NoOffset)
      BY <2>1, <2>7, <3>1 DEF finishRevoke
    <3>2. CASE member = "revoking" /\ Completed("revoke") # NoOffset
      <4>1. PICK outcome \in CommitOutcomes : CommitRecords(Completed("revoke"), outcome)
        BY <2>7, <3>2, Zenon DEF finishRevoke
      <4>2. Keeper \in Workers /\ Keeper = pworker["revoke"] /\ CommitsAhead(Keeper)
        BY <3>2, KeeperIsWorker, Zenon DEF ForwardInv, HoldsPartition, Keeper
      <4>3. Completed("revoke") = lastCompleted[Keeper]
        BY <4>2 DEF Completed
      <4>4. committed <= lastCompleted[Keeper] + 1 /\ lastCompleted[Keeper] \in Int
        BY <3>2, <4>2, <4>3, OffsetTypes DEF CommitsAhead
      <4> QED  BY <2>1, <4>1, <4>3, <4>4 DEF CommitRecords
    <3> QED  BY <3>1, <3>2, Zenon
  <2>8. CASE finishShutdown
    BY <2>8, Zenon DEF finishShutdown, CommitInv, LifecycleInv
  <2>9. ASSUME NEW p \in Procs, Cancel(p) \/ Deactivate(p) \/ Waited(p)
        PROVE  committed' >= committed
    BY <2>1, <2>9 DEF Cancel, Deactivate, Waited
  <2>10. CASE Crash
    BY <2>1, <2>5, <2>10 DEF Crash
  <2> QED
    BY <2>2, <2>3, <2>4, <2>6, <2>7, <2>8, <2>9, <2>10, Zenon DEF Next, Procedures
<1> HIDE DEF Inv
<1> QED  BY <1>1, <1>2, <1>3, PTL DEF Spec, CommittedNeverRegresses
=============================================================================
