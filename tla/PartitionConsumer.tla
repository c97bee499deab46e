------------------------- MODULE PartitionConsumer -------------------------
(***************************************************************************)
(* The shared Kafka partition consumer of pkg/kafka/partitionconsumer, as  *)
(* the Dispatcher, the Guild profile projector and the Message mention     *)
(* expander run it: the poll loop, one serial worker per assignment of a   *)
(* partition, the asynchronous offset committer, and the revoke and        *)
(* shutdown procedures.                                                    *)
(*                                                                         *)
(* One partition is modelled.  Partitions share nothing but mutexes and    *)
(* the committer's run loop, whose state is kept per partition.  Records   *)
(* are their offsets 0 .. Records-1.  The broker's side of the group (who  *)
(* owns the partition, which commits it accepts, what another member does  *)
(* in the meantime) is external and is modelled from the callbacks and     *)
(* calls the code makes.                                                   *)
(***************************************************************************)
EXTENDS Integers, Sequences, FiniteSets

CONSTANTS
  Records,                  \* length of the partition's log
  QueueSize,                \* capacity of a worker's record channel
  MaxPoll,                  \* Config.MaxPollRecords
  MaxBuffered,              \* records the client may have fetched and not returned
  MaxUncommitted,           \* Config.MaxUncommittedRecords
  RetryMaxAttempts,         \* Config.RetryMaxAttempts, 0 is retry for ever
  DropAfterRetryExhausted,  \* Config.DropAfterRetryExhausted
  MaxAssignments,           \* bound: assignments of the partition to this member
  MaxCrashes,               \* bound: crashes of this member
  PollSpansRebalance        \* may a revocation and a new assignment both complete
                            \* while the records of one poll are being enqueued?

ASSUME ConstantsAssumption ==
  /\ Records \in Nat \ {0} /\ QueueSize \in Nat \ {0}
  /\ MaxPoll \in Nat \ {0} /\ MaxBuffered \in Nat \ {0} /\ MaxUncommitted \in Nat \ {0}
  /\ RetryMaxAttempts \in Nat /\ MaxAssignments \in Nat /\ MaxCrashes \in Nat
  /\ DropAfterRetryExhausted \in BOOLEAN /\ PollSpansRebalance \in BOOLEAN

VARIABLES
  \* the broker and the client library
  committed,      \* the group's committed offset: where the next owner starts
  member,         \* this member's hold on the partition
  fetchPos,       \* next offset PollRecords will return
  fetched,        \* end of what the client has buffered
  paused,         \* the client's fetch of the partition is paused
  \* Consumer.Run and partitionRuntime
  polled,         \* records of the current poll not enqueued yet
  cur,            \* runtime.workers[key]: a worker, or 0
  assignments,    \* workers created so far
  queued,         \* runtime.queuedRecords[key]
  pauseReasons,   \* runtime.pauseReasons[key]
  stopped,        \* runtime.stopped
  closed,         \* runtime.ctx is cancelled
  \* partitionWorker, one per assignment
  pc, rec, attempt, records, ctxDone, active, lastCompleted,
  \* partitionCommitter
  pending,        \* pendingOffsets[key]
  uncommitted,    \* uncommitted[key]
  backpressured,  \* backpressured[key]
  flushing,       \* offset of the commit in flight; commitMu is held
  flushCount,     \* the count captured with it
  \* the revoke callback and stopWithContext
  ppc, pworker, pexpired,
  \* bookkeeping of the model
  crashes,
  settled         \* offsets whose handling is over, in any process of the group

kafkaVars  == <<committed, member, fetchPos, fetched>>
runVars    == <<polled, cur, assignments, queued, stopped, closed>>
pauseVars  == <<pauseReasons, paused>>
workerVars == <<pc, rec, attempt, records, ctxDone, active, lastCompleted>>
commitVars == <<pending, uncommitted, backpressured, flushing, flushCount>>
procVars   == <<ppc, pworker, pexpired>>
vars == <<kafkaVars, runVars, pauseVars, workerVars, commitVars, procVars,
          crashes, settled>>

NoOffset    == -1
Offsets == 0 .. Records - 1
Workers == 1 .. MaxAssignments
Procs   == {"revoke", "shutdown"}
Reasons == {"queue", "retry", "commit"}

Min2(a, b) == IF a < b THEN a ELSE b

----------------------------------------------------------------------------
(* Pausing the fetch: the client is called on the first reason and on the   *)
(* last one only.                                                           *)

pauseLocked(reason) ==
  /\ pauseReasons' = pauseReasons \cup {reason}
  /\ paused' = (paused \/ pauseReasons = {})

\* Fault: current&reason != reason instead of current&reason == 0.
resumeLocked_NeedsAll(reasons) ==
  IF reasons \subseteq pauseReasons
    THEN pauseReasons' = pauseReasons \ reasons /\ paused' = (pauseReasons \ reasons # {})
    ELSE UNCHANGED pauseVars

resumeLocked(reasons) ==
  /\ pauseReasons' = pauseReasons \ reasons
  /\ paused' = (paused /\ (pauseReasons \cap reasons = {} \/ pauseReasons \ reasons # {}))

setCommitBackpressure(blocked) ==
  IF cur = 0 \/ stopped THEN UNCHANGED pauseVars
  ELSE IF blocked THEN pauseLocked("commit")
  ELSE resumeLocked({"commit"})

----------------------------------------------------------------------------
(* The broker and the client library.                                       *)

\* What a CommitRecords call may come to: applied or not, reported or not.  An
\* evicted member's commit is refused, and a timeout may hide an applied commit.
\* A member of the group may commit a partition it no longer holds: the broker
\* checks the member's generation only.
CommitOutcomes ==
  {o \in [applied : BOOLEAN, ok : BOOLEAN] :
     /\ o.ok => o.applied
     /\ o.applied => member # "lost"}

CommitRecords(offset, outcome) ==
  committed' = IF outcome.applied THEN offset + 1 ELSE committed

\* OnPartitionsAssigned: a new worker, and the fetch starts at the committed
\* offset with no pause left over.
assign ==
  /\ member = "out"
  /\ ppc["revoke"] = "idle"
  /\ assignments < MaxAssignments
  /\ PollSpansRebalance \/ polled = <<>>
  /\ member' = "in"
  /\ fetchPos' = committed
  /\ fetched' = committed
  /\ assignments' = assignments + 1
  /\ IF stopped
       THEN UNCHANGED <<cur, paused, workerVars>>
       ELSE LET w == assignments + 1 IN
            /\ cur' = w
            /\ pc' = [pc EXCEPT ![w] = "idle"]
            /\ active' = [active EXCEPT ![w] = TRUE]
            /\ ctxDone' = [ctxDone EXCEPT ![w] = closed]
            /\ paused' = FALSE
            /\ UNCHANGED <<rec, attempt, records, lastCompleted>>
  /\ UNCHANGED <<committed, polled, queued, stopped, closed, pauseReasons,
                 commitVars, procVars, crashes, settled>>

\* The client fetches ahead while the partition is not paused.
Fetch ==
  /\ member \in {"in", "lost"}
  /\ ~paused
  /\ fetched < Records
  /\ fetched - fetchPos < MaxBuffered
  /\ fetched' = fetched + 1
  /\ UNCHANGED <<committed, member, fetchPos, runVars, pauseVars, workerVars,
                 commitVars, procVars, crashes, settled>>

\* PollRecords returns buffered records, those of a paused partition included.
Poll ==
  /\ polled = <<>>
  /\ fetchPos < fetched
  /\ \E n \in 1 .. Min2(MaxPoll, fetched - fetchPos) :
       /\ polled' = [i \in 1 .. n |-> fetchPos + i - 1]
       /\ fetchPos' = fetchPos + n
  /\ UNCHANGED <<committed, member, fetched, cur, assignments, queued, stopped,
                 closed, pauseVars, workerVars, commitVars, procVars, crashes, settled>>

\* The broker gives up on this member before the client notices.
Evict ==
  /\ member = "in"
  /\ member' = "lost"
  /\ UNCHANGED <<committed, fetchPos, fetched, runVars, pauseVars, workerVars,
                 commitVars, procVars, crashes, settled>>

\* Another member owns the partition, handles the next record and commits it.
OtherMember ==
  /\ member \in {"out", "lost"}
  /\ committed < Records
  /\ committed' = committed + 1
  /\ settled' = settled \cup {committed}
  /\ UNCHANGED <<member, fetchPos, fetched, runVars, pauseVars, workerVars,
                 commitVars, procVars, crashes>>

----------------------------------------------------------------------------
(* The poll loop hands one record after the other to the runtime.           *)

HasRoom(w) == Len(records[w]) < QueueSize

\* Fault: a record may overtake the ones in the overflow queue.
MustQueue_Overtakes == ~HasRoom(cur)
MustQueue == queued # <<>> \/ ~HasRoom(cur)

enqueue ==
  /\ polled # <<>>
  /\ polled' = Tail(polled)
  /\ \/ /\ stopped \/ cur = 0
        /\ UNCHANGED <<queued, pauseVars, records>>
     \/ /\ ~stopped /\ cur # 0
        /\ ~MustQueue
        /\ records' = [records EXCEPT ![cur] = Append(@, Head(polled))]
        /\ UNCHANGED <<queued, pauseVars>>
     \/ /\ ~stopped /\ cur # 0
        /\ MustQueue
        /\ queued' = Append(queued, Head(polled))
        /\ pauseLocked("queue")
        /\ UNCHANGED records
  /\ UNCHANGED <<kafkaVars, cur, assignments, stopped, closed, pc, rec, attempt,
                 ctxDone, active, lastCompleted, commitVars, procVars, crashes, settled>>

----------------------------------------------------------------------------
(* A worker.                                                                *)

\* run: the select may take a record even after the context is cancelled.
Take(w) ==
  /\ pc[w] = "idle"
  /\ records[w] # <<>>
  /\ pc' = [pc EXCEPT ![w] = "handling"]
  /\ rec' = [rec EXCEPT ![w] = Head(records[w])]
  /\ records' = [records EXCEPT ![w] = Tail(@)]
  /\ UNCHANGED <<kafkaVars, runVars, pauseVars, attempt, ctxDone, active,
                 lastCompleted, commitVars, procVars, crashes, settled>>

\* The worker leaves: from run's select, or from retryRecord's.
Exit(w) ==
  /\ pc[w] \in {"idle", "backoff"}
  /\ ctxDone[w]
  /\ pc' = [pc EXCEPT ![w] = "exited"]
  /\ attempt' = [attempt EXCEPT ![w] = 0]
  /\ UNCHANGED <<kafkaVars, runVars, pauseVars, rec, records, ctxDone, active,
                 lastCompleted, commitVars, procVars, crashes, settled>>

\* The handler succeeds, or rejects the record for good: either way the record
\* needs no further attempt.
Settle(w) ==
  /\ pc[w] \in {"handling", "backoff"}
  /\ pc' = [pc EXCEPT ![w] = "returned"]
  /\ settled' = settled \cup {rec[w]}
  /\ attempt' = [attempt EXCEPT ![w] = 0]
  /\ UNCHANGED <<kafkaVars, runVars, pauseVars, rec, records, ctxDone, active,
                 lastCompleted, commitVars, procVars, crashes>>

\* The first call fails with a retryable error: pause, then back off.
FirstFailure(w) ==
  /\ pc[w] = "handling"
  /\ IF cur = w /\ ~stopped THEN pauseLocked("retry") ELSE UNCHANGED pauseVars
  /\ pc' = [pc EXCEPT ![w] = "backoff"]
  /\ attempt' = [attempt EXCEPT ![w] = 1]
  /\ UNCHANGED <<kafkaVars, runVars, rec, records, ctxDone, active, lastCompleted,
                 commitVars, procVars, crashes, settled>>

\* A later call fails too.  Exhausted retries drop the record, or start over.
RetryFailure(w) ==
  /\ pc[w] = "backoff"
  /\ \/ /\ RetryMaxAttempts = 0 \/ attempt[w] < RetryMaxAttempts
        /\ attempt' = [attempt EXCEPT ![w] = IF RetryMaxAttempts = 0 THEN 1 ELSE @ + 1]
        /\ UNCHANGED <<pc, settled>>
     \/ /\ RetryMaxAttempts > 0 /\ attempt[w] >= RetryMaxAttempts
        /\ ~DropAfterRetryExhausted
        /\ attempt' = [attempt EXCEPT ![w] = 1]
        /\ UNCHANGED <<pc, settled>>
     \/ /\ RetryMaxAttempts > 0 /\ attempt[w] >= RetryMaxAttempts
        /\ DropAfterRetryExhausted
        /\ pc' = [pc EXCEPT ![w] = "returned"]
        /\ settled' = settled \cup {rec[w]}
        /\ attempt' = [attempt EXCEPT ![w] = 0]
  /\ UNCHANGED <<kafkaVars, runVars, pauseVars, rec, records, ctxDone, active,
                 lastCompleted, commitVars, procVars, crashes>>

\* processRecord looks at the worker's context before it completes the record.
CheckContext(w) ==
  /\ pc[w] = "returned"
  /\ pc' = [pc EXCEPT ![w] = IF ctxDone[w] THEN "exited" ELSE "marking"]
  /\ UNCHANGED <<kafkaVars, runVars, pauseVars, rec, attempt, records, ctxDone, active,
                 lastCompleted, commitVars, procVars, crashes, settled>>

\* partitionCommitter.mark, called with the worker's lock held.
mark(offset) ==
  LET blocked == uncommitted + 1 >= MaxUncommitted /\ ~backpressured IN
  /\ pending' = IF pending < offset THEN offset ELSE pending
  /\ uncommitted' = uncommitted + 1
  /\ backpressured' = (backpressured \/ blocked)
  /\ IF blocked THEN setCommitBackpressure(TRUE) ELSE UNCHANGED pauseVars
  /\ UNCHANGED <<flushing, flushCount>>

markCompleted(w) ==
  /\ pc[w] = "marking"
  /\ IF active[w]
       THEN /\ lastCompleted' = [lastCompleted EXCEPT ![w] = rec[w]]
            /\ mark(rec[w])
            /\ pc' = [pc EXCEPT ![w] = "after"]
       ELSE /\ pc' = [pc EXCEPT ![w] = "exited"]
            /\ UNCHANGED <<lastCompleted, pauseVars, commitVars>>
  /\ UNCHANGED <<kafkaVars, runVars, rec, attempt, records, ctxDone, active,
                 procVars, crashes, settled>>

\* Move what fits from the overflow queue to the channel, and resume the fetch
\* once the channel is empty.
afterProcessed(w) ==
  /\ pc[w] = "after"
  /\ pc' = [pc EXCEPT ![w] = "idle"]
  /\ IF cur # w \/ stopped
       THEN UNCHANGED <<queued, pauseVars, records>>
       ELSE LET n == Min2(QueueSize - Len(records[w]), Len(queued)) IN
            /\ records' = [records EXCEPT ![w] = @ \o SubSeq(queued, 1, n)]
            /\ queued' = SubSeq(queued, n + 1, Len(queued))
            /\ IF queued = <<>> /\ records[w] = <<>>
                 THEN resumeLocked({"queue", "retry"})
                 ELSE UNCHANGED pauseVars
  /\ UNCHANGED <<kafkaVars, polled, cur, assignments, stopped, closed, rec, attempt,
                 ctxDone, active, lastCompleted, commitVars, procVars, crashes, settled>>

----------------------------------------------------------------------------
(* The asynchronous committer.                                              *)

\* flush takes the pending offset; a committer that is shutting down discards it.
takePending ==
  /\ flushing = NoOffset
  /\ pending # NoOffset
  /\ pending' = NoOffset
  /\ IF closed
       THEN UNCHANGED <<flushing, flushCount>>
       ELSE flushing' = pending /\ flushCount' = uncommitted
  /\ UNCHANGED <<kafkaVars, runVars, pauseVars, workerVars, uncommitted, backpressured,
                 procVars, crashes, settled>>

acknowledge(count) ==
  LET remaining == uncommitted - count
      released  == backpressured /\ remaining < MaxUncommitted
  IN /\ uncommitted' = IF remaining <= 0 THEN 0 ELSE remaining
     /\ backpressured' = (backpressured /\ ~released)
     /\ IF released THEN setCommitBackpressure(FALSE) ELSE UNCHANGED pauseVars
     /\ UNCHANGED pending

requeue(offset) ==
  /\ pending' = IF pending < offset THEN offset ELSE pending
  /\ UNCHANGED <<uncommitted, backpressured, pauseVars>>

\* The commit of flush returns.
FlushResult(outcome) ==
  /\ flushing # NoOffset
  /\ outcome \in CommitOutcomes
  /\ CommitRecords(flushing, outcome)
  /\ IF outcome.ok THEN acknowledge(flushCount)
     ELSE IF ~closed THEN requeue(flushing)
     ELSE UNCHANGED <<pending, uncommitted, backpressured, pauseVars>>
  /\ flushing' = NoOffset
  /\ flushCount' = 0
  /\ UNCHANGED <<member, fetchPos, fetched, runVars, workerVars, procVars, crashes, settled>>

----------------------------------------------------------------------------
(* revoke and stopWithContext: take the worker out of the runtime, cancel   *)
(* it, deactivate it, wait for it within a deadline, commit its watermark.  *)

removeWorkers(p) ==
  /\ pworker' = [pworker EXCEPT ![p] = cur]
  /\ pexpired' = [pexpired EXCEPT ![p] = FALSE]
  /\ ppc' = [ppc EXCEPT ![p] = "cancel"]
  /\ cur' = 0
  /\ queued' = <<>>
  /\ pauseReasons' = {}
  /\ UNCHANGED <<paused, polled, assignments>>

\* OnPartitionsRevoked when the member still holds the partition,
\* OnPartitionsLost when it was evicted.  The client drops what it buffered.
beginRevoke ==
  /\ member \in {"in", "lost"}
  /\ ppc["revoke"] = "idle"
  /\ removeWorkers("revoke")
  /\ member' = IF member = "in" THEN "revoking" ELSE "lost"
  /\ fetched' = fetchPos
  /\ UNCHANGED <<committed, fetchPos, stopped, closed, workerVars, commitVars, crashes, settled>>

beginShutdown ==
  /\ ~stopped
  /\ stopped' = TRUE
  /\ removeWorkers("shutdown")
  /\ UNCHANGED <<kafkaVars, closed, workerVars, commitVars, crashes, settled>>

\* worker.stop cancels the worker's context first; shutdown has cancelled the
\* runtime's, and with it every worker's and the committer's.
Cancel(p) ==
  /\ ppc[p] = "cancel"
  /\ ppc' = [ppc EXCEPT ![p] = IF pworker[p] = 0 THEN "finish" ELSE "deactivate"]
  /\ closed' = (closed \/ p = "shutdown")
  /\ ctxDone' = [w \in Workers |-> \/ ctxDone[w]
                                   \/ w = pworker[p]
                                   \/ p = "shutdown" /\ pc[w] # "none"]
  /\ UNCHANGED <<kafkaVars, polled, cur, assignments, queued, stopped, pauseVars, pc, rec,
                 attempt, records, active, lastCompleted, commitVars, pworker, pexpired,
                 crashes, settled>>

\* ... and marks the worker inactive second, under the worker's lock.
Deactivate(p) ==
  /\ ppc[p] = "deactivate"
  /\ ppc' = [ppc EXCEPT ![p] = "wait"]
  /\ active' = [active EXCEPT ![pworker[p]] = FALSE]
  /\ UNCHANGED <<kafkaVars, runVars, pauseVars, pc, rec, attempt, records, ctxDone,
                 lastCompleted, commitVars, pworker, pexpired, crashes, settled>>

\* The worker is done or RevokeTimeout passes first, and by then the deadline of
\* the whole shutdown may have passed as well.
Waited(p) ==
  /\ ppc[p] = "wait"
  /\ ppc' = [ppc EXCEPT ![p] = "finish"]
  /\ pexpired' \in {pexpired, [pexpired EXCEPT ![p] = TRUE]}
  /\ UNCHANGED <<kafkaVars, runVars, pauseVars, workerVars, commitVars, pworker,
                 crashes, settled>>

\* Fault: the record in flight is committed with the watermark.
Completed_InFlight(p) == IF pworker[p] = 0 THEN NoOffset ELSE rec[pworker[p]]

\* The watermark the procedure commits: that of the worker it stopped.
Completed(p) == IF pworker[p] = 0 THEN NoOffset ELSE lastCompleted[pworker[p]]

\* Faults: one of the committer's three maps is not cleared.
dropPartitions_KeepsOffset == uncommitted' = 0 /\ backpressured' = FALSE /\ UNCHANGED pending
dropPartitions_KeepsBackpressure == pending' = NoOffset /\ uncommitted' = 0 /\ UNCHANGED backpressured
dropPartitions == pending' = NoOffset /\ uncommitted' = 0 /\ backpressured' = FALSE

\* commitRevoked, or dropPartitions alone for a lost partition.
finishRevoke ==
  /\ ppc["revoke"] = "finish"
  /\ flushing = NoOffset
  /\ dropPartitions
  /\ IF member = "revoking" /\ Completed("revoke") # NoOffset
       THEN \E outcome \in CommitOutcomes : CommitRecords(Completed("revoke"), outcome)
       ELSE UNCHANGED committed
  /\ member' = "out"
  /\ ppc' = [ppc EXCEPT !["revoke"] = "idle"]
  /\ pworker' = [pworker EXCEPT !["revoke"] = 0]
  /\ UNCHANGED <<fetchPos, fetched, runVars, pauseVars, workerVars, flushing, flushCount,
                 pexpired, crashes, settled>>

\* The end of stopWithContext: the committer has stopped; an expired deadline
\* skips the final commit.
finishShutdown ==
  /\ ppc["shutdown"] = "finish"
  /\ flushing = NoOffset
  /\ IF ~pexpired["shutdown"] /\ Completed("shutdown") # NoOffset
       THEN \E outcome \in CommitOutcomes : CommitRecords(Completed("shutdown"), outcome)
       ELSE UNCHANGED committed
  /\ ppc' = [ppc EXCEPT !["shutdown"] = "done"]
  /\ UNCHANGED <<member, fetchPos, fetched, runVars, pauseVars, workerVars, commitVars,
                 pworker, pexpired, crashes, settled>>

----------------------------------------------------------------------------

AllWorkers(v) == [w \in Workers |-> v]
BothProcs(v)  == [p \in Procs |-> v]

Init ==
  /\ committed = 0 /\ member = "out" /\ fetchPos = 0 /\ fetched = 0
  /\ assignments = 0
  /\ polled = <<>> /\ cur = 0 /\ queued = <<>> /\ stopped = FALSE /\ closed = FALSE
  /\ pauseReasons = {} /\ paused = FALSE
  /\ pc = AllWorkers("none") /\ rec = AllWorkers(NoOffset) /\ attempt = AllWorkers(0)
  /\ records = AllWorkers(<<>>) /\ ctxDone = AllWorkers(FALSE) /\ active = AllWorkers(FALSE)
  /\ lastCompleted = AllWorkers(NoOffset)
  /\ pending = NoOffset /\ uncommitted = 0 /\ backpressured = FALSE
  /\ flushing = NoOffset /\ flushCount = 0
  /\ ppc = BothProcs("idle") /\ pworker = BothProcs(0) /\ pexpired = BothProcs(FALSE)
  /\ crashes = 0
  /\ settled = {}

\* The process dies at any point, or exits after its shutdown, and a new one
\* starts with empty memory.  A commit in flight may still reach the broker.
Crash ==
  /\ crashes < MaxCrashes
  /\ crashes' = crashes + 1
  /\ member' = "out"
  /\ IF flushing # NoOffset
       THEN \E outcome \in CommitOutcomes : CommitRecords(flushing, outcome)
       ELSE UNCHANGED committed
  /\ polled' = <<>> /\ cur' = 0 /\ queued' = <<>> /\ stopped' = FALSE /\ closed' = FALSE
  /\ pauseReasons' = {} /\ paused' = FALSE
  /\ pc' = AllWorkers("none") /\ rec' = AllWorkers(NoOffset) /\ attempt' = AllWorkers(0)
  /\ records' = AllWorkers(<<>>) /\ ctxDone' = AllWorkers(FALSE) /\ active' = AllWorkers(FALSE)
  /\ lastCompleted' = AllWorkers(NoOffset)
  /\ pending' = NoOffset /\ uncommitted' = 0 /\ backpressured' = FALSE
  /\ flushing' = NoOffset /\ flushCount' = 0
  /\ ppc' = BothProcs("idle") /\ pworker' = BothProcs(0) /\ pexpired' = BothProcs(FALSE)
  /\ fetched' = fetchPos
  /\ UNCHANGED <<fetchPos, assignments, settled>>

Worker(w) ==
  \/ Take(w) \/ Exit(w) \/ Settle(w) \/ FirstFailure(w) \/ RetryFailure(w)
  \/ CheckContext(w) \/ markCompleted(w) \/ afterProcessed(w)

Procedures ==
  \/ beginRevoke \/ beginShutdown \/ finishRevoke \/ finishShutdown
  \/ \E p \in Procs : Cancel(p) \/ Deactivate(p) \/ Waited(p)

Next ==
  \/ assign \/ Fetch \/ Poll \/ Evict \/ OtherMember
  \/ enqueue
  \/ \E w \in Workers : Worker(w)
  \/ takePending
  \/ \E outcome \in CommitOutcomes : FlushResult(outcome)
  \/ Procedures
  \/ Crash

Spec == Init /\ [][Next]_vars

\* Every goroutine of the process keeps running, the handler's transient
\* failures end, and a commit that is tried again and again succeeds.
Fairness ==
  /\ WF_vars(Fetch) /\ WF_vars(Poll) /\ WF_vars(enqueue)
  /\ \A w \in Workers :
       /\ WF_vars(Take(w)) /\ WF_vars(Settle(w)) /\ WF_vars(CheckContext(w))
       /\ WF_vars(markCompleted(w)) /\ WF_vars(afterProcessed(w))
  /\ WF_vars(takePending)
  /\ SF_vars(FlushResult([applied |-> TRUE, ok |-> TRUE]))

FairSpec == Spec /\ Fairness

----------------------------------------------------------------------------
(* Properties.                                                              *)

Busy  == {"handling", "backoff", "returned", "marking"}
Ready == {"idle", "after"}

RuntimeType ==
  /\ committed \in 0 .. Records /\ fetchPos \in 0 .. Records /\ fetched \in fetchPos .. Records
  /\ member \in {"out", "in", "revoking", "lost"}
  /\ polled \in Seq(Offsets) /\ queued \in Seq(Offsets)
  /\ assignments \in 0 .. MaxAssignments /\ cur \in 0 .. assignments
  /\ pauseReasons \subseteq Reasons
  /\ paused \in BOOLEAN /\ stopped \in BOOLEAN /\ closed \in BOOLEAN
  /\ crashes \in 0 .. MaxCrashes
  /\ settled \subseteq Offsets

WorkerType ==
  /\ pc \in [Workers -> {"none", "exited"} \cup Busy \cup Ready]
  /\ rec \in [Workers -> Offsets \cup {NoOffset}]
  /\ attempt \in [Workers -> Nat]
  /\ records \in [Workers -> Seq(Offsets)]
  /\ ctxDone \in [Workers -> BOOLEAN] /\ active \in [Workers -> BOOLEAN]
  /\ lastCompleted \in [Workers -> Offsets \cup {NoOffset}]
  /\ \A w \in Workers : /\ Len(records[w]) <= QueueSize
                        /\ pc[w] \in Busy => rec[w] # NoOffset

CommitterType ==
  /\ pending \in Offsets \cup {NoOffset} /\ flushing \in Offsets \cup {NoOffset}
  /\ uncommitted \in Nat /\ flushCount \in Nat /\ backpressured \in BOOLEAN
  /\ ppc \in [Procs -> {"idle", "cancel", "deactivate", "wait", "finish", "done"}]
  /\ pworker \in [Procs -> 0 .. MaxAssignments] /\ pexpired \in [Procs -> BOOLEAN]

\* Types, and two facts the code relies on: no channel holds more than QueueSize
\* records (make(chan *kgo.Record, r.queueSize)), and a worker in processRecord
\* has a record.
TypeOK == RuntimeType /\ WorkerType /\ CommitterType

\* "only completed records are committed": whatever the group's committed offset
\* passes has been handled to the end by some member, across crashes, revocations,
\* evictions and commits that fail or are applied late.
OnlyCompletedCommitted == \A o \in Offsets : o < committed => o \in settled

\* The strengthening that makes OnlyCompletedCommitted inductive.
Prefix(n) == \A o \in Offsets : o < n => o \in settled

\* Who may still be cancelled or deactivated, and what a new worker starts from.
LifecycleInv ==
  /\ closed => stopped
  /\ stopped => cur = 0
  /\ ppc["shutdown"] # "idle" => stopped
  /\ cur # 0 => active[cur] /\ ~ctxDone[cur] /\ pc[cur] \in Busy \cup Ready
  /\ \A p \in Procs : pworker[p] <= assignments /\ (pworker[p] # 0 => pworker[p] # cur)
  /\ \A w \in Workers : w > assignments => pc[w] = "none" /\ ~active[w] /\ records[w] = <<>>

\* A worker is in the runtime's map only while the partition is assigned, and
\* the overflow queue belongs to it.
HoldInv ==
  /\ cur = 0 => queued = <<>>
  /\ cur # 0 => ppc["revoke"] = "idle" /\ member \in {"in", "lost"}

\* Every offset on its way to the broker ends a settled prefix.
CommitSourcesInv ==
  /\ Prefix(committed) /\ Prefix(pending + 1) /\ Prefix(flushing + 1)
  /\ \A w \in Workers : Prefix(lastCompleted[w] + 1)

\* An active worker, in the runtime's map or not, has everything before its
\* record settled and the records that follow in its channel.
WorkerOK(w) ==
  /\ pc[w] \in {"returned", "marking"} => rec[w] \in settled
  /\ active[w] =>
       /\ \A i \in 1 .. Len(records[w]) : records[w][i] = records[w][1] + (i - 1)
       /\ pc[w] \in Busy => /\ Prefix(rec[w])
                            /\ records[w] # <<>> => records[w][1] = rec[w] + 1
       /\ pc[w] \in Ready /\ records[w] # <<>> => Prefix(records[w][1])
WorkerInv == \A w \in Workers : WorkerOK(w)

\* What the current worker, the overflow queue and the poll hold is one run of
\* offsets that ends at the fetch position.
StreamStart == fetchPos - Len(polled) - Len(queued) - Len(records[cur])
StreamInv ==
  cur # 0 =>
    /\ \A i \in 1 .. Len(records[cur]) : records[cur][i] = StreamStart + (i - 1)
    /\ \A i \in 1 .. Len(queued) : queued[i] = StreamStart + Len(records[cur]) + (i - 1)
    /\ \A i \in 1 .. Len(polled) :
         polled[i] = StreamStart + Len(records[cur]) + Len(queued) + (i - 1)
    /\ pc[cur] \in Busy => rec[cur] = StreamStart - 1
    /\ pc[cur] \in Ready => Prefix(StreamStart)

\* The inductive invariant behind OnlyCompletedCommitted.
CommitInv == LifecycleInv /\ HoldInv /\ CommitSourcesInv /\ WorkerInv /\ StreamInv

\* The committed offset never moves backwards: a commit left over from an earlier
\* assignment (commitRevoked and dropPartitions clear them) never lands after
\* another member's.  A process that is shutting down is the exception: its
\* workers are out of the runtime's map, so a revocation neither waits for them
\* nor takes their watermark, which stopWithContext commits afterwards.
CommittedNeverRegresses == [][committed' >= committed \/ stopped]_vars

\* A worker handles its partition's records in offset order without a gap,
\* through the channel and the overflow queue of enqueue and afterProcessed.
SerialInOrder ==
  [][\A w \in Workers :
       pc[w] = "idle" /\ pc'[w] = "handling" /\ rec[w] # NoOffset => rec'[w] = rec[w] + 1]_vars

\* A pause "does not override an independent queue or retry pause": the client's
\* fetch of an assigned partition is paused exactly while some reason stands, and
\* the commit reason stands exactly while the committer counts the partition as
\* backpressured, across a reassignment too (the comment in mark: "a fast commit
\* must not release the partition before the pause is applied").  The overflow
\* queue, which has no limit of its own, is thereby bounded by one poll and the
\* client's buffer: enqueue pauses the fetch before it queues and afterProcessed
\* resumes it only when nothing is queued.
PausesHold ==
  /\ cur # 0 => /\ paused <=> pauseReasons # {}
                /\ "commit" \in pauseReasons <=> backpressured
  /\ Len(queued) + Len(polled) + (fetched - fetchPos) <= MaxPoll + MaxBuffered

\* A partition this member keeps is worked off: no pause, full queue or failed
\* commit leaves it stuck.
KeptPartitionDrains ==
  <>[](cur # 0 /\ member = "in") => <>(committed = Records)
============================================================================
