--------------------------- MODULE SharedStateProofs ----------------------------
(***************************************************************************)
(* State that many share under a bound or a revision: the quota and the    *)
(* rows of uploads, the visibility cache that all sessions of a node use,  *)
(* the slots of the Gateway's sockets and the entries of the keyed         *)
(* limiter.  Each is proved by itself, for every number of users and every *)
(* bound.                                                                  *)
(***************************************************************************)
EXTENDS GuildVisibility, GatewayDrain, KeyedLimiter, Uploads, FiniteSetTheorems, TLAPS

-----------------------------------------------------------------------------
(***************************************************************************)
(* Uploads.  While a task's connection lives it holds its upload's lock,   *)
(* so the status it read is the row's (HoldsLocks, KnowsStatus), and what  *)
(* it writes was decided from that status (WriteIsDecided); a task without *)
(* its connection writes nothing.  An upload being created has no other    *)
(* task (CreatorsAreAlone), and there is room for it under the quota while *)
(* its lock is held (QuotaIsKept).                                         *)
(***************************************************************************)

(* Steps of a task before its upload has a row, and those it makes under the *)
(* upload's lock.                                                            *)
CreateSteps == {"quota", "count", "insert"}
SeenSteps == {"complete", "abort", "cleanup"}
HeldSteps == SeenSteps \cup {"process", "write"}

(* What a task may rely on, t being its record: while its connection lives   *)
(* it holds the lock its step needs, so that the status it has read is the   *)
(* row's; what it is about to write was decided from that status; and what   *)
(* it removes is not served.                                                 *)
HoldsLocks(p, t) ==
  p \in connected =>
    /\ t.step \in HeldSteps => assetLock[t.asset] = {p}
    /\ t.step \in {"count", "insert"} => quotaLock = {p}

KnowsStatus(p, t) ==
  p \in connected =>
    /\ t.step \in SeenSteps => t.seen = status[t.asset]
    /\ t.step \in {"process", "write"} => status[t.asset] \notin Ended

WriteIsDecided(p, t) ==
  /\ t.step = "process" => t.asset \in Images
  /\ t.step = "write" =>
       /\ t.status \notin {"absent", "created"}
       /\ t.next = "remove" => t.status \in Ended
       /\ t.status = "ready" /\ t.asset \in Images => t.asset \in publishedImages
       /\ t.status = "ready" /\ t.asset \notin Images => t.next # "remove"
       /\ t.status = "ready" /\ t.asset \notin Images /\ p \in connected =>
            object[t.asset] # "none"
  /\ t.step = "remove" =>
       status[t.asset] \in Ended /\ (t.asset \in Images \/ status[t.asset] # "ready")

TaskFits(p, t) == HoldsLocks(p, t) /\ KnowsStatus(p, t) /\ WriteIsDecided(p, t)

TasksFit == \A p \in Tasks : TaskFits(p, task[p])

(* An upload that is being created has no row and no other task.             *)
CreatorsAreAlone ==
  \A p \in Tasks : task[p].step \in CreateSteps =>
    /\ status[task[p].asset] = "absent"
    /\ \A q \in Tasks \ {p} : task[q] # Free => task[q].asset # task[p].asset

(* The quota, with room for the upload that the holder of its lock inserts.  *)
QuotaIsKept ==
  /\ IsFiniteSet(Active) /\ Cardinality(Active) <= MaxActiveUploads
  /\ \A p \in connected \cap Tasks :
       task[p].step = "insert" => Cardinality(Active) < MaxActiveUploads

(* A ready asset has the object it is served from.                           *)
ReadyIsServed ==
  \A a \in Assets : status[a] = "ready" =>
    IF a \in Images THEN a \in publishedImages ELSE object[a] # "none"

(* What the consistency of uploads rests on.                                 *)
UploadInv ==
  UploadTypeOK /\ TasksFit /\ CreatorsAreAlone /\ QuotaIsKept /\ ReadyIsServed

(* Steps that need no more than the task's upload.                           *)
PlainSteps == {"quota", "count", "insert", "lock complete", "lock abort", "lock cleanup",
               "process", "remove"}

(* The records of tasks, read and built.                                     *)
LEMMA TaskFields ==
  ASSUME NEW t \in TaskStates
  PROVE  /\ t.asset \in Assets /\ t.step \in PlainSteps \cup HeldSteps /\ t # Free
         /\ t.step \in SeenSteps => t.seen \in Statuses
         /\ t.step = "write" => t.status \in Statuses /\ t.next \in {"complete", "remove", "free"}
<1>1. t.asset \in Assets
  BY Zenon DEF TaskStates
<1>2. t.step \in PlainSteps \cup HeldSteps
  BY Zenon DEF TaskStates, PlainSteps, HeldSteps, SeenSteps
<1>3. t # Free
  <2>1. t.step # "free" /\ Free.step = "free"
    BY <1>2, Zenon DEF Free, PlainSteps, HeldSteps, SeenSteps
  <2> QED  BY <2>1, Zenon
<1>4. t.step \in SeenSteps => t.seen \in Statuses
  BY Zenon DEF TaskStates, SeenSteps
<1>5. t.step = "write" => t.status \in Statuses /\ t.next \in {"complete", "remove", "free"}
  BY Zenon DEF TaskStates
<1> QED  BY <1>1, <1>2, <1>3, <1>4, <1>5, Zenon

(* The same, of the task p.                                                  *)
LEMMA TaskTypes ==
  ASSUME UploadTypeOK, NEW p \in Tasks
  PROVE  /\ task[p] # Free => task[p].asset \in Assets
         /\ task[p] # Free <=> task[p].step # "free"
         /\ task[p].step \in PlainSteps \cup HeldSteps \cup {"free"}
         /\ task[p].step \in SeenSteps => task[p].seen \in Statuses
         /\ task[p].step = "write" =>
              task[p].status \in Statuses /\ task[p].next \in {"complete", "remove", "free"}
<1>1. task[p] \in TaskStates \/ task[p] = Free
  BY Zenon DEF UploadTypeOK
<1>2. Free.step = "free"
  BY Zenon DEF Free
<1>3. CASE task[p] = Free
  BY <1>2, <1>3, Zenon DEF SeenSteps
<1>4. CASE task[p] \in TaskStates
  BY <1>4, TaskFields, Zenon DEF PlainSteps, HeldSteps, SeenSteps
<1> QED  BY <1>1, <1>3, <1>4, Zenon

(* What a task's next record may be.                                         *)
LEMMA TaskShapes ==
  ASSUME NEW a \in Assets
  PROVE  /\ \A s \in PlainSteps : [step |-> s, asset |-> a] \in TaskStates
         /\ \A s \in SeenSteps, x \in Statuses :
              [step |-> s, asset |-> a, seen |-> x] \in TaskStates
         /\ \A x \in Statuses, n \in {"complete", "remove", "free"} :
              [step |-> "write", asset |-> a, status |-> x, next |-> n] \in TaskStates
<1>1. ASSUME NEW s \in PlainSteps  PROVE [step |-> s, asset |-> a] \in TaskStates
  BY Zenon DEF TaskStates, PlainSteps
<1>2. ASSUME NEW s \in SeenSteps, NEW x \in Statuses
      PROVE  [step |-> s, asset |-> a, seen |-> x] \in TaskStates
  BY Zenon DEF TaskStates, SeenSteps
<1>3. ASSUME NEW x \in Statuses, NEW n \in {"complete", "remove", "free"}
      PROVE  [step |-> "write", asset |-> a, status |-> x, next |-> n] \in TaskStates
  BY Zenon DEF TaskStates
<1> QED  BY <1>1, <1>2, <1>3, Zenon

(* A step of task p leaves the other tasks, their connections and their      *)
(* locks alone.                                                              *)
OthersKeep(p) ==
  \A q \in Tasks \ {p} :
    /\ task'[q] = task[q] /\ (q \in connected' <=> q \in connected)
    /\ \A a \in Assets : assetLock[a] = {q} => assetLock'[a] = {q}
    /\ quotaLock = {q} => quotaLock' = {q}

(* A task that returns gives its locks back, and no other's.                 *)
LEMMA EndTaskSteps ==
  ASSUME UploadTypeOK, NEW p \in Tasks, EndTask(p)
  PROVE  /\ OthersKeep(p) /\ task'[p] = Free
         /\ task' \in [Tasks -> TaskStates \union {Free}]
         /\ assetLock' \in [Assets -> SUBSET Tasks] /\ quotaLock' \in SUBSET Tasks
         /\ connected' \in SUBSET Tasks
<1>1. /\ task \in [Tasks -> TaskStates \union {Free}]
      /\ assetLock \in [Assets -> SUBSET Tasks] /\ quotaLock \in SUBSET Tasks
      /\ connected \in SUBSET Tasks
  BY Zenon DEF UploadTypeOK
<1>2. task' = [task EXCEPT ![p] = Free]
  BY Zenon DEF EndTask
<1>3. /\ assetLock' = [a \in Assets |-> assetLock[a] \ {p}]
      /\ quotaLock' = quotaLock \ {p} /\ connected' = connected \union {p}
  BY Zenon DEF EndTask
<1>4. task'[p] = Free /\ task' \in [Tasks -> TaskStates \union {Free}]
  BY <1>1, <1>2, Zenon
<1>5. ASSUME NEW q \in Tasks \ {p}
      PROVE  /\ task'[q] = task[q] /\ (q \in connected' <=> q \in connected)
             /\ \A a \in Assets : assetLock[a] = {q} => assetLock'[a] = {q}
             /\ quotaLock = {q} => quotaLock' = {q}
  BY <1>1, <1>2, <1>3, Zenon
<1>6. /\ assetLock' \in [Assets -> SUBSET Tasks] /\ quotaLock' \in SUBSET Tasks
      /\ connected' \in SUBSET Tasks
  BY <1>1, <1>3, Zenon
<1> QED  BY <1>4, <1>5, <1>6, Zenon DEF OthersKeep

(* A task that moves on keeps everybody's locks.                             *)
LEMMA TaskMoves ==
  ASSUME UploadTypeOK, NEW p \in Tasks, NEW t \in TaskStates,
         task' = [task EXCEPT ![p] = t], UNCHANGED <<assetLock, quotaLock, connected>>
  PROVE  /\ OthersKeep(p) /\ task'[p] = t
         /\ task' \in [Tasks -> TaskStates \union {Free}]
         /\ assetLock' \in [Assets -> SUBSET Tasks] /\ quotaLock' \in SUBSET Tasks
         /\ connected' \in SUBSET Tasks
<1>1. task \in [Tasks -> TaskStates \union {Free}]
  BY Zenon DEF UploadTypeOK
<1>2. task'[p] = t /\ task' \in [Tasks -> TaskStates \union {Free}]
  BY <1>1, Zenon
<1>3. \A q \in Tasks \ {p} : task'[q] = task[q]
  BY <1>1, Zenon
<1> QED  BY <1>2, <1>3, Zenon DEF OthersKeep, UploadTypeOK

(* What completeLocked does next, one line for each of its exits.            *)
LEMMA CompleteExits ==
  ASSUME NEW p \in Tasks, Complete(p)
  PROVE  \/ EndTask(p)
         \/ /\ task[p].seen \notin Ended /\ UNCHANGED <<assetLock, quotaLock, connected>>
            /\ \/ ToWrite(p, "expired", "remove") \/ ToWrite(p, "failed", "remove")
               \/ ToWrite(p, "completing", "complete")
               \/ task[p].asset \in Images /\ MoveTo(p, "process")
               \/ /\ task[p].asset \notin Images /\ object[task[p].asset] # "none"
                  /\ ToWrite(p, "ready", "free")
<1>1. "created" \notin Ended
  BY Zenon DEF Ended
<1> QED  BY <1>1, Zenon DEF Complete

(* A write is followed by another record of the task, or by its end.         *)
LEMMA AfterWriteExits ==
  ASSUME UploadTypeOK, NEW p \in Tasks, On(p, "write"), AfterWrite(p)
  PROVE  \/ EndTask(p)
         \/ \E t \in TaskStates :
              /\ task' = [task EXCEPT ![p] = t] /\ UNCHANGED <<assetLock, quotaLock, connected>>
              /\ t.asset = task[p].asset
              /\ \/ t.step = "complete" /\ t.seen = task[p].status
                 \/ t.step = "remove" /\ task[p].next = "remove"
<1> SUFFICES ASSUME ~EndTask(p)
             PROVE  \E t \in TaskStates :
                      /\ task' = [task EXCEPT ![p] = t]
                      /\ UNCHANGED <<assetLock, quotaLock, connected>>
                      /\ t.asset = task[p].asset
                      /\ \/ t.step = "complete" /\ t.seen = task[p].status
                         \/ t.step = "remove" /\ task[p].next = "remove"
  OBVIOUS
<1>1. /\ task[p].asset \in Assets /\ task[p].status \in Statuses
      /\ task[p].next \in {"complete", "remove", "free"}
  BY TaskTypes, Zenon DEF On
<1>2. UNCHANGED <<assetLock, quotaLock, connected>> /\ task[p].next # "free"
  BY Zenon DEF AfterWrite
<1>3. CASE task[p].next = "complete"
  <2> DEFINE t == [step |-> "complete", asset |-> task[p].asset, seen |-> task[p].status]
  <2>1. task' = [task EXCEPT ![p] = t]
    BY <1>3, Zenon DEF AfterWrite, UploadTypeOK
  <2>2. t \in TaskStates
    BY <1>1, TaskShapes, Zenon DEF SeenSteps
  <2>3. t.asset = task[p].asset /\ t.step = "complete" /\ t.seen = task[p].status
    OBVIOUS
  <2> HIDE DEF t
  <2> QED  BY <1>2, <2>1, <2>2, <2>3, Zenon
<1>4. CASE task[p].next = "remove"
  <2> DEFINE t == [step |-> "remove", asset |-> task[p].asset]
  <2>1. task' = [task EXCEPT ![p] = t]
    BY <1>4, Zenon DEF AfterWrite, MoveTo, UploadTypeOK
  <2>2. t \in TaskStates
    BY <1>1, TaskShapes, Zenon DEF PlainSteps
  <2>3. t.asset = task[p].asset /\ t.step = "remove"
    OBVIOUS
  <2> HIDE DEF t
  <2> QED  BY <1>2, <1>4, <2>1, <2>2, <2>3, Zenon
<1> QED  BY <1>1, <1>2, <1>3, <1>4, Zenon

(* The records that the steps of a task write.                               *)
LEMMA TaskWrites ==
  ASSUME UploadTypeOK, NEW p \in Tasks, task[p] # Free
  PROVE  /\ \A s \in PlainSteps : MoveTo(p, s) =>
              /\ task' = [task EXCEPT ![p] = [step |-> s, asset |-> task[p].asset]]
              /\ [step |-> s, asset |-> task[p].asset] \in TaskStates
         /\ \A s \in SeenSteps : ReadAsset(p, s) =>
              /\ task' = [task EXCEPT ![p] = [step |-> s, asset |-> task[p].asset,
                                              seen |-> status[task[p].asset]]]
              /\ [step |-> s, asset |-> task[p].asset, seen |-> status[task[p].asset]]
                   \in TaskStates
         /\ \A x \in Statuses, n \in {"complete", "remove", "free"} : ToWrite(p, x, n) =>
              /\ task' = [task EXCEPT ![p] = [step |-> "write", asset |-> task[p].asset,
                                              status |-> x, next |-> n]]
              /\ [step |-> "write", asset |-> task[p].asset, status |-> x, next |-> n]
                   \in TaskStates
<1>1. task[p].asset \in Assets
  BY TaskTypes, Zenon
<1>2. status[task[p].asset] \in Statuses
  BY <1>1, Zenon DEF UploadTypeOK
<1>3. ASSUME NEW s \in PlainSteps, MoveTo(p, s)
      PROVE  /\ task' = [task EXCEPT ![p] = [step |-> s, asset |-> task[p].asset]]
             /\ [step |-> s, asset |-> task[p].asset] \in TaskStates
  BY <1>1, <1>3, TaskShapes, Zenon DEF MoveTo
<1>4. ASSUME NEW s \in SeenSteps, ReadAsset(p, s)
      PROVE  /\ task' = [task EXCEPT ![p] = [step |-> s, asset |-> task[p].asset,
                                             seen |-> status[task[p].asset]]]
             /\ [step |-> s, asset |-> task[p].asset, seen |-> status[task[p].asset]]
                  \in TaskStates
  BY <1>1, <1>2, <1>4, TaskShapes, Zenon DEF ReadAsset
<1>5. ASSUME NEW x \in Statuses, NEW n \in {"complete", "remove", "free"}, ToWrite(p, x, n)
      PROVE  /\ task' = [task EXCEPT ![p] = [step |-> "write", asset |-> task[p].asset,
                                             status |-> x, next |-> n]]
             /\ [step |-> "write", asset |-> task[p].asset, status |-> x, next |-> n]
                  \in TaskStates
  BY <1>1, <1>5, TaskShapes, Zenon DEF ToWrite
<1> QED  BY <1>3, <1>4, <1>5, Zenon

(* The steps of one task.                                                    *)
TaskStep(p) ==
  \/ \E a \in Assets : CreateUpload(p, a) \/ BeginEnding(p, a)
  \/ LockUploadQuota(p) \/ CountActiveUploads(p) \/ CreateAsset(p)
  \/ AcquireAssetLock(p) \/ Complete(p) \/ ProcessImage(p) \/ AbortUpload(p)
  \/ CleanupExpired(p) \/ UpdateAsset(p) \/ DeleteUploadObject(p)
  \/ ConnectionLost(p) \/ TaskFails(p)

(* A task's step keeps the types, and the other tasks.                       *)
LEMMA TaskStepTypes ==
  ASSUME UploadTypeOK, TasksFit, NEW p \in Tasks, TaskStep(p)
  PROVE  UploadTypeOK' /\ OthersKeep(p)
<1> DEFINE Goal == UploadTypeOK' /\ OthersKeep(p)
           Tables == /\ status' \in [Assets -> Statuses]
                     /\ object' \in [Assets -> {"none", "good", "bad"}]
                     /\ publishedImages' \in SUBSET Images /\ overdue' \in SUBSET Assets
<1>t. /\ status \in [Assets -> Statuses]
      /\ object \in [Assets -> {"none", "good", "bad"}]
      /\ publishedImages \in SUBSET Images /\ overdue \in SUBSET Assets
      /\ task \in [Tasks -> TaskStates \union {Free}]
      /\ assetLock \in [Assets -> SUBSET Tasks] /\ quotaLock \in SUBSET Tasks
      /\ connected \in SUBSET Tasks
  BY Zenon DEF UploadTypeOK
<1>u. UNCHANGED <<status, object, publishedImages, overdue>> => Tables
  BY <1>t, Zenon
<1>e. ASSUME EndTask(p), Tables  PROVE Goal
  BY <1>e, EndTaskSteps, Zenon DEF UploadTypeOK
<1>m. ASSUME NEW t \in TaskStates, task' = [task EXCEPT ![p] = t],
             UNCHANGED <<assetLock, quotaLock, connected>>, Tables
      PROVE  Goal
  <2>1. t \in TaskStates
    BY <1>m, Zenon
  <2>2. /\ OthersKeep(p) /\ task' \in [Tasks -> TaskStates \union {Free}]
        /\ assetLock' \in [Assets -> SUBSET Tasks] /\ quotaLock' \in SUBSET Tasks
        /\ connected' \in SUBSET Tasks
    BY <1>m, TaskMoves, Zenon
  <2> QED  BY <1>m, <2>2, Zenon DEF UploadTypeOK
<1>f. On(p, "free") <=> task[p] = Free
  BY TaskTypes, Zenon DEF On
<1>w. \A x \in {"expired", "failed", "completing", "ready", "aborted"} : x \in Statuses
  BY Zenon DEF Statuses, Ended
<1>x. ASSUME task[p] # Free, NEW x \in Statuses, NEW n \in {"complete", "remove", "free"},
             ToWrite(p, x, n)
      PROVE  \E t \in TaskStates : task' = [task EXCEPT ![p] = t]
  <2> DEFINE r == [step |-> "write", asset |-> task[p].asset, status |-> x, next |-> n]
  <2>1. task' = [task EXCEPT ![p] = r] /\ r \in TaskStates
    BY <1>x, TaskWrites, Zenon
  <2> HIDE DEF r
  <2> QED  BY <2>1, Zenon
<1> HIDE DEF Tables
<1>1. ASSUME NEW a \in Assets, CreateUpload(p, a) \/ BeginEnding(p, a)  PROVE Goal
  <2>1. PICK s \in PlainSteps : /\ task' = [task EXCEPT ![p] = [step |-> s, asset |-> a]]
                                /\ UNCHANGED <<assetLock, quotaLock, connected>>
    BY <1>1, Zenon DEF CreateUpload, BeginEnding, PlainSteps
  <2>2. [step |-> s, asset |-> a] \in TaskStates
    BY TaskShapes, Zenon
  <2>3. UNCHANGED <<status, object, publishedImages, overdue>>
    BY <1>1, Zenon DEF CreateUpload, BeginEnding
  <2> QED  BY <2>1, <2>2, <2>3, <1>m, <1>u, Zenon
<1>2. ASSUME LockUploadQuota(p)  PROVE Goal
  <2>1. task[p] # Free
    BY <1>2, TaskTypes, Zenon DEF LockUploadQuota, On
  <2>2. /\ task' = [task EXCEPT ![p] = [step |-> "count", asset |-> task[p].asset]]
        /\ [step |-> "count", asset |-> task[p].asset] \in TaskStates
    BY <1>2, <2>1, TaskWrites, Zenon DEF LockUploadQuota, PlainSteps
  <2>3. /\ quotaLock = {} /\ quotaLock' = {p}
        /\ UNCHANGED <<status, object, publishedImages, overdue, assetLock, connected>>
    BY <1>2, Zenon DEF LockUploadQuota
  <2>4. task' \in [Tasks -> TaskStates \union {Free}] /\ \A q \in Tasks \ {p} : task'[q] = task[q]
    BY <2>2, <1>t, Zenon
  <2>5. OthersKeep(p)
    BY <2>3, <2>4, Zenon DEF OthersKeep
  <2>6. quotaLock' \in SUBSET Tasks
    BY <2>3, Zenon
  <2> QED  BY <2>3, <2>4, <2>5, <2>6, <1>t, Zenon DEF UploadTypeOK
<1>3. ASSUME CountActiveUploads(p)  PROVE Goal
  <2>1. task[p] # Free /\ UNCHANGED <<status, object, publishedImages, overdue>>
    BY <1>3, TaskTypes, Zenon DEF CountActiveUploads, On
  <2>2. CASE EndTask(p)
    BY <2>1, <2>2, <1>e, <1>u, Zenon
  <2>3. CASE MoveTo(p, "insert") /\ UNCHANGED <<assetLock, quotaLock, connected>>
    <3>1. /\ task' = [task EXCEPT ![p] = [step |-> "insert", asset |-> task[p].asset]]
          /\ [step |-> "insert", asset |-> task[p].asset] \in TaskStates
      BY <2>1, <2>3, TaskWrites, Zenon DEF PlainSteps
    <3> QED  BY <3>1, <2>1, <2>3, <1>m, <1>u, Zenon
  <2> QED  BY <1>3, <2>2, <2>3, Zenon DEF CountActiveUploads
<1>4. ASSUME CreateAsset(p)  PROVE Goal
  <2>1. /\ task[p].asset \in Assets /\ EndTask(p)
        /\ status' = [status EXCEPT ![task[p].asset] = "created"]
        /\ UNCHANGED <<object, publishedImages, overdue>>
    BY <1>4, TaskTypes, Zenon DEF CreateAsset, On
  <2>2. Tables
    BY <2>1, <1>t, Zenon DEF Tables, Statuses
  <2> QED  BY <2>1, <2>2, <1>e, Zenon
<1>5. ASSUME AcquireAssetLock(p)  PROVE Goal
  <2>1. /\ task[p] # Free /\ task[p].asset \in Assets /\ assetLock[task[p].asset] = {}
        /\ assetLock' = [assetLock EXCEPT ![task[p].asset] = {p}]
        /\ UNCHANGED <<status, object, publishedImages, overdue, quotaLock, connected>>
    BY <1>5, TaskTypes, Zenon DEF AcquireAssetLock
  <2>2. PICK s \in SeenSteps : ReadAsset(p, s)
    BY <1>5, Zenon DEF AcquireAssetLock, SeenSteps
  <2>3. PICK t \in TaskStates : task' = [task EXCEPT ![p] = t]
    BY <2>1, <2>2, TaskWrites, Zenon
  <2>4. task' \in [Tasks -> TaskStates \union {Free}] /\ \A q \in Tasks \ {p} : task'[q] = task[q]
    BY <2>3, <1>t, Zenon
  <2>5. assetLock' \in [Assets -> SUBSET Tasks]
    BY <2>1, <1>t, Zenon
  <2>6. OthersKeep(p)
    BY <2>1, <2>4, <1>t, Zenon DEF OthersKeep
  <2> QED  BY <2>1, <2>4, <2>5, <2>6, <1>t, Zenon DEF UploadTypeOK
<1>6. ASSUME Complete(p)  PROVE Goal
  <2>1. task[p] # Free /\ UNCHANGED <<status, object, publishedImages, overdue>>
    BY <1>6, TaskTypes, Zenon DEF Complete, On
  <2>2. CASE EndTask(p)
    BY <2>1, <2>2, <1>e, <1>u, Zenon
  <2>3. CASE ~EndTask(p)
    <3>1. UNCHANGED <<assetLock, quotaLock, connected>>
      BY <1>6, <2>3, CompleteExits, Zenon
    <3>2. \/ MoveTo(p, "process")
          \/ \E x \in Statuses, n \in {"complete", "remove", "free"} : ToWrite(p, x, n)
      BY <1>6, <2>3, <1>w, CompleteExits, Zenon
    <3>3. \E t \in TaskStates : task' = [task EXCEPT ![p] = t]
      <4>1. CASE MoveTo(p, "process")
        BY <2>1, <4>1, TaskWrites, Zenon DEF PlainSteps
      <4>2. ASSUME NEW x \in Statuses, NEW n \in {"complete", "remove", "free"}, ToWrite(p, x, n)
            PROVE  \E t \in TaskStates : task' = [task EXCEPT ![p] = t]
        BY <2>1, <4>2, <1>x, Zenon
      <4> QED  BY <3>2, <4>1, <4>2, Zenon
    <3> QED  BY <2>1, <3>1, <3>3, <1>m, <1>u, Zenon
  <2> QED  BY <2>2, <2>3, Zenon
<1>7. ASSUME ProcessImage(p)  PROVE Goal
  <2>1. /\ task[p] # Free /\ UNCHANGED <<assetLock, quotaLock, connected>>
        /\ UNCHANGED <<status, object, overdue>>
    BY <1>7, TaskTypes, Zenon DEF ProcessImage, On
  <2>2. \E x \in Statuses : ToWrite(p, x, "remove")
    BY <1>7, <1>w, Zenon DEF ProcessImage
  <2>3. \E t \in TaskStates : task' = [task EXCEPT ![p] = t]
    BY <2>1, <2>2, <1>x, Zenon
  <2>4. publishedImages' \in SUBSET Images
    <3>1. On(p, "process") /\ task[p].asset \in Images
      BY <1>7, Zenon DEF ProcessImage, TasksFit, TaskFits, WriteIsDecided, On
    <3> QED  BY <1>7, <3>1, <1>t, Zenon DEF ProcessImage
  <2>5. Tables
    BY <2>1, <2>4, <1>t, Zenon DEF Tables
  <2> QED  BY <2>1, <2>3, <2>5, <1>m, Zenon
<1>8. ASSUME AbortUpload(p) \/ CleanupExpired(p)  PROVE Goal
  <2>1. task[p] # Free /\ UNCHANGED <<status, object, publishedImages, overdue>>
    BY <1>8, TaskTypes, Zenon DEF AbortUpload, CleanupExpired, On
  <2>2. CASE EndTask(p)
    BY <2>1, <2>2, <1>e, <1>u, Zenon
  <2>3. CASE ~EndTask(p)
    <3>1. UNCHANGED <<assetLock, quotaLock, connected>>
      BY <1>8, <2>3, Zenon DEF AbortUpload, CleanupExpired
    <3>2. \E x \in Statuses : ToWrite(p, x, "remove")
      BY <1>8, <2>3, <1>w, Zenon DEF AbortUpload, CleanupExpired
    <3>3. \E t \in TaskStates : task' = [task EXCEPT ![p] = t]
      BY <2>1, <3>2, <1>x, Zenon
    <3> QED  BY <2>1, <3>1, <3>3, <1>m, <1>u, Zenon
  <2> QED  BY <2>2, <2>3, Zenon
<1>9. ASSUME UpdateAsset(p)  PROVE Goal
  <2>1. /\ task[p].asset \in Assets /\ task[p].status \in Statuses
        /\ On(p, "write") /\ AfterWrite(p)
        /\ status' = [status EXCEPT ![task[p].asset] = task[p].status]
        /\ UNCHANGED <<object, publishedImages, overdue>>
    BY <1>9, TaskTypes, Zenon DEF UpdateAsset, On
  <2>2. Tables
    BY <2>1, <1>t, Zenon DEF Tables
  <2>3. CASE EndTask(p)
    BY <2>2, <2>3, <1>e, Zenon
  <2>4. CASE ~EndTask(p)
    <3>1. \E t \in TaskStates : /\ task' = [task EXCEPT ![p] = t]
                               /\ UNCHANGED <<assetLock, quotaLock, connected>>
      BY <2>1, <2>4, AfterWriteExits, Zenon
    <3> QED  BY <2>2, <3>1, <1>m, Zenon
  <2> QED  BY <2>3, <2>4, Zenon
<1>10. ASSUME DeleteUploadObject(p)  PROVE Goal
  <2>1. /\ task[p].asset \in Assets /\ EndTask(p)
        /\ object' = [object EXCEPT ![task[p].asset] = "none"] \/ UNCHANGED object
        /\ UNCHANGED <<status, publishedImages, overdue>>
    BY <1>10, TaskTypes, Zenon DEF DeleteUploadObject, On
  <2>2. Tables
    BY <2>1, <1>t, Zenon DEF Tables
  <2> QED  BY <2>1, <2>2, <1>e, Zenon
<1>11. ASSUME ConnectionLost(p)  PROVE Goal
  <2>1. /\ connected' = connected \ {p} /\ quotaLock' = quotaLock \ {p}
        /\ assetLock' = [a \in Assets |-> assetLock[a] \ {p}]
        /\ UNCHANGED <<status, object, publishedImages, overdue, task>>
    BY <1>11, Zenon DEF ConnectionLost
  <2>2. OthersKeep(p)
    BY <2>1, <1>t, Zenon DEF OthersKeep
  <2>3. assetLock' \in [Assets -> SUBSET Tasks]
    BY <2>1, <1>t, Zenon
  <2> QED  BY <2>1, <2>2, <2>3, <1>t, Zenon DEF UploadTypeOK
<1>12. ASSUME TaskFails(p)  PROVE Goal
  BY <1>12, <1>e, <1>u, Zenon DEF TaskFails
<1> QED
  BY <1>1, <1>2, <1>3, <1>4, <1>5, <1>6, <1>7, <1>8, <1>9, <1>10, <1>11, <1>12, Zenon DEF TaskStep

(* What a task's step does to the rows and the objects.                      *)
LEMMA RowChanges ==
  ASSUME UploadTypeOK, NEW p \in Tasks, TaskStep(p)
  PROVE  /\ publishedImages \subseteq publishedImages'
         /\ \A a \in Assets :
              \/ status'[a] = status[a]
              \/ a = task[p].asset /\ (CreateAsset(p) \/ UpdateAsset(p))
         /\ \A a \in Assets :
              object'[a] = object[a] \/ (a = task[p].asset /\ DeleteUploadObject(p))
<1>t. status \in [Assets -> Statuses] /\ object \in [Assets -> {"none", "good", "bad"}]
  BY Zenon DEF UploadTypeOK
<1>1. CASE CreateAsset(p) \/ UpdateAsset(p)
  BY <1>1, <1>t, Zenon DEF CreateAsset, UpdateAsset
<1>2. CASE DeleteUploadObject(p)
  BY <1>2, <1>t, Zenon DEF DeleteUploadObject
<1>3. CASE ProcessImage(p)
  BY <1>3, Zenon DEF ProcessImage
<1>4. CASE ~(CreateAsset(p) \/ UpdateAsset(p) \/ DeleteUploadObject(p) \/ ProcessImage(p))
  <2>1. UNCHANGED <<status, object, publishedImages>>
    BY <1>4, Zenon DEF TaskStep, CreateUpload, BeginEnding, LockUploadQuota, CountActiveUploads,
                AcquireAssetLock, Complete, AbortUpload, CleanupExpired, ConnectionLost, TaskFails
  <2> QED  BY <2>1, Zenon
<1> QED  BY <1>1, <1>2, <1>3, <1>4, Zenon

(* A row is created once and written by the task that holds its lock: what   *)
(* ended stays as it ended (CreateAssetWithQuota, UpdateAsset).              *)
LEMMA WritersHold ==
  ASSUME UploadInv, NEW p \in Tasks
  PROVE  /\ CreateAsset(p) =>
              /\ task[p].asset \in Assets /\ status[task[p].asset] = "absent"
              /\ quotaLock = {p} /\ p \in connected /\ task[p].step = "insert"
              /\ \A q \in Tasks \ {p} : task[q] # Free => task[q].asset # task[p].asset
         /\ UpdateAsset(p) =>
              /\ task[p].asset \in Assets /\ status[task[p].asset] \notin Ended
              /\ assetLock[task[p].asset] = {p} /\ p \in connected /\ task[p].step = "write"
         /\ DeleteUploadObject(p) =>
              /\ task[p].asset \in Assets /\ status[task[p].asset] \in Ended
              /\ task[p].asset \in Images \/ status[task[p].asset] # "ready"
<1>i. /\ UploadTypeOK /\ CreatorsAreAlone
      /\ HoldsLocks(p, task[p]) /\ KnowsStatus(p, task[p]) /\ WriteIsDecided(p, task[p])
  BY Zenon DEF UploadInv, TasksFit, TaskFits
<1>1. ASSUME CreateAsset(p)
      PROVE  /\ task[p].asset \in Assets /\ status[task[p].asset] = "absent"
             /\ quotaLock = {p} /\ p \in connected /\ task[p].step = "insert"
             /\ \A q \in Tasks \ {p} : task[q] # Free => task[q].asset # task[p].asset
  <2>1. task[p].step = "insert" /\ p \in connected
    BY <1>1, Zenon DEF CreateAsset, On
  <2>2. task[p].asset \in Assets
    BY <2>1, <1>i, TaskTypes, Zenon
  <2>3. quotaLock = {p}
    BY <2>1, <1>i, Zenon DEF HoldsLocks
  <2> QED  BY <2>1, <2>2, <2>3, <1>i, Zenon DEF CreatorsAreAlone, CreateSteps
<1>2. ASSUME UpdateAsset(p)
      PROVE  /\ task[p].asset \in Assets /\ status[task[p].asset] \notin Ended
             /\ assetLock[task[p].asset] = {p} /\ p \in connected /\ task[p].step = "write"
  <2>1. task[p].step = "write" /\ p \in connected
    BY <1>2, Zenon DEF UpdateAsset, On
  <2>2. task[p].asset \in Assets
    BY <2>1, <1>i, TaskTypes, Zenon
  <2>3. assetLock[task[p].asset] = {p} /\ status[task[p].asset] \notin Ended
    BY <2>1, <1>i, Zenon DEF HoldsLocks, KnowsStatus, HeldSteps
  <2> QED  BY <2>1, <2>2, <2>3, Zenon
<1>3. ASSUME DeleteUploadObject(p)
      PROVE  /\ task[p].asset \in Assets /\ status[task[p].asset] \in Ended
             /\ task[p].asset \in Images \/ status[task[p].asset] # "ready"
  <2>1. task[p].step = "remove"
    BY <1>3, Zenon DEF DeleteUploadObject, On
  <2>2. task[p].asset \in Assets
    BY <2>1, <1>i, TaskTypes, Zenon
  <2> QED  BY <2>1, <2>2, <1>i, Zenon DEF WriteIsDecided
<1> QED  BY <1>1, <1>2, <1>3, Zenon

(* Nothing a task relies on is changed by another.                           *)
LEMMA OthersFit ==
  ASSUME UploadInv, NEW p \in Tasks, TaskStep(p), NEW q \in Tasks \ {p}
  PROVE  TaskFits(q, task[q])'
<1>i. /\ UploadTypeOK /\ TasksFit
      /\ HoldsLocks(q, task[q]) /\ KnowsStatus(q, task[q]) /\ WriteIsDecided(q, task[q])
  BY Zenon DEF UploadInv, TasksFit, TaskFits
<1>k. /\ task'[q] = task[q] /\ (q \in connected' <=> q \in connected)
      /\ \A a \in Assets : assetLock[a] = {q} => assetLock'[a] = {q}
      /\ quotaLock = {q} => quotaLock' = {q}
  BY <1>i, TaskStepTypes, Zenon DEF OthersKeep
<1>1. CASE task[q] = Free
  <2>1. task'[q].step = "free"
    BY <1>1, <1>k DEF Free
  <2> QED  BY <2>1, Zenon DEF TaskFits, HoldsLocks, KnowsStatus, WriteIsDecided, HeldSteps, SeenSteps
<1>2. CASE task[q] # Free
  <2>1. task[q].asset \in Assets
    BY <1>2, <1>i, TaskTypes, Zenon
  <2>2. HoldsLocks(q, task[q])'
    BY <2>1, <1>i, <1>k, Zenon DEF HoldsLocks
  <2>3. publishedImages \subseteq publishedImages'
    BY <1>i, RowChanges, Zenon
  <2>4. CASE status'[task[q].asset] = status[task[q].asset]
    <3>1. KnowsStatus(q, task[q])'
      BY <2>4, <1>i, <1>k, Zenon DEF KnowsStatus
    <3>2. CASE object'[task[q].asset] = object[task[q].asset]
      <4>1. WriteIsDecided(q, task[q])'
        BY <2>4, <3>2, <2>3, <1>i, <1>k, Zenon DEF WriteIsDecided
      <4> QED  BY <2>2, <3>1, <4>1, Zenon DEF TaskFits
    <3>3. CASE object'[task[q].asset] # object[task[q].asset]
      <4>1. status[task[q].asset] \in Ended
        BY <3>3, <2>1, <1>i, RowChanges, WritersHold, Zenon
      <4>2. ~(task[q].step = "write" /\ q \in connected)
        BY <4>1, <1>i, Zenon DEF KnowsStatus
      <4>3. WriteIsDecided(q, task[q])'
        BY <2>4, <4>2, <2>3, <1>i, <1>k, Zenon DEF WriteIsDecided
      <4> QED  BY <2>2, <3>1, <4>3, Zenon DEF TaskFits
    <3> QED  BY <3>2, <3>3, Zenon
  <2>5. CASE status'[task[q].asset] # status[task[q].asset]
    <3>1. task[q].asset = task[p].asset /\ (CreateAsset(p) \/ UpdateAsset(p))
      BY <2>1, <2>5, <1>i, RowChanges, ZenonT(30)
    <3>2. UpdateAsset(p)
      BY <3>1, <1>2, WritersHold, Zenon
    <3>3. status[task[q].asset] \notin Ended /\ assetLock[task[q].asset] = {p}
      BY <3>1, <3>2, WritersHold, Zenon
    <3>4. ~(task[q].step \in HeldSteps /\ q \in connected)
      BY <3>3, <1>i, Zenon DEF HoldsLocks
    <3>5. task[q].step # "remove"
      BY <3>3, <1>i, Zenon DEF WriteIsDecided
    <3>6. KnowsStatus(q, task[q])'
      BY <3>4, <1>k, Zenon DEF KnowsStatus, HeldSteps
    <3>7. object' = object
      BY <3>2, Zenon DEF UpdateAsset
    <3>8. WriteIsDecided(q, task[q])'
      BY <3>5, <3>7, <2>3, <1>i, <1>k, Zenon DEF WriteIsDecided
    <3> QED  BY <2>2, <3>6, <3>8, Zenon DEF TaskFits
  <2> QED  BY <2>4, <2>5, Zenon
<1> QED  BY <1>1, <1>2, Zenon

(* What a task's own step leaves it with is what it may rely on.             *)
LEMMA OwnFits ==
  ASSUME UploadInv, NEW p \in Tasks, TaskStep(p)
  PROVE  TaskFits(p, task[p])'
<1>i. /\ UploadTypeOK /\ task \in [Tasks -> TaskStates \union {Free}]
      /\ assetLock \in [Assets -> SUBSET Tasks] /\ status \in [Assets -> Statuses]
      /\ object \in [Assets -> {"none", "good", "bad"}]
      /\ HoldsLocks(p, task[p]) /\ KnowsStatus(p, task[p]) /\ WriteIsDecided(p, task[p])
  BY Zenon DEF UploadInv, TasksFit, TaskFits, UploadTypeOK
<1>f. ASSUME task'[p].step \in {"free", "quota", "lock complete", "lock abort", "lock cleanup"}
      PROVE  TaskFits(p, task[p])'
  BY <1>f, Zenon DEF TaskFits, HoldsLocks, KnowsStatus, WriteIsDecided, HeldSteps, SeenSteps
<1>e. ASSUME EndTask(p)  PROVE TaskFits(p, task[p])'
  <2>1. task'[p].step = "free"
    BY <1>e, <1>i, EndTaskSteps DEF Free
  <2> QED  BY <2>1, <1>f, Zenon
<1>w. ASSUME task[p] # Free, NEW x \in Statuses, NEW n \in {"complete", "remove", "free"},
             ToWrite(p, x, n)
      PROVE  /\ task'[p].step = "write" /\ task'[p].asset = task[p].asset
             /\ task'[p].status = x /\ task'[p].next = n
  <2>1. task' = [task EXCEPT ![p] = [step |-> "write", asset |-> task[p].asset,
                                     status |-> x, next |-> n]]
    BY <1>w, <1>i, TaskWrites, Zenon
  <2> QED  BY <2>1, <1>i, Zenon
<1>m. ASSUME task[p] # Free, NEW s \in PlainSteps, MoveTo(p, s)
      PROVE  task'[p].step = s /\ task'[p].asset = task[p].asset
  <2>1. task' = [task EXCEPT ![p] = [step |-> s, asset |-> task[p].asset]]
    BY <1>m, <1>i, TaskWrites, Zenon
  <2> QED  BY <2>1, <1>i, Zenon
(* A task decides, under its lock, what it will write.                       *)
<1>d. ASSUME task[p].step \in HeldSteps, UNCHANGED <<status, assetLock, quotaLock, connected>>,
             p \in connected => status[task[p].asset] \notin Ended,
             task'[p].asset = task[p].asset, task'[p].step \in {"write", "process"},
             WriteIsDecided(p, task[p])'
      PROVE  TaskFits(p, task[p])'
  <2>1. HoldsLocks(p, task[p])'
    BY <1>d, <1>i, Zenon DEF HoldsLocks, HeldSteps
  <2>2. KnowsStatus(p, task[p])'
    BY <1>d, Zenon DEF KnowsStatus, SeenSteps
  <2> QED  BY <1>d, <2>1, <2>2, Zenon DEF TaskFits
<1>s. /\ \A x \in {"expired", "failed", "completing", "ready", "aborted"} :
           x \in Statuses /\ x \notin {"absent", "created"}
      /\ \A x \in {"expired", "failed", "ready", "aborted"} : x \in Ended
  BY Zenon DEF Statuses, Ended
<1>1. ASSUME NEW a \in Assets, CreateUpload(p, a) \/ BeginEnding(p, a)
      PROVE  TaskFits(p, task[p])'
  <2>1. PICK s \in {"quota", "lock complete", "lock abort", "lock cleanup"} :
          task' = [task EXCEPT ![p] = [step |-> s, asset |-> a]]
    BY <1>1, Zenon DEF CreateUpload, BeginEnding
  <2>2. task'[p].step = s
    BY <2>1, <1>i, Zenon
  <2> QED  BY <2>2, <1>f, Zenon
<1>2. ASSUME LockUploadQuota(p)  PROVE TaskFits(p, task[p])'
  <2>1. task[p] # Free
    BY <1>2, <1>i, TaskTypes, Zenon DEF LockUploadQuota, On
  <2>2. task'[p].step = "count" /\ quotaLock' = {p}
    BY <1>2, <2>1, <1>m, Zenon DEF LockUploadQuota, PlainSteps
  <2> QED  BY <2>2, Zenon
           DEF TaskFits, HoldsLocks, KnowsStatus, WriteIsDecided, HeldSteps, SeenSteps
<1>3. ASSUME CountActiveUploads(p)  PROVE TaskFits(p, task[p])'
  <2>1. task[p] # Free /\ task[p].step = "count"
    BY <1>3, <1>i, TaskTypes, Zenon DEF CountActiveUploads, On
  <2>2. CASE ~EndTask(p)
    <3>1. task'[p].step = "insert" /\ UNCHANGED <<quotaLock, connected>>
      BY <1>3, <2>1, <2>2, <1>m, Zenon DEF CountActiveUploads, PlainSteps
    <3>2. p \in connected' => quotaLock' = {p}
      BY <2>1, <3>1, <1>i, Zenon DEF HoldsLocks
    <3> QED  BY <3>1, <3>2, Zenon DEF TaskFits, HoldsLocks, KnowsStatus, WriteIsDecided, HeldSteps,
                               SeenSteps
  <2> QED  BY <2>2, <1>e, Zenon
<1>4. CASE CreateAsset(p) \/ DeleteUploadObject(p) \/ TaskFails(p)
  BY <1>4, <1>e, Zenon DEF CreateAsset, DeleteUploadObject, TaskFails
<1>5. ASSUME AcquireAssetLock(p)  PROVE TaskFits(p, task[p])'
  <2>1. /\ task[p] # Free /\ task[p].asset \in Assets
        /\ assetLock' = [assetLock EXCEPT ![task[p].asset] = {p}]
        /\ UNCHANGED <<status, connected>>
    BY <1>5, <1>i, TaskTypes, Zenon DEF AcquireAssetLock
  <2>2. PICK s \in SeenSteps : ReadAsset(p, s)
    BY <1>5, Zenon DEF AcquireAssetLock, SeenSteps
  <2>3. task' = [task EXCEPT ![p] = [step |-> s, asset |-> task[p].asset,
                                     seen |-> status[task[p].asset]]]
    BY <2>1, <2>2, <1>i, TaskWrites, ZenonT(30)
  <2>4. /\ task'[p].step \in SeenSteps /\ task'[p].asset = task[p].asset
        /\ task'[p].seen = status[task[p].asset]
    BY <2>3, <1>i, Zenon
  <2>5. assetLock'[task[p].asset] = {p}
    BY <2>1, <1>i, Zenon
  <2>6. task'[p].step \notin {"count", "insert", "process", "write", "remove"}
    BY <2>4, Zenon DEF SeenSteps
  <2> QED  BY <2>1, <2>4, <2>5, <2>6, Zenon DEF TaskFits, HoldsLocks, KnowsStatus, WriteIsDecided
<1>6. ASSUME Complete(p)  PROVE TaskFits(p, task[p])'
  <2>1. /\ task[p] # Free /\ task[p].step = "complete"
        /\ UNCHANGED <<status, object, publishedImages>>
    BY <1>6, <1>i, TaskTypes, Zenon DEF Complete, On
  <2>2. CASE ~EndTask(p)
    <3>1. task[p].seen \notin Ended /\ UNCHANGED <<assetLock, quotaLock, connected>>
      BY <1>6, <2>2, CompleteExits, Zenon
    <3>2. p \in connected => status[task[p].asset] \notin Ended
      BY <2>1, <3>1, <1>i, Zenon DEF KnowsStatus, SeenSteps
    <3>3. /\ task'[p].asset = task[p].asset /\ task'[p].step \in {"write", "process"}
          /\ WriteIsDecided(p, task[p])'
      <4>1. CASE ToWrite(p, "expired", "remove") \/ ToWrite(p, "failed", "remove")
        <5>1. PICK x \in {"expired", "failed"} : ToWrite(p, x, "remove")
          BY <4>1, Zenon
        <5>2. /\ task'[p].step = "write" /\ task'[p].asset = task[p].asset
              /\ task'[p].status = x /\ task'[p].next = "remove"
          BY <5>1, <2>1, <1>w, <1>s, Zenon
        <5> QED  BY <5>2, <1>s, Zenon DEF WriteIsDecided
      <4>2. CASE ToWrite(p, "completing", "complete")
        <5>1. /\ task'[p].step = "write" /\ task'[p].asset = task[p].asset
              /\ task'[p].status = "completing" /\ task'[p].next = "complete"
          BY <4>2, <2>1, <1>w, <1>s, Zenon
        <5> QED  BY <5>1, Zenon DEF WriteIsDecided
      <4>3. CASE task[p].asset \in Images /\ MoveTo(p, "process")
        <5>1. task'[p].step = "process" /\ task'[p].asset = task[p].asset
          BY <4>3, <2>1, <1>m, Zenon DEF PlainSteps
        <5> QED  BY <4>3, <5>1, Zenon DEF WriteIsDecided
      <4>4. CASE /\ task[p].asset \notin Images /\ object[task[p].asset] # "none"
                 /\ ToWrite(p, "ready", "free")
        <5>1. /\ task'[p].step = "write" /\ task'[p].asset = task[p].asset
              /\ task'[p].status = "ready" /\ task'[p].next = "free"
          BY <4>4, <2>1, <1>w, <1>s, Zenon
        <5> QED  BY <4>4, <5>1, <2>1, Zenon DEF WriteIsDecided
      <4> QED  BY <1>6, <2>2, <4>1, <4>2, <4>3, <4>4, CompleteExits, Zenon
    <3> QED  BY <2>1, <3>1, <3>2, <3>3, <1>d, Zenon DEF HeldSteps, SeenSteps
  <2> QED  BY <2>2, <1>e, Zenon
<1>7. ASSUME ProcessImage(p)  PROVE TaskFits(p, task[p])'
  <2>1. /\ task[p] # Free /\ task[p].step = "process"
        /\ UNCHANGED <<status, assetLock, quotaLock, connected>>
    BY <1>7, <1>i, TaskTypes, Zenon DEF ProcessImage, On
  <2>2. task[p].asset \in Images /\ (p \in connected => status[task[p].asset] \notin Ended)
    BY <2>1, <1>i, Zenon DEF WriteIsDecided, KnowsStatus
  <2>3. PICK x \in {"ready", "failed"} :
          ToWrite(p, x, "remove") /\ (x = "ready" => task[p].asset \in publishedImages')
    BY <1>7, Zenon DEF ProcessImage
  <2>4. /\ task'[p].step = "write" /\ task'[p].asset = task[p].asset
        /\ task'[p].status = x /\ task'[p].next = "remove"
    BY <2>1, <2>3, <1>w, <1>s, Zenon
  <2>5. WriteIsDecided(p, task[p])'
    BY <2>2, <2>3, <2>4, <1>s, Zenon DEF WriteIsDecided
  <2> QED  BY <2>1, <2>2, <2>4, <2>5, <1>d, Zenon DEF HeldSteps
<1>8. ASSUME AbortUpload(p) \/ CleanupExpired(p)  PROVE TaskFits(p, task[p])'
  <2>1. task[p] # Free /\ task[p].step \in {"abort", "cleanup"} /\ UNCHANGED status
    BY <1>8, <1>i, TaskTypes, Zenon DEF AbortUpload, CleanupExpired, On
  <2>2. CASE ~EndTask(p)
    <3>1. task[p].seen \notin Ended /\ UNCHANGED <<assetLock, quotaLock, connected>>
      BY <1>8, <2>2, Zenon DEF AbortUpload, CleanupExpired, Ended
    <3>2. p \in connected => status[task[p].asset] \notin Ended
      BY <2>1, <3>1, <1>i, Zenon DEF KnowsStatus, SeenSteps
    <3>3. PICK x \in {"aborted", "expired"} : ToWrite(p, x, "remove")
      BY <1>8, <2>2, Zenon DEF AbortUpload, CleanupExpired
    <3>4. /\ task'[p].step = "write" /\ task'[p].asset = task[p].asset
          /\ task'[p].status = x /\ task'[p].next = "remove"
      BY <2>1, <3>3, <1>w, <1>s, Zenon
    <3>5. WriteIsDecided(p, task[p])'
      BY <3>4, <1>s, Zenon DEF WriteIsDecided
    <3> QED  BY <2>1, <3>1, <3>2, <3>4, <3>5, <1>d, Zenon DEF HeldSteps, SeenSteps
  <2> QED  BY <2>2, <1>e, Zenon
<1>9. ASSUME UpdateAsset(p)  PROVE TaskFits(p, task[p])'
  <2>1. /\ task[p].asset \in Assets /\ assetLock[task[p].asset] = {p}
        /\ task[p].step = "write" /\ On(p, "write") /\ AfterWrite(p)
        /\ status' = [status EXCEPT ![task[p].asset] = task[p].status]
    BY <1>9, WritersHold, Zenon DEF UpdateAsset
  <2>2. CASE ~EndTask(p)
    <3>1. PICK t \in TaskStates :
            /\ task' = [task EXCEPT ![p] = t] /\ UNCHANGED <<assetLock, quotaLock, connected>>
            /\ t.asset = task[p].asset
            /\ \/ t.step = "complete" /\ t.seen = task[p].status
               \/ t.step = "remove" /\ task[p].next = "remove"
      BY <2>1, <2>2, <1>i, AfterWriteExits, ZenonT(30)
    <3>2. task'[p] = t /\ status'[t.asset] = task[p].status /\ assetLock'[t.asset] = {p}
      BY <2>1, <3>1, <1>i, Zenon
    <3>3. CASE t.step = "complete" /\ t.seen = task[p].status
      BY <3>2, <3>3, Zenon DEF TaskFits, HoldsLocks, KnowsStatus, WriteIsDecided
    <3>4. CASE t.step = "remove" /\ task[p].next = "remove"
      <4>1. task[p].status \in Ended /\ (t.asset \in Images \/ task[p].status # "ready")
        BY <2>1, <3>1, <3>4, <1>i, Zenon DEF WriteIsDecided
      <4> QED  BY <3>2, <3>4, <4>1, Zenon DEF TaskFits, HoldsLocks, KnowsStatus, WriteIsDecided,
                                       HeldSteps, SeenSteps
    <3> QED  BY <3>1, <3>3, <3>4, Zenon
  <2> QED  BY <2>2, <1>e, Zenon
<1>10. ASSUME ConnectionLost(p)  PROVE TaskFits(p, task[p])'
  <2>1. p \notin connected' /\ UNCHANGED <<status, object, publishedImages, task>>
    BY <1>10, Zenon DEF ConnectionLost
  <2> QED  BY <2>1, <1>i, Zenon DEF TaskFits, HoldsLocks, KnowsStatus, WriteIsDecided
<1> QED
  BY <1>1, <1>2, <1>3, <1>4, <1>5, <1>6, <1>7, <1>8, <1>9, <1>10, Zenon DEF TaskStep

(* An upload is created by one task, before anything else refers to it.      *)
LEMMA CreatorsStep ==
  ASSUME UploadInv, NEW p \in Tasks, TaskStep(p)
  PROVE  CreatorsAreAlone'
<1>i. UploadTypeOK /\ TasksFit /\ CreatorsAreAlone
  BY Zenon DEF UploadInv
<1>t. status \in [Assets -> Statuses] /\ task \in [Tasks -> TaskStates \union {Free}]
  BY <1>i, Zenon DEF UploadTypeOK
<1>k. \A q \in Tasks \ {p} : task'[q] = task[q]
  BY <1>i, TaskStepTypes, Zenon DEF OthersKeep
<1>f. Free.step \notin CreateSteps
  BY Zenon DEF Free, CreateSteps
<1>a. \A q \in Tasks : task[q].step \in CreateSteps => task[q] # Free /\ task[q].asset \in Assets
  BY <1>f, <1>i, TaskTypes, Zenon
<1>1. ASSUME NEW a \in Assets, CreateUpload(p, a) \/ BeginEnding(p, a)  PROVE CreatorsAreAlone'
  <2>1. PICK s \in PlainSteps :
          /\ task' = [task EXCEPT ![p] = [step |-> s, asset |-> a]]
          /\ s \in CreateSteps =>
               /\ status[a] = "absent"
               /\ \A q \in Tasks : task[q] # Free => task[q].asset # a
          /\ status[a] = "absent" => \A q \in Tasks : task[q] # Free => task[q].asset # a
    BY <1>1, Zenon DEF CreateUpload, BeginEnding, PlainSteps, CreateSteps
  <2>2. task'[p] = [step |-> s, asset |-> a] /\ status' = status
    BY <1>1, <2>1, <1>t, Zenon DEF CreateUpload, BeginEnding
  <2>3. ASSUME NEW q \in Tasks, task'[q].step \in CreateSteps
        PROVE  /\ status'[task'[q].asset] = "absent"
               /\ \A r \in Tasks \ {q} : task'[r] # Free => task'[r].asset # task'[q].asset
    <3>1. CASE q = p
      BY <2>1, <2>2, <2>3, <3>1, <1>k, SMTT(20)
    <3>2. CASE q # p
      <4>1. /\ task'[q] = task[q] /\ status[task[q].asset] = "absent" /\ task[q] # Free
            /\ \A r \in Tasks \ {q} : task[r] # Free => task[r].asset # task[q].asset
        BY <2>3, <3>2, <1>k, <1>a, <1>i, Zenon DEF CreatorsAreAlone
      <4>2. task[q].asset # a
        BY <2>1, <4>1, Zenon
      <4> QED  BY <2>2, <4>1, <4>2, <1>k, SMTT(20)
    <3> QED  BY <3>1, <3>2, Zenon
  <2> QED  BY <2>3, Zenon DEF CreatorsAreAlone
<1>2. ASSUME task'[p] # Free =>
               /\ task[p] # Free /\ task'[p].asset = task[p].asset
               /\ task'[p].step \in CreateSteps =>
                    task[p].step \in CreateSteps /\ UNCHANGED status
      PROVE  CreatorsAreAlone'
  <2>1. ASSUME NEW q \in Tasks, task'[q].step \in CreateSteps
        PROVE  /\ status'[task'[q].asset] = "absent"
               /\ \A r \in Tasks \ {q} : task'[r] # Free => task'[r].asset # task'[q].asset
    <3>1. /\ task[q].step \in CreateSteps /\ task'[q].asset = task[q].asset
          /\ q = p => UNCHANGED status
      <4>1. CASE q = p
        <5>1. task'[p] # Free
          BY <2>1, <4>1, <1>f, Zenon
        <5> QED  BY <2>1, <4>1, <5>1, <1>2, Zenon
      <4>2. CASE q # p
        BY <2>1, <4>2, <1>k, Zenon
      <4> QED  BY <4>1, <4>2, Zenon
    <3>2. /\ status[task[q].asset] = "absent" /\ task[q].asset \in Assets
          /\ \A r \in Tasks \ {q} : task[r] # Free => task[r].asset # task[q].asset
      BY <3>1, <1>a, <1>i, Zenon DEF CreatorsAreAlone
    <3>3. ASSUME NEW r \in Tasks \ {q}, task'[r] # Free
          PROVE  task[r] # Free /\ task'[r].asset = task[r].asset
      <4>1. CASE r = p
        BY <3>3, <4>1, <1>2, Zenon
      <4>2. CASE r # p
        BY <3>3, <4>2, <1>k, Zenon
      <4> QED  BY <4>1, <4>2, Zenon
    <3>4. status'[task[q].asset] = status[task[q].asset]
      <4>1. CASE q # p
        <5>1. CreateAsset(p) \/ UpdateAsset(p) => task[p] # Free
          <6>1. Free.step = "free"
            BY Zenon DEF Free
          <6> QED  BY <6>1, Zenon DEF CreateAsset, UpdateAsset, On
        <5> QED  BY <4>1, <5>1, <3>2, <1>i, RowChanges, Zenon
      <4> QED  BY <4>1, <3>1, Zenon
    <3> QED  BY <3>1, <3>2, <3>3, <3>4, Zenon
  <2> QED  BY <2>1, Zenon DEF CreatorsAreAlone
<1>3. CASE EndTask(p)
  BY <1>2, <1>3, <1>i, EndTaskSteps, Zenon
<1>x. ASSUME task[p] # Free, NEW x, NEW n, ToWrite(p, x, n)
      PROVE  task'[p].asset = task[p].asset /\ task'[p].step \notin CreateSteps
  <2>1. /\ task'[p].asset = task[p].asset /\ task'[p].step = "write"
    BY <1>x, <1>t, Zenon DEF ToWrite
  <2> QED  BY <2>1, Zenon DEF CreateSteps
<1>4. CASE LockUploadQuota(p) \/ CountActiveUploads(p)
  <2>1. /\ task[p] # Free /\ task[p].step \in CreateSteps /\ UNCHANGED status
    BY <1>4, <1>i, TaskTypes, Zenon DEF LockUploadQuota, CountActiveUploads, On, CreateSteps
  <2>2. CASE ~EndTask(p)
    <3>1. MoveTo(p, "count") \/ MoveTo(p, "insert")
      BY <1>4, <2>2, Zenon DEF LockUploadQuota, CountActiveUploads
    <3>2. task'[p].asset = task[p].asset
      BY <3>1, <1>t DEF MoveTo
    <3> QED  BY <2>1, <3>2, <1>2, Zenon
  <2> QED  BY <2>2, <1>3, Zenon
<1>5. CASE AcquireAssetLock(p)
  <2>1. task[p] # Free
    BY <1>5, Zenon DEF AcquireAssetLock
  <2>2. PICK s \in SeenSteps : ReadAsset(p, s)
    BY <1>5, Zenon DEF AcquireAssetLock, SeenSteps
  <2>3. task'[p].asset = task[p].asset /\ task'[p].step = s
    BY <2>2, <1>t, Zenon DEF ReadAsset
  <2>4. s \notin CreateSteps
    BY Zenon DEF SeenSteps, CreateSteps
  <2> QED  BY <2>1, <2>3, <2>4, <1>2, Zenon
<1>6. CASE Complete(p) \/ ProcessImage(p) \/ AbortUpload(p) \/ CleanupExpired(p)
  <2>1. task[p] # Free
    BY <1>6, <1>i, TaskTypes, ZenonT(30) DEF Complete, ProcessImage, AbortUpload, CleanupExpired, On
  <2>2. CASE ~EndTask(p)
    <3>1. MoveTo(p, "process") \/ \E x, n : ToWrite(p, x, n)
      BY <1>6, <2>2, CompleteExits, Zenon DEF ProcessImage, AbortUpload, CleanupExpired
    <3>2. MoveTo(p, "process") => task'[p].asset = task[p].asset /\ task'[p].step = "process"
      BY <1>t DEF MoveTo
    <3>3. "process" \notin CreateSteps
      BY Zenon DEF CreateSteps
    <3> QED  BY <2>1, <3>1, <3>2, <3>3, <1>x, <1>2, Zenon
  <2> QED  BY <2>2, <1>3, Zenon
<1>7. CASE UpdateAsset(p)
  <2>1. task[p] # Free
    BY <1>7, <1>i, TaskTypes, Zenon DEF UpdateAsset, On
  <2>2. CASE ~EndTask(p)
    <3>1. PICK t \in TaskStates : /\ task' = [task EXCEPT ![p] = t] /\ t.asset = task[p].asset
                                  /\ t.step \in {"complete", "remove"}
      BY <1>7, <2>2, <1>i, AfterWriteExits, Zenon DEF UpdateAsset
    <3>2. task'[p] = t
      BY <3>1, <1>t, Zenon
    <3>3. t.step \notin CreateSteps
      BY <3>1, Zenon DEF CreateSteps
    <3> QED  BY <2>1, <3>1, <3>2, <3>3, <1>2, Zenon
  <2> QED  BY <2>2, <1>3, Zenon
<1>8. CASE ConnectionLost(p)
  BY <1>8, <1>2, Zenon DEF ConnectionLost
<1> QED
  BY <1>1, <1>3, <1>4, <1>5, <1>6, <1>7, <1>8, Zenon DEF TaskStep, CreateAsset, DeleteUploadObject,
     TaskFails

(* Only the count under the quota's lock lets a task insert.                 *)
LEMMA OnlyCountInserts ==
  ASSUME UploadInv, NEW p \in Tasks, TaskStep(p), task'[p].step = "insert", p \in connected',
         ~(p \in connected /\ task[p].step = "insert")
  PROVE  CountActiveUploads(p)
<1>i. UploadTypeOK /\ task \in [Tasks -> TaskStates \union {Free}]
  BY Zenon DEF UploadInv, UploadTypeOK
<1>f. Free.step = "free"
  BY Zenon DEF Free
<1>e. ~EndTask(p)
  BY <1>i, <1>f, EndTaskSteps, Zenon
<1>w. \A x, n : ~ToWrite(p, x, n)
  BY <1>i DEF ToWrite
<1>m. ~MoveTo(p, "count") /\ ~MoveTo(p, "process") /\ ~MoveTo(p, "remove")
  BY <1>i DEF MoveTo
<1>1. ~(\E a \in Assets : CreateUpload(p, a) \/ BeginEnding(p, a))
  <2>1. ASSUME NEW a \in Assets, CreateUpload(p, a) \/ BeginEnding(p, a)  PROVE FALSE
    <3>1. PICK s \in {"quota", "lock complete", "lock abort", "lock cleanup"} :
            task' = [task EXCEPT ![p] = [step |-> s, asset |-> a]]
      BY <2>1, Zenon DEF CreateUpload, BeginEnding
    <3> QED  BY <3>1, <1>i, Zenon
  <2> QED  BY <2>1, Zenon
<1>2. ~AcquireAssetLock(p)
  <2>1. ASSUME AcquireAssetLock(p)  PROVE FALSE
    <3>1. PICK s \in SeenSteps : ReadAsset(p, s)
      BY <2>1, Zenon DEF AcquireAssetLock, SeenSteps
    <3>2. task'[p].step = s
      BY <3>1, <1>i, Zenon DEF ReadAsset
    <3> QED  BY <3>2, Zenon DEF SeenSteps
  <2> QED  BY <2>1, Zenon
<1>3. ~Complete(p) /\ ~LockUploadQuota(p)
  BY <1>e, <1>w, <1>m, CompleteExits, Zenon DEF LockUploadQuota
<1>4. ~ProcessImage(p) /\ ~AbortUpload(p) /\ ~CleanupExpired(p)
  BY <1>e, <1>w, Zenon DEF ProcessImage, AbortUpload, CleanupExpired
<1>5. ~UpdateAsset(p)
  <2>1. ASSUME UpdateAsset(p)  PROVE FALSE
    <3>1. PICK t \in TaskStates :
             task' = [task EXCEPT ![p] = t] /\ t.step \in {"complete", "remove"}
      BY <2>1, <1>e, <1>i, AfterWriteExits, Zenon DEF UpdateAsset
    <3> QED  BY <3>1, <1>i, Zenon
  <2> QED  BY <2>1, Zenon
<1>6. ~ConnectionLost(p)
  BY Zenon DEF ConnectionLost
<1> QED
  BY <1>e, <1>1, <1>2, <1>3, <1>4, <1>5, <1>6, Zenon DEF TaskStep, CreateAsset, DeleteUploadObject,
     TaskFails

(* The count under the quota's lock is still true when the row is inserted,  *)
(* since nobody else inserts meanwhile (CreateAssetWithQuota).               *)
LEMMA QuotaStep ==
  ASSUME UploadInv, NEW p \in Tasks, TaskStep(p)
  PROVE  QuotaIsKept'
<1>i. UploadTypeOK /\ TasksFit /\ QuotaIsKept
  BY Zenon DEF UploadInv
<1>t. status \in [Assets -> Statuses] /\ task \in [Tasks -> TaskStates \union {Free}]
  BY <1>i, Zenon DEF UploadTypeOK
<1>n. IsFiniteSet(Active) /\ Cardinality(Active) \in Nat /\ MaxActiveUploads \in Nat
  BY <1>i, FS_CardinalityType, UploadConstants, Zenon DEF QuotaIsKept
<1>k. \A q \in Tasks \ {p} : task'[q] = task[q] /\ (q \in connected' <=> q \in connected)
  BY <1>i, TaskStepTypes, Zenon DEF OthersKeep
<1>1. CASE CreateAsset(p)
  <2>1. PICK a : a = task[p].asset
    OBVIOUS
  <2>2. /\ a \in Assets /\ status[a] = "absent" /\ quotaLock = {p} /\ p \in connected
        /\ task[p].step = "insert"
    BY <1>1, <2>1, WritersHold, Zenon
  <2>3. Active' = Active \cup {a} /\ a \notin Active
    BY <1>1, <2>1, <2>2, <1>t, Zenon DEF Active, CreateAsset
  <2>4. IsFiniteSet(Active') /\ Cardinality(Active') = Cardinality(Active) + 1
    BY <2>3, <1>n, FS_AddElement, Zenon
  <2>5. Cardinality(Active) < MaxActiveUploads
    BY <2>2, <1>i, Zenon DEF QuotaIsKept
  <2>6. ASSUME NEW q \in connected' \cap Tasks, task'[q].step = "insert"  PROVE FALSE
    <3>1. task'[p] = Free
      BY <1>1, <1>i, EndTaskSteps, Zenon DEF CreateAsset
    <3>2. q # p
      BY <2>6, <3>1 DEF Free
    <3>3. q \in connected /\ task[q].step = "insert"
      BY <2>6, <3>2, <1>k, Zenon
    <3>4. quotaLock = {q}
      BY <3>3, <1>i, Zenon DEF TasksFit, TaskFits, HoldsLocks
    <3> QED  BY <2>2, <3>2, <3>4, Zenon
  <2>7. Cardinality(Active') <= MaxActiveUploads
    BY <2>4, <2>5, <1>n
  <2> QED  BY <2>4, <2>6, <2>7, Zenon DEF QuotaIsKept
<1>2. CASE ~CreateAsset(p)
  <2>1. Active' \subseteq Active
    <3>1. ASSUME NEW a \in Assets, status'[a] = "created"  PROVE status[a] = "created"
      <4>1. CASE status'[a] # status[a]
        <5>1. UpdateAsset(p) /\ a = task[p].asset
          BY <4>1, <1>2, <1>i, RowChanges, Zenon
        <5>2. task[p].status # "created"
          BY <5>1, <1>i, Zenon DEF UpdateAsset, On, TasksFit, TaskFits, WriteIsDecided
        <5>3. status'[a] = task[p].status
          BY <5>1, <1>t, Zenon DEF UpdateAsset
        <5> QED  BY <3>1, <5>2, <5>3, Zenon
      <4> QED  BY <3>1, <4>1, Zenon
    <3> QED  BY <3>1, Zenon DEF Active
  <2>2. IsFiniteSet(Active') /\ Cardinality(Active') <= Cardinality(Active)
    BY <2>1, <1>n, FS_Subset, Zenon
  <2>3. Cardinality(Active') \in Nat
    BY <2>2, FS_CardinalityType, Zenon
  <2>4. Cardinality(Active) <= MaxActiveUploads
    BY <1>i, Zenon DEF QuotaIsKept
  <2>5. ASSUME NEW q \in connected' \cap Tasks, task'[q].step = "insert"
        PROVE  Cardinality(Active) < MaxActiveUploads
    <3>1. CASE q \in connected /\ task[q].step = "insert"
      BY <3>1, <2>5, <1>i, Zenon DEF QuotaIsKept
    <3>2. CASE ~(q \in connected /\ task[q].step = "insert")
      <4>1. q = p
        BY <2>5, <3>2, <1>k, Zenon
      <4>2. CountActiveUploads(p) /\ ~EndTask(p)
        <5>1. ~EndTask(p)
          <6>1. EndTask(p) => task'[p].step = "free"
            BY <1>i, EndTaskSteps DEF Free
          <6> QED  BY <2>5, <4>1, <6>1, Zenon
        <5>2. CountActiveUploads(p)
          BY <2>5, <3>2, <4>1, <5>1, <1>2, <1>t, OnlyCountInserts, Zenon
        <5> QED  BY <5>1, <5>2, Zenon
      <4>3. ~(Cardinality(Active) >= MaxActiveUploads)
        BY <4>2, Zenon DEF CountActiveUploads
      <4> QED  BY <4>3, <1>n
    <3> QED  BY <3>1, <3>2, Zenon
  <2>6. Cardinality(Active') <= MaxActiveUploads
    BY <2>2, <2>3, <2>4, <1>n
  <2>7. ASSUME NEW q \in connected' \cap Tasks, task'[q].step = "insert"
        PROVE  Cardinality(Active') < MaxActiveUploads
    BY <2>7, <2>2, <2>3, <2>5, <1>n
  <2> QED  BY <2>2, <2>6, <2>7, Zenon DEF QuotaIsKept
<1> QED  BY <1>1, <1>2, Zenon

(* A ready asset keeps the object it is served from: an attachment is only   *)
(* recorded as ready while its object is there, an image after its published *)
(* object was written, and what is removed is not served (DeleteObject).     *)
LEMMA ServedStep ==
  ASSUME UploadInv, NEW p \in Tasks, TaskStep(p)
  PROVE  ReadyIsServed' /\ \A a \in Assets : status[a] \in Ended => status'[a] = status[a]
<1>i. UploadTypeOK /\ TasksFit /\ ReadyIsServed /\ WriteIsDecided(p, task[p])
  BY Zenon DEF UploadInv, TasksFit, TaskFits
<1>t. status \in [Assets -> Statuses]
  BY <1>i, Zenon DEF UploadTypeOK
<1>1. ASSUME NEW a \in Assets, status'[a] = "ready"
      PROVE  IF a \in Images THEN a \in publishedImages' ELSE object'[a] # "none"
  <2>1. CASE status'[a] # status[a]
    <3>1. a = task[p].asset /\ (CreateAsset(p) \/ UpdateAsset(p))
      BY <2>1, <1>i, RowChanges, Zenon
    <3>2. ~CreateAsset(p)
      BY <3>1, <1>1, <1>t, Zenon DEF CreateAsset
    <3>3. /\ task[p].step = "write" /\ p \in connected
          /\ status'[a] = task[p].status /\ UNCHANGED <<object, publishedImages>>
      BY <3>1, <3>2, <1>t, Zenon DEF UpdateAsset, On
    <3> QED  BY <3>1, <3>3, <1>1, <1>i, Zenon DEF WriteIsDecided
  <2>2. CASE status'[a] = status[a]
    <3>1. IF a \in Images THEN a \in publishedImages ELSE object[a] # "none"
      BY <2>2, <1>1, <1>i, Zenon DEF ReadyIsServed
    <3>2. CASE a \in Images
      BY <3>1, <3>2, <1>i, RowChanges, Zenon
    <3>3. CASE a \notin Images
      <4>1. object'[a] = object[a]
        BY <3>3, <2>2, <1>1, <1>i, RowChanges, WritersHold, ZenonT(30)
      <4> QED  BY <3>1, <3>3, <4>1, Zenon
    <3> QED  BY <3>2, <3>3, Zenon
  <2> QED  BY <2>1, <2>2, Zenon
<1>2. ASSUME NEW a \in Assets, status[a] \in Ended  PROVE status'[a] = status[a]
  <2>1. status[a] # "absent"
    BY <1>2, Zenon DEF Ended
  <2>2. CASE a = task[p].asset /\ CreateAsset(p)
    BY <2>1, <2>2, WritersHold, Zenon
  <2>3. CASE a = task[p].asset /\ UpdateAsset(p)
    BY <1>2, <2>3, WritersHold, Zenon
  <2>4. \/ status'[a] = status[a]
        \/ a = task[p].asset /\ (CreateAsset(p) \/ UpdateAsset(p))
    BY <1>i, RowChanges, Zenon
  <2> QED  BY <2>2, <2>3, <2>4, Zenon
<1> QED  BY <1>1, <1>2, Zenon DEF ReadyIsServed

(* Clients and deadlines: an object is put, never taken away (PutObject).    *)
LEMMA ClientStep ==
  ASSUME UploadInv, NEW a \in Assets, NEW quality \in {"good", "bad"},
         PutObject(a, quality) \/ DeadlinePasses(a)
  PROVE  UploadInv' /\ UNCHANGED status
<1>i. UploadTypeOK /\ TasksFit /\ CreatorsAreAlone /\ QuotaIsKept /\ ReadyIsServed
  BY Zenon DEF UploadInv
<1>1. /\ UNCHANGED <<status, publishedImages, task, assetLock, quotaLock, connected>>
      /\ \/ overdue' = overdue \cup {a} /\ object' = object
         \/ object' = [object EXCEPT ![a] = quality] /\ overdue' = overdue
  BY Zenon DEF PutObject, DeadlinePasses
<1>2. UploadTypeOK'
  BY <1>1, <1>i, Zenon DEF UploadTypeOK
<1>3. \A x \in Assets : object[x] # "none" => object'[x] # "none"
  BY <1>1, <1>i, Zenon DEF UploadTypeOK
<1>4. ASSUME NEW p \in Tasks  PROVE TaskFits(p, task[p])'
  <2>1. HoldsLocks(p, task[p]) /\ KnowsStatus(p, task[p]) /\ WriteIsDecided(p, task[p])
    BY <1>i, Zenon DEF TasksFit, TaskFits
  <2>2. HoldsLocks(p, task[p])' /\ KnowsStatus(p, task[p])'
    BY <1>1, <2>1, Zenon DEF HoldsLocks, KnowsStatus
  <2>3. task[p].step = "write" => task[p].asset \in Assets
    BY <1>i, TaskTypes, Zenon
  <2>4. WriteIsDecided(p, task[p])'
    BY <1>1, <1>3, <2>1, <2>3, ZenonT(30) DEF WriteIsDecided
  <2> QED  BY <2>2, <2>4, Zenon DEF TaskFits
<1>5. CreatorsAreAlone'
  BY <1>1, <1>i, Zenon DEF CreatorsAreAlone
<1>6. QuotaIsKept'
  <2>1. Active' = Active
    BY <1>1, Zenon DEF Active
  <2> QED  BY <2>1, <1>1, <1>i, Zenon DEF QuotaIsKept
<1>7. ReadyIsServed'
  BY <1>1, <1>3, <1>i, Zenon DEF ReadyIsServed
<1> QED  BY <1>1, <1>2, <1>4, <1>5, <1>6, <1>7, Zenon DEF UploadInv, TasksFit

(* At first there are no uploads.                                            *)
LEMMA UploadsStart == UploadInit => UploadInv
<1> SUFFICES ASSUME UploadInit  PROVE UploadInv
  OBVIOUS
<1>1. UploadTypeOK
  BY Zenon DEF UploadInit, UploadTypeOK, Statuses
<1>2. \A p \in Tasks : task[p].step = "free"
  BY Zenon DEF UploadInit, Free
<1>3. TasksFit
  BY <1>2, Zenon
  DEF TasksFit, TaskFits, HoldsLocks, KnowsStatus, WriteIsDecided, HeldSteps, SeenSteps
<1>4. CreatorsAreAlone
  BY <1>2, Zenon DEF CreatorsAreAlone, CreateSteps
<1>5. QuotaIsKept
  <2>1. Active = {}
    BY Zenon DEF UploadInit, Active
  <2>2. IsFiniteSet({}) /\ Cardinality({}) = 0
    BY FS_EmptySet, Zenon
  <2> QED  BY <2>1, <2>2, <1>2, UploadConstants DEF QuotaIsKept
<1>6. ReadyIsServed
  BY Zenon DEF UploadInit, ReadyIsServed
<1> QED  BY <1>1, <1>3, <1>4, <1>5, <1>6, Zenon DEF UploadInv

(* Every step keeps what the consistency of uploads rests on, and what ended *)
(* stays as it ended.                                                        *)
LEMMA UploadSteps ==
  ASSUME UploadInv, [UploadNext]_uploadVars
  PROVE  UploadInv' /\ \A a \in Assets : status[a] \in Ended => status'[a] = status[a]
<1>1. CASE UNCHANGED uploadVars
  <2>1. UNCHANGED <<status, object, publishedImages, overdue, task, assetLock, quotaLock,
                    connected>>
    BY <1>1, Zenon DEF uploadVars
  <2>2. UploadTypeOK' /\ TasksFit'
    BY <2>1, Zenon DEF UploadInv, UploadTypeOK, TasksFit, TaskFits, HoldsLocks, KnowsStatus,
                WriteIsDecided
  <2>3. CreatorsAreAlone' /\ QuotaIsKept' /\ ReadyIsServed'
    BY <2>1, Zenon DEF UploadInv, CreatorsAreAlone, QuotaIsKept, ReadyIsServed, Active
  <2> QED  BY <2>1, <2>2, <2>3, Zenon DEF UploadInv
<1>2. ASSUME NEW p \in Tasks, TaskStep(p)
      PROVE  UploadInv' /\ \A a \in Assets : status[a] \in Ended => status'[a] = status[a]
  <2>1. UploadTypeOK'
    BY <1>2, TaskStepTypes, Zenon DEF UploadInv
  <2>2. TasksFit'
    BY <1>2, OthersFit, OwnFits, Zenon DEF TasksFit
  <2>3. CreatorsAreAlone' /\ QuotaIsKept'
    BY <1>2, CreatorsStep, QuotaStep, Zenon
  <2>4. ReadyIsServed' /\ \A a \in Assets : status[a] \in Ended => status'[a] = status[a]
    BY <1>2, ServedStep, Zenon
  <2> QED  BY <2>1, <2>2, <2>3, <2>4, Zenon DEF UploadInv
<1>3. ASSUME NEW a \in Assets,
             DeadlinePasses(a) \/ \E quality \in {"good", "bad"} : PutObject(a, quality)
      PROVE  UploadInv' /\ UNCHANGED status
  BY <1>3, ClientStep, Zenon
<1> QED  BY <1>1, <1>2, <1>3, Zenon DEF UploadNext, TaskStep

(* However completions, aborts, cleanups, lost locks and the writes of       *)
(* clients interleave, a ready asset has the object it is served from, a     *)
(* user never exceeds the quota, and an upload that ended stays as it ended  *)
(* (CompleteUpload, AbortUpload, CleanupExpired, CreateAssetWithQuota): for  *)
(* any number of uploads and calls and any quota.                            *)
THEOREM UploadsStayConsistent == UploadSpec => UploadsConsistent
<1> DEFINE Served == \A a \in Assets : status[a] = "ready" =>
                       IF a \in Images THEN a \in publishedImages ELSE object[a] # "none"
           Within == Cardinality(Active) <= MaxActiveUploads
           Final == \A a \in Assets : status[a] \in Ended => status'[a] = status[a]
<1>1. UploadInit => UploadInv
  BY UploadsStart, Zenon
<1>2. UploadInv /\ [UploadNext]_uploadVars => UploadInv'
  BY UploadSteps, Zenon
<1>3. UploadInv => Served /\ Within
  BY Zenon DEF UploadInv, ReadyIsServed, QuotaIsKept
<1>4. UploadInv /\ [UploadNext]_uploadVars => [Final]_uploadVars
  BY UploadSteps, Zenon
<1>5. UploadSpec => []Served /\ []Within /\ [][Final]_uploadVars
  <2> HIDE DEF Served, Within, Final
  <2> QED  BY <1>1, <1>2, <1>3, <1>4, PTL DEF UploadSpec
<1> QED  BY <1>5, Zenon DEF UploadsConsistent

-----------------------------------------------------------------------------
(***************************************************************************)
(* The visibility cache of a guild.                                        *)
(***************************************************************************)

\* A label is read before the channels it labels, by IDENTIFY and by the
\* reload alike, and neither is ahead of Guild.
SessionInOrder(s) ==
  /\ session[s].phase \in {"reading", "loaded", "indexed"} => session[s].rev \in 1 .. Revision
  /\ session[s].phase \in {"loaded", "indexed"} => session[s].rev <= session[s].content

ReloadInOrder ==
  reload # None =>
    /\ reload.pc \in {"content", "install"} => reload.rev \in 1 .. Revision
    /\ reload.pc = "install" => reload.rev <= reload.content

ReadsInOrder == ReloadInOrder /\ \A s \in Sessions : SessionInOrder(s)

-----------------------------------------------------------------------------
(* Types, and the order of the reads.                                       *)

\* The handler steps the actions move to are steps.
LEMMA StepNames ==
  /\ "capture" \in Steps /\ "invalidate" \in Steps /\ "attach" \in Steps
  /\ "attachInvalidate" \in Steps /\ "ensure" \in Steps /\ "wait" \in Steps
  /\ "decide" \in Steps /\ "detach" \in Steps /\ "detachGuild" \in Steps
  /\ "dropIndex" \in Steps /\ "dropEntry" \in Steps
BY Zenon DEF Steps

\* The phases the actions move a session to are phases.
LEMMA PhaseNames ==
  /\ "reading" \in Phases /\ "loaded" \in Phases /\ "indexed" \in Phases /\ "live" \in Phases
  /\ "leaving" \in Phases /\ "unindexed" \in Phases /\ "gone" \in Phases
BY Zenon DEF Phases

\* The steps the reload moves to are steps of it.
LEMMA ReloadStepNames ==
  /\ "revision" \in ReloadSteps /\ "content" \in ReloadSteps
  /\ "install" \in ReloadSteps /\ "done" \in ReloadSteps
BY Zenon DEF ReloadSteps

\* What a handler, a reload, a session and an entry start from has its type.
LEMMA InitialValuesTyped ==
  /\ Idle \in HandlerState /\ NewReload \in ReloadState
  /\ NewSession \in SessionState /\ NewEntry \in Entry
<1>1. Idle \in HandlerState  BY ConstantsAssumption DEF Idle, HandlerState, Steps
<1>2. NewReload \in ReloadState
  BY ConstantsAssumption DEF NewReload, ReloadState, ReloadSteps
<1>3. NewSession \in SessionState
  BY ConstantsAssumption DEF NewSession, SessionState, Phases
<1>4. NewEntry \in Entry  BY ConstantsAssumption DEF NewEntry, Entry
<1>. QED  BY <1>1, <1>2, <1>3, <1>4, Zenon

\* invalidateVisibilityGuild keeps the type of the user's state, whether it
\* finds an entry, creates one, or ignores an old revision.
LEMMA InvalidationTyped ==
  ASSUME state \in UserState \cup {None}, NEW r \in 0 .. MaxRevision,
         invalidateVisibilityGuild(r)
  PROVE  state' \in UserState \cup {None}
<1>1. CASE state = None
  BY <1>1, Zenon DEF invalidateVisibilityGuild
<1>2. CASE state # None
  <2> DEFINE e == IF state.entry = None THEN NewEntry ELSE state.entry
  <2>1. state \in UserState /\ state' = [state EXCEPT !.entry = Invalidated(e, r)]
    BY <1>2, Zenon DEF invalidateVisibilityGuild, SetEntry
  <2>2. e \in Entry
    BY <2>1, InitialValuesTyped, Zenon DEF UserState
  <2>3. Invalidated(e, r) \in Entry
    <3> HIDE DEF e
    <3>. QED  BY <2>2, ConstantsAssumption DEF Invalidated, Ignored, Entry, Max2
  <2>. QED  BY <2>1, <2>3, Zenon DEF UserState
<1>. QED  BY <1>1, <1>2, Zenon

\* Every step keeps every variable in its type.
LEMMA TypeStep ==
  ASSUME TypeOK, ReadsInOrder, [Next]_vars
  PROVE  TypeOK'
<1>0. TypeOK  OBVIOUS
<1>a. access \in Seq(Sights) /\ Len(access) \in 1 .. MaxRevision  BY Zenon DEF TypeOK
<1>t. topic \in Seq(Event) /\ cursor \in 0 .. Len(topic)  BY Zenon DEF TypeOK
<1>s. session \in [Sessions -> SessionState]  BY Zenon DEF TypeOK
<1>g. guildIdx \subseteq Sessions  BY Zenon DEF TypeOK
<1>st. state \in UserState \cup {None}  BY Zenon DEF TypeOK
<1>r. reload \in ReloadState \cup {None}  BY Zenon DEF TypeOK
<1>h. handler \in [Handlers -> HandlerState]  BY Zenon DEF TypeOK
<1>n. hints \in Nat  BY Zenon DEF TypeOK
<1>o. ReadsInOrder  OBVIOUS
<1>v. Revision \in 0 .. MaxRevision  BY <1>a, ConstantsAssumption DEF Revision
<1>z. 0 \in 0 .. MaxRevision  BY ConstantsAssumption
<1>ev. ASSUME cursor < Len(topic)
       PROVE  /\ topic[cursor + 1] \in Event
              /\ topic[cursor + 1].rev \in 0 .. MaxRevision
              /\ topic[cursor + 1].type \in EventTypes
              /\ FirstStep(topic[cursor + 1].type) \in Steps
  <2>1. topic[cursor + 1] \in Event  BY <1>ev, <1>t
  <2>2. topic[cursor + 1].rev \in 0 .. MaxRevision /\ topic[cursor + 1].type \in EventTypes
    BY <2>1, ConstantsAssumption DEF Event
  <2>3. FirstStep(topic[cursor + 1].type) \in Steps
    BY <2>2, StepNames, Zenon DEF FirstStep, EventTypes
  <2>. QED  BY <2>1, <2>2, <2>3, Zenon
<1>c. ASSUME reload # None, reload.pc = "install"
      PROVE  Candidate \in Snapshot
  BY <1>c, <1>r, <1>a, ConstantsAssumption 
     DEF Candidate, Snapshot, ReloadState, ReadsInOrder, ReloadInOrder, Revision
<1>at. ASSUME reload # None, reload.attempt < MaxAttempts
       PROVE  reload.attempt + 1 \in 1 .. 2
  BY <1>at, <1>r DEF ReloadState, MaxAttempts
<1>en. ASSUME HasEntry
       PROVE  state \in UserState /\ state.entry \in Entry
  BY <1>en, <1>st, Zenon DEF HasEntry, UserState
<1>go. ASSUME NEW h \in Handlers, NEW p \in Steps, Goto(h, p)
       PROVE  handler' \in [Handlers -> HandlerState]
  BY <1>go, <1>h, Zenon DEF Goto, HandlerState
<1>pr. ASSUME NEW h \in Handlers, NEW p \in Steps, Proceed(h, p)
       PROVE  handler' \in [Handlers -> HandlerState]
  BY <1>pr, <1>h, <1>z, ZenonT(30) DEF Proceed, HandlerState
<1>fi. ASSUME NEW h \in Handlers, Finish(h)
       PROVE  handler' \in [Handlers -> HandlerState]
  BY <1>fi, <1>h, InitialValuesTyped, Zenon DEF Finish
<1>end. ASSUME NEW snap \in Snapshot \cup {None}, ReloadEnds(snap)
        PROVE  reload' \in ReloadState \cup {None}
  BY <1>end, ReloadStepNames, InitialValuesTyped, Zenon DEF ReloadEnds, ReloadState
<1>1. ASSUME NEW type \in EventTypes, NEW sight \in Sights, Commit(type, sight)
      PROVE  TypeOK'
  <2>1. access' \in Seq(Sights) /\ Len(access') \in 1 .. MaxRevision
    BY <1>1, <1>a, ConstantsAssumption DEF Commit, Revision
  <2>2. topic' \in Seq(Event) /\ cursor' \in 0 .. Len(topic')
    BY <1>1, <1>a, <1>t, ConstantsAssumption DEF Commit, Event, Revision
  <2>. QED
    BY <2>1, <2>2, <1>1, <1>s, <1>g, <1>st, <1>r, <1>h, <1>n, Zenon DEF TypeOK, Commit
<1>2. ASSUME NEW type \in EventTypes, UpdateWithoutAccess(type)
      PROVE  TypeOK'
  <2>1. topic' \in Seq(Event) /\ cursor' \in 0 .. Len(topic')
    BY <1>2, <1>a, <1>t, ConstantsAssumption DEF UpdateWithoutAccess, Event, Revision
  <2>. QED
    BY <2>1, <1>2, <1>a, <1>s, <1>g, <1>st, <1>r, <1>h, <1>n, Zenon
       DEF TypeOK, UpdateWithoutAccess
<1>3. ASSUME NotRouted
      PROVE  TypeOK'
  <2>1. topic' \in Seq(Event) /\ cursor' \in 0 .. Len(topic')
    BY <1>3, <1>t DEF NotRouted
  <2>. QED
    BY <2>1, <1>3, <1>a, <1>s, <1>g, <1>st, <1>r, <1>h, <1>n, Zenon DEF TypeOK, NotRouted
<1>4. ASSUME visibilityReloadTarget
      PROVE  TypeOK'
  <2>1. reload' \in ReloadState \cup {None}
    <3>1. CASE HasEntry /\ state.references # 0
      <4>1. state.entry.generation \in Nat /\ state.entry.required \in 0 .. MaxRevision
        BY <3>1, <1>en, Zenon DEF Entry
      <4>2. reload' = [reload EXCEPT !.pc = "revision", !.generation = state.entry.generation,
                                     !.required = state.entry.required]
        BY <1>4, <3>1, Zenon DEF visibilityReloadTarget
      <4>3. reload \in ReloadState
        BY <1>4, <1>r, Zenon DEF visibilityReloadTarget
      <4>. QED  BY <4>1, <4>2, <4>3, ReloadStepNames, Zenon DEF ReloadState
    <3>2. CASE ~(HasEntry /\ state.references # 0)
      BY <1>4, <3>2, <1>end, Zenon DEF visibilityReloadTarget
    <3>. QED  BY <3>1, <3>2, Zenon
  <2>. QED
    BY <2>1, <1>4, <1>a, <1>t, <1>s, <1>g, <1>st, <1>h, <1>n, Zenon
       DEF TypeOK, visibilityReloadTarget
<1>5. ASSUME ReadVisibilityRevision
      PROVE  TypeOK'
  <2>1. reload' \in ReloadState \cup {None}
    BY <1>5, <1>r, <1>a, <1>v, ReloadStepNames, InitialValuesTyped, Zenon
       DEF ReadVisibilityRevision, ReloadEnds, ReloadState
  <2>. QED
    BY <2>1, <1>5, <1>a, <1>t, <1>s, <1>g, <1>st, <1>h, <1>n, Zenon
       DEF TypeOK, ReadVisibilityRevision
<1>6. ASSUME ReadVisibilityChannels
      PROVE  TypeOK'
  <2>1. reload' \in ReloadState \cup {None}
    BY <1>6, <1>r, <1>a, <1>v, ReloadStepNames, InitialValuesTyped, Zenon
       DEF ReadVisibilityChannels, ReloadEnds, ReloadState
  <2>. QED
    BY <2>1, <1>6, <1>a, <1>t, <1>s, <1>g, <1>st, <1>h, <1>n, Zenon
       DEF TypeOK, ReadVisibilityChannels
<1>7. ASSUME installReloadedVisibilitySnapshot
      PROVE  TypeOK'
  <2>1. state' \in UserState \cup {None}
    <3>1. CASE Installs
      <4>1. Candidate \in Snapshot  BY <1>7, <1>c, Zenon DEF installReloadedVisibilitySnapshot
      <4>2. state \in UserState /\ state.entry \in Entry
        BY <3>1, <1>en, Zenon DEF Installs
      <4>3. state' = [state EXCEPT !.entry.snapshot = Candidate, !.entry.reconcileSent = FALSE]
        BY <1>7, <3>1, Zenon DEF installReloadedVisibilitySnapshot
      <4>. QED  BY <4>1, <4>2, <4>3, Zenon DEF UserState, Entry
    <3>2. CASE ~Installs
      BY <1>7, <3>2, <1>st, Zenon DEF installReloadedVisibilitySnapshot
    <3>. QED  BY <3>1, <3>2, Zenon
  <2>2. reload' \in ReloadState \cup {None}
    BY <1>7, <1>c, <1>at, <1>r, ReloadStepNames, InitialValuesTyped, Zenon
       DEF installReloadedVisibilitySnapshot, ReloadEnds, ReloadState
  <2>. QED
    BY <2>1, <2>2, <1>7, <1>a, <1>t, <1>s, <1>g, <1>h, <1>n, Zenon
       DEF TypeOK, installReloadedVisibilitySnapshot
<1>8. ASSUME ReloadFails
      PROVE  TypeOK'
  <2>1. reload' \in ReloadState \cup {None}
    BY <1>8, ReloadStepNames, InitialValuesTyped, Zenon
       DEF ReloadFails, ReloadEnds, ReloadState
  <2>. QED
    BY <2>1, <1>8, <1>a, <1>t, <1>s, <1>g, <1>st, <1>h, <1>n, Zenon DEF TypeOK, ReloadFails
<1>9. ASSUME PublishReload
      PROVE  TypeOK'
  <2>1. reload' \in ReloadState \cup {None}
    BY <1>9, Zenon DEF PublishReload
  <2>2. handler' \in [Handlers -> HandlerState]
    BY <1>9, <1>h, <1>r, StepNames, ZenonT(30) DEF PublishReload, HandlerState, ReloadState
  <2>. QED
    BY <2>1, <2>2, <1>9, <1>a, <1>t, <1>s, <1>g, <1>st, <1>n, Zenon DEF TypeOK, PublishReload
<1>10. ASSUME NEW s \in Sessions, ReadReadyGuilds(s)
      PROVE  TypeOK'
  <2>1. session' \in [Sessions -> SessionState]
    BY <1>10, <1>s, <1>v, PhaseNames, ZenonT(60) DEF ReadReadyGuilds, SessionState
  <2>. QED
    BY <2>1, <1>10, <1>a, <1>t, <1>g, <1>st, <1>r, <1>h, <1>n, Zenon
       DEF TypeOK, ReadReadyGuilds
<1>11. ASSUME NEW s \in Sessions, ReadReadyChannels(s)
      PROVE  TypeOK'
  <2>1. session' \in [Sessions -> SessionState]
    BY <1>11, <1>s, <1>v, PhaseNames, Zenon DEF ReadReadyChannels, SessionState
  <2>. QED
    BY <2>1, <1>11, <1>a, <1>t, <1>g, <1>st, <1>r, <1>h, <1>n, Zenon
       DEF TypeOK, ReadReadyChannels
<1>12. ASSUME NEW s \in Sessions, loadReadyGuildsFails(s)
      PROVE  TypeOK'
  <2>1. session' \in [Sessions -> SessionState]
    BY <1>12, <1>s, PhaseNames, InitialValuesTyped, Zenon
       DEF loadReadyGuildsFails, SessionState
  <2>. QED
    BY <2>1, <1>12, <1>a, <1>t, <1>g, <1>st, <1>r, <1>h, <1>n, Zenon
       DEF TypeOK, loadReadyGuildsFails
<1>13. ASSUME NEW s \in Sessions, addSession(s)
      PROVE  TypeOK'
  <2>1. session' \in [Sessions -> SessionState]
    BY <1>13, <1>s, PhaseNames, Zenon DEF addSession, SetPhase, SessionState
  <2>2. guildIdx' \subseteq Sessions
    BY <1>13, <1>g, Zenon DEF addSession
  <2>. QED
    BY <2>1, <2>2, <1>13, <1>a, <1>t, <1>st, <1>r, <1>h, <1>n, Zenon DEF TypeOK, addSession
<1>14. ASSUME NEW s \in Sessions, retainVisibilitySnapshots(s)
      PROVE  TypeOK'
  <2>1. session' \in [Sessions -> SessionState]
    BY <1>14, <1>s, <1>z, PhaseNames, Zenon DEF retainVisibilitySnapshots, SessionState
  <2>2. state' \in UserState \cup {None}
    <3> DEFINE old == IF state = None THEN [references |-> 0, entry |-> None] ELSE state
               e   == IF access[session[s].rev] # "none"
                      THEN Retained(old.entry, ReadySnapshot(s)) ELSE old.entry
    <3>1. state' = [references |-> old.references + 1, entry |-> e]
      BY <1>14, Zenon DEF retainVisibilitySnapshots
    <3>2. old.references \in Nat /\ old.entry \in Entry \cup {None}
      BY <1>st, Zenon DEF UserState
    <3>3. ReadySnapshot(s) \in Snapshot
      BY <1>14, <1>s, <1>o, <1>v, ConstantsAssumption
         DEF retainVisibilitySnapshots, ReadySnapshot, Snapshot, SessionState, ReadsInOrder,
             SessionInOrder
    <3> HIDE DEF old
    <3>4. e \in Entry \cup {None}
      BY <3>2, <3>3, InitialValuesTyped, Zenon DEF Retained, Entry
    <3>. QED  BY <3>1, <3>2, <3>4 DEF UserState
  <2>. QED
    BY <2>1, <2>2, <1>14, <1>a, <1>t, <1>g, <1>r, <1>h, <1>n, Zenon
       DEF TypeOK, retainVisibilitySnapshots
<1>15. ASSUME NEW s \in Sessions, removeSession(s)
      PROVE  TypeOK'
  <2>1. session' \in [Sessions -> SessionState]
    BY <1>15, <1>s, <1>z, PhaseNames, Zenon DEF removeSession, SessionState
  <2>. QED
    BY <2>1, <1>15, <1>a, <1>t, <1>g, <1>st, <1>r, <1>h, <1>n, Zenon DEF TypeOK, removeSession
<1>16. ASSUME NEW s \in Sessions, RemoveFromIndexes(s)
      PROVE  TypeOK'
  <2>1. session' \in [Sessions -> SessionState]
    BY <1>16, <1>s, PhaseNames, InitialValuesTyped, Zenon DEF RemoveFromIndexes, SessionState
  <2>2. guildIdx' \subseteq Sessions
    BY <1>16, <1>g, Zenon DEF RemoveFromIndexes
  <2>. QED
    BY <2>1, <2>2, <1>16, <1>a, <1>t, <1>st, <1>r, <1>h, <1>n, Zenon
       DEF TypeOK, RemoveFromIndexes
<1>17. ASSUME NEW s \in Sessions, releaseVisibilitySnapshots(s)
      PROVE  TypeOK'
  <2>1. session' \in [Sessions -> SessionState]
    BY <1>17, <1>s, PhaseNames, Zenon DEF releaseVisibilitySnapshots, SetPhase, SessionState
  <2>2. state' \in UserState \cup {None}
    BY <1>17, <1>st DEF releaseVisibilitySnapshots, UserState, LastReference
  <2>3. hints' \in Nat
    BY <1>17, <1>n DEF releaseVisibilitySnapshots
  <2>. QED
    BY <2>1, <2>2, <2>3, <1>17, <1>a, <1>t, <1>g, <1>r, <1>h, Zenon
       DEF TypeOK, releaseVisibilitySnapshots
<1>18. ASSUME NEW h \in Handlers, DispatchGuildEvent(h)
      PROVE  TypeOK'
  <2>1. topic' \in Seq(Event) /\ cursor' \in 0 .. Len(topic')
    BY <1>18, <1>t DEF DispatchGuildEvent
  <2>2. handler' \in [Handlers -> HandlerState]
    BY <1>18, <1>h, <1>ev, StepNames, InitialValuesTyped, Zenon
       DEF DispatchGuildEvent, HandlerState, Event
  <2>. QED
    BY <2>1, <2>2, <1>18, <1>a, <1>s, <1>g, <1>st, <1>r, <1>n, Zenon
       DEF TypeOK, DispatchGuildEvent
<1>19. ASSUME NEW h \in Handlers, DispatchGuildMessageEvent(h)
      PROVE  TypeOK'
  <2>1. handler' \in [Handlers -> HandlerState]
    BY <1>19, <1>h, StepNames, InitialValuesTyped, Zenon
       DEF DispatchGuildMessageEvent, HandlerState
  <2>. QED
    BY <2>1, <1>19, <1>a, <1>t, <1>s, <1>g, <1>st, <1>r, <1>n, Zenon
       DEF TypeOK, DispatchGuildMessageEvent
<1>20. ASSUME NEW h \in Handlers, usersWithChannelVisibility(h)
      PROVE  TypeOK'
  <2>1. handler' \in [Handlers -> HandlerState]
    <3>1. ASSUME NEW v \in BOOLEAN, NEW w \in BOOLEAN
          PROVE  [handler EXCEPT ![h].pc = "invalidate", ![h].viewer = v, ![h].owed = w]
                   \in [Handlers -> HandlerState]
      BY <1>h, StepNames, ZenonT(30) DEF HandlerState
    <3>. QED  BY <1>20, <3>1, Zenon DEF usersWithChannelVisibility
  <2>. QED
    BY <2>1, <1>20, <1>a, <1>t, <1>s, <1>g, <1>st, <1>r, <1>n, Zenon
       DEF TypeOK, usersWithChannelVisibility
<1>21. ASSUME NEW h \in Handlers, invalidateGuildVisibility(h)
      PROVE  TypeOK'
  <2>1. state' \in UserState \cup {None}
    BY <1>21, <1>h, <1>st, InvalidationTyped, Zenon DEF invalidateGuildVisibility, HandlerState
  <2>2. hints' \in Nat
    BY <1>21, <1>n DEF invalidateGuildVisibility, invalidateVisibilityGuild
  <2>3. handler' \in [Handlers -> HandlerState]
    BY <1>21, <1>fi, <1>pr, StepNames, Zenon DEF invalidateGuildVisibility
  <2>. QED
    BY <2>1, <2>2, <2>3, <1>21, <1>a, <1>t, <1>s, <1>g, <1>r, Zenon
       DEF TypeOK, invalidateGuildVisibility
<1>22. ASSUME NEW h \in Handlers, attachGuildUser(h)
      PROVE  TypeOK'
  <2>1. session' \in [Sessions -> SessionState]
    <3>1. CASE handler[h].sessions = {}  BY <1>22, <3>1, <1>s, Zenon DEF attachGuildUser
    <3>2. CASE handler[h].sessions # {}
      <4>1. session' = [s \in Sessions |-> IF s \in handler[h].sessions
                         THEN [session[s] EXCEPT !.guild = TRUE] ELSE session[s]]
        BY <1>22, <3>2, Zenon DEF attachGuildUser
      <4>. QED  BY <4>1, <1>s, Zenon DEF SessionState
    <3>. QED  BY <3>1, <3>2, Zenon
  <2>2. guildIdx' \subseteq Sessions
    BY <1>22, <1>g, <1>h, Zenon DEF attachGuildUser, UserIdx, HandlerState
  <2>3. handler' \in [Handlers -> HandlerState]
    <3>1. UserIdx \in SUBSET Sessions  BY Zenon DEF UserIdx
    <3>2. [handler EXCEPT ![h].sessions = UserIdx] \in [Handlers -> HandlerState]
      BY <3>1, <1>h, Zenon DEF HandlerState
    <3>3. [handler EXCEPT ![h].pc = "attachInvalidate"] \in [Handlers -> HandlerState]
      BY <1>h, StepNames, Zenon DEF HandlerState
    <3>4. [handler EXCEPT ![h] = Idle] \in [Handlers -> HandlerState]
      BY <1>h, InitialValuesTyped, Zenon
    <3>. QED  BY <1>22, <3>2, <3>3, <3>4, Zenon DEF attachGuildUser, Goto, Finish
  <2>. QED
    BY <2>1, <2>2, <2>3, <1>22, <1>a, <1>t, <1>st, <1>r, <1>n, Zenon
       DEF TypeOK, attachGuildUser
<1>23. ASSUME NEW h \in Handlers, AttachInvalidate(h)
      PROVE  TypeOK'
  <2>1. state' \in UserState \cup {None}
    BY <1>23, <1>h, <1>st, InvalidationTyped, Zenon DEF AttachInvalidate, HandlerState
  <2>2. hints' \in Nat
    BY <1>23, <1>n DEF AttachInvalidate, invalidateVisibilityGuild
  <2>3. handler' \in [Handlers -> HandlerState]
    BY <1>23, <1>h, StepNames, InitialValuesTyped, Zenon DEF AttachInvalidate, Finish
  <2>. QED
    BY <2>1, <2>2, <2>3, <1>23, <1>a, <1>t, <1>s, <1>g, <1>r, Zenon
       DEF TypeOK, AttachInvalidate
<1>24. ASSUME NEW h \in Handlers, detachGuildUser(h)
      PROVE  TypeOK'
  <2>1. session' \in [Sessions -> SessionState]
    BY <1>24, <1>s, Zenon DEF detachGuildUser, SessionState
  <2>2. guildIdx' \subseteq Sessions
    BY <1>24, <1>g, Zenon DEF detachGuildUser
  <2>3. handler' \in [Handlers -> HandlerState]
    BY <1>24, <1>go, <1>fi, StepNames, Zenon DEF detachGuildUser
  <2>. QED
    BY <2>1, <2>2, <2>3, <1>24, <1>a, <1>t, <1>st, <1>r, <1>n, Zenon
       DEF TypeOK, detachGuildUser
<1>25. ASSUME NEW h \in Handlers, detachGuild(h)
      PROVE  TypeOK'
  <2>1. session' \in [Sessions -> SessionState]
    BY <1>25, <1>s, Zenon DEF detachGuild, SessionState
  <2>2. handler' \in [Handlers -> HandlerState]
    BY <1>25, <1>h, <1>g, StepNames, InitialValuesTyped, Zenon DEF detachGuild, HandlerState
  <2>. QED
    BY <2>1, <2>2, <1>25, <1>a, <1>t, <1>g, <1>st, <1>r, <1>n, Zenon DEF TypeOK, detachGuild
<1>26. ASSUME NEW h \in Handlers, DropIndex(h)
      PROVE  TypeOK'
  <2>1. guildIdx' \subseteq Sessions
    BY <1>26, Zenon DEF DropIndex
  <2>2. handler' \in [Handlers -> HandlerState]
    BY <1>26, <1>go, <1>fi, StepNames, Zenon DEF DropIndex
  <2>. QED
    BY <2>1, <2>2, <1>26, <1>a, <1>t, <1>s, <1>st, <1>r, <1>n, Zenon DEF TypeOK, DropIndex
<1>27. ASSUME NEW h \in Handlers, DropEntry(h)
      PROVE  TypeOK'
  <2>1. state' \in UserState \cup {None}
    BY <1>27, <1>st, Zenon DEF DropEntry, removeVisibilityGuild, SetEntry, UserState
  <2>2. hints' \in Nat
    BY <1>27, <1>n DEF DropEntry, removeVisibilityGuild
  <2>3. handler' \in [Handlers -> HandlerState]
    BY <1>27, <1>h, StepNames, InitialValuesTyped, Zenon DEF DropEntry, Finish
  <2>. QED
    BY <2>1, <2>2, <2>3, <1>27, <1>a, <1>t, <1>s, <1>g, <1>r, Zenon DEF TypeOK, DropEntry
<1>28. ASSUME NEW h \in Handlers, ensureVisibilitySnapshot(h)
      PROVE  TypeOK'
  <2>1. reload' \in ReloadState \cup {None}
    BY <1>28, <1>r, ReloadStepNames, InitialValuesTyped, Zenon DEF ensureVisibilitySnapshot
  <2>2. handler' \in [Handlers -> HandlerState]
    <3>1. ASSUME Cached
          PROVE  [handler EXCEPT ![h].pc = "decide", ![h].got = state.entry.snapshot]
                   \in [Handlers -> HandlerState]
      <4>1. state.entry.snapshot \in Snapshot \cup {None}
        BY <3>1, <1>en, Zenon DEF Cached, Entry
      <4>. QED  BY <4>1, <1>h, StepNames, Zenon DEF HandlerState
    <3>. QED  BY <1>28, <3>1, <1>go, <1>fi, StepNames, Zenon DEF ensureVisibilitySnapshot
  <2>. QED
    BY <2>1, <2>2, <1>28, <1>a, <1>t, <1>s, <1>g, <1>st, <1>n, Zenon
       DEF TypeOK, ensureVisibilitySnapshot
<1>29. ASSUME NEW h \in Handlers, ReloadTimeout(h)
      PROVE  TypeOK'
  <2>1. handler' \in [Handlers -> HandlerState]
    BY <1>29, <1>h, StepNames, Zenon DEF ReloadTimeout, Goto, HandlerState
  <2>. QED
    BY <2>1, <1>29, <1>a, <1>t, <1>s, <1>g, <1>st, <1>r, <1>n, Zenon DEF TypeOK, ReloadTimeout
<1>30. ASSUME NEW h \in Handlers, DeliverOrSkip(h)
      PROVE  TypeOK'
  <2>1. state' \in UserState \cup {None}
    <3>1. CASE handler[h].got = None /\ Hints
      <4>1. state \in UserState /\ state.entry \in Entry
        BY <3>1, <1>en, Zenon DEF Hints
      <4>2. state' = [state EXCEPT !.entry.reconcileSent = TRUE]
        BY <1>30, <3>1, Zenon DEF DeliverOrSkip, markVisibilityReconcile
      <4>. QED  BY <4>1, <4>2, Zenon DEF UserState, Entry
    <3>2. CASE ~(handler[h].got = None /\ Hints)
      BY <1>30, <3>2, <1>st, Zenon DEF DeliverOrSkip, markVisibilityReconcile
    <3>. QED  BY <3>1, <3>2, Zenon
  <2>2. hints' \in Nat
    BY <1>30, <1>n DEF DeliverOrSkip, markVisibilityReconcile
  <2>3. handler' \in [Handlers -> HandlerState]
    BY <1>30, <1>h, StepNames, InitialValuesTyped, Zenon DEF DeliverOrSkip, Finish
  <2>. QED
    BY <2>1, <2>2, <2>3, <1>30, <1>a, <1>t, <1>s, <1>g, <1>r, Zenon DEF TypeOK, DeliverOrSkip
<1>31. CASE UNCHANGED vars
  BY <1>31, <1>0, Zenon DEF vars, TypeOK
<1>. QED
  BY <1>1, <1>2, <1>3, <1>4, <1>5, <1>6, <1>7, <1>8, <1>9, <1>10, <1>11, <1>12, <1>13,
     <1>14, <1>15, <1>16, <1>17, <1>18, <1>19, <1>20, <1>21, <1>22, <1>23, <1>24, <1>25,
     <1>26, <1>27, <1>28, <1>29, <1>30, <1>31, Zenon DEF Next, Guild, Reload, SessionStep,
     HandlerStep

\* Guild's access revision only grows.
LEMMA RevisionGrows ==
  ASSUME TypeOK, [Next]_vars
  PROVE  Revision \in Nat /\ Revision' \in Nat /\ Revision <= Revision'
<1>a. access \in Seq(Sights)  BY Zenon DEF TypeOK
<1>1. ASSUME NEW type \in EventTypes, NEW sight \in Sights, Commit(type, sight)
      PROVE  Revision' = Revision + 1
  BY <1>1, <1>a DEF Commit, Revision
<1>2. ASSUME UNCHANGED access
      PROVE  Revision' = Revision
  BY <1>2, Zenon DEF Revision
<1>3. Revision \in Nat  BY <1>a DEF Revision
<1>4. Revision' = Revision + 1 \/ Revision' = Revision
  <2>1. CASE \E type \in EventTypes, sight \in Sights : Commit(type, sight)
    BY <2>1, <1>1, Zenon
  <2>2. CASE ~\E type \in EventTypes, sight \in Sights : Commit(type, sight)
    <3>1. UNCHANGED access
      <4>1. CASE Guild
        BY <4>1, <2>2, Zenon DEF Guild, UpdateWithoutAccess
      <4>2. CASE NotRouted  BY <4>2, Zenon DEF NotRouted
      <4>3. CASE Reload
        BY <4>3, Zenon DEF Reload, visibilityReloadTarget, ReadVisibilityRevision,
           ReadVisibilityChannels, installReloadedVisibilitySnapshot, ReloadFails, PublishReload
      <4>4. CASE \E s \in Sessions : SessionStep(s)
        BY <4>4, Zenon DEF SessionStep, ReadReadyGuilds, ReadReadyChannels, loadReadyGuildsFails,
           addSession, retainVisibilitySnapshots, removeSession, RemoveFromIndexes,
           releaseVisibilitySnapshots
      <4>5. CASE \E h \in Handlers : HandlerStep(h)
        BY <4>5, Zenon DEF HandlerStep, DispatchGuildEvent, DispatchGuildMessageEvent,
           usersWithChannelVisibility, invalidateGuildVisibility, attachGuildUser,
           AttachInvalidate, detachGuildUser, detachGuild, DropIndex, DropEntry,
           ensureVisibilitySnapshot, ReloadTimeout, DeliverOrSkip
      <4>6. CASE UNCHANGED vars  BY <4>6, Zenon DEF vars
      <4>. QED  BY <4>1, <4>2, <4>3, <4>4, <4>5, <4>6, Zenon DEF Next
    <3>. QED  BY <3>1, <1>2, Zenon
  <2>. QED  BY <2>1, <2>2, Zenon
<1>. QED  BY <1>3, <1>4

\* Outside IDENTIFY and removeSession, a step changes nothing of a session but
\* whether it is in the guild.
LEMMA OtherStepsKeepPhases ==
  ASSUME TypeOK, Guild \/ NotRouted \/ Reload \/ (\E h \in Handlers : HandlerStep(h))
                   \/ UNCHANGED vars
  PROVE  \A t \in Sessions : /\ session'[t].phase = session[t].phase
                             /\ session'[t].rev = session[t].rev
                             /\ session'[t].content = session[t].content
<1>s. session \in [Sessions -> SessionState]  BY Zenon DEF TypeOK
<1>1. ASSUME NEW S, NEW b, session' = [s \in Sessions |-> IF s \in S
                THEN [session[s] EXCEPT !.guild = b] ELSE session[s]],
             NEW t \in Sessions
      PROVE  /\ session'[t].phase = session[t].phase
             /\ session'[t].rev = session[t].rev
             /\ session'[t].content = session[t].content
  BY <1>1, <1>s, Zenon DEF SessionState
<1>2. CASE Guild  BY <1>2, Zenon DEF Guild, Commit, UpdateWithoutAccess
<1>3. CASE NotRouted  BY <1>3, Zenon DEF NotRouted
<1>4. CASE Reload
  BY <1>4, Zenon DEF Reload, visibilityReloadTarget, ReadVisibilityRevision,
     ReadVisibilityChannels, installReloadedVisibilitySnapshot, ReloadFails, PublishReload
<1>5. ASSUME NEW h \in Handlers, attachGuildUser(h), NEW t \in Sessions
      PROVE  /\ session'[t].phase = session[t].phase
             /\ session'[t].rev = session[t].rev
             /\ session'[t].content = session[t].content
  <2>1. CASE handler[h].sessions = {}  BY <1>5, <2>1, Zenon DEF attachGuildUser
  <2>2. CASE handler[h].sessions # {}
    <3>1. session' = [s \in Sessions |-> IF s \in handler[h].sessions
                       THEN [session[s] EXCEPT !.guild = TRUE] ELSE session[s]]
      BY <1>5, <2>2, Zenon DEF attachGuildUser
    <3>. QED  BY <3>1, <1>1, <1>5, Zenon
  <2>. QED  BY <2>1, <2>2, Zenon
<1>6. ASSUME NEW h \in Handlers, detachGuildUser(h), NEW t \in Sessions
      PROVE  /\ session'[t].phase = session[t].phase
             /\ session'[t].rev = session[t].rev
             /\ session'[t].content = session[t].content
  BY <1>6, <1>1, Zenon DEF detachGuildUser
<1>7. ASSUME NEW h \in Handlers, detachGuild(h), NEW t \in Sessions
      PROVE  /\ session'[t].phase = session[t].phase
             /\ session'[t].rev = session[t].rev
             /\ session'[t].content = session[t].content
  BY <1>7, <1>1, Zenon DEF detachGuild
<1>8. ASSUME NEW h \in Handlers, HandlerStep(h), ~attachGuildUser(h), ~detachGuildUser(h),
             ~detachGuild(h)
      PROVE  UNCHANGED session
  BY <1>8, Zenon DEF HandlerStep, DispatchGuildEvent, DispatchGuildMessageEvent,
     usersWithChannelVisibility, invalidateGuildVisibility, AttachInvalidate, DropIndex,
     DropEntry, ensureVisibilitySnapshot, ReloadTimeout, DeliverOrSkip
<1>9. CASE UNCHANGED vars  BY <1>9, Zenon DEF vars
<1>. QED  BY <1>2, <1>3, <1>4, <1>5, <1>6, <1>7, <1>8, <1>9, Zenon

\* Outside the reload itself, a step starts one or leaves it alone.
LEMMA OtherStepsKeepReload ==
  ASSUME Guild \/ NotRouted \/ (\E s \in Sessions : SessionStep(s))
           \/ (\E h \in Handlers : HandlerStep(h)) \/ UNCHANGED vars
  PROVE  reload' = reload \/ reload' = NewReload
<1>1. CASE Guild  BY <1>1, Zenon DEF Guild, Commit, UpdateWithoutAccess
<1>2. CASE NotRouted  BY <1>2, Zenon DEF NotRouted
<1>3. CASE \E s \in Sessions : SessionStep(s)
  BY <1>3, Zenon DEF SessionStep, ReadReadyGuilds, ReadReadyChannels, loadReadyGuildsFails,
     addSession, retainVisibilitySnapshots, removeSession, RemoveFromIndexes,
     releaseVisibilitySnapshots
<1>4. CASE \E h \in Handlers : HandlerStep(h)
  BY <1>4, Zenon DEF HandlerStep, DispatchGuildEvent, DispatchGuildMessageEvent,
     usersWithChannelVisibility, invalidateGuildVisibility, attachGuildUser, AttachInvalidate,
     detachGuildUser, detachGuild, DropIndex, DropEntry, ensureVisibilitySnapshot,
     ReloadTimeout, DeliverOrSkip
<1>5. CASE UNCHANGED vars  BY <1>5, Zenon DEF vars
<1>. QED  BY <1>1, <1>2, <1>3, <1>4, <1>5, Zenon

\* Every step keeps the reads in order: a label is read before its channels.
LEMMA OrderStep ==
  ASSUME TypeOK, ReadsInOrder, [Next]_vars
  PROVE  ReadsInOrder'
<1>s. session \in [Sessions -> SessionState]  BY Zenon DEF TypeOK
<1>r. reload \in ReloadState \cup {None}  BY Zenon DEF TypeOK
<1>a. Revision >= 1 /\ Revision \in Nat  BY DEF TypeOK, Revision
<1>g. Revision \in Nat /\ Revision' \in Nat /\ Revision <= Revision'  BY RevisionGrows, Zenon
<1>k. ASSUME NEW t \in Sessions, session'[t].phase = session[t].phase,
             session'[t].rev = session[t].rev, session'[t].content = session[t].content
      PROVE  SessionInOrder(t)'
  <2>1. SessionInOrder(t)  BY Zenon DEF ReadsInOrder
  <2>2. session[t].rev \in Int  BY <1>s DEF SessionState
  <2>. QED  BY <1>k, <2>1, <2>2, <1>g DEF SessionInOrder
<1>1. ASSUME NEW s \in Sessions, SessionStep(s), NEW t \in Sessions
      PROVE  SessionInOrder(t)'
  <2>1. CASE t # s
    <3>1. session'[t] = session[t]
      BY <1>1, <2>1, <1>s, Zenon DEF SessionStep, ReadReadyGuilds, ReadReadyChannels,
         loadReadyGuildsFails, addSession, retainVisibilitySnapshots, removeSession,
         RemoveFromIndexes, releaseVisibilitySnapshots, SetPhase
    <3>. QED  BY <3>1, <1>k, Zenon
  <2>2. CASE t = s
    <3>t. session[s] \in SessionState  BY <1>s, Zenon
    <3>o. SessionInOrder(s)  BY Zenon DEF ReadsInOrder
    <3>1. CASE ReadReadyGuilds(s)
      <4>1. session'[s].phase = "reading" /\ session'[s].rev = Revision /\ UNCHANGED access
        BY <3>1, <1>s, <3>t, Zenon DEF ReadReadyGuilds, SessionState
      <4>. QED  BY <4>1, <2>2, <1>a, <1>g DEF SessionInOrder, Revision
    <3>2. CASE ReadReadyChannels(s)
      <4>1. /\ session[s].phase = "reading" /\ session'[s].phase = "loaded"
            /\ session'[s].rev = session[s].rev /\ session'[s].content = Revision
        BY <3>2, <1>s, <3>t, Zenon DEF ReadReadyChannels, SessionState
      <4>2. session[s].rev \in 1 .. Revision  BY <4>1, <3>o, Zenon DEF SessionInOrder
      <4>. QED  BY <4>1, <4>2, <2>2, <1>g DEF SessionInOrder
    <3>3. CASE addSession(s)
      <4>1. /\ session[s].phase = "loaded" /\ session'[s].phase = "indexed"
            /\ session'[s].rev = session[s].rev /\ session'[s].content = session[s].content
        BY <3>3, <1>s, <3>t, Zenon DEF addSession, SetPhase, SessionState
      <4>2. session[s].rev \in 1 .. Revision /\ session[s].rev <= session[s].content
        BY <4>1, <3>o, Zenon DEF SessionInOrder
      <4>. QED  BY <4>1, <4>2, <2>2, <1>g DEF SessionInOrder
    <3>4. CASE retainVisibilitySnapshots(s) \/ removeSession(s) \/ releaseVisibilitySnapshots(s)
      <4>1. session'[s].phase \in {"live", "leaving", "gone"}
        BY <3>4, <1>s, <3>t DEF retainVisibilitySnapshots, removeSession,
           releaseVisibilitySnapshots, SetPhase, SessionState
      <4>. QED  BY <4>1, <2>2, Zenon DEF SessionInOrder
    <3>5. CASE loadReadyGuildsFails(s) \/ RemoveFromIndexes(s)
      <4>1. session'[s].phase \in {"gone", "unindexed"}
        BY <3>5, <1>s, <3>t, Zenon DEF loadReadyGuildsFails, RemoveFromIndexes, NewSession
      <4>. QED  BY <4>1, <2>2, Zenon DEF SessionInOrder
    <3>. QED  BY <1>1, <3>1, <3>2, <3>3, <3>4, <3>5, Zenon DEF SessionStep
  <2>. QED  BY <2>1, <2>2, Zenon
<1>2. \A t \in Sessions : SessionInOrder(t)'
  <2>1. CASE \E s \in Sessions : SessionStep(s)  BY <2>1, <1>1, Zenon
  <2>2. CASE Guild \/ NotRouted \/ Reload \/ (\E h \in Handlers : HandlerStep(h))
               \/ UNCHANGED vars
    BY <2>2, <1>k, OtherStepsKeepPhases, Zenon
  <2>. QED  BY <2>1, <2>2, Zenon DEF Next
<1>3. ReloadInOrder'
  <2>o. ReloadInOrder  BY Zenon DEF ReadsInOrder
  <2>k. ASSUME reload' = reload \/ reload' = NewReload
        PROVE  ReloadInOrder'
    BY <2>k, <2>o, <1>r, <1>g DEF ReloadInOrder, NewReload, ReloadState
  <2>e. ASSUME NEW snap, ReloadEnds(snap)
        PROVE  ReloadInOrder'
    BY <2>e, Zenon DEF ReloadEnds, NewReload, ReloadInOrder
  <2>1. CASE visibilityReloadTarget
    <3>1. CASE HasEntry /\ state.references # 0
      <4>1. reload'.pc = "revision"
        BY <2>1, <3>1, <1>r, Zenon DEF visibilityReloadTarget, ReloadState
      <4>. QED  BY <4>1, Zenon DEF ReloadInOrder
    <3>2. CASE ~(HasEntry /\ state.references # 0)
      BY <2>1, <3>2, <2>e, Zenon DEF visibilityReloadTarget
    <3>. QED  BY <3>1, <3>2, Zenon
  <2>2. CASE ReadVisibilityRevision
    <3>1. CASE access[Revision] = "none"
      BY <2>2, <3>1, <2>e, Zenon DEF ReadVisibilityRevision
    <3>2. CASE access[Revision] # "none"
      <4>1. reload'.pc = "content" /\ reload'.rev = Revision /\ UNCHANGED access
        BY <2>2, <3>2, <1>r, Zenon DEF ReadVisibilityRevision, ReloadState
      <4>. QED  BY <4>1, <1>a, <1>g DEF ReloadInOrder
    <3>. QED  BY <3>1, <3>2, Zenon
  <2>3. CASE ReadVisibilityChannels
    <3>1. CASE StaleAnswer
      BY <2>3, <3>1, <2>e, Zenon DEF ReadVisibilityChannels
    <3>2. CASE ~StaleAnswer
      <4>1. /\ reload # None /\ reload.pc = "content"
            /\ reload'.rev = reload.rev /\ reload'.content = Revision
        BY <2>3, <3>2, <1>r, Zenon DEF ReadVisibilityChannels, ReloadState
      <4>2. reload.rev \in 1 .. Revision  BY <4>1, <2>o, Zenon DEF ReloadInOrder
      <4>. QED  BY <4>1, <4>2, <1>g DEF ReloadInOrder
    <3>. QED  BY <3>1, <3>2, Zenon
  <2>4. CASE installReloadedVisibilitySnapshot
    <3>1. CASE Installs \/ ~(reload.attempt < MaxAttempts)
      BY <2>4, <3>1, <2>e, Zenon DEF installReloadedVisibilitySnapshot
    <3>2. CASE ~Installs /\ reload.attempt < MaxAttempts
      <4>1. reload'.pc = "target"
        BY <2>4, <3>2, Zenon DEF installReloadedVisibilitySnapshot, NewReload
      <4>. QED  BY <4>1, Zenon DEF ReloadInOrder
    <3>. QED  BY <3>1, <3>2, Zenon
  <2>5. CASE ReloadFails  BY <2>5, <2>e, Zenon DEF ReloadFails
  <2>6. CASE PublishReload  BY <2>6, Zenon DEF PublishReload, ReloadInOrder
  <2>7. CASE ~Reload  BY <2>7, <2>k, OtherStepsKeepReload, Zenon DEF Next
  <2>. QED  BY <2>1, <2>2, <2>3, <2>4, <2>5, <2>6, <2>7, Zenon DEF Reload
<1>. QED  BY <1>2, <1>3, Zenon DEF ReadsInOrder

\* The types hold for every number of sessions and handlers and all bounds:
\* the reload makes two attempts at most, revisions and contents of snapshots
\* are revisions Guild has had.
THEOREM VisibilityTypeCorrect == Spec => [](TypeOK /\ ReadsInOrder)
<1>1. Init => TypeOK /\ ReadsInOrder
  <2> SUFFICES ASSUME Init PROVE TypeOK /\ ReadsInOrder  OBVIOUS
  <2>1. PICK sight \in Sights : access = <<sight>>  BY Zenon DEF Init
  <2>2. access \in Seq(Sights) /\ Len(access) = 1  BY <2>1
  <2>3. session = [s \in Sessions |-> NewSession] /\ handler = [h \in Handlers |-> Idle]
    BY Zenon DEF Init
  <2>4. session \in [Sessions -> SessionState] /\ handler \in [Handlers -> HandlerState]
    BY <2>3, InitialValuesTyped, Zenon
  <2>5. TypeOK
    BY <2>2, <2>4, ConstantsAssumption DEF Init, TypeOK
  <2>6. ReadsInOrder
    BY <2>3 DEF Init, ReadsInOrder, ReloadInOrder, SessionInOrder, NewSession
  <2>. QED  BY <2>5, <2>6, Zenon
<1>2. TypeOK /\ ReadsInOrder /\ [Next]_vars => (TypeOK /\ ReadsInOrder)'
  BY TypeStep, OrderStep, Zenon
<1>. QED  BY <1>1, <1>2, PTL DEF Spec

-----------------------------------------------------------------------------
(* The entry: its labels, its hints, and who holds it.                      *)

\* A retained snapshot's label is at least the required revision and at most
\* the revision its channels were read at.
EntryMeets(e) ==
  e # None /\ e.snapshot # None =>
    e.required <= e.snapshot.rev /\ e.snapshot.rev <= e.snapshot.content

LabelsMeetRequired == state # None => EntryMeets(state.entry)

\* An entry that would still hint has not hinted since its invalidation.
EntryHinted(e, n) ==
  /\ e = None => n = 0
  /\ e # None /\ e.snapshot = None /\ ~e.reconcileSent => n = 0

HintRecorded ==
  /\ hints \in {0, 1}
  /\ state = None => hints = 0
  /\ state # None => EntryHinted(state.entry, hints)

\* The state exists exactly while a session holds it, and counts those.
ReferencesCounted ==
  /\ state = None => Holding = {}
  /\ state # None => state.references = Cardinality(Holding) /\ state.references >= 1

\* A step that neither creates nor drops the user's state, nor changes its
\* references.
ReferencesKept ==
  /\ state = None => state' = None
  /\ state # None => state' # None /\ state'.references = state.references

\* The entry changes by IDENTIFY, by the end of a session, by the invalidations
\* and removals of the event handlers, by a hint and by an install, and by
\* nothing else.
StateSteps ==
  \/ \E s \in Sessions : retainVisibilitySnapshots(s) \/ releaseVisibilitySnapshots(s)
  \/ \E h \in Handlers : \/ invalidateGuildVisibility(h) \/ AttachInvalidate(h)
                         \/ DropEntry(h) \/ DeliverOrSkip(h)
  \/ installReloadedVisibilitySnapshot

\* The other steps leave the user's state and the hints alone.
LEMMA OtherStepsKeepState ==
  ASSUME [Next]_vars, ~StateSteps
  PROVE  UNCHANGED <<state, hints>>
<1>1. CASE Guild  BY <1>1, Zenon DEF Guild, Commit, UpdateWithoutAccess
<1>2. CASE NotRouted  BY <1>2, Zenon DEF NotRouted
<1>3. CASE Reload
  BY <1>3, Zenon DEF StateSteps, Reload, visibilityReloadTarget, ReadVisibilityRevision,
     ReadVisibilityChannels, ReloadFails, PublishReload
<1>4. CASE \E s \in Sessions : SessionStep(s)
  BY <1>4, Zenon DEF StateSteps, SessionStep, ReadReadyGuilds, ReadReadyChannels,
     loadReadyGuildsFails, addSession, removeSession, RemoveFromIndexes
<1>5. CASE \E h \in Handlers : HandlerStep(h)
  BY <1>5, Zenon DEF StateSteps, HandlerStep, DispatchGuildEvent, DispatchGuildMessageEvent,
     usersWithChannelVisibility, attachGuildUser, detachGuildUser, detachGuild, DropIndex,
     ensureVisibilitySnapshot, ReloadTimeout
<1>6. CASE UNCHANGED vars  BY <1>6, Zenon DEF vars
<1>. QED  BY <1>1, <1>2, <1>3, <1>4, <1>5, <1>6, Zenon DEF Next

\* A new entry in the user's state is all that changes of it.
LEMMA EntryUpdate ==
  ASSUME NEW u \in UserState, NEW e \in Entry \cup {None}
  PROVE  /\ [u EXCEPT !.entry = e] \in UserState
         /\ [u EXCEPT !.entry = e].entry = e
         /\ [u EXCEPT !.entry = e].references = u.references
         /\ [u EXCEPT !.entry = e] # None
<1>1. [u EXCEPT !.entry = e] \in UserState  BY Zenon DEF UserState
<1>2. [u EXCEPT !.entry = e].entry = e /\ [u EXCEPT !.entry = e].references = u.references
  BY Zenon DEF UserState
<1>. QED  BY <1>1, <1>2, NoneAssumption, Zenon

\* What an invalidation does to an entry keeps its labels in order and its
\* hints counted: it drops the snapshot or leaves the entry as it is.
LEMMA InvalidationKeeps ==
  ASSUME state \in UserState \cup {None}, NEW r \in 0 .. MaxRevision,
         invalidateVisibilityGuild(r), LabelsMeetRequired, HintRecorded
  PROVE  LabelsMeetRequired' /\ HintRecorded' /\ ReferencesKept
<1>1. CASE state = None
  BY <1>1, Zenon DEF invalidateVisibilityGuild, LabelsMeetRequired, HintRecorded, ReferencesKept
<1>2. CASE state # None
  <2> DEFINE e == IF state.entry = None THEN NewEntry ELSE state.entry
             f == Invalidated(e, r)
  <2>1. state \in UserState /\ state' = [state EXCEPT !.entry = f]
    BY <1>2, Zenon DEF invalidateVisibilityGuild, SetEntry
  <2>2. hints' = IF Ignored(e, r) THEN hints ELSE 0
    BY <1>2, Zenon DEF invalidateVisibilityGuild
  <2>3. e \in Entry
    BY <2>1, InitialValuesTyped, Zenon DEF UserState
  <2>4. EntryMeets(e) /\ hints \in {0, 1} /\ EntryHinted(e, hints)
    BY <1>2, Zenon DEF LabelsMeetRequired, HintRecorded, EntryMeets, EntryHinted, NewEntry
  <2> HIDE DEF e
  <2>5. f \in Entry
    BY <2>3, ConstantsAssumption DEF Invalidated, Ignored, Entry, Max2
  <2>6. f # None  BY <2>5, NoneAssumption, Zenon
  <2>7. CASE Ignored(e, r)
    <3>1. f = e /\ hints' = hints  BY <2>7, <2>2, Zenon DEF Invalidated
    <3>2. state'.entry = e /\ state' # None /\ state'.references = state.references
      BY <2>1, <2>5, <3>1, EntryUpdate, Zenon
    <3>. QED  BY <3>1, <3>2, <2>4, <1>2, Zenon DEF LabelsMeetRequired, HintRecorded, ReferencesKept
  <2>8. CASE ~Ignored(e, r)
    <3>1. f.snapshot = None /\ hints' = 0  BY <2>8, <2>2, Zenon DEF Invalidated
    <3> HIDE DEF f
    <3>2. state'.entry = f /\ state' # None /\ state'.references = state.references
      BY <2>1, <2>5, EntryUpdate, Zenon
    <3>. QED
      BY <3>1, <3>2, <2>6, <1>2, Zenon
         DEF LabelsMeetRequired, HintRecorded, ReferencesKept, EntryMeets, EntryHinted
  <2>. QED  BY <2>7, <2>8, Zenon
<1>. QED  BY <1>1, <1>2, Zenon

\* Every step of the entry keeps its labels in order and its hints counted.
LEMMA EntryStep ==
  ASSUME TypeOK, ReadsInOrder, LabelsMeetRequired, HintRecorded, [Next]_vars
  PROVE  /\ LabelsMeetRequired' /\ HintRecorded'
         /\ (\E s \in Sessions : retainVisibilitySnapshots(s)) => state' # None
         /\ ~(\E s \in Sessions : retainVisibilitySnapshots(s) \/ releaseVisibilitySnapshots(s))
              => ReferencesKept
<1>st. state \in UserState \cup {None}  BY Zenon DEF TypeOK
<1>n. hints \in {0, 1}  BY Zenon DEF HintRecorded
<1>1. ASSUME NEW s \in Sessions, retainVisibilitySnapshots(s)
      PROVE  LabelsMeetRequired' /\ HintRecorded' /\ state' # None
  <2> DEFINE old == IF state = None THEN [references |-> 0, entry |-> None] ELSE state
             snap == ReadySnapshot(s)
             e == IF access[session[s].rev] # "none" THEN Retained(old.entry, snap) ELSE old.entry
  <2>1. state' = [references |-> old.references + 1, entry |-> e] /\ hints' = hints
    BY <1>1, Zenon DEF retainVisibilitySnapshots
  <2>2. old.references \in Nat /\ old.entry \in Entry \cup {None}
    BY <1>st, Zenon DEF UserState
  <2>3. EntryMeets(old.entry) /\ EntryHinted(old.entry, hints)
    BY Zenon DEF LabelsMeetRequired, HintRecorded, EntryMeets, EntryHinted
  <2>4. snap \in Snapshot /\ snap.rev <= snap.content
    <3>1. session[s] \in SessionState /\ session[s].phase = "indexed"
      BY <1>1, Zenon DEF TypeOK, retainVisibilitySnapshots
    <3>2. session[s].rev \in 1 .. Revision /\ session[s].rev <= session[s].content
      BY <3>1, Zenon DEF ReadsInOrder, SessionInOrder
    <3>3. Revision \in 1 .. MaxRevision  BY Zenon DEF TypeOK, Revision
    <3>. QED
      BY <3>1, <3>2, <3>3, ConstantsAssumption DEF ReadySnapshot, Snapshot, SessionState
  <2>5. snap # None  BY <2>4, NoneAssumption, Zenon
  <2> HIDE DEF old, snap
  <2>6. /\ Retained(old.entry, snap) \in Entry
        /\ EntryMeets(Retained(old.entry, snap)) /\ EntryHinted(Retained(old.entry, snap), hints)
    <3>1. CASE old.entry = None
      <4>1. Retained(old.entry, snap) = [NewEntry EXCEPT !.snapshot = snap]
        BY <3>1, Zenon DEF Retained
      <4>2. [NewEntry EXCEPT !.snapshot = snap] \in Entry
        BY <2>4, InitialValuesTyped, Zenon DEF Entry
      <4>3. hints = 0  BY <3>1, <2>3, Zenon DEF EntryHinted
      <4>4. /\ [NewEntry EXCEPT !.snapshot = snap].snapshot = snap
            /\ [NewEntry EXCEPT !.snapshot = snap].required = 0
        BY Zenon DEF NewEntry
      <4>. QED  BY <4>1, <4>2, <4>3, <4>4, <2>4 DEF EntryMeets, EntryHinted, Snapshot
    <3>2. CASE old.entry # None /\ Adopts(old.entry, snap)
      <4> DEFINE f == [old.entry EXCEPT !.snapshot = snap, !.reconcileSent = FALSE]
      <4>1. Retained(old.entry, snap) = f  BY <3>2, Zenon DEF Retained
      <4>2. old.entry \in Entry  BY <3>2, <2>2, Zenon
      <4>3. f \in Entry  BY <4>2, <2>4, Zenon DEF Entry
      <4>4. f.snapshot = snap /\ f.required = old.entry.required
        BY <4>2, Zenon DEF Entry
      <4>5. f # None  BY <4>3, NoneAssumption, Zenon
      <4>6. old.entry.required <= snap.rev
        BY <3>2, <4>2, <2>4, Zenon DEF Adopts, Entry, Snapshot
      <4> HIDE DEF f
      <4>. QED  BY <4>1, <4>3, <4>4, <4>5, <4>6, <2>4, <2>5, Zenon DEF EntryMeets, EntryHinted
    <3>3. CASE old.entry # None /\ ~Adopts(old.entry, snap)
      BY <3>3, <2>2, <2>3, Zenon DEF Retained
    <3>. QED  BY <3>1, <3>2, <3>3, Zenon
  <2>7. e \in Entry \cup {None} /\ EntryMeets(e) /\ EntryHinted(e, hints)
    BY <2>2, <2>3, <2>6, Zenon
  <2> HIDE DEF e
  <2>8. state' \in UserState /\ state'.entry = e  BY <2>1, <2>2, <2>7 DEF UserState
  <2>9. state' # None  BY <2>8, NoneAssumption, Zenon
  <2>. QED  BY <2>1, <2>7, <2>8, <2>9, <1>n, Zenon DEF LabelsMeetRequired, HintRecorded
<1>2. ASSUME NEW s \in Sessions, releaseVisibilitySnapshots(s)
      PROVE  LabelsMeetRequired' /\ HintRecorded'
  <2>1. CASE state = None \/ LastReference(state.references)
    BY <1>2, <2>1, Zenon DEF releaseVisibilitySnapshots, LabelsMeetRequired, HintRecorded
  <2>2. CASE state # None /\ ~LastReference(state.references)
    <3>1. state' = [state EXCEPT !.references = state.references - 1] /\ hints' = hints
      BY <1>2, <2>2, Zenon DEF releaseVisibilitySnapshots
    <3>2. state \in UserState  BY <2>2, <1>st, Zenon
    <3>3. state'.entry = state.entry  BY <3>1, <3>2, Zenon DEF UserState
    <3>4. state' \in UserState  BY <3>1, <3>2, <2>2 DEF UserState, LastReference
    <3>5. state' # None  BY <3>4, NoneAssumption, Zenon
    <3>. QED
      BY <3>1, <3>3, <3>5, <2>2, Zenon DEF LabelsMeetRequired, HintRecorded, EntryHinted
  <2>. QED  BY <2>1, <2>2, Zenon
<1>3. ASSUME NEW h \in Handlers, invalidateGuildVisibility(h)
      PROVE  LabelsMeetRequired' /\ HintRecorded' /\ ReferencesKept
  <2>1. handler[h].rev \in 0 .. MaxRevision  BY Zenon DEF TypeOK, HandlerState
  <2>2. CASE guildIdx = {}
    BY <1>3, <2>2, Zenon
       DEF invalidateGuildVisibility, LabelsMeetRequired, HintRecorded, ReferencesKept
  <2>3. CASE guildIdx # {}
    BY <1>3, <2>1, <2>3, <1>st, InvalidationKeeps, Zenon DEF invalidateGuildVisibility
  <2>. QED  BY <2>2, <2>3, Zenon
<1>4. ASSUME NEW h \in Handlers, AttachInvalidate(h)
      PROVE  LabelsMeetRequired' /\ HintRecorded' /\ ReferencesKept
  <2>1. handler[h].rev \in 0 .. MaxRevision  BY Zenon DEF TypeOK, HandlerState
  <2>. QED  BY <1>4, <2>1, <1>st, InvalidationKeeps, Zenon DEF AttachInvalidate
<1>5. ASSUME NEW h \in Handlers, DropEntry(h)
      PROVE  LabelsMeetRequired' /\ HintRecorded' /\ ReferencesKept
  <2>1. CASE state = None
    BY <1>5, <2>1, Zenon
       DEF DropEntry, removeVisibilityGuild, LabelsMeetRequired, HintRecorded, ReferencesKept
  <2>2. CASE state # None
    <3>1. state' = [state EXCEPT !.entry = None] /\ hints' = 0
      BY <1>5, <2>2, Zenon DEF DropEntry, removeVisibilityGuild, SetEntry
    <3>2. state'.entry = None /\ state' # None /\ state'.references = state.references
      BY <3>1, <2>2, <1>st, EntryUpdate, Zenon
    <3>. QED
      BY <2>2, <3>1, <3>2, Zenon
         DEF LabelsMeetRequired, HintRecorded, ReferencesKept, EntryMeets, EntryHinted
  <2>. QED  BY <2>1, <2>2, Zenon
<1>6. ASSUME NEW h \in Handlers, DeliverOrSkip(h)
      PROVE  LabelsMeetRequired' /\ HintRecorded' /\ ReferencesKept
  <2>1. CASE handler[h].got = None /\ Hints
    <3> DEFINE f == [state.entry EXCEPT !.reconcileSent = TRUE]
    <3>1. state # None /\ state.entry # None /\ state.entry.snapshot = None /\ hints = 0
      BY <2>1, Zenon DEF Hints, HasEntry, HintRecorded, EntryHinted
    <3>2. state \in UserState /\ state.entry \in Entry  BY <3>1, <1>st, Zenon DEF UserState
    <3>3. state' = [state EXCEPT !.entry = f] /\ hints' = 1
      BY <1>6, <2>1, <3>1 DEF DeliverOrSkip, markVisibilityReconcile
    <3>4. f \in Entry /\ f.snapshot = None /\ f.reconcileSent = TRUE
      BY <3>1, <3>2, Zenon DEF Entry
    <3> HIDE DEF f
    <3>5. state'.entry = f /\ state' # None /\ state'.references = state.references
      BY <3>2, <3>3, <3>4, EntryUpdate, Zenon
    <3>6. f # None  BY <3>4, NoneAssumption, Zenon
    <3>. QED
      BY <3>1, <3>3, <3>4, <3>5, <3>6, Zenon
         DEF LabelsMeetRequired, HintRecorded, ReferencesKept, EntryMeets, EntryHinted
  <2>2. CASE ~(handler[h].got = None /\ Hints)
    BY <1>6, <2>2, Zenon
       DEF DeliverOrSkip, markVisibilityReconcile, LabelsMeetRequired, HintRecorded,
           ReferencesKept
  <2>. QED  BY <2>1, <2>2, Zenon
<1>7. ASSUME installReloadedVisibilitySnapshot
      PROVE  LabelsMeetRequired' /\ HintRecorded' /\ ReferencesKept
  <2>1. CASE Installs
    <3> DEFINE f == [state.entry EXCEPT !.snapshot = Candidate, !.reconcileSent = FALSE]
    <3>1. state # None /\ state.entry # None /\ reload.rev >= state.entry.required
      BY <2>1, Zenon DEF Installs, HasEntry
    <3>2. state \in UserState /\ state.entry \in Entry  BY <3>1, <1>st, Zenon DEF UserState
    <3>3. state' = [state EXCEPT !.entry = f] /\ hints' = hints
      BY <1>7, <2>1, <3>1, Zenon DEF installReloadedVisibilitySnapshot
    <3>4. /\ Candidate \in Snapshot /\ Candidate.rev = reload.rev
          /\ Candidate.rev <= Candidate.content
      <4>1. reload \in ReloadState /\ reload # None /\ reload.pc = "install"
        BY <1>7, Zenon DEF installReloadedVisibilitySnapshot, TypeOK
      <4>2. reload.rev \in 1 .. Revision /\ reload.rev <= reload.content
        BY <4>1, Zenon DEF ReadsInOrder, ReloadInOrder
      <4>3. Revision \in 1 .. MaxRevision  BY Zenon DEF TypeOK, Revision
      <4>. QED
        BY <4>1, <4>2, <4>3, ConstantsAssumption DEF Candidate, Snapshot, ReloadState
    <3>5. Candidate # None  BY <3>4, NoneAssumption, Zenon
    <3>6. f \in Entry /\ f.snapshot = Candidate /\ f.required = state.entry.required
      BY <3>2, <3>4, Zenon DEF Entry
    <3>7. f.required <= Candidate.rev
      BY <3>1, <3>2, <3>4, <3>6, Zenon DEF Entry, Snapshot
    <3> HIDE DEF f
    <3>8. f # None  BY <3>6, NoneAssumption, Zenon
    <3>9. state'.entry = f /\ state' # None /\ state'.references = state.references
      BY <3>2, <3>3, <3>6, EntryUpdate, Zenon
    <3>10. EntryMeets(f) /\ EntryHinted(f, hints)
      BY <3>4, <3>5, <3>6, <3>7, <3>8, Zenon DEF EntryMeets, EntryHinted
    <3>. QED
      BY <3>1, <3>3, <3>9, <3>10, <1>n, Zenon DEF LabelsMeetRequired, HintRecorded, ReferencesKept
  <2>2. CASE ~Installs
    BY <1>7, <2>2, Zenon
       DEF installReloadedVisibilitySnapshot, LabelsMeetRequired, HintRecorded, ReferencesKept
  <2>. QED  BY <2>1, <2>2, Zenon
<1>8. CASE ~StateSteps
  <2>1. state' = state /\ hints' = hints  BY <1>8, OtherStepsKeepState, Zenon
  <2>2. LabelsMeetRequired'  BY <2>1, Zenon DEF LabelsMeetRequired, EntryMeets
  <2>3. HintRecorded'  BY <2>1, Zenon DEF HintRecorded, EntryHinted
  <2>4. ReferencesKept  BY <2>1, Zenon DEF ReferencesKept
  <2>. QED  BY <1>8, <2>2, <2>3, <2>4, Zenon DEF StateSteps
<1>. QED  BY <1>1, <1>2, <1>3, <1>4, <1>5, <1>6, <1>7, <1>8, Zenon DEF StateSteps

\* Outside retain and release the set of holding sessions stays the same.
LEMMA OtherStepsKeepHolding ==
  ASSUME TypeOK, [Next]_vars,
         ~\E s \in Sessions : retainVisibilitySnapshots(s) \/ releaseVisibilitySnapshots(s)
  PROVE  Holding' = Holding
<1>s. session \in [Sessions -> SessionState]  BY Zenon DEF TypeOK
<1>k. ASSUME \A t \in Sessions : session'[t].phase = session[t].phase
      PROVE  Holding' = Holding
  BY <1>k, Zenon DEF Holding
<1>1. CASE Guild \/ NotRouted \/ Reload \/ (\E h \in Handlers : HandlerStep(h))
             \/ UNCHANGED vars
  BY <1>1, <1>k, OtherStepsKeepPhases, Zenon
<1>2. ASSUME NEW s \in Sessions, SessionStep(s)
      PROVE  Holding' = Holding
  <2>1. ASSUME NEW t \in Sessions, t # s  PROVE session'[t] = session[t]
    BY <1>2, <2>1, <1>s, Zenon DEF SessionStep, ReadReadyGuilds, ReadReadyChannels,
       loadReadyGuildsFails, addSession, retainVisibilitySnapshots, removeSession,
       RemoveFromIndexes, releaseVisibilitySnapshots, SetPhase
  <2>t. session[s] \in SessionState  BY <1>s, Zenon
  <2>2. CASE ReadReadyGuilds(s) \/ ReadReadyChannels(s) \/ addSession(s)
    <3>1. session[s].phase \in {"new", "reading", "loaded"}
      BY <2>2, Zenon DEF ReadReadyGuilds, ReadReadyChannels, addSession
    <3>2. session'[s].phase \in {"reading", "loaded", "indexed"}
      BY <2>2, <1>s, <2>t
         DEF ReadReadyGuilds, ReadReadyChannels, addSession, SetPhase, SessionState
    <3>. QED  BY <2>1, <3>1, <3>2, Zenon DEF Holding
  <2>3. CASE loadReadyGuildsFails(s)
    <3>1. session[s].phase \in {"reading", "loaded"} /\ session'[s].phase = "gone"
      BY <2>3, <1>s, Zenon DEF loadReadyGuildsFails, NewSession
    <3>. QED  BY <2>1, <3>1, Zenon DEF Holding
  <2>4. CASE removeSession(s)
    <3>1. session[s].phase = "live" /\ session'[s].phase = "leaving"
      BY <2>4, <1>s, <2>t, Zenon DEF removeSession, SessionState
    <3>. QED  BY <2>1, <3>1, Zenon DEF Holding
  <2>5. CASE RemoveFromIndexes(s)
    <3>1. session[s].phase = "leaving" /\ session'[s].phase = "unindexed"
      BY <2>5, <1>s, Zenon DEF RemoveFromIndexes, NewSession
    <3>. QED  BY <2>1, <3>1, Zenon DEF Holding
  <2>. QED  BY <1>2, <2>2, <2>3, <2>4, <2>5, Zenon DEF SessionStep
<1>. QED  BY <1>1, <1>2, Zenon DEF Next

\* Every step keeps the count of references: retain adds the session that
\* becomes a holder, release takes away the one that ceases to be.
LEMMA ReferencesStep ==
  ASSUME TypeOK, ReadsInOrder, LabelsMeetRequired, HintRecorded, ReferencesCounted, [Next]_vars
  PROVE  ReferencesCounted'
<1>s. session \in [Sessions -> SessionState]  BY Zenon DEF TypeOK
<1>st. state \in UserState \cup {None}  BY Zenon DEF TypeOK
<1>f. IsFiniteSet(Holding)
  <2>1. Holding \subseteq Sessions  BY Zenon DEF Holding
  <2>. QED  BY <2>1, ConstantsAssumption, FS_Subset, Zenon
<1>c. Cardinality(Holding) \in Nat  BY <1>f, FS_CardinalityType, Zenon
<1>1. ASSUME NEW s \in Sessions, retainVisibilitySnapshots(s)
      PROVE  ReferencesCounted'
  <2>0. state' # None  BY <1>1, EntryStep, Zenon
  <2>1. session[s].phase = "indexed" /\ session'[s].phase = "live"
    BY <1>1, <1>s, Zenon DEF retainVisibilitySnapshots, SessionState
  <2>2. \A t \in Sessions : t # s => session'[t] = session[t]
    BY <1>1, <1>s, Zenon DEF retainVisibilitySnapshots
  <2>3. s \notin Holding /\ Holding' = Holding \cup {s}
    BY <2>1, <2>2, Zenon DEF Holding
  <2>4. Cardinality(Holding') = Cardinality(Holding) + 1
    BY <2>3, <1>f, FS_AddElement, Zenon
  <2>5. CASE state = None
    <3>1. Cardinality(Holding) = 0  BY <2>5, FS_EmptySet, Zenon DEF ReferencesCounted
    <3>2. state'.references = 1  BY <1>1, <2>5 DEF retainVisibilitySnapshots
    <3>. QED  BY <3>1, <3>2, <2>4, <2>0 DEF ReferencesCounted
  <2>6. CASE state # None
    <3>1. state'.references = state.references + 1
      BY <1>1, <2>6, Zenon DEF retainVisibilitySnapshots
    <3>. QED  BY <3>1, <2>4, <2>6, <1>c, <2>0 DEF ReferencesCounted
  <2>. QED  BY <2>5, <2>6, Zenon
<1>2. ASSUME NEW s \in Sessions, releaseVisibilitySnapshots(s)
      PROVE  ReferencesCounted'
  <2>1. session[s].phase = "unindexed" /\ session'[s].phase = "gone"
    BY <1>2, <1>s, Zenon DEF releaseVisibilitySnapshots, SetPhase, SessionState
  <2>2. \A t \in Sessions : t # s => session'[t] = session[t]
    BY <1>2, <1>s, Zenon DEF releaseVisibilitySnapshots, SetPhase
  <2>3. s \in Holding /\ Holding' = Holding \ {s}
    BY <2>1, <2>2, Zenon DEF Holding
  <2>4. IsFiniteSet(Holding') /\ Cardinality(Holding') = Cardinality(Holding) - 1
    BY <2>3, <1>f, FS_RemoveElement, Zenon
  <2>5. state # None /\ state.references = Cardinality(Holding) /\ state.references >= 1
    BY <2>3, Zenon DEF ReferencesCounted
  <2>6. CASE LastReference(state.references)
    <3>1. Cardinality(Holding') = 0
      BY <2>4, <2>5, <2>6, <1>c DEF LastReference
    <3>2. Holding' = {}  BY <3>1, <2>4, FS_EmptySet, Zenon
    <3>3. state' = None  BY <1>2, <2>6, Zenon DEF releaseVisibilitySnapshots
    <3>. QED  BY <3>2, <3>3, Zenon DEF ReferencesCounted
  <2>7. CASE ~LastReference(state.references)
    <3>1. state' = [state EXCEPT !.references = state.references - 1]
      BY <1>2, <2>5, <2>7, Zenon DEF releaseVisibilitySnapshots
    <3>2. state \in UserState  BY <2>5, <1>st, Zenon
    <3>3. state'.references = state.references - 1  BY <3>1, <3>2, Zenon DEF UserState
    <3>4. state' \in UserState  BY <3>1, <3>2, <2>7 DEF UserState, LastReference
    <3>5. state' # None  BY <3>4, NoneAssumption, Zenon
    <3>. QED  BY <3>3, <3>5, <2>4, <2>5, <2>7, <1>c DEF ReferencesCounted, LastReference
  <2>. QED  BY <2>6, <2>7, Zenon
<1>3. CASE ~\E s \in Sessions : retainVisibilitySnapshots(s) \/ releaseVisibilitySnapshots(s)
  <2>1. Holding' = Holding  BY <1>3, OtherStepsKeepHolding, Zenon
  <2>2. ReferencesKept  BY <1>3, EntryStep, Zenon
  <2>. QED  BY <2>1, <2>2, Zenon DEF ReferencesCounted, ReferencesKept
<1>. QED  BY <1>1, <1>2, <1>3, Zenon

\* Everything below rests on this: the types, the order of the reads, and what
\* the entry's labels, hints and references are.
VisibilityInv == TypeOK /\ ReadsInOrder /\ LabelsMeetRequired /\ HintRecorded /\ ReferencesCounted

\* The inductive invariant holds in every reachable state.
THEOREM VisibilityInvariant == Spec => []VisibilityInv
<1>1. Init => LabelsMeetRequired /\ HintRecorded /\ ReferencesCounted
  <2> SUFFICES ASSUME Init PROVE LabelsMeetRequired /\ HintRecorded /\ ReferencesCounted
    OBVIOUS
  <2>1. state = None /\ hints = 0  BY Zenon DEF Init
  <2>2. Holding = {}  BY Zenon DEF Init, Holding, NewSession
  <2>. QED  BY <2>1, <2>2, Zenon DEF LabelsMeetRequired, HintRecorded, ReferencesCounted
<1>2. LabelsMeetRequired /\ HintRecorded /\ ReferencesCounted
        /\ (TypeOK /\ ReadsInOrder) /\ (TypeOK /\ ReadsInOrder)' /\ [Next]_vars
        => (LabelsMeetRequired /\ HintRecorded /\ ReferencesCounted)'
  BY EntryStep, ReferencesStep, Zenon
<1>. QED  BY <1>1, <1>2, VisibilityTypeCorrect, PTL DEF Spec, VisibilityInv

\* No snapshot that was read before an access change is retained once the
\* change has invalidated the entry: an install compares the generation and the
\* required revision, IDENTIFY compares the required revision, and Guild reads
\* the label before the channels.
THEOREM NoStaleSnapshotKept == Spec => []SnapshotMeetsRequired
<1>1. VisibilityInv => SnapshotMeetsRequired
  <2> SUFFICES ASSUME VisibilityInv, Cached
               PROVE  state.entry.snapshot.content >= state.entry.required
    BY Zenon DEF SnapshotMeetsRequired
  <2>1. /\ state \in UserState /\ state.entry \in Entry /\ state.entry # None
        /\ state.entry.snapshot \in Snapshot /\ state.entry.snapshot # None
    BY Zenon DEF VisibilityInv, TypeOK, Cached, HasEntry, UserState, Entry
  <2>2. /\ state.entry.required <= state.entry.snapshot.rev
        /\ state.entry.snapshot.rev <= state.entry.snapshot.content
    BY <2>1, Zenon DEF VisibilityInv, LabelsMeetRequired, EntryMeets, Cached, HasEntry
  <2>. QED  BY <2>1, <2>2, ConstantsAssumption DEF Entry, Snapshot
<1>. QED  BY <1>1, VisibilityInvariant, PTL

\* However many handlers fail to reload an entry, one session.reconcile is sent
\* for it until it is invalidated again.
THEOREM OneHint == Spec => []OneHintPerInvalidation
<1>1. VisibilityInv => OneHintPerInvalidation
  BY DEF VisibilityInv, HintRecorded, OneHintPerInvalidation
<1>. QED  BY <1>1, VisibilityInvariant, PTL

\* However sessions of the user come and go, the shared state lives exactly as
\* long as one of them holds it.
THEOREM StateIsHeld == Spec => []StateHeldBySessions
<1>1. VisibilityInv => StateHeldBySessions
  BY Zenon DEF VisibilityInv, ReferencesCounted, StateHeldBySessions
<1>. QED  BY <1>1, VisibilityInvariant, PTL

-----------------------------------------------------------------------------
(***************************************************************************)
(* The sockets of a Gateway.  A handler's stage tells which slots it has   *)
(* (LeasesFollowHandlers); the limiter's counts are the sizes of the sets  *)
(* of handlers with a slot.                                                *)
(***************************************************************************)

(* Handlers with a lease they have not released, and those of them still in  *)
(* their handshake, in all and of one source scope.                          *)
Held == {"leased", "running", "bound", "untracking", "releasing"}

HoldingSockets == {u \in Upgrades : upgrade[u] \in Held}

PendingSockets == {u \in HoldingSockets : lease[u] = "pending"}

PendingFrom(s) == {u \in PendingSockets : scopeOf[u] = s}

(* A handler's stage tells its lease, so that MarkReady and Release find the *)
(* lease they expect (socketlimit.go, Lease.MarkReady and Lease.Release).    *)
LeasesFollowHandlers ==
  /\ upgrade \in [Upgrades -> Held \cup {"new", "begun", "leaving", "ended"}]
  /\ lease \in [Upgrades -> {"none", "pending", "ready", "released"}]
  /\ \A u \in Upgrades : /\ upgrade[u] \in {"leased", "running"} => lease[u] = "pending"
                         /\ upgrade[u] = "bound" => lease[u] = "ready"

(* There are finitely many of them at any time, whatever requests may come.  *)
SlotsInv ==
  /\ LeasesFollowHandlers
  /\ IsFiniteSet(HoldingSockets)
  /\ scopes \in [Scopes -> Int]
  /\ SlotsMatchSockets

(* The counts of the limiter in terms of these sets.                         *)
CountsMatch ==
  /\ connections = Cardinality(HoldingSockets) /\ connections <= MaxConnections
  /\ pendings = Cardinality(PendingSockets) /\ pendings <= MaxPending
  /\ \A s \in Scopes : /\ scopes[s] = Cardinality(PendingFrom(s))
                       /\ scopes[s] <= MaxPendingForScope

(* SlotsMatchSockets, in terms of the sets above.                            *)
LEMMA CountsAreSlots == SlotsMatchSockets <=> CountsMatch
BY Zenon DEF SlotsMatchSockets, CountsMatch, HoldingSockets, PendingSockets, PendingFrom, Held

(* The handlers with a lease and the pending ones are finitely many.         *)
LEMMA SlotsAreFinite ==
  ASSUME IsFiniteSet(HoldingSockets)
  PROVE  /\ IsFiniteSet(PendingSockets) /\ Cardinality(HoldingSockets) \in Nat
         /\ Cardinality(PendingSockets) \in Nat
         /\ \A s : IsFiniteSet(PendingFrom(s)) /\ Cardinality(PendingFrom(s)) \in Nat
<1>1. PendingSockets \in SUBSET HoldingSockets /\ \A s : PendingFrom(s) \in SUBSET HoldingSockets
  BY Zenon DEF PendingSockets, PendingFrom
<1>2. IsFiniteSet(PendingSockets) /\ \A s : IsFiniteSet(PendingFrom(s))
  BY <1>1, FS_Subset, Zenon
<1> QED  BY <1>2, FS_CardinalityType, Zenon

(* How one handler's step from one stage to another, with its lease, changes *)
(* the three sets.                                                           *)
LEMMA SocketsStep ==
  ASSUME LeasesFollowHandlers,
         NEW u \in Upgrades, NEW to, NEW l,
         upgrade' = [upgrade EXCEPT ![u] = to], lease' = [lease EXCEPT ![u] = l],
         to \in Held \cup {"new", "begun", "leaving", "ended"},
         l \in {"none", "pending", "ready", "released"},
         to \in {"leased", "running"} => l = "pending", to = "bound" => l = "ready"
  PROVE  /\ LeasesFollowHandlers'
         /\ \A v \in Upgrades \ {u} : v \in HoldingSockets' <=> v \in HoldingSockets
         /\ \A v \in Upgrades \ {u} : v \in PendingSockets' <=> v \in PendingSockets
         /\ u \in HoldingSockets' <=> to \in Held
         /\ u \in PendingSockets' <=> (to \in Held /\ l = "pending")
         /\ u \in HoldingSockets <=> upgrade[u] \in Held
         /\ u \in PendingSockets <=> (upgrade[u] \in Held /\ lease[u] = "pending")
<1> DEFINE Stages == Held \cup {"new", "begun", "leaving", "ended"}
           Leases == {"none", "pending", "ready", "released"}
<1>t. upgrade \in [Upgrades -> Stages] /\ lease \in [Upgrades -> Leases]
  BY Zenon DEF LeasesFollowHandlers
<1>s. to \in Stages /\ l \in Leases
  OBVIOUS
<1> HIDE DEF Stages, Leases
<1>1. upgrade' \in [Upgrades -> Stages] /\ lease' \in [Upgrades -> Leases]
  BY <1>t, <1>s, Zenon
<1>2. /\ upgrade'[u] = to /\ lease'[u] = l
      /\ \A v \in Upgrades \ {u} : upgrade'[v] = upgrade[v] /\ lease'[v] = lease[v]
  BY <1>t, Zenon
<1>3. LeasesFollowHandlers'
  <2>1. \A v \in Upgrades : /\ upgrade'[v] \in {"leased", "running"} => lease'[v] = "pending"
                            /\ upgrade'[v] = "bound" => lease'[v] = "ready"
    BY <1>2, Zenon DEF LeasesFollowHandlers
  <2> QED  BY <1>1, <2>1, Zenon DEF LeasesFollowHandlers, Stages, Leases
<1>4. /\ HoldingSockets' = {v \in Upgrades : upgrade'[v] \in Held}
      /\ PendingSockets' = {v \in HoldingSockets' : lease'[v] = "pending"}
  BY Zenon DEF HoldingSockets, PendingSockets, Held
<1> HIDE DEF Held
<1> QED  BY <1>2, <1>3, <1>4, Zenon DEF HoldingSockets, PendingSockets

(* A step that moves no slot keeps the counts.                               *)
LEMMA SlotsKept ==
  ASSUME SlotsInv, LeasesFollowHandlers',
         \A v \in Upgrades : v \in HoldingSockets' <=> v \in HoldingSockets,
         \A v \in Upgrades : v \in PendingSockets' <=> v \in PendingSockets,
         UNCHANGED <<connections, pendings, scopes>>
  PROVE  SlotsInv'
<1>1. HoldingSockets' = HoldingSockets
  BY Zenon DEF HoldingSockets, Held
<1>2. PendingSockets' = PendingSockets
  BY Zenon DEF PendingSockets, HoldingSockets, Held
<1>3. \A s : PendingFrom(s)' = PendingFrom(s)
  BY <1>2, Zenon DEF PendingFrom
<1>4. CountsMatch
  BY CountsAreSlots, Zenon DEF SlotsInv
<1>5. CountsMatch'
  BY <1>1, <1>2, <1>3, <1>4, Zenon DEF CountsMatch
<1>6. SlotsMatchSockets' <=> CountsMatch'
  BY CountsAreSlots, PTL
<1> QED  BY <1>1, <1>5, <1>6, Zenon DEF SlotsInv

(* The steps of handlers, of the limiter and of Drain keep the counts equal  *)
(* to the slots in use.                                                      *)
LEMMA SlotsStep ==
  ASSUME SlotsInv, [DrainNext]_gatewayVars
  PROVE  SlotsInv'
<1>l. LeasesFollowHandlers /\ IsFiniteSet(HoldingSockets) /\ scopes \in [Scopes -> Int]
  BY Zenon DEF SlotsInv
<1>t. /\ upgrade \in [Upgrades -> Held \cup {"new", "begun", "leaving", "ended"}]
      /\ lease \in [Upgrades -> {"none", "pending", "ready", "released"}]
  BY <1>l, Zenon DEF LeasesFollowHandlers
<1>c. CountsMatch
  BY CountsAreSlots, Zenon DEF SlotsInv
<1>k. MaxConnections \in Nat /\ MaxPending \in Nat /\ MaxPendingForScope \in Nat
  BY DrainConstants, Zenon
<1>s. scopeOf \in [Upgrades -> Scopes]
  BY DrainConstants, Zenon
(* A handler moves on and its slot stays as it is.                           *)
<1>q. ASSUME NEW u \in Upgrades, NEW to \in Held \cup {"new", "begun", "leaving", "ended"},
             upgrade' = [upgrade EXCEPT ![u] = to], UNCHANGED limiterVars,
             upgrade[u] \in Held <=> to \in Held,
             to \in {"leased", "running"} => upgrade[u] \in {"leased", "running"},
             to = "bound" => upgrade[u] = "bound"
      PROVE  SlotsInv'
  <2>1. PICK l : l = lease[u]
    OBVIOUS
  <2>2. l \in {"none", "pending", "ready", "released"} /\ lease' = [lease EXCEPT ![u] = l]
    BY <2>1, <1>q, <1>t, Zenon DEF limiterVars
  <2>3. /\ to \in {"leased", "running"} => l = "pending"
        /\ to = "bound" => l = "ready"
    BY <2>1, <1>q, <1>l, Zenon DEF LeasesFollowHandlers
  <2>4. /\ LeasesFollowHandlers'
        /\ \A v \in Upgrades \ {u} : v \in HoldingSockets' <=> v \in HoldingSockets
        /\ \A v \in Upgrades \ {u} : v \in PendingSockets' <=> v \in PendingSockets
        /\ u \in HoldingSockets' <=> to \in Held
        /\ u \in PendingSockets' <=> (to \in Held /\ l = "pending")
        /\ u \in HoldingSockets <=> upgrade[u] \in Held
        /\ u \in PendingSockets <=> (upgrade[u] \in Held /\ lease[u] = "pending")
    BY <2>2, <2>3, <1>q, <1>l, SocketsStep, Zenon
  <2>5. /\ \A v \in Upgrades : v \in HoldingSockets' <=> v \in HoldingSockets
        /\ \A v \in Upgrades : v \in PendingSockets' <=> v \in PendingSockets
    BY <2>1, <2>4, <1>q, Zenon
  <2> QED  BY <2>4, <2>5, <1>q, SlotsKept, Zenon DEF limiterVars
(* The pending slot of u is taken away, its connection too or not.           *)
<1>p. ASSUME NEW u \in Upgrades, PendingSockets' = PendingSockets \ {u}, u \in PendingSockets,
             ReleasePending(u)
      PROVE  /\ pendings' = Cardinality(PendingSockets') /\ pendings' <= MaxPending
             /\ scopes' \in [Scopes -> Int]
             /\ \A s \in Scopes : /\ scopes'[s] = Cardinality(PendingFrom(s)')
                                  /\ scopes'[s] <= MaxPendingForScope
  <2>f. /\ IsFiniteSet(PendingSockets) /\ Cardinality(PendingSockets) \in Nat
        /\ \A s : IsFiniteSet(PendingFrom(s)) /\ Cardinality(PendingFrom(s)) \in Nat
    BY <1>l, SlotsAreFinite, Zenon
  <2>1. pendings' = Cardinality(PendingSockets') /\ pendings' <= MaxPending
    <3>1. Cardinality(PendingSockets \ {u}) = Cardinality(PendingSockets) - 1
      BY <2>f, <1>p, FS_RemoveElement, Zenon
    <3>2. pendings = Cardinality(PendingSockets) /\ pendings <= MaxPending
      BY <1>c, Zenon DEF CountsMatch
    <3>3. pendings' = pendings - 1
      BY <1>p, Zenon DEF ReleasePending
    <3> QED  BY <3>1, <3>2, <3>3, <2>f, <1>p, <1>k
  <2>2. scopes' = [scopes EXCEPT ![scopeOf[u]] = @ - 1]
    BY <1>p, Zenon DEF ReleasePending
  <2>3. scopeOf[u] \in Scopes
    BY <1>s, Zenon
  <2>4. scopes' \in [Scopes -> Int]
    BY <2>2, <2>3, <1>l
  <2>5. ASSUME NEW s \in Scopes
        PROVE  /\ scopes'[s] = Cardinality(PendingFrom(s)')
               /\ scopes'[s] <= MaxPendingForScope
    <3>1. /\ scopes[s] = Cardinality(PendingFrom(s)) /\ scopes[s] <= MaxPendingForScope
      BY <1>c, Zenon DEF CountsMatch
    <3>2. CASE s = scopeOf[u]
      <4>1. u \in PendingFrom(s) /\ PendingFrom(s)' = PendingFrom(s) \ {u}
        BY <3>2, <1>p, Zenon DEF PendingFrom
      <4>2. Cardinality(PendingFrom(s) \ {u}) = Cardinality(PendingFrom(s)) - 1
        BY <4>1, <2>f, FS_RemoveElement, Zenon
      <4>3. scopes'[s] = scopes[s] - 1
        BY <3>2, <2>2, <2>3, <1>l, Zenon
      <4>4. Cardinality(PendingFrom(s)) \in Nat
        BY <2>f, Zenon
      <4> QED  BY <4>1, <4>2, <4>3, <4>4, <3>1, <1>k
    <3>3. CASE s # scopeOf[u]
      <4>1. PendingFrom(s)' = PendingFrom(s)
        BY <3>3, <1>p, Zenon DEF PendingFrom
      <4>2. scopes'[s] = scopes[s]
        BY <3>3, <2>2, <2>3, <1>l, Zenon
      <4> QED  BY <4>1, <4>2, <3>1, Zenon
    <3> QED  BY <3>2, <3>3, Zenon
  <2> QED  BY <2>1, <2>4, <2>5, Zenon
(* The invariant from its parts.                                             *)
<1>z. ASSUME LeasesFollowHandlers', IsFiniteSet(HoldingSockets)', scopes' \in [Scopes -> Int],
             CountsMatch'
      PROVE  SlotsInv'
  <2>1. SlotsMatchSockets' <=> CountsMatch'
    BY CountsAreSlots, PTL
  <2> QED  BY <2>1, <1>z, Zenon DEF SlotsInv
<1>1. ASSUME NEW u \in Upgrades, BeginConnection(u)
      PROVE  SlotsInv'
  <2>1. PICK to \in {"begun", "ended"} :
          upgrade[u] = "new" /\ upgrade' = [upgrade EXCEPT ![u] = to] /\ UNCHANGED limiterVars
    BY <1>1, Zenon DEF BeginConnection, Moves
  <2> QED  BY <2>1, <1>q, Zenon DEF Held
<1>2. ASSUME NEW u \in Upgrades, RefuseUpgrade(u)
      PROVE  SlotsInv'
  <2>1. upgrade[u] = "begun" /\ upgrade' = [upgrade EXCEPT ![u] = "leaving"]
        /\ UNCHANGED limiterVars
    BY <1>2, Zenon DEF RefuseUpgrade, Moves
  <2> QED  BY <2>1, <1>q, Zenon DEF Held
<1>3. ASSUME NEW u \in Upgrades, Acquire(u)
      PROVE  SlotsInv'
  <2>1. CASE ~HasRoom(u)
    <3>1. upgrade[u] = "begun" /\ upgrade' = [upgrade EXCEPT ![u] = "leaving"]
          /\ UNCHANGED limiterVars
      BY <2>1, <1>3, Zenon DEF Acquire, Moves
    <3> QED  BY <3>1, <1>q, Zenon DEF Held
  <2>2. CASE HasRoom(u)
    <3>1. /\ upgrade[u] = "begun" /\ upgrade' = [upgrade EXCEPT ![u] = "leased"]
          /\ lease' = [lease EXCEPT ![u] = "pending"]
          /\ connections' = connections + 1 /\ pendings' = pendings + 1
          /\ scopes' = [scopes EXCEPT ![scopeOf[u]] = @ + 1]
      BY <2>2, <1>3, Zenon DEF Acquire, Moves
    <3>2. /\ LeasesFollowHandlers'
          /\ \A v \in Upgrades \ {u} : v \in HoldingSockets' <=> v \in HoldingSockets
          /\ \A v \in Upgrades \ {u} : v \in PendingSockets' <=> v \in PendingSockets
          /\ u \in HoldingSockets' /\ u \in PendingSockets'
          /\ u \notin HoldingSockets /\ u \notin PendingSockets
      <4>1. "leased" \in Held /\ upgrade[u] \notin Held
        BY <3>1, Zenon DEF Held
      <4> QED  BY <4>1, <3>1, <1>l, SocketsStep, Zenon
    <3>3. HoldingSockets' = HoldingSockets \cup {u} /\ PendingSockets' = PendingSockets \cup {u}
      BY <3>2, Zenon DEF HoldingSockets, PendingSockets
    <3>f. /\ Cardinality(HoldingSockets) \in Nat /\ Cardinality(PendingSockets) \in Nat
          /\ IsFiniteSet(PendingSockets)
          /\ \A s : IsFiniteSet(PendingFrom(s)) /\ Cardinality(PendingFrom(s)) \in Nat
      BY <1>l, SlotsAreFinite, Zenon
    <3>h. connections < MaxConnections /\ pendings < MaxPending
          /\ scopes[scopeOf[u]] < MaxPendingForScope
      BY <2>2, Zenon DEF HasRoom
    <3>4. /\ IsFiniteSet(HoldingSockets)'
          /\ connections' = Cardinality(HoldingSockets') /\ connections' <= MaxConnections
      <4>1. /\ IsFiniteSet(HoldingSockets \cup {u})
            /\ Cardinality(HoldingSockets \cup {u}) = Cardinality(HoldingSockets) + 1
        BY <1>l, <3>2, FS_AddElement, Zenon
      <4>2. connections = Cardinality(HoldingSockets)
        BY <1>c, Zenon DEF CountsMatch
      <4> QED  BY <4>1, <4>2, <3>1, <3>3, <3>f, <3>h, <1>k
    <3>5. pendings' = Cardinality(PendingSockets') /\ pendings' <= MaxPending
      <4>1. Cardinality(PendingSockets \cup {u}) = Cardinality(PendingSockets) + 1
        BY <3>f, <3>2, FS_AddElement, Zenon
      <4>2. pendings = Cardinality(PendingSockets)
        BY <1>c, Zenon DEF CountsMatch
      <4> QED  BY <4>1, <4>2, <3>1, <3>3, <3>f, <3>h, <1>k
    <3>6. scopeOf[u] \in Scopes
      BY <1>s, Zenon
    <3>7. scopes' \in [Scopes -> Int]
      BY <3>1, <3>6, <1>l
    <3>8. ASSUME NEW s \in Scopes
          PROVE  scopes'[s] = Cardinality(PendingFrom(s)') /\ scopes'[s] <= MaxPendingForScope
      <4>1. /\ scopes[s] = Cardinality(PendingFrom(s)) /\ scopes[s] <= MaxPendingForScope
        BY <1>c, Zenon DEF CountsMatch
      <4>2. CASE s = scopeOf[u]
        <5>1. u \notin PendingFrom(s) /\ PendingFrom(s)' = PendingFrom(s) \cup {u}
          BY <4>2, <3>2, <3>3, Zenon DEF PendingFrom
        <5>2. Cardinality(PendingFrom(s) \cup {u}) = Cardinality(PendingFrom(s)) + 1
          BY <5>1, <3>f, FS_AddElement, Zenon
        <5>3. scopes'[s] = scopes[s] + 1
          BY <4>2, <3>1, <3>6, <1>l, Zenon
        <5>4. Cardinality(PendingFrom(s)) \in Nat /\ scopes[s] < MaxPendingForScope
          BY <3>f, <3>h, <4>2, Zenon
        <5> QED  BY <5>1, <5>2, <5>3, <5>4, <4>1, <1>k
      <4>3. CASE s # scopeOf[u]
        <5>1. PendingFrom(s)' = PendingFrom(s)
          BY <4>3, <3>2, <3>3, Zenon DEF PendingFrom
        <5>2. scopes'[s] = scopes[s]
          BY <4>3, <3>1, <3>6, <1>l, Zenon
        <5> QED  BY <5>1, <5>2, <4>1, Zenon
      <4> QED  BY <4>2, <4>3, Zenon
    <3>9. CountsMatch'
      BY <3>4, <3>5, <3>8, Zenon DEF CountsMatch
    <3> QED  BY <3>2, <3>4, <3>7, <3>9, <1>z, Zenon
  <2> QED  BY <2>1, <2>2, Zenon
<1>4. ASSUME NEW u \in Upgrades, RejectWebSocket(u)
      PROVE  SlotsInv'
  <2>1. upgrade[u] = "leased" /\ upgrade' = [upgrade EXCEPT ![u] = "releasing"]
        /\ UNCHANGED limiterVars
    BY <1>4, Zenon DEF RejectWebSocket, Moves
  <2> QED  BY <2>1, <1>q, Zenon DEF Held
<1>5. ASSUME NEW u \in Upgrades, TrackConnection(u)
      PROVE  SlotsInv'
  <2>1. PICK to \in {"running", "releasing"} :
          upgrade[u] = "leased" /\ upgrade' = [upgrade EXCEPT ![u] = to] /\ UNCHANGED limiterVars
    BY <1>5, Zenon DEF TrackConnection, Moves
  <2> QED  BY <2>1, <1>q, Zenon DEF Held
<1>6. ASSUME NEW u \in Upgrades, MarkReady(u)
      PROVE  SlotsInv'
  <2>1. /\ upgrade[u] = "running" /\ upgrade' = [upgrade EXCEPT ![u] = "bound"]
        /\ lease' = [lease EXCEPT ![u] = "ready"] /\ ReleasePending(u)
        /\ connections' = connections
    BY <1>6, Zenon DEF MarkReady, Moves
  <2>2. lease[u] = "pending"
    BY <2>1, <1>l, Zenon DEF LeasesFollowHandlers
  <2>3. /\ LeasesFollowHandlers'
        /\ \A v \in Upgrades \ {u} : v \in HoldingSockets' <=> v \in HoldingSockets
        /\ \A v \in Upgrades \ {u} : v \in PendingSockets' <=> v \in PendingSockets
        /\ u \in HoldingSockets' /\ u \notin PendingSockets'
        /\ u \in HoldingSockets /\ u \in PendingSockets
    <3>1. "bound" \in Held /\ upgrade[u] \in Held
      BY <2>1, Zenon DEF Held
    <3>2. /\ LeasesFollowHandlers'
          /\ \A v \in Upgrades \ {u} : v \in HoldingSockets' <=> v \in HoldingSockets
          /\ \A v \in Upgrades \ {u} : v \in PendingSockets' <=> v \in PendingSockets
          /\ u \in HoldingSockets' <=> "bound" \in Held
          /\ u \in PendingSockets' <=> ("bound" \in Held /\ "ready" = "pending")
          /\ u \in HoldingSockets <=> upgrade[u] \in Held
          /\ u \in PendingSockets <=> (upgrade[u] \in Held /\ lease[u] = "pending")
      BY <3>1, <2>1, <1>l, SocketsStep, Zenon
    <3> QED  BY <3>1, <3>2, <2>2, Zenon
  <2>4. HoldingSockets' = HoldingSockets /\ PendingSockets' = PendingSockets \ {u}
    BY <2>3, Zenon DEF HoldingSockets, PendingSockets
  <2>5. /\ pendings' = Cardinality(PendingSockets') /\ pendings' <= MaxPending
        /\ scopes' \in [Scopes -> Int]
        /\ \A s \in Scopes : /\ scopes'[s] = Cardinality(PendingFrom(s)')
                             /\ scopes'[s] <= MaxPendingForScope
    BY <2>1, <2>3, <2>4, <1>p, Zenon
  <2>6. CountsMatch'
    BY <2>1, <2>4, <2>5, <1>c, Zenon DEF CountsMatch
  <2> QED  BY <2>3, <2>4, <2>5, <2>6, <1>l, <1>z, Zenon
<1>7. ASSUME NEW u \in Upgrades, RunReturns(u)
      PROVE  SlotsInv'
  <2>1. upgrade[u] \in {"running", "bound"} /\ upgrade' = [upgrade EXCEPT ![u] = "untracking"]
        /\ UNCHANGED limiterVars
    BY <1>7, Zenon DEF RunReturns
  <2> QED  BY <2>1, <1>q, Zenon DEF Held
<1>8. ASSUME NEW u \in Upgrades, UntrackConnection(u)
      PROVE  SlotsInv'
  <2>1. upgrade[u] = "untracking" /\ upgrade' = [upgrade EXCEPT ![u] = "releasing"]
        /\ UNCHANGED limiterVars
    BY <1>8, Zenon DEF UntrackConnection, Moves
  <2> QED  BY <2>1, <1>q, Zenon DEF Held
<1>9. ASSUME NEW u \in Upgrades, Release(u)
      PROVE  SlotsInv'
  <2>1. /\ upgrade[u] = "releasing" /\ upgrade' = [upgrade EXCEPT ![u] = "leaving"]
        /\ lease' = [lease EXCEPT ![u] = "released"] /\ connections' = connections - 1
    BY <1>9, Zenon DEF Release, Moves
  <2>2. "leaving" \notin Held /\ upgrade[u] \in Held
    BY <2>1, Zenon DEF Held
  <2>3. /\ LeasesFollowHandlers'
        /\ \A v \in Upgrades \ {u} : v \in HoldingSockets' <=> v \in HoldingSockets
        /\ \A v \in Upgrades \ {u} : v \in PendingSockets' <=> v \in PendingSockets
        /\ u \notin HoldingSockets' /\ u \notin PendingSockets'
        /\ u \in HoldingSockets
        /\ u \in PendingSockets <=> lease[u] = "pending"
    BY <2>1, <2>2, <1>l, SocketsStep, Zenon
  <2>4. HoldingSockets' = HoldingSockets \ {u} /\ PendingSockets' = PendingSockets \ {u}
    BY <2>3, Zenon DEF HoldingSockets, PendingSockets
  <2>5. /\ IsFiniteSet(HoldingSockets)'
        /\ connections' = Cardinality(HoldingSockets') /\ connections' <= MaxConnections
    <3>1. /\ IsFiniteSet(HoldingSockets \ {u})
          /\ Cardinality(HoldingSockets \ {u}) = Cardinality(HoldingSockets) - 1
      BY <2>3, <1>l, FS_RemoveElement, Zenon
    <3>2. connections = Cardinality(HoldingSockets) /\ connections <= MaxConnections
      BY <1>c, Zenon DEF CountsMatch
    <3>3. Cardinality(HoldingSockets) \in Nat
      BY <1>l, SlotsAreFinite, Zenon
    <3> QED  BY <3>1, <3>2, <3>3, <2>1, <2>4, <1>k
  <2>6. CASE lease[u] = "pending"
    <3>1. ReleasePending(u)
      BY <2>6, <1>9, Zenon DEF Release
    <3>2. /\ pendings' = Cardinality(PendingSockets') /\ pendings' <= MaxPending
          /\ scopes' \in [Scopes -> Int]
          /\ \A s \in Scopes : /\ scopes'[s] = Cardinality(PendingFrom(s)')
                               /\ scopes'[s] <= MaxPendingForScope
      BY <3>1, <2>3, <2>4, <2>6, <1>p, Zenon
    <3>3. CountsMatch'
      BY <2>5, <3>2, Zenon DEF CountsMatch
    <3> QED  BY <2>3, <2>5, <3>2, <3>3, <1>z, Zenon
  <2>7. CASE lease[u] # "pending"
    <3>1. UNCHANGED <<pendings, scopes>>
      BY <2>7, <1>9, Zenon DEF Release
    <3>2. PendingSockets' = PendingSockets
      BY <2>3, <2>4, <2>7, Zenon
    <3>3. \A s : PendingFrom(s)' = PendingFrom(s)
      BY <3>2, Zenon DEF PendingFrom
    <3>4. CountsMatch'
      BY <2>5, <3>1, <3>2, <3>3, <1>c, Zenon DEF CountsMatch
    <3> QED  BY <2>3, <2>5, <3>1, <3>4, <1>l, <1>z, Zenon
  <2> QED  BY <2>6, <2>7, Zenon
<1>10. ASSUME NEW u \in Upgrades, HandlerDone(u)
       PROVE  SlotsInv'
  <2>1. upgrade[u] = "leaving" /\ upgrade' = [upgrade EXCEPT ![u] = "ended"]
        /\ UNCHANGED limiterVars
    BY <1>10, Zenon DEF HandlerDone, Moves
  <2> QED  BY <2>1, <1>q, Zenon DEF Held
<1>11. ASSUME Drain \/ DrainDone \/ DrainTimesOut \/ UNCHANGED gatewayVars
       PROVE  SlotsInv'
  <2>1. UNCHANGED <<upgrade, lease, connections, pendings, scopes>>
    BY <1>11, Zenon DEF Drain, DrainDone, DrainTimesOut, gatewayVars, limiterVars
  <2>2. LeasesFollowHandlers'
    BY <2>1, <1>l, Zenon DEF LeasesFollowHandlers, Held
  <2>3. HoldingSockets' = HoldingSockets /\ PendingSockets' = PendingSockets
    BY <2>1, Zenon DEF HoldingSockets, PendingSockets, Held
  <2> QED  BY <2>1, <2>2, <2>3, SlotsKept, Zenon
<1> QED  BY <1>1, <1>2, <1>3, <1>4, <1>5, <1>6, <1>7, <1>8, <1>9, <1>10, <1>11, Zenon
         DEF DrainNext, Upgrading, Finishing

(* The socket limiter's counts are those of the sockets that hold a slot, in *)
(* all and per source scope, and stay within the limits, for any number of   *)
(* upgrade requests (socketlimit.go).                                        *)
THEOREM SlotsAlwaysMatch == DrainSpec => []SlotsMatchSockets
<1>1. DrainInit => SlotsInv
  <2> SUFFICES ASSUME DrainInit PROVE SlotsInv
    OBVIOUS
  <2>1. LeasesFollowHandlers
    BY Zenon DEF DrainInit, LeasesFollowHandlers
  <2>2. HoldingSockets = {} /\ PendingSockets = {} /\ \A s : PendingFrom(s) = {}
    BY Zenon DEF DrainInit, HoldingSockets, PendingSockets, PendingFrom, Held
  <2>3. IsFiniteSet(HoldingSockets) /\ scopes \in [Scopes -> Int]
    BY <2>2, FS_EmptySet DEF DrainInit
  <2>4. 0 <= MaxConnections /\ 0 <= MaxPending /\ 0 <= MaxPendingForScope
    BY DrainConstants
  <2>5. CountsMatch
    BY <2>2, <2>4, FS_EmptySet, Zenon DEF DrainInit, CountsMatch
  <2> QED  BY <2>1, <2>3, <2>5, CountsAreSlots, Zenon DEF SlotsInv
<1>2. SlotsInv /\ [DrainNext]_gatewayVars => SlotsInv'
  BY SlotsStep, Zenon
<1>3. SlotsInv => SlotsMatchSockets
  BY Zenon DEF SlotsInv
<1> QED  BY <1>1, <1>2, <1>3, PTL DEF DrainSpec

-----------------------------------------------------------------------------
(***************************************************************************)
(* The keyed limiter.  The capacity holds per key because all users of a   *)
(* key share one entry and no two keys do, and because refs counts those   *)
(* users, so that the last one, and only the last, deletes the entry       *)
(* (EntriesAreShared).                                                     *)
(***************************************************************************)

(* A goroutine between reference and unreference.                            *)
UserRecords ==
  [step : {"referenced", "waiting", "holding", "leaving"}, key : LimitKeys,
   entry : EntryIds, weight : 1..Capacity]

(* The goroutines that refer to an entry.                                    *)
UsersOf(e) == {h \in Holders : holder[h].step # "idle" /\ holder[h].entry = e}

(* Units of the capacity of key k that are held.                             *)
UnitsOf(k) ==
  {x \in Holders \X (1..Capacity) :
     /\ holder[x[1]].step = "holding" /\ holder[x[1]].key = k
     /\ x[2] <= holder[x[1]].weight}

(* The goroutines, the map and its entries.                                  *)
LimiterTyped ==
  /\ holder \in [Holders -> UserRecords \cup {Away}]
  /\ entryOf \in [LimitKeys -> EntryIds \cup {0}]
  /\ refs \in [EntryIds -> Nat]

(* All goroutines of a key use the entry that the map has for it, the map    *)
(* has no other entries and refs counts their users.                         *)
EntriesAreShared ==
  /\ \A h \in Holders : holder[h].step # "idle" => entryOf[holder[h].key] = holder[h].entry
  /\ \A k \in LimitKeys : entryOf[k] # 0 =>
       \E h \in Holders : holder[h].step # "idle" /\ holder[h].key = k
  /\ \A k, l \in LimitKeys : entryOf[k] = entryOf[l] /\ entryOf[k] # 0 => k = l
  /\ \A e \in EntryIds : refs[e] = Cardinality(UsersOf(e))

(* What the capacity per key rests on.                                       *)
LimiterInv ==
  /\ LimiterTyped /\ EntriesAreShared
  /\ \A k \in LimitKeys : Cardinality(UnitsOf(k)) <= Capacity

(* A goroutine is away from the limiter, or uses an entry.                   *)
LEMMA HolderRecords ==
  ASSUME LimiterTyped, NEW h \in Holders
  PROVE  /\ holder[h].step = "idle" => holder[h] = Away /\ holder[h].entry = 0
         /\ holder[h].step # "idle" =>
              /\ holder[h] \in UserRecords
              /\ holder[h].step \in {"referenced", "waiting", "holding", "leaving"}
              /\ holder[h].key \in LimitKeys /\ holder[h].entry \in EntryIds
              /\ holder[h].weight \in 1..Capacity
<1>1. holder[h] \in UserRecords \cup {Away}
  BY Zenon DEF LimiterTyped
<1>2. Away.step = "idle" /\ Away.entry = 0
  BY Zenon DEF Away
<1>3. CASE holder[h] = Away
  BY <1>2, <1>3, Zenon
<1>4. CASE holder[h] \in UserRecords
  BY <1>4, Zenon DEF UserRecords
<1> QED  BY <1>1, <1>3, <1>4, Zenon

(* Entries are as many as goroutines, and numbered from 1.                   *)
LEMMA EntryCount ==
  /\ IsFiniteSet(Holders) /\ Cardinality(Holders) \in Nat
  /\ IsFiniteSet(EntryIds) /\ Cardinality(EntryIds) = Cardinality(Holders)
  /\ 0 \notin EntryIds /\ EntryIds \subseteq Nat
<1>1. IsFiniteSet(Holders) /\ Cardinality(Holders) \in Nat
  BY KeyedConstants, FS_CardinalityType, Zenon
<1>2. PICK n \in Nat : n = Cardinality(Holders)
  BY <1>1, Zenon
<1>3. EntryIds = 1..n
  BY <1>2, Zenon DEF EntryIds
<1>4. IsFiniteSet(1..n) /\ Cardinality(1..n) = n
  <2>1. IsFiniteSet(1..n) /\ Cardinality(1..n) = IF 1 > n THEN 0 ELSE n - 1 + 1
    BY FS_Interval
  <2> QED  BY <2>1
<1> QED  BY <1>1, <1>2, <1>3, <1>4

(* A goroutine about to create an entry finds a name nobody uses: the others *)
(* are fewer than the names.                                                 *)
LEMMA NamesAreLeft ==
  ASSUME LimiterTyped, EntriesAreShared, NEW h \in Holders, holder[h].step = "idle"
  PROVE  Garbage # {}
<1> SUFFICES ASSUME Garbage = {} PROVE FALSE
  OBVIOUS
<1>1. ASSUME NEW e \in EntryIds
      PROVE  \E g \in Holders \ {h} : holder[g].entry = e
  <2>0. e # 0
    BY EntryCount, Zenon
  <2>1. PICK g \in Holders : holder[g].entry = e
    <3>1. CASE \E g \in Holders : holder[g].entry = e
      BY <3>1, Zenon
    <3>2. CASE \E k \in LimitKeys : entryOf[k] = e
      <4>1. PICK k \in LimitKeys : entryOf[k] = e
        BY <3>2, Zenon
      <4>2. PICK g \in Holders : holder[g].step # "idle" /\ holder[g].key = k
        BY <4>1, <2>0, Zenon DEF EntriesAreShared
      <4>3. holder[g].entry = e
        BY <4>1, <4>2, Zenon DEF EntriesAreShared
      <4> QED  BY <4>3, Zenon
    <3> QED  BY <3>1, <3>2, Zenon DEF Garbage
  <2>2. g # h
    BY <2>0, <2>1, HolderRecords, Zenon
  <2> QED  BY <2>1, <2>2, Zenon
<1> DEFINE f == [e \in EntryIds |-> CHOOSE g \in Holders \ {h} : holder[g].entry = e]
<1>2. f \in [EntryIds -> Holders \ {h}] /\ \A e \in EntryIds : holder[f[e]].entry = e
  BY <1>1, Zenon
<1>3. /\ IsFiniteSet(Holders \ {h})
      /\ Cardinality(Holders \ {h}) = Cardinality(Holders) - 1
  BY EntryCount, FS_RemoveElement, Zenon
<1>4. Cardinality(Holders \ {h}) < Cardinality(EntryIds)
  BY <1>3, EntryCount
<1> HIDE DEF f
<1>5. IsFiniteSet(EntryIds) /\ f \in [EntryIds -> Holders \ {h}]
  BY <1>2, EntryCount, Zenon
<1>6. \E a, b \in EntryIds : a # b /\ f[a] = f[b]
  <2>1. ASSUME NEW S, NEW T, NEW F \in [S -> T], IsFiniteSet(S), IsFiniteSet(T),
               Cardinality(T) < Cardinality(S)
        PROVE  \E a, b \in S : a # b /\ F[a] = F[b]
    BY <2>1, FS_PigeonHole
  <2> QED  BY <2>1, <1>3, <1>4, <1>5
<1> QED  BY <1>2, <1>6, Zenon

(* The units of a key are finitely many.                                     *)
LEMMA UnitsAreFinite ==
  \A k : IsFiniteSet(UnitsOf(k)) /\ Cardinality(UnitsOf(k)) \in Nat
<1>1. IsFiniteSet(1..Capacity)
  BY KeyedConstants, FS_Interval
<1>2. IsFiniteSet(Holders \X (1..Capacity))
  BY <1>1, KeyedConstants, FS_Product, Zenon
<1>3. ASSUME NEW k
      PROVE  IsFiniteSet(UnitsOf(k))
  <2>1. UnitsOf(k) \in SUBSET (Holders \X (1..Capacity))
    BY Zenon DEF UnitsOf
  <2> QED  BY <2>1, <1>2, FS_Subset, Zenon
<1> QED  BY <1>3, FS_CardinalityType, Zenon

(* What the semaphore of an entry counts is what its key's users hold.       *)
LEMMA WeightsAreUnits ==
  ASSUME LimiterTyped, EntriesAreShared
  PROVE  /\ \A k : WeightHeld({h \in Holders : holder[h].step # "idle" /\ holder[h].key = k})
                     = Cardinality(UnitsOf(k))
         /\ \A h \in Holders : holder[h].step # "idle" =>
              WeightHeld({g \in Holders : holder[g].entry = holder[h].entry})
                = Cardinality(UnitsOf(holder[h].key))
<1>1. ASSUME NEW k
      PROVE  WeightHeld({h \in Holders : holder[h].step # "idle" /\ holder[h].key = k})
               = Cardinality(UnitsOf(k))
  <2>1. {x \in {h \in Holders : holder[h].step # "idle" /\ holder[h].key = k} \X (1..Capacity) :
           holder[x[1]].step = "holding" /\ x[2] <= holder[x[1]].weight} = UnitsOf(k)
    BY Zenon DEF UnitsOf
  <2> QED  BY <2>1, Zenon DEF WeightHeld
<1>2. ASSUME NEW h \in Holders, holder[h].step # "idle"
      PROVE  WeightHeld({g \in Holders : holder[g].entry = holder[h].entry})
               = Cardinality(UnitsOf(holder[h].key))
  <2>1. ASSUME NEW g \in Holders, holder[g].step = "holding"
        PROVE  holder[g].entry = holder[h].entry <=> holder[g].key = holder[h].key
    <3>1. /\ holder[g].key \in LimitKeys /\ holder[h].key \in LimitKeys
          /\ holder[g].entry \in EntryIds /\ holder[h].entry \in EntryIds
      BY <1>2, <2>1, HolderRecords, Zenon
    <3>2. /\ entryOf[holder[g].key] = holder[g].entry /\ entryOf[holder[h].key] = holder[h].entry
      BY <1>2, <2>1, Zenon DEF EntriesAreShared
    <3> QED  BY <3>1, <3>2, EntryCount DEF EntriesAreShared
  <2>2. {x \in {g \in Holders : holder[g].entry = holder[h].entry} \X (1..Capacity) :
           holder[x[1]].step = "holding" /\ x[2] <= holder[x[1]].weight}
          = UnitsOf(holder[h].key)
    BY <2>1, Zenon DEF UnitsOf
  <2> QED  BY <2>2, Zenon DEF WeightHeld
<1> QED  BY <1>1, <1>2, Zenon

(* A user of an entry goes a step further: everybody keeps their entry.      *)
LEMMA UserGoesOn ==
  ASSUME LimiterTyped, EntriesAreShared,
         NEW h \in Holders, NEW s \in {"referenced", "waiting", "holding", "leaving"},
         holder[h].step # "idle", holder' = [holder EXCEPT ![h].step = s],
         UNCHANGED <<entryOf, refs>>
  PROVE  /\ LimiterTyped' /\ EntriesAreShared'
         /\ holder'[h].step = s
         /\ \A g \in Holders \ {h} : holder'[g] = holder[g]
         /\ \A g \in Holders : /\ holder'[g].key = holder[g].key
                               /\ holder'[g].entry = holder[g].entry
                               /\ holder'[g].weight = holder[g].weight
<1>t. holder \in [Holders -> UserRecords \cup {Away}]
  BY Zenon DEF LimiterTyped
<1>1. holder[h] \in UserRecords
  BY HolderRecords, Zenon
<1> DEFINE c == [holder[h] EXCEPT !.step = s]
<1>2. holder' = [holder EXCEPT ![h] = c]
  BY <1>t, Zenon
<1>3. /\ c \in UserRecords /\ c.step = s /\ c.key = holder[h].key
      /\ c.entry = holder[h].entry /\ c.weight = holder[h].weight
  BY <1>1, Zenon DEF UserRecords
<1> HIDE DEF c
<1>4. /\ holder'[h] = c /\ \A g \in Holders \ {h} : holder'[g] = holder[g]
      /\ holder' \in [Holders -> UserRecords \cup {Away}]
  BY <1>2, <1>3, <1>t, Zenon
<1>5. \A g \in Holders : /\ holder'[g].key = holder[g].key
                         /\ holder'[g].entry = holder[g].entry
                         /\ holder'[g].weight = holder[g].weight
                         /\ holder'[g].step = "idle" <=> holder[g].step = "idle"
  <2>1. s # "idle"
    OBVIOUS
  <2> QED  BY <2>1, <1>3, <1>4, Zenon
<1>6. LimiterTyped'
  BY <1>4, Zenon DEF LimiterTyped, UserRecords, Away, EntryIds
<1>7. EntriesAreShared'
  <2>1. \A e : UsersOf(e)' = UsersOf(e)
    BY <1>5, Zenon DEF UsersOf
  <2> QED  BY <2>1, <1>5 DEF EntriesAreShared, EntryIds
<1> QED  BY <1>3, <1>4, <1>5, <1>6, <1>7, Zenon

(* Units are held by those at "holding" only.                                *)
LEMMA UnitsKept ==
  ASSUME \A g \in Holders : /\ holder'[g].step = "holding" <=> holder[g].step = "holding"
                            /\ holder[g].step = "holding" => holder'[g] = holder[g]
  PROVE  \A k : UnitsOf(k)' = UnitsOf(k)
BY Zenon DEF UnitsOf

(* No step of a goroutine takes a key over its capacity or parts its users   *)
(* (keyed.go, reference, Acquire and unreference).                           *)
LEMMA LimiterStep ==
  ASSUME LimiterInv, [KeyedNext]_keyedVars
  PROVE  LimiterInv'
<1>t. LimiterTyped /\ EntriesAreShared /\ \A k \in LimitKeys : Cardinality(UnitsOf(k)) <= Capacity
  BY Zenon DEF LimiterInv
<1>h. /\ holder \in [Holders -> UserRecords \cup {Away}]
      /\ entryOf \in [LimitKeys -> EntryIds \cup {0}] /\ refs \in [EntryIds -> Nat]
  BY <1>t, Zenon DEF LimiterTyped
<1>c. Capacity \in Nat
  BY KeyedConstants, Zenon
<1>n. IsFiniteSet(Holders) /\ 0 \notin EntryIds
  BY EntryCount, Zenon
(* Steps that take and give back no unit.                                    *)
<1>q. ASSUME LimiterTyped', EntriesAreShared',
             \A g \in Holders : /\ holder'[g].step = "holding" <=> holder[g].step = "holding"
                                /\ holder[g].step = "holding" => holder'[g] = holder[g]
      PROVE  LimiterInv'
  <2>1. \A k : UnitsOf(k)' = UnitsOf(k)
    BY <1>q, UnitsKept, Zenon
  <2> QED  BY <2>1, <1>q, <1>t, Zenon DEF LimiterInv
<1>1. ASSUME NEW h \in Holders, NEW k \in LimitKeys, NEW w \in 1..Capacity, Reference(h, k, w)
      PROVE  LimiterInv'
  <2>1. PICK e : e = IF entryOf[k] # 0 THEN entryOf[k] ELSE CHOOSE g \in Garbage : TRUE
    OBVIOUS
  <2> DEFINE c == [step |-> "referenced", key |-> k, entry |-> e, weight |-> w]
  <2>2. /\ holder[h].step = "idle" /\ holder' = [holder EXCEPT ![h] = c]
        /\ refs' = [refs EXCEPT ![e] = IF entryOf[k] # 0 THEN refs[e] + 1 ELSE 1]
        /\ entryOf' = [entryOf EXCEPT ![k] = e]
    BY <1>1, <2>1 DEF Reference
  <2>3. /\ e \in EntryIds
        /\ entryOf[k] # 0 => entryOf[k] = e
        /\ entryOf[k] = 0 => e \in Garbage
    <3>1. CASE entryOf[k] # 0
      BY <3>1, <2>1, <1>h, Zenon
    <3>2. CASE entryOf[k] = 0
      <4>1. e \in Garbage
        BY <3>2, <2>1, <2>2, <1>t, NamesAreLeft, Zenon
      <4> QED  BY <4>1, <3>2, Zenon DEF Garbage
    <3> QED  BY <3>1, <3>2, Zenon
  <2>4. e # 0
    BY <2>3, <1>n, Zenon
  <2>5. /\ c \in UserRecords /\ c.step = "referenced" /\ c.key = k /\ c.entry = e
    BY <2>3, Zenon DEF UserRecords
  <2> HIDE DEF c
  <2>6. /\ holder'[h] = c /\ \A g \in Holders \ {h} : holder'[g] = holder[g]
        /\ holder' \in [Holders -> UserRecords \cup {Away}]
    BY <2>2, <2>5, <1>h, Zenon
  <2>7. /\ entryOf'[k] = e /\ \A l \in LimitKeys \ {k} : entryOf'[l] = entryOf[l]
        /\ entryOf' \in [LimitKeys -> EntryIds \cup {0}]
    BY <2>2, <2>3, <1>h, Zenon
  <2>8. /\ refs' \in [EntryIds -> Nat]
        /\ refs'[e] = (IF entryOf[k] # 0 THEN refs[e] + 1 ELSE 1)
        /\ \A f \in EntryIds \ {e} : refs'[f] = refs[f]
    BY <2>2, <2>3, <1>h
  <2>9. LimiterTyped'
    BY <2>6, <2>7, <2>8, Zenon DEF LimiterTyped, UserRecords, Away, EntryIds
  <2>10. EntriesAreShared'
    <3>1. ASSUME NEW g \in Holders, holder'[g].step # "idle"
          PROVE  entryOf'[holder'[g].key] = holder'[g].entry
      <4>1. CASE g = h
        BY <4>1, <2>5, <2>6, <2>7, Zenon
      <4>2. CASE g # h
        <5>1. holder'[g] = holder[g] /\ holder[g].step # "idle"
          BY <4>2, <3>1, <2>6, Zenon
        <5>2. entryOf[holder[g].key] = holder[g].entry /\ holder[g].key \in LimitKeys
              /\ holder[g].entry \in EntryIds
          BY <5>1, <1>t, HolderRecords, Zenon DEF EntriesAreShared
        <5>3. CASE holder[g].key = k
          <6>1. entryOf[k] # 0
            BY <5>2, <5>3, <1>n, Zenon
          <6> QED  BY <6>1, <5>1, <5>2, <5>3, <2>3, <2>7, Zenon
        <5>4. CASE holder[g].key # k
          BY <5>1, <5>2, <5>4, <2>7, Zenon
        <5> QED  BY <5>3, <5>4, Zenon
      <4> QED  BY <4>1, <4>2, Zenon
    <3>2. ASSUME NEW l \in LimitKeys, entryOf'[l] # 0
          PROVE  \E g \in Holders : holder'[g].step # "idle" /\ holder'[g].key = l
      <4>1. CASE l = k
        BY <4>1, <2>5, <2>6, Zenon
      <4>2. CASE l # k
        <5>1. PICK g \in Holders : holder[g].step # "idle" /\ holder[g].key = l
          BY <4>2, <3>2, <2>7, <1>t, Zenon DEF EntriesAreShared
        <5> QED  BY <5>1, <2>2, <2>6, Zenon
      <4> QED  BY <4>1, <4>2, Zenon
    <3>3. ASSUME NEW l \in LimitKeys, NEW m \in LimitKeys,
                 entryOf'[l] = entryOf'[m], entryOf'[l] # 0
          PROVE  l = m
      <4>1. \A j \in LimitKeys \ {k} : entryOf[j] # e
        BY <2>3, <2>4, <1>t, Zenon DEF EntriesAreShared, Garbage
      <4> QED  BY <4>1, <3>3, <2>7, <1>t DEF EntriesAreShared
    <3>4. ASSUME NEW f \in EntryIds
          PROVE  refs'[f] = Cardinality(UsersOf(f)')
      <4>0. refs[f] = Cardinality(UsersOf(f))
        BY <1>t, Zenon DEF EntriesAreShared
      <4>1. CASE f # e
        <5>1. UsersOf(f)' = UsersOf(f)
          BY <4>1, <2>2, <2>5, <2>6, Zenon DEF UsersOf
        <5> QED  BY <4>0, <4>1, <5>1, <2>8, Zenon
      <4>2. CASE f = e
        <5>1. UsersOf(f)' = UsersOf(f) \cup {h} /\ h \notin UsersOf(f)
          BY <4>2, <2>2, <2>5, <2>6, Zenon DEF UsersOf
        <5>2. UsersOf(f) \in SUBSET Holders
          BY Zenon DEF UsersOf
        <5>3. IsFiniteSet(UsersOf(f))
          BY <5>2, <1>n, FS_Subset, Zenon
        <5>4. Cardinality(UsersOf(f) \cup {h}) = Cardinality(UsersOf(f)) + 1
          BY <5>1, <5>3, FS_AddElement, Zenon
        <5>5. CASE entryOf[k] # 0
          BY <4>0, <4>2, <5>1, <5>4, <5>5, <2>8, Zenon
        <5>6. CASE entryOf[k] = 0
          <6>1. UsersOf(f) = {}
            BY <4>2, <5>6, <2>3, Zenon DEF UsersOf, Garbage
          <6>2. Cardinality(UsersOf(f)) = 0
            BY <6>1, FS_EmptySet, Zenon
          <6> QED  BY <4>2, <5>1, <5>4, <5>6, <6>2, <2>8
        <5> QED  BY <5>5, <5>6, Zenon
      <4> QED  BY <4>1, <4>2, Zenon
    <3> QED  BY <3>1, <3>2, <3>3, <3>4, Zenon DEF EntriesAreShared, EntryIds
  <2>11. \A g \in Holders : /\ holder'[g].step = "holding" <=> holder[g].step = "holding"
                            /\ holder[g].step = "holding" => holder'[g] = holder[g]
    BY <2>2, <2>5, <2>6, Zenon
  <2> QED  BY <2>9, <2>10, <2>11, <1>q, Zenon
<1>2. ASSUME NEW h \in Holders, Await(h) \/ CancelAcquire(h)
      PROVE  LimiterInv'
  <2>1. PICK s \in {"waiting", "leaving"} :
          /\ holder[h].step \in {"referenced", "waiting"}
          /\ holder' = [holder EXCEPT ![h].step = s] /\ UNCHANGED <<entryOf, refs>>
    BY <1>2, Zenon DEF Await, CancelAcquire
  <2>2. /\ LimiterTyped' /\ EntriesAreShared' /\ holder'[h].step = s
        /\ \A g \in Holders \ {h} : holder'[g] = holder[g]
    BY <2>1, <1>t, UserGoesOn, Zenon
  <2>3. \A g \in Holders : /\ holder'[g].step = "holding" <=> holder[g].step = "holding"
                           /\ holder[g].step = "holding" => holder'[g] = holder[g]
    BY <2>1, <2>2, Zenon
  <2> QED  BY <2>2, <2>3, <1>q, Zenon
<1>3. ASSUME NEW h \in Holders, Granted(h)
      PROVE  LimiterInv'
  <2> DEFINE w == holder[h].weight
             k == holder[h].key
  <2>1. /\ holder[h].step = "waiting" /\ holder' = [holder EXCEPT ![h].step = "holding"]
        /\ WeightHeld({g \in Holders : holder[g].entry = holder[h].entry}) + w <= Capacity
        /\ UNCHANGED <<entryOf, refs>>
    BY <1>3, Zenon DEF Granted
  <2>2. Cardinality(UnitsOf(k)) + w <= Capacity
    BY <2>1, <1>t, WeightsAreUnits, Zenon
  <2>3. /\ LimiterTyped' /\ EntriesAreShared' /\ holder'[h].step = "holding"
        /\ \A g \in Holders \ {h} : holder'[g] = holder[g]
        /\ holder'[h].key = k /\ holder'[h].weight = w
    BY <2>1, <1>t, UserGoesOn, Zenon
  <2>4. w \in 1..Capacity
    BY <2>1, <1>t, HolderRecords, Zenon
  <2> HIDE DEF w
  <2>5. ASSUME NEW l \in LimitKeys
        PROVE  Cardinality(UnitsOf(l)') <= Capacity
    <3>1. CASE l # k
      <4>1. UnitsOf(l)' = UnitsOf(l)
        BY <3>1, <2>1, <2>3, Zenon DEF UnitsOf
      <4> QED  BY <4>1, <1>t, Zenon
    <3>2. CASE l = k
      <4> DEFINE new == {h} \X (1..w)
      <4>1. UnitsOf(l)' = UnitsOf(l) \cup new
        <5>1. ASSUME NEW x PROVE x \in UnitsOf(l)' => x \in UnitsOf(l) \cup new
          BY <3>2, <2>1, <2>3, <2>4, <1>c DEF UnitsOf
        <5>2. ASSUME NEW x PROVE x \in UnitsOf(l) => x \in UnitsOf(l)'
          BY <3>2, <2>1, <2>3, <2>4, <1>c, Zenon DEF UnitsOf
        <5>3. ASSUME NEW x PROVE x \in new => x \in UnitsOf(l)'
          BY <3>2, <2>1, <2>3, <2>4, <1>c DEF UnitsOf
        <5> QED  BY <5>1, <5>2, <5>3, Zenon
      <4>2. IsFiniteSet(new) /\ Cardinality(new) = w
        <5>1. IsFiniteSet(1..w) /\ Cardinality(1..w) = w
          <6>1. IsFiniteSet(1..w) /\ Cardinality(1..w) = IF 1 > w THEN 0 ELSE w - 1 + 1
            BY <2>4, <1>c, FS_Interval
          <6> QED  BY <6>1, <2>4, <1>c
        <5>2. IsFiniteSet({h}) /\ Cardinality({h}) = 1
          BY FS_Singleton, Zenon
        <5>3. IsFiniteSet(new) /\ Cardinality(new) = 1 * w
          BY <5>1, <5>2, FS_Product, ZenonT(30)
        <5> QED  BY <5>3, <2>4, <1>c
      <4>3. IsFiniteSet(UnitsOf(l)) /\ Cardinality(UnitsOf(l)) \in Nat
        BY UnitsAreFinite, Zenon
      <4> HIDE DEF new
      <4>4. UnitsOf(l) \cap new \in SUBSET UnitsOf(l)
        OBVIOUS
      <4>5. Cardinality(UnitsOf(l) \cap new) \in Nat
        BY <4>3, <4>4, FS_Subset, FS_CardinalityType, Zenon
      <4>6. Cardinality(UnitsOf(l) \cup new)
              = Cardinality(UnitsOf(l)) + w - Cardinality(UnitsOf(l) \cap new)
        BY <4>2, <4>3, FS_Union, Zenon
      <4>7. Cardinality(UnitsOf(l) \cup new) <= Cardinality(UnitsOf(l)) + w
        BY <4>3, <4>5, <4>6, <2>4, <1>c
      <4>8. Cardinality(UnitsOf(l)) + w <= Capacity
        BY <3>2, <2>2, Zenon
      <4> QED  BY <4>1, <4>3, <4>5, <4>6, <4>7, <4>8, <2>4, <1>c
    <3> QED  BY <3>1, <3>2, Zenon
  <2> QED  BY <2>3, <2>5, Zenon DEF LimiterInv
<1>4. ASSUME NEW h \in Holders, ReleaseSemaphore(h)
      PROVE  LimiterInv'
  <2>1. /\ holder[h].step = "holding" /\ holder' = [holder EXCEPT ![h].step = "leaving"]
        /\ UNCHANGED <<entryOf, refs>>
    BY <1>4, Zenon DEF ReleaseSemaphore
  <2>2. /\ LimiterTyped' /\ EntriesAreShared' /\ holder'[h].step = "leaving"
        /\ \A g \in Holders \ {h} : holder'[g] = holder[g]
    BY <2>1, <1>t, UserGoesOn, Zenon
  <2>3. ASSUME NEW l \in LimitKeys
        PROVE  Cardinality(UnitsOf(l)') <= Capacity
    <3>1. UnitsOf(l)' \in SUBSET UnitsOf(l)
      BY <2>2, Zenon DEF UnitsOf
    <3>2. IsFiniteSet(UnitsOf(l)) /\ Cardinality(UnitsOf(l)) \in Nat
      BY UnitsAreFinite, Zenon
    <3>3. /\ IsFiniteSet(UnitsOf(l)') /\ Cardinality(UnitsOf(l)') <= Cardinality(UnitsOf(l))
      BY <3>1, <3>2, FS_Subset, Zenon
    <3>4. Cardinality(UnitsOf(l)') \in Nat
      BY <3>3, FS_CardinalityType, Zenon
    <3> QED  BY <3>2, <3>3, <3>4, <1>t, <1>c
  <2> QED  BY <2>2, <2>3, Zenon DEF LimiterInv
<1>5. ASSUME NEW h \in Holders, Unreference(h)
      PROVE  LimiterInv'
  <2>1. PICK e : e = holder[h].entry
    OBVIOUS
  <2>2. PICK k : k = holder[h].key
    OBVIOUS
  <2>3. /\ holder[h].step = "leaving" /\ holder' = [holder EXCEPT ![h] = Away]
        /\ refs' = [refs EXCEPT ![e] = refs[e] - 1]
        /\ entryOf' = [entryOf EXCEPT ![k] =
                         IF entryOf[k] = e /\ refs[e] = 1 THEN 0 ELSE entryOf[k]]
    BY <1>5, <2>1, <2>2, Zenon DEF Unreference
  <2>4. e \in EntryIds /\ k \in LimitKeys /\ entryOf[k] = e /\ e # 0
    BY <2>1, <2>2, <2>3, <1>t, <1>n, HolderRecords, Zenon DEF EntriesAreShared
  <2>5. /\ holder'[h] = Away /\ \A g \in Holders \ {h} : holder'[g] = holder[g]
        /\ holder' \in [Holders -> UserRecords \cup {Away}] /\ Away.step = "idle"
    BY <2>3, <1>h, Zenon DEF Away
  <2>6. /\ \A f : f # e => UsersOf(f)' = UsersOf(f)
        /\ UsersOf(e)' = UsersOf(e) \ {h} /\ h \in UsersOf(e)
    BY <2>1, <2>3, <2>5, Zenon DEF UsersOf
  <2>7. IsFiniteSet(UsersOf(e))
    <3>1. UsersOf(e) \in SUBSET Holders
      BY Zenon DEF UsersOf
    <3> QED  BY <3>1, <1>n, FS_Subset, Zenon
  <2>8. /\ Cardinality(UsersOf(e) \ {h}) = Cardinality(UsersOf(e)) - 1
        /\ IsFiniteSet(UsersOf(e) \ {h}) /\ Cardinality(UsersOf(e) \ {h}) \in Nat
    BY <2>6, <2>7, FS_RemoveElement, FS_CardinalityType, Zenon
  <2>9. refs[e] = Cardinality(UsersOf(e)) /\ refs[e] \in Nat
    BY <2>4, <1>t, <1>h, Zenon DEF EntriesAreShared
  <2>10. /\ refs' \in [EntryIds -> Nat] /\ refs'[e] = refs[e] - 1
         /\ \A f \in EntryIds \ {e} : refs'[f] = refs[f]
    BY <2>3, <2>4, <2>8, <2>9, <1>h, Zenon
  <2>11. /\ entryOf'[k] = (IF refs[e] = 1 THEN 0 ELSE e)
         /\ \A l \in LimitKeys \ {k} : entryOf'[l] = entryOf[l]
         /\ entryOf' \in [LimitKeys -> EntryIds \cup {0}]
    BY <2>3, <2>4, <1>h, Zenon
  <2>12. refs[e] = 1 <=> UsersOf(e) = {h}
    <3>1. Cardinality(UsersOf(e) \ {h}) = 0 <=> UsersOf(e) \ {h} = {}
      BY <2>8, FS_EmptySet, Zenon
    <3>2. refs[e] = 1 <=> Cardinality(UsersOf(e) \ {h}) = 0
      BY <2>8, <2>9
    <3> QED  BY <3>1, <3>2, <2>6, Zenon
  <2>13. LimiterTyped'
    BY <2>5, <2>10, <2>11, Zenon DEF LimiterTyped, UserRecords, Away, EntryIds
  <2>14. EntriesAreShared'
    <3>1. ASSUME NEW g \in Holders, holder'[g].step # "idle"
          PROVE  entryOf'[holder'[g].key] = holder'[g].entry
      <4>1. g # h /\ holder'[g] = holder[g] /\ holder[g].step # "idle"
        BY <3>1, <2>5, Zenon
      <4>2. entryOf[holder[g].key] = holder[g].entry /\ holder[g].key \in LimitKeys
        BY <4>1, <1>t, HolderRecords, Zenon DEF EntriesAreShared
      <4>3. CASE holder[g].key = k
        <5>1. g \in UsersOf(e)
          BY <4>1, <4>2, <4>3, <2>4, Zenon DEF UsersOf
        <5>2. refs[e] # 1
          BY <5>1, <4>1, <2>12, Zenon
        <5> QED  BY <4>1, <4>2, <4>3, <5>2, <2>4, <2>11, Zenon
      <4>4. CASE holder[g].key # k
        BY <4>1, <4>2, <4>4, <2>11, Zenon
      <4> QED  BY <4>3, <4>4, Zenon
    <3>2. ASSUME NEW l \in LimitKeys, entryOf'[l] # 0
          PROVE  \E g \in Holders : holder'[g].step # "idle" /\ holder'[g].key = l
      <4>1. CASE l = k
        <5>1. refs[e] # 1
          BY <3>2, <4>1, <2>11, Zenon
        <5>2. PICK g \in UsersOf(e) : g # h
          BY <5>1, <2>6, <2>12, Zenon
        <5>3. g \in Holders /\ holder[g].step # "idle" /\ holder[g].entry = e
          BY <5>2, Zenon DEF UsersOf
        <5>4. holder[g].key \in LimitKeys /\ entryOf[holder[g].key] = e
          BY <5>3, <1>t, HolderRecords, Zenon DEF EntriesAreShared
        <5>5. holder[g].key = k
          BY <5>4, <2>4, <1>t DEF EntriesAreShared
        <5> QED  BY <4>1, <5>2, <5>3, <5>5, <2>5, Zenon
      <4>2. CASE l # k
        <5>1. PICK g \in Holders : holder[g].step # "idle" /\ holder[g].key = l
          BY <4>2, <3>2, <2>11, <1>t, Zenon DEF EntriesAreShared
        <5> QED  BY <5>1, <4>2, <2>2, <2>5, Zenon
      <4> QED  BY <4>1, <4>2, Zenon
    <3>3. ASSUME NEW l \in LimitKeys, NEW m \in LimitKeys,
                 entryOf'[l] = entryOf'[m], entryOf'[l] # 0
          PROVE  l = m
      <4>1. entryOf'[l] = entryOf[l] /\ entryOf'[m] = entryOf[m]
        BY <3>3, <2>4, <2>11, Zenon
      <4> QED  BY <4>1, <3>3, <1>t, Zenon DEF EntriesAreShared
    <3>4. ASSUME NEW f \in EntryIds
          PROVE  refs'[f] = Cardinality(UsersOf(f)')
      <4>1. CASE f = e
        BY <4>1, <2>6, <2>8, <2>9, <2>10, Zenon
      <4>2. CASE f # e
        BY <4>2, <2>6, <2>10, <1>t, Zenon DEF EntriesAreShared
      <4> QED  BY <4>1, <4>2, Zenon
    <3> QED  BY <3>1, <3>2, <3>3, <3>4, Zenon DEF EntriesAreShared, EntryIds
  <2>15. \A g \in Holders : /\ holder'[g].step = "holding" <=> holder[g].step = "holding"
                            /\ holder[g].step = "holding" => holder'[g] = holder[g]
    BY <2>3, <2>5, Zenon
  <2> QED  BY <2>13, <2>14, <2>15, <1>q, Zenon
<1>6. CASE UNCHANGED keyedVars
  <2>1. UNCHANGED <<holder, entryOf, refs>>
    BY <1>6, Zenon DEF keyedVars
  <2>2. LimiterTyped'
    BY <2>1, <1>t, Zenon DEF LimiterTyped, UserRecords, Away, EntryIds
  <2>3. \A e : UsersOf(e)' = UsersOf(e)
    BY <2>1, Zenon DEF UsersOf
  <2>4. EntriesAreShared'
    BY <2>1, <2>3, <1>t, Zenon DEF EntriesAreShared, EntryIds
  <2> QED  BY <2>1, <2>2, <2>4, <1>q, Zenon
<1> QED  BY <1>1, <1>2, <1>3, <1>4, <1>5, <1>6, Zenon DEF KeyedNext

(* The capacity holds per key, and the map has an entry for a key exactly    *)
(* while somebody uses it, for any number of goroutines and keys (keyed.go). *)
THEOREM CapacityHoldsPerKey == KeyedSpec => []KeyCapacityKept
<1>1. KeyedInit => LimiterInv
  <2> SUFFICES ASSUME KeyedInit PROVE LimiterInv
    OBVIOUS
  <2>1. \A h \in Holders : holder[h].step = "idle"
    BY Zenon DEF KeyedInit, Away
  <2>2. LimiterTyped
    BY Zenon DEF KeyedInit, LimiterTyped
  <2>3. \A e : UsersOf(e) = {}
    BY <2>1, Zenon DEF UsersOf
  <2>4. \A k : UnitsOf(k) = {}
    BY <2>1, Zenon DEF UnitsOf
  <2>5. EntriesAreShared
    BY <2>1, <2>3, FS_EmptySet, Zenon DEF KeyedInit, EntriesAreShared
  <2>6. \A k : Cardinality(UnitsOf(k)) <= Capacity
    BY <2>4, FS_EmptySet, KeyedConstants
  <2> QED  BY <2>2, <2>5, <2>6, Zenon DEF LimiterInv
<1>2. LimiterInv /\ [KeyedNext]_keyedVars => LimiterInv'
  BY LimiterStep, Zenon
<1>3. LimiterInv => KeyCapacityKept
  <2> SUFFICES ASSUME LimiterInv, NEW k \in LimitKeys
               PROVE  LET users == {h \in Holders : holder[h].step # "idle" /\ holder[h].key = k}
                      IN  WeightHeld(users) <= Capacity /\ (entryOf[k] = 0 <=> users = {})
    BY Zenon DEF KeyCapacityKept
  <2>1. LimiterTyped /\ EntriesAreShared /\ Cardinality(UnitsOf(k)) <= Capacity
    BY Zenon DEF LimiterInv
  <2>2. WeightHeld({h \in Holders : holder[h].step # "idle" /\ holder[h].key = k}) <= Capacity
    BY <2>1, WeightsAreUnits, Zenon
  <2>3. entryOf[k] # 0 <=> \E h \in Holders : holder[h].step # "idle" /\ holder[h].key = k
    BY <2>1, HolderRecords, EntryCount DEF EntriesAreShared
  <2> QED  BY <2>2, <2>3, Zenon
<1> QED  BY <1>1, <1>2, <1>3, PTL DEF KeyedSpec
=============================================================================
