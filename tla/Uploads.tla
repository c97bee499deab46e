------------------------------ MODULE Uploads ------------------------------
(***************************************************************************)
(* Uploads of the Media service.  A user creates an upload under a quota,  *)
(* the client puts the object through a presigned URL, and CompleteUpload, *)
(* AbortUpload and the cleanup loop end it.  Each of these holds the       *)
(* asset's advisory lock on a database connection of its own and writes    *)
(* the asset through that connection: when the connection is lost the lock *)
(* is too, and the call can write nothing more.                            *)
(***************************************************************************)
EXTENDS Naturals, FiniteSets

CONSTANTS
  Images,            \* uploads of avatars and icons: staged, then published
  Attachments,       \* uploads of attachments: stored where they are served
  Tasks,             \* concurrent calls and cleanup passes
  MaxActiveUploads   \* quota of a user

ASSUME UploadConstants == MaxActiveUploads \in Nat

VARIABLES
  status,     \* per upload: no row yet, or the row's status
  object,     \* per upload: the object at its upload key
  publishedImages,  \* images whose processed object was written
  overdue,    \* uploads past their deadline
  task,       \* per task: its step, upload and what it is about to write
  assetLock,  \* per upload: the task that holds its advisory lock
  quotaLock,  \* the task that holds the user's quota lock
  connected   \* tasks whose database connection is alive

uploadVars == <<status, object, publishedImages, overdue, task, assetLock, quotaLock, connected>>

Assets == Images \union Attachments

Ended == {"ready", "failed", "aborted", "expired"}

Statuses == {"absent", "created", "completing"} \union Ended

Free == [step |-> "free"]

TaskStates ==
  [step : {"quota", "count", "insert", "lock complete", "lock abort", "lock cleanup",
           "process", "remove"}, asset : Assets]
    \union [step : {"complete", "abort", "cleanup"}, asset : Assets, seen : Statuses]
    \union [step : {"write"}, asset : Assets, status : Statuses, next : {"complete", "remove", "free"}]

UploadTypeOK ==
  /\ status \in [Assets -> Statuses]
  /\ object \in [Assets -> {"none", "good", "bad"}]
  /\ publishedImages \in SUBSET Images /\ overdue \in SUBSET Assets
  /\ task \in [Tasks -> TaskStates \union {Free}]
  /\ assetLock \in [Assets -> SUBSET Tasks] /\ quotaLock \in SUBSET Tasks
  /\ connected \in SUBSET Tasks

UploadInit ==
  /\ status = [a \in Assets |-> "absent"]
  /\ object = [a \in Assets |-> "none"]
  /\ publishedImages = {} /\ overdue = {}
  /\ task = [p \in Tasks |-> Free]
  /\ assetLock = [a \in Assets |-> {}] /\ quotaLock = {}
  /\ connected = Tasks

(***************************************************************************)
(* Operators                                                               *)
(***************************************************************************)

On(p, s) == task[p].step = s

MoveTo(p, s) == task' = [task EXCEPT ![p] = [step |-> s, asset |-> @.asset]]

\* The task knows the asset's status from here on.
ReadAsset(p, s) ==
  task' = [task EXCEPT ![p] = [step |-> s, asset |-> @.asset, seen |-> status[@.asset]]]

\* The asset as it will be written, and the step that follows the write.
ToWrite(p, st, next) ==
  task' = [task EXCEPT ![p] = [step |-> "write", asset |-> @.asset, status |-> st, next |-> next]]

\* The call returns: its locks and its connection go back.
EndTask(p) ==
  /\ task' = [task EXCEPT ![p] = Free]
  /\ assetLock' = [a \in Assets |-> assetLock[a] \ {p}]
  /\ quotaLock' = quotaLock \ {p}
  /\ connected' = connected \union {p}

Active == {a \in Assets : status[a] = "created"}

(***************************************************************************)
(* Creating an upload                                                      *)
(***************************************************************************)

CreateUpload(p, a) ==
  /\ On(p, "free") /\ status[a] = "absent"
  /\ \A q \in Tasks : task[q] # Free => task[q].asset # a
  /\ task' = [task EXCEPT ![p] = [step |-> "quota", asset |-> a]]
  /\ UNCHANGED <<status, object, publishedImages, overdue, assetLock, quotaLock, connected>>

\* The user's quota lock is taken for the rest of the transaction.
LockUploadQuota(p) ==
  /\ On(p, "quota") /\ quotaLock = {}
  /\ quotaLock' = {p}
  /\ MoveTo(p, "count")
  /\ UNCHANGED <<status, object, publishedImages, overdue, assetLock, connected>>

CountActiveUploads(p) ==
  /\ On(p, "count")
  /\ IF Cardinality(Active) >= MaxActiveUploads
       THEN EndTask(p)
       ELSE MoveTo(p, "insert") /\ UNCHANGED <<assetLock, quotaLock, connected>>
  /\ UNCHANGED <<status, object, publishedImages, overdue>>

CreateAsset(p) ==
  /\ On(p, "insert") /\ p \in connected
  /\ status' = [status EXCEPT ![task[p].asset] = "created"]
  /\ EndTask(p)
  /\ UNCHANGED <<object, publishedImages, overdue>>

\* The client puts the object, of the size and type it announced or not.
PutObject(a, quality) ==
  /\ status[a] # "absent"
  /\ object' = [object EXCEPT ![a] = quality]
  /\ UNCHANGED <<status, publishedImages, overdue, task, assetLock, quotaLock, connected>>

DeadlinePasses(a) ==
  /\ status[a] # "absent" /\ a \notin overdue
  /\ overdue' = overdue \union {a}
  /\ UNCHANGED <<status, object, publishedImages, task, assetLock, quotaLock, connected>>

(***************************************************************************)
(* Ending an upload                                                        *)
(***************************************************************************)

\* CompleteUpload or AbortUpload is called; the cleanup lists an overdue upload.
BeginEnding(p, a) ==
  /\ On(p, "free") /\ status[a] # "absent"
  /\ \E s \in {"lock complete", "lock abort", "lock cleanup"} :
       /\ s = "lock cleanup" => status[a] = "created" /\ a \in overdue
       /\ task' = [task EXCEPT ![p] = [step |-> s, asset |-> a]]
  /\ UNCHANGED <<status, object, publishedImages, overdue, assetLock, quotaLock, connected>>

\* AcquireAssetLock waits for the task that holds the upload's lock; the asset
\* is then read on the lock's connection.
AcquireAssetLock(p) ==
  /\ task[p] # Free /\ p \in connected /\ assetLock[task[p].asset] = {}
  /\ \/ On(p, "lock complete") /\ ReadAsset(p, "complete")
     \/ On(p, "lock abort") /\ ReadAsset(p, "abort")
     \/ On(p, "lock cleanup") /\ ReadAsset(p, "cleanup")
  /\ assetLock' = [assetLock EXCEPT ![task[p].asset] = {p}]
  /\ UNCHANGED <<status, object, publishedImages, overdue, quotaLock, connected>>

\* completeLocked up to its next write: an ended upload is answered from its
\* status, an overdue one expires, a missing object is reported and a wrong one
\* fails the upload.  A good one is first recorded as completing and then
\* processed, or served as it is.
Complete(p) ==
  LET a == task[p].asset
      seen == task[p].seen
      late == seen = "created" /\ a \in overdue
      found(quality) == seen \notin Ended /\ ~late /\ object[a] = quality
  IN /\ On(p, "complete")
     /\ \/ (seen \in Ended \/ found("none")) /\ EndTask(p)
        \/ /\ \/ late /\ ToWrite(p, "expired", "remove")
              \/ found("bad") /\ ToWrite(p, "failed", "remove")
              \/ found("good") /\ seen = "created" /\ ToWrite(p, "completing", "complete")
              \/ found("good") /\ seen # "created" /\ a \in Images /\ MoveTo(p, "process")
              \/ found("good") /\ seen # "created" /\ a \notin Images /\ ToWrite(p, "ready", "free")
           /\ UNCHANGED <<assetLock, quotaLock, connected>>
     /\ UNCHANGED <<status, object, publishedImages, overdue>>

\* The image is processed and its published object written; or it is refused.
ProcessImage(p) ==
  /\ On(p, "process")
  /\ \/ /\ publishedImages' = publishedImages \union {task[p].asset}
        /\ ToWrite(p, "ready", "remove")
     \/ /\ ToWrite(p, "failed", "remove")
        /\ UNCHANGED publishedImages
  /\ UNCHANGED <<status, object, overdue, assetLock, quotaLock, connected>>

AbortUpload(p) ==
  /\ On(p, "abort")
  /\ IF task[p].seen \in Ended
       THEN EndTask(p)
       ELSE ToWrite(p, "aborted", "remove") /\ UNCHANGED <<assetLock, quotaLock, connected>>
  /\ UNCHANGED <<status, object, publishedImages, overdue>>

\* The cleanup reads the upload again under its lock.
CleanupExpired(p) ==
  /\ On(p, "cleanup")
  /\ IF task[p].seen = "created"
       THEN ToWrite(p, "expired", "remove") /\ UNCHANGED <<assetLock, quotaLock, connected>>
       ELSE EndTask(p)
  /\ UNCHANGED <<status, object, publishedImages, overdue>>

\* The step after a write; when its reply is lost the call gives up.
AfterWrite(p) ==
  \/ EndTask(p)
  \/ /\ task[p].next # "free"
     /\ IF task[p].next = "complete"
          THEN task' = [task EXCEPT ![p] = [step |-> "complete", asset |-> @.asset, seen |-> @.status]]
          ELSE MoveTo(p, "remove")
     /\ UNCHANGED <<assetLock, quotaLock, connected>>

\* Fault: the asset is written through the pool, not the lock's connection.
UpdateThroughPool(p) ==
  /\ On(p, "write")
  /\ status' = [status EXCEPT ![task[p].asset] = task[p].status]
  /\ AfterWrite(p)
  /\ UNCHANGED <<object, publishedImages, overdue>>

\* UpdateAsset on the lock's connection.
UpdateAsset(p) ==
  /\ On(p, "write") /\ p \in connected
  /\ status' = [status EXCEPT ![task[p].asset] = task[p].status]
  /\ AfterWrite(p)
  /\ UNCHANGED <<object, publishedImages, overdue>>

\* The object at the upload key is deleted, or the deletion fails unnoticed; it
\* needs no database connection.
DeleteUploadObject(p) ==
  /\ On(p, "remove")
  /\ \/ object' = [object EXCEPT ![task[p].asset] = "none"]
     \/ UNCHANGED object
  /\ EndTask(p)
  /\ UNCHANGED <<status, publishedImages, overdue>>

(***************************************************************************)
(* Failures                                                                *)
(***************************************************************************)

\* PostgreSQL drops the connection: its locks are released.  A connection lost
\* before it held a lock fails the call at its next statement (TaskFails).
ConnectionLost(p) ==
  /\ task[p] # Free /\ p \in connected
  /\ p \in quotaLock \/ \E a \in Assets : p \in assetLock[a]
  /\ connected' = connected \ {p}
  /\ assetLock' = [a \in Assets |-> assetLock[a] \ {p}]
  /\ quotaLock' = quotaLock \ {p}
  /\ UNCHANGED <<status, object, publishedImages, overdue, task>>

\* A call gives up on an error, a cancellation or its dead connection.
TaskFails(p) ==
  /\ task[p] # Free /\ ~On(p, "remove")
  /\ EndTask(p)
  /\ UNCHANGED <<status, object, publishedImages, overdue>>

UploadNext ==
  \/ \E a \in Assets :
       DeadlinePasses(a) \/ \E quality \in {"good", "bad"} : PutObject(a, quality)
  \/ \E p \in Tasks :
       \/ \E a \in Assets : CreateUpload(p, a) \/ BeginEnding(p, a)
       \/ LockUploadQuota(p) \/ CountActiveUploads(p) \/ CreateAsset(p)
       \/ AcquireAssetLock(p) \/ Complete(p) \/ ProcessImage(p) \/ AbortUpload(p)
       \/ CleanupExpired(p) \/ UpdateAsset(p) \/ DeleteUploadObject(p)
       \/ ConnectionLost(p) \/ TaskFails(p)

UploadSpec == UploadInit /\ [][UploadNext]_uploadVars

(***************************************************************************)
(* Properties                                                              *)
(***************************************************************************)

\* However calls, cleanups and lost locks race (CompleteUpload, AbortUpload,
\* CleanupExpired, CreateAssetWithQuota): a ready asset has the object it is
\* served from; a user never has more created uploads than the quota; and an
\* upload that ended stays as it ended, so that a call that lost its lock cannot
\* turn an aborted or expired upload into a ready one or a ready one into either
\* (AcquireAssetLock's connection carries every later write).
UploadsConsistent ==
  /\ [](\A a \in Assets : status[a] = "ready" =>
          IF a \in Images THEN a \in publishedImages ELSE object[a] # "none")
  /\ [](Cardinality(Active) <= MaxActiveUploads)
  /\ [][\A a \in Assets : status[a] \in Ended => status'[a] = status[a]]_uploadVars

=============================================================================
