------------------------------- MODULE Outbox -------------------------------
(***************************************************************************)
(* The writing side of the transactional outbox: the business transactions *)
(* of the User, Guild and Message services, which reserve sequence numbers *)
(* in the stream table and insert outbox rows next to their own changes.   *)
(*                                                                         *)
(* A writer is one transaction.  A relationship transaction of the User    *)
(* service first takes the advisory locks of both users; every transaction *)
(* then reserves a range in each of its streams, in the order in which the *)
(* streams appear among its drafts.  PostgreSQL keeps a stream row locked  *)
(* from the reservation to the end of the transaction, shows nothing of an *)
(* unfinished transaction to anybody else, and refuses to commit one in    *)
(* which a statement failed.  The relay (OutboxRelay) deletes the rows.    *)
(***************************************************************************)
EXTENDS Integers, Sequences, FiniteSets

CONSTANTS
  Streams,   \* stream keys; a user's stream is named by the user id
  MaxID,     \* the largest id (ids are int64)
  Writers,   \* business transactions
  Ops,       \* what a transaction may do: users to lock, groups of drafts
  None       \* nobody holds the lock

\* A group is the drafts of one stream; a transaction has one group a stream.
Groups == [stream : Streams, count : Nat \ {0}]

ASSUME OutboxConstants ==
  /\ MaxID \in Nat
  /\ Streams \subseteq 0..MaxID
  /\ None \notin Writers
  /\ Ops \subseteq [lock : SUBSET Streams, groups : Seq(Groups)]
  /\ \A op \in Ops : \A i, j \in 1..Len(op.groups) :
       op.groups[i].stream = op.groups[j].stream => i = j

\* Only the relationship calls of the User service draft events of more than
\* one stream, those of the two users they lock first.
ASSUME SeveralStreamsAreLocked ==
  \A op \in Ops : Len(op.groups) > 1 =>
    \A i \in 1..Len(op.groups) : op.groups[i].stream \in op.lock

VARIABLES
  lastSequence,  \* committed last_sequence of each stream row
  rows,          \* committed outbox rows of each stream, by sequence number
  rowLock,       \* transaction holding the row lock of a stream row
  advisory,      \* transaction holding a user's advisory lock
  wpc,           \* where each transaction is
  toLock,        \* users it has still to lock
  groups,        \* groups it has still to reserve
  reserved,      \* rows it inserted, not yet committed
  failed         \* a statement of it failed: PostgreSQL will not commit it

tableVars == <<lastSequence, rows>>
lockVars == <<rowLock, advisory>>
txVars == <<wpc, toLock, groups, reserved, failed>>
writerVars == <<tableVars, lockVars, txVars>>

WriterPcs == {"new", "lock", "reserve", "commit", "done"}

----------------------------------------------------------------------------

WriterInit ==
  /\ lastSequence = [s \in Streams |-> 0]
  /\ rows = [s \in Streams |-> {}]
  /\ rowLock = [s \in Streams |-> None]
  /\ advisory = [s \in Streams |-> None]
  /\ wpc = [w \in Writers |-> "new"]
  /\ toLock = [w \in Writers |-> {}]
  /\ groups = [w \in Writers |-> <<>>]
  /\ reserved = [w \in Writers |-> [s \in Streams |-> {}]]
  /\ failed = [w \in Writers |-> FALSE]

Begin(w) ==
  /\ wpc[w] = "new"
  /\ \E op \in Ops :
       /\ toLock' = [toLock EXCEPT ![w] = op.lock]
       /\ groups' = [groups EXCEPT ![w] = op.groups]
  /\ wpc' = [wpc EXCEPT ![w] = "lock"]
  /\ UNCHANGED <<tableVars, lockVars, reserved, failed>>

\* The users a transaction may lock next: the lower id goes first.
NextLock_AnyOrder(users) == users
NextLock(users) == {u \in users : \A v \in users : u <= v}

LockRelationshipPair(w) ==
  /\ wpc[w] = "lock"
  /\ \E u \in NextLock(toLock[w]) :
       /\ advisory[u] = None
       /\ advisory' = [advisory EXCEPT ![u] = w]
       /\ toLock' = [toLock EXCEPT ![w] = @ \ {u}]
  /\ UNCHANGED <<tableVars, rowLock, wpc, groups, reserved, failed>>

\* The business reads and writes, which decide that there is something to say.
Change(w) ==
  /\ wpc[w] = "lock"
  /\ toLock[w] = {}
  /\ wpc' = [wpc EXCEPT ![w] = "reserve"]
  /\ UNCHANGED <<tableVars, lockVars, toLock, groups, reserved, failed>>

\* Reserving waits until no other transaction holds the stream row.
RowIsFree(s) == rowLock[s] = None

\* The range RETURNING gives back.
ReservedRange(s, count) == (lastSequence[s] + 1)..(lastSequence[s] + count)

\* EnsureStream, ReserveSequences and InsertBatch for the next group.
Reserve(w) ==
  /\ wpc[w] = "reserve"
  /\ groups[w] # <<>>
  /\ LET g == Head(groups[w])
     IN  /\ RowIsFree(g.stream)
         /\ rowLock' = [rowLock EXCEPT ![g.stream] = w]
         /\ reserved' = [reserved EXCEPT ![w][g.stream] =
                           ReservedRange(g.stream, g.count)]
  /\ groups' = [groups EXCEPT ![w] = Tail(@)]
  /\ UNCHANGED <<tableVars, advisory, wpc, toLock, failed>>

\* pg_notify; the caller goes on whether it fails or not.
NotifyOutbox(w) ==
  /\ wpc[w] = "reserve"
  /\ groups[w] = <<>>
  /\ wpc' = [wpc EXCEPT ![w] = "commit"]
  /\ \E ok \in BOOLEAN : failed' = [failed EXCEPT ![w] = ~ok]
  /\ UNCHANGED <<tableVars, lockVars, toLock, groups, reserved>>

Release(w) ==
  /\ rowLock' = [s \in Streams |-> IF rowLock[s] = w THEN None ELSE rowLock[s]]
  /\ advisory' = [s \in Streams |-> IF advisory[s] = w THEN None ELSE advisory[s]]

\* The end of a transaction that leaves nothing behind.
Rollback(w) ==
  /\ Release(w)
  /\ wpc' = [wpc EXCEPT ![w] = "done"]
  /\ toLock' = [toLock EXCEPT ![w] = {}]
  /\ groups' = [groups EXCEPT ![w] = <<>>]
  /\ reserved' = [reserved EXCEPT ![w] = [s \in Streams |-> {}]]
  /\ UNCHANGED <<tableVars, failed>>

LargestOr(S, n) == IF S = {} THEN n ELSE CHOOSE m \in S : \A k \in S : k <= m

\* What is committed: the rows, and the last_sequence of each stream reserved.
Publishable(w) ==
  /\ rows' = [s \in Streams |-> rows[s] \cup reserved[w][s]]
  /\ lastSequence' =
       [s \in Streams |-> LargestOr(reserved[w][s], lastSequence[s])]

Commit(w) ==
  /\ wpc[w] = "commit"
  /\ ~failed[w]
  /\ Publishable(w)
  /\ Release(w)
  /\ wpc' = [wpc EXCEPT ![w] = "done"]
  /\ reserved' = [reserved EXCEPT ![w] = [s \in Streams |-> {}]]
  /\ UNCHANGED <<toLock, groups, failed>>

\* COMMIT of a transaction with a failed statement rolls it back.
CommitRefused(w) ==
  /\ wpc[w] = "commit"
  /\ failed[w]
  /\ Rollback(w)

\* Any statement may fail or the process may die before COMMIT.
Abort(w) ==
  /\ wpc[w] \in {"lock", "reserve", "commit"}
  /\ ~failed[w]
  /\ Rollback(w)

WriterStep(w) ==
  \/ Begin(w) \/ LockRelationshipPair(w) \/ Change(w) \/ Reserve(w)
  \/ NotifyOutbox(w) \/ Commit(w) \/ CommitRefused(w) \/ Abort(w)

WriterNext == \E w \in Writers : WriterStep(w)

Spec == WriterInit /\ [][WriterNext]_writerVars

----------------------------------------------------------------------------

(***************************************************************************)
(* Types; and every lock is held by a transaction that is still open, so a *)
(* finished one blocks nobody (Transact always commits or rolls back).     *)
(***************************************************************************)
Open == {w \in Writers : wpc[w] \in {"lock", "reserve", "commit"}}

WriterTypeOK ==
  /\ lastSequence \in [Streams -> Nat]
  /\ rows \in [Streams -> SUBSET (Nat \ {0})]
  /\ rowLock \in [Streams -> Open \cup {None}]
  /\ advisory \in [Streams -> Open \cup {None}]
  /\ wpc \in [Writers -> WriterPcs]
  /\ toLock \in [Writers -> SUBSET Streams]
  /\ groups \in [Writers -> Seq(Groups)]
  /\ reserved \in [Writers -> [Streams -> SUBSET (Nat \ {0})]]
  /\ failed \in [Writers -> BOOLEAN]

(***************************************************************************)
(* No two transactions ever hold the same number of a stream, and none     *)
(* holds a number that was committed before, however their reservations,   *)
(* commits and rollbacks interleave (ReserveSequences).                    *)
(***************************************************************************)
SequencesAreUnique ==
  \A s \in Streams, w \in Writers :
    /\ reserved[w][s] \cap 1..lastSequence[s] = {}
    /\ \A v \in Writers \ {w} : reserved[w][s] \cap reserved[v][s] = {}

(***************************************************************************)
(* Transactions that wait for each other's locks never form a cycle.  The  *)
(* User service reserves streams in the order of its drafts, which differs *)
(* from one operation to the next; the advisory locks LockRelationshipPair *)
(* takes in ascending order before it are what keeps this safe.            *)
(***************************************************************************)
WaitsFor(w, v) ==
  \/ wpc[w] = "lock" /\ toLock[w] # {}
       /\ \A u \in NextLock(toLock[w]) : advisory[u] = v
  \/ wpc[w] = "reserve" /\ groups[w] # <<>>
       /\ rowLock[Head(groups[w]).stream] = v

WritersNeverDeadlock ==
  \A W \in SUBSET Writers : W # {} => \E w \in W : \A v \in W : ~WaitsFor(w, v)
=============================================================================
