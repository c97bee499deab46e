------------------------- MODULE TransactionProofs --------------------------
(***************************************************************************)
(* Transactions and the events they commit, for any number of requests:    *)
(* the outbox with its relay, for any number of streams, workers and       *)
(* failures, and the channel layout with the events that rebuild it.       *)
(***************************************************************************)
EXTENDS OutboxRelay, ChannelLayout, FiniteSetTheorems, WellFoundedInduction, TLAPS

(***************************************************************************)
(* What the transactions keep true.  A number is reserved only under the   *)
(* row lock of its stream, and a reservation continues the stream where    *)
(* the last commit left it; rows carry committed numbers.                  *)
(***************************************************************************)
TableTypes ==
  /\ lastSequence \in [Streams -> Nat]
  /\ rows \in [Streams -> SUBSET Nat]
  /\ rowLock \in [Streams -> Writers \cup {None}]
  /\ reserved \in [Writers -> [Streams -> SUBSET Nat]]
  /\ groups \in [Writers -> Seq(Groups)]

Continues(R, n) == \E k \in Nat \ {0} : R = (n + 1)..(n + k)

Reservations ==
  \A w \in Writers, s \in Streams :
    \/ reserved[w][s] = {}
    \/ rowLock[s] = w /\ Continues(reserved[w][s], lastSequence[s])

RowsCommitted == \A s \in Streams : rows[s] \subseteq 1..lastSequence[s]

TableInv == TableTypes /\ Reservations /\ RowsCommitted

\* The largest number of a reservation is where the stream ends after it
\* (RETURNING last_sequence).
LEMMA LargestOfRange ==
  ASSUME NEW n \in Nat, NEW R, Continues(R, n)
  PROVE  LargestOr(R, n) \in Nat /\ R = (n + 1)..LargestOr(R, n)
         /\ n < LargestOr(R, n)
<1>1. PICK k \in Nat \ {0} : R = (n + 1)..(n + k)
  BY Zenon DEF Continues
<1>2. n + k \in R /\ \A j \in R : j <= n + k
  BY <1>1
<1>3. R # {}
  BY <1>2, Zenon
<1>4. \A m \in R : (\A j \in R : j <= m) => m = n + k
  BY <1>1, <1>2
<1>5. (CHOOSE m \in R : \A j \in R : j <= m) = n + k
  BY <1>2, <1>4, Zenon
<1>6. LargestOr(R, n) = n + k
  BY <1>3, <1>5, Zenon DEF LargestOr
<1> QED
  BY <1>1, <1>6

\* An empty reservation leaves the stream where it was.
LEMMA LargestOfNone ==
  ASSUME NEW n
  PROVE  LargestOr({}, n) = n
BY Zenon DEF LargestOr

(***************************************************************************)
(* How a step of a transaction may change the tables: every stream is      *)
(* extended by the rows with the numbers that follow its last one.         *)
(***************************************************************************)
Extends ==
  /\ lastSequence' \in [Streams -> Nat]
  /\ rows' \in [Streams -> SUBSET Nat]
  /\ \A s \in Streams :
       /\ lastSequence[s] <= lastSequence'[s]
       /\ rows'[s] = rows[s] \cup (lastSequence[s] + 1)..lastSequence'[s]

\* Steps of a transaction other than Commit leave the tables alone.
LEMMA OnlyCommitWrites ==
  ASSUME NEW w \in Writers, WriterStep(w), ~Commit(w)
  PROVE  UNCHANGED tableVars
BY Zenon DEF WriterStep, Begin, LockRelationshipPair, Change, Reserve, NotifyOutbox,
       CommitRefused, Abort, Rollback, tableVars

\* Commit extends each stream by what the transaction reserved in it.
LEMMA CommitExtends ==
  ASSUME TableInv, NEW w \in Writers, Commit(w)
  PROVE  Extends
<1>1. /\ rows' = [s \in Streams |-> rows[s] \cup reserved[w][s]]
      /\ lastSequence' =
           [s \in Streams |-> LargestOr(reserved[w][s], lastSequence[s])]
  BY Zenon DEF Commit, Publishable
<1>2. ASSUME NEW s \in Streams
      PROVE  /\ lastSequence'[s] \in Nat
             /\ lastSequence[s] <= lastSequence'[s]
             /\ reserved[w][s] = (lastSequence[s] + 1)..lastSequence'[s]
  <2>1. lastSequence[s] \in Nat
    BY Zenon DEF TableInv, TableTypes
  <2>2. CASE reserved[w][s] = {}
    <3>1. lastSequence'[s] = lastSequence[s]
      BY <1>1, <2>2, LargestOfNone, Zenon
    <3> QED
      BY <3>1, <2>1, <2>2
  <2>3. CASE Continues(reserved[w][s], lastSequence[s])
    BY <1>1, <2>1, <2>3, LargestOfRange
  <2> QED
    BY <2>2, <2>3, Zenon DEF TableInv, Reservations
<1>3. lastSequence' \in [Streams -> Nat]
  BY <1>1, <1>2, Zenon
<1>4. \A s \in Streams : rows'[s] = rows[s] \cup (lastSequence[s] + 1)..lastSequence'[s]
  BY <1>1, <1>2, Zenon
<1>5. rows' \in [Streams -> SUBSET Nat]
  BY <1>1 DEF TableInv, TableTypes
<1> QED
  BY <1>2, <1>3, <1>4, <1>5, Zenon DEF Extends

\* No step of a transaction does more to the tables than extend the streams.
LEMMA WriterExtends ==
  ASSUME TableInv, NEW w \in Writers, WriterStep(w)
  PROVE  Extends
<1>1. CASE Commit(w)
  BY <1>1, CommitExtends, Zenon
<1>2. CASE ~Commit(w)
  <2>1. lastSequence' = lastSequence /\ rows' = rows
    BY <1>2, OnlyCommitWrites, Zenon DEF tableVars
  <2>2. \A s \in Streams : lastSequence[s] \in Nat
    BY Zenon DEF TableInv, TableTypes
  <2>3. \A s \in Streams : (lastSequence[s] + 1)..lastSequence[s] = {}
    BY <2>2
  <2> QED
    BY <2>1, <2>2, <2>3 DEF Extends, TableInv, TableTypes
<1> QED
  BY <1>1, <1>2, Zenon

\* A step of one transaction leaves the reservations of the others alone.
LEMMA OtherReservations ==
  ASSUME TableInv, NEW w \in Writers, WriterStep(w), NEW v \in Writers, v # w,
         NEW s \in Streams
  PROVE  reserved'[v][s] = reserved[v][s] /\ (rowLock[s] = v => rowLock'[s] = v)
<1>1. CASE Reserve(w)
  <2>1. PICK t \in Streams :
          /\ rowLock[t] = None
          /\ rowLock' = [rowLock EXCEPT ![t] = w]
          /\ \E R : reserved' = [reserved EXCEPT ![w][t] = R]
    <3>1. Head(groups[w]).stream \in Streams
      <4>1. groups[w] \in Seq(Groups) /\ groups[w] # <<>>
        BY <1>1, Zenon DEF TableInv, TableTypes, Reserve
      <4>2. Head(groups[w]) \in Groups
        BY <4>1
      <4> QED
        BY <4>2, Zenon DEF Groups
    <3> QED
      BY <1>1, <3>1, Zenon DEF Reserve, RowIsFree
  <2>2. reserved'[v] = reserved[v]
    BY <2>1, Zenon DEF TableInv, TableTypes
  <2>3. rowLock[s] = v => rowLock'[s] = v
    BY <2>1, OutboxConstants, Zenon DEF TableInv, TableTypes
  <2> QED
    BY <2>2, <2>3, Zenon
<1>2. CASE Commit(w) \/ CommitRefused(w) \/ Abort(w)
  <2>1. Release(w) /\ reserved' = [reserved EXCEPT ![w] = [t \in Streams |-> {}]]
    BY <1>2, Zenon DEF Commit, CommitRefused, Abort, Rollback
  <2> QED
    BY <2>1, Zenon DEF Release, TableInv, TableTypes
<1>3. CASE Begin(w) \/ LockRelationshipPair(w) \/ Change(w) \/ NotifyOutbox(w)
  BY <1>3, Zenon DEF Begin, LockRelationshipPair, Change, NotifyOutbox, lockVars
<1> QED
  BY <1>1, <1>2, <1>3, Zenon DEF WriterStep

\* The transaction that steps: what it holds continues its streams.
LEMMA OwnReservation ==
  ASSUME TableInv, NEW w \in Writers, WriterStep(w), NEW s \in Streams,
         reserved'[w][s] # {}
  PROVE  /\ rowLock'[s] = w
         /\ Continues(reserved'[w][s], lastSequence[s])
         /\ lastSequence' = lastSequence
<1>1. CASE Reserve(w)
  <2>g. DEFINE g == Head(groups[w])
  <2>1. g.stream \in Streams /\ g.count \in Nat \ {0}
    <3>1. groups[w] \in Seq(Groups) /\ groups[w] # <<>>
      BY <1>1, Zenon DEF TableInv, TableTypes, Reserve
    <3>2. Head(groups[w]) \in Groups
      BY <3>1
    <3> QED
      BY <3>2, Zenon DEF Groups
  <2>2. /\ rowLock' = [rowLock EXCEPT ![g.stream] = w]
        /\ reserved' = [reserved EXCEPT ![w][g.stream] =
                          (lastSequence[g.stream] + 1)..(lastSequence[g.stream] + g.count)]
        /\ lastSequence' = lastSequence
    BY <1>1, Zenon DEF Reserve, ReservedRange, tableVars
  <2> HIDE DEF g
  <2>3. CASE s = g.stream
    <3>1. reserved'[w][s] = (lastSequence[s] + 1)..(lastSequence[s] + g.count)
      BY <2>1, <2>2, <2>3, Zenon DEF TableInv, TableTypes
    <3>2. rowLock'[s] = w
      BY <2>1, <2>2, <2>3, Zenon DEF TableInv, TableTypes
    <3> QED
      BY <2>1, <2>2, <3>1, <3>2, Zenon DEF Continues
  <2>4. CASE s # g.stream
    <3>1. reserved'[w][s] = reserved[w][s] /\ rowLock'[s] = rowLock[s]
      BY <2>1, <2>2, <2>4, Zenon DEF TableInv, TableTypes
    <3> QED
      BY <2>2, <3>1, Zenon DEF TableInv, Reservations
  <2> QED
    BY <2>3, <2>4, Zenon
<1>2. CASE Commit(w) \/ CommitRefused(w) \/ Abort(w)
  <2>1. reserved' = [reserved EXCEPT ![w] = [t \in Streams |-> {}]]
    BY <1>2, Zenon DEF Commit, CommitRefused, Abort, Rollback
  <2>2. reserved'[w][s] = {}
    BY <2>1, Zenon DEF TableInv, TableTypes
  <2> QED
    BY <2>2, Zenon
<1>3. CASE Begin(w) \/ LockRelationshipPair(w) \/ Change(w) \/ NotifyOutbox(w)
  <2>1. reserved' = reserved /\ rowLock' = rowLock /\ lastSequence' = lastSequence
    BY <1>3, Zenon DEF Begin, LockRelationshipPair, Change, NotifyOutbox, lockVars, tableVars
  <2> QED
    BY <2>1, Zenon DEF TableInv, Reservations
<1> QED
  BY <1>1, <1>2, <1>3, Zenon DEF WriterStep

\* The types of the tables and of the transactions' own state.
LEMMA TableTypesStep ==
  ASSUME TableInv, NEW w \in Writers, WriterStep(w)
  PROVE  TableTypes'
<1>1. lastSequence' \in [Streams -> Nat] /\ rows' \in [Streams -> SUBSET Nat]
  BY WriterExtends, Zenon DEF Extends
<1>2. rowLock' \in [Streams -> Writers \cup {None}]
  BY Zenon DEF TableInv, TableTypes, WriterStep, Begin, LockRelationshipPair, Change,
         Reserve, NotifyOutbox, Commit, CommitRefused, Abort, Rollback, Release,
         lockVars
<1>3. reserved' \in [Writers -> [Streams -> SUBSET Nat]]
  <2>1. CASE Reserve(w)
    <3>1. PICK t \in Streams, k \in Nat :
            reserved' = [reserved EXCEPT ![w][t] =
                           (lastSequence[t] + 1)..(lastSequence[t] + k)]
      <4>1. groups[w] \in Seq(Groups) /\ groups[w] # <<>>
        BY <2>1, Zenon DEF TableInv, TableTypes, Reserve
      <4>2. Head(groups[w]) \in Groups
        BY <4>1
      <4>3. Head(groups[w]).stream \in Streams /\ Head(groups[w]).count \in Nat
        BY <4>2, Zenon DEF Groups
      <4> QED
        BY <2>1, <4>3, Zenon DEF Reserve, ReservedRange
    <3>2. (lastSequence[t] + 1)..(lastSequence[t] + k) \in SUBSET Nat
      <4>1. lastSequence[t] \in Nat
        BY <3>1, Zenon DEF TableInv, TableTypes
      <4> QED
        BY <4>1, <3>1
    <3> QED
      BY <3>1, <3>2, Zenon DEF TableInv, TableTypes
  <2>2. CASE ~Reserve(w)
    BY <2>2, Zenon DEF TableInv, TableTypes, WriterStep, Begin, LockRelationshipPair,
         Change, NotifyOutbox, Commit, CommitRefused, Abort, Rollback
  <2> QED
    BY <2>1, <2>2, Zenon
<1>4. groups' \in [Writers -> Seq(Groups)]
  <2>1. CASE Begin(w)
    <3>1. PICK op \in Ops : groups' = [groups EXCEPT ![w] = op.groups]
      BY <2>1, Zenon DEF Begin
    <3>2. op.groups \in Seq(Groups)
      BY OutboxConstants, Zenon
    <3> QED
      BY <3>1, <3>2, Zenon DEF TableInv, TableTypes
  <2>2. CASE Reserve(w)
    <3>1. groups[w] \in Seq(Groups) /\ groups[w] # <<>>
      BY <2>2, Zenon DEF TableInv, TableTypes, Reserve
    <3>2. Tail(groups[w]) \in Seq(Groups)
      BY <3>1
    <3> QED
      BY <2>2, <3>2, Zenon DEF Reserve, TableInv, TableTypes
  <2>3. CASE CommitRefused(w) \/ Abort(w)
    <3>1. <<>> \in Seq(Groups)
      OBVIOUS
    <3> QED
      BY <2>3, <3>1, Zenon DEF CommitRefused, Abort, Rollback, TableInv, TableTypes
  <2>4. CASE LockRelationshipPair(w) \/ Change(w) \/ NotifyOutbox(w) \/ Commit(w)
    BY <2>4, Zenon DEF LockRelationshipPair, Change, NotifyOutbox, Commit, TableInv, TableTypes
  <2> QED
    BY <2>1, <2>2, <2>3, <2>4, Zenon DEF WriterStep
<1> QED
  BY <1>1, <1>2, <1>3, <1>4, Zenon DEF TableTypes

\* The invariant of the tables is kept by every step of every transaction.
LEMMA TableStep ==
  ASSUME TableInv, NEW w \in Writers, WriterStep(w)
  PROVE  TableInv'
<1>1. TableTypes'
  BY TableTypesStep, Zenon
<1>2. Reservations'
  <2>0. SUFFICES \A v \in Writers, s \in Streams :
                   \/ reserved'[v][s] = {}
                   \/ rowLock'[s] = v /\ Continues(reserved'[v][s], lastSequence'[s])
    BY Zenon DEF Reservations, Continues
  <2>1. SUFFICES ASSUME NEW v \in Writers, NEW s \in Streams, reserved'[v][s] # {}
                 PROVE  rowLock'[s] = v /\ Continues(reserved'[v][s], lastSequence'[s])
    OBVIOUS
  <2>2. CASE v = w
    BY <2>1, <2>2, OwnReservation, Zenon
  <2>3. CASE v # w
    <3>1. reserved'[v][s] = reserved[v][s] /\ (rowLock[s] = v => rowLock'[s] = v)
      BY <2>3, OtherReservations, Zenon
    <3>2. rowLock[s] = v /\ Continues(reserved[v][s], lastSequence[s])
      BY <2>1, <3>1, Zenon DEF TableInv, Reservations
    <3>3. lastSequence'[s] = lastSequence[s]
      <4>1. CASE Commit(w)
        <5>1. reserved[w][s] = {}
          BY <2>3, <3>2, Zenon DEF TableInv, Reservations
        <5>2. lastSequence'[s] = LargestOr(reserved[w][s], lastSequence[s])
          BY <4>1, Zenon DEF Commit, Publishable
        <5> QED
          BY <5>1, <5>2, LargestOfNone, Zenon
      <4>2. CASE ~Commit(w)
        BY <4>2, OnlyCommitWrites, Zenon DEF tableVars
      <4> QED
        BY <4>1, <4>2, Zenon
    <3> QED
      BY <3>1, <3>2, <3>3, Zenon
  <2> QED
    BY <2>2, <2>3, Zenon
<1>3. RowsCommitted'
  <2>1. SUFFICES ASSUME NEW s \in Streams
                 PROVE  rows'[s] \subseteq 1..lastSequence'[s]
    BY Zenon DEF RowsCommitted
  <2>2. lastSequence[s] \in Nat /\ lastSequence'[s] \in Nat
    BY <1>1, Zenon DEF TableInv, TableTypes
  <2>3. /\ lastSequence[s] <= lastSequence'[s]
        /\ rows'[s] = rows[s] \cup (lastSequence[s] + 1)..lastSequence'[s]
    BY WriterExtends, Zenon DEF Extends
  <2>4. rows[s] \subseteq 1..lastSequence[s]
    BY Zenon DEF TableInv, RowsCommitted
  <2> QED
    BY <2>2, <2>3, <2>4
<1> QED
  BY <1>1, <1>2, <1>3, Zenon DEF TableInv

\* The tables are empty at first.
LEMMA TableInit == WriterInit => TableInv
<1> SUFFICES ASSUME WriterInit PROVE TableInv
  OBVIOUS
<1>1. <<>> \in Seq(Groups)
  OBVIOUS
<1>2. TableTypes
  BY <1>1, Zenon DEF WriterInit, TableTypes
<1>3. \A w \in Writers, s \in Streams : reserved[w][s] = {}
  BY Zenon DEF WriterInit
<1>r. Reservations
  BY <1>3, Zenon DEF Reservations
<1>4. RowsCommitted
  BY Zenon DEF WriterInit, RowsCommitted
<1> QED
  BY <1>2, <1>r, <1>4, Zenon DEF TableInv

(***************************************************************************)
(* No two transactions ever hold the same number of a stream, and none     *)
(* holds a committed one, for any number of transactions and streams       *)
(* (ReserveSequences under the row lock).                                  *)
(***************************************************************************)
THEOREM ReservationsAreUnique == Spec => []SequencesAreUnique
<1>1. WriterInit => TableInv
  BY TableInit, Zenon
<1>2. TableInv /\ [WriterNext]_writerVars => TableInv'
  <2> SUFFICES ASSUME TableInv, [WriterNext]_writerVars PROVE TableInv'
    OBVIOUS
  <2>1. CASE UNCHANGED writerVars
    BY <2>1 DEF writerVars, tableVars, lockVars, txVars, TableInv, TableTypes,
                Reservations, RowsCommitted, Continues
  <2>2. CASE WriterNext
    BY <2>2, TableStep, Zenon DEF WriterNext
  <2> QED
    BY <2>1, <2>2, Zenon
<1>3. TableInv => SequencesAreUnique
  <2> SUFFICES ASSUME TableInv, NEW s \in Streams, NEW w \in Writers
               PROVE  /\ reserved[w][s] \cap 1..lastSequence[s] = {}
                      /\ \A v \in Writers \ {w} : reserved[w][s] \cap reserved[v][s] = {}
    BY Zenon DEF SequencesAreUnique
  <2>1. reserved[w][s] \cap 1..lastSequence[s] = {}
    <3>1. lastSequence[s] \in Nat
      BY Zenon DEF TableInv, TableTypes
    <3> QED
      BY <3>1 DEF TableInv, Reservations, Continues
  <2>2. \A v \in Writers \ {w} : reserved[w][s] = {} \/ reserved[v][s] = {}
    BY DEF TableInv, Reservations
  <2> QED
    BY <2>1, <2>2, Zenon
<1> QED
  BY <1>1, <1>2, <1>3, PTL DEF Spec

----------------------------------------------------------------------------

(***************************************************************************)
(* What the relay keeps true.  A row that is gone was published; the       *)
(* published events of a stream are an initial segment of it; a worker     *)
(* only ever publishes an event all of whose predecessors were published,  *)
(* which stays so however old the worker's selection is; what a worker is  *)
(* about to delete was published.                                          *)
(***************************************************************************)
RelayTypes ==
  /\ published \in [Streams -> SUBSET Nat]
  /\ heads \in [Workers -> SUBSET Events]
  /\ delivered \in [Workers -> SUBSET Events]

GoneWasPublished ==
  \A s \in Streams : 1..lastSequence[s] \subseteq rows[s] \cup published[s]

Ready(e) == e[2] \in 1..lastSequence[e[1]] /\ 1..(e[2] - 1) \subseteq published[e[1]]

HeadsAreReady == \A w \in Workers : \A e \in heads[w] : Ready(e)

DeliveredWasPublished ==
  \A w \in Workers : \A e \in delivered[w] : e[2] \in published[e[1]]

RelayInv ==
  /\ TableInv /\ RelayTypes /\ GoneWasPublished /\ PublishedInOrder
  /\ HeadsAreReady /\ DeliveredWasPublished

\* Nothing is published or committed at first.
LEMMA RelayInit == Init => RelayInv
<1> SUFFICES ASSUME Init PROVE RelayInv
  OBVIOUS
<1>1. TableInv
  BY TableInit, Zenon DEF Init
<1>2. RelayTypes
  BY Zenon DEF Init, RelayTypes, Events
<1>3. GoneWasPublished
  BY DEF Init, WriterInit, GoneWasPublished
<1>4. PublishedInOrder /\ HeadsAreReady /\ DeliveredWasPublished
  BY Zenon DEF Init, PublishedInOrder, HeadsAreReady, DeliveredWasPublished
<1> QED
  BY <1>1, <1>2, <1>3, <1>4, Zenon DEF RelayInv

\* A step of a transaction keeps the relay's invariant: it only adds rows.
LEMMA WriteKeepsRelay ==
  ASSUME RelayInv, NEW w \in Writers, Write(w)
  PROVE  RelayInv'
<1>1. WriterStep(w) /\ published' = published /\ heads' = heads /\ delivered' = delivered
  BY Zenon DEF Write, relayVars, rowVars, workerVars
<1>2. TableInv' /\ Extends
  BY <1>1, TableStep, WriterExtends, Zenon DEF RelayInv
<1>3. RelayTypes'
  BY <1>1, Zenon DEF RelayInv, RelayTypes
<1>4. \A s \in Streams : lastSequence[s] \in Nat /\ lastSequence'[s] \in Nat
                         /\ lastSequence[s] <= lastSequence'[s]
                         /\ rows'[s] = rows[s] \cup (lastSequence[s] + 1)..lastSequence'[s]
  BY <1>2, Zenon DEF Extends, RelayInv, TableInv, TableTypes
<1>5. GoneWasPublished'
  BY <1>1, <1>4 DEF RelayInv, GoneWasPublished
<1>6. PublishedInOrder'
  BY <1>1, <1>4 DEF RelayInv, PublishedInOrder
<1>7. HeadsAreReady'
  <2> SUFFICES ASSUME NEW v \in Workers, NEW e \in heads[v] PROVE Ready(e)'
    BY <1>1, Zenon DEF HeadsAreReady
  <2>1. Ready(e) /\ e[1] \in Streams
    BY DEF RelayInv, RelayTypes, HeadsAreReady, Events
  <2> QED
    BY <1>1, <1>4, <2>1 DEF Ready
<1>8. DeliveredWasPublished'
  BY <1>1, Zenon DEF RelayInv, DeliveredWasPublished
<1> QED
  BY <1>2, <1>3, <1>5, <1>6, <1>7, <1>8, Zenon DEF RelayInv

\* Whether a step other than Record disturbs the invariant depends only on
\* what it does to the topic and to the workers' lists.
LEMMA RelayFrame ==
  ASSUME RelayInv, UNCHANGED writerVars, RelayTypes',
         PublishedInOrder', HeadsAreReady', DeliveredWasPublished',
         \A s \in Streams : published[s] \subseteq published'[s]
  PROVE  RelayInv'
<1>1. TableInv'
  BY DEF RelayInv, writerVars, tableVars, lockVars, txVars, TableInv, TableTypes,
         Reservations, RowsCommitted, Continues
<1>2. GoneWasPublished'
  BY Zenon DEF RelayInv, writerVars, tableVars, GoneWasPublished
<1> QED
  BY <1>1, <1>2, Zenon DEF RelayInv

\* Steps that publish nothing and select nothing; lists may be dropped.
LEMMA QuietStep ==
  ASSUME RelayInv, UNCHANGED <<writerVars, published>>,
         heads' = heads,
         \E W \in SUBSET Workers :
           delivered' = [w \in Workers |-> IF w \in W THEN {} ELSE delivered[w]]
  PROVE  RelayInv'
<1>1. lastSequence' = lastSequence /\ published' = published
  BY Zenon DEF writerVars, tableVars
<1>2. delivered' \in [Workers -> SUBSET Events]
      /\ \A w \in Workers : delivered'[w] \subseteq delivered[w]
  BY Zenon DEF RelayInv, RelayTypes
<1>3. RelayTypes'
  BY <1>1, <1>2, Zenon DEF RelayInv, RelayTypes
<1>4. PublishedInOrder'
  BY <1>1, Zenon DEF RelayInv, PublishedInOrder
<1>5. HeadsAreReady'
  BY <1>1, Zenon DEF RelayInv, HeadsAreReady, Ready
<1>6. DeliveredWasPublished'
  BY <1>1, <1>2, Zenon DEF RelayInv, DeliveredWasPublished
<1> QED
  BY <1>1, <1>3, <1>4, <1>5, <1>6, RelayFrame, Zenon

\* SelectHeads picks only events whose predecessors are gone from the table,
\* and which therefore were published.
LEMMA SelectKeepsRelay ==
  ASSUME RelayInv, NEW w \in Workers, SelectHeads(w)
  PROVE  RelayInv'
<1>1. UNCHANGED writerVars /\ published' = published /\ delivered' = delivered
      /\ lastSequence' = lastSequence
  BY Zenon DEF SelectHeads, rowVars, writerVars, tableVars
<1>2. PICK batch :
        /\ heads' = heads \/ heads' = [heads EXCEPT ![w] = batch]
        /\ batch \subseteq UNION {{s} \X Heads(s) :
                                  s \in {t \in Streams : ShardID[t] \in shard[w]}}
  BY Zenon DEF SelectHeads
<1>3. ASSUME NEW e \in batch
      PROVE  e \in Events /\ Ready(e)
  <2>1. PICK s \in Streams : e \in {s} \X Heads(s)
    BY <1>2, Zenon
  <2>2. e = <<s, e[2]>> /\ e[2] \in rows[s] /\ \A m \in rows[s] : e[2] <= m
    BY <2>1 DEF Heads
  <2>3. rows[s] \subseteq Nat /\ rows[s] \subseteq 1..lastSequence[s]
        /\ lastSequence[s] \in Nat
    BY Zenon DEF RelayInv, TableInv, TableTypes, RowsCommitted
  <2>4. 1..lastSequence[s] \subseteq rows[s] \cup published[s]
    BY Zenon DEF RelayInv, GoneWasPublished
  <2>5. e[2] \in 1..lastSequence[s] /\ e[2] \in Nat
    BY <2>2, <2>3, Zenon
  <2>6. 1..(e[2] - 1) \subseteq published[s]
    BY <2>2, <2>3, <2>4, <2>5
  <2>7. e[1] = s
    BY <2>2
  <2> QED
    BY <2>2, <2>5, <2>6, <2>7, Zenon DEF Ready, Events
<1>4. heads' \in [Workers -> SUBSET Events]
  BY <1>2, <1>3, Zenon DEF RelayInv, RelayTypes
<1>5. RelayTypes'
  BY <1>1, <1>4, Zenon DEF RelayInv, RelayTypes
<1>6. PublishedInOrder' /\ DeliveredWasPublished'
  BY <1>1, Zenon DEF RelayInv, PublishedInOrder, DeliveredWasPublished
<1>7. \A v \in Workers : \A e \in heads'[v] : Ready(e)
  BY <1>2, <1>3, Zenon DEF RelayInv, RelayTypes, HeadsAreReady
<1>8. HeadsAreReady'
  BY <1>1, <1>7, Zenon DEF HeadsAreReady, Ready
<1> QED
  BY <1>1, <1>5, <1>6, <1>8, RelayFrame, Zenon

\* What the arrival of an event on the topic does: its predecessors are there.
LEMMA LandKeepsOrder ==
  ASSUME RelayInv, NEW e \in Events, Ready(e), Land(e), lastSequence' = lastSequence
  PROVE  /\ published' \in [Streams -> SUBSET Nat]
         /\ \A s \in Streams : published[s] \subseteq published'[s]
         /\ e[2] \in published'[e[1]]
         /\ PublishedInOrder'
<1>1. e[1] \in Streams /\ e[2] \in Nat
  BY Zenon DEF Events
<1>2. published' = [published EXCEPT ![e[1]] = @ \cup {e[2]}]
  BY Zenon DEF Land
<1>3. published \in [Streams -> SUBSET Nat]
  BY Zenon DEF RelayInv, RelayTypes
<1>4. \A s \in Streams : published'[s] = IF s = e[1] THEN published[s] \cup {e[2]} ELSE published[s]
  BY <1>1, <1>2, <1>3, Zenon
<1>5. published' \in [Streams -> SUBSET Nat]
  BY <1>1, <1>2, <1>3, Zenon
<1>6. ASSUME NEW s \in Streams, NEW n \in published'[s]
      PROVE  n \in 1..lastSequence'[s] /\ 1..n \subseteq published'[s]
  <2>1. lastSequence[s] \in Nat
    BY Zenon DEF RelayInv, TableInv, TableTypes
  <2>2. CASE n \in published[s]
    BY <1>4, <2>2, Zenon DEF RelayInv, PublishedInOrder
  <2>3. CASE s = e[1] /\ n = e[2]
    <3>1. n \in 1..lastSequence[s] /\ 1..(n - 1) \subseteq published[s]
      BY <2>3, Zenon DEF Ready
    <3>2. 1..n = 1..(n - 1) \cup {n}
      BY <3>1, <2>1
    <3> QED
      BY <1>4, <2>3, <3>1, <3>2, Zenon
  <2> QED
    BY <1>4, <2>2, <2>3, Zenon
<1>7. PublishedInOrder'
  BY <1>6, Zenon DEF PublishedInOrder
<1> QED
  BY <1>1, <1>4, <1>5, <1>7, Zenon

\* An answer of Kafka, whatever it is and whoever still waits for it.
LEMMA AnswerKeepsRelay ==
  ASSUME RelayInv, NEW w \in Workers, NEW e \in heads[w],
         Acknowledged(w, e) \/ ReportedFailed(w, e)
  PROVE  RelayInv' /\ (Land(e) \/ published' = published)
<1>1. /\ UNCHANGED writerVars
      /\ lastSequence' = lastSequence
      /\ heads' = [heads EXCEPT ![w] = @ \ {e}]
  BY Zenon DEF Acknowledged, ReportedFailed, Resolve, writerVars, tableVars
<1>2. e \in Events /\ Ready(e)
  BY Zenon DEF RelayInv, RelayTypes, HeadsAreReady
<1>3. Land(e) \/ published' = published
  BY Zenon DEF Acknowledged, ReportedFailed
<1>4. /\ published' \in [Streams -> SUBSET Nat]
      /\ \A s \in Streams : published[s] \subseteq published'[s]
      /\ PublishedInOrder'
  <2>1. CASE Land(e)
    BY <1>1, <1>2, <2>1, LandKeepsOrder, Zenon
  <2>2. CASE published' = published
    BY <1>1, <2>2, Zenon DEF RelayInv, RelayTypes, PublishedInOrder
  <2> QED
    BY <1>3, <2>1, <2>2, Zenon
<1>5. heads' \in [Workers -> SUBSET Events] /\ \A v \in Workers : heads'[v] \subseteq heads[v]
  BY <1>1, Zenon DEF RelayInv, RelayTypes
<1>6. /\ delivered' \in [Workers -> SUBSET Events]
      /\ \A v \in Workers : \A f \in delivered'[v] : f[2] \in published'[f[1]]
  <2>0. \A v \in Workers : \A f \in delivered[v] :
           f \in Events /\ f[1] \in Streams /\ f[2] \in published[f[1]]
    BY DEF RelayInv, RelayTypes, DeliveredWasPublished, Events
  <2>1. CASE Acknowledged(w, e)
    <3>1. delivered' = [delivered EXCEPT ![w] = @ \cup {e}] /\ Land(e)
      BY <2>1, Zenon DEF Acknowledged
    <3>2. e[2] \in published'[e[1]]
      BY <1>1, <1>2, <3>1, LandKeepsOrder, Zenon
    <3>3. delivered \in [Workers -> SUBSET Events]
      BY Zenon DEF RelayInv, RelayTypes
    <3> QED
      BY <1>2, <1>4, <2>0, <3>1, <3>2, <3>3, Zenon
  <2>2. CASE ReportedFailed(w, e)
    <3>1. delivered' = delivered
      BY <2>2, Zenon DEF ReportedFailed
    <3> QED
      BY <1>4, <2>0, <3>1, Zenon DEF RelayInv, RelayTypes
  <2> QED
    BY <2>1, <2>2, Zenon
<1>7. RelayTypes'
  BY <1>4, <1>5, <1>6, Zenon DEF RelayTypes
<1>8. HeadsAreReady'
  <2> SUFFICES ASSUME NEW v \in Workers, NEW f \in heads'[v] PROVE Ready(f)'
    BY Zenon DEF HeadsAreReady
  <2>1. Ready(f) /\ f[1] \in Streams
    BY <1>5 DEF RelayInv, RelayTypes, HeadsAreReady, Events
  <2> QED
    BY <1>1, <1>4, <2>1, Zenon DEF Ready
<1>9. DeliveredWasPublished'
  BY <1>6, Zenon DEF DeliveredWasPublished
<1>10. RelayInv'
  BY <1>1, <1>4, <1>7, <1>8, <1>9, RelayFrame, Zenon
<1> QED
  BY <1>3, <1>10, Zenon

\* Record deletes only what was published.
LEMMA RecordKeepsRelay ==
  ASSUME RelayInv, NEW w \in Workers, Record(w)
  PROVE  RelayInv'
<1>1. /\ rows' = [s \in Streams |-> rows[s] \ In(s, delivered[w])]
      /\ delivered' = [delivered EXCEPT ![w] = {}]
      /\ UNCHANGED <<lastSequence, rowLock, reserved, groups, published, heads>>
  BY Zenon DEF Record, DeleteDelivered, lockVars, txVars
<1>2. TableInv'
  <2>1. rows' \in [Streams -> SUBSET Nat]
    BY <1>1, Zenon DEF RelayInv, TableInv, TableTypes
  <2>2. TableTypes'
    BY <1>1, <2>1, Zenon DEF RelayInv, TableInv, TableTypes
  <2>3. Reservations'
    BY <1>1 DEF RelayInv, TableInv, Reservations, Continues
  <2>4. RowsCommitted'
    BY <1>1, Zenon DEF RelayInv, TableInv, RowsCommitted
  <2> QED
    BY <2>2, <2>3, <2>4, Zenon DEF TableInv
<1>3. RelayTypes'
  BY <1>1, Zenon DEF RelayInv, RelayTypes
<1>4. GoneWasPublished'
  <2> SUFFICES ASSUME NEW s \in Streams, NEW n \in 1..lastSequence[s], n \notin published[s]
               PROVE  n \in rows'[s]
    BY <1>1, Zenon DEF GoneWasPublished
  <2>1. n \in rows[s]
    BY Zenon DEF RelayInv, GoneWasPublished
  <2>2. n \notin In(s, delivered[w])
    BY Zenon DEF In, RelayInv, DeliveredWasPublished
  <2> QED
    BY <1>1, <2>1, <2>2, Zenon
<1>5. PublishedInOrder'
  BY <1>1, Zenon DEF RelayInv, PublishedInOrder
<1>6. HeadsAreReady'
  BY <1>1, Zenon DEF RelayInv, HeadsAreReady, Ready
<1>7. DeliveredWasPublished'
  BY <1>1, Zenon DEF RelayInv, RelayTypes, DeliveredWasPublished
<1> QED
  BY <1>2, <1>3, <1>4, <1>5, <1>6, <1>7, Zenon DEF RelayInv

\* The steps of a worker that neither select, publish nor record.
LEMMA QuietWorker ==
  ASSUME RelayInv, NEW w \in Workers,
         List(w) \/ tryLock(w) \/ unlock(w) \/ LoseSession(w) \/ RecordFails(w)
           \/ SessionError(w)
  PROVE  RelayInv' /\ published' = published /\ lastSequence' = lastSequence
<1>1. UNCHANGED <<writerVars, published, heads>>
  BY Zenon DEF List, tryLock, unlock, LoseSession, RecordFails, SessionError, rowVars
<1>2. delivered \in [Workers -> SUBSET Events]
  BY Zenon DEF RelayInv, RelayTypes
<1>3. delivered' = delivered \/ delivered' = [delivered EXCEPT ![w] = {}]
  BY Zenon DEF List, tryLock, unlock, LoseSession, RecordFails, SessionError
<1>4. \E W \in SUBSET Workers :
        delivered' = [v \in Workers |-> IF v \in W THEN {} ELSE delivered[v]]
  <2>1. CASE delivered' = delivered
    <3>1. delivered' = [v \in Workers |-> IF v \in {} THEN {} ELSE delivered[v]]
      BY <1>2, <2>1, Zenon
    <3> QED
      BY <3>1
  <2>2. CASE delivered' = [delivered EXCEPT ![w] = {}]
    <3>1. delivered' = [v \in Workers |-> IF v \in {w} THEN {} ELSE delivered[v]]
      BY <1>2, <2>2, Zenon
    <3> QED
      BY <3>1, Zenon
  <2> QED
    BY <1>3, <2>1, <2>2, Zenon
<1>5. RelayInv'
  BY <1>1, <1>4, QuietStep, Zenon
<1> QED
  BY <1>1, <1>5, Zenon DEF writerVars, tableVars

(***************************************************************************)
(* Every step keeps the invariant, and does one of three things to what    *)
(* the consumers see: nothing, an extension of the streams, or the arrival *)
(* of an event whose predecessors arrived.                                 *)
(***************************************************************************)
Visible ==
  \/ lastSequence' = lastSequence /\ published' = published
  \/ Extends /\ published' = published
  \/ \E e \in Events : Ready(e) /\ Land(e) /\ lastSequence' = lastSequence

\* A step of the writers, the relay or the broker keeps the invariant and shows
\* the consumers nothing but what Visible allows.
LEMMA RelayStep ==
  ASSUME RelayInv, [Next]_vars
  PROVE  RelayInv' /\ Visible
<1>1. CASE UNCHANGED vars
  <2>1. UNCHANGED <<writerVars, published, heads, delivered>>
    BY <1>1, Zenon DEF vars, relayVars, rowVars, workerVars
  <2>2. delivered' = [v \in Workers |-> IF v \in {} THEN {} ELSE delivered[v]]
    BY <2>1, Zenon DEF RelayInv, RelayTypes
  <2>3. \E W \in SUBSET Workers :
          delivered' = [v \in Workers |-> IF v \in W THEN {} ELSE delivered[v]]
    BY <2>2
  <2>4. RelayInv'
    BY <2>1, <2>3, QuietStep, Zenon
  <2> QED
    BY <2>1, <2>4, Zenon DEF Visible, writerVars, tableVars
<1>2. ASSUME NEW w \in Writers, Write(w) PROVE RelayInv' /\ Visible
  <2>1. WriterStep(w) /\ published' = published
    BY <1>2, Zenon DEF Write, relayVars, rowVars
  <2> QED
    BY <1>2, <2>1, WriteKeepsRelay, WriterExtends, Zenon DEF Visible, RelayInv
<1>3. ASSUME NEW w \in Workers, SelectHeads(w) PROVE RelayInv' /\ Visible
  <2>1. lastSequence' = lastSequence /\ published' = published
    BY <1>3, Zenon DEF SelectHeads, rowVars, writerVars, tableVars
  <2> QED
    BY <1>3, <2>1, SelectKeepsRelay, Zenon DEF Visible
<1>4. ASSUME NEW w \in Workers, Record(w) PROVE RelayInv' /\ Visible
  <2>1. lastSequence' = lastSequence /\ published' = published
    BY <1>4, Zenon DEF Record
  <2> QED
    BY <1>4, <2>1, RecordKeepsRelay, Zenon DEF Visible
<1>5. ASSUME NEW w \in Workers, Answer(w) PROVE RelayInv' /\ Visible
  <2>1. PICK e \in heads[w] : Acknowledged(w, e) \/ ReportedFailed(w, e)
    BY <1>5, Zenon DEF Answer
  <2>2. RelayInv' /\ (Land(e) \/ published' = published)
    BY <2>1, AnswerKeepsRelay, Zenon
  <2>3. e \in Events /\ Ready(e)
    BY Zenon DEF RelayInv, RelayTypes, HeadsAreReady
  <2>4. lastSequence' = lastSequence
    BY <2>1, Zenon DEF Acknowledged, ReportedFailed, Resolve, writerVars, tableVars
  <2> QED
    BY <2>2, <2>3, <2>4, Zenon DEF Visible
<1>6. ASSUME NEW w \in Workers,
             List(w) \/ tryLock(w) \/ unlock(w) \/ LoseSession(w)
               \/ RecordFails(w) \/ SessionError(w)
      PROVE  RelayInv' /\ Visible
  BY <1>6, QuietWorker, Zenon DEF Visible
<1>7. ASSUME NEW s \in Streams, Due(s) PROVE RelayInv' /\ Visible
  <2>1. UNCHANGED <<writerVars, published, heads, delivered>>
    BY <1>7, Zenon DEF Due, workerVars
  <2>2. delivered' = [v \in Workers |-> IF v \in {} THEN {} ELSE delivered[v]]
    BY <2>1, Zenon DEF RelayInv, RelayTypes
  <2>3. \E W \in SUBSET Workers :
          delivered' = [v \in Workers |-> IF v \in W THEN {} ELSE delivered[v]]
    BY <2>2
  <2>4. RelayInv'
    BY <2>1, <2>3, QuietStep, Zenon
  <2> QED
    BY <2>1, <2>4, Zenon DEF Visible, writerVars, tableVars
<1> QED
  BY <1>1, <1>2, <1>3, <1>4, <1>5, <1>6, <1>7, Zenon DEF Next, Statement

(***************************************************************************)
(* No committed event is lost: it is in the outbox until it has reached    *)
(* the topic, for any number of workers, lost sessions and failures.       *)
(***************************************************************************)
THEOREM CommittedEventsAreKept == RelaySpec => []NoEventLost
<1>1. RelayInv => NoEventLost
  BY Zenon DEF RelayInv, GoneWasPublished, NoEventLost
<1> QED
  BY <1>1, RelayInit, RelayStep, PTL DEF RelaySpec

(***************************************************************************)
(* The events of a stream reach the topic in order, none before its        *)
(* predecessors, also when several workers publish the same stream.        *)
(***************************************************************************)
THEOREM EventsArriveInOrder == RelaySpec => []PublishedInOrder
<1>1. RelayInv => PublishedInOrder
  BY Zenon DEF RelayInv
<1> QED
  BY <1>1, RelayInit, RelayStep, PTL DEF RelaySpec

(***************************************************************************)
(* The outbox and its relay implement the ordered log: every step accepts  *)
(* events, publishes the next event of a stream, or is invisible.          *)
(***************************************************************************)
THEOREM RelayImplementsLog == RelaySpec => ImplementsOrderedLog
<1>1. Init => Log!Init
  BY Zenon DEF Init, WriterInit, Log!Init
<1>2. RelayInv /\ [Next]_vars => [Log!Next]_(Log!logVars)
  <2> SUFFICES ASSUME RelayInv, [Next]_vars PROVE [Log!Next]_(Log!logVars)
    OBVIOUS
  <2>1. CASE lastSequence' = lastSequence /\ published' = published
    BY <2>1, Zenon DEF Log!logVars
  <2>2. CASE Extends /\ published' = published
    BY <2>2, Zenon DEF Extends, Log!Next, Log!Accept
  <2>3. ASSUME NEW e \in Events, Ready(e), Land(e), lastSequence' = lastSequence
        PROVE  [Log!Next]_(Log!logVars)
    <3> DEFINE s == e[1]
               n == e[2]
    <3>1. s \in Streams /\ n \in Nat /\ published \in [Streams -> SUBSET Nat]
      BY Zenon DEF Events, RelayInv, RelayTypes
    <3>2. published' = [published EXCEPT ![s] = @ \cup {n}]
      BY <2>3, Zenon DEF Land
    <3>3. n \in 1..lastSequence[s] /\ 1..(n - 1) \subseteq published[s]
      BY <2>3, Zenon DEF Ready
    <3>4. CASE n \in published[s]
      <4>1. published[s] \cup {n} = published[s]
        BY <3>4, Zenon
      <4>2. published' = published
        BY <3>1, <3>2, <4>1, Zenon
      <4> QED
        BY <2>3, <4>2, Zenon DEF Log!logVars
    <3>5. CASE n \notin published[s]
      <4>1. \A k \in published[s] : k \in Nat \ {0} /\ 1..k \subseteq published[s]
        BY <3>1 DEF RelayInv, PublishedInOrder
      <4>2. \A k \in published[s] : k \in 1..(n - 1)
        BY <3>1, <3>3, <3>5, <4>1
      <4>3. published[s] = 1..(n - 1)
        BY <3>3, <4>2, Zenon
      <4>4. 1..(n - 1) \cup {n} = 1..n
        BY <3>1, <3>3
      <4>5. published' = [published EXCEPT ![s] = 1..n]
        BY <3>2, <4>3, <4>4, Zenon
      <4> QED
        BY <2>3, <3>1, <3>3, <4>3, <4>5, Zenon DEF Log!Next, Log!Publish
    <3> QED
      BY <3>4, <3>5, Zenon
  <2> QED
    BY <2>1, <2>2, <2>3, RelayStep, Zenon DEF Visible
<1> QED
  BY <1>1, <1>2, RelayInit, RelayStep, PTL DEF RelaySpec, ImplementsOrderedLog, Log!Spec
----------------------------------------------------------------------------

(***************************************************************************)
(* The locks of the transactions.  A transaction holds advisory locks of   *)
(* lower ids than those it has still to take; it reserves only when it has *)
(* taken them all; and when it reserves in more than one stream it holds   *)
(* the advisory locks of all of them (LockRelationshipPair comes first).   *)
(***************************************************************************)
LockTypes ==
  /\ wpc \in [Writers -> WriterPcs]
  /\ toLock \in [Writers -> SUBSET Streams]
  /\ advisory \in [Streams -> Writers \cup {None}]

\* Where a transaction may hold locks, and where it may still want some.
LockPhases(w) ==
  /\ \A s \in Streams : rowLock[s] = w => wpc[w] \in {"reserve", "commit"}
  /\ \A s \in Streams : advisory[s] = w => wpc[w] # "new"
  /\ wpc[w] # "lock" => toLock[w] = {}
  /\ wpc[w] \notin {"lock", "reserve"} => groups[w] = <<>>

AscendingLocks(w) ==
  \A s \in Streams : advisory[s] = w => \A u \in toLock[w] : s < u

\* Each stream of a transaction is reserved once.
EachStreamOnce(w) ==
  \A i \in 1..Len(groups[w]) :
    /\ rowLock[groups[w][i].stream] # w
    /\ \A j \in 1..Len(groups[w]) : groups[w][i].stream = groups[w][j].stream => i = j

\* The transaction has the advisory lock of a stream, or will take it.
Covers(w, s) == s \in toLock[w] \/ advisory[s] = w

SeveralAreCovered(w) ==
  \/ groups[w] = <<>>
  \/ Len(groups[w]) = 1 /\ \A s \in Streams : rowLock[s] # w
  \/ /\ \A i \in 1..Len(groups[w]) : Covers(w, groups[w][i].stream)
     /\ \A s \in Streams : rowLock[s] = w => Covers(w, s)

LocksAreOrdered(w) ==
  LockPhases(w) /\ AscendingLocks(w) /\ EachStreamOnce(w) /\ SeveralAreCovered(w)

LockInv == TableInv /\ LockTypes /\ \A w \in Writers : LocksAreOrdered(w)

\* No transaction holds or wants a lock at first.
LEMMA LockInit == WriterInit => LockInv
<1> SUFFICES ASSUME WriterInit PROVE LockInv
  OBVIOUS
<1>1. TableInv
  BY TableInit, Zenon
<1>2. LockTypes
  BY Zenon DEF WriterInit, LockTypes, WriterPcs
<1>3. ASSUME NEW w \in Writers PROVE LocksAreOrdered(w)
  <2>1. groups[w] = <<>> /\ toLock[w] = {}
    BY Zenon DEF WriterInit
  <2>2. \A s \in Streams : rowLock[s] # w /\ advisory[s] # w
    BY OutboxConstants, Zenon DEF WriterInit
  <2>3. LockPhases(w)
    BY <2>1, <2>2, Zenon DEF LockPhases
  <2>4. AscendingLocks(w) /\ SeveralAreCovered(w)
    BY <2>1, <2>2, Zenon DEF AscendingLocks, SeveralAreCovered
  <2>5. EachStreamOnce(w)
    BY <2>1 DEF EachStreamOnce
  <2> QED  BY <2>3, <2>4, <2>5, Zenon DEF LocksAreOrdered
<1> QED  BY <1>1, <1>2, <1>3, Zenon DEF LockInv

\* A transaction whose own state and locks stay as they are keeps its order.
LEMMA SameLocks ==
  ASSUME NEW v \in Writers, LocksAreOrdered(v),
         wpc'[v] = wpc[v], toLock'[v] = toLock[v], groups'[v] = groups[v],
         \A s \in Streams : rowLock'[s] = v <=> rowLock[s] = v,
         \A s \in Streams : advisory'[s] = v <=> advisory[s] = v,
         \A i \in 1..Len(groups[v]) : groups[v][i].stream \in Streams
  PROVE  LocksAreOrdered(v)'
<1>1. LockPhases(v)' /\ AscendingLocks(v)'
  BY Zenon DEF LocksAreOrdered, LockPhases, AscendingLocks
<1>2. EachStreamOnce(v)'
  BY SMTT(20) DEF LocksAreOrdered, EachStreamOnce
<1>3. SeveralAreCovered(v)'
  BY Zenon DEF LocksAreOrdered, SeveralAreCovered, Covers
<1> QED  BY <1>1, <1>2, <1>3, Zenon DEF LocksAreOrdered

\* The drafts a transaction has left name streams.
LEMMA GroupsNameStreams ==
  ASSUME TableInv, NEW v \in Writers, NEW i \in 1..Len(groups[v])
  PROVE  groups[v][i].stream \in Streams
<1>1. groups[v] \in Seq(Groups)
  BY Zenon DEF TableInv, TableTypes
<1>2. groups[v][i] \in Groups
  BY <1>1
<1> QED  BY <1>2, Zenon DEF Groups

\* What the steps of a transaction do to the locks and to its own state.
LEMMA LockTypesStep ==
  ASSUME LockTypes, NEW w \in Writers, WriterStep(w)
  PROVE  LockTypes'
<1>1. wpc' \in [Writers -> WriterPcs]
  BY Zenon DEF LockTypes, WriterPcs, WriterStep, Begin, LockRelationshipPair, Change,
         Reserve, NotifyOutbox, Commit, CommitRefused, Abort, Rollback
<1>2. toLock' \in [Writers -> SUBSET Streams]
  <2>1. CASE Begin(w)
    <3>1. PICK op \in Ops : toLock' = [toLock EXCEPT ![w] = op.lock]
      BY <2>1, Zenon DEF Begin
    <3>2. op.lock \in SUBSET Streams
      BY OutboxConstants, Zenon
    <3> QED  BY <3>1, <3>2, Zenon DEF LockTypes
  <2>2. CASE LockRelationshipPair(w)
    <3>1. PICK u : toLock' = [toLock EXCEPT ![w] = @ \ {u}]
      BY <2>2, Zenon DEF LockRelationshipPair
    <3> QED  BY <3>1, Zenon DEF LockTypes
  <2>3. CASE toLock' = toLock \/ toLock' = [toLock EXCEPT ![w] = {}]
    BY <2>3, Zenon DEF LockTypes
  <2> QED
    BY <2>1, <2>2, <2>3, Zenon DEF WriterStep, Change, Reserve, NotifyOutbox, Commit,
       CommitRefused, Abort, Rollback
<1>3. advisory' \in [Streams -> Writers \cup {None}]
  BY Zenon DEF LockTypes, WriterStep, Begin, LockRelationshipPair, Change, Reserve,
         NotifyOutbox, Commit, CommitRefused, Abort, Rollback, Release, lockVars
<1> QED  BY <1>1, <1>2, <1>3, Zenon DEF LockTypes

\* A step of one transaction leaves the order of another one's locks alone.
LEMMA OthersKeepLocks ==
  ASSUME LockInv, NEW w \in Writers, WriterStep(w), NEW v \in Writers, v # w
  PROVE  LocksAreOrdered(v)'
<1>t. LockTypes /\ TableTypes /\ LocksAreOrdered(v)
  BY Zenon DEF LockInv, TableInv
<1>n. None # v
  BY OutboxConstants, Zenon
<1>1. wpc'[v] = wpc[v] /\ toLock'[v] = toLock[v] /\ groups'[v] = groups[v]
  BY <1>t, Zenon DEF LockTypes, TableTypes, WriterStep, Begin, LockRelationshipPair, Change, Reserve,
              NotifyOutbox, Commit, CommitRefused, Abort, Rollback
<1>2. \A s \in Streams : advisory'[s] = v <=> advisory[s] = v
  <2>1. CASE LockRelationshipPair(w)
    <3>1. PICK u : advisory[u] = None /\ advisory' = [advisory EXCEPT ![u] = w]
      BY <2>1, Zenon DEF LockRelationshipPair
    <3> QED  BY <3>1, <1>t, <1>n, Zenon DEF LockTypes
  <2>2. CASE Release(w)
    BY <2>2, <1>t, <1>n, Zenon DEF Release, LockTypes
  <2>3. CASE advisory' = advisory
    BY <2>3, Zenon
  <2> QED
    BY <2>1, <2>2, <2>3, Zenon DEF WriterStep, Begin, Change, Reserve, NotifyOutbox,
       Commit, CommitRefused, Abort, Rollback, lockVars
<1>3. \A s \in Streams : rowLock'[s] = v <=> rowLock[s] = v
  <2>1. CASE Reserve(w)
    <3>1. PICK u : rowLock[u] = None /\ rowLock' = [rowLock EXCEPT ![u] = w]
      BY <2>1, Zenon DEF Reserve, RowIsFree
    <3> QED  BY <3>1, <1>t, <1>n, Zenon DEF TableTypes
  <2>2. CASE Release(w)
    BY <2>2, <1>t, <1>n, Zenon DEF Release, TableTypes
  <2>3. CASE rowLock' = rowLock
    BY <2>3, Zenon
  <2> QED
    BY <2>1, <2>2, <2>3 DEF WriterStep, Begin, LockRelationshipPair, Change,
       NotifyOutbox, Commit, CommitRefused, Abort, Rollback, lockVars
<1> QED  BY <1>t, <1>1, <1>2, <1>3, SameLocks, GroupsNameStreams, Zenon DEF LockInv

\* The first statement of a transaction: it holds nothing yet.
LEMMA BeginKeepsOrder ==
  ASSUME LockInv, NEW w \in Writers, Begin(w)
  PROVE  LocksAreOrdered(w)'
<1>1. PICK op \in Ops : /\ toLock' = [toLock EXCEPT ![w] = op.lock]
                        /\ groups' = [groups EXCEPT ![w] = op.groups]
  BY Zenon DEF Begin
<1>2. /\ wpc[w] = "new" /\ wpc'[w] = "lock"
      /\ toLock'[w] = op.lock /\ groups'[w] = op.groups
      /\ rowLock' = rowLock /\ advisory' = advisory
  BY <1>1, Zenon DEF Begin, LockInv, LockTypes, TableInv, TableTypes, lockVars
<1>3. \A s \in Streams : rowLock[s] # w /\ advisory[s] # w
  BY <1>2, Zenon DEF LockInv, LocksAreOrdered, LockPhases
<1>4. /\ op.groups \in Seq(Groups)
      /\ \A i, j \in 1..Len(op.groups) :
           op.groups[i].stream = op.groups[j].stream => i = j
  BY OutboxConstants, Zenon
<1>5. \A i \in 1..Len(op.groups) : op.groups[i].stream \in Streams
  <2> TAKE i \in 1..Len(op.groups)
  <2>1. op.groups[i] \in Groups
    BY <1>4
  <2> QED  BY <2>1, Zenon DEF Groups
<1>6. LockPhases(w)' /\ AscendingLocks(w)'
  BY <1>2, <1>3, Zenon DEF LockPhases, AscendingLocks
<1>7. EachStreamOnce(w)'
  BY <1>2, <1>3, <1>4, <1>5, Zenon DEF EachStreamOnce
<1>8. SeveralAreCovered(w)'
  <2>1. Len(op.groups) \in Nat /\ (Len(op.groups) = 0 => op.groups = <<>>)
    BY <1>4
  <2>2. Len(op.groups) > 1 => \A i \in 1..Len(op.groups) : op.groups[i].stream \in op.lock
    BY SeveralStreamsAreLocked, Zenon
  <2>3. CASE Len(op.groups) > 1
    BY <1>2, <1>3, <2>2, <2>3, Zenon DEF SeveralAreCovered, Covers
  <2>4. CASE ~(Len(op.groups) > 1)
    <3>0. \A n \in Nat : ~(n > 1) => n = 0 \/ n = 1
      OBVIOUS
    <3>1. Len(op.groups) = 0 \/ Len(op.groups) = 1
      BY <2>1, <2>4, <3>0, Zenon
    <3> QED  BY <1>2, <1>3, <2>1, <3>1, Zenon DEF SeveralAreCovered
  <2> QED  BY <2>3, <2>4, Zenon
<1> QED  BY <1>6, <1>7, <1>8, Zenon DEF LocksAreOrdered

\* The next user locked has the lowest id of those left.
LEMMA PairLockKeepsOrder ==
  ASSUME LockInv, NEW w \in Writers, LockRelationshipPair(w)
  PROVE  LocksAreOrdered(w)'
<1>1. PICK u \in NextLock(toLock[w]) :
        /\ advisory' = [advisory EXCEPT ![u] = w]
        /\ toLock' = [toLock EXCEPT ![w] = @ \ {u}]
  BY Zenon DEF LockRelationshipPair
<1>t. LockTypes /\ LocksAreOrdered(w) /\ Streams \subseteq Nat
  BY OutboxConstants DEF LockInv
<1>2. u \in toLock[w] /\ toLock[w] \subseteq Streams /\ \A v \in toLock[w] : u <= v
  BY <1>1, <1>t, Zenon DEF NextLock, LockTypes
<1>3. /\ wpc' = wpc /\ groups' = groups /\ rowLock' = rowLock
      /\ wpc[w] = "lock" /\ toLock'[w] = toLock[w] \ {u}
      /\ \A s \in Streams : advisory'[s] = IF s = u THEN w ELSE advisory[s]
  BY <1>1, <1>2, <1>t, Zenon DEF LockRelationshipPair, LockTypes
<1>4. LockPhases(w)'
  BY <1>3, <1>t, Zenon DEF LocksAreOrdered, LockPhases
<1>5. AscendingLocks(w)'
  <2> SUFFICES ASSUME NEW s \in Streams, advisory'[s] = w, NEW v \in toLock'[w]
               PROVE  s < v
    BY Zenon DEF AscendingLocks
  <2>1. v \in toLock[w] /\ v # u
    BY <1>3, Zenon
  <2>2. CASE s = u
    <3>1. u <= v /\ u \in Nat /\ v \in Nat
      BY <1>2, <1>t, <2>1, Zenon
    <3> QED  BY <2>1, <2>2, <3>1
  <2>3. CASE s # u
    BY <1>3, <1>t, <2>1, <2>3, Zenon DEF LocksAreOrdered, AscendingLocks
  <2> QED  BY <2>2, <2>3, Zenon
<1>6. EachStreamOnce(w)'
  BY <1>3, <1>t, Zenon DEF LocksAreOrdered, EachStreamOnce
<1>7. \A s \in Streams : Covers(w, s) => Covers(w, s)'
  BY <1>3, Zenon DEF Covers
<1>8. SeveralAreCovered(w)'
  <2>1. \A i \in 1..Len(groups[w]) : groups[w][i].stream \in Streams
    BY GroupsNameStreams, Zenon DEF LockInv
  <2> QED  BY <1>3, <1>7, <1>t, <2>1, Zenon DEF LocksAreOrdered, SeveralAreCovered
<1> QED  BY <1>4, <1>5, <1>6, <1>8, Zenon DEF LocksAreOrdered

\* A reservation of the next stream, the last one or a covered one.
LEMMA ReserveKeepsOrder ==
  ASSUME LockInv, NEW w \in Writers, Reserve(w)
  PROVE  LocksAreOrdered(w)'
<1>t. /\ LockTypes /\ TableTypes /\ LocksAreOrdered(w)
      /\ \A i \in 1..Len(groups[w]) : groups[w][i].stream \in Streams
  BY GroupsNameStreams, Zenon DEF LockInv, TableInv
<1>1. PICK g : g = groups[w] /\ g \in Seq(Groups) /\ g # <<>>
  BY <1>t, Zenon DEF Reserve, TableTypes
<1>2. /\ Len(g) \in Nat \ {0} /\ Head(g) = g[1] /\ Len(Tail(g)) = Len(g) - 1
      /\ \A i \in 1..Len(Tail(g)) : Tail(g)[i] = g[i + 1]
  BY <1>1
<1>3. /\ wpc' = wpc /\ toLock' = toLock /\ advisory' = advisory
      /\ wpc[w] = "reserve"
      /\ rowLock' = [rowLock EXCEPT ![g[1].stream] = w]
      /\ groups' = [groups EXCEPT ![w] = Tail(g)]
  BY <1>1, <1>2, Zenon DEF Reserve
<1>s. 1 \in 1..Len(g) /\ g[1].stream \in Streams
  BY <1>1, <1>2, <1>t
<1>4. /\ groups'[w] = Tail(g)
      /\ \A s \in Streams : rowLock'[s] = IF s = g[1].stream THEN w ELSE rowLock[s]
  BY <1>3, <1>s, <1>t, Zenon DEF TableTypes
<1>5. LockPhases(w)' /\ AscendingLocks(w)'
  BY <1>3, <1>4, <1>t, Zenon DEF LocksAreOrdered, LockPhases, AscendingLocks
<1>6. ASSUME NEW i \in 1..Len(Tail(g))
      PROVE  /\ i + 1 \in 1..Len(g) /\ Tail(g)[i] = g[i + 1] /\ i + 1 # 1
             /\ g[i + 1].stream \in Streams
             /\ rowLock[g[i + 1].stream] # w
             /\ \A j \in 1..Len(g) : g[i + 1].stream = g[j].stream => i + 1 = j
  <2>1. i \in Nat /\ i + 1 \in 1..Len(g) /\ i + 1 # 1
    BY <1>2
  <2> QED  BY <1>1, <1>2, <1>t, <2>1, Zenon DEF LocksAreOrdered, EachStreamOnce
<1>7. EachStreamOnce(w)'
  <2> SUFFICES ASSUME NEW i \in 1..Len(Tail(g))
               PROVE  /\ rowLock'[Tail(g)[i].stream] # w
                      /\ \A j \in 1..Len(Tail(g)) :
                           Tail(g)[i].stream = Tail(g)[j].stream => i = j
    BY <1>4, Zenon DEF EachStreamOnce
  <2>1. rowLock'[Tail(g)[i].stream] # w
    BY <1>4, <1>6, <1>s, Zenon
  <2>2. ASSUME NEW j \in 1..Len(Tail(g)), Tail(g)[i].stream = Tail(g)[j].stream
        PROVE  i = j
    <3>1. j + 1 \in 1..Len(g) /\ Tail(g)[j] = g[j + 1]
      BY <1>6, Zenon
    <3>2. i + 1 = j + 1
      BY <1>6, <2>2, <3>1
    <3> QED  BY <3>2, <1>2
  <2> QED  BY <2>1, <2>2, Zenon
<1>8. SeveralAreCovered(w)'
  <2>1. CASE Len(g) = 1
    <3>0. Tail(g) \in Seq(Groups) /\ Len(Tail(g)) = 0
      BY <1>1, <1>2, <2>1
    <3>e. \A q \in Seq(Groups) : Len(q) = 0 => q = <<>>
      OBVIOUS
    <3>1. Tail(g) = <<>>
      BY <3>0, <3>e, Zenon
    <3> QED  BY <3>1, <1>4, Zenon DEF SeveralAreCovered
  <2>2. CASE /\ \A i \in 1..Len(g) : Covers(w, g[i].stream)
             /\ \A s \in Streams : rowLock[s] = w => Covers(w, s)
    <3>1. \A s \in Streams : Covers(w, s)' <=> Covers(w, s)
      BY <1>3, Zenon DEF Covers
    <3>2. \A i \in 1..Len(Tail(g)) : Covers(w, Tail(g)[i].stream)'
      BY <1>6, <2>2, <3>1, ZenonT(30)
    <3>3. \A s \in Streams : rowLock'[s] = w => Covers(w, s)'
      BY <1>4, <1>s, <2>2, <3>1, Zenon
    <3> QED  BY <3>2, <3>3, <1>4, Zenon DEF SeveralAreCovered
  <2> QED  BY <1>1, <1>t, <2>1, <2>2, Zenon DEF LocksAreOrdered, SeveralAreCovered
<1> QED  BY <1>5, <1>7, <1>8, Zenon DEF LocksAreOrdered

\* A transaction that ends gives everything back (Transact).
LEMMA EndKeepsOrder ==
  ASSUME LockInv, NEW w \in Writers, Commit(w) \/ CommitRefused(w) \/ Abort(w)
  PROVE  LocksAreOrdered(w)'
<1>t. LockTypes /\ TableTypes /\ LockPhases(w) /\ w # None
  BY OutboxConstants, Zenon DEF LockInv, TableInv, LocksAreOrdered
<1>1. wpc'[w] = "done" /\ Release(w)
  BY <1>t, Zenon DEF Commit, CommitRefused, Abort, Rollback, LockTypes
<1>2. toLock'[w] = {} /\ groups'[w] = <<>>
  BY <1>t, Zenon DEF Commit, CommitRefused, Abort, Rollback, LockTypes, TableTypes, LockPhases
<1>3. \A s \in Streams : rowLock'[s] # w /\ advisory'[s] # w
  BY <1>1, <1>t, Zenon DEF Release
<1>4. LockPhases(w)' /\ AscendingLocks(w)' /\ SeveralAreCovered(w)'
  BY <1>1, <1>2, <1>3, Zenon DEF LockPhases, AscendingLocks, SeveralAreCovered
<1>5. EachStreamOnce(w)'
  BY <1>2 DEF EachStreamOnce
<1> QED  BY <1>4, <1>5, Zenon DEF LocksAreOrdered

\* Every step of every transaction keeps the locks in order.
LEMMA LockStep ==
  ASSUME LockInv, NEW w \in Writers, WriterStep(w)
  PROVE  LockInv'
<1>1. TableInv' /\ LockTypes'
  BY TableStep, LockTypesStep, Zenon DEF LockInv
<1>2. LocksAreOrdered(w)'
  <2>1. CASE Begin(w)
    BY <2>1, BeginKeepsOrder, Zenon
  <2>2. CASE LockRelationshipPair(w)
    BY <2>2, PairLockKeepsOrder, Zenon
  <2>3. CASE Reserve(w)
    BY <2>3, ReserveKeepsOrder, Zenon
  <2>4. CASE Commit(w) \/ CommitRefused(w) \/ Abort(w)
    BY <2>4, EndKeepsOrder, Zenon
  <2>5. CASE Change(w) \/ NotifyOutbox(w)
    <3>1. /\ LockTypes /\ LocksAreOrdered(w)
          /\ toLock' = toLock /\ groups' = groups
          /\ rowLock' = rowLock /\ advisory' = advisory
      BY <2>5, Zenon DEF LockInv, Change, NotifyOutbox, lockVars
    <3>2. \/ wpc[w] = "lock" /\ toLock[w] = {} /\ wpc'[w] = "reserve"
          \/ wpc[w] = "reserve" /\ groups[w] = <<>> /\ wpc'[w] = "commit"
      BY <2>5, <3>1, Zenon DEF Change, NotifyOutbox, LockTypes
    <3>3. LockPhases(w)' /\ AscendingLocks(w)'
      BY <3>1, <3>2, Zenon DEF LocksAreOrdered, LockPhases, AscendingLocks
    <3>4. EachStreamOnce(w)' /\ SeveralAreCovered(w)'
      BY <3>1, Zenon DEF LocksAreOrdered, EachStreamOnce, SeveralAreCovered, Covers
    <3> QED  BY <3>3, <3>4, Zenon DEF LocksAreOrdered
  <2> QED  BY <2>1, <2>2, <2>3, <2>4, <2>5, Zenon DEF WriterStep
<1> QED  BY <1>1, <1>2, OthersKeepLocks, Zenon DEF LockInv

\* A nonempty set of ids has a lowest and a highest one.
LEMMA LowestAndHighest ==
  ASSUME NEW S \in SUBSET Streams, S # {}
  PROVE  /\ \E u \in S : \A v \in S : u <= v
         /\ \E u \in S : \A v \in S : v <= u
<1>t. MaxID \in Nat /\ S \subseteq 0..MaxID /\ S \subseteq Nat
  BY OutboxConstants
<1>1. \E u \in S : \A v \in S : u <= v
  <2>1. \E u \in S : \A v \in S : ~(<<v, u>> \in OpToRel(<, Nat))
    BY <1>t, WFMin, NatLessThanWellFounded, Zenon
  <2>2. PICK u \in S : \A v \in S : ~(v < u)
    BY <1>t, <2>1, Zenon DEF OpToRel
  <2>3. \A m, n \in Nat : ~(n < m) => m <= n
    OBVIOUS
  <2> QED  BY <1>t, <2>2, <2>3, Zenon
<1>2. \E u \in S : \A v \in S : v <= u
  <2> DEFINE gaps == {n \in Nat : \E m \in S : m + n = MaxID}
  <2>1. gaps \subseteq Nat /\ gaps # {}
    <3>1. PICK m \in S : TRUE
      OBVIOUS
    <3>2. MaxID - m \in Nat /\ m + (MaxID - m) = MaxID
      BY <3>1, <1>t
    <3> QED  BY <3>1, <3>2, Zenon
  <2>2. \E n \in gaps : \A k \in gaps : ~(<<k, n>> \in OpToRel(<, Nat))
    <3> HIDE DEF gaps
    <3> QED  BY <2>1, WFMin, NatLessThanWellFounded, Zenon
  <2>3. PICK n \in gaps : \A k \in gaps : ~(k < n)
    BY <2>1, <2>2, Zenon DEF OpToRel
  <2>4. PICK u \in S : u + n = MaxID
    BY <2>3, Zenon
  <2>5. ASSUME NEW v \in S PROVE v <= u
    <3>1. MaxID - v \in Nat /\ v + (MaxID - v) = MaxID
      BY <1>t
    <3>2. MaxID - v \in gaps
      BY <3>1, Zenon
    <3>3. ~(MaxID - v < n)
      BY <2>3, <3>2, Zenon
    <3>4. u \in Nat /\ v \in Nat /\ n \in Nat
      BY <1>t, <2>1, <2>3, Zenon
    <3> QED  BY <1>t, <2>4, <3>3, <3>4
  <2> QED  BY <2>5, Zenon
<1> QED  BY <1>1, <1>2, Zenon

\* A waiting transaction that holds a row has the advisory locks of that row's
\* stream and of the stream it waits for.
LEMMA WaitingHolderCovers ==
  ASSUME LockInv, NEW w \in Writers, NEW v \in Writers, WaitsFor(w, v),
         NEW s \in Streams, rowLock[s] = w
  PROVE  /\ advisory[s] = w
         /\ \E t \in Streams : advisory[t] = w /\ rowLock[t] = v /\ rowLock[t] # w
<1>t. LockPhases(w) /\ EachStreamOnce(w) /\ SeveralAreCovered(w) /\ TableInv
  BY Zenon DEF LockInv, LocksAreOrdered
<1>1. wpc[w] # "lock" /\ toLock[w] = {}
  BY <1>t, Zenon DEF LockPhases
<1>2. groups[w] # <<>> /\ rowLock[Head(groups[w]).stream] = v
  BY <1>1, Zenon DEF WaitsFor
<1>3. groups[w] \in Seq(Groups)
  BY <1>t, Zenon DEF TableInv, TableTypes
<1>4. 1 \in 1..Len(groups[w]) /\ Head(groups[w]) = groups[w][1]
  BY <1>2, <1>3
<1>5. PICK t : t = groups[w][1].stream
  OBVIOUS
<1>6. t \in Streams /\ rowLock[t] = v
  BY <1>2, <1>4, <1>5, <1>t, GroupsNameStreams, Zenon
<1>7. rowLock[t] # w
  BY <1>4, <1>5, <1>t, Zenon DEF EachStreamOnce
<1>8. /\ \A i \in 1..Len(groups[w]) : Covers(w, groups[w][i].stream)
      /\ \A r \in Streams : rowLock[r] = w => Covers(w, r)
  BY <1>2, <1>t, Zenon DEF SeveralAreCovered
<1>9. advisory[t] = w /\ advisory[s] = w
  BY <1>1, <1>4, <1>5, <1>8, Zenon DEF Covers
<1> QED  BY <1>6, <1>7, <1>9, Zenon

\* Among transactions that all wait for one of them, none waits for a row.
LEMMA NobodyWaitsForRows ==
  ASSUME LockInv, NEW W \in SUBSET Writers, \A w \in W : \E v \in W : WaitsFor(w, v)
  PROVE  \A w \in W : wpc[w] = "lock" /\ toLock[w] # {}
<1> SUFFICES ASSUME NEW w \in W, ~(wpc[w] = "lock" /\ toLock[w] # {}) PROVE FALSE
  OBVIOUS
<1>1. PICK v \in W : WaitsFor(w, v)
  OBVIOUS
<1>2. groups[w] # <<>> /\ rowLock[Head(groups[w]).stream] = v
  BY <1>1, Zenon DEF WaitsFor
<1>3. groups[w] \in Seq(Groups)
  BY Zenon DEF LockInv, TableInv, TableTypes
<1>4. 1 \in 1..Len(groups[w]) /\ Head(groups[w]) = groups[w][1]
  BY <1>2, <1>3
<1>5. PICK s \in Streams : rowLock[s] = v
  BY <1>2, <1>4, GroupsNameStreams, Zenon DEF LockInv
<1>6. PICK x \in W : WaitsFor(v, x)
  OBVIOUS
<1>7. PICK t \in Streams : advisory[t] = v /\ rowLock[t] = x /\ rowLock[t] # v
  BY <1>5, <1>6, WaitingHolderCovers
<1>8. PICK y \in W : WaitsFor(x, y)
  OBVIOUS
<1>9. advisory[t] = x
  BY <1>7, <1>8, WaitingHolderCovers, Zenon
<1> QED  BY <1>7, <1>9, Zenon

\* The locks in order exclude a cycle of waiting transactions.
LEMMA OrderExcludesCycles == LockInv => WritersNeverDeadlock
<1> SUFFICES ASSUME LockInv, NEW W \in SUBSET Writers, W # {},
                    \A w \in W : \E v \in W : WaitsFor(w, v)
             PROVE  FALSE
  BY Zenon DEF WritersNeverDeadlock
<1>1. \A w \in W : wpc[w] = "lock" /\ toLock[w] # {}
  BY NobodyWaitsForRows, Zenon
<1>2. ASSUME NEW w \in W
      PROVE  toLock[w] \in SUBSET Streams /\ \E u \in toLock[w] : u \in NextLock(toLock[w])
  <2>1. toLock[w] \in SUBSET Streams
    BY Zenon DEF LockInv, LockTypes
  <2> QED  BY <1>1, <2>1, LowestAndHighest, Zenon DEF NextLock
<1> DEFINE wanted == {u \in Streams : \E w \in W : u \in NextLock(toLock[w])}
<1>3. wanted \in SUBSET Streams /\ wanted # {}
  BY <1>2, Zenon
<1>4. PICK u \in wanted : \A n \in wanted : n <= u
  <2> HIDE DEF wanted
  <2> QED  BY <1>3, LowestAndHighest, Zenon
<1>5. PICK w \in W : u \in NextLock(toLock[w])
  BY <1>4, Zenon
<1>6. PICK v \in W : WaitsFor(w, v)
  OBVIOUS
<1>7. advisory[u] = v
  BY <1>1, <1>5, <1>6, Zenon DEF WaitsFor
<1>8. PICK n \in toLock[v] : n \in NextLock(toLock[v]) /\ n \in Streams
  BY <1>2, Zenon
<1>9. n \in wanted /\ u \in Streams
  BY <1>4, <1>8, Zenon
<1>10. u < n
  BY <1>7, <1>8, <1>9, Zenon DEF LockInv, LocksAreOrdered, AscendingLocks
<1>11. n <= u
  BY <1>4, <1>9, Zenon
<1>12. u \in Nat /\ n \in Nat
  BY <1>8, <1>9, OutboxConstants
<1> QED  BY <1>10, <1>11, <1>12

\* The relay does not touch the locks of the transactions.
LEMMA LockFrame ==
  ASSUME LockInv, TableInv', UNCHANGED <<lockVars, txVars>>
  PROVE  LockInv'
<1>1. UNCHANGED <<rowLock, advisory, wpc, toLock, groups>>
  BY Zenon DEF lockVars, txVars
<1>2. LockTypes'
  BY <1>1, Zenon DEF LockInv, LockTypes
<1>3. ASSUME NEW v \in Writers PROVE LocksAreOrdered(v)'
  <2>1. LocksAreOrdered(v) /\ \A i \in 1..Len(groups[v]) : groups[v][i].stream \in Streams
    BY GroupsNameStreams, Zenon DEF LockInv
  <2> QED  BY <1>1, <2>1, SameLocks, Zenon
<1> QED  BY <1>2, <1>3, Zenon DEF LockInv

(***************************************************************************)
(* Transactions that wait for each other's locks never form a cycle, for   *)
(* any number of users and transactions.  A transaction that waits for a   *)
(* row another waiting one holds would have it from one that reserves in   *)
(* several streams, and those hold the advisory locks of all their         *)
(* streams; and along waits for advisory locks the ids grow.               *)
(***************************************************************************)
THEOREM TransactionsNeverDeadlock == RelaySpec => []WritersNeverDeadlock
<1>1. Init => LockInv
  BY LockInit, Zenon DEF Init
<1>2. RelayInv /\ LockInv /\ [Next]_vars => LockInv'
  <2> SUFFICES ASSUME RelayInv, LockInv, [Next]_vars PROVE LockInv'
    OBVIOUS
  <2>1. TableInv'
    BY RelayStep, Zenon DEF RelayInv
  <2>2. ASSUME NEW w \in Writers, Write(w) PROVE LockInv'
    BY <2>2, LockStep, Zenon DEF Write
  <2>3. CASE UNCHANGED <<lockVars, txVars>>
    BY <2>1, <2>3, LockFrame, Zenon
  <2>4. ASSUME NEW w \in Workers, Statement(w) \/ Answer(w) \/ RecordFails(w) \/ LoseSession(w)
        PROVE  UNCHANGED <<lockVars, txVars>>
    BY <2>4 DEF Statement, Answer, RecordFails, LoseSession, List, tryLock, SelectHeads,
                Record, unlock, SessionError, Acknowledged, ReportedFailed, Resolve,
                writerVars
  <2>5. ASSUME NEW s \in Streams, Due(s) PROVE UNCHANGED <<lockVars, txVars>>
    BY <2>5, Zenon DEF Due, writerVars
  <2>6. CASE UNCHANGED vars
    BY <2>3, <2>6, Zenon DEF vars, writerVars
  <2> QED  BY <2>2, <2>3, <2>4, <2>5, <2>6, Zenon DEF Next
<1> QED
  BY <1>1, <1>2, RelayInit, RelayStep, OrderExcludesCycles, PTL DEF RelaySpec
----------------------------------------------------------------------------

(***************************************************************************)
(* What a worker is publishing was the lowest row of its stream when it    *)
(* was selected, so no row is older; and no row is older than the event    *)
(* that reached the topic last.  While the worker has its session, its     *)
(* shard is locked by it and nobody else deletes rows of the shard's       *)
(* streams: what it is publishing is still there.                          *)
(***************************************************************************)
WorkTypes ==
  /\ pc \in [Workers -> WorkerPcs]
  /\ todo \in [Workers -> SUBSET Shards]
  /\ shard \in [Workers -> SUBSET Shards]
  /\ holder \in [Shards -> Workers \cup {None}]
  /\ session \in [Workers -> BOOLEAN]
  /\ latest \in [Streams -> Nat]

ShardIsLocked(w) == session[w] => \A h \in shard[w] : holder[h] = w

WorkPhases(w) ==
  /\ pc[w] \in {"idle", "scan"} => shard[w] = {}
  /\ pc[w] # "publish" => heads[w] = {}
  /\ pc[w] \notin {"publish", "record"} => delivered[w] = {}

WorkIsInShard(w) ==
  \A e \in heads[w] \cup delivered[w] : ShardID[e[1]] \in shard[w]

\* No row of the event's stream is older than the event.
IsOldest(e) == \A n \in rows[e[1]] : e[2] <= n

HeadsAreOldest(w) == \A e \in heads[w] : IsOldest(e)

HeadsAreRows(w) == session[w] => \A e \in heads[w] : e[2] \in rows[e[1]]

WorksAlone(w) ==
  /\ ShardIsLocked(w) /\ WorkPhases(w) /\ WorkIsInShard(w)
  /\ HeadsAreOldest(w) /\ HeadsAreRows(w)

LatestIsOldest ==
  \A s \in Streams :
    latest[s] <= lastSequence[s] /\ \A n \in rows[s] : latest[s] <= n

SoleInv == WorkTypes /\ (\A w \in Workers : WorksAlone(w)) /\ LatestIsOldest

\* What lands is older than what landed before only from a worker that has
\* lost its session.
StaleOnlyAfterLoss ==
  \A s \in Streams :
    \/ latest[s] <= latest'[s]
    \/ \E w \in Workers : ~session[w] /\ heads'[w] # heads[w]

\* No worker has begun.
LEMMA SoleInit == Init => SoleInv
<1> SUFFICES ASSUME Init PROVE SoleInv
  OBVIOUS
<1>1. WorkTypes
  BY Zenon DEF Init, WorkTypes, WorkerPcs
<1>2. ASSUME NEW w \in Workers PROVE WorksAlone(w)
  <2>1. shard[w] = {} /\ heads[w] = {} /\ delivered[w] = {}
    BY Zenon DEF Init
  <2> QED
    BY <2>1, Zenon DEF WorksAlone, ShardIsLocked, WorkPhases, WorkIsInShard,
                       HeadsAreOldest, HeadsAreRows
<1>3. LatestIsOldest
  BY DEF Init, WriterInit, LatestIsOldest
<1> QED  BY <1>1, <1>2, <1>3, Zenon DEF SoleInv

\* A worker whose own state and lock stay as they are, and whose streams get
\* no older row and keep what it publishes, goes on alone.
LEMMA SameWork ==
  ASSUME NEW v \in Workers, WorksAlone(v),
         pc'[v] = pc[v], shard'[v] = shard[v], session'[v] = session[v],
         heads'[v] = heads[v], delivered'[v] = delivered[v],
         session[v] => \A h \in shard[v] : holder'[h] = holder[h],
         \A e \in heads[v] : IsOldest(e) => IsOldest(e)',
         session[v] => \A e \in heads[v] : e[2] \in rows[e[1]] => e[2] \in rows'[e[1]]
  PROVE  WorksAlone(v)'
<1>1. ShardIsLocked(v)' /\ WorkPhases(v)'
  BY Zenon DEF WorksAlone, ShardIsLocked, WorkPhases
<1>2. WorkIsInShard(v)'
  BY Zenon DEF WorksAlone, WorkIsInShard
<1>3. HeadsAreOldest(v)'
  BY Zenon DEF WorksAlone, HeadsAreOldest
<1>4. HeadsAreRows(v)'
  BY Zenon DEF WorksAlone, HeadsAreRows
<1> QED  BY <1>1, <1>2, <1>3, <1>4, Zenon DEF WorksAlone

\* The types of what the workers keep.
LEMMA WorkTypesStep ==
  ASSUME RelayInv, WorkTypes, [Next]_vars
  PROVE  WorkTypes'
<1>1. CASE UNCHANGED <<pc, todo, shard, holder, session, latest>>
  BY <1>1, Zenon DEF WorkTypes
<1>2. ASSUME NEW w \in Workers, List(w) \/ SelectHeads(w) \/ Record(w)
      PROVE  WorkTypes'
  <2>1. ReadyShards \subseteq Shards
    BY RelayConstants, Zenon DEF ReadyShards
  <2>2. CASE List(w)
    BY <2>1, <2>2, Zenon DEF List, WorkTypes, WorkerPcs, rowVars
  <2>3. CASE SelectHeads(w) \/ Record(w)
    BY <2>3, Zenon DEF SelectHeads, Record, WorkTypes, WorkerPcs, rowVars
  <2> QED  BY <1>2, <2>2, <2>3, Zenon
<1>3. ASSUME NEW w \in Workers, tryLock(w) PROVE WorkTypes'
  <2>1. PICK h \in todo[w] :
          /\ todo' = [todo EXCEPT ![w] = @ \ {h}]
          /\ \/ /\ holder' = [holder EXCEPT ![h] = w]
                /\ shard' = [shard EXCEPT ![w] = {h}]
                /\ pc' = [pc EXCEPT ![w] = "drain"]
             \/ /\ pc' = [pc EXCEPT ![w] = IF todo[w] = {h} THEN "idle" ELSE "scan"]
                /\ UNCHANGED <<holder, shard>>
    BY <1>3, Zenon DEF tryLock
  <2>2. h \in Shards /\ todo' \in [Workers -> SUBSET Shards]
    BY <2>1, Zenon DEF WorkTypes
  <2>3. pc' \in [Workers -> WorkerPcs]
    BY <2>1, Zenon DEF WorkTypes, WorkerPcs
  <2>4. holder' \in [Shards -> Workers \cup {None}] /\ shard' \in [Workers -> SUBSET Shards]
    BY <2>1, <2>2 DEF WorkTypes
  <2> QED  BY <1>3, <2>2, <2>3, <2>4, Zenon DEF tryLock, WorkTypes, rowVars
<1>4. ASSUME NEW w \in Workers, Answer(w) PROVE WorkTypes'
  <2>1. PICK e \in heads[w] : Acknowledged(w, e) \/ ReportedFailed(w, e)
    BY <1>4, Zenon DEF Answer
  <2>2. e[1] \in Streams /\ e[2] \in Nat
    BY <2>1, SMTT(20) DEF RelayInv, RelayTypes, Events
  <2>3. latest' \in [Streams -> Nat]
    BY <2>1, <2>2, Zenon DEF Acknowledged, ReportedFailed, Land, WorkTypes
  <2> QED
    BY <2>1, <2>3, Zenon DEF Acknowledged, ReportedFailed, Resolve, WorkTypes, WorkerPcs
<1>5. ASSUME NEW w \in Workers, RecordFails(w) \/ LoseSession(w)
      PROVE  WorkTypes'
  <2>1. CASE RecordFails(w)
    BY <2>1, Zenon DEF RecordFails, WorkTypes, WorkerPcs, rowVars
  <2>2. CASE LoseSession(w)
    BY <2>2, Zenon DEF LoseSession, WorkTypes, rowVars
  <2> QED  BY <1>5, <2>1, <2>2, Zenon
<1>6. ASSUME NEW w \in Workers, unlock(w) \/ SessionError(w)
      PROVE  WorkTypes'
  <2>1. CASE unlock(w)
    BY <2>1, Zenon DEF unlock, WorkTypes, WorkerPcs, rowVars
  <2>2. CASE SessionError(w)
    BY <2>2, Zenon DEF SessionError, WorkTypes, WorkerPcs, rowVars
  <2> QED  BY <1>6, <2>1, <2>2, Zenon
<1>7. ASSUME NEW w \in Writers, Write(w) PROVE WorkTypes'
  BY <1>1, <1>7, Zenon DEF Write, relayVars, rowVars, workerVars
<1>8. ASSUME NEW s \in Streams, Due(s) PROVE WorkTypes'
  BY <1>1, <1>8, Zenon DEF Due, workerVars
<1>9. CASE UNCHANGED vars
  BY <1>1, <1>9, Zenon DEF vars, relayVars, rowVars, workerVars
<1> QED
  BY <1>2, <1>3, <1>4, <1>5, <1>6, <1>7, <1>8, <1>9, Zenon DEF Next, Statement

\* New rows follow the ones that are there, so no event gets an older one.
LEMMA WriteKeepsAlone ==
  ASSUME RelayInv, WorkTypes, \A v \in Workers : WorksAlone(v), LatestIsOldest,
         NEW w \in Writers, Write(w)
  PROVE  (\A v \in Workers : WorksAlone(v)') /\ LatestIsOldest' /\ latest' = latest
<1>1. UNCHANGED <<pc, shard, holder, session, latest, heads, delivered>>
  BY Zenon DEF Write, relayVars, rowVars, workerVars
<1>2. ASSUME NEW s \in Streams
      PROVE  /\ lastSequence[s] \in Nat /\ lastSequence'[s] \in Nat
             /\ lastSequence[s] <= lastSequence'[s]
             /\ rows'[s] = rows[s] \cup (lastSequence[s] + 1)..lastSequence'[s]
             /\ rows[s] \subseteq 1..lastSequence[s]
  BY WriterExtends, Zenon DEF Write, Extends, RelayInv, TableInv, TableTypes, RowsCommitted
<1>3. ASSUME NEW e \in Events, Ready(e), IsOldest(e) PROVE IsOldest(e)'
  <2>1. e[1] \in Streams /\ e[2] \in Nat
    BY Zenon DEF Events
  <2>2. e[2] <= lastSequence[e[1]]
    BY <1>2, <1>3, <2>1 DEF Ready
  <2> QED  BY <1>2, <1>3, <2>1, <2>2 DEF IsOldest
<1>4. LatestIsOldest'
  <2> SUFFICES ASSUME NEW s \in Streams
               PROVE  latest[s] <= lastSequence'[s] /\ \A n \in rows'[s] : latest[s] <= n
    BY <1>1, Zenon DEF LatestIsOldest
  <2>1. latest[s] \in Nat /\ latest[s] <= lastSequence[s] /\ \A n \in rows[s] : latest[s] <= n
    BY Zenon DEF WorkTypes, LatestIsOldest
  <2> QED  BY <1>2, <2>1
<1>5. ASSUME NEW v \in Workers PROVE WorksAlone(v)'
  <2>1. \A e \in heads[v] : e \in Events /\ Ready(e)
    BY Zenon DEF RelayInv, RelayTypes, HeadsAreReady
  <2>2. \A e \in heads[v] : IsOldest(e) => IsOldest(e)'
    BY <1>3, <2>1, Zenon
  <2>3. \A e \in heads[v] : e[2] \in rows[e[1]] => e[2] \in rows'[e[1]]
    BY <1>2, <2>1, Zenon DEF Events
  <2> QED  BY <1>1, <2>2, <2>3, SameWork, Zenon
<1> QED  BY <1>1, <1>4, <1>5, Zenon

\* Listing, locking and unlocking: a worker takes a free shard only.
LEMMA ScanKeepsAlone ==
  ASSUME RelayInv, WorkTypes, \A v \in Workers : WorksAlone(v), LatestIsOldest,
         NEW w \in Workers, List(w) \/ tryLock(w) \/ unlock(w)
  PROVE  (\A v \in Workers : WorksAlone(v)') /\ LatestIsOldest' /\ latest' = latest
<1>1. UNCHANGED <<rows, lastSequence, latest, heads, delivered>>
  BY Zenon DEF List, tryLock, unlock, writerVars, tableVars, rowVars
<1>2. LatestIsOldest'
  BY <1>1, Zenon DEF LatestIsOldest
<1>3. /\ pc[w] \notin {"publish", "record"}
      /\ pc'[w] \in {"idle", "scan", "drain"}
      /\ List(w) \/ session[w]
      /\ \A v \in Workers \ {w} : pc'[v] = pc[v] /\ shard'[v] = shard[v]
                                  /\ session'[v] = session[v]
  BY SMTT(20) DEF List, tryLock, unlock, WorkTypes
<1>4. heads[w] = {} /\ delivered[w] = {}
  BY <1>3, SMTT(20) DEF WorksAlone, WorkPhases
<1>5. \/ pc'[w] = "drain" /\ \E h \in Shards : /\ holder[h] = None
                                             /\ holder' = [holder EXCEPT ![h] = w]
                                             /\ shard'[w] = {h}
      \/ shard'[w] = {} /\ (holder' = holder
           \/ holder' = [h \in Shards |-> IF h \in shard[w] THEN None ELSE holder[h]])
  <2>1. CASE List(w)
    BY <2>1 DEF List, WorksAlone, WorkPhases
  <2>2. CASE tryLock(w)
    <3>1. shard[w] = {} /\ todo[w] \subseteq Shards
      BY <2>2 DEF tryLock, WorksAlone, WorkPhases, WorkTypes
    <3> QED  BY <2>2, <3>1, SMTT(20) DEF tryLock, Available, WorkTypes
  <2>3. CASE unlock(w)
    BY <2>3, Zenon DEF unlock, Unlocked, WorkTypes
  <2> QED  BY <2>1, <2>2, <2>3
<1>6. WorksAlone(w)'
  <2>1. ShardIsLocked(w)'
    BY <1>3, <1>5, SMTT(20) DEF ShardIsLocked, WorkTypes
  <2>2. WorkPhases(w)'
    BY <1>1, <1>3, <1>4, <1>5 DEF WorkPhases
  <2>3. WorkIsInShard(w)' /\ HeadsAreOldest(w)' /\ HeadsAreRows(w)'
    BY <1>1, <1>4, Zenon DEF WorkIsInShard, HeadsAreOldest, HeadsAreRows
  <2> QED  BY <2>1, <2>2, <2>3, Zenon DEF WorksAlone
<1>7. ASSUME NEW v \in Workers \ {w} PROVE WorksAlone(v)'
  <2>1. ASSUME session[v] PROVE \A h \in shard[v] : holder'[h] = holder[h]
    <3>1. \A h \in shard[v] : h \in Shards /\ holder[h] = v /\ v # None
      BY <2>1, RelayConstants, Zenon DEF WorksAlone, ShardIsLocked, WorkTypes
    <3>2. List(w) => holder' = holder
      BY Zenon DEF List
    <3>3. session[w] => \A h \in shard[w] : holder[h] = w
      BY Zenon DEF WorksAlone, ShardIsLocked
    <3>4. CASE \E h \in Shards : holder[h] = None /\ holder' = [holder EXCEPT ![h] = w]
      BY <3>1, <3>4, Zenon DEF WorkTypes
    <3>5. CASE session[w] /\ holder' = [h \in Shards |-> IF h \in shard[w] THEN None ELSE holder[h]]
      BY <3>1, <3>3, <3>5, Zenon
    <3> QED  BY <1>3, <1>5, <3>2, <3>4, <3>5, Zenon
  <2>2. \A e \in heads[v] : IsOldest(e) => IsOldest(e)'
    BY <1>1, Zenon DEF IsOldest
  <2>3. \A e \in heads[v] : e[2] \in rows[e[1]] => e[2] \in rows'[e[1]]
    BY <1>1, Zenon
  <2> QED  BY <1>1, <1>3, <2>1, <2>2, <2>3, SameWork, Zenon
<1> QED  BY <1>1, <1>2, <1>6, <1>7, Zenon

\* A worker selects the lowest rows of the streams of its own shard.
LEMMA SelectKeepsAlone ==
  ASSUME RelayInv, WorkTypes, \A v \in Workers : WorksAlone(v), LatestIsOldest,
         NEW w \in Workers, SelectHeads(w)
  PROVE  (\A v \in Workers : WorksAlone(v)') /\ LatestIsOldest' /\ latest' = latest
<1>1. UNCHANGED <<rows, lastSequence, latest, delivered, shard, holder, session>>
  BY Zenon DEF SelectHeads, writerVars, tableVars, rowVars
<1>2. LatestIsOldest'
  BY <1>1, Zenon DEF LatestIsOldest
<1>3. pc[w] = "drain" /\ heads[w] = {} /\ delivered[w] = {}
  BY Zenon DEF SelectHeads, WorksAlone, WorkPhases
<1>4. PICK batch :
        /\ batch \subseteq UNION {{s} \X Heads(s) :
                                  s \in {t \in Streams : ShardID[t] \in shard[w]}}
        /\ \/ heads' = [heads EXCEPT ![w] = batch] /\ pc' = [pc EXCEPT ![w] = "publish"]
           \/ heads' = heads /\ pc' = [pc EXCEPT ![w] = "unlock"]
  BY Zenon DEF SelectHeads
<1>5. ASSUME NEW e \in batch PROVE ShardID[e[1]] \in shard[w] /\ IsOldest(e) /\ e[2] \in rows[e[1]]
  <2>1. PICK s \in Streams : ShardID[s] \in shard[w] /\ e \in {s} \X Heads(s)
    BY <1>4, Zenon
  <2>2. e[1] = s /\ e[2] \in rows[s] /\ \A n \in rows[s] : e[2] <= n
    BY <2>1, Zenon DEF Heads
  <2> QED  BY <2>1, <2>2, Zenon DEF IsOldest
<1>6. /\ heads'[w] \subseteq batch
      /\ pc'[w] \in {"publish", "unlock"} /\ (pc'[w] # "publish" => heads'[w] = {})
      /\ \A v \in Workers \ {w} : heads'[v] = heads[v] /\ pc'[v] = pc[v]
  BY <1>3, <1>4, Zenon DEF WorkTypes, RelayInv, RelayTypes
<1>7. \A e : IsOldest(e) => IsOldest(e)'
  BY <1>1, Zenon DEF IsOldest
<1>8. WorksAlone(w)'
  <2>1. ShardIsLocked(w)'
    BY <1>1, Zenon DEF WorksAlone, ShardIsLocked
  <2>2. WorkPhases(w)'
    BY <1>1, <1>3, <1>6, Zenon DEF WorkPhases
  <2>3. WorkIsInShard(w)'
    BY <1>1, <1>3, <1>5, <1>6, Zenon DEF WorkIsInShard
  <2>4. HeadsAreOldest(w)' /\ HeadsAreRows(w)'
    BY <1>1, <1>5, <1>6, <1>7, Zenon DEF HeadsAreOldest, HeadsAreRows
  <2> QED  BY <2>1, <2>2, <2>3, <2>4, Zenon DEF WorksAlone
<1>9. ASSUME NEW v \in Workers \ {w} PROVE WorksAlone(v)'
  BY <1>1, <1>6, <1>7, SameWork, Zenon
<1> QED  BY <1>1, <1>2, <1>8, <1>9, Zenon

\* What lands is not newer than a row; from a worker with its session it is a
\* row itself, so it is not older than what landed before.
LEMMA AnswerKeepsAlone ==
  ASSUME RelayInv, WorkTypes, \A v \in Workers : WorksAlone(v), LatestIsOldest,
         NEW w \in Workers, Answer(w)
  PROVE  /\ \A v \in Workers : WorksAlone(v)'
         /\ LatestIsOldest'
         /\ StaleOnlyAfterLoss
<1>1. PICK e \in heads[w] : Acknowledged(w, e) \/ ReportedFailed(w, e)
  BY Zenon DEF Answer
<1>2. /\ UNCHANGED <<rows, lastSequence, shard, holder, session>>
      /\ pc[w] = "publish" /\ heads' = [heads EXCEPT ![w] = @ \ {e}]
      /\ pc' = [pc EXCEPT ![w] = IF heads[w] = {e} THEN "record" ELSE "publish"]
      /\ delivered' = delivered \/ delivered' = [delivered EXCEPT ![w] = @ \cup {e}]
      /\ latest' = latest \/ latest' = [latest EXCEPT ![e[1]] = e[2]]
  BY <1>1, Zenon DEF Acknowledged, ReportedFailed, Resolve, Land, writerVars, tableVars
<1>3. /\ e[1] \in Streams /\ e[2] \in Nat
      /\ e[2] <= lastSequence[e[1]]
      /\ \A n \in rows[e[1]] : e[2] <= n
      /\ session[w] => e[2] \in rows[e[1]]
  <2>1. e \in Events /\ Ready(e) /\ IsOldest(e) /\ (session[w] => e[2] \in rows[e[1]])
    BY Zenon DEF RelayInv, RelayTypes, HeadsAreReady, WorksAlone, HeadsAreOldest, HeadsAreRows
  <2>2. e[1] \in Streams /\ e[2] \in Nat /\ lastSequence[e[1]] \in Nat
    BY <2>1, Zenon DEF Events, RelayInv, TableInv, TableTypes
  <2> QED  BY <2>1, <2>2 DEF Ready, IsOldest
<1>4. \A s \in Streams : latest'[s] = latest[s] \/ (s = e[1] /\ latest'[s] = e[2])
  <2>1. latest \in [Streams -> Nat]
    BY Zenon DEF WorkTypes
  <2>2. CASE latest' = latest
    BY <2>2, Zenon
  <2>3. CASE latest' = [latest EXCEPT ![e[1]] = e[2]]
    BY <1>3, <2>1, <2>3, Zenon
  <2> QED  BY <1>2, <2>2, <2>3, Zenon
<1>5. LatestIsOldest' /\ (session[w] => \A s \in Streams : latest[s] <= latest'[s])
  <2> SUFFICES ASSUME NEW s \in Streams
               PROVE  /\ latest'[s] <= lastSequence[s]
                      /\ \A n \in rows[s] : latest'[s] <= n
                      /\ session[w] => latest[s] <= latest'[s]
    BY <1>2, Zenon DEF LatestIsOldest
  <2>1. /\ latest[s] \in Nat /\ latest[s] <= lastSequence[s]
        /\ \A n \in rows[s] : latest[s] <= n
    BY Zenon DEF WorkTypes, LatestIsOldest
  <2>2. CASE latest'[s] = latest[s]
    BY <2>1, <2>2
  <2>3. CASE s = e[1] /\ latest'[s] = e[2]
    BY <1>3, <2>1, <2>3, Zenon
  <2> QED  BY <1>4, <2>2, <2>3, Zenon
<1>6. /\ heads'[w] = heads[w] \ {e} /\ delivered'[w] \subseteq delivered[w] \cup {e}
      /\ pc'[w] = IF heads[w] = {e} THEN "record" ELSE "publish"
      /\ \A v \in Workers \ {w} : /\ heads'[v] = heads[v] /\ pc'[v] = pc[v]
                                  /\ delivered'[v] = delivered[v]
  BY <1>2, Zenon DEF WorkTypes, RelayInv, RelayTypes
<1>7. \A f : (IsOldest(f) => IsOldest(f)') /\ (f[2] \in rows[f[1]] => f[2] \in rows'[f[1]])
  BY <1>2, Zenon DEF IsOldest
<1>8. WorksAlone(w)'
  <2>1. ShardIsLocked(w)'
    BY <1>2, Zenon DEF WorksAlone, ShardIsLocked
  <2>2. WorkPhases(w)'
    BY <1>6, Zenon DEF WorkPhases
  <2>3. WorkIsInShard(w)'
    BY <1>2, <1>6 DEF WorksAlone, WorkIsInShard
  <2>4. HeadsAreOldest(w)' /\ HeadsAreRows(w)'
    BY <1>2, <1>6, <1>7, Zenon DEF WorksAlone, HeadsAreOldest, HeadsAreRows
  <2> QED  BY <2>1, <2>2, <2>3, <2>4 DEF WorksAlone
<1>9. ASSUME NEW v \in Workers \ {w} PROVE WorksAlone(v)'
  BY <1>2, <1>6, <1>7, SameWork, ZenonT(30)
<1>10. StaleOnlyAfterLoss
  <2>1. heads'[w] # heads[w]
    BY <1>6, Zenon
  <2> QED  BY <1>5, <2>1, Zenon DEF StaleOnlyAfterLoss
<1> QED  BY <1>5, <1>8, <1>9, <1>10, Zenon

\* A worker with its session deletes rows of its own shard only.
LEMMA RecordKeepsAlone ==
  ASSUME RelayInv, WorkTypes, \A v \in Workers : WorksAlone(v), LatestIsOldest,
         NEW w \in Workers, Record(w)
  PROVE  (\A v \in Workers : WorksAlone(v)') /\ LatestIsOldest' /\ latest' = latest
<1>1. /\ UNCHANGED <<lastSequence, latest, heads, shard, holder, session>>
      /\ rows' = [s \in Streams |-> rows[s] \ In(s, delivered[w])]
      /\ delivered' = [delivered EXCEPT ![w] = {}]
      /\ pc[w] = "record"
      /\ \E p \in {"unlock", "drain"} : pc' = [pc EXCEPT ![w] = p]
  BY Zenon DEF Record, DeleteDelivered
<1>2. LatestIsOldest'
  BY <1>1, Zenon DEF LatestIsOldest
<1>3. /\ heads[w] = {} /\ delivered'[w] = {} /\ pc'[w] \in {"unlock", "drain"}
      /\ \A v \in Workers \ {w} : pc'[v] = pc[v] /\ delivered'[v] = delivered[v]
  BY <1>1 DEF WorksAlone, WorkPhases, WorkTypes, RelayInv, RelayTypes
<1>4. WorksAlone(w)'
  <2>1. ShardIsLocked(w)'
    BY <1>1, Zenon DEF WorksAlone, ShardIsLocked
  <2>2. WorkPhases(w)'
    BY <1>1, <1>3, Zenon DEF WorkPhases
  <2>3. WorkIsInShard(w)' /\ HeadsAreOldest(w)' /\ HeadsAreRows(w)'
    BY <1>1, <1>3, SMTT(20) DEF WorkIsInShard, HeadsAreOldest, HeadsAreRows
  <2> QED  BY <2>1, <2>2, <2>3, Zenon DEF WorksAlone
<1>5. ASSUME NEW v \in Workers \ {w} PROVE WorksAlone(v)'
  <2>1. ASSUME NEW e \in heads[v], IsOldest(e) PROVE IsOldest(e)'
    <3>1. e[1] \in Streams
      BY SMTT(20) DEF RelayInv, RelayTypes, Events
    <3> QED  BY <1>1, <2>1, <3>1, Zenon DEF IsOldest
  <2>2. ASSUME session[v], NEW e \in heads[v], e[2] \in rows[e[1]] PROVE e[2] \in rows'[e[1]]
    <3>1. e[1] \in Streams /\ ShardID[e[1]] \in shard[v]
      BY SMTT(20) DEF RelayInv, RelayTypes, Events, WorksAlone, WorkIsInShard
    <3>2. holder[ShardID[e[1]]] = v
      BY <2>2, <3>1, Zenon DEF WorksAlone, ShardIsLocked
    <3>3. \A f \in delivered[w] : holder[ShardID[f[1]]] = w
      BY Zenon DEF Record, WorksAlone, ShardIsLocked, WorkIsInShard
    <3>4. In(e[1], delivered[w]) = {}
      BY <3>2, <3>3, Zenon DEF In
    <3> QED  BY <1>1, <2>2, <3>1, <3>4, Zenon
  <2> QED  BY <1>1, <1>3, <2>1, <2>2, SameWork, Zenon
<1> QED  BY <1>1, <1>2, <1>4, <1>5, Zenon

\* A failed transaction, a lost session and the error that follows it leave
\* the rows alone, and take no lock from another worker.
LEMMA ErrorKeepsAlone ==
  ASSUME RelayInv, WorkTypes, \A v \in Workers : WorksAlone(v), LatestIsOldest,
         NEW w \in Workers, RecordFails(w) \/ LoseSession(w) \/ SessionError(w)
  PROVE  (\A v \in Workers : WorksAlone(v)') /\ LatestIsOldest' /\ latest' = latest
<1>1. UNCHANGED <<rows, lastSequence, latest, heads>>
  BY Zenon DEF RecordFails, LoseSession, SessionError, writerVars, tableVars, rowVars
<1>2. LatestIsOldest'
  BY <1>1, Zenon DEF LatestIsOldest
<1>3. \A e : (IsOldest(e) => IsOldest(e)') /\ (e[2] \in rows[e[1]] => e[2] \in rows'[e[1]])
  BY <1>1, Zenon DEF IsOldest
<1>4. \A v \in Workers \ {w} : /\ pc'[v] = pc[v] /\ shard'[v] = shard[v]
                               /\ session'[v] = session[v] /\ delivered'[v] = delivered[v]
  BY SMTT(20) DEF RecordFails, LoseSession, SessionError, WorkTypes, RelayInv, RelayTypes
<1>5. ASSUME NEW v \in Workers \ {w} PROVE WorksAlone(v)'
  <2>1. ASSUME session[v] PROVE \A h \in shard[v] : holder'[h] = holder[h]
    <3>1. \A h \in shard[v] : h \in Shards /\ holder[h] = v
      BY <2>1, Zenon DEF WorksAlone, ShardIsLocked, WorkTypes
    <3>2. holder' = holder \/ holder' = [h \in Shards |-> IF holder[h] = w THEN None ELSE holder[h]]
      BY Zenon DEF RecordFails, LoseSession, SessionError
    <3> QED  BY <3>1, <3>2, Zenon
  <2> QED  BY <1>1, <1>3, <1>4, <2>1, SameWork, Zenon
<1>6. WorksAlone(w)'
  <2>1. CASE RecordFails(w)
    <3>1. /\ UNCHANGED <<shard, holder, session>>
          /\ pc[w] = "record" /\ pc'[w] = "failed" /\ delivered'[w] = {}
      BY <2>1, Zenon DEF RecordFails, WorkTypes, RelayInv, RelayTypes
    <3>2. heads[w] = {}
      BY <3>1, SMTT(20) DEF WorksAlone, WorkPhases
    <3>3. ShardIsLocked(w)' /\ WorkIsInShard(w)' /\ HeadsAreOldest(w)' /\ HeadsAreRows(w)'
      BY <1>1, <3>1, <3>2, Zenon DEF WorksAlone, ShardIsLocked, WorkIsInShard,
                                     HeadsAreOldest, HeadsAreRows
    <3>4. WorkPhases(w)'
      BY <1>1, <3>1, <3>2, SMTT(20) DEF WorkPhases
    <3> QED  BY <3>3, <3>4, Zenon DEF WorksAlone
  <2>2. CASE LoseSession(w)
    <3>1. /\ UNCHANGED <<pc, shard, delivered>>
          /\ ~session'[w]
      BY <2>2, Zenon DEF LoseSession, WorkTypes
    <3> QED  BY <1>1, <1>3, <3>1, Zenon DEF WorksAlone, ShardIsLocked, WorkPhases, WorkIsInShard,
                                            HeadsAreOldest, HeadsAreRows
  <2>3. CASE SessionError(w)
    <3>1. /\ pc[w] # "publish" /\ pc'[w] = "idle" /\ shard'[w] = {} /\ delivered'[w] = {}
      BY <2>3, SMTT(20) DEF SessionError, WorkTypes, RelayInv, RelayTypes
    <3>2. heads[w] = {}
      BY <3>1, Zenon DEF WorksAlone, WorkPhases
    <3> QED  BY <1>1, <3>1, <3>2, Zenon DEF WorksAlone, ShardIsLocked, WorkPhases, WorkIsInShard,
                                            HeadsAreOldest, HeadsAreRows
  <2> QED  BY <2>1, <2>2, <2>3, Zenon
<1> QED  BY <1>1, <1>2, <1>5, <1>6, Zenon

\* Every worker with its session works alone, and what lands is older than
\* what landed before only from a worker without.
LEMMA SoleStep ==
  ASSUME RelayInv, SoleInv, [Next]_vars
  PROVE  SoleInv' /\ StaleOnlyAfterLoss
<1>t. WorkTypes /\ WorkTypes'
  BY WorkTypesStep, Zenon DEF SoleInv
<1>r. latest' = latest => StaleOnlyAfterLoss
  <2>1. \A s \in Streams : latest[s] <= latest[s]
    BY <1>t DEF WorkTypes
  <2> QED  BY <2>1, Zenon DEF StaleOnlyAfterLoss
<1>3. (\A v \in Workers : WorksAlone(v)) /\ LatestIsOldest
  BY Zenon DEF SoleInv
<1> DEFINE Goal == /\ \A v \in Workers : WorksAlone(v)'
                   /\ LatestIsOldest'
                   /\ StaleOnlyAfterLoss
<1>4. ASSUME UNCHANGED <<rows, lastSequence, latest, pc, shard, holder, session, heads, delivered>>
      PROVE  Goal
  <2>1. \A e : (IsOldest(e) => IsOldest(e)') /\ (e[2] \in rows[e[1]] => e[2] \in rows'[e[1]])
    BY <1>4, Zenon DEF IsOldest
  <2>2. LatestIsOldest'
    BY <1>3, <1>4, Zenon DEF LatestIsOldest
  <2>3. \A v \in Workers : WorksAlone(v)'
    BY <1>3, <1>4, <2>1, SameWork, Zenon
  <2> QED  BY <1>4, <1>r, <2>2, <2>3, Zenon
<1>5. ASSUME NEW w \in Writers, Write(w) PROVE Goal
  BY <1>t, <1>r, <1>3, <1>5, WriteKeepsAlone, Zenon
<1>6. ASSUME NEW w \in Workers, Statement(w) PROVE Goal
  <2>1. CASE List(w) \/ tryLock(w) \/ unlock(w)
    BY <1>t, <1>r, <1>3, <2>1, ScanKeepsAlone, Zenon
  <2>2. CASE SelectHeads(w)
    BY <1>t, <1>r, <1>3, <2>2, SelectKeepsAlone, Zenon
  <2>3. CASE Record(w)
    BY <1>t, <1>r, <1>3, <2>3, RecordKeepsAlone, Zenon
  <2>4. CASE SessionError(w)
    BY <1>t, <1>r, <1>3, <2>4, ErrorKeepsAlone, Zenon
  <2> QED  BY <1>6, <2>1, <2>2, <2>3, <2>4, Zenon DEF Statement
<1>7. ASSUME NEW w \in Workers, Answer(w) PROVE Goal
  BY <1>t, <1>3, <1>7, AnswerKeepsAlone, Zenon
<1>8. ASSUME NEW w \in Workers, RecordFails(w) \/ LoseSession(w) PROVE Goal
  BY <1>t, <1>r, <1>3, <1>8, ErrorKeepsAlone, Zenon
<1>9. ASSUME NEW s \in Streams, Due(s) PROVE Goal
  BY <1>4, <1>9, Zenon DEF Due, workerVars, writerVars, tableVars
<1>10. ASSUME UNCHANGED vars PROVE Goal
  BY <1>4, <1>10, Zenon DEF vars, relayVars, rowVars, workerVars, writerVars, tableVars
<1>11. Goal
  BY <1>5, <1>6, <1>7, <1>8, <1>9, <1>10, Zenon DEF Next
<1> QED  BY <1>t, <1>11, Zenon DEF SoleInv

(***************************************************************************)
(* For any number of workers, shards, lost sessions, failed transactions   *)
(* and failing produce calls, an event that reaches the topic is older     *)
(* than the one before it only when the worker that produced it had lost   *)
(* its session: as long as a worker has it, the advisory lock keeps the    *)
(* others off the shard between SelectHeads and DeleteDelivered, and the   *)
(* worker repeats the latest event of a stream and no other.               *)
(***************************************************************************)
THEOREM RedeliveryIsNotStale == RelaySpec => NoStaleRedelivery
<1>1. RelayInv /\ SoleInv /\ [Next]_vars => [StaleOnlyAfterLoss]_vars
  BY SoleStep, Zenon
<1>2. RelayInv /\ SoleInv /\ [Next]_vars => SoleInv'
  BY SoleStep, Zenon
<1> QED
  BY <1>1, <1>2, RelayInit, RelayStep, SoleInit, PTL
     DEF RelaySpec, NoStaleRedelivery, StaleOnlyAfterLoss

----------------------------------------------------------------------------
(* The channel layout.  An order of the channels is given by the channels    *)
(* ahead of each; the position of a channel is how many there are.           *)

IsOrder(S, ahead) ==
  /\ \A c \in S : ahead[c] \subseteq S /\ c \notin ahead[c]
  /\ \A c, d \in S : d \in ahead[c] => ahead[d] \subseteq ahead[c]
  /\ \A c, d \in S : c # d => d \in ahead[c] \/ c \in ahead[d]

\* Counting the channels ahead numbers them without a gap or a tie.
LEMMA OrderRanks ==
  ASSUME NEW S, IsFiniteSet(S), NEW ahead, IsOrder(S, ahead)
  PROVE  /\ \A c \in S : Cardinality(ahead[c]) \in Nat /\ Cardinality(ahead[c]) < Cardinality(S)
         /\ \A c, d \in S : Cardinality(ahead[c]) = Cardinality(ahead[d]) => c = d
<1>0. Cardinality(S) \in Nat
  BY FS_CardinalityType, Zenon
<1>1. ASSUME NEW c \in S
      PROVE  /\ IsFiniteSet(ahead[c]) /\ Cardinality(ahead[c]) \in Nat
             /\ Cardinality(ahead[c]) < Cardinality(S)
  <2>1. ahead[c] \in SUBSET S /\ ahead[c] # S
    BY Zenon DEF IsOrder
  <2>2. /\ IsFiniteSet(ahead[c]) /\ Cardinality(ahead[c]) <= Cardinality(S)
        /\ Cardinality(ahead[c]) # Cardinality(S)
    BY <2>1, FS_Subset, Zenon
  <2>3. Cardinality(ahead[c]) \in Nat
    BY <2>2, FS_CardinalityType, Zenon
  <2> QED  BY <1>0, <2>2, <2>3
<1>2. ASSUME NEW c \in S, NEW d \in S, d \in ahead[c]
      PROVE  Cardinality(ahead[d]) # Cardinality(ahead[c])
  <2>1. ahead[d] \in SUBSET ahead[c] /\ ahead[d] # ahead[c]
    BY <1>2, Zenon DEF IsOrder
  <2> QED  BY <1>1, <2>1, FS_Subset, Zenon
<1>3. \A c, d \in S : Cardinality(ahead[c]) = Cardinality(ahead[d]) => c = d
  BY <1>2, Zenon DEF IsOrder
<1> QED  BY <1>1, <1>3, Zenon

\* A set of naturals that is not empty has a least element.
LEMMA LeastOf ==
  ASSUME NEW T, T \subseteq Nat, T # {}
  PROVE  \E p \in T : \A q \in T : p <= q
<1>1. PICK p \in T : \A q \in T : ~(<<q, p>> \in OpToRel(<, Nat))
  BY NatLessThanWellFounded, WFMin, Zenon
<1>2. \A q \in T : ~(q < p)
  BY <1>1, Zenon DEF OpToRel
<1> QED  BY <1>2

\* Maps from channels to rows.
RowMaps == UNION {[D -> Rows] : D \in SUBSET ChannelIds}

\* A layout is a row for each of the channels it has.
LEMMA RowMapsAre ==
  ASSUME NEW r
  PROVE  r \in RowMaps <=> r \in [DOMAIN r -> Rows] /\ DOMAIN r \subseteq ChannelIds
BY Zenon DEF RowMaps

\* A layout a client can show, made of channels up to `top`.
Sound(l, top) ==
  /\ l \in [DOMAIN l -> Rows] /\ DOMAIN l \subseteq 1..top
  /\ \A c \in DOMAIN l : l[c].position < top
  /\ \A c, d \in DOMAIN l : l[c].position = l[d].position => c = d
  /\ \A c \in DOMAIN l : validateChannelParent(l, l[c].kind, l[c].parent)

\* The rows of a sound layout are finitely many, no more than its channels.
LEMMA SoundIsFinite ==
  ASSUME NEW top \in Nat, NEW l, Sound(l, top)
  PROVE  /\ IsFiniteSet(DOMAIN l) /\ Cardinality(DOMAIN l) \in Nat
         /\ Cardinality(DOMAIN l) <= top
<1>1. IsFiniteSet(1..top) /\ Cardinality(1..top) = top
  BY FS_Interval
<1>2. DOMAIN l \in SUBSET (1..top)
  BY Zenon DEF Sound
<1> QED  BY <1>1, <1>2, FS_Subset, FS_CardinalityType, Zenon

\* Renumbering the channels of a sound layout by an order, and giving some of them
\* a parent that validateChannelParent accepts, leaves it sound.
LEMMA UpdatesAreSound ==
  ASSUME NEW top \in 0..MaxChannels, NEW l, Sound(l, top), NEW ahead, IsOrder(DOMAIN l, ahead),
         NEW parents, DOMAIN parents \subseteq DOMAIN l,
         \A c \in DOMAIN parents : /\ parents[c] \in ChannelIds \cup {Root}
                                   /\ validateChannelParent(l, l[c].kind, parents[c])
  PROVE  /\ Updates(l, ahead, parents) \in RowMaps
         /\ DOMAIN Updates(l, ahead, parents) \subseteq DOMAIN l
         /\ Sound(WriteChannels(l, Updates(l, ahead, parents), {}), top)
<1> DEFINE parent(c) == IF c \in DOMAIN parents THEN parents[c] ELSE l[c].parent
           at == [c \in DOMAIN l |-> [l[c] EXCEPT !.position = Cardinality(ahead[c]),
                                                  !.parent = parent(c)]]
           written == Updates(l, ahead, parents)
           w == WriteChannels(l, written, {})
<1>0. top \in Nat /\ MaxChannels \in Nat
  BY LayoutConstants
<1>l. /\ l \in [DOMAIN l -> Rows] /\ DOMAIN l \subseteq 1..top
      /\ \A c \in DOMAIN l : validateChannelParent(l, l[c].kind, l[c].parent)
  BY Zenon DEF Sound
<1>1. /\ \A c \in DOMAIN l : Cardinality(ahead[c]) \in 0..MaxChannels /\ Cardinality(ahead[c]) < top
      /\ \A c, d \in DOMAIN l : Cardinality(ahead[c]) = Cardinality(ahead[d]) => c = d
  BY <1>0, SoundIsFinite, OrderRanks
<1>2. ASSUME NEW c \in DOMAIN l
      PROVE  /\ at[c] \in Rows
             /\ at[c].kind = l[c].kind /\ at[c].parent = parent(c)
             /\ at[c].position = Cardinality(ahead[c])
  <2>1. parent(c) \in ChannelIds \cup {Root} /\ l[c] \in Rows
    BY <1>l, Zenon DEF Rows
  <2> QED  BY <1>1, <2>1, Zenon DEF Rows
<1>3. written = [c \in {d \in DOMAIN l : at[d] # l[d]} |-> at[c]]
  BY Zenon DEF Updates
<1> HIDE DEF at, written
<1>4. DOMAIN written \subseteq DOMAIN l /\ \A c \in DOMAIN written : written[c] = at[c]
  BY <1>3, Zenon
<1>5. written \in RowMaps
  <2>1. written \in [DOMAIN written -> Rows]
    BY <1>2, <1>3, Zenon
  <2>2. DOMAIN written \subseteq ChannelIds
    BY <1>0, <1>4, <1>l DEF ChannelIds
  <2> QED  BY <2>1, <2>2, RowMapsAre, Zenon
<1>6. w = [c \in DOMAIN l |-> IF c \in DOMAIN written THEN written[c] ELSE l[c]]
  BY <1>4, Zenon DEF WriteChannels
<1> HIDE DEF w
<1>7. DOMAIN w = DOMAIN l /\ \A c \in DOMAIN l : w[c] = at[c]
  BY <1>3, <1>4, <1>6, Zenon
<1>8. w \in [DOMAIN w -> Rows]
  BY <1>2, <1>6, <1>7
<1>9. ASSUME NEW c \in DOMAIN l PROVE validateChannelParent(w, w[c].kind, w[c].parent)
  <2>1. validateChannelParent(l, l[c].kind, parent(c))
    BY <1>l, Zenon
  <2>2. w[c].kind = l[c].kind /\ w[c].parent = parent(c)
    BY <1>2, <1>7
  <2>3. \A d \in DOMAIN l : w[d].kind = l[d].kind
    BY <1>2, <1>7
  <2> HIDE DEF parent
  <2> QED  BY <1>7, <2>1, <2>2, <2>3 DEF validateChannelParent
<1>10. /\ \A c \in DOMAIN l : w[c].position < top
       /\ \A c, d \in DOMAIN l : w[c].position = w[d].position => c = d
  BY <1>1, <1>2, <1>7
<1>11. Sound(w, top)
  BY <1>l, <1>7, <1>8, <1>9, <1>10, Zenon DEF Sound
<1> QED  BY <1>4, <1>5, <1>11 DEF w, written

\* ORDER BY position, id lists the channels in an order.
LEMMA ListIsOrder ==
  ASSUME NEW top \in Nat, NEW l, Sound(l, top)
  PROVE  IsOrder(DOMAIN l, ListGuildChannels(l))
<1>1. \A c \in DOMAIN l : c \in Nat /\ l[c].position \in Nat
  BY LayoutConstants DEF Sound, Rows
<1> DEFINE listed == ListGuildChannels(l)
           Before(d, c) == \/ l[d].position < l[c].position
                           \/ l[d].position = l[c].position /\ d < c
<1>2. \A c \in DOMAIN l : listed[c] = {d \in DOMAIN l : Before(d, c)}
  BY DEF ListGuildChannels
<1>3. /\ \A c \in DOMAIN l : ~Before(c, c)
      /\ \A c, d \in DOMAIN l : c # d => Before(c, d) \/ Before(d, c)
      /\ \A c, d, e \in DOMAIN l : Before(e, d) /\ Before(d, c) => Before(e, c)
  BY <1>1
<1> HIDE DEF listed, Before
<1>4. IsOrder(DOMAIN l, listed)
  BY <1>2, <1>3 DEF IsOrder
<1> QED  BY <1>4, Zenon DEF listed

\* Putting a channel after the first ones of an order is an order.
LEMMA InsertIsOrder ==
  ASSUME NEW S, NEW listed, IsOrder(S, listed), NEW c \in S, NEW kept \in SUBSET (S \ {c}),
         \A d \in kept : listed[d] \ {c} \subseteq kept,
         NEW ahead, ahead[c] = kept, \A d \in kept : ahead[d] = listed[d] \ {c},
         \A d \in S : d # c /\ d \notin kept => ahead[d] = listed[d] \cup {c}
  PROVE  IsOrder(S, ahead)
<1> DEFINE Was(e, d) == e \in listed[d]
           Is(e, d) == e \in ahead[d]
<1>1. /\ \A d \in S : ~Was(d, d)
      /\ \A d, e \in S : d # e => Was(e, d) \/ Was(d, e)
      /\ \A d, e, f \in S : Was(f, e) /\ Was(e, d) => Was(f, d)
  BY Zenon DEF IsOrder
<1>2. \A d \in kept, e \in S : Was(e, d) /\ e # c => e \in kept
  OBVIOUS
<1>3. \A d \in S : d = c \/ d \in kept \/ (d # c /\ d \notin kept)
  OBVIOUS
<1>4. /\ \A e \in S : Is(e, c) <=> e \in kept
      /\ \A d \in kept, e \in S : Is(e, d) <=> Was(e, d) /\ e # c
      /\ \A d, e \in S : d # c /\ d \notin kept => (Is(e, d) <=> Was(e, d) \/ e = c)
  OBVIOUS
<1>5. \A d \in S : ahead[d] \subseteq S
  BY <1>3 DEF IsOrder
<1> HIDE DEF Was, Is
<1>6. \A d \in S : ~Is(d, d)
  BY <1>1, <1>3, <1>4
<1>7. \A d, e \in S : d # e => Is(e, d) \/ Is(d, e)
  BY <1>1, <1>2, <1>3, <1>4
<1>8. ASSUME NEW d \in S, NEW e \in S, NEW f \in S, Is(f, e), Is(e, d) PROVE Is(f, d)
  <2>1. CASE d = c
    BY <2>1, <1>2, <1>4, <1>8, Zenon
  <2>2. CASE d \in kept
    <3>1. Was(e, d) /\ e \in kept
      BY <2>2, <1>2, <1>4, <1>8, Zenon
    <3>2. Was(f, e) /\ f # c
      BY <3>1, <1>4, <1>8, Zenon
    <3> QED  BY <2>2, <3>1, <3>2, <1>1, <1>4
  <2>3. CASE d # c /\ d \notin kept /\ e = c
    <3>1. f \in kept /\ f # d
      BY <2>3, <1>4, <1>8, Zenon
    <3> QED  BY <2>3, <3>1, <1>1, <1>2, <1>4
  <2>4. CASE d # c /\ d \notin kept /\ e # c
    <3>1. Was(e, d) /\ (Was(f, e) \/ f = c)
      BY <2>4, <1>3, <1>4, <1>8, Zenon
    <3> QED  BY <2>4, <3>1, <1>1, <1>4
  <2> QED  BY <1>3, <2>1, <2>2, <2>3, <2>4, Zenon
<1>9. \A d, e \in S : e \in ahead[d] => ahead[e] \subseteq ahead[d]
  BY <1>5, <1>8, Zenon DEF Is
<1> QED  BY <1>5, <1>6, <1>7, <1>9, Zenon DEF IsOrder, Is

\* Moving a channel next to its new siblings is an order.
LEMMA MoveIsOrder ==
  ASSUME NEW top \in Nat, NEW l, Sound(l, top), NEW c \in DOMAIN l, NEW parent
  PROVE  IsOrder(DOMAIN l, MoveOrder(l, c, parent))
<1> DEFINE listed == ListGuildChannels(l)
           remaining == DOMAIN l \ {c}
           UpTo(d) == (listed[d] \cup {d}) \ {c}
           siblings == {f \in remaining : f = parent \/ l[f].parent = parent}
           leading == {d \in remaining : \A e \in UpTo(d) : isUncategorizedChannel(l[e])}
           kept == IF parent = Root THEN leading ELSE UNION {UpTo(e) : e \in siblings}
           ahead == MoveOrder(l, c, parent)
<1>1. IsOrder(DOMAIN l, listed)
  BY ListIsOrder, Zenon
<1>2. \A d \in DOMAIN l : ahead[d] = IF d = c THEN kept
                                     ELSE IF d \in kept THEN listed[d] \ {c} ELSE listed[d] \cup {c}
  BY DEF MoveOrder
<1> HIDE DEF listed, ahead
<1>3. ASSUME NEW d \in remaining PROVE UpTo(d) \subseteq remaining
  BY <1>1, Zenon DEF IsOrder
<1>4. ASSUME NEW d \in remaining, NEW e \in UpTo(d) PROVE UpTo(e) \subseteq UpTo(d)
  <2>1. e \in remaining
    BY <1>3, <1>4, Zenon
  <2> QED  BY <1>1, <1>4, <2>1, Zenon DEF IsOrder
<1>5. kept \in SUBSET (DOMAIN l \ {c})
  BY <1>3, Zenon
<1>6. ASSUME NEW d \in kept, NEW e \in listed[d] \ {c} PROVE e \in kept
  <2>1. d \in remaining /\ e \in UpTo(d) /\ e \in remaining
    BY <1>1, <1>5, <1>6 DEF IsOrder
  <2>2. CASE parent = Root
    BY <1>4, <1>6, <2>1, <2>2, Zenon
  <2>3. CASE parent # Root
    <3>1. PICK f \in siblings : d \in UpTo(f)
      BY <1>6, <2>3
    <3>2. UpTo(d) \subseteq UpTo(f)
      BY <1>4, <3>1, Zenon
    <3> HIDE DEF UpTo, siblings
    <3> QED  BY <2>1, <2>3, <3>1, <3>2
  <2> QED  BY <2>2, <2>3, SMTT(20)
<1> HIDE DEF kept
<1>7. /\ ahead[c] = kept /\ \A d \in kept : ahead[d] = listed[d] \ {c}
      /\ \A d \in DOMAIN l : d # c /\ d \notin kept => ahead[d] = listed[d] \cup {c}
  BY <1>2, <1>5, Zenon
<1>8. \A d \in kept : listed[d] \ {c} \subseteq kept
  BY <1>6, Zenon
<1>9. IsOrder(DOMAIN l, ahead)
  BY <1>1, <1>5, <1>7, <1>8, InsertIsOrder
<1> QED  BY <1>9, Zenon DEF ahead

\* A guild of n channels has n slots.
LEMMA SlotCount ==
  ASSUME NEW n \in Nat
  PROVE  IsFiniteSet(0..n - 1) /\ Cardinality(0..n - 1) = n
<1>1. 0 \in Int /\ n - 1 \in Int
  OBVIOUS
<1>2. Cardinality(0..n - 1) = IF 0 > n - 1 THEN 0 ELSE n - 1 - 0 + 1
  BY <1>1, FS_Interval, Zenon
<1> QED  BY <1>1, <1>2, FS_Interval

\* The elements of a finite set of naturals have all the ranks below its size.
LEMMA RanksAreTaken ==
  ASSUME NEW F \in SUBSET Nat, IsFiniteSet(F), NEW k \in Nat, k < Cardinality(F)
  PROVE  \E p \in F : Cardinality({q \in F : q < p}) = k
<1> DEFINE below == [p \in F |-> {q \in F : q < p}]
           n == Cardinality(F)
           rank == [p \in F |-> Cardinality(below[p])]
<1>1. IsOrder(F, below)
  <2>1. \A p \in F : p \in Nat
    OBVIOUS
  <2>2. \A p \in F : below[p] \subseteq F /\ \A q \in F : q \in below[p] <=> q < p
    OBVIOUS
  <2> HIDE DEF below
  <2>3. \A p, q, r \in F : r \in below[q] /\ q \in below[p] => r \in below[p]
    BY <2>1, <2>2
  <2>4. /\ \A p \in F : p \notin below[p]
        /\ \A p, q \in F : p # q => q \in below[p] \/ p \in below[q]
    BY <2>1, <2>2
  <2> QED  BY <2>2, <2>3, <2>4, Zenon DEF IsOrder
<1>2. n \in Nat
  BY FS_CardinalityType, Zenon
<1> HIDE DEF below
<1>3. /\ \A p \in F : Cardinality(below[p]) \in Nat /\ Cardinality(below[p]) < n
      /\ \A p, q \in F : Cardinality(below[p]) = Cardinality(below[q]) => p = q
  BY <1>1, OrderRanks, Zenon
<1> HIDE DEF n
<1>4. IsFiniteSet(0..n - 1) /\ Cardinality(0..n - 1) = n
  BY <1>2, SlotCount, Zenon
<1>5. rank \in [F -> 0..n - 1]
  BY <1>2, <1>3
<1>6. \A p, q \in F : rank[p] = rank[q] => p = q
  BY <1>3, Zenon
<1>7. rank \in Injection(F, 0..n - 1)
  BY <1>5, <1>6, Zenon DEF Injection, IsInjective
<1>8. rank \in Surjection(F, 0..n - 1)
  BY <1>4, <1>7, FS_Injection, Zenon DEF n
<1>9. k \in 0..n - 1
  BY <1>2 DEF n
<1>10. \E p \in F : rank[p] = k
  BY <1>8, <1>9, Zenon DEF Surjection
<1> QED  BY <1>10, Zenon DEF below

\* A requested channel gets its position and the others the free ones: no two
\* channels share a slot.
LEMMA SlotsAreDistinct ==
  ASSUME NEW top \in Nat, NEW l, Sound(l, top), NEW positions,
         DOMAIN positions \subseteq DOMAIN l,
         positions \in [DOMAIN positions -> 0..Cardinality(DOMAIN l) - 1],
         \A a, b \in DOMAIN positions : positions[a] = positions[b] => a = b
  PROVE  /\ \A c \in DOMAIN l : Slots(l, positions)[c] \in Nat
         /\ \A c, d \in DOMAIN l : Slots(l, positions)[c] = Slots(l, positions)[d] => c = d
<1> DEFINE asked == DOMAIN positions
           n == Cardinality(DOMAIN l)
           listed == ListGuildChannels(l)
           others == DOMAIN l \ asked
           taken == {positions[c] : c \in asked}
           free == (0..n - 1) \ taken
           ahead == [c \in others |-> listed[c] \ asked]
           slot == Slots(l, positions)
<1>0. n \in Nat /\ IsFiniteSet(DOMAIN l) /\ IsOrder(DOMAIN l, listed)
  BY SoundIsFinite, ListIsOrder, Zenon
<1>1. IsOrder(others, ahead) /\ IsFiniteSet(others)
  <2>1. IsOrder(others, ahead)
    BY <1>0, Zenon DEF IsOrder
  <2> QED  BY <1>0, <2>1, FS_Difference, Zenon
<1>2. IsFiniteSet(asked) /\ Cardinality(others) = n - Cardinality(asked)
  <2>1. DOMAIN l \cap asked = asked /\ IsFiniteSet(asked)
    BY <1>0, FS_Subset, Zenon
  <2> QED  BY <1>0, <2>1, FS_Difference, Zenon
<1>s. \A c \in DOMAIN l :
        slot[c] = IF c \in asked THEN positions[c]
                  ELSE CHOOSE p \in free :
                         Cardinality({q \in free : q < p}) = Cardinality(listed[c] \ asked)
  BY Zenon DEF Slots
<1>3. IsFiniteSet(taken) /\ Cardinality(taken) = Cardinality(asked)
  <2>1. positions \in Bijection(asked, taken)
    BY Zenon DEF Bijection, Injection, Surjection, IsInjective
  <2> QED  BY <1>2, <2>1, FS_Bijection, Zenon DEF ExistsBijection
<1>4. IsFiniteSet(free) /\ Cardinality(free) = Cardinality(others) /\ free \in SUBSET Nat
  <2>1. IsFiniteSet(0..n - 1) /\ Cardinality(0..n - 1) = n
    BY <1>0, SlotCount, Zenon
  <2>2. (0..n - 1) \cap taken = taken
    OBVIOUS
  <2>3. IsFiniteSet(free) /\ Cardinality(free) = Cardinality(0..n - 1) - Cardinality(taken)
    BY <2>1, <2>2, FS_Difference, ZenonT(30)
  <2> HIDE DEF n, taken
  <2> QED  BY <1>2, <1>3, <2>1, <2>3
<1> HIDE DEF free, listed, slot, others
<1>5. ASSUME NEW c \in others
      PROVE  slot[c] \in free /\ Cardinality({q \in free : q < slot[c]}) = Cardinality(ahead[c])
  <2>1. Cardinality(ahead[c]) \in Nat /\ Cardinality(ahead[c]) < Cardinality(free)
    BY <1>1, <1>4, OrderRanks, Zenon
  <2>2. \E p \in free : Cardinality({q \in free : q < p}) = Cardinality(ahead[c])
    BY <1>4, <2>1, RanksAreTaken, Zenon
  <2>3. slot[c] = CHOOSE p \in free : Cardinality({q \in free : q < p}) = Cardinality(ahead[c])
    BY <1>s, Zenon DEF others
  <2> QED  BY <2>2, <2>3, Zenon
<1>6. \A c, d \in others : Cardinality(ahead[c]) = Cardinality(ahead[d]) => c = d
  BY <1>1, OrderRanks, Zenon
<1> HIDE DEF ahead
<1>7. \A c \in asked : slot[c] = positions[c] /\ slot[c] \in taken
  BY <1>s, Zenon
<1>8. \A c \in others : slot[c] \notin taken
  BY <1>5, Zenon DEF free
<1>9. \A c \in DOMAIN l : c \in asked \/ c \in others
  BY Zenon DEF others
<1>10. ASSUME NEW c \in others, NEW d \in others, slot[c] = slot[d] PROVE c = d
  <2>1. Cardinality({q \in free : q < slot[c]}) = Cardinality({q \in free : q < slot[d]})
    BY <1>10, Zenon
  <2>2. Cardinality(ahead[c]) = Cardinality(ahead[d])
    BY <1>5, <2>1, Zenon
  <2> QED  BY <1>6, <2>2, Zenon
<1>11. \A c, d \in DOMAIN l : slot[c] = slot[d] => c = d
  BY <1>7, <1>8, <1>9, <1>10, Zenon
<1>12. ASSUME NEW c \in DOMAIN l PROVE slot[c] \in Nat
  <2>1. CASE c \in asked
    <3>1. slot[c] = positions[c] /\ positions[c] \in 0..n - 1
      BY <1>7, <2>1, Zenon
    <3> QED  BY <1>0, <3>1
  <2>2. CASE c \in others
    BY <1>4, <1>5, <2>2, Zenon
  <2> QED  BY <1>9, <2>1, <2>2, Zenon
<1> QED  BY <1>11, <1>12, Zenon DEF slot

\* Channels without a category first, each group by slot, is an order.
LEMMA NormalIsOrder ==
  ASSUME NEW top \in Nat, NEW l, Sound(l, top), NEW positions,
         DOMAIN positions \subseteq DOMAIN l,
         positions \in [DOMAIN positions -> 0..Cardinality(DOMAIN l) - 1],
         \A a, b \in DOMAIN positions : positions[a] = positions[b] => a = b, NEW parents
  PROVE  IsOrder(DOMAIN l, NormalOrder(l, positions, parents))
<1> DEFINE slot == Slots(l, positions)
           First(c) == isUncategorizedChannel(
                         [l[c] EXCEPT !.parent = IF c \in DOMAIN parents THEN parents[c] ELSE @])
           ahead == NormalOrder(l, positions, parents)
<1>1. /\ \A c \in DOMAIN l : slot[c] \in Nat
      /\ \A c, d \in DOMAIN l : slot[c] = slot[d] => c = d
  BY SlotsAreDistinct, Zenon
<1>2. \A c \in DOMAIN l :
        ahead[c] = {d \in DOMAIN l : IF First(d) = First(c) THEN slot[d] < slot[c] ELSE First(d)}
  BY Zenon DEF NormalOrder
<1>b. \A c \in DOMAIN l : First(c) \in BOOLEAN
  BY Zenon DEF isUncategorizedChannel
<1> HIDE DEF slot, First, ahead
<1>3. \A c, d \in DOMAIN l :
        d \in ahead[c] <=> (First(d) /\ ~First(c)) \/ (First(d) = First(c) /\ slot[d] < slot[c])
  BY <1>2, <1>b, Zenon
<1>4. \A c \in DOMAIN l : ahead[c] \subseteq DOMAIN l
  BY <1>2, Zenon
<1>5. \A c, d, e \in DOMAIN l : e \in ahead[d] /\ d \in ahead[c] => e \in ahead[c]
  BY <1>1, <1>3, <1>b
<1>6. /\ \A c \in DOMAIN l : c \notin ahead[c]
      /\ \A c, d \in DOMAIN l : c # d => d \in ahead[c] \/ c \in ahead[d]
  BY <1>1, <1>3, <1>b
<1>7. IsOrder(DOMAIN l, ahead)
  BY <1>4, <1>5, <1>6, Zenon DEF IsOrder
<1> QED  BY <1>7, Zenon DEF ahead

\* The next position is above all others and no further than the channels reach.
LEMMA NextPosition ==
  ASSUME NEW top \in 0..MaxChannels, NEW l, Sound(l, top)
  PROVE  /\ nextGuildChannelPosition(l) \in 0..top
         /\ \A c \in DOMAIN l : l[c].position < nextGuildChannelPosition(l)
<1> DEFINE above == {p \in Nat : \A c \in DOMAIN l : l[c].position < p}
           Next_(p) == /\ \A c \in DOMAIN l : l[c].position < p
                       /\ \A q \in 0..p - 1 : \E c \in DOMAIN l : q <= l[c].position
<1>0. top \in Nat /\ MaxChannels \in Nat /\ \A c \in DOMAIN l : l[c].position \in Nat
  BY LayoutConstants DEF Sound, Rows
<1>1. top \in above
  BY <1>0, Zenon DEF Sound
<1>2. PICK p \in above : \A q \in above : p <= q
  BY <1>1, LeastOf, Zenon
<1>3. p \in 0..MaxChannels /\ Next_(p)
  <2>1. p <= top
    BY <1>1, <1>2, Zenon
  <2>2. ASSUME NEW q \in 0..p - 1 PROVE \E c \in DOMAIN l : q <= l[c].position
    <3>1. q \in Nat /\ q \notin above
      BY <1>2
    <3> QED  BY <1>0, <3>1
  <2> QED  BY <1>0, <2>1, <2>2
<1>4. /\ nextGuildChannelPosition(l) \in 0..MaxChannels
      /\ Next_(nextGuildChannelPosition(l))
  BY <1>3, Zenon DEF nextGuildChannelPosition
<1>5. nextGuildChannelPosition(l) <= top
  <2> SUFFICES ASSUME top < nextGuildChannelPosition(l) PROVE FALSE
    BY <1>0, <1>4
  <2>1. top \in 0..nextGuildChannelPosition(l) - 1
    BY <1>0, <1>4
  <2> HIDE DEF above
  <2>2. \E c \in DOMAIN l : top <= l[c].position
    BY <1>4, <2>1, Zenon
  <2> QED  BY <1>0, <2>2 DEF Sound
<1> QED  BY <1>0, <1>4, <1>5

\* Where an uncategorized channel goes is no further either.
LEMMA InsertPosition ==
  ASSUME NEW top \in 0..MaxChannels, NEW l, Sound(l, top)
  PROVE  uncategorizedChannelInsertPosition(l) \in 0..top
<1> DEFINE after == {l[c].position : c \in {d \in DOMAIN l : ~isUncategorizedChannel(l[d])}}
                    \cup {nextGuildChannelPosition(l)}
<1>1. top \in Nat /\ \A c \in DOMAIN l : l[c].position \in 0..top
  BY LayoutConstants DEF Sound, Rows
<1>2. after \subseteq 0..top /\ after # {}
  BY <1>1, NextPosition, Zenon
<1>3. uncategorizedChannelInsertPosition(l) = CHOOSE p \in after : \A q \in after : p <= q
  BY Zenon DEF uncategorizedChannelInsertPosition
<1> HIDE DEF after
<1>4. after \subseteq Nat
  BY <1>2
<1>5. \E p \in after : \A q \in after : p <= q
  BY <1>2, <1>4, LeastOf, Zenon
<1>6. uncategorizedChannelInsertPosition(l) \in after
  BY <1>3, <1>5, Zenon
<1> QED  BY <1>2, <1>6, Zenon

\* Creating a channel leaves a sound layout sound, whether it goes to the end or
\* makes room among the others.
LEMMA CreationIsSound ==
  ASSUME NEW top \in 0..MaxChannels, top < MaxChannels, NEW l, Sound(l, top),
         NEW kind \in Kinds, NEW parent \in DOMAIN l \cup {Root},
         validateChannelParent(l, kind, parent)
  PROVE  /\ CreatedRows(l, top + 1, kind, parent) \in RowMaps
         /\ top + 1 \in DOMAIN CreatedRows(l, top + 1, kind, parent)
         /\ Sound(WriteChannels(l, CreatedRows(l, top + 1, kind, parent), {}), top + 1)
<1> DEFINE new == top + 1
           first == kind # "category" /\ parent = Root
           p == IF first THEN uncategorizedChannelInsertPosition(l)
                ELSE nextGuildChannelPosition(l)
           shifted == {d \in DOMAIN l : first /\ l[d].position >= p}
           added == [kind |-> kind, parent |-> parent, position |-> p]
           written == CreatedRows(l, new, kind, parent)
           w == WriteChannels(l, written, {})
<1>0. top \in Nat /\ MaxChannels \in Nat /\ new \in 1..MaxChannels
  BY LayoutConstants
<1>l. /\ l \in [DOMAIN l -> Rows] /\ DOMAIN l \subseteq 1..top
      /\ \A c \in DOMAIN l : l[c].position < top
      /\ \A c, d \in DOMAIN l : l[c].position = l[d].position => c = d
      /\ \A c \in DOMAIN l : validateChannelParent(l, l[c].kind, l[c].parent)
  BY Zenon DEF Sound
<1>n. new \notin DOMAIN l /\ \A c \in DOMAIN l : l[c].position \in Nat
  BY <1>0, <1>l DEF Rows
<1>1. p \in 0..top /\ (~first => \A c \in DOMAIN l : l[c].position < p)
  BY NextPosition, InsertPosition, Zenon
<1>2. written = [d \in shifted \cup {new} |->
                IF d = new THEN added ELSE [l[d] EXCEPT !.position = @ + 1]]
  BY Zenon DEF CreatedRows
<1> HIDE DEF p, written, new
<1>3. added \in Rows
  BY <1>0, <1>1, <1>l DEF Rows, ChannelIds, Root
<1>4. ASSUME NEW d \in DOMAIN l
      PROVE  LET up == [l[d] EXCEPT !.position = @ + 1]
             IN /\ up \in Rows /\ up.kind = l[d].kind /\ up.parent = l[d].parent
                /\ up.position = l[d].position + 1
  <2>1. l[d] \in Rows /\ l[d].position + 1 \in 0..MaxChannels
    BY <1>0, <1>l, <1>n
  <2> QED  BY <2>1, Zenon DEF Rows
<1>5. shifted \subseteq DOMAIN l
  OBVIOUS
<1>6. written \in RowMaps /\ DOMAIN written = shifted \cup {new}
  <2>1. written \in [shifted \cup {new} -> Rows]
    BY <1>2, <1>3, <1>4, <1>5, Zenon
  <2>2. shifted \cup {new} \subseteq ChannelIds
    BY <1>0, <1>l, <1>5 DEF ChannelIds
  <2> QED  BY <2>1, <2>2, Zenon DEF RowMaps
<1>7. w = [d \in DOMAIN l \cup {new} |-> IF d \in DOMAIN written THEN written[d] ELSE l[d]]
  <2>1. (DOMAIN l \cup DOMAIN written) \ {} = DOMAIN l \cup {new}
    BY <1>5, <1>6, Zenon
  <2> QED  BY <2>1, Zenon DEF WriteChannels
<1> DEFINE Up(d) == d \in shifted
<1>s. \A d \in DOMAIN l : Up(d) <=> first /\ l[d].position >= p
  OBVIOUS
<1> HIDE DEF w
<1>8. DOMAIN w = DOMAIN l \cup {new} /\ w[new] = added
  BY <1>2, <1>6, <1>7, Zenon
<1>9. ASSUME NEW d \in DOMAIN l
      PROVE  /\ w[d] \in Rows /\ w[d].kind = l[d].kind /\ w[d].parent = l[d].parent
             /\ w[d].position = IF Up(d) THEN l[d].position + 1 ELSE l[d].position
  <2>1. d # new
    BY <1>n, Zenon
  <2>2. CASE Up(d)
    <3>1. w[d] = [l[d] EXCEPT !.position = @ + 1]
      BY <1>2, <1>6, <1>7, <2>1, <2>2, Zenon
    <3> QED  BY <1>4, <2>2, <3>1, Zenon
  <2>3. CASE ~Up(d)
    <3>1. w[d] = l[d]
      BY <1>6, <1>7, <2>1, <2>3, Zenon
    <3> QED  BY <1>l, <2>3, <3>1, Zenon
  <2> QED  BY <2>2, <2>3
<1> HIDE DEF added, shifted, Up, first
<1>10. w \in [DOMAIN w -> Rows]
  <2>1. \A d \in DOMAIN l \cup {new} : w[d] \in Rows
    BY <1>3, <1>8, <1>9, Zenon
  <2> QED  BY <1>7, <1>8, <2>1
<1>11. added.kind = kind /\ added.parent = parent /\ added.position = p
  BY Zenon DEF added
<1>12. \A c \in DOMAIN w : w[c].position < new
  BY <1>0, <1>1, <1>l, <1>n, <1>8, <1>9, <1>11 DEF new
<1>13. ASSUME NEW c \in DOMAIN w, NEW d \in DOMAIN w, w[c].position = w[d].position PROVE c = d
  <2>1. \A e \in DOMAIN l : w[e].position # p
    BY <1>1, <1>n, <1>s, <1>9, SMTT(20)
  <2>2. \A e, f \in DOMAIN l : w[e].position = w[f].position => l[e].position = l[f].position
    BY <1>1, <1>n, <1>s, <1>9
  <2> QED  BY <1>l, <1>8, <1>11, <1>13, <2>1, <2>2, Zenon
<1>14. ASSUME NEW c \in DOMAIN w PROVE validateChannelParent(w, w[c].kind, w[c].parent)
  <2>1. \A d \in DOMAIN l : d \in DOMAIN w /\ w[d].kind = l[d].kind
    BY <1>8, <1>9, Zenon
  <2>2. validateChannelParent(l, w[c].kind, w[c].parent)
    BY <1>l, <1>8, <1>9, <1>11, Zenon
  <2> QED  BY <2>1, <2>2, Zenon DEF validateChannelParent
<1>15. DOMAIN w \subseteq 1..new
  BY <1>0, <1>l, <1>8 DEF new
<1> QED  BY <1>6, <1>10, <1>12, <1>13, <1>14, <1>15 DEF Sound, w, written, new

\* Deleting a channel, with its children moved to the root, leaves a sound layout
\* sound.
LEMMA DeletionIsSound ==
  ASSUME NEW top \in 0..MaxChannels, Sound(layout, top), NEW c \in DOMAIN layout
  PROVE  /\ ClearGuildChannelParent(c) \in RowMaps
         /\ DOMAIN ClearGuildChannelParent(c) \subseteq DOMAIN layout
         /\ Sound(WriteChannels(layout, ClearGuildChannelParent(c), {c}), top)
<1> DEFINE written == ClearGuildChannelParent(c)
           children == {e \in DOMAIN layout : layout[e].parent = c}
           w == WriteChannels(layout, written, {c})
<1>0. top \in Nat /\ MaxChannels \in Nat
  BY LayoutConstants
<1>l. /\ layout \in [DOMAIN layout -> Rows] /\ DOMAIN layout \subseteq 1..top
      /\ \A d \in DOMAIN layout : layout[d].position < top
      /\ \A d, e \in DOMAIN layout : layout[d].position = layout[e].position => d = e
      /\ \A d \in DOMAIN layout : validateChannelParent(layout, layout[d].kind, layout[d].parent)
  BY Zenon DEF Sound
<1>1. written = [d \in children |-> [layout[d] EXCEPT !.parent = Root]]
  BY Zenon DEF ClearGuildChannelParent
<1> HIDE DEF written
<1>2. ASSUME NEW d \in DOMAIN layout
      PROVE  LET up == [layout[d] EXCEPT !.parent = Root]
             IN /\ up \in Rows /\ up.kind = layout[d].kind /\ up.parent = Root
                /\ up.position = layout[d].position
  <2>1. layout[d] \in Rows
    BY <1>l, Zenon
  <2> QED  BY <2>1, Zenon DEF Rows
<1>3. written \in RowMaps /\ DOMAIN written = children
  <2>1. written \in [children -> Rows]
    BY <1>1, <1>2, Zenon
  <2>2. children \subseteq ChannelIds
    BY <1>0, <1>l DEF ChannelIds
  <2> QED  BY <2>1, <2>2, Zenon DEF RowMaps
<1>4. w = [d \in DOMAIN layout \ {c} |-> IF d \in children THEN written[d] ELSE layout[d]]
  <2>1. DOMAIN layout \cup DOMAIN written = DOMAIN layout
    BY <1>3, Zenon
  <2> QED  BY <1>3, <2>1, Zenon DEF WriteChannels
<1> HIDE DEF w
<1>5. DOMAIN w = DOMAIN layout \ {c}
  BY <1>4, Zenon
<1>6. ASSUME NEW d \in DOMAIN w
      PROVE  /\ w[d] \in Rows /\ w[d].kind = layout[d].kind
             /\ w[d].position = layout[d].position
             /\ w[d].parent = IF layout[d].parent = c THEN Root ELSE layout[d].parent
  <2>1. CASE d \in children
    <3>1. w[d] = [layout[d] EXCEPT !.parent = Root]
      BY <1>1, <1>4, <1>5, <2>1, Zenon
    <3> QED  BY <1>2, <2>1, <3>1, Zenon
  <2>2. CASE d \notin children
    <3>1. w[d] = layout[d] /\ layout[d].parent # c
      BY <1>4, <1>5, <2>2, Zenon
    <3> QED  BY <1>l, <1>5, <3>1, Zenon
  <2> QED  BY <2>1, <2>2, Zenon
<1>7. w \in [DOMAIN w -> Rows]
  BY <1>4, <1>5, <1>6, Zenon
<1>8. ASSUME NEW d \in DOMAIN w PROVE validateChannelParent(w, w[d].kind, w[d].parent)
  <2>1. validateChannelParent(layout, layout[d].kind, layout[d].parent)
    BY <1>l, <1>5, Zenon
  <2>2. \A e \in DOMAIN w : w[e].kind = layout[e].kind
    BY <1>6, Zenon
  <2> QED  BY <1>5, <1>6, <2>1, <2>2, Zenon DEF validateChannelParent
<1>9. /\ \A d \in DOMAIN w : w[d].position < top
      /\ \A d, e \in DOMAIN w : w[d].position = w[e].position => d = e
  BY <1>l, <1>5, <1>6, Zenon
<1>10. DOMAIN w \subseteq 1..top
  BY <1>l, <1>5, Zenon
<1> QED  BY <1>3, <1>7, <1>8, <1>9, <1>10, Zenon DEF Sound, w, written

\* What a request has written: the client is told of all of it, and it leaves the
\* committed layout sound.
Drafted(d) ==
  /\ d.told = d.rows
  /\ Sound(WriteChannels(layout, d.rows, d.gone),
           IF lastId + 1 \in DOMAIN d.rows THEN lastId + 1 ELSE lastId)

EditSteps == {"idle", "waiting", "locked", "written"}
Drafts == [rows : RowMaps, gone : SUBSET ChannelIds, told : RowMaps]
Edits == [step : EditSteps, expected : 0..MaxLayout, draft : Drafts]

EditTypes ==
  /\ editor \in [Editors -> Edits]
  /\ lastId \in ChannelIds /\ layoutRevision \in 1..MaxLayout /\ guildLives \in BOOLEAN
  /\ layoutLock \in Editors \cup {NoEditor}
  /\ guildRow \in Editors \cup {NoEditor, GuildDeleter}

\* The inductive invariant: the one request past the advisory lock holds it, so
\* what it has written was computed from the layout that is still committed.
LayoutInv ==
  /\ EditTypes
  /\ replica = layout /\ Sound(layout, lastId)
  /\ ~guildLives => DOMAIN layout = {}
  /\ \A t \in Editors : editor[t].step \in {"locked", "written"} => layoutLock = t
  /\ \A t \in Editors : editor[t].step = "written" => Drafted(editor[t].draft)

\* The layout a deleted guild is left with, no channels, is sound (DeleteGuild).
LEMMA EmptyLayout ==
  /\ <<>> \in RowMaps /\ DOMAIN <<>> = {}
  /\ \A top \in Nat : Sound(<<>>, top)
<1>1. DOMAIN <<>> = {} /\ <<>> \in [{} -> Rows]
  OBVIOUS
<1>2. <<>> \in RowMaps
  BY <1>1, Zenon DEF RowMaps
<1> QED  BY <1>1, <1>2, Zenon DEF Sound

\* An editor between two requests has written nothing.
LEMMA NoEditTyped == NoEdit \in Edits /\ NoEdit.step = "idle"
<1>1. Nothing \in Drafts
  BY EmptyLayout, Zenon DEF Nothing, Drafts
<1> QED  BY <1>1, LayoutConstants DEF NoEdit, Edits, EditSteps

\* A new guild has a sound layout.
LEMMA LayoutInitial == LayoutInit => LayoutInv
<1> SUFFICES ASSUME LayoutInit PROVE LayoutInv
  OBVIOUS
<1> DEFINE l == createDefaultChannels
<1>1. l \in [1..4 -> Rows]
  <2>1. \A c \in 1..4 : IF c \in {1, 3} THEN TRUE ELSE c - 1 \in ChannelIds
    BY LayoutConstants DEF ChannelIds
  <2> QED  BY <2>1, LayoutConstants DEF createDefaultChannels, Rows, Kinds, Root
<1>2. \A c \in 1..4 : /\ l[c].position = c - 1
                      /\ l[c].kind = IF c \in {1, 3} THEN "category" ELSE "channel"
                      /\ l[c].parent = IF c \in {1, 3} THEN Root ELSE c - 1
  BY Zenon DEF createDefaultChannels
<1> HIDE DEF l
<1>3. DOMAIN l = 1..4
  BY <1>1, Zenon
<1>4. \A c \in 1..4 : validateChannelParent(l, l[c].kind, l[c].parent)
  BY <1>2, <1>3 DEF validateChannelParent, Root
<1>5. Sound(l, 4)
  BY <1>1, <1>2, <1>3, <1>4 DEF Sound
<1>6. EditTypes
  BY NoEditTyped, LayoutConstants DEF LayoutInit, EditTypes, ChannelIds
<1>7. \A t \in Editors : editor[t].step = "idle"
  BY NoEditTyped, Zenon DEF LayoutInit
<1> QED  BY <1>5, <1>6, <1>7, Zenon DEF LayoutInit, LayoutInv, l

\* Finishing a request leaves the others alone and gives the lock up if it had it.
LEMMA FinishKeeps ==
  ASSUME LayoutInv, NEW t \in Editors, FinishChange(t)
  PROVE  /\ editor' \in [Editors -> Edits]
         /\ layoutLock' \in Editors \cup {NoEditor}
         /\ guildRow' \in Editors \cup {NoEditor, GuildDeleter}
         /\ \A u \in Editors : editor'[u].step \in {"locked", "written"} => layoutLock' = u
         /\ \A u \in Editors : editor'[u].step = "written" => editor'[u] = editor[u]
<1>1. /\ editor \in [Editors -> Edits] /\ layoutLock \in Editors \cup {NoEditor}
      /\ guildRow \in Editors \cup {NoEditor, GuildDeleter}
      /\ \A u \in Editors : editor[u].step \in {"locked", "written"} => layoutLock = u
  BY Zenon DEF LayoutInv, EditTypes
<1>2. /\ editor' = [editor EXCEPT ![t] = NoEdit]
      /\ layoutLock' = IF layoutLock = t THEN NoEditor ELSE layoutLock
      /\ guildRow' = IF guildRow = t THEN NoEditor ELSE guildRow
  BY Zenon DEF FinishChange
<1>3. /\ editor' \in [Editors -> Edits] /\ editor'[t].step = "idle"
      /\ \A u \in Editors \ {t} : editor'[u] = editor[u]
  BY <1>1, <1>2, NoEditTyped, Zenon
<1>4. /\ layoutLock' \in Editors \cup {NoEditor}
      /\ guildRow' \in Editors \cup {NoEditor, GuildDeleter}
  BY <1>1, <1>2, Zenon
<1>5. \A u \in Editors : editor'[u].step \in {"locked", "written"} => layoutLock' = u
  BY <1>1, <1>2, <1>3, Zenon
<1>6. \A u \in Editors : editor'[u].step = "written" => editor'[u] = editor[u]
  BY <1>3, Zenon
<1> QED  BY <1>3, <1>4, <1>5, <1>6, Zenon

\* A locked request that writes keeps the lock.
LEMMA DraftKeeps ==
  ASSUME LayoutInv, NEW t \in Editors, editor[t].step = "locked",
         NEW written \in RowMaps, NEW gone \in SUBSET ChannelIds, Draft(t, written, gone, written),
         UNCHANGED <<layout, lastId, layoutRevision, guildLives, layoutLock, replica>>,
         guildRow' \in Editors \cup {NoEditor, GuildDeleter},
         Sound(WriteChannels(layout, written, gone),
               IF lastId + 1 \in DOMAIN written THEN lastId + 1 ELSE lastId)
  PROVE  LayoutInv'
<1>1. /\ editor \in [Editors -> Edits] /\ layoutLock = t
      /\ \A u \in Editors : editor[u].step \in {"locked", "written"} => layoutLock = u
  BY Zenon DEF LayoutInv, EditTypes
<1> DEFINE d == [rows |-> written, gone |-> gone, told |-> written]
<1>2. d \in Drafts /\ d.rows = written /\ d.gone = gone /\ d.told = written
  BY DEF Drafts
<1>3. editor' = [editor EXCEPT ![t].step = "written", ![t].draft = d]
  BY Zenon DEF Draft
<1> HIDE DEF d
<1>4. /\ editor' \in [Editors -> Edits]
      /\ editor'[t].draft = d
      /\ \A u \in Editors \ {t} : editor'[u] = editor[u]
  BY <1>1, <1>2, <1>3, Zenon DEF Edits, EditSteps
<1>5. \A u \in Editors : editor'[u].step \in {"locked", "written"} => layoutLock' = u
  BY <1>1, <1>4, Zenon
<1>6. ASSUME NEW u \in Editors, editor'[u].step = "written" PROVE Drafted(editor[u].draft)'
  <2>1. u = t
    BY <1>1, <1>4, <1>6, Zenon
  <2> QED  BY <1>2, <1>4, <2>1 DEF Drafted
<1> QED  BY <1>4, <1>5, <1>6, Zenon DEF LayoutInv, EditTypes

\* A step that changes no committed row keeps what the others have written.
LEMMA RequestKeeps ==
  ASSUME LayoutInv, UNCHANGED <<layout, lastId, guildLives, replica>>,
         EditTypes',
         \A u \in Editors : editor'[u].step \in {"locked", "written"} => layoutLock' = u,
         \A u \in Editors : editor'[u].step = "written" => editor'[u] = editor[u]
  PROVE  LayoutInv'
<1>1. \A u \in Editors : editor'[u].step = "written" => Drafted(editor[u].draft)'
  BY Zenon DEF LayoutInv, Drafted
<1> QED  BY <1>1, Zenon DEF LayoutInv

\* Creation, a move, a reordering and a deletion each write a sound draft.
LEMMA WritersAreSound ==
  ASSUME LayoutInv, NEW t \in Editors,
         \/ CreateGuildChannel(t) \/ UpdateGuildChannel(t)
         \/ ReorderGuildChannels(t) \/ DeleteGuildChannel(t)
  PROVE  LayoutInv'
<1>0. /\ editor[t].step = "locked" /\ Sound(layout, lastId) /\ lastId \in ChannelIds
      /\ lastId \in 0..MaxChannels /\ lastId \in Nat
  <2>1. editor[t].step = "locked" /\ Sound(layout, lastId) /\ lastId \in ChannelIds
    BY Zenon DEF LayoutInv, EditTypes, CreateGuildChannel, UpdateGuildChannel,
       ReorderGuildChannels, DeleteGuildChannel
  <2>2. lastId \in 1..MaxChannels /\ MaxChannels \in Nat
    BY <2>1, LayoutConstants, Zenon DEF ChannelIds
  <2>3. lastId \in 0..MaxChannels /\ lastId \in Nat
    BY ONLY <2>2
  <2> QED  BY <2>1, <2>3, Zenon
<1>g. guildRow \in Editors \cup {NoEditor, GuildDeleter} /\ DOMAIN layout \subseteq 1..lastId
  BY DEF LayoutInv, EditTypes, Sound
<1>r. DOMAIN layout \subseteq ChannelIds
  BY <1>0, <1>g, LayoutConstants DEF ChannelIds
<1>f. ASSUME FinishChange(t), UNCHANGED <<layout, lastId, layoutRevision, guildLives, replica>>
      PROVE  LayoutInv'
  <2>1. EditTypes'
    BY <1>f, FinishKeeps, SMTT(20) DEF LayoutInv, EditTypes
  <2> QED  BY <1>f, <2>1, FinishKeeps, RequestKeeps, Zenon
<1>1. CASE CreateGuildChannel(t)
  <2>1. PICK kind \in Kinds, parent \in DOMAIN layout \cup {Root} :
          /\ validateChannelParent(layout, kind, parent)
          /\ Draft(t, CreatedRows(layout, lastId + 1, kind, parent), {},
                   CreatedRows(layout, lastId + 1, kind, parent))
    BY <1>1, Zenon DEF CreateGuildChannel
  <2>2. /\ lastId < MaxChannels /\ guildRow' = t
        /\ UNCHANGED <<layout, lastId, layoutRevision, guildLives, layoutLock, replica>>
    BY <1>1, Zenon DEF CreateGuildChannel, HoldGuildRow
  <2> DEFINE written == CreatedRows(layout, lastId + 1, kind, parent)
  <2>3. /\ written \in RowMaps /\ lastId + 1 \in DOMAIN written
        /\ Sound(WriteChannels(layout, written, {}), lastId + 1)
    BY <1>0, <2>1, <2>2, CreationIsSound, Zenon
  <2> HIDE DEF written
  <2>4. Draft(t, written, {}, written)
    BY <2>1, Zenon DEF written
  <2> QED  BY <1>0, <2>2, <2>3, <2>4, DraftKeeps
<1>u. ASSUME NEW written \in RowMaps, DOMAIN written \subseteq DOMAIN layout,
             NEW gone \in SUBSET ChannelIds,
             Sound(WriteChannels(layout, written, gone), lastId), Draft(t, written, gone, written),
             guildRow' \in Editors \cup {NoEditor, GuildDeleter},
             UNCHANGED <<layout, lastId, layoutRevision, guildLives, layoutLock, replica>>
      PROVE  LayoutInv'
  <2>1. lastId + 1 \notin DOMAIN written
    BY <1>0, <1>g, <1>u
  <2> QED  BY <1>0, <1>u, <2>1, DraftKeeps, Zenon
<1>2. CASE UpdateGuildChannel(t)
  <2>1. PICK c \in DOMAIN layout, parent \in DOMAIN layout \cup {Root} :
          /\ validateChannelParent(layout, layout[c].kind, parent)
          /\ \/ FinishChange(t)
             \/ /\ Draft(t, channelParentMoveUpdates(layout, c, parent), {},
                         channelParentMoveUpdates(layout, c, parent))
                /\ UNCHANGED <<layoutLock, guildRow>>
    BY <1>2, Zenon DEF UpdateGuildChannel
  <2>2. UNCHANGED <<layout, lastId, layoutRevision, guildLives, replica>>
    BY <1>2, Zenon DEF UpdateGuildChannel
  <2> DEFINE parents == [d \in {c} |-> parent]
             written == Updates(layout, MoveOrder(layout, c, parent), parents)
  <2>3. \A d \in DOMAIN parents : /\ parents[d] \in ChannelIds \cup {Root}
                                  /\ validateChannelParent(layout, layout[d].kind, parents[d])
    BY <1>r, <2>1, Zenon
  <2>4. DOMAIN parents \subseteq DOMAIN layout
    OBVIOUS
  <2>5. written = channelParentMoveUpdates(layout, c, parent)
    BY Zenon DEF channelParentMoveUpdates
  <2> HIDE DEF parents
  <2>6. IsOrder(DOMAIN layout, MoveOrder(layout, c, parent))
    BY <1>0, MoveIsOrder, Zenon
  <2>7. /\ written \in RowMaps /\ DOMAIN written \subseteq DOMAIN layout
        /\ Sound(WriteChannels(layout, written, {}), lastId)
    BY <1>0, <2>3, <2>4, <2>6, UpdatesAreSound, Zenon
  <2> HIDE DEF written
  <2> QED  BY <1>f, <1>g, <1>u, <2>1, <2>2, <2>5, <2>7
<1>3. CASE ReorderGuildChannels(t)
  <2>1. PICK r \in Placements(layout) :
          \/ FinishChange(t)
          \/ /\ Draft(t, normalizeGuildChannelPlacements(layout, r.positions, r.parents), {},
                      normalizeGuildChannelPlacements(layout, r.positions, r.parents))
             /\ UNCHANGED <<layoutLock, guildRow>>
    BY <1>3, Zenon DEF ReorderGuildChannels
  <2>2. UNCHANGED <<layout, lastId, layoutRevision, guildLives, replica>>
    BY <1>3, Zenon DEF ReorderGuildChannels
  <2> DEFINE written == Updates(layout, NormalOrder(layout, r.positions, r.parents), r.parents)
  <2>3. /\ DOMAIN r.positions \subseteq DOMAIN layout
        /\ r.positions \in [DOMAIN r.positions -> 0..Cardinality(DOMAIN layout) - 1]
        /\ \A a, b \in DOMAIN r.positions : r.positions[a] = r.positions[b] => a = b
        /\ DOMAIN r.parents \subseteq DOMAIN layout
        /\ \A c \in DOMAIN r.parents :
             /\ r.parents[c] \in DOMAIN layout \cup {Root}
             /\ validateChannelParent(layout, layout[c].kind, r.parents[c])
    BY DEF Placements
  <2>4. \A c \in DOMAIN r.parents : r.parents[c] \in ChannelIds \cup {Root}
    BY <1>r, <2>3, Zenon
  <2>5. written = normalizeGuildChannelPlacements(layout, r.positions, r.parents)
    BY Zenon DEF normalizeGuildChannelPlacements
  <2>6. IsOrder(DOMAIN layout, NormalOrder(layout, r.positions, r.parents))
    BY <1>0, <2>3, NormalIsOrder
  <2>7. /\ written \in RowMaps /\ DOMAIN written \subseteq DOMAIN layout
        /\ Sound(WriteChannels(layout, written, {}), lastId)
    BY <1>0, <2>3, <2>4, <2>6, UpdatesAreSound, ZenonT(30)
  <2> HIDE DEF written
  <2> QED  BY <1>f, <1>g, <1>u, <2>1, <2>2, <2>5, <2>7
<1>4. CASE DeleteGuildChannel(t)
  <2>1. PICK c \in DOMAIN layout :
          Draft(t, ClearGuildChannelParent(c), {c}, ClearGuildChannelParent(c))
    BY <1>4, Zenon DEF DeleteGuildChannel
  <2>2. /\ guildRow' = t
        /\ UNCHANGED <<layout, lastId, layoutRevision, guildLives, layoutLock, replica>>
    BY <1>4, Zenon DEF DeleteGuildChannel, HoldGuildRow
  <2>3. /\ ClearGuildChannelParent(c) \in RowMaps
        /\ DOMAIN ClearGuildChannelParent(c) \subseteq DOMAIN layout
        /\ Sound(WriteChannels(layout, ClearGuildChannelParent(c), {c}), lastId)
    BY <1>0, DeletionIsSound, Zenon
  <2>4. {c} \in SUBSET ChannelIds
    BY <1>r, Zenon
  <2> QED  BY <1>u, <2>1, <2>2, <2>3, <2>4
<1> QED  BY <1>1, <1>2, <1>3, <1>4

\* Every step keeps the layout, its client and the requests in line.
LEMMA LayoutStep == LayoutInv /\ [LayoutNext]_layoutVars => LayoutInv'
<1> SUFFICES ASSUME LayoutInv, [LayoutNext]_layoutVars PROVE LayoutInv'
  OBVIOUS
<1>0. /\ EditTypes /\ editor \in [Editors -> Edits] /\ NoEditor \notin Editors
      /\ layoutRevision \in 1..MaxLayout /\ MaxLayout \in Nat /\ MaxChannels \in Nat
      /\ lastId \in ChannelIds
      /\ \A u \in Editors : editor[u].step \in {"locked", "written"} => layoutLock = u
  BY LayoutConstants, Zenon DEF LayoutInv, EditTypes
<1>1. ASSUME NEW t \in Editors, BeginChange(t) PROVE LayoutInv'
  <2>1. PICK r \in 1..layoutRevision :
          editor' = [editor EXCEPT ![t].step = "waiting", ![t].expected = r]
    BY <1>1, Zenon DEF BeginChange
  <2>2. r \in 0..MaxLayout
    BY <1>0
  <2>3. /\ editor' \in [Editors -> Edits] /\ editor'[t].step = "waiting"
        /\ \A u \in Editors \ {t} : editor'[u] = editor[u]
    BY <1>0, <2>1, <2>2, Zenon DEF Edits, EditSteps
  <2>4. UNCHANGED <<layout, lastId, layoutRevision, guildLives, layoutLock, guildRow, replica>>
    BY <1>1, Zenon DEF BeginChange
  <2>5. EditTypes'
    BY <1>0, <2>3, <2>4, Zenon DEF EditTypes
  <2> QED  BY <1>0, <2>3, <2>4, <2>5, RequestKeeps, Zenon
<1>f. ASSUME NEW t \in Editors, FinishChange(t),
             UNCHANGED <<layout, lastId, layoutRevision, guildLives, replica>>
      PROVE  LayoutInv'
  <2>1. EditTypes'
    BY <1>0, <1>f, FinishKeeps, ZenonT(30) DEF EditTypes
  <2> QED  BY <1>f, <2>1, FinishKeeps, RequestKeeps, Zenon
<1>2. ASSUME NEW t \in Editors, LockGuildChannelMutations(t) PROVE LayoutInv'
  <2>1. /\ editor[t].step = "waiting" /\ layoutLock = NoEditor
        /\ UNCHANGED <<layout, lastId, layoutRevision, guildLives, replica>>
        /\ FinishChange(t) \/ (Enter(t, "locked") /\ layoutLock' = t /\ guildRow' = guildRow)
    BY <1>2, Zenon DEF LockGuildChannelMutations
  <2>2. CASE Enter(t, "locked") /\ layoutLock' = t /\ guildRow' = guildRow
    <3>1. /\ editor' \in [Editors -> Edits] /\ editor'[t].step = "locked"
          /\ \A u \in Editors \ {t} : editor'[u] = editor[u]
      BY <1>0, <2>2, Zenon DEF Enter, Edits, EditSteps
    <3>2. EditTypes'
      BY <1>0, <2>1, <2>2, <3>1, Zenon DEF EditTypes
    <3>3. \A u \in Editors : editor'[u].step \in {"locked", "written"} => u = t
      BY <1>0, <2>1, <3>1, Zenon
    <3>4. \A u \in Editors : editor'[u].step # "written"
      BY <3>1, <3>3, Zenon
    <3> QED  BY <2>1, <2>2, <3>2, <3>3, <3>4, RequestKeeps, Zenon
  <2> QED  BY <1>f, <2>1, <2>2
<1>3. ASSUME NEW t \in Editors, AdvanceGuildChannelLayoutRevision(t) PROVE LayoutInv'
  <2> DEFINE d == editor[t].draft
             top == IF lastId + 1 \in DOMAIN d.rows THEN lastId + 1 ELSE lastId
  <2>1. /\ editor[t].step = "written" /\ layoutRevision < MaxLayout
        /\ FinishChange(t) /\ guildLives' = guildLives
    BY <1>3, SMTT(20) DEF AdvanceGuildChannelLayoutRevision
  <2>2. /\ d.told = d.rows /\ Sound(WriteChannels(layout, d.rows, d.gone), top)
        /\ d.rows \in RowMaps /\ replica = layout
    BY <1>0, <2>1, SMTT(20) DEF LayoutInv, Drafted, Edits, Drafts
  <2>3. CASE ~requireGuildChannelLayoutRevision(t)
    BY <1>3, <1>f, <2>1, <2>3, SMTT(20) DEF AdvanceGuildChannelLayoutRevision
  <2>4. CASE requireGuildChannelLayoutRevision(t)
    <3>1. /\ layout' = WriteChannels(layout, d.rows, d.gone) /\ replica' = WriteChannels(replica, d.told, d.gone)
          /\ lastId' = top /\ layoutRevision' = layoutRevision + 1
      BY <1>3, <2>4, Zenon DEF AdvanceGuildChannelLayoutRevision
    <3>2. lastId' \in ChannelIds
      <4>1. DOMAIN d.rows \subseteq ChannelIds
        BY <2>2, RowMapsAre, Zenon
      <4> HIDE DEF d
      <4> QED  BY <1>0, <3>1, <4>1
    <3>3. layoutRevision' \in 1..MaxLayout /\ guildLives' \in BOOLEAN
      BY <1>0, <2>1, <3>1 DEF EditTypes
    <3>4. EditTypes'
      BY <2>1, <3>2, <3>3, FinishKeeps, Zenon DEF EditTypes
    <3>5. replica' = layout' /\ Sound(layout, lastId)'
      BY <2>2, <3>1, Zenon
    <3>6. guildLives'
      BY <2>1, <2>4, Zenon DEF requireGuildChannelLayoutRevision
    <3>7. \A u \in Editors : editor'[u].step # "written"
      <4>1. layoutLock = t /\ \A u \in Editors : editor[u].step = "written" => u = t
        BY <1>0, <2>1, Zenon
      <4>2. layoutLock' = NoEditor
        BY <2>1, <4>1, Zenon DEF FinishChange
      <4> QED  BY <1>0, <2>1, <4>2, FinishKeeps, Zenon
    <3> QED  BY <2>1, <3>4, <3>5, <3>6, <3>7, FinishKeeps DEF LayoutInv
  <2> QED  BY <2>3, <2>4, Zenon
<1>4. ASSUME NEW t \in Editors, RollBackChange(t) PROVE LayoutInv'
  BY <1>4, <1>f, Zenon DEF RollBackChange
<1>5. CASE DeleteGuildRow \/ RollBackDeletion \/ UNCHANGED layoutVars
  <2>1. /\ UNCHANGED <<layout, lastId, layoutRevision, guildLives, editor, layoutLock, replica>>
        /\ guildRow' \in {guildRow, NoEditor, GuildDeleter}
    BY <1>5, Zenon DEF DeleteGuildRow, RollBackDeletion, layoutVars
  <2>2. EditTypes'
    BY <1>0, <2>1, Zenon DEF EditTypes
  <2> QED  BY <1>0, <2>1, <2>2, RequestKeeps, Zenon
<1>6. CASE DeleteGuildChannels
  <2>1. /\ \A u \in Editors : editor[u].step # "written"
        /\ layout' = <<>> /\ replica' = <<>> /\ guildLives' = FALSE /\ guildRow' = NoEditor
        /\ UNCHANGED <<lastId, layoutRevision, editor, layoutLock>>
    BY <1>6, Zenon DEF DeleteGuildChannels
  <2>2. EditTypes'
    BY <1>0, <2>1, Zenon DEF EditTypes
  <2>3. DOMAIN layout' = {} /\ Sound(layout, lastId)'
    <3>1. lastId' \in Nat
      BY <1>0, <2>1 DEF ChannelIds
    <3> QED  BY <2>1, <3>1, EmptyLayout
  <2> QED  BY <1>0, <2>1, <2>2, <2>3, Zenon DEF LayoutInv
<1> QED  BY <1>1, <1>2, <1>3, <1>4, <1>5, <1>6, WritersAreSound, Zenon DEF LayoutNext

\* A client that applies the events of every committed change has the guild's
\* layout, and that layout can be shown, for any number of requests and channels:
\* what the placement functions of channel_layout.go, the lock and the deletion of
\* the guild promise together.
THEOREM EventsRebuildTheLayout == LayoutSpec => []EventsRebuildLayout
<1>1. LayoutInv => EventsRebuildLayout
  BY Zenon DEF LayoutInv, Sound, EventsRebuildLayout
<1> QED  BY <1>1, LayoutInitial, LayoutStep, PTL DEF LayoutSpec

\* The types of the committed rows and of what the requests have written.
THEOREM LayoutTypeCorrect == LayoutSpec => []LayoutTypeOK
<1>1. LayoutInv => LayoutTypeOK
  <2> SUFFICES ASSUME LayoutInv PROVE LayoutTypeOK
    OBVIOUS
  <2>1. \A r \in RowMaps : AreRows(r)
    BY RowMapsAre, Zenon DEF AreRows
  <2>2. lastId \in 1..MaxChannels /\ MaxChannels \in Nat
    BY LayoutConstants, Zenon DEF LayoutInv, EditTypes, ChannelIds
  <2>3. AreRows(layout) /\ AreRows(replica)
    BY <2>2 DEF LayoutInv, Sound, AreRows, ChannelIds
  <2>4. ASSUME NEW t \in Editors
        PROVE  /\ editor[t].step \in {"idle", "waiting", "locked", "written"}
               /\ editor[t].expected \in 0..MaxLayout
               /\ AreRows(editor[t].draft.rows) /\ AreRows(editor[t].draft.told)
    <3>1. editor[t] \in Edits
      BY Zenon DEF LayoutInv, EditTypes
    <3>2. editor[t].draft \in Drafts
      BY <3>1, Zenon DEF Edits
    <3> QED  BY <2>1, <3>1, <3>2 DEF Edits, Drafts, EditSteps
  <2> QED  BY <2>3, <2>4 DEF LayoutInv, EditTypes, LayoutTypeOK
<1> QED  BY <1>1, LayoutInitial, LayoutStep, PTL DEF LayoutSpec
=============================================================================
