----------------------------- MODULE OutboxRelay ----------------------------
(***************************************************************************)
(* The relay that moves committed outbox rows to Kafka, composed with the  *)
(* transactions that write them (Outbox).                                  *)
(*                                                                         *)
(* A worker lists the shards with due rows, takes a shard's advisory lock, *)
(* publishes the head of every stream of the shard, deletes what Kafka     *)
(* acknowledged, puts off what it did not, and goes on until the shard is  *)
(* empty or its time slice is over.  The lock belongs to the worker's      *)
(* database session: when the session is lost PostgreSQL gives the lock    *)
(* away while the worker may still be waiting for Kafka.  A crash is such  *)
(* a loss: what was in flight lands or does not, and the worker starts     *)
(* again.  Workers stand for the goroutines of every relay process.        *)
(*                                                                         *)
(* An idle worker always comes back after PollInterval; the wakeups by     *)
(* NOTIFY and signalWake only make it come back sooner.                    *)
(***************************************************************************)
EXTENDS Outbox

CONSTANTS
  Shards,      \* virtual shards
  ShardID,     \* the shard of each stream
  Workers,     \* relay workers, of all processes
  BatchSize,   \* Config.BatchSize: heads published at once
  MaxLosses    \* bound: database sessions lost and transactions failed

ASSUME RelayConstants ==
  /\ ShardID \in [Streams -> Shards]
  /\ BatchSize \in Nat \ {0}
  /\ MaxLosses \in Nat
  /\ None \notin Workers

VARIABLES
  waiting,    \* rows of each stream whose next_attempt_at is not reached
  published,  \* events of each stream that reached the topic
  latest,     \* the event of each stream that reached the topic last
  holder,     \* worker whose session holds the shard's advisory lock
  pc,         \* where each worker is
  todo,       \* shards it has still to visit in this scan
  shard,      \* shards it is processing: none or one
  heads,      \* selected rows without a result yet
  delivered,  \* selected rows Kafka acknowledged
  undelivered,\* selected rows Kafka reported as failed
  session,    \* its database session is alive
  losses      \* sessions lost and transactions failed so far

rowVars == <<waiting, published, latest>>
workerVars == <<pc, todo, shard, heads, delivered, undelivered, session>>
relayVars == <<rowVars, holder, workerVars, losses>>
vars == <<writerVars, relayVars>>

WorkerPcs == {"idle", "scan", "drain", "publish", "record", "unlock", "failed"}
Events == Streams \X Nat

----------------------------------------------------------------------------

Init ==
  /\ WriterInit
  /\ waiting = [s \in Streams |-> {}]
  /\ published = [s \in Streams |-> {}]
  /\ latest = [s \in Streams |-> 0]
  /\ holder = [h \in Shards |-> None]
  /\ pc = [w \in Workers |-> "idle"]
  /\ todo = [w \in Workers |-> {}]
  /\ shard = [w \in Workers |-> {}]
  /\ heads = [w \in Workers |-> {}]
  /\ delivered = [w \in Workers |-> {}]
  /\ undelivered = [w \in Workers |-> {}]
  /\ session = [w \in Workers |-> TRUE]
  /\ losses = 0

\* ListReadyShards: shards with a row that is due, be it a head or not.
ReadyShards == {ShardID[s] : s \in {t \in Streams : rows[t] \ waiting[t] # {}}}

\* workOnce begins: a session is acquired and the shards are listed.
List(w) ==
  /\ pc[w] = "idle"
  /\ session' = [session EXCEPT ![w] = TRUE]
  /\ todo' = [todo EXCEPT ![w] = ReadyShards]
  /\ pc' = [pc EXCEPT ![w] = IF ReadyShards = {} THEN "idle" ELSE "scan"]
  /\ UNCHANGED <<writerVars, rowVars, holder, shard, heads, delivered,
                 undelivered, losses>>

Available_AnyHolder(h) == TRUE
Available(h) == holder[h] = None

\* pg_try_advisory_lock on the next shard; a shard that is taken is skipped.
tryLock(w) ==
  /\ pc[w] = "scan"
  /\ session[w]
  /\ \E h \in todo[w] :
       /\ todo' = [todo EXCEPT ![w] = @ \ {h}]
       /\ \/ /\ Available(h)
             /\ holder' = [holder EXCEPT ![h] = w]
             /\ shard' = [shard EXCEPT ![w] = {h}]
             /\ pc' = [pc EXCEPT ![w] = "drain"]
          \/ /\ ~Available(h)
             /\ pc' = [pc EXCEPT ![w] = IF todo[w] = {h} THEN "idle" ELSE "scan"]
             /\ UNCHANGED <<holder, shard>>
  /\ UNCHANGED <<writerVars, rowVars, heads, delivered, undelivered, session,
                 losses>>

\* The lowest row of each stream, if it is due.
Heads_SkipWaiting(s) ==
  {n \in rows[s] \ waiting[s] : \A m \in rows[s] \ waiting[s] : n <= m}
Heads(s) == {n \in rows[s] \ waiting[s] : \A m \in rows[s] : n <= m}

\* SelectHeads: LIMIT cuts the heads of the shard to a batch.
SelectHeads(w) ==
  /\ pc[w] = "drain"
  /\ session[w]
  /\ LET all == UNION {{s} \X Heads(s) : s \in {t \in Streams : ShardID[t] \in shard[w]}}
     IN  IF all = {}
         THEN /\ pc' = [pc EXCEPT ![w] = "unlock"]
              /\ UNCHANGED heads
         ELSE /\ pc' = [pc EXCEPT ![w] = "publish"]
              /\ \E batch \in SUBSET all :
                   /\ batch # {}
                   /\ batch = all \/ Cardinality(batch) = BatchSize
                   /\ Cardinality(batch) <= BatchSize
                   /\ heads' = [heads EXCEPT ![w] = batch]
  /\ UNCHANGED <<writerVars, rowVars, holder, todo, shard, delivered,
                 undelivered, session, losses>>

\* ProduceSync for one of the records: acknowledged; written but reported as
\* failed (the acknowledgement was lost); or not written.
Land(e) ==
  /\ published' = [published EXCEPT ![e[1]] = @ \cup {e[2]}]
  /\ latest' = [latest EXCEPT ![e[1]] = e[2]]

Resolve(w, e) ==
  /\ pc[w] = "publish"
  /\ e \in heads[w]
  /\ heads' = [heads EXCEPT ![w] = @ \ {e}]
  /\ pc' = [pc EXCEPT ![w] = IF heads[w] = {e} THEN "record" ELSE "publish"]
  /\ UNCHANGED <<writerVars, waiting, holder, todo, shard, session, losses>>

Acknowledged(w, e) ==
  /\ Resolve(w, e)
  /\ Land(e)
  /\ delivered' = [delivered EXCEPT ![w] = @ \cup {e}]
  /\ UNCHANGED undelivered

ReportedFailed(w, e) ==
  /\ Resolve(w, e)
  /\ Land(e) \/ UNCHANGED <<published, latest>>
  /\ undelivered' = [undelivered EXCEPT ![w] = @ \cup {e}]
  /\ UNCHANGED delivered

\* The rows of stream s among a set of events.
In(s, events) == {e[2] : e \in {f \in events : f[1] = s}}

\* DeleteDelivered, then UpdateFailed, in one transaction.
DeleteDelivered(w) == rows' = [s \in Streams |-> rows[s] \ In(s, delivered[w])]

UpdateFailed(w) ==
  waiting' = [s \in Streams |->
                (waiting[s] \cup In(s, undelivered[w])) \cap rows'[s]]

Record(w) ==
  /\ pc[w] = "record"
  /\ session[w]
  /\ DeleteDelivered(w)
  /\ UpdateFailed(w)
  /\ delivered' = [delivered EXCEPT ![w] = {}]
  /\ undelivered' = [undelivered EXCEPT ![w] = {}]
  /\ \E sliceIsOver \in BOOLEAN :
       pc' = [pc EXCEPT ![w] = IF sliceIsOver THEN "unlock" ELSE "drain"]
  /\ UNCHANGED <<lastSequence, lockVars, txVars, published, latest, holder,
                 todo, shard, heads, session, losses>>

\* The transaction fails and is rolled back; the session survives.
RecordFails(w) ==
  /\ pc[w] = "record"
  /\ session[w]
  /\ losses < MaxLosses
  /\ losses' = losses + 1
  /\ delivered' = [delivered EXCEPT ![w] = {}]
  /\ undelivered' = [undelivered EXCEPT ![w] = {}]
  /\ pc' = [pc EXCEPT ![w] = "failed"]
  /\ UNCHANGED <<writerVars, rowVars, holder, todo, shard, heads, session>>

\* The lock is released also when processShard returned an error.
Unlocked_OnlyWithoutError(w) == IF pc[w] = "failed" THEN {} ELSE shard[w]
Unlocked(w) == shard[w]

\* The scan goes on with the next shard, and ends after an error.
unlock(w) ==
  /\ pc[w] \in {"unlock", "failed"}
  /\ session[w]
  /\ holder' = [h \in Shards |-> IF h \in Unlocked(w) THEN None ELSE holder[h]]
  /\ shard' = [shard EXCEPT ![w] = {}]
  /\ LET over == pc[w] = "failed" \/ todo[w] = {}
     IN  /\ pc' = [pc EXCEPT ![w] = IF over THEN "idle" ELSE "scan"]
         /\ todo' = [todo EXCEPT ![w] = IF over THEN {} ELSE @]
  /\ UNCHANGED <<writerVars, rowVars, heads, delivered, undelivered, session,
                 losses>>

\* PostgreSQL ends the session, and with it the session's advisory lock.
LoseSession(w) ==
  /\ pc[w] # "idle"
  /\ session[w]
  /\ losses < MaxLosses
  /\ losses' = losses + 1
  /\ session' = [session EXCEPT ![w] = FALSE]
  /\ holder' = [h \in Shards |-> IF holder[h] = w THEN None ELSE holder[h]]
  /\ UNCHANGED <<writerVars, rowVars, pc, todo, shard, heads, delivered,
                 undelivered>>

\* The first statement after the loss fails, and workOnce returns its error.
SessionError(w) ==
  /\ ~session[w]
  /\ pc[w] \in {"scan", "drain", "record", "unlock", "failed"}
  /\ pc' = [pc EXCEPT ![w] = "idle"]
  /\ todo' = [todo EXCEPT ![w] = {}]
  /\ shard' = [shard EXCEPT ![w] = {}]
  /\ delivered' = [delivered EXCEPT ![w] = {}]
  /\ undelivered' = [undelivered EXCEPT ![w] = {}]
  /\ UNCHANGED <<writerVars, rowVars, holder, heads, session, losses>>

\* The backoff of a row ends.
Due(s) ==
  /\ \E n \in waiting[s] : waiting' = [waiting EXCEPT ![s] = @ \ {n}]
  /\ UNCHANGED <<writerVars, published, latest, holder, workerVars, losses>>

Statement(w) ==
  List(w) \/ tryLock(w) \/ SelectHeads(w) \/ Record(w) \/ unlock(w)
    \/ SessionError(w)

Answer(w) == \E e \in heads[w] : Acknowledged(w, e) \/ ReportedFailed(w, e)

Write(w) == WriterStep(w) /\ UNCHANGED relayVars

Next ==
  \/ \E w \in Writers : Write(w)
  \/ \E w \in Workers : Statement(w) \/ Answer(w) \/ RecordFails(w) \/ LoseSession(w)
  \/ \E s \in Streams : Due(s)

RelaySpec == Init /\ [][Next]_vars

(***************************************************************************)
(* A worker goes on, an answer of Kafka or its timeout arrives, a backoff  *)
(* ends, and Kafka does not refuse a stream for ever.  Transactions may    *)
(* stop anywhere; sessions are lost finitely often.                        *)
(***************************************************************************)
RelayFairness ==
  /\ \A w \in Workers : WF_vars(Statement(w)) /\ WF_vars(Answer(w))
  /\ \A s \in Streams : WF_vars(Due(s))
  /\ \A s \in Streams :
       SF_vars(\E w \in Workers : \E e \in heads[w] : e[1] = s /\ Acknowledged(w, e))

FairRelaySpec == RelaySpec /\ RelayFairness

----------------------------------------------------------------------------

\* Types of the transactions' and the relay's state; only rows that exist wait
\* for a retry.
TypeOK ==
  /\ WriterTypeOK
  /\ waiting \in [Streams -> SUBSET Nat]
  /\ \A s \in Streams : waiting[s] \subseteq rows[s]
  /\ published \in [Streams -> SUBSET Nat]
  /\ latest \in [Streams -> Nat]
  /\ holder \in [Shards -> Workers \cup {None}]
  /\ pc \in [Workers -> WorkerPcs]
  /\ todo \in [Workers -> SUBSET Shards]
  /\ shard \in [Workers -> SUBSET Shards]
  /\ heads \in [Workers -> SUBSET Events]
  /\ delivered \in [Workers -> SUBSET Events]
  /\ undelivered \in [Workers -> SUBSET Events]
  /\ session \in [Workers -> BOOLEAN]
  /\ losses \in 0..MaxLosses

(***************************************************************************)
(* A committed event is in the outbox or has reached the topic, whatever   *)
(* sessions, transactions and produce calls fail ("committed events are    *)
(* not lost while Kafka is unavailable").                                  *)
(***************************************************************************)
NoEventLost ==
  \A s \in Streams : 1..lastSequence[s] \subseteq rows[s] \cup published[s]

(***************************************************************************)
(* An event reaches the topic only after every earlier event of its stream *)
(* did, also when several workers publish rows of one stream because one   *)
(* of them lost its lock, and when a head is waiting for its retry.        *)
(***************************************************************************)
PublishedInOrder ==
  \A s \in Streams : \A n \in published[s] :
    n \in 1..lastSequence[s] /\ 1..n \subseteq published[s]

(***************************************************************************)
(* An event that reaches the topic is older than the one that reached it   *)
(* before only when the worker that produced it had lost its database      *)
(* session (records "use the channel ID as the Kafka key to preserve       *)
(* order").  Failed produce calls, failed transactions and other workers'  *)
(* losses repeat the latest event of a stream at most, because tryLock     *)
(* gives a shard to one session.  A worker without its session has lost    *)
(* the lock, and what it is still producing may land behind newer events.  *)
(***************************************************************************)
NoStaleRedelivery ==
  [][\A s \in Streams :
       \/ latest[s] <= latest'[s]
       \/ \E w \in Workers : ~session[w] /\ heads'[w] # heads[w]]_vars

\* What the consumers see of the outbox and its relay.
Log == INSTANCE OrderedLog WITH accepted <- lastSequence

\* The outbox and its relay implement the log they promise (OrderedLog):
\* events of a stream reach the topic in order, each at least once.
ImplementsOrderedLog == Log!Spec

\* Every stream with rows is eventually emptied: retries end in a delivery.
OutboxDrains ==
  \A s \in Streams : rows[s] # {} ~> rows[s] = {}
=============================================================================
