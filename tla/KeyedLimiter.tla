----------------------------- MODULE KeyedLimiter -----------------------------
(***************************************************************************)
(* The keyed concurrency limiter (pkg/concurrencylimit): a semaphore per   *)
(* key that exists while somebody holds or waits for it.  The map and the  *)
(* reference counts are guarded by mu; a semaphore is acquired and         *)
(* released outside of it.  An entry nobody refers to any more is garbage, *)
(* and its name is used again.                                             *)
(***************************************************************************)
EXTENDS Integers, FiniteSets, Sequences

CONSTANTS Holders,     \* goroutines that call Acquire
          LimitKeys,
          Capacity     \* KeyedLimiter.capacity

ASSUME KeyedConstants == IsFiniteSet(Holders) /\ Capacity \in Nat \ {0}

VARIABLES
    holder,   \* each goroutine: its step, key, entry and weight
    entryOf,  \* l.entries, 0 for none
    refs,     \* refs of each entry
    waiters   \* of the semaphore of each entry, in order of arrival

keyedVars == <<holder, entryOf, refs, waiters>>

EntryIds == 1 .. Cardinality(Holders)

Away == [step |-> "idle", key |-> CHOOSE k \in LimitKeys : TRUE, entry |-> 0, weight |-> 0]

Garbage == {e \in EntryIds : /\ \A h \in Holders : holder[h].entry # e
                             /\ \A k \in LimitKeys : entryOf[k] # e}

(* The weight that goroutines hold, counted unit by unit. *)
WeightHeld(hs) ==
    Cardinality({x \in hs \X (1 .. Capacity) :
                   holder[x[1]].step = "holding" /\ x[2] <= holder[x[1]].weight})

(* reference. *)
Reference(h, k, w) ==
    LET e == IF entryOf[k] # 0 THEN entryOf[k] ELSE CHOOSE g \in Garbage : TRUE
    IN  /\ holder[h].step = "idle"
        /\ holder' = [holder EXCEPT ![h] =
                        [step |-> "referenced", key |-> k, entry |-> e, weight |-> w]]
        /\ refs' = [refs EXCEPT ![e] = IF entryOf[k] # 0 THEN @ + 1 ELSE 1]
        /\ entryOf' = [entryOf EXCEPT ![k] = e]
        /\ UNCHANGED waiters

(* sem.Acquire: behind those who wait already. *)
Await(h) ==
    /\ holder[h].step = "referenced"
    /\ holder' = [holder EXCEPT ![h].step = "waiting"]
    /\ waiters' = [waiters EXCEPT ![holder[h].entry] = Append(@, h)]
    /\ UNCHANGED <<entryOf, refs>>

Granted(h) ==
    LET e == holder[h].entry
    IN  /\ holder[h].step = "waiting" /\ Head(waiters[e]) = h
        /\ WeightHeld({g \in Holders : holder[g].entry = e}) + holder[h].weight <= Capacity
        /\ holder' = [holder EXCEPT ![h].step = "holding"]
        /\ waiters' = [waiters EXCEPT ![e] = Tail(@)]
        /\ UNCHANGED <<entryOf, refs>>

(* The context ended while waiting. *)
CancelAcquire(h) ==
    /\ holder[h].step = "waiting"
    /\ holder' = [holder EXCEPT ![h].step = "leaving"]
    /\ waiters' = [waiters EXCEPT ![holder[h].entry] = SelectSeq(@, LAMBDA g : g # h)]
    /\ UNCHANGED <<entryOf, refs>>

(* The release function: the semaphore first, then the reference. *)
ReleaseSemaphore(h) ==
    /\ holder[h].step = "holding"
    /\ holder' = [holder EXCEPT ![h].step = "leaving"]
    /\ UNCHANGED <<entryOf, refs, waiters>>

(* Fault: whoever leaves takes the entry along. *)
UnreferenceAndDelete(h) ==
    LET e == holder[h].entry
    IN  /\ holder[h].step = "leaving"
        /\ refs' = [refs EXCEPT ![e] = @ - 1]
        /\ entryOf' = [entryOf EXCEPT ![holder[h].key] = IF @ = e THEN 0 ELSE @]
        /\ holder' = [holder EXCEPT ![h] = Away]
        /\ UNCHANGED waiters

(* unreference: the last one deletes the entry. *)
Unreference(h) ==
    LET e == holder[h].entry
    IN  /\ holder[h].step = "leaving"
        /\ refs' = [refs EXCEPT ![e] = @ - 1]
        /\ entryOf' = [entryOf EXCEPT ![holder[h].key] =
                         IF @ = e /\ refs[e] = 1 THEN 0 ELSE @]
        /\ holder' = [holder EXCEPT ![h] = Away]
        /\ UNCHANGED waiters

KeyedInit ==
    /\ holder = [h \in Holders |-> Away]
    /\ entryOf = [k \in LimitKeys |-> 0]
    /\ refs = [e \in EntryIds |-> 0]
    /\ waiters = [e \in EntryIds |-> <<>>]

KeyedNext ==
    \E h \in Holders :
        \/ \E k \in LimitKeys, w \in 1 .. Capacity : Reference(h, k, w)
        \/ Await(h) \/ Granted(h) \/ CancelAcquire(h)
        \/ ReleaseSemaphore(h) \/ Unreference(h)

KeyedSpec == KeyedInit /\ [][KeyedNext]_keyedVars

-------------------------------------------------------------------------------
(* The capacity holds per key and not just per semaphore, and the map keeps  *)
(* an entry exactly while somebody uses it: creating and deleting entries    *)
(* (keyed.go, reference and unreference) never leaves two semaphores of one  *)
(* key in use, nor an unused one behind.                                     *)
KeyCapacityKept ==
    \A k \in LimitKeys :
        LET users == {h \in Holders : holder[h].step # "idle" /\ holder[h].key = k}
        IN  WeightHeld(users) <= Capacity /\ (entryOf[k] = 0 <=> users = {})
===============================================================================
