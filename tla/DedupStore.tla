------------------------------ MODULE DedupStore ------------------------------
(***************************************************************************)
(* One shard of the duplicate filter of a Session node (dedup.go): a ring  *)
(* of generations of entries, each with its expiry.  checkAndAdd looks for *)
(* the key in every generation in use and adds it to the head; rotateAll   *)
(* moves the head to the oldest generation and empties it, unless an entry *)
(* there has not expired.  A shard is only used under its lock, so every   *)
(* call is one step.  remembered is the filter the ring stands for: the    *)
(* expiry of each key since it was last added, 0 if it was never added or  *)
(* was removed.                                                            *)
(***************************************************************************)
EXTENDS Integers

CONSTANTS Keys,
          NumGens,   \* dedupNumGens
          DedupTTL,
          MaxClock   \* bound of the clock

ASSUME DedupConstants ==
    /\ NumGens \in Nat \ {0}
    /\ DedupTTL \in Nat \ {0}
    /\ MaxClock \in Nat

VARIABLES
    entries,      \* gens[i].entries: the expiry of each key, 0 for none
    maxExpiresAt, \* gens[i].maxExpiresAt
    head, inUse,  \* shard.head, shard.len
    clock,
    remembered

dedupVars == <<entries, maxExpiresAt, head, inUse, clock, remembered>>

Gens == 0 .. NumGens - 1

(* The generation i steps behind the head. *)
Slot(i) == IF i <= head THEN head - i ELSE head - i + NumGens

Window == {Slot(i) : i \in 0 .. inUse - 1}

Found(key) == \E gen \in Window : clock < entries[gen][key]

DedupInit ==
    /\ entries = [gen \in Gens |-> [key \in Keys |-> 0]]
    /\ maxExpiresAt = [gen \in Gens |-> 0]
    /\ head = 0 /\ inUse = 1
    /\ clock = 0
    /\ remembered = [key \in Keys |-> 0]

(* A key that is not found is added; one that is found leaves the ring as    *)
(* it is.                                                                    *)
CheckAndAdd(key) ==
    /\ ~Found(key)
    /\ LET expiresAt == clock + DedupTTL
       IN  /\ entries' = [entries EXCEPT ![head] = [@ EXCEPT ![key] = expiresAt]]
           /\ maxExpiresAt' = [maxExpiresAt EXCEPT ![head] =
                                 IF @ > expiresAt THEN @ ELSE expiresAt]
           /\ remembered' = [remembered EXCEPT ![key] = expiresAt]
    /\ UNCHANGED <<head, inUse, clock>>

Remove(key) ==
    /\ entries' = [gen \in Gens |->
                     IF gen \in Window THEN [entries[gen] EXCEPT ![key] = 0] ELSE entries[gen]]
    /\ remembered' = [remembered EXCEPT ![key] = 0]
    /\ UNCHANGED <<maxExpiresAt, head, inUse, clock>>

(* Fault: the oldest generation is dropped whatever it holds.                *)
RotateAnyway ==
    /\ LET next == IF head = NumGens - 1 THEN 0 ELSE head + 1
       IN  /\ head' = next
           /\ entries' = [entries EXCEPT ![next] = [key \in Keys |-> 0]]
           /\ maxExpiresAt' = [maxExpiresAt EXCEPT ![next] = 0]
    /\ inUse' = IF inUse < NumGens THEN inUse + 1 ELSE inUse
    /\ UNCHANGED <<clock, remembered>>

(* The ticker may come late and rotations may follow each other closely.     *)
RotateAll ==
    /\ LET next == IF head = NumGens - 1 THEN 0 ELSE head + 1
       IN  /\ ~(inUse = NumGens /\ maxExpiresAt[next] > clock)
           /\ head' = next
           /\ entries' = [entries EXCEPT ![next] = [key \in Keys |-> 0]]
           /\ maxExpiresAt' = [maxExpiresAt EXCEPT ![next] = 0]
    /\ inUse' = IF inUse < NumGens THEN inUse + 1 ELSE inUse
    /\ UNCHANGED <<clock, remembered>>

ClockTicks ==
    /\ clock < MaxClock
    /\ clock' = clock + 1
    /\ UNCHANGED <<entries, maxExpiresAt, head, inUse, remembered>>

DedupNext ==
    \/ \E key \in Keys : CheckAndAdd(key) \/ Remove(key)
    \/ RotateAll
    \/ ClockTicks

DedupSpec == DedupInit /\ [][DedupNext]_dedupVars

DedupTypeOK ==
    /\ entries \in [Gens -> [Keys -> Nat]]
    /\ maxExpiresAt \in [Gens -> Nat]
    /\ head \in Gens /\ inUse \in 1 .. NumGens
    /\ clock \in Nat
    /\ remembered \in [Keys -> Nat]

(***************************************************************************)
(* The ring is exactly the filter it stands for, however its rotations     *)
(* fall: checkAndAdd finds a key for as long as the last addition of it    *)
(* has neither expired nor been removed, and no longer.  So a redelivered  *)
(* event is dropped for dedupTTL and no event is dropped that was not      *)
(* accepted within dedupTTL (dedup.go).                                    *)
(***************************************************************************)
FilterIsExact == \A key \in Keys : Found(key) <=> clock < remembered[key]
===============================================================================
