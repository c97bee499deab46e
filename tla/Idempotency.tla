---------------------------- MODULE Idempotency ----------------------------
(***************************************************************************)
(* Creation requests that carry one idempotency key: CreateMessage, the    *)
(* Guild creations and CreateUpload share the protocol.  A request's       *)
(* transaction claims the key and writes the resource, its mentions and    *)
(* its events, or finds the claim of an earlier request and answers with   *)
(* that request's resource.  Claims are rows of PostgreSQL under READ      *)
(* COMMITTED: a statement sees what was committed when it started and      *)
(* waits for a transaction that holds the row it wants to change.          *)
(* Every request proposes a resource ID of its own; the model uses the     *)
(* request itself.  Keys do not interact, so one is followed.              *)
(***************************************************************************)
EXTENDS Naturals, FiniteSets

CONSTANTS
  Creators,      \* requests that carry the key
  Fingerprints,  \* request hashes
  NoClaim,       \* no row for the key
  KeyTTL,        \* retention of a claim
  MaxNow,        \* bound on the clock
  MaxClaimTries  \* turns of the claim loop

Claims == [id : Creators, hash : Fingerprints, at : Nat, expires : Nat]

ASSUME KeyConstants ==
  /\ KeyTTL \in Nat /\ MaxNow \in Nat /\ MaxClaimTries \in Nat \ {0}
  /\ NoClaim \notin Claims

VARIABLES
  creator,    \* per request: its step, clock reading, hash, turn and answer
  row,        \* the committed row of the key
  deleting,   \* requests whose open transaction deleted the committed row
  inserted,   \* requests whose open transaction inserted a row
  resources,  \* per request: the resource it created
  issued,     \* every claim ever committed
  now         \* the services' clock

keyVars == <<creator, row, deleting, inserted, resources, issued, now>>

Steps == {"new", "expire", "claim", "lookup", "write", "answered", "failed"}

ClaimOf(c) ==
  [id |-> c, hash |-> creator[c].hash, at |-> creator[c].now, expires |-> creator[c].now + KeyTTL]

KeyTypeOK ==
  /\ creator \in [Creators -> [step : Steps, now : Nat, hash : Fingerprints,
                               tries : Nat, answer : Creators \union {NoClaim}]]
  /\ row \in Claims \union {NoClaim}
  /\ deleting \in SUBSET Creators /\ inserted \in SUBSET Creators
  /\ resources \in [Creators -> {"none", "live", "deleted"}]
  /\ issued \in SUBSET Claims
  /\ now \in Nat

KeyInit ==
  /\ creator \in [Creators -> [step : {"new"}, now : {0}, hash : Fingerprints,
                               tries : {0}, answer : {NoClaim}]]
  /\ row = NoClaim
  /\ deleting = {} /\ inserted = {}
  /\ resources = [c \in Creators |-> "none"]
  /\ issued = {}
  /\ now = 0

(***************************************************************************)
(* Operators                                                               *)
(***************************************************************************)

AtStep(c, s) == creator[c].step = s

GoTo(c, s) == creator' = [creator EXCEPT ![c].step = s]

\* Another turn of the claim loop, or ErrIdempotencyContention after the last.
NextTurn(c) ==
  IF creator[c].tries + 1 = MaxClaimTries
    THEN GoTo(c, "failed")
    ELSE creator' = [creator EXCEPT ![c].step = "expire", ![c].tries = @ + 1]

\* The row c's own transaction sees: its delete is visible to itself alone.
Seen(c) == IF c \in deleting THEN NoClaim ELSE row

(***************************************************************************)
(* Actions                                                                 *)
(***************************************************************************)

\* A request reads the clock and opens its transaction.
BeginCreate(c) ==
  /\ AtStep(c, "new")
  /\ creator' = [creator EXCEPT ![c].step = "expire", ![c].now = now]
  /\ UNCHANGED <<row, deleting, inserted, resources, issued, now>>

\* Fault: a claim is removed without regard to its expiry.
DeleteAnyClaim(c) ==
  /\ AtStep(c, "expire")
  /\ IF Seen(c) # NoClaim
       THEN deleting \subseteq {c} /\ deleting' = {c}
       ELSE UNCHANGED deleting
  /\ GoTo(c, "claim")
  /\ UNCHANGED <<row, inserted, resources, issued, now>>

\* DELETE of the key's row if it expired by the request's clock.  It waits for
\* a transaction that already deleted that row.
DeleteExpired(c) ==
  /\ AtStep(c, "expire")
  /\ IF Seen(c) # NoClaim /\ row.expires <= creator[c].now
       THEN deleting \subseteq {c} /\ deleting' = {c}
       ELSE UNCHANGED deleting
  /\ GoTo(c, "claim")
  /\ UNCHANGED <<row, inserted, resources, issued, now>>

\* INSERT ... ON CONFLICT DO NOTHING.  It waits for a transaction that inserted
\* or deleted the key's row, and inserts nothing when a committed row remains.
Claim(c) ==
  /\ AtStep(c, "claim")
  /\ inserted \subseteq {c} /\ deleting \subseteq {c}
  /\ IF Seen(c) = NoClaim
       THEN inserted' = inserted \union {c} /\ GoTo(c, "write")
       ELSE UNCHANGED inserted /\ GoTo(c, "lookup")
  /\ UNCHANGED <<row, deleting, resources, issued, now>>

\* The read after a conflict: the row may have been deleted or have expired,
\* which takes another turn.  A different fingerprint refuses the request; the
\* same one answers with the resource of the claim, or NotFound if it is gone.
Lookup(c) ==
  /\ AtStep(c, "lookup")
  /\ IF row = NoClaim THEN NextTurn(c)
     ELSE IF row.expires <= creator[c].now THEN NextTurn(c)
     ELSE IF row.hash # creator[c].hash \/ resources[row.id] # "live" THEN GoTo(c, "failed")
     ELSE creator' = [creator EXCEPT ![c].step = "answered", ![c].answer = row.id]
  /\ UNCHANGED <<row, deleting, inserted, resources, issued, now>>

\* The resource and its events are written and the transaction commits with
\* its claim.
CreateResource(c) ==
  /\ AtStep(c, "write")
  /\ resources' = [resources EXCEPT ![c] = "live"]
  /\ row' = ClaimOf(c) /\ issued' = issued \union {ClaimOf(c)}
  /\ inserted' = inserted \ {c} /\ deleting' = deleting \ {c}
  /\ creator' = [creator EXCEPT ![c].step = "answered", ![c].answer = c]
  /\ UNCHANGED now

\* A statement fails, a quota refuses the resource or the caller goes away: the
\* transaction rolls back.
RollBack(c) ==
  /\ \E s \in {"expire", "claim", "lookup", "write"} : AtStep(c, s)
  /\ GoTo(c, "failed")
  /\ inserted' = inserted \ {c} /\ deleting' = deleting \ {c}
  /\ UNCHANGED <<row, resources, issued, now>>

\* The resource is deleted; its claim stays.
DeleteResource(c) ==
  /\ resources[c] = "live"
  /\ resources' = [resources EXCEPT ![c] = "deleted"]
  /\ UNCHANGED <<creator, row, deleting, inserted, issued, now>>

TimePasses ==
  /\ now < MaxNow
  /\ now' = now + 1
  /\ UNCHANGED <<creator, row, deleting, inserted, resources, issued>>

KeyNext ==
  \/ TimePasses
  \/ \E c \in Creators :
       \/ BeginCreate(c) \/ DeleteExpired(c) \/ Claim(c) \/ Lookup(c)
       \/ CreateResource(c) \/ RollBack(c) \/ DeleteResource(c)

KeySpec == KeyInit /\ [][KeyNext]_keyVars

(***************************************************************************)
(* Properties                                                              *)
(***************************************************************************)

\* While a claim is retained the key creates no second resource, and whoever is
\* answered gets the resource of a claim with the request's own fingerprint
\* (ClaimMessageIdempotency and CreateMessage; ClaimGuildIdempotency,
\* ClaimMediaIdempotency), whatever requests overlap, roll back or retry.  A
\* retained key names a resource that was written, so that no retry is refused
\* for one that never was.
KeyCreatesOnce ==
  /\ \A x, y \in issued : x # y => x.expires <= y.at \/ y.expires <= x.at
  /\ \A c \in Creators : resources[c] # "none" =>
       \E x \in issued : x.id = c /\ x.hash = creator[c].hash
  /\ \A c \in Creators : AtStep(c, "answered") =>
       \E x \in issued : x.id = creator[c].answer /\ x.hash = creator[c].hash
  /\ row # NoClaim => resources[row.id] # "none"

=============================================================================
