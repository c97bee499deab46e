--------------------------- MODULE ContentProofs ---------------------------
(***************************************************************************)
(* The transactions that own content, for any number of requests: claims   *)
(* of an idempotency key, the membership of a guild, relationships, read   *)
(* states and mentions.  Each is proved by itself.                         *)
(***************************************************************************)
EXTENDS Idempotency, Membership, Relationships, ReadStates, Mentions,
        WellFoundedInduction, TLAPS

(***************************************************************************)
(* Idempotency keys.  What a key creates is decided by which transaction   *)
(* may replace the row of its claim.  Only one holds it at a time          *)
(* (KeyHolders), a claim is only deleted after its retention by the clock  *)
(* of the request that deletes it (DeletesExpired), and the claims of the  *)
(* past ended before the row began (RowIsLatest).                          *)
(***************************************************************************)

KeyHolders ==
  \A c \in Creators :
    /\ AtStep(c, "write") => inserted = {c} /\ (row = NoClaim \/ deleting = {c})
    /\ c \in deleting => deleting = {c} /\ (AtStep(c, "claim") \/ AtStep(c, "write"))
    /\ c \in inserted => AtStep(c, "write")

DeletesExpired ==
  \A c \in deleting : row # NoClaim /\ row.expires <= creator[c].now

RowIsLatest ==
  /\ row = NoClaim => issued = {}
  /\ row # NoClaim => row \in issued /\ \A x \in issued : x = row \/ x.expires <= row.at
  /\ \A x \in issued : x.at <= x.expires

KeyInv == KeyTypeOK /\ KeyHolders /\ DeletesExpired /\ RowIsLatest /\ KeyCreatesOnce

\* Requests as the model types them.
CreatorRecords ==
  [step : Steps, now : Nat, hash : Fingerprints, tries : Nat,
   answer : Creators \union {NoClaim}]

\* The typing of the variables, one fact for each.
LEMMA KeyTyped ==
  ASSUME KeyInv
  PROVE  /\ creator \in [Creators -> CreatorRecords]
         /\ row \in Claims \union {NoClaim}
         /\ deleting \in SUBSET Creators /\ inserted \in SUBSET Creators
         /\ resources \in [Creators -> {"none", "live", "deleted"}]
         /\ issued \in SUBSET Claims /\ now \in Nat
BY Zenon DEF KeyInv, KeyTypeOK, CreatorRecords

\* A request that moves to a step without the row, keeping its clock and its
\* hash, disturbs no claim.
LEMMA CreatorMoves ==
  ASSUME KeyInv, NEW c \in Creators, NEW new \in CreatorRecords,
         creator' = [creator EXCEPT ![c] = new],
         UNCHANGED <<row, resources, issued>>, now' \in Nat,
         deleting' = deleting \ {c}, inserted' = inserted \ {c},
         new.step # "write", new.hash = creator[c].hash,
         new.step = "answered" =>
           \E x \in issued : x.id = new.answer /\ x.hash = new.hash
  PROVE  KeyInv'
<1>1. /\ creator'[c] = new /\ creator' \in [Creators -> CreatorRecords]
      /\ \A d \in Creators : d # c => creator'[d] = creator[d]
  BY KeyTyped, Zenon
<1>2. deleting' \in SUBSET Creators /\ inserted' \in SUBSET Creators
  BY KeyTyped, Zenon
<1>3. KeyTypeOK'
  BY <1>1, <1>2, Zenon DEF KeyInv, KeyTypeOK, CreatorRecords
<1>4. KeyHolders'
  <2> SUFFICES ASSUME NEW d \in Creators
               PROVE  /\ AtStep(d, "write")' =>
                           inserted' = {d} /\ (row' = NoClaim \/ deleting' = {d})
                      /\ d \in deleting' =>
                           deleting' = {d} /\ (AtStep(d, "claim")' \/ AtStep(d, "write")')
                      /\ d \in inserted' => AtStep(d, "write")'
    BY Zenon DEF KeyHolders
  <2>1. CASE d = c
    BY <2>1, <1>1, Zenon DEF AtStep
  <2>2. CASE d # c
    <3>1. creator'[d] = creator[d]
      BY <2>2, <1>1, Zenon
    <3> QED  BY <2>2, <3>1, Zenon DEF KeyInv, KeyHolders, AtStep
  <2> QED  BY <2>1, <2>2, Zenon
<1>5. DeletesExpired'
  BY <1>1, KeyTyped, Zenon DEF KeyInv, DeletesExpired
<1>6. RowIsLatest'
  BY Zenon DEF KeyInv, RowIsLatest
<1>7. KeyCreatesOnce'
  <2>1. \A d \in Creators : creator'[d].hash = creator[d].hash
    BY <1>1, Zenon
  <2>2. \A d \in Creators : resources[d] # "none" =>
          \E x \in issued : x.id = d /\ x.hash = creator'[d].hash
    BY <2>1 DEF KeyInv, KeyCreatesOnce
  <2>3. \A d \in Creators : creator'[d].step = "answered" =>
          \E x \in issued : x.id = creator'[d].answer /\ x.hash = creator'[d].hash
    BY <1>1, Zenon DEF KeyInv, KeyCreatesOnce, AtStep
  <2> QED  BY <2>2, <2>3, Zenon DEF KeyInv, KeyCreatesOnce, AtStep
<1> QED  BY <1>3, <1>4, <1>5, <1>6, <1>7, Zenon DEF KeyInv

\* A request that is not between its DELETE and its commit holds nothing.
LEMMA HoldsNothing ==
  ASSUME KeyInv, NEW c \in Creators, ~AtStep(c, "claim"), ~AtStep(c, "write")
  PROVE  deleting = deleting \ {c} /\ inserted = inserted \ {c}
BY KeyTyped, Zenon DEF KeyInv, KeyHolders

\* GoTo as a replacement of the request's record.
LEMMA GoToMoves ==
  ASSUME KeyInv, NEW c \in Creators, NEW s \in Steps, GoTo(c, s)
  PROVE  LET new == [creator[c] EXCEPT !.step = s]
         IN  /\ new \in CreatorRecords /\ new.step = s /\ new.hash = creator[c].hash
             /\ new.now = creator[c].now /\ new.answer = creator[c].answer
             /\ creator' = [creator EXCEPT ![c] = new]
<1>1. creator[c] \in CreatorRecords /\ creator \in [Creators -> CreatorRecords]
  BY KeyTyped, Zenon
<1> DEFINE new == [creator[c] EXCEPT !.step = s]
<1>2. creator' = [creator EXCEPT ![c] = new]
  BY <1>1, Zenon DEF GoTo
<1>3. /\ new \in CreatorRecords /\ new.step = s /\ new.hash = creator[c].hash
      /\ new.now = creator[c].now /\ new.answer = creator[c].answer
  BY <1>1, Zenon DEF CreatorRecords
<1> QED  BY <1>2, <1>3, Zenon

\* The same for steps after which the request holds nothing.
LEMMA GoToKeeps ==
  ASSUME KeyInv, NEW c \in Creators, NEW s \in {"claim", "lookup", "failed"}, GoTo(c, s),
         UNCHANGED <<row, resources, issued, now>>,
         deleting' = deleting \ {c}, inserted' = inserted \ {c}
  PROVE  KeyInv'
<1> DEFINE new == [creator[c] EXCEPT !.step = s]
<1>1. s \in Steps
  BY Zenon DEF Steps
<1>2. /\ new \in CreatorRecords /\ new.step = s /\ new.hash = creator[c].hash
      /\ creator' = [creator EXCEPT ![c] = new]
  BY <1>1, GoToMoves, Zenon
<1>3. now' \in Nat
  BY KeyTyped, Zenon
<1> HIDE DEF new
<1> QED  BY <1>2, <1>3, CreatorMoves, Zenon

\* A request that opens its transaction (CreateMessage and the other creations).
LEMMA BeginCreateKeeps ==
  ASSUME KeyInv, NEW c \in Creators, BeginCreate(c)
  PROVE  KeyInv'
<1> DEFINE new == [creator[c] EXCEPT !.step = "expire", !.now = now]
<1>1. /\ AtStep(c, "new") /\ creator' = [creator EXCEPT ![c].step = "expire", ![c].now = now]
      /\ UNCHANGED <<row, deleting, inserted, resources, issued, now>>
  BY Zenon DEF BeginCreate
<1>2. creator[c] \in CreatorRecords /\ creator \in [Creators -> CreatorRecords] /\ now \in Nat
  BY KeyTyped, Zenon
<1>3. "expire" \in Steps
  BY Zenon DEF Steps
<1>4. creator' = [creator EXCEPT ![c] = new]
  BY <1>1, <1>2, Zenon
<1>5. new \in CreatorRecords /\ new.step = "expire" /\ new.hash = creator[c].hash
  BY <1>2, <1>3, Zenon DEF CreatorRecords
<1>6. deleting' = deleting \ {c} /\ inserted' = inserted \ {c}
  BY <1>1, HoldsNothing, Zenon DEF AtStep
<1> HIDE DEF new
<1> QED  BY <1>1, <1>2, <1>4, <1>5, <1>6, CreatorMoves, Zenon

\* The row a DELETE takes has expired by the clock of its request
\* (DeleteExpiredMessageIdempotency and its like).
LEMMA DeleteExpiredKeeps ==
  ASSUME KeyInv, NEW c \in Creators, DeleteExpired(c)
  PROVE  KeyInv'
<1>1. /\ AtStep(c, "expire") /\ GoTo(c, "claim")
      /\ UNCHANGED <<row, inserted, resources, issued, now>>
  BY Zenon DEF DeleteExpired
<1>2. deleting = deleting \ {c} /\ inserted = inserted \ {c}
  BY <1>1, HoldsNothing, Zenon DEF AtStep
<1>3. CASE UNCHANGED deleting
  BY <1>1, <1>2, <1>3, GoToKeeps, Zenon
<1>4. CASE /\ Seen(c) # NoClaim /\ row.expires <= creator[c].now
           /\ deleting \subseteq {c} /\ deleting' = {c}
  <2> DEFINE new == [creator[c] EXCEPT !.step = "claim"]
  <2>1. "claim" \in Steps
    BY Zenon DEF Steps
  <2>2. /\ new \in CreatorRecords /\ new.step = "claim" /\ new.hash = creator[c].hash
        /\ new.now = creator[c].now
        /\ creator' = [creator EXCEPT ![c] = new]
    BY <1>1, <2>1, GoToMoves, Zenon
  <2> HIDE DEF new
  <2>3. /\ creator'[c] = new /\ creator' \in [Creators -> CreatorRecords]
        /\ \A d \in Creators : d # c => creator'[d] = creator[d]
    BY <2>2, KeyTyped, Zenon
  <2>4. row # NoClaim
    BY <1>2, <1>4, Zenon DEF Seen
  <2>5. \A d \in Creators : ~AtStep(d, "write")
    BY <1>1, <1>2, <1>4, <2>4, Zenon DEF KeyInv, KeyHolders, AtStep
  <2>6. KeyTypeOK'
    BY <1>1, <1>4, <2>3, Zenon DEF KeyInv, KeyTypeOK, CreatorRecords
  <2>7. KeyHolders'
    <3>1. \A d \in Creators : ~AtStep(d, "write")'
      BY <2>2, <2>3, <2>5, Zenon DEF AtStep
    <3>2. inserted = {}
      BY <2>5, KeyTyped, Zenon DEF KeyInv, KeyHolders
    <3>3. AtStep(c, "claim")'
      BY <2>2, <2>3, Zenon DEF AtStep
    <3> QED  BY <1>1, <1>4, <3>1, <3>2, <3>3, Zenon DEF KeyHolders
  <2>8. DeletesExpired'
    BY <1>1, <1>4, <2>2, <2>3, <2>4, Zenon DEF DeletesExpired
  <2>9. RowIsLatest'
    BY <1>1, Zenon DEF KeyInv, RowIsLatest
  <2>10. KeyCreatesOnce'
    <3>1. \A d \in Creators : creator'[d].hash = creator[d].hash
      BY <2>2, <2>3, Zenon
    <3>2. \A d \in Creators : creator'[d].step = "answered" => creator'[d] = creator[d]
      BY <2>2, <2>3, Zenon
    <3> QED  BY <1>1, <3>1, <3>2 DEF KeyInv, KeyCreatesOnce, AtStep
  <2> QED  BY <2>6, <2>7, <2>8, <2>9, <2>10, Zenon DEF KeyInv
<1> QED  BY <1>3, <1>4, Zenon DEF DeleteExpired

\* The INSERT that succeeds is the only one, and no other request can delete
\* the row meanwhile (ClaimMessageIdempotency and its like).
LEMMA ClaimKeeps ==
  ASSUME KeyInv, NEW c \in Creators, Claim(c)
  PROVE  KeyInv'
<1>1. /\ AtStep(c, "claim") /\ inserted \subseteq {c} /\ deleting \subseteq {c}
      /\ UNCHANGED <<row, deleting, resources, issued, now>>
  BY Zenon DEF Claim
<1>2. CASE Seen(c) # NoClaim
  <2>1. c \notin deleting
    BY <1>2, Zenon DEF Seen
  <2>2. c \notin inserted
    BY <1>1, Zenon DEF KeyInv, KeyHolders, AtStep
  <2> QED  BY <1>1, <1>2, <2>1, <2>2, GoToKeeps, Zenon DEF Claim
<1>3. CASE Seen(c) = NoClaim
  <2> DEFINE new == [creator[c] EXCEPT !.step = "write"]
  <2>1. "write" \in Steps
    BY Zenon DEF Steps
  <2>2. /\ new \in CreatorRecords /\ new.step = "write" /\ new.hash = creator[c].hash
        /\ new.now = creator[c].now
        /\ creator' = [creator EXCEPT ![c] = new]
    BY <1>3, <2>1, GoToMoves, Zenon DEF Claim
  <2> HIDE DEF new
  <2>3. /\ creator'[c] = new /\ creator' \in [Creators -> CreatorRecords]
        /\ \A d \in Creators : d # c => creator'[d] = creator[d]
    BY <2>2, KeyTyped, Zenon
  <2>4. inserted' = {c}
    BY <1>1, <1>3, Zenon DEF Claim
  <2>5. row = NoClaim \/ deleting = {c}
    BY <1>1, <1>3, Zenon DEF Seen
  <2>6. KeyTypeOK'
    BY <1>1, <2>3, <2>4, Zenon DEF KeyInv, KeyTypeOK, CreatorRecords
  <2>7. KeyHolders'
    <3>1. \A d \in Creators : d # c => ~AtStep(d, "write")
      BY <1>1, Zenon DEF KeyInv, KeyHolders
    <3>2. \A d \in Creators : d # c => ~AtStep(d, "write")'
      BY <2>3, <3>1, Zenon DEF AtStep
    <3>3. AtStep(c, "write")'
      BY <2>2, <2>3, Zenon DEF AtStep
    <3>4. c \in deleting => deleting = {c}
      BY <1>1, Zenon
    <3> QED  BY <1>1, <2>4, <2>5, <3>2, <3>3, <3>4, Zenon DEF KeyHolders
  <2>8. DeletesExpired'
    BY <1>1, <2>2, <2>3, Zenon DEF KeyInv, DeletesExpired
  <2>9. RowIsLatest'
    BY <1>1, Zenon DEF KeyInv, RowIsLatest
  <2>10. KeyCreatesOnce'
    <3>1. \A d \in Creators : creator'[d].hash = creator[d].hash
      BY <2>2, <2>3, Zenon
    <3>2. \A d \in Creators : creator'[d].step = "answered" => creator'[d] = creator[d]
      BY <2>2, <2>3, Zenon
    <3> QED  BY <1>1, <3>1, <3>2 DEF KeyInv, KeyCreatesOnce, AtStep
  <2> QED  BY <2>6, <2>7, <2>8, <2>9, <2>10, Zenon DEF KeyInv
<1> QED  BY <1>2, <1>3, Zenon

\* An answer names the resource of the claim that was found (Lookup).
LEMMA LookupKeeps ==
  ASSUME KeyInv, NEW c \in Creators, Lookup(c)
  PROVE  KeyInv'
<1>1. /\ AtStep(c, "lookup") /\ UNCHANGED <<row, deleting, inserted, resources, issued, now>>
  BY Zenon DEF Lookup
<1>2. deleting' = deleting \ {c} /\ inserted' = inserted \ {c}
  BY <1>1, HoldsNothing, Zenon DEF AtStep
<1>3. /\ creator[c] \in CreatorRecords /\ creator \in [Creators -> CreatorRecords]
      /\ now' \in Nat /\ creator[c].tries \in Nat
  BY <1>1, KeyTyped, Zenon DEF CreatorRecords
<1>4. CASE GoTo(c, "failed")
  BY <1>1, <1>2, <1>4, GoToKeeps, Zenon
<1>5. CASE creator' = [creator EXCEPT ![c].step = "expire", ![c].tries = @ + 1]
  <2> DEFINE more == creator[c].tries + 1
             new == [creator[c] EXCEPT !.step = "expire", !.tries = more]
  <2>1. "expire" \in Steps /\ more \in Nat
    BY <1>3 DEF Steps
  <2>2. creator' = [creator EXCEPT ![c].step = "expire", ![c].tries = more]
    BY <1>3, <1>5, Zenon
  <2> HIDE DEF more
  <2>3. creator' = [creator EXCEPT ![c] = new]
    BY <1>3, <2>2, Zenon
  <2>4. new \in CreatorRecords /\ new.step = "expire" /\ new.hash = creator[c].hash
    BY <1>3, <2>1, Zenon DEF CreatorRecords
  <2> HIDE DEF new
  <2> QED  BY <1>1, <1>2, <1>3, <2>3, <2>4, CreatorMoves, Zenon
<1>6. CASE /\ row # NoClaim /\ row.hash = creator[c].hash
           /\ creator' = [creator EXCEPT ![c].step = "answered", ![c].answer = row.id]
  <2> DEFINE new == [creator[c] EXCEPT !.step = "answered", !.answer = row.id]
  <2>1. row \in issued /\ row.id \in Creators
    BY <1>6, KeyTyped, Zenon DEF KeyInv, RowIsLatest, Claims
  <2>2. "answered" \in Steps
    BY Zenon DEF Steps
  <2>3. creator' = [creator EXCEPT ![c] = new]
    BY <1>3, <1>6, Zenon
  <2>4. /\ new \in CreatorRecords /\ new.step = "answered" /\ new.hash = creator[c].hash
        /\ new.answer = row.id
    BY <1>3, <2>1, <2>2, Zenon DEF CreatorRecords
  <2> HIDE DEF new
  <2>5. \E x \in issued : x.id = new.answer /\ x.hash = new.hash
    BY <1>6, <2>1, <2>4, Zenon
  <2> QED  BY <1>1, <1>2, <1>3, <2>3, <2>4, <2>5, CreatorMoves, Zenon
<1>7. CASE NextTurn(c)
  BY <1>4, <1>5, <1>7, Zenon DEF NextTurn
<1> QED  BY <1>4, <1>6, <1>7, Zenon DEF Lookup

\* The claim a commit writes begins after every earlier one has ended
\* (CreateMessage and the other creations).
LEMMA CreateResourceKeeps ==
  ASSUME KeyInv, NEW c \in Creators, CreateResource(c)
  PROVE  KeyInv'
<1> DEFINE new == [creator[c] EXCEPT !.step = "answered", !.answer = c]
           claim == ClaimOf(c)
<1>1. /\ AtStep(c, "write")
      /\ resources' = [resources EXCEPT ![c] = "live"]
      /\ row' = claim /\ issued' = issued \union {claim}
      /\ inserted' = inserted \ {c} /\ deleting' = deleting \ {c}
      /\ UNCHANGED now
  BY Zenon DEF CreateResource
<1>2. creator[c] \in CreatorRecords /\ creator \in [Creators -> CreatorRecords]
  BY KeyTyped, Zenon
<1>3. creator' = [creator EXCEPT ![c] = new]
  BY <1>2, Zenon DEF CreateResource
<1>4. "answered" \in Steps
  BY Zenon DEF Steps
<1>5. /\ new \in CreatorRecords /\ new.step = "answered" /\ new.hash = creator[c].hash
      /\ new.answer = c
  BY <1>2, <1>4, Zenon DEF CreatorRecords
<1>6. /\ claim \in Claims /\ claim.id = c /\ claim.hash = creator[c].hash
      /\ claim.at = creator[c].now /\ claim.at <= claim.expires
      /\ claim.at \in Nat
  BY <1>2, KeyConstants DEF CreatorRecords, Claims, ClaimOf
<1> HIDE DEF new, claim
<1>7. /\ creator'[c] = new /\ creator' \in [Creators -> CreatorRecords]
      /\ \A d \in Creators : d # c => creator'[d] = creator[d]
  BY <1>3, <1>5, KeyTyped, Zenon
<1>8. /\ inserted = {c} /\ (row = NoClaim \/ deleting = {c})
  BY <1>1, Zenon DEF KeyInv, KeyHolders
<1>9. \A d \in Creators : d # c => ~AtStep(d, "write") /\ d \notin deleting
  <2>1. ASSUME NEW d \in Creators, d # c PROVE ~AtStep(d, "write")
    BY <1>8, <2>1, Zenon DEF KeyInv, KeyHolders
  <2>2. ASSUME NEW d \in Creators, d # c PROVE d \notin deleting
    BY <1>8, <2>2, Zenon DEF KeyInv, KeyHolders, DeletesExpired
  <2> QED  BY <2>1, <2>2, Zenon
<1>10. \A x \in issued : x.expires <= claim.at
  <2>1. CASE row = NoClaim
    BY <2>1, Zenon DEF KeyInv, RowIsLatest
  <2>2. CASE row # NoClaim
    <3>1. row \in Claims /\ row.at \in Nat /\ row.expires \in Nat
      BY <2>2, KeyTyped, Zenon DEF Claims
    <3>2. row.expires <= claim.at
      BY <1>6, <1>8, <2>2, Zenon DEF KeyInv, DeletesExpired
    <3>3. row.at <= row.expires
      BY <2>2, Zenon DEF KeyInv, RowIsLatest
    <3>4. \A x \in issued : x.expires \in Nat
      BY KeyTyped, Zenon DEF Claims
    <3>5. \A x \in issued : x = row \/ x.expires <= row.at
      BY <2>2, Zenon DEF KeyInv, RowIsLatest
    <3> QED  BY <1>6, <3>1, <3>2, <3>3, <3>4, <3>5
  <2> QED  BY <2>1, <2>2, Zenon
<1>11. /\ resources'[c] = "live" /\ \A d \in Creators : d # c => resources'[d] = resources[d]
       /\ resources' \in [Creators -> {"none", "live", "deleted"}]
  BY <1>1, KeyTyped, Zenon
<1>12. KeyTypeOK'
  <2>1. issued' \in SUBSET Claims /\ deleting' \in SUBSET Creators /\ inserted' \in SUBSET Creators
    BY <1>1, <1>6, KeyTyped, Zenon
  <2> QED  BY <1>1, <1>6, <1>7, <1>11, <2>1, Zenon DEF KeyInv, KeyTypeOK, CreatorRecords
<1>13. deleting' = {} /\ inserted' = {} /\ \A d \in Creators : ~AtStep(d, "write")'
  <2>1. deleting' = {}
    BY <1>1, <1>9, KeyTyped, Zenon
  <2>2. \A d \in Creators : ~AtStep(d, "write")'
    BY <1>5, <1>7, <1>9, Zenon DEF AtStep
  <2> QED  BY <1>1, <1>8, <2>1, <2>2, Zenon
<1>14. KeyHolders' /\ DeletesExpired'
  BY <1>13, Zenon DEF KeyHolders, DeletesExpired
<1>15. RowIsLatest'
  <2>1. claim # NoClaim
    BY <1>6, KeyConstants, Zenon
  <2> QED  BY <1>1, <1>6, <1>10, <2>1, Zenon DEF KeyInv, RowIsLatest
<1>16. KeyCreatesOnce'
  <2>1. \A x, y \in issued' : x # y => x.expires <= y.at \/ y.expires <= x.at
    BY <1>1, <1>10, Zenon DEF KeyInv, KeyCreatesOnce
  <2>2. \A d \in Creators : creator'[d].hash = creator[d].hash
    BY <1>5, <1>7, Zenon
  <2>3. ASSUME NEW d \in Creators, resources'[d] # "none"
        PROVE  \E x \in issued' : x.id = d /\ x.hash = creator'[d].hash
    <3>1. CASE d = c
      BY <1>1, <1>6, <2>2, <3>1, Zenon
    <3>2. CASE d # c
      BY <1>1, <1>11, <2>2, <2>3, <3>2 DEF KeyInv, KeyCreatesOnce
    <3> QED  BY <3>1, <3>2, Zenon
  <2>4. ASSUME NEW d \in Creators, creator'[d].step = "answered"
        PROVE  \E x \in issued' : x.id = creator'[d].answer /\ x.hash = creator'[d].hash
    <3>1. CASE d = c
      BY <1>1, <1>5, <1>6, <1>7, <3>1, Zenon
    <3>2. CASE d # c
      BY <1>1, <1>7, <2>4, <3>2 DEF KeyInv, KeyCreatesOnce, AtStep
    <3> QED  BY <3>1, <3>2, Zenon
  <2>5. resources'[row'.id] # "none"
    BY <1>1, <1>6, <1>11, Zenon
  <2> QED  BY <2>1, <2>3, <2>4, <2>5, Zenon DEF KeyCreatesOnce, AtStep
<1> QED  BY <1>12, <1>14, <1>15, <1>16, Zenon DEF KeyInv

\* A deleted resource keeps its claim.
LEMMA DeleteResourceKeeps ==
  ASSUME KeyInv, NEW c \in Creators, DeleteResource(c)
  PROVE  KeyInv'
<1>1. /\ resources[c] = "live" /\ resources' = [resources EXCEPT ![c] = "deleted"]
      /\ UNCHANGED <<creator, row, deleting, inserted, issued, now>>
  BY Zenon DEF DeleteResource
<1>2. /\ resources'[c] = "deleted" /\ \A d \in Creators : d # c => resources'[d] = resources[d]
      /\ resources' \in [Creators -> {"none", "live", "deleted"}]
  BY <1>1, KeyTyped, Zenon
<1>3. KeyTypeOK'
  BY <1>1, <1>2, Zenon DEF KeyInv, KeyTypeOK
<1>4. KeyHolders' /\ DeletesExpired' /\ RowIsLatest'
  BY <1>1, Zenon DEF KeyInv, KeyHolders, DeletesExpired, RowIsLatest, AtStep
<1>5. KeyCreatesOnce'
  <2>1. \A d \in Creators : resources'[d] # "none" <=> resources[d] # "none"
    BY <1>1, <1>2, Zenon
  <2>2. row # NoClaim => row.id \in Creators
    BY KeyTyped, Zenon DEF Claims
  <2> QED  BY <1>1, <2>1, <2>2, Zenon DEF KeyInv, KeyCreatesOnce, AtStep
<1> QED  BY <1>3, <1>4, <1>5, Zenon DEF KeyInv

\* While a claim is retained its key creates no second resource and answers
\* with the claimed one, for any number of requests, fingerprints, turns and
\* any retention (ClaimMessageIdempotency and its like).
THEOREM KeysCreateOnce == KeySpec => []KeyCreatesOnce
<1>1. KeyInit => KeyInv
  <2> SUFFICES ASSUME KeyInit
               PROVE  KeyInv
    OBVIOUS
  <2>1. \A c \in Creators : creator[c].step = "new"
    BY Zenon DEF KeyInit
  <2>2. KeyTypeOK
    BY DEF KeyInit, KeyTypeOK, Steps
  <2>3. KeyHolders /\ DeletesExpired /\ RowIsLatest /\ KeyCreatesOnce
    BY <2>1, Zenon DEF KeyInit, KeyHolders, DeletesExpired, RowIsLatest, KeyCreatesOnce, AtStep
  <2> QED  BY <2>2, <2>3, Zenon DEF KeyInv
<1>2. KeyInv /\ [KeyNext]_keyVars => KeyInv'
  <2> SUFFICES ASSUME KeyInv, [KeyNext]_keyVars
               PROVE  KeyInv'
    OBVIOUS
  <2>1. ASSUME UNCHANGED <<creator, row, deleting, inserted, resources, issued>>, now' \in Nat
        PROVE  KeyInv'
    BY <2>1, Zenon DEF KeyInv, KeyTypeOK, KeyHolders, DeletesExpired, RowIsLatest, KeyCreatesOnce, AtStep
  <2>2. CASE UNCHANGED keyVars
    BY <2>1, <2>2, KeyTyped, Zenon DEF keyVars
  <2>3. CASE TimePasses
    BY <2>1, <2>3, KeyTyped DEF TimePasses
  <2>4. ASSUME NEW c \in Creators, RollBack(c) PROVE KeyInv'
    BY <2>4, GoToKeeps, Zenon DEF RollBack
  <2> QED
    BY <2>2, <2>3, <2>4, BeginCreateKeeps, DeleteExpiredKeeps, ClaimKeeps, LookupKeeps,
       CreateResourceKeeps, DeleteResourceKeeps, Zenon
    DEF KeyNext
<1>3. KeyInv => KeyCreatesOnce
  BY Zenon DEF KeyInv
<1> QED  BY <1>1, <1>2, <1>3, PTL DEF KeySpec

-----------------------------------------------------------------------------
(***************************************************************************)
(* Membership.  A transaction about to commit a member or an assignment    *)
(* holds the guild's row, which a deletion needs too (GuildRowHeld), and a *)
(* join that has counted its use holds the invite's row (InviteRowHeld).   *)
(***************************************************************************)

Grows(t) == Staged(t, {"join", "add", "assign", "unassign"}, "commit")

Deletes(t) == Staged(t, {"delete"}, "clear") \/ Staged(t, {"delete"}, "settle")

GuildRowHeld ==
  \A t \in Requests :
    /\ Grows(t) => guildHold = t /\ exists
    /\ Deletes(t) => guildHold = t

Consumed(t) == request[t].op = "join" /\ request[t].stage \in {"insert", "settle", "commit"}

InviteRowHeld == \A t \in Requests : Consumed(t) => inviteRow = t /\ UsesLeft

MembershipInv ==
  /\ MembershipTypeOK /\ GuildRowHeld /\ InviteRowHeld
  /\ DeletedGuildIsEmpty /\ InviteLimitKept

AnyRequest == Underway \union {NoneUnderway}

\* The typing of the variables, one fact for each.
LEMMA MembershipTyped ==
  ASSUME MembershipInv
  PROVE  /\ owner \in People /\ exists \in BOOLEAN /\ uses \in Nat
         /\ members \subseteq People /\ banned \subseteq People /\ assigned \subseteq People
         /\ request \in [Requests -> AnyRequest]
         /\ memberRow \in [People -> Requests \union {NoRequest}]
         /\ inviteRow \in Requests \union {NoRequest}
         /\ guildHold \in Requests \union {NoRequest}
BY Zenon DEF MembershipInv, MembershipTypeOK, AnyRequest

\* No transaction is about to do anything before it opens.
LEMMA NoneHolds ==
  /\ NoneUnderway.op = "none" /\ NoneUnderway.stage = "none"
BY Zenon DEF NoneUnderway

\* A step of one transaction that leaves the tables alone and takes no lock of
\* another keeps the invariant, if the transaction then holds what it must.
LEMMA RequestStep ==
  ASSUME MembershipInv, NEW t \in Requests, NEW new \in AnyRequest,
         request' = [request EXCEPT ![t] = new],
         UNCHANGED tables,
         memberRow' \in [People -> Requests \union {NoRequest}],
         inviteRow' = inviteRow \/ (FreeFor(inviteRow, t) /\ inviteRow' = t),
         guildHold' = guildHold \/ (FreeFor(guildHold, t) /\ guildHold' = t),
         new.op \in {"join", "add", "assign", "unassign"} /\ new.stage = "commit" =>
           guildHold' = t /\ exists,
         new.op = "delete" /\ new.stage \in {"clear", "settle"} => guildHold' = t,
         new.op = "join" /\ new.stage \in {"insert", "settle", "commit"} =>
           inviteRow' = t /\ UsesLeft
  PROVE  MembershipInv'
<1>1. /\ request'[t] = new /\ request' \in [Requests -> AnyRequest]
      /\ \A o \in Requests : o # t => request'[o] = request[o]
  BY MembershipTyped, Zenon
<1>2. UNCHANGED <<owner, exists, members, banned, assigned, uses>>
  BY Zenon DEF tables
<1>3. /\ inviteRow' \in Requests \union {NoRequest} /\ guildHold' \in Requests \union {NoRequest}
  BY MembershipTyped, Zenon
<1>4. MembershipTypeOK'
  BY <1>1, <1>2, <1>3, Zenon DEF MembershipInv, MembershipTypeOK, AnyRequest
<1>5. \A o \in Requests \ {t} :
        (guildHold = o => guildHold' = o) /\ (inviteRow = o => inviteRow' = o)
  BY MembershipConstants, Zenon DEF FreeFor
<1>6. GuildRowHeld'
  <2> SUFFICES ASSUME NEW o \in Requests
               PROVE  (Grows(o)' => guildHold' = o /\ exists') /\ (Deletes(o)' => guildHold' = o)
    BY Zenon DEF GuildRowHeld
  <2>1. CASE o = t
    BY <2>1, <1>1, <1>2, Zenon DEF Grows, Deletes, Staged
  <2>2. CASE o # t
    <3>1. request'[o] = request[o]
      BY <2>2, <1>1, Zenon
    <3>2. (Grows(o) => guildHold = o /\ exists) /\ (Deletes(o) => guildHold = o)
      BY Zenon DEF MembershipInv, GuildRowHeld
    <3> QED  BY <2>2, <3>1, <3>2, <1>2, <1>5, Zenon DEF Grows, Deletes, Staged
  <2> QED  BY <2>1, <2>2, Zenon
<1>7. InviteRowHeld'
  <2> SUFFICES ASSUME NEW o \in Requests, Consumed(o)'
               PROVE  inviteRow' = o /\ UsesLeft'
    BY Zenon DEF InviteRowHeld
  <2>1. CASE o = t
    BY <2>1, <1>1, <1>2, Zenon DEF Consumed, UsesLeft
  <2>2. CASE o # t
    <3>1. request'[o] = request[o]
      BY <2>2, <1>1, Zenon
    <3>2. inviteRow = o /\ UsesLeft
      BY <3>1, Zenon DEF MembershipInv, InviteRowHeld, Consumed
    <3> QED  BY <2>2, <3>2, <1>2, <1>5, Zenon DEF UsesLeft
  <2> QED  BY <2>1, <2>2, Zenon
<1>8. DeletedGuildIsEmpty' /\ InviteLimitKept'
  BY <1>2, Zenon DEF MembershipInv, DeletedGuildIsEmpty, InviteLimitKept
<1> QED  BY <1>4, <1>6, <1>7, <1>8, Zenon DEF MembershipInv

\* The end of a transaction releases its own locks only.
LEMMA CloseKeeps ==
  ASSUME MembershipInv, NEW t \in Requests, Close(t)
  PROVE  /\ request' \in [Requests -> AnyRequest] /\ request'[t] = NoneUnderway
         /\ \A o \in Requests : o # t => request'[o] = request[o]
         /\ memberRow' \in [People -> Requests \union {NoRequest}]
         /\ inviteRow' \in Requests \union {NoRequest}
         /\ guildHold' \in Requests \union {NoRequest}
         /\ \A o \in Requests \ {t} :
              (guildHold = o => guildHold' = o) /\ (inviteRow = o => inviteRow' = o)
<1>1. NoneUnderway \in AnyRequest
  BY Zenon DEF AnyRequest
<1>2. /\ request' = [request EXCEPT ![t] = NoneUnderway]
      /\ memberRow' = [u \in People |-> IF memberRow[u] = t THEN NoRequest ELSE memberRow[u]]
      /\ inviteRow' = IF inviteRow = t THEN NoRequest ELSE inviteRow
      /\ guildHold' = IF guildHold = t THEN NoRequest ELSE guildHold
  BY Zenon DEF Close
<1>3. /\ request' \in [Requests -> AnyRequest] /\ request'[t] = NoneUnderway
      /\ \A o \in Requests : o # t => request'[o] = request[o]
  BY <1>1, <1>2, MembershipTyped, Zenon
<1>4. memberRow' \in [People -> Requests \union {NoRequest}]
  BY <1>2, MembershipTyped, Zenon
<1> QED  BY <1>2, <1>3, <1>4, MembershipTyped, Zenon

\* A commit keeps the invariant if it leaves the guild's existence alone unless
\* it holds the guild's row, and counts a use only if it holds the invite's.
LEMMA CommitEnds ==
  ASSUME MembershipInv, NEW t \in Requests, Close(t),
         owner' \in People, exists' \in BOOLEAN, uses' \in Nat,
         members' \subseteq People, banned' \subseteq People, assigned' \subseteq People,
         exists' = exists \/ guildHold = t,
         uses' = uses \/ (inviteRow = t /\ (MaxUses # 0 => uses' <= MaxUses)),
         ~exists' => members' = {} /\ assigned' = {}
  PROVE  MembershipInv'
<1>1. /\ request' \in [Requests -> AnyRequest] /\ request'[t] = NoneUnderway
      /\ \A o \in Requests : o # t => request'[o] = request[o]
      /\ memberRow' \in [People -> Requests \union {NoRequest}]
      /\ inviteRow' \in Requests \union {NoRequest}
      /\ guildHold' \in Requests \union {NoRequest}
      /\ \A o \in Requests \ {t} :
           (guildHold = o => guildHold' = o) /\ (inviteRow = o => inviteRow' = o)
  BY CloseKeeps, Zenon
<1>2. MembershipTypeOK'
  BY <1>1, Zenon DEF MembershipTypeOK, AnyRequest
<1>3. GuildRowHeld'
  <2> SUFFICES ASSUME NEW o \in Requests
               PROVE  (Grows(o)' => guildHold' = o /\ exists') /\ (Deletes(o)' => guildHold' = o)
    BY Zenon DEF GuildRowHeld
  <2>1. CASE o = t
    BY <2>1, <1>1, NoneHolds, Zenon DEF Grows, Deletes, Staged
  <2>2. CASE o # t
    <3>1. request'[o] = request[o]
      BY <2>2, <1>1, Zenon
    <3>2. (Grows(o) => guildHold = o /\ exists) /\ (Deletes(o) => guildHold = o)
      BY Zenon DEF MembershipInv, GuildRowHeld
    <3>3. Grows(o) => exists'
      BY <2>2, <3>2, Zenon
    <3> QED  BY <2>2, <3>1, <3>2, <3>3, <1>1, Zenon DEF Grows, Deletes, Staged
  <2> QED  BY <2>1, <2>2, Zenon
<1>4. InviteRowHeld'
  <2> SUFFICES ASSUME NEW o \in Requests, Consumed(o)'
               PROVE  inviteRow' = o /\ UsesLeft'
    BY Zenon DEF InviteRowHeld
  <2>1. o # t
    BY <1>1, NoneHolds, Zenon DEF Consumed
  <2>2. Consumed(o)
    BY <2>1, <1>1, Zenon DEF Consumed
  <2>3. inviteRow = o /\ UsesLeft
    BY <2>2, Zenon DEF MembershipInv, InviteRowHeld
  <2> QED  BY <2>1, <2>3, <1>1, Zenon DEF UsesLeft
<1>5. DeletedGuildIsEmpty' /\ InviteLimitKept'
  BY Zenon DEF MembershipInv, DeletedGuildIsEmpty, InviteLimitKept
<1> QED  BY <1>2, <1>3, <1>4, <1>5, Zenon DEF MembershipInv

\* The reads at the head of a transaction lock nothing.
LEMMA OpenKeeps ==
  ASSUME MembershipInv, NEW t \in Requests, NEW op \in Ops, NEW u \in People,
         NEW stage \in {"consume", "insert", "remove", "mark", "settle"},
         op = "join" => stage = "consume", op = "delete" => stage = "mark",
         Open(t, op, u, stage)
  PROVE  MembershipInv'
<1> DEFINE from == IF op = "transfer" THEN owner ELSE Founder
           new == [op |-> op, stage |-> stage, user |-> u, from |-> from,
                   role |-> FALSE, out |-> FALSE, bans |-> {}]
<1>1. request' = [request EXCEPT ![t] = new] /\ UNCHANGED <<tables, rowLocks>>
  BY Zenon DEF Open
<1>2. UNCHANGED tables /\ UNCHANGED <<memberRow, inviteRow, guildHold>>
  BY <1>1, Zenon DEF rowLocks
<1>3. from \in People
  BY MembershipTyped, MembershipConstants, Zenon
<1>4. stage \in Stages
  BY Zenon DEF Stages
<1>5. new \in AnyRequest /\ new.op = op /\ new.stage = stage
  BY <1>3, <1>4, Zenon DEF AnyRequest, Underway
<1>6. memberRow' \in [People -> Requests \union {NoRequest}]
  BY <1>2, MembershipTyped, Zenon
<1> HIDE DEF new, from
<1> QED  BY <1>1, <1>2, <1>5, <1>6, RequestStep, Zenon

\* A request at a stage, with the stage replaced.
LEMMA StageMoves ==
  ASSUME MembershipInv, NEW t \in Requests, NEW s \in Stages, request[t].op \in Ops
  PROVE  LET new == [request[t] EXCEPT !.stage = s]
         IN  /\ new \in AnyRequest /\ new.op = request[t].op /\ new.stage = s
             /\ [request EXCEPT ![t].stage = s] = [request EXCEPT ![t] = new]
<1> DEFINE new == [request[t] EXCEPT !.stage = s]
<1>1. request \in [Requests -> AnyRequest]
  BY MembershipTyped, Zenon
<1>2. request[t] \in Underway
  BY <1>1, NoneHolds, Zenon DEF AnyRequest, Ops
<1>3. new \in Underway /\ new.op = request[t].op /\ new.stage = s
  BY <1>2, Zenon DEF Underway
<1>4. [request EXCEPT ![t].stage = s] = [request EXCEPT ![t] = new]
  BY <1>1, Zenon
<1> QED  BY <1>3, <1>4, Zenon DEF AnyRequest

\* The statements between the reads and the commit take free locks only
\* (ConsumeGuildInvite to DeleteGuild, and the access revision triggers).
LEMMA StatementsKeep ==
  ASSUME MembershipInv, NEW t \in Requests,
         \/ ConsumeGuildInvite(t) \/ CreateGuildMember(t) \/ MarkGuildDeleted(t)
         \/ enqueueEvents(t)
  PROVE  MembershipInv'
<1> DEFINE New(s) == [request[t] EXCEPT !.stage = s]
<1>1. request[t].op \in Ops /\ {"insert", "settle", "clear", "commit"} \subseteq Stages
  BY Zenon DEF ConsumeGuildInvite, CreateGuildMember, MarkGuildDeleted, enqueueEvents, Staged, Ops,
         Stages
<1>2. ASSUME NEW s \in {"insert", "settle", "clear", "commit"}
      PROVE  /\ New(s) \in AnyRequest /\ New(s).op = request[t].op /\ New(s).stage = s
             /\ [request EXCEPT ![t].stage = s] = [request EXCEPT ![t] = New(s)]
  BY <1>1, StageMoves, Zenon
<1>3. memberRow \in [People -> Requests \union {NoRequest}]
  BY MembershipTyped, Zenon
<1> HIDE DEF New
<1>4. CASE ConsumeGuildInvite(t)
  <2>1. /\ request' = [request EXCEPT ![t] = New("insert")]
        /\ request[t].op = "join" /\ FreeFor(inviteRow, t) /\ inviteRow' = t
        /\ UsesLeft
        /\ UNCHANGED tables /\ memberRow' = memberRow /\ guildHold' = guildHold
    BY <1>2, <1>4, Zenon DEF ConsumeGuildInvite, Staged
  <2> QED  BY <1>2, <1>3, <2>1, RequestStep, Zenon
<1>5. CASE CreateGuildMember(t)
  <2>1. /\ request' = [request EXCEPT ![t] = New("settle")]
        /\ request[t].op \in {"join", "add"} /\ request[t].stage = "insert"
        /\ memberRow' = [memberRow EXCEPT ![request[t].user] = t]
        /\ UNCHANGED tables /\ inviteRow' = inviteRow /\ guildHold' = guildHold
    BY <1>2, <1>5, Zenon DEF CreateGuildMember, Staged
  <2>2. memberRow' \in [People -> Requests \union {NoRequest}]
    BY <1>3, <2>1, Zenon
  <2>3. request[t].op = "join" => inviteRow = t /\ UsesLeft
    BY <2>1, Zenon DEF MembershipInv, InviteRowHeld, Consumed
  <2> QED  BY <1>2, <2>1, <2>2, <2>3, RequestStep, Zenon
<1>6. CASE MarkGuildDeleted(t)
  <2>1. /\ request' = [request EXCEPT ![t] = New("clear")]
        /\ request[t].op = "delete" /\ FreeFor(guildHold, t) /\ guildHold' = t
        /\ UNCHANGED tables /\ memberRow' = memberRow /\ inviteRow' = inviteRow
    BY <1>2, <1>6, Zenon DEF MarkGuildDeleted, Staged
  <2> QED  BY <1>2, <1>3, <2>1, RequestStep, Zenon
<1>7. CASE enqueueEvents(t)
  <2>1. /\ request' = [request EXCEPT ![t] = New("commit")]
        /\ request[t].op \in Ops \ {"delete"} /\ request[t].stage = "settle" /\ exists
        /\ \/ FreeFor(guildHold, t) /\ guildHold' = t
           \/ request[t].op = "ban" /\ guildHold' = guildHold
        /\ UNCHANGED tables /\ memberRow' = memberRow /\ inviteRow' = inviteRow
    BY <1>2, <1>7, Zenon DEF enqueueEvents, Staged
  <2>2. request[t].op = "join" => inviteRow = t /\ UsesLeft
    BY <2>1, Zenon DEF MembershipInv, InviteRowHeld, Consumed
  <2> QED  BY <1>2, <1>3, <2>1, <2>2, RequestStep, Zenon
<1> QED  BY <1>4, <1>5, <1>6, <1>7, Zenon

\* A removal locks the member's row, and the guild's if it deletes assignments
\* (RemoveGuildMember).
LEMMA RemoveMemberKeeps ==
  ASSUME MembershipInv, NEW t \in Requests, RemoveGuildMember(t)
  PROVE  MembershipInv'
<1> DEFINE u == request[t].user
           held == u \in assigned
           new == [request[t] EXCEPT !.stage = "settle", !.out = TRUE, !.role = held]
<1>1. /\ request[t].op \in {"kick", "leave", "ban"}
      /\ memberRow' = [memberRow EXCEPT ![u] = t]
      /\ guildHold' = guildHold \/ (FreeFor(guildHold, t) /\ guildHold' = t)
      /\ request' = [request EXCEPT ![t].stage = "settle", ![t].out = TRUE, ![t].role = held]
      /\ UNCHANGED tables /\ inviteRow' = inviteRow
  BY Zenon DEF RemoveGuildMember, Staged
<1>2. request \in [Requests -> AnyRequest]
  BY MembershipTyped, Zenon
<1>3. request[t] \in Underway
  BY <1>1, <1>2, NoneHolds, Zenon DEF AnyRequest
<1>4. "settle" \in Stages /\ held \in BOOLEAN
  BY DEF Stages
<1> HIDE DEF held
<1>5. request' = [request EXCEPT ![t] = new]
  BY <1>1, <1>2, <1>3, Zenon
<1>6. new \in Underway /\ new.op = request[t].op /\ new.stage = "settle"
  BY <1>3, <1>4, Zenon DEF Underway
<1>7. memberRow' \in [People -> Requests \union {NoRequest}]
  BY <1>1, MembershipTyped, Zenon
<1> HIDE DEF new
<1>8. new \in AnyRequest
  BY <1>6, Zenon DEF AnyRequest
<1> QED  BY <1>1, <1>5, <1>6, <1>7, <1>8, RequestStep, Zenon

\* A deletion that holds the guild's row takes the others (DeleteGuild).
LEMMA ClearKeeps ==
  ASSUME MembershipInv, NEW t \in Requests, ClearGuild(t)
  PROVE  MembershipInv'
<1> DEFINE new == [request[t] EXCEPT !.stage = "settle", !.bans = banned]
<1>1. /\ request[t].op = "delete" /\ request[t].stage = "clear"
      /\ memberRow' = [u \in People |-> IF u \in members THEN t ELSE memberRow[u]]
      /\ FreeFor(inviteRow, t) /\ inviteRow' = t
      /\ request' = [request EXCEPT ![t].stage = "settle", ![t].bans = banned]
      /\ UNCHANGED tables /\ guildHold' = guildHold
  BY Zenon DEF ClearGuild, Staged
<1>2. request \in [Requests -> AnyRequest] /\ banned \in SUBSET People
  BY MembershipTyped, Zenon
<1>3. request[t] \in Underway
  BY <1>1, <1>2, NoneHolds, Zenon DEF AnyRequest
<1>4. "settle" \in Stages
  BY Zenon DEF Stages
<1>5. request' = [request EXCEPT ![t] = new]
  BY <1>1, <1>2, <1>3, Zenon
<1>6. new \in Underway /\ new.op = "delete" /\ new.stage = "settle"
  BY <1>1, <1>2, <1>3, <1>4, Zenon DEF Underway
<1>7. memberRow' \in [People -> Requests \union {NoRequest}]
  BY <1>1, MembershipTyped, Zenon
<1>8. guildHold = t
  BY <1>1, Zenon DEF MembershipInv, GuildRowHeld, Deletes, Staged
<1> HIDE DEF new
<1>9. new \in AnyRequest
  BY <1>6, Zenon DEF AnyRequest
<1> QED  BY <1>1, <1>5, <1>6, <1>7, <1>8, <1>9, RequestStep, Zenon

\* What commits and what rolls back.
LEMMA CommitsKeep ==
  ASSUME MembershipInv, NEW t \in Requests,
         \/ CommitJoin(t) \/ CommitRemoval(t) \/ CommitTransfer(t) \/ CommitRoles(t)
         \/ CommitDeletion(t) \/ RollBackRequest(t)
  PROVE  MembershipInv'
<1>t. /\ owner \in People /\ exists \in BOOLEAN /\ uses \in Nat
      /\ members \subseteq People /\ banned \subseteq People /\ assigned \subseteq People
  BY MembershipTyped, Zenon
<1>u. request[t].user \in People
  <2>1. request[t] \in Underway \/ request[t] = NoneUnderway
    BY MembershipTyped, Zenon DEF AnyRequest
  <2> QED  BY <2>1, MembershipConstants DEF Underway, NoneUnderway
<1>e. ~exists => members = {} /\ assigned = {}
  BY Zenon DEF MembershipInv, DeletedGuildIsEmpty
<1>g. Grows(t) => guildHold = t /\ exists
  BY Zenon DEF MembershipInv, GuildRowHeld
<1>1. CASE CommitJoin(t)
  <2>1. /\ Close(t) /\ members' = members \union {request[t].user}
        /\ uses' = IF request[t].op = "join" THEN uses + 1 ELSE uses
        /\ owner' = owner /\ exists' = exists /\ banned' = banned /\ assigned' = assigned
        /\ request[t].op \in {"join", "add"} /\ request[t].stage = "commit"
    BY <1>1, Zenon DEF CommitJoin, Staged
  <2>2. exists
    BY <1>g, <2>1, Zenon DEF Grows, Staged
  <2>3. request[t].op = "join" => inviteRow = t /\ UsesLeft
    BY <2>1, Zenon DEF MembershipInv, InviteRowHeld, Consumed
  <2>4. uses' = uses \/ (inviteRow = t /\ (MaxUses # 0 => uses' <= MaxUses))
    BY <2>1, <2>3, <1>t, MembershipConstants DEF UsesLeft
  <2>5. uses' \in Nat
    BY <2>1, <1>t
  <2> QED  BY <1>t, <1>u, <2>1, <2>2, <2>4, <2>5, CommitEnds, Zenon
<1>2. CASE CommitRemoval(t)
  <2>1. /\ Close(t) /\ members' \subseteq members /\ assigned' \subseteq assigned
        /\ banned' \subseteq banned \union {request[t].user}
        /\ owner' = owner /\ exists' = exists /\ uses' = uses
    BY <1>2, Zenon DEF CommitRemoval
  <2> QED  BY <1>t, <1>u, <1>e, <2>1, CommitEnds, Zenon
<1>3. CASE CommitTransfer(t)
  <2>1. /\ Close(t) /\ owner' = request[t].user
        /\ UNCHANGED <<exists, members, banned, assigned, uses>>
    BY <1>3, Zenon DEF CommitTransfer
  <2> QED  BY <1>t, <1>u, <1>e, <2>1, CommitEnds, Zenon
<1>4. CASE CommitRoles(t)
  <2>1. /\ Close(t) /\ assigned' \subseteq assigned \union {request[t].user}
        /\ UNCHANGED <<owner, exists, members, banned, uses>>
        /\ request[t].op \in {"assign", "unassign"} /\ request[t].stage = "commit"
    BY <1>4, Zenon DEF CommitRoles, Staged
  <2>2. exists
    BY <1>g, <2>1 DEF Grows, Staged
  <2> QED  BY <1>t, <1>u, <2>1, <2>2, CommitEnds, Zenon
<1>5. CASE CommitDeletion(t)
  <2>1. /\ Close(t) /\ exists' = FALSE /\ members' = {} /\ assigned' = {}
        /\ banned' \subseteq banned /\ UNCHANGED <<owner, uses>>
        /\ request[t].op = "delete" /\ request[t].stage = "settle"
    BY <1>5 DEF CommitDeletion, Staged
  <2>2. guildHold = t
    BY <2>1 DEF MembershipInv, GuildRowHeld, Deletes, Staged
  <2> QED  BY <1>t, <2>1, <2>2, CommitEnds, Zenon
<1>6. CASE RollBackRequest(t)
  <2>1. Close(t) /\ UNCHANGED <<owner, exists, members, banned, assigned, uses>>
    BY <1>6, Zenon DEF RollBackRequest, tables
  <2> QED  BY <1>t, <1>e, <2>1, CommitEnds, Zenon
<1> QED  BY <1>1, <1>2, <1>3, <1>4, <1>5, <1>6, Zenon

\* The reads of every operation open a transaction at its first stage.
LEMMA HeadsKeep ==
  ASSUME MembershipInv, NEW t \in Requests, NEW a \in People, NEW u \in People,
         \/ JoinGuildByInvite(t, u) \/ LeaveGuild(t, u) \/ TransferGuildOwnership(t, u)
         \/ changeGuildRoleMembers(t, u, "assign") \/ changeGuildRoleMembers(t, u, "unassign")
         \/ AddGuildMember(t, a, u) \/ KickGuildMember(t, a, u) \/ BanGuildMember(t, a, u)
         \/ DeleteGuild(t)
  PROVE  MembershipInv'
<1>1. PICK op \in Ops, v \in People,
           stage \in {"consume", "insert", "remove", "mark", "settle"} :
        /\ op = "join" => stage = "consume"
        /\ op = "delete" => stage = "mark"
        /\ Open(t, op, v, stage)
  BY MembershipConstants, Zenon
  DEF JoinGuildByInvite, LeaveGuild, TransferGuildOwnership, changeGuildRoleMembers,
      AddGuildMember, KickGuildMember, BanGuildMember, DeleteGuild, Ops
<1> QED  BY <1>1, OpenKeeps, Zenon

\* Every step of the membership transactions keeps the invariant.
LEMMA MembershipSteps == MembershipInv /\ [MembershipNext]_membershipVars => MembershipInv'
<1> SUFFICES ASSUME MembershipInv, [MembershipNext]_membershipVars
             PROVE  MembershipInv'
  OBVIOUS
<1>1. ASSUME UNCHANGED <<owner, exists, members, assigned, uses, request, memberRow,
                         inviteRow, guildHold>>,
             banned' \subseteq People
      PROVE  MembershipInv'
  BY <1>1, Zenon
  DEF MembershipInv, MembershipTypeOK, GuildRowHeld, InviteRowHeld, Grows, Deletes, Consumed,
      Staged, DeletedGuildIsEmpty, InviteLimitKept, UsesLeft
<1>2. CASE UNCHANGED membershipVars
  BY <1>1, <1>2, MembershipTyped, Zenon DEF membershipVars, tables, rowLocks
<1>3. ASSUME NEW t \in Requests, NEW a \in People, NEW u \in People, UnbanGuildMember(t, a, u)
      PROVE  MembershipInv'
  BY <1>1, <1>3, MembershipTyped, Zenon DEF UnbanGuildMember, rowLocks
<1> QED
  BY <1>2, <1>3, HeadsKeep, StatementsKeep, RemoveMemberKeeps, ClearKeeps, CommitsKeep,
     MembershipConstants, Zenon
  DEF MembershipNext

\* A new guild has its founder and no transaction.
LEMMA MembershipInitial == MembershipInit => MembershipInv
<1> SUFFICES ASSUME MembershipInit
             PROVE  MembershipInv
  OBVIOUS
<1>1. \A t \in Requests : request[t] = NoneUnderway
  BY Zenon DEF MembershipInit
<1>2. MembershipTypeOK
  BY MembershipConstants, Zenon DEF MembershipInit, MembershipTypeOK
<1>3. GuildRowHeld /\ InviteRowHeld
  BY <1>1, NoneHolds, Zenon DEF GuildRowHeld, InviteRowHeld, Grows, Deletes, Consumed, Staged
<1>4. DeletedGuildIsEmpty /\ InviteLimitKept
  BY MembershipConstants DEF MembershipInit, DeletedGuildIsEmpty, InviteLimitKept
<1> QED  BY <1>2, <1>3, <1>4, Zenon DEF MembershipInv

\* A deleted guild keeps no member and no assignment, for any users and any
\* number of concurrent transactions (DeleteGuild; the access revision triggers).
THEOREM DeletedGuildsAreEmpty == MembershipSpec => []DeletedGuildIsEmpty
<1>1. MembershipInv => DeletedGuildIsEmpty
  BY Zenon DEF MembershipInv
<1> QED  BY MembershipInitial, MembershipSteps, <1>1, PTL DEF MembershipSpec

\* An invite is used no more often than its limit, whichever joins and
\* deletions run at the same time (ConsumeGuildInvite).
THEOREM InviteLimitHolds == MembershipSpec => []InviteLimitKept
<1>1. MembershipInv => InviteLimitKept
  BY Zenon DEF MembershipInv
<1> QED  BY MembershipInitial, MembershipSteps, <1>1, PTL DEF MembershipSpec

-----------------------------------------------------------------------------
(***************************************************************************)
(* Relationships.  The rows a call decides on were read in an earlier      *)
(* step, so the invariant is not inductive: it needs that they are still   *)
(* the committed rows (ReadIsCurrent).  They are because such a call holds *)
(* the locks of both users alone (LocksHeld), which rests on the lock      *)
(* order naming both users of the pair (LockOrder).                        *)
(***************************************************************************)

\* No RPC is about a user and itself.
TwoUsers == \A c \in Calls : ~InStep(c, "idle") => call[c].user # call[c].target

\* The locks a transaction has taken are its own alone.
LocksHeld ==
  \A c \in Calls :
    /\ InStep(c, "second") => locked[FirstLock(c)] = {c}
    /\ InStep(c, "read") \/ InStep(c, "decide") =>
         locked[call[c].user] = {c} /\ locked[call[c].target] = {c}

\* What a call decides on is what is committed.
ReadIsCurrent ==
  \A c \in Calls : InStep(c, "decide") =>
    /\ call[c].own = rel[call[c].user][call[c].target]
    /\ call[c].reverse = rel[call[c].target][call[c].user]

RelationInv ==
  RelationTypeOK /\ TwoUsers /\ LocksHeld /\ ReadIsCurrent /\ RelationshipsAgree

----------------------------------------------------------------------------

\* A call past its validation names two different users (relationships.go).
LEMMA PairOf ==
  ASSUME RelationInv, NEW c \in Calls, ~InStep(c, "idle")
  PROVE  /\ call[c] \in CallStates
         /\ call[c].user \in Members /\ call[c].target \in Members
         /\ call[c].user # call[c].target
<1>1. call[c] \in CallStates
  BY DEF RelationInv, RelationTypeOK, NoCall, InStep
<1> QED  BY <1>1, Zenon DEF RelationInv, TwoUsers, CallStates

\* LockRelationshipPair locks both users, each once.
LEMMA LockOrder ==
  ASSUME RelationInv, NEW c \in Calls, ~InStep(c, "idle")
  PROVE  /\ Both(c) = {FirstLock(c), SecondLock(c)}
         /\ FirstLock(c) # SecondLock(c)
         /\ FirstLock(c) \in Members /\ SecondLock(c) \in Members
<1> DEFINE u == call[c].user  t == call[c].target
<1>1. u \in Nat /\ t \in Nat /\ u \in Members /\ t \in Members /\ u # t
  BY PairOf, UserIDs, Zenon
<1>2. Both(c) = {u, t}
  BY Zenon DEF Both
<1> HIDE DEF u, t
<1>3. \E x \in Both(c) : \A y \in Both(c) : x <= y
  BY <1>1, <1>2
<1>4. FirstLock(c) \in Both(c)
  BY <1>3, Zenon DEF FirstLock
<1>5. \E x \in Both(c) : x # FirstLock(c)
  BY <1>1, <1>2, Zenon
<1>6. SecondLock(c) \in Both(c) /\ SecondLock(c) # FirstLock(c)
  BY <1>5, Zenon DEF SecondLock
<1> QED  BY <1>1, <1>2, <1>4, <1>6

\* A call whose pair and step do not change keeps its first lock.
LEMMA FirstLockStays ==
  ASSUME NEW c \in Calls, call'[c].user = call[c].user, call'[c].target = call[c].target
  PROVE  FirstLock(c)' = FirstLock(c)
<1>1. Both(c)' = Both(c)
  BY Zenon DEF Both
<1> QED  BY <1>1, Zenon DEF FirstLock

----------------------------------------------------------------------------

\* A call that has only its pair holds nothing (relationships.go).
LEMMA BeginKeeps ==
  ASSUME RelationInv, NEW c \in Calls, BeginMutation(c)
  PROVE  RelationInv'
<1>1. PICK u \in Members, t \in Members :
        u # t /\ call' = [call EXCEPT ![c] = [step |-> "first", user |-> u, target |-> t]]
  BY Zenon DEF BeginMutation
<1>2. UNCHANGED <<rel, shown, locked>>
  BY Zenon DEF BeginMutation
<1>t. call \in [Calls -> CallStates \union {NoCall}]
  BY Zenon DEF RelationInv, RelationTypeOK
<1>3. call'[c] = [step |-> "first", user |-> u, target |-> t]
  BY <1>1, <1>t, Zenon
<1>4. \A d \in Calls : d # c => call'[d] = call[d]
  BY <1>1, <1>t, Zenon
<1>5. RelationTypeOK'
  <2>1. [step |-> "first", user |-> u, target |-> t] \in CallStates
    BY Zenon DEF CallStates
  <2>2. call' \in [Calls -> CallStates \union {NoCall}]
    BY <1>1, <1>t, <2>1, Zenon
  <2> QED  BY <1>2, <2>2, Zenon DEF RelationInv, RelationTypeOK
<1>6. TwoUsers'
  BY <1>1, <1>3, <1>4 DEF RelationInv, TwoUsers, InStep
<1>7. LocksHeld'
  <2> SUFFICES ASSUME NEW d \in Calls
               PROVE  /\ InStep(d, "second")' => locked'[FirstLock(d)'] = {d}
                      /\ InStep(d, "read")' \/ InStep(d, "decide")' =>
                           locked'[call'[d].user] = {d} /\ locked'[call'[d].target] = {d}
    BY Zenon DEF LocksHeld
  <2>1. CASE d = c
    BY <2>1, <1>3 DEF InStep
  <2>2. CASE d # c
    <3>1. call'[d] = call[d]
      BY <2>2, <1>4, Zenon
    <3>2. FirstLock(d)' = FirstLock(d)
      BY <3>1, FirstLockStays, Zenon
    <3> QED  BY <3>1, <3>2, <1>2, Zenon DEF RelationInv, LocksHeld, InStep
  <2> QED  BY <2>1, <2>2, Zenon
<1>8. ReadIsCurrent'
  BY <1>2, <1>3, <1>4, SMTT(20) DEF RelationInv, ReadIsCurrent, InStep
<1>9. RelationshipsAgree'
  BY <1>2 DEF RelationInv, RelationshipsAgree, Mirrors
<1> QED  BY <1>5, <1>6, <1>7, <1>8, <1>9, Zenon DEF RelationInv

\* Taking a lock that no transaction holds leaves the locks of the others alone
\* (queries: pg_advisory_xact_lock).
LEMMA TakeKeeps ==
  ASSUME RelationInv, NEW c \in Calls, NEW u \in Members, NEW next \in {"second", "read"},
         InStep(c, "first") \/ InStep(c, "second"),
         Take(c, u, next),
         next = "second" => u = FirstLock(c),
         next = "read" => InStep(c, "second") /\ u = SecondLock(c)
  PROVE  RelationInv'
<1>t. /\ call \in [Calls -> CallStates \union {NoCall}]
      /\ locked \in [Members -> SUBSET Calls]
  BY Zenon DEF RelationInv, RelationTypeOK
<1>1. /\ locked[u] = {}
      /\ locked' = [locked EXCEPT ![u] = {c}]
      /\ call' = [call EXCEPT ![c].step = next]
      /\ UNCHANGED <<rel, shown>>
  BY Zenon DEF Take
<1>2. ~InStep(c, "idle")
  BY Zenon DEF InStep
<1>3. call[c] \in [step : {"first", "second", "read"}, user : Members, target : Members]
  BY PairOf, <1>2, Zenon DEF CallStates, InStep
<1>4. call'[c] = [step |-> next, user |-> call[c].user, target |-> call[c].target]
  BY <1>1, <1>t, <1>3, Zenon
<1>5. \A d \in Calls : d # c => call'[d] = call[d]
  BY <1>1, <1>t, Zenon
<1>6. \A v \in Members : v # u => locked'[v] = locked[v]
  BY <1>1, <1>t, Zenon
<1>7. locked'[u] = {c}
  BY <1>1, <1>t, Zenon
<1>8. RelationTypeOK'
  <2>1. call'[c] \in CallStates
    BY <1>3, <1>4 DEF CallStates
  <2>2. call' \in [Calls -> CallStates \union {NoCall}]
    BY <1>1, <1>t, <1>5, <2>1, Zenon
  <2>3. locked' \in [Members -> SUBSET Calls]
    BY <1>1, <1>t, Zenon
  <2> QED  BY <1>1, <2>2, <2>3, Zenon DEF RelationInv, RelationTypeOK
<1>9. TwoUsers'
  BY <1>2, <1>4, <1>5, SMTT(20) DEF RelationInv, TwoUsers, InStep
<1>10. LocksHeld'
  <2> SUFFICES ASSUME NEW d \in Calls
               PROVE  /\ InStep(d, "second")' => locked'[FirstLock(d)'] = {d}
                      /\ InStep(d, "read")' \/ InStep(d, "decide")' =>
                           locked'[call'[d].user] = {d} /\ locked'[call'[d].target] = {d}
    BY Zenon DEF LocksHeld
  <2>1. FirstLock(d)' = FirstLock(d)
    BY <1>4, <1>5, FirstLockStays, SMTT(20)
  <2>2. CASE d # c
    <3>1. call'[d] = call[d]
      BY <2>2, <1>5, Zenon
    <3>2. CASE InStep(d, "idle")
      BY <3>1, <3>2, Zenon DEF InStep
    <3>3. CASE ~InStep(d, "idle")
      <4>1. /\ call[d].user \in Members /\ call[d].target \in Members
            /\ FirstLock(d) \in Members
        BY <3>3, PairOf, LockOrder, Zenon
      <4>2. \A v \in Members : locked[v] = {d} => locked'[v] = {d}
        BY <1>1, <1>6, Zenon
      <4> QED  BY <3>1, <2>1, <4>1, <4>2, Zenon DEF RelationInv, LocksHeld, InStep
    <3> QED  BY <3>2, <3>3
  <2>3. CASE d = c /\ next = "second"
    BY <2>1, <2>3, <1>4, <1>7 DEF InStep
  <2>4. CASE d = c /\ next = "read"
    <3>1. locked[FirstLock(c)] = {c}
      BY <2>4, Zenon DEF RelationInv, LocksHeld
    <3>2. Both(c) = {FirstLock(c), u} /\ FirstLock(c) # u /\ FirstLock(c) \in Members
      BY <2>4, <1>2, LockOrder, Zenon
    <3>3. \A v \in Both(c) : locked'[v] = {c}
      BY <3>1, <3>2, <1>6, <1>7, Zenon
    <3>4. locked'[call[c].user] = {c} /\ locked'[call[c].target] = {c}
      BY <3>3, Zenon DEF Both
    <3> QED  BY <2>4, <3>4, <1>4 DEF InStep
  <2> QED  BY <2>2, <2>3, <2>4
<1>11. ReadIsCurrent'
  BY <1>1, <1>4, <1>5 DEF RelationInv, ReadIsCurrent, InStep
<1>12. RelationshipsAgree'
  BY <1>1, Zenon DEF RelationInv, RelationshipsAgree, Mirrors
<1> QED  BY <1>8, <1>9, <1>10, <1>11, <1>12, Zenon DEF RelationInv

\* The rows a call reads are the committed ones (relationships.go).
LEMMA ReadKeeps ==
  ASSUME RelationInv, NEW c \in Calls, ReadRows(c)
  PROVE  RelationInv'
<1>t. /\ call \in [Calls -> CallStates \union {NoCall}]
      /\ rel \in [Members -> [Members -> Types]]
  BY Zenon DEF RelationInv, RelationTypeOK
<1>1. InStep(c, "read") /\ UNCHANGED <<rel, shown, locked>>
  BY Zenon DEF ReadRows
<1> DEFINE u == call[c].user  t == call[c].target
           new == [step |-> "decide", user |-> u, target |-> t,
                   own |-> rel[u][t], reverse |-> rel[t][u]]
<1>2. call' = [call EXCEPT ![c] = new]
  BY Zenon DEF ReadRows
<1>3. ~InStep(c, "idle")
  BY <1>1, Zenon DEF InStep
<1>4. u \in Members /\ t \in Members /\ u # t
  BY <1>3, PairOf, Zenon
<1>5. call'[c] = new
  BY <1>2, <1>t, Zenon
<1>6. \A d \in Calls : d # c => call'[d] = call[d]
  BY <1>2, <1>t, Zenon
<1>7. RelationTypeOK'
  <2>1. new \in CallStates
    BY <1>4, <1>t, Zenon DEF CallStates
  <2>2. call' \in [Calls -> CallStates \union {NoCall}]
    BY <1>2, <1>t, <2>1, Zenon
  <2> QED  BY <1>1, <2>2, Zenon DEF RelationInv, RelationTypeOK
<1>8. TwoUsers'
  BY <1>4, <1>5, <1>6, SMTT(20) DEF RelationInv, TwoUsers, InStep
<1>9. LocksHeld'
  <2> SUFFICES ASSUME NEW d \in Calls
               PROVE  /\ InStep(d, "second")' => locked'[FirstLock(d)'] = {d}
                      /\ InStep(d, "read")' \/ InStep(d, "decide")' =>
                           locked'[call'[d].user] = {d} /\ locked'[call'[d].target] = {d}
    BY Zenon DEF LocksHeld
  <2>1. FirstLock(d)' = FirstLock(d)
    BY <1>5, <1>6, FirstLockStays, SMTT(20)
  <2>2. CASE d # c
    BY <2>1, <2>2, <1>1, <1>6, SMTT(20) DEF RelationInv, LocksHeld, InStep
  <2>3. CASE d = c
    BY <2>3, <1>1, <1>5, SMTT(20) DEF RelationInv, LocksHeld, InStep
  <2> QED  BY <2>2, <2>3, Zenon
<1>10. ReadIsCurrent'
  <2> SUFFICES ASSUME NEW d \in Calls, InStep(d, "decide")'
               PROVE  /\ call'[d].own = rel'[call'[d].user][call'[d].target]
                      /\ call'[d].reverse = rel'[call'[d].target][call'[d].user]
    BY DEF ReadIsCurrent
  <2>1. rel' = rel
    BY <1>1, Zenon
  <2>2. CASE d = c
    <3>1. call'[d].user = u /\ call'[d].target = t
      BY <1>5, <2>2
    <3>2. call'[d].own = rel[u][t] /\ call'[d].reverse = rel[t][u]
      BY <1>5, <2>2
    <3> QED  BY <2>1, <3>1, <3>2
  <2>3. CASE d # c
    <3>1. call'[d] = call[d] /\ InStep(d, "decide")
      BY <2>3, <1>6, Zenon DEF InStep
    <3> QED  BY <2>1, <3>1 DEF RelationInv, ReadIsCurrent
  <2> QED  BY <2>2, <2>3, SMTT(20)
<1>11. RelationshipsAgree'
  BY <1>1 DEF RelationInv, RelationshipsAgree, Mirrors
<1> QED  BY <1>7, <1>8, <1>9, <1>10, <1>11, Zenon DEF RelationInv

----------------------------------------------------------------------------

\* The end of a transaction releases its own locks only.
LEMMA EndKeeps ==
  ASSUME RelationInv, NEW c \in Calls, EndCall(c)
  PROVE  /\ call' \in [Calls -> CallStates \union {NoCall}]
         /\ locked' \in [Members -> SUBSET Calls]
         /\ TwoUsers' /\ LocksHeld'
         /\ call'[c] = NoCall
         /\ \A d \in Calls : d # c => call'[d] = call[d]
<1>t. /\ call \in [Calls -> CallStates \union {NoCall}]
      /\ locked \in [Members -> SUBSET Calls]
  BY Zenon DEF RelationInv, RelationTypeOK
<1>1. /\ call' = [call EXCEPT ![c] = NoCall]
      /\ locked' = [u \in Members |-> locked[u] \ {c}]
  BY Zenon DEF EndCall
<1>2. call'[c] = NoCall /\ \A d \in Calls : d # c => call'[d] = call[d]
  BY <1>1, <1>t, Zenon
<1>3. call' \in [Calls -> CallStates \union {NoCall}]
  BY <1>1, <1>t, Zenon
<1>4. locked' \in [Members -> SUBSET Calls]
  BY <1>1, <1>t, Zenon
<1>5. TwoUsers'
  BY <1>2, SMTT(20) DEF RelationInv, TwoUsers, InStep, NoCall
<1>6. LocksHeld'
  <2> SUFFICES ASSUME NEW d \in Calls
               PROVE  /\ InStep(d, "second")' => locked'[FirstLock(d)'] = {d}
                      /\ InStep(d, "read")' \/ InStep(d, "decide")' =>
                           locked'[call'[d].user] = {d} /\ locked'[call'[d].target] = {d}
    BY Zenon DEF LocksHeld
  <2>1. CASE d = c \/ InStep(d, "idle")
    BY <2>1, <1>2 DEF InStep, NoCall
  <2>2. CASE d # c /\ ~InStep(d, "idle")
    <3>1. call'[d] = call[d]
      BY <2>2, <1>2, Zenon
    <3>2. FirstLock(d)' = FirstLock(d)
      BY <3>1, FirstLockStays, Zenon
    <3>3. /\ call[d].user \in Members /\ call[d].target \in Members
          /\ FirstLock(d) \in Members
      BY <2>2, PairOf, LockOrder, Zenon
    <3>4. \A v \in Members : locked[v] = {d} => locked'[v] = {d}
      BY <2>2, <1>1, Zenon
    <3> QED  BY <3>1, <3>2, <3>3, <3>4, Zenon DEF RelationInv, LocksHeld, InStep
  <2> QED  BY <2>1, <2>2, Zenon
<1> QED  BY <1>2, <1>3, <1>4, <1>5, <1>6, Zenon

\* A commit writes rows that describe one relationship, tells each owner its own
\* row, and touches no pair that another call has locked (relationships.go).
LEMMA CommitKeeps ==
  ASSUME RelationInv, NEW c \in Calls, InStep(c, "decide"),
         NEW own \in Types, NEW reverse \in Types, NEW news,
         Mirrors(own, reverse),
         IF news = "nothing" THEN reverse = rel[call[c].target][call[c].user]
                             ELSE news = reverse,
         Commit(c, own, reverse, news)
  PROVE  RelationInv'
<1> DEFINE u == call[c].user  t == call[c].target
<1>t. /\ rel \in [Members -> [Members -> Types]]
      /\ shown \in [Members -> [Members -> Types]]
  BY Zenon DEF RelationInv, RelationTypeOK
<1>1. u \in Members /\ t \in Members /\ u # t
  BY PairOf, Zenon DEF InStep
<1>2. /\ rel' = [rel EXCEPT ![u][t] = own, ![t][u] = reverse]
      /\ shown' = [shown EXCEPT ![u][t] = own, ![t][u] = IF news = "nothing" THEN @ ELSE news]
      /\ EndCall(c)
  BY Zenon DEF Commit
<1>3. locked[u] = {c} /\ locked[t] = {c}
  BY Zenon DEF RelationInv, LocksHeld
<1>4. shown[t][u] = rel[t][u]
  BY <1>1 DEF RelationInv, RelationshipsAgree
<1>5. /\ call' \in [Calls -> CallStates \union {NoCall}]
      /\ locked' \in [Members -> SUBSET Calls]
      /\ TwoUsers' /\ LocksHeld'
      /\ call'[c] = NoCall
      /\ \A d \in Calls : d # c => call'[d] = call[d]
  BY <1>2, EndKeeps, Zenon
<1>9. IF news = "nothing" THEN reverse = rel[t][u] ELSE news = reverse
  OBVIOUS
<1> HIDE DEF u, t
<1>6. /\ rel'[u][t] = own /\ rel'[t][u] = reverse
      /\ \A x, y \in Members : <<x, y>> # <<u, t>> /\ <<x, y>> # <<t, u>> =>
           rel'[x][y] = rel[x][y]
      /\ rel' \in [Members -> [Members -> Types]]
  BY <1>1, <1>2, <1>t, Zenon
<1>7. /\ shown'[u][t] = own /\ shown'[t][u] = reverse
      /\ \A x, y \in Members : <<x, y>> # <<u, t>> /\ <<x, y>> # <<t, u>> =>
           shown'[x][y] = shown[x][y]
      /\ shown' \in [Members -> [Members -> Types]]
  <2>1. CASE news = "nothing"
    <3>1. shown' = [shown EXCEPT ![u][t] = own, ![t][u] = @]
      BY <2>1, <1>2, Zenon
    <3>2. shown[t][u] = reverse
      BY <2>1, <1>4, <1>9, Zenon
    <3> QED  BY <1>1, <3>1, <3>2, <1>t, Zenon
  <2>2. CASE news # "nothing"
    <3>1. shown' = [shown EXCEPT ![u][t] = own, ![t][u] = reverse]
      BY <2>2, <1>2, <1>9, Zenon
    <3> QED  BY <1>1, <3>1, <1>t, Zenon
  <2> QED  BY <2>1, <2>2
<1>8. RelationTypeOK'
  BY <1>5, <1>6, <1>7, Zenon DEF RelationTypeOK
<1>10. ReadIsCurrent'
  <2> SUFFICES ASSUME NEW d \in Calls, InStep(d, "decide")'
               PROVE  /\ call'[d].own = rel'[call'[d].user][call'[d].target]
                      /\ call'[d].reverse = rel'[call'[d].target][call'[d].user]
    BY Zenon DEF ReadIsCurrent
  <2>1. d # c /\ call'[d] = call[d]
    <3>1. call'[d].step = "decide" /\ NoCall.step = "idle"
      BY DEF InStep, NoCall
    <3> QED  BY <3>1, <1>5
  <2>2. InStep(d, "decide")
    BY <2>1, Zenon DEF InStep
  <2>3. call[d].user \in Members /\ call[d].target \in Members
    BY <2>2, PairOf, Zenon DEF InStep
  <2>4. locked[call[d].user] = {d} /\ locked[call[d].target] = {d}
    BY <2>2, SMTT(20) DEF RelationInv, LocksHeld
  <2>5. call[d].user \notin {u, t} /\ call[d].target \notin {u, t}
    <3>1. {d} # {c}
      BY <2>1, Zenon
    <3> QED  BY <2>4, <3>1, <1>3, Zenon
  <2>6. /\ call[d].own = rel[call[d].user][call[d].target]
        /\ call[d].reverse = rel[call[d].target][call[d].user]
    BY <2>2, Zenon DEF RelationInv, ReadIsCurrent
  <2> QED  BY <2>1, <2>3, <2>5, <2>6, <1>6
<1>11. RelationshipsAgree'
  <2> SUFFICES ASSUME NEW x \in Members, NEW y \in Members, x # y
               PROVE  Mirrors(rel'[x][y], rel'[y][x]) /\ shown'[x][y] = rel'[x][y]
    BY Zenon DEF RelationshipsAgree, Mirrors
  <2>1. Mirrors(rel[x][y], rel[y][x]) /\ shown[x][y] = rel[x][y]
    BY SMTT(20) DEF RelationInv, RelationshipsAgree
  <2>2. Mirrors(reverse, own)
    BY DEF Mirrors
  <2>3. CASE x = u /\ y = t
    BY <2>3, <1>6, <1>7, ZenonT(30)
  <2>4. CASE x = t /\ y = u
    BY <2>4, <2>2, <1>6, <1>7
  <2>5. CASE ~(x = u /\ y = t) /\ ~(x = t /\ y = u)
    BY <2>1, <2>5, <1>6, <1>7, SMTT(20)
  <2> QED  BY <2>3, <2>4, <2>5, Zenon
<1> QED  BY <1>5, <1>8, <1>10, <1>11, Zenon DEF RelationInv

\* The rows a deciding call read are typed, committed and describe one
\* relationship.
LEMMA DecidedRows ==
  ASSUME RelationInv, NEW c \in Calls, InStep(c, "decide")
  PROVE  /\ call[c].own = rel[call[c].user][call[c].target]
         /\ call[c].reverse = rel[call[c].target][call[c].user]
         /\ call[c].own \in Types /\ call[c].reverse \in Types
         /\ Mirrors(call[c].own, call[c].reverse)
<1>1. call[c].user \in Members /\ call[c].target \in Members /\ call[c].user # call[c].target
  BY PairOf, Zenon DEF InStep
<1>2. /\ call[c].own = rel[call[c].user][call[c].target]
      /\ call[c].reverse = rel[call[c].target][call[c].user]
  BY Zenon DEF RelationInv, ReadIsCurrent
<1>3. rel \in [Members -> [Members -> Types]]
  BY Zenon DEF RelationInv, RelationTypeOK
<1>4. Mirrors(call[c].own, call[c].reverse)
  BY <1>1, <1>2, Zenon DEF RelationInv, RelationshipsAgree
<1> QED  BY <1>1, <1>2, <1>3, <1>4, Zenon

\* Every decision of the RPCs commits rows that describe one relationship
\* (SendFriendRequest to UnblockUser of relationships.go).
LEMMA DecisionsKeep ==
  ASSUME RelationInv, NEW c \in Calls, InStep(c, "decide"),
         \/ SendFriendRequest(c) \/ AcceptFriendRequest(c) \/ DeclineFriendRequest(c)
         \/ RemoveFriend(c) \/ BlockUser(c) \/ UnblockUser(c)
  PROVE  RelationInv'
<1> DEFINE own == call[c].own  reverse == call[c].reverse
<1>1. /\ own = rel[call[c].user][call[c].target]
      /\ reverse = rel[call[c].target][call[c].user]
      /\ own \in Types /\ reverse \in Types
      /\ Mirrors(own, reverse)
  BY DecidedRows, Zenon
<1>2. ExceptBlocked(c) = IF reverse = "blocked" THEN reverse ELSE "none"
  BY <1>1, Zenon DEF ExceptBlocked
<1> HIDE DEF own, reverse
<1>3. CASE Commit(c, "outgoing", "incoming", "incoming")
  BY <1>3, CommitKeeps, Zenon DEF Types, Mirrors
<1>4. CASE acceptIntoFriendship(c)
  <2>1. Commit(c, "friend", "friend", "friend")
    BY <1>4, Zenon DEF acceptIntoFriendship
  <2> QED  BY <2>1, CommitKeeps, Zenon DEF Types, Mirrors
<1>5. CASE own \in {"friend", "outgoing", "incoming"} /\ removePair(c)
  <2>1. ExceptBlocked(c) = "none"
    BY <1>1, <1>2, <1>5, SMTT(20) DEF Mirrors
  <2>2. Commit(c, "none", "none", "none")
    BY <1>5, <2>1 DEF removePair
  <2> QED  BY <2>2, CommitKeeps, SMTT(20) DEF Types, Mirrors
<1>6. CASE BlockUser(c)
  <2>1. CASE reverse \in {"none", "blocked"}
    <3>1. Commit(c, "blocked", reverse, "nothing")
      BY <1>1, <1>6, <2>1, Zenon DEF BlockUser, reverse
    <3>2. "blocked" \in Types /\ Mirrors("blocked", reverse)
      BY <2>1, Zenon DEF Types, Mirrors
    <3> QED  BY <1>1, <3>1, <3>2, CommitKeeps, Zenon
  <2>2. CASE reverse \notin {"none", "blocked"}
    <3>1. Commit(c, "blocked", "none", "none")
      BY <1>1, <1>2, <1>6, <2>2, Zenon DEF BlockUser, reverse
    <3> QED  BY <3>1, CommitKeeps, Zenon DEF Types, Mirrors
  <2> QED  BY <2>1, <2>2, Zenon
<1>7. CASE own = "blocked" /\ UnblockUser(c)
  <2>1. Commit(c, "none", reverse, "nothing")
    BY <1>1, <1>7, Zenon DEF UnblockUser
  <2>2. "none" \in Types /\ Mirrors("none", reverse)
    BY <1>1, <1>7, Zenon DEF Types, Mirrors
  <2> QED  BY <1>1, <2>1, <2>2, CommitKeeps, Zenon
<1> QED
  BY <1>3, <1>4, <1>5, <1>6, <1>7
  DEF SendFriendRequest, AcceptFriendRequest, DeclineFriendRequest, RemoveFriend,
      UnblockUser, own

\* A call that ends without a decision changes no row.
LEMMA RollBackKeeps ==
  ASSUME RelationInv, NEW c \in Calls, RollBackMutation(c)
  PROVE  RelationInv'
<1>1. EndCall(c) /\ UNCHANGED <<rel, shown>>
  BY Zenon DEF RollBackMutation
<1>2. /\ call' \in [Calls -> CallStates \union {NoCall}]
      /\ locked' \in [Members -> SUBSET Calls]
      /\ TwoUsers' /\ LocksHeld'
      /\ call'[c] = NoCall
      /\ \A d \in Calls : d # c => call'[d] = call[d]
  BY <1>1, EndKeeps, Zenon
<1>3. RelationTypeOK'
  BY <1>1, <1>2, Zenon DEF RelationInv, RelationTypeOK
<1>4. ReadIsCurrent'
  BY <1>1, <1>2 DEF RelationInv, ReadIsCurrent, InStep, NoCall
<1>5. RelationshipsAgree'
  BY <1>1, Zenon DEF RelationInv, RelationshipsAgree, Mirrors
<1> QED  BY <1>2, <1>3, <1>4, <1>5, Zenon DEF RelationInv

\* With no call and no row, the invariant holds.
LEMMA RelationInitial == RelationInit => RelationInv
<1> SUFFICES ASSUME RelationInit
             PROVE  RelationInv
  OBVIOUS
<1>1. RelationTypeOK
  BY Zenon DEF RelationInit, RelationTypeOK, Types
<1>2. TwoUsers /\ LocksHeld /\ ReadIsCurrent
  BY Zenon DEF RelationInit, TwoUsers, LocksHeld, ReadIsCurrent, InStep, NoCall
<1>3. RelationshipsAgree
  BY Zenon DEF RelationInit, RelationshipsAgree, Mirrors
<1> QED  BY <1>1, <1>2, <1>3, Zenon DEF RelationInv

\* Every step of the User service's relationship calls keeps the invariant.
LEMMA RelationSteps == RelationInv /\ [RelationNext]_relationVars => RelationInv'
<1> SUFFICES ASSUME RelationInv, [RelationNext]_relationVars
             PROVE  RelationInv'
  OBVIOUS
<1>1. CASE UNCHANGED relationVars
  <2>1. UNCHANGED <<rel, shown, call, locked>>
    BY <1>1, Zenon DEF relationVars
  <2>2. \A c \in Calls : FirstLock(c)' = FirstLock(c)
    BY <2>1, FirstLockStays, Zenon
  <2>3. LocksHeld'
    BY <2>1, <2>2, Zenon DEF RelationInv, LocksHeld, InStep
  <2>4. RelationTypeOK' /\ TwoUsers' /\ ReadIsCurrent' /\ RelationshipsAgree'
    BY <2>1 DEF RelationInv, RelationTypeOK, TwoUsers, ReadIsCurrent, RelationshipsAgree,
                InStep, Mirrors
  <2> QED  BY <2>3, <2>4, Zenon DEF RelationInv
<1>2. ASSUME NEW c \in Calls, LockFirst(c)
      PROVE  RelationInv'
  <2>1. InStep(c, "first") /\ Take(c, FirstLock(c), "second")
    BY <1>2, Zenon DEF LockFirst
  <2>2. FirstLock(c) \in Members
    BY <2>1, LockOrder, Zenon DEF InStep
  <2> QED  BY <2>1, <2>2, TakeKeeps, Zenon
<1>3. ASSUME NEW c \in Calls, LockSecond(c)
      PROVE  RelationInv'
  <2>1. InStep(c, "second") /\ Take(c, SecondLock(c), "read")
    BY <1>3, Zenon DEF LockSecond
  <2>2. SecondLock(c) \in Members
    BY <2>1, LockOrder, Zenon DEF InStep
  <2> QED  BY <2>1, <2>2, TakeKeeps, Zenon
<1>4. ASSUME NEW c \in Calls,
             \/ SendFriendRequest(c) \/ AcceptFriendRequest(c) \/ DeclineFriendRequest(c)
             \/ RemoveFriend(c) \/ BlockUser(c) \/ UnblockUser(c)
      PROVE  RelationInv'
  <2>1. InStep(c, "decide")
    BY <1>4, Zenon DEF SendFriendRequest, AcceptFriendRequest, DeclineFriendRequest, RemoveFriend,
                BlockUser, UnblockUser
  <2> QED  BY <1>4, <2>1, DecisionsKeep, Zenon
<1> QED
  BY <1>1, <1>2, <1>3, <1>4, BeginKeeps, ReadKeeps, RollBackKeeps, Zenon DEF RelationNext

\* The two rows of every pair describe one relationship and every owner's
\* devices show its row, for any users and any number of concurrent calls
\* (relationships.go).
THEOREM PairsAgree == RelationSpec => []RelationshipsAgree
<1>1. RelationInv => RelationshipsAgree
  BY Zenon DEF RelationInv
<1> QED  BY RelationInitial, RelationSteps, <1>1, PTL DEF RelationSpec

\* No two calls are between their locks and their commit for one user, and each
\* decides on rows that are still committed (LockRelationshipPair).
THEOREM DecisionsAreCurrent == RelationSpec => [](LocksHeld /\ ReadIsCurrent)
<1>1. RelationInv => LocksHeld /\ ReadIsCurrent
  BY Zenon DEF RelationInv
<1> QED  BY RelationInitial, RelationSteps, <1>1, PTL DEF RelationSpec

-----------------------------------------------------------------------------
(***************************************************************************)
(* Read states and mentions.  A device past its upsert holds the row's     *)
(* lock until it commits (RowLocked), and the event it writes is what the  *)
(* row then shows; an expansion of a mention leaves the rows of the        *)
(* revision it read, or of a later one.                                    *)
(***************************************************************************)

(* Read states.  A device past its upsert holds the row's lock, so the row   *)
(* is still as that upsert read it when the device commits.                  *)
RowLocked ==
  \A d \in Devices :
    /\ ack[d].step \in {"list", "commit"} => holder = {d} /\ watermark <= ack[d].mark
    /\ ack[d].step = "commit" => ack[d].state.read = ack[d].mark

ReadInv == ReadTypeOK /\ RowLocked /\ ReadEventsFollowRow

-----------------------------------------------------------------------------
(* Mentions.  Every change of the message is one event, numbered by its      *)
(* revision; the last one tells whether the present content has mentions to  *)
(* expand.                                                                   *)
EventsFollowRevisions ==
  /\ Len(log) = message.revision
  /\ \A i \in 1..Len(log) : log[i].revision = i
  /\ message.life = "none" <=> message.revision = 0
  /\ message.content <= message.revision
  /\ message.life = "live" =>
       /\ message.content # 0
       /\ Skipped(log[message.revision]) <=>
            (message.content # message.revision \/ ~message.group)

(* A handler expands what is not skipped.                                    *)
HandlersExpand ==
  \A w \in Expanders : expander[w] # 0 => ~Skipped(log[expander[w]])

MentionInv ==
  MentionTypeOK /\ EventsFollowRevisions /\ HandlersExpand /\ ExpandedRowsAreCurrent

-----------------------------------------------------------------------------
(* A bounded set of numbers has a greatest member: what LastMessageId finds. *)
LEMMA GreatestIsMember ==
  ASSUME NEW s \in SUBSET Ids
  PROVE  Greatest(s) \in 0..LastId /\ \A m \in s : m <= Greatest(s)
<1>n. LastId \in Nat
  BY ReadConstants, Zenon
<1>1. CASE s = {}
  BY <1>1, <1>n DEF Greatest
<1>2. CASE s # {}
  <2> DEFINE gaps == {n \in Nat : \E m \in s : m + n = LastId}
  <2>1. gaps \subseteq Nat /\ gaps # {}
    <3>1. PICK m \in s : TRUE
      BY <1>2, Zenon
    <3>2. LastId - m \in Nat /\ m + (LastId - m) = LastId
      BY <3>1, <1>n DEF Ids
    <3> QED  BY <3>1, <3>2, Zenon
  <2>2. \E n \in gaps : \A k \in gaps : ~(<<k, n>> \in OpToRel(<, Nat))
    <3> HIDE DEF gaps
    <3> QED  BY <2>1, WFMin, NatLessThanWellFounded, Zenon
  <2>3. PICK n \in gaps : \A k \in gaps : ~(k < n)
    BY <2>1, <2>2, Zenon DEF OpToRel
  <2>4. PICK m \in s : m + n = LastId
    BY <2>3, Zenon
  <2>5. \A k \in s : k <= m
    <3> SUFFICES ASSUME NEW k \in s PROVE k <= m
      OBVIOUS
    <3>1. /\ k \in Nat /\ m \in Nat /\ n \in Nat /\ LastId - k \in Nat
          /\ k + (LastId - k) = LastId
      BY <1>n, <2>3 DEF Ids
    <3>2. LastId - k \in gaps
      BY <3>1, Zenon
    <3>3. ~(LastId - k < n)
      BY <3>2, <2>3, Zenon
    <3> QED  BY <3>1, <3>3, <2>4, <1>n
  <2>6. Greatest(s) \in s /\ \A k \in s : k <= Greatest(s)
    BY <1>2, <2>5, Zenon DEF Greatest
  <2>7. PICK g : g = Greatest(s)
    OBVIOUS
  <2>8. g \in 1..LastId
    BY <2>6, <2>7, Zenon DEF Ids
  <2>9. g \in 0..LastId
    BY <2>8, <1>n
  <2> QED  BY <2>6, <2>7, <2>9, Zenon
<1> QED  BY <1>1, <1>2, Zenon

(* The steps of AckMessage and what each knows.                              *)
LEMMA AckShapes ==
  /\ NoAck.step = "idle" /\ NoAck \in Acks \union {NoAck}
  /\ \A a \in Acks \union {NoAck} :
       /\ a.step \in {"idle", "upsert", "list", "commit"}
       /\ a.step # "idle" => a.target \in Ids
       /\ a.step \in {"list", "commit"} => a.mark \in 0..LastId
       /\ a.step = "commit" => a.state \in ReadStatesSet
BY DEF Acks, NoAck

(* The row is advanced under its lock and announced with its commit          *)
(* (AckMessage, read_states.go; ackMessageQuery).                            *)
LEMMA ReadStep ==
  ASSUME ReadInv, [ReadNext]_readVars
  PROVE  ReadInv'
<1>n. LastId \in Nat
  BY ReadConstants, Zenon
<1>t. /\ posted \in [Ids -> {"none", "live", "deleted"}] /\ watermark \in 0..LastId
      /\ ack \in [Devices -> Acks \union {NoAck}] /\ holder \in SUBSET Devices
      /\ told \in Seq(ReadStatesSet)
  BY Zenon DEF ReadInv, ReadTypeOK
<1>r. RowLocked /\ ReadEventsFollowRow
  BY Zenon DEF ReadInv
<1>a. \A d \in Devices :
        /\ ack[d].step # "idle" => ack[d].target \in Ids
        /\ ack[d].step \in {"list", "commit"} => ack[d].mark \in 0..LastId
        /\ ack[d].step = "commit" => ack[d].state \in ReadStatesSet
  BY <1>t, AckShapes, Zenon
(* A step of one device that leaves row and events alone.                    *)
<1>q. ASSUME NEW d \in Devices, NEW a \in Acks \union {NoAck}, ack' = [ack EXCEPT ![d] = a],
             a.step \in {"list", "commit"} =>
               /\ holder' = {d} /\ watermark <= a.mark
               /\ \A e \in Devices \ {d} : ack[e].step \notin {"list", "commit"},
             a.step = "commit" => a.state.read = a.mark,
             holder' \in SUBSET Devices,
             \A e \in Devices \ {d} : holder = {e} => holder' = {e},
             UNCHANGED <<watermark, told>>,
             posted' \in [Ids -> {"none", "live", "deleted"}]
      PROVE  ReadInv'
  <2>1. ack' \in [Devices -> Acks \union {NoAck}]
    BY <1>q, <1>t, Zenon
  <2>2. RowLocked'
    <3> SUFFICES ASSUME NEW e \in Devices
                 PROVE  /\ ack'[e].step \in {"list", "commit"} =>
                             holder' = {e} /\ watermark <= ack'[e].mark
                        /\ ack'[e].step = "commit" => ack'[e].state.read = ack'[e].mark
      BY <1>q, Zenon DEF RowLocked
    <3>1. CASE e = d
      <4>1. ack'[e] = a
        BY <3>1, <1>q, <1>t, Zenon
      <4> QED  BY <4>1, <3>1, <1>q, Zenon
    <3>2. CASE e # d
      <4>1. ack'[e] = ack[e]
        BY <3>2, <1>q, <1>t, Zenon
      <4> QED  BY <4>1, <3>2, <1>q, <1>r, Zenon DEF RowLocked
    <3> QED  BY <3>1, <3>2, Zenon
  <2>3. ReadEventsFollowRow'
    BY <1>q, <1>r, Zenon DEF ReadEventsFollowRow
  <2> QED  BY <2>1, <2>2, <2>3, <1>q, <1>t, Zenon DEF ReadInv, ReadTypeOK
<1>1. ASSUME NEW m \in Ids, StoreMessage(m) \/ RemoveMessage(m)
      PROVE  ReadInv'
  <2>1. /\ UNCHANGED <<watermark, ack, holder, told>>
        /\ posted' \in [Ids -> {"none", "live", "deleted"}]
    BY <1>1, <1>t, Zenon DEF StoreMessage, RemoveMessage
  <2> QED  BY <2>1, <1>t, <1>r, Zenon DEF ReadInv, ReadTypeOK, RowLocked, ReadEventsFollowRow
<1>2. ASSUME NEW d \in Devices, NEW m \in Ids, BeginAck(d, m)
      PROVE  ReadInv'
  <2> DEFINE a == [step |-> "upsert", target |-> m]
  <2>1. /\ ack' = [ack EXCEPT ![d] = a] /\ UNCHANGED <<posted, watermark, holder, told>>
    BY <1>2, Zenon DEF BeginAck
  <2>2. a \in Acks \union {NoAck} /\ a.step = "upsert"
    BY Zenon DEF Acks
  <2> HIDE DEF a
  <2> QED  BY <2>1, <2>2, <1>q, <1>t, Zenon
<1>3. ASSUME NEW d \in Devices, Upsert(d)
      PROVE  ReadInv'
  <2> DEFINE x == ack[d].target
             v == Advanced(d)
             a == [step |-> "list", target |-> x, mark |-> v]
  <2>1. /\ ack[d].step = "upsert" /\ holder = {} /\ holder' = {d}
        /\ ack' = [ack EXCEPT ![d] = a] /\ UNCHANGED <<posted, watermark, told>>
    BY <1>3, Zenon DEF Upsert
  <2>2. x \in Ids
    BY <2>1, <1>a, Zenon
  <2>3. v \in 0..LastId /\ watermark <= v
    BY <2>2, <1>t, <1>n, SMTT(20) DEF Advanced, Ids
  <2> HIDE DEF x, v
  <2>4. a \in Acks \union {NoAck} /\ a.step = "list" /\ a.mark = v
    BY <2>2, <2>3, Zenon DEF Acks
  <2>5. \A e \in Devices : ack[e].step \notin {"list", "commit"}
    BY <2>1, <1>r, Zenon DEF RowLocked
  <2> HIDE DEF a
  <2> QED  BY <2>1, <2>3, <2>4, <2>5, <1>q, <1>t, Zenon
<1>4. ASSUME NEW d \in Devices, ListState(d)
      PROVE  ReadInv'
  <2> DEFINE x == ack[d].target
             v == ack[d].mark
             s == [last |-> LastMessageId, read |-> v]
             a == [step |-> "commit", target |-> x, mark |-> v, state |-> s]
  <2>1. /\ ack[d].step = "list" /\ ack' = [ack EXCEPT ![d] = a]
        /\ UNCHANGED <<posted, watermark, holder, told>>
    BY <1>4, Zenon DEF ListState
  <2>2. x \in Ids /\ v \in 0..LastId
    BY <2>1, <1>a, Zenon
  <2>3. LastMessageId \in 0..LastId
    BY GreatestIsMember, Zenon DEF LastMessageId
  <2>4. holder = {d} /\ watermark <= v
    BY <2>1, <1>r, Zenon DEF RowLocked
  <2> HIDE DEF x, v
  <2>5. s \in ReadStatesSet /\ s.read = v
    BY <2>2, <2>3, Zenon DEF ReadStatesSet
  <2> HIDE DEF s
  <2>6. /\ a \in Acks \union {NoAck} /\ a.step = "commit" /\ a.mark = v
        /\ a.state = s
    BY <2>2, <2>5, Zenon DEF Acks
  <2>7. \A e \in Devices \ {d} : ack[e].step \notin {"list", "commit"}
    BY <2>4, <1>r, Zenon DEF RowLocked
  <2> HIDE DEF a
  <2> QED  BY <2>1, <2>4, <2>5, <2>6, <2>7, <1>q, <1>t, Zenon
<1>5. ASSUME NEW d \in Devices, AckFails(d)
      PROVE  ReadInv'
  <2>1. /\ ack' = [ack EXCEPT ![d] = NoAck] /\ holder' = holder \ {d}
        /\ UNCHANGED <<posted, watermark, told>>
    BY <1>5, Zenon DEF AckFails, EndAck
  <2>2. NoAck \in Acks \union {NoAck} /\ NoAck.step = "idle"
    BY AckShapes, Zenon
  <2> QED  BY <2>1, <2>2, <1>q, <1>t, Zenon
<1>6. ASSUME NEW d \in Devices, CommitAck(d)
      PROVE  ReadInv'
  <2> DEFINE v == ack[d].mark
             s == ack[d].state
  <2>1. /\ ack[d].step = "commit" /\ watermark' = v
        /\ told' = IF v = watermark THEN told ELSE Append(told, s)
        /\ ack' = [ack EXCEPT ![d] = NoAck] /\ holder' = holder \ {d} /\ posted' = posted
    BY <1>6, Zenon DEF CommitAck, EndAck
  <2>2. v \in 0..LastId /\ s \in ReadStatesSet
    BY <2>1, <1>a, Zenon
  <2>3. holder = {d} /\ watermark <= v /\ s.read = v
    BY <2>1, <1>r, Zenon DEF RowLocked
  <2> HIDE DEF v, s
  <2>4. NoAck \in Acks \union {NoAck} /\ NoAck.step = "idle"
    BY AckShapes, Zenon
  <2>5. ack' \in [Devices -> Acks \union {NoAck}]
    BY <2>1, <2>4, <1>t, Zenon
  <2>6. \A e \in Devices : ack'[e].step \notin {"list", "commit"}
    <3> SUFFICES ASSUME NEW e \in Devices PROVE ack'[e].step \notin {"list", "commit"}
      OBVIOUS
    <3>1. CASE e = d
      BY <3>1, <2>1, <2>4, <1>t, Zenon
    <3>2. CASE e # d
      BY <3>2, <2>1, <2>3, <1>t, <1>r, Zenon DEF RowLocked
    <3> QED  BY <3>1, <3>2, Zenon
  <2>7. RowLocked'
    BY <2>6, Zenon DEF RowLocked
  <2>8. told' \in Seq(ReadStatesSet) /\ ReadEventsFollowRow'
    <3>1. CASE v = watermark
      BY <3>1, <2>1, <1>t, <1>r, Zenon DEF ReadEventsFollowRow
    <3>2. CASE v # watermark
      <4>1. watermark < v
        BY <3>2, <2>2, <2>3, <1>t, <1>n
      <4>2. told' = Append(told, s)
        BY <3>2, <2>1, Zenon
      <4>3. /\ told' \in Seq(ReadStatesSet) /\ Len(told') = Len(told) + 1
            /\ \A i \in 1..Len(told) : told'[i] = told[i]
            /\ told'[Len(told) + 1] = s /\ told' # <<>> /\ Len(told) \in Nat
            /\ DOMAIN told' = 1..(Len(told) + 1) /\ DOMAIN told = 1..Len(told)
        BY <4>2, <2>2, <1>t
      <4>4. \A i \in 1..Len(told) : told[i].read \in Nat /\ told[i].read <= watermark
        <5> SUFFICES ASSUME NEW i \in 1..Len(told)
                     PROVE  told[i].read \in Nat /\ told[i].read <= watermark
          OBVIOUS
        <5>1. told # <<>> /\ Len(told) \in 1..Len(told)
          BY <1>t
        <5>2. watermark = told[Len(told)].read
          BY <5>1, <1>r, Zenon DEF ReadEventsFollowRow
        <5>3. told[i] \in ReadStatesSet
          BY <1>t
        <5>4. told[i].read \in Nat
          BY <5>3, <1>n DEF ReadStatesSet
        <5>5. CASE i = Len(told)
          BY <5>2, <5>4, <5>5
        <5>6. CASE i < Len(told)
          <6>1. told[i].read < told[Len(told)].read
            BY <5>1, <5>6, <4>3, <1>r, Zenon DEF ReadEventsFollowRow
          <6>2. watermark \in Nat
            BY <1>t, <1>n
          <6> QED  BY <6>1, <6>2, <5>2, <5>4
        <5>7. Len(told) \in Nat
          BY <1>t
        <5> QED  BY <5>5, <5>6, <5>7
      <4>5. \A i, j \in DOMAIN told' : i < j => told'[i].read < told'[j].read
        <5> SUFFICES ASSUME NEW i \in DOMAIN told', NEW j \in DOMAIN told', i < j
                     PROVE  told'[i].read < told'[j].read
          OBVIOUS
        <5>1. i \in 1..Len(told) /\ told'[i] = told[i]
          BY <4>3
        <5>2. CASE j \in 1..Len(told)
          BY <5>1, <5>2, <4>3, <1>r, Zenon DEF ReadEventsFollowRow
        <5>3. CASE j = Len(told) + 1
          <6>1. told[i].read \in Nat /\ told[i].read <= watermark /\ told'[j].read = v
            BY <5>1, <5>3, <4>3, <4>4, <2>3, Zenon
          <6>2. watermark \in Nat /\ v \in Nat
            BY <1>t, <1>n, <2>2
          <6> QED  BY <6>1, <6>2, <5>1, <4>1
        <5> QED  BY <5>2, <5>3, <4>3
      <4>6. watermark' = told'[Len(told')].read
        BY <4>3, <2>1, <2>3, Zenon
      <4> QED  BY <4>3, <4>5, <4>6, Zenon DEF ReadEventsFollowRow
    <3> QED  BY <3>1, <3>2, Zenon
  <2> QED  BY <2>1, <2>2, <2>5, <2>7, <2>8, <1>t, Zenon DEF ReadInv, ReadTypeOK
<1>7. CASE UNCHANGED readVars
  BY <1>7, <1>t, <1>r, Zenon DEF readVars, ReadInv, ReadTypeOK, RowLocked, ReadEventsFollowRow
<1> QED  BY <1>1, <1>2, <1>3, <1>4, <1>5, <1>6, <1>7, Zenon DEF ReadNext

(* The read-state events of a user grow and end at the stored watermark, for *)
(* any number of devices and messages (read_states.go).                      *)
THEOREM ReadEventsAreCurrent == ReadSpec => []ReadEventsFollowRow
<1>1. ReadInit => ReadInv
  <2> SUFFICES ASSUME ReadInit PROVE ReadInv
    OBVIOUS
  <2>1. ReadTypeOK
    BY ReadConstants, AckShapes DEF ReadInit, ReadTypeOK
  <2>2. RowLocked
    BY AckShapes, Zenon DEF ReadInit, RowLocked
  <2>3. ReadEventsFollowRow
    BY DEF ReadInit, ReadEventsFollowRow
  <2> QED  BY <2>1, <2>2, <2>3, Zenon DEF ReadInv
<1>2. ReadInv /\ [ReadNext]_readVars => ReadInv'
  BY ReadStep, Zenon
<1>3. ReadInv => ReadEventsFollowRow
  BY Zenon DEF ReadInv
<1> QED  BY <1>1, <1>2, <1>3, PTL DEF ReadSpec

-----------------------------------------------------------------------------
(* Every step of a transaction or a handler keeps the rows and the events in *)
(* agreement (UpdateMessage, handleRecord, RebuildExpandedMessageMentions).  *)
LEMMA MentionStep ==
  ASSUME MentionInv, [MentionNext]_mentionVars
  PROVE  MentionInv'
<1> DEFINE MessageRows == [life : {"none", "live", "deleted"}, revision : 0..MaxRevision,
                           content : 0..MaxRevision, group : BOOLEAN]
<1>n. MaxRevision \in Nat /\ 1 <= MaxRevision
  BY MentionConstants
<1>t. /\ message \in MessageRows /\ expanded \in 0..MaxRevision
      /\ log \in Seq(Events) /\ done \in 0..Len(log)
      /\ expander \in [Expanders -> 0..Len(log)] /\ gaveUp \in BOOLEAN
  BY Zenon DEF MentionInv, MentionTypeOK
<1>m. /\ message.revision \in Nat /\ message.content \in Nat
      /\ message.revision \in 0..MaxRevision /\ message.content \in 0..MaxRevision
      /\ message.life \in {"none", "live", "deleted"} /\ message.group \in BOOLEAN
  BY <1>t, <1>n
<1>l. Len(log) \in Nat /\ done \in Nat
  BY <1>t
<1>e. /\ Len(log) = message.revision
      /\ \A i \in 1..Len(log) : log[i].revision = i
      /\ message.life = "none" <=> message.revision = 0
      /\ message.content <= message.revision
      /\ message.life = "live" =>
           /\ message.content # 0
           /\ Skipped(log[message.revision]) <=>
                (message.content # message.revision \/ ~message.group)
  BY Zenon DEF MentionInv, EventsFollowRevisions
<1>h. HandlersExpand
  BY Zenon DEF MentionInv
<1>x. /\ expanded # 0 => message.life = "live" /\ message.group /\ expanded = message.content
      /\ message.life = "live" /\ message.group /\ message.content = message.revision
           /\ done = Len(log) /\ ~gaveUp => expanded = message.content
  BY Zenon DEF MentionInv, ExpandedRowsAreCurrent
<1> HIDE DEF MessageRows
(* A transaction stores a newer row and appends its event.                   *)
<1>q. ASSUME NEW m \in MessageRows, NEW e \in Events, message' = m, log' = Append(log, e),
             m.revision = message.revision + 1, e.revision = message.revision + 1,
             m.life # "none", m.content <= m.revision,
             m.life = "live" => /\ m.content # 0
                                /\ Skipped(e) <=> (m.content # m.revision \/ ~m.group),
             expanded' \in {0, expanded},
             expanded' # 0 => m.life = "live" /\ m.group /\ m.content = expanded,
             UNCHANGED <<done, expander, gaveUp>>
      PROVE  MentionInv'
  <2>1. /\ log' \in Seq(Events) /\ Len(log') = Len(log) + 1
        /\ log'[Len(log) + 1] = e
        /\ \A i \in 1..Len(log) : log'[i] = log[i]
    BY <1>q, <1>t
  <2>2. \A i \in 0..Len(log) : i \in 0..Len(log')
    BY <2>1, <1>l
  <2>3. expander' \in [Expanders -> 0..Len(log')]
    BY <2>2, <1>q, <1>t, Zenon
  <2>4. expanded' \in 0..MaxRevision /\ done' \in 0..Len(log')
    BY <2>2, <1>q, <1>t, <1>n
  <2>5. MentionTypeOK'
    BY <2>1, <2>3, <2>4, <1>q, <1>t, Zenon DEF MentionTypeOK, MessageRows
  <2>6. EventsFollowRevisions'
    <3>1. \A i \in 1..Len(log') : log'[i].revision = i
      <4> SUFFICES ASSUME NEW i \in 1..Len(log') PROVE log'[i].revision = i
        OBVIOUS
      <4>1. CASE i \in 1..Len(log)
        BY <4>1, <2>1, <1>e, Zenon
      <4>2. CASE i = Len(log) + 1
        BY <4>2, <2>1, <1>q, <1>e, Zenon
      <4> QED  BY <4>1, <4>2, <2>1, <1>l
    <3>2. log'[message'.revision] = e
      BY <2>1, <1>q, <1>e, Zenon
    <3>3. Len(log') = message'.revision /\ message'.revision # 0
      BY <2>1, <1>q, <1>e, <1>m
    <3>4. Skipped(log'[message'.revision]) <=> Skipped(e)
      BY <3>2, Zenon
    <3> HIDE DEF Skipped
    <3>5. message'.life = "live" =>
            /\ message'.content # 0
            /\ Skipped(log'[message'.revision]) <=>
                 (message'.content # message'.revision \/ ~message'.group)
      BY <3>4, <1>q, Zenon
    <3> QED  BY <3>1, <3>3, <3>5, <1>q, Zenon DEF EventsFollowRevisions, Skipped
  <2>7. HandlersExpand'
    <3> SUFFICES ASSUME NEW w \in Expanders, expander'[w] # 0
                 PROVE  ~Skipped(log'[expander'[w]])
      BY Zenon DEF HandlersExpand, Skipped
    <3>1. expander'[w] = expander[w] /\ expander[w] \in 1..Len(log)
      BY <1>q, <1>t, <1>l
    <3>2. log'[expander'[w]] = log[expander[w]]
      BY <3>1, <2>1
    <3> QED  BY <3>1, <3>2, <1>h, Zenon DEF HandlersExpand
  <2>8. ExpandedRowsAreCurrent'
    <3>1. expanded' # 0 => message'.life = "live" /\ message'.group /\ expanded' = message'.content
      BY <1>q, Zenon
    <3>2. done' # Len(log')
      BY <2>1, <1>q, <1>t, <1>l
    <3> QED  BY <3>1, <3>2, Zenon DEF ExpandedRowsAreCurrent
  <2> QED  BY <2>5, <2>6, <2>7, <2>8, Zenon DEF MentionInv
(* A handler leaves the message and its events alone.                        *)
<1>r. ASSUME UNCHANGED <<message, log>>, expanded' \in 0..MaxRevision, done' \in 0..Len(log),
             expander' \in [Expanders -> 0..Len(log)], gaveUp' \in BOOLEAN,
             \A w \in Expanders : expander'[w] # 0 => ~Skipped(log[expander'[w]]),
             ExpandedRowsAreCurrent'
      PROVE  MentionInv'
  <2>1. MentionTypeOK'
    BY <1>r, <1>t, Zenon DEF MentionTypeOK, MessageRows
  <2>2. EventsFollowRevisions'
    <3>1. EventsFollowRevisions
      BY Zenon DEF MentionInv
    <3> QED  BY <3>1, <1>r, Zenon DEF EventsFollowRevisions, Skipped
  <2>3. HandlersExpand'
    BY <1>r, Zenon DEF HandlersExpand, Skipped
  <2> QED  BY <2>1, <2>2, <2>3, <1>r, Zenon DEF MentionInv
(* The group moves past record i only when nothing is left to expand in it.  *)
<1>f. ASSUME NEW i \in 1..Len(log), Finish(i)
      PROVE  /\ done' \in 0..Len(log)
             /\ done' = Len(log) => done = Len(log) \/ i = message.revision
  BY <1>f, <1>l, <1>e, <1>t DEF Finish
<1>1. ASSUME NEW group \in BOOLEAN, CreateMessage(group)
      PROVE  MentionInv'
  <2> DEFINE m == [life |-> "live", revision |-> 1, content |-> 1, group |-> group]
             e == [type |-> "created", revision |-> 1, rebuild |-> FALSE, group |-> group]
  <2>1. /\ message.life = "none" /\ message' = m /\ log' = Append(log, e)
        /\ UNCHANGED <<expanded, done, expander, gaveUp>>
    BY <1>1, Zenon DEF CreateMessage, Publish
  <2>2. message.revision = 0 /\ expanded = 0
    BY <2>1, <1>e, <1>x
  <2>3. m \in MessageRows /\ e \in Events
    BY <1>n DEF MessageRows, Events, Revisions
  <2>4. /\ m.life = "live" /\ m.revision = 1 /\ m.content = 1 /\ m.group = group
        /\ e.revision = 1
        /\ Skipped(e) <=> ~group
    BY Zenon DEF Skipped
  <2> HIDE DEF m, e
  <2> QED  BY <2>1, <2>2, <2>3, <2>4, <1>q
<1>2. ASSUME NEW group \in BOOLEAN, EditContent(group)
      PROVE  MentionInv'
  <2> DEFINE r == message.revision + 1
             m == [life |-> "live", revision |-> r, content |-> r, group |-> group]
             e == [type |-> "updated", revision |-> r, rebuild |-> TRUE, group |-> group]
  <2>1. /\ message.revision < MaxRevision /\ message' = m /\ log' = Append(log, e)
        /\ expanded' = 0 /\ UNCHANGED <<done, expander, gaveUp>>
    BY <1>2, Zenon DEF EditContent, Publish
  <2>2. r \in 1..MaxRevision /\ r \in 0..MaxRevision /\ r # 0 /\ r <= r
    BY <2>1, <1>m, <1>n
  <2>3. m \in MessageRows /\ e \in Events
    BY <2>2, Zenon DEF MessageRows, Events, Revisions
  <2>4. /\ m.life = "live" /\ m.revision = r /\ m.content = r /\ m.group = group
        /\ e.revision = r
        /\ Skipped(e) <=> ~group
    BY Zenon DEF Skipped
  <2> HIDE DEF m, e
  <2> QED  BY <2>1, <2>2, <2>3, <2>4, <1>q, Zenon
<1>3. ASSUME EditRest
      PROVE  MentionInv'
  <2> DEFINE r == message.revision + 1
             m == [life |-> "live", revision |-> r, content |-> message.content,
                   group |-> message.group]
             e == [type |-> "updated", revision |-> r, rebuild |-> FALSE,
                   group |-> message.group]
  <2>0. /\ message.life = "live" /\ message' = [message EXCEPT !.revision = r]
        /\ UNCHANGED <<expanded, done, expander, gaveUp>>
    BY <1>3, Zenon DEF EditRest
  <2>1. message' = m
    BY <2>0, <1>t, Zenon DEF MessageRows
  <2>2. message.revision < MaxRevision /\ log' = Append(log, e)
    BY <2>1, <1>3, Zenon DEF EditRest, Publish
  <2>3. r \in 1..MaxRevision /\ r \in 0..MaxRevision
    BY <2>2, <1>m, <1>n, SMTT(20)
  <2>4. m \in MessageRows /\ e \in Events
    BY <2>3, <1>m, Zenon DEF MessageRows, Events, Revisions
  <2>5. message.content # 0 /\ message.content <= r /\ message.content # r
    BY <2>0, <1>e, <1>m
  <2>6. /\ m.life = "live" /\ m.revision = r /\ m.content = message.content
        /\ m.group = message.group /\ e.revision = r /\ Skipped(e)
    BY Zenon DEF Skipped
  <2> HIDE DEF m, e
  <2> QED  BY <2>0, <2>1, <2>2, <2>4, <2>5, <2>6, <1>q, <1>x, Zenon
<1>4. ASSUME DeleteMessage
      PROVE  MentionInv'
  <2> DEFINE r == message.revision + 1
             m == [life |-> "deleted", revision |-> r, content |-> message.content,
                   group |-> message.group]
             e == [type |-> "deleted", revision |-> r, rebuild |-> FALSE,
                   group |-> message.group]
  <2>0. /\ message' = [message EXCEPT !.life = "deleted", !.revision = r]
        /\ expanded' = 0 /\ UNCHANGED <<done, expander, gaveUp>>
    BY <1>4, Zenon DEF DeleteMessage
  <2>1. message' = m
    BY <2>0, <1>t, Zenon DEF MessageRows
  <2>2. message.revision < MaxRevision /\ log' = Append(log, e)
    BY <2>1, <1>4, Zenon DEF DeleteMessage, Publish
  <2>3. r \in 1..MaxRevision /\ r \in 0..MaxRevision
    BY <2>2, <1>m, <1>n, SMTT(20)
  <2>4. m \in MessageRows /\ e \in Events
    BY <2>3, <1>m, Zenon DEF MessageRows, Events, Revisions
  <2>5. message.content <= r
    BY <1>e, <1>m
  <2>6. /\ m.life = "deleted" /\ m.revision = r /\ m.content = message.content
        /\ e.revision = r
    OBVIOUS
  <2> HIDE DEF m, e
  <2> QED  BY <2>0, <2>1, <2>2, <2>4, <2>5, <2>6, <1>q, Zenon
<1>5. ASSUME NEW w \in Expanders, NEW i \in 1..Len(log), HandleRecord(w, i)
      PROVE  MentionInv'
  <2>1. UNCHANGED <<message, expanded, log, gaveUp>>
    BY <1>5, Zenon DEF HandleRecord
  <2>2. ASSUME Skipped(log[i]) \/ Outdated(log[i])
        PROVE  MentionInv'
    <3>1. Finish(i) /\ expander' = expander
      BY <1>5, <2>2, Zenon DEF HandleRecord
    <3>2. /\ done' \in 0..Len(log)
          /\ done' = Len(log) => done = Len(log) \/ i = message.revision
      BY <3>1, <1>f, Zenon
    <3>3. ~(i = message.revision /\ message.life = "live" /\ message.group
            /\ message.content = message.revision)
      BY <2>2, <1>e, Zenon DEF Outdated
    <3>4. ExpandedRowsAreCurrent'
      BY <2>1, <3>2, <3>3, <1>x, Zenon DEF ExpandedRowsAreCurrent
    <3>5. \A v \in Expanders : expander'[v] # 0 => ~Skipped(log[expander'[v]])
      BY <3>1, <1>h, Zenon DEF HandlersExpand
    <3> QED  BY <2>1, <3>1, <3>2, <3>4, <3>5, <1>r, <1>t, Zenon
  <2>3. ASSUME ~Skipped(log[i]), ~Outdated(log[i])
        PROVE  MentionInv'
    <3>1. expander' = [expander EXCEPT ![w] = i] /\ done' = done
      BY <1>5, <2>3, Zenon DEF HandleRecord
    <3>2. i \in 0..Len(log)
      BY <1>l
    <3>3. expander' \in [Expanders -> 0..Len(log)]
      BY <3>1, <3>2, <1>t, Zenon
    <3>4. ASSUME NEW v \in Expanders, expander'[v] # 0
          PROVE  ~Skipped(log[expander'[v]])
      <4>1. CASE v = w
        BY <4>1, <3>1, <2>3, <1>t, Zenon
      <4>2. CASE v # w
        <5>1. expander'[v] = expander[v]
          BY <4>2, <3>1, <1>t, Zenon
        <5> QED  BY <5>1, <3>4, <1>h, Zenon DEF HandlersExpand
      <4> QED  BY <4>1, <4>2, Zenon
    <3>5. ExpandedRowsAreCurrent'
      BY <2>1, <3>1, <1>x, Zenon DEF ExpandedRowsAreCurrent
    <3> QED  BY <2>1, <3>1, <3>3, <3>4, <3>5, <1>r, <1>t, Zenon
  <2> QED  BY <2>2, <2>3, Zenon
(* The three ends of a handler's record.                                     *)
<1>w. ASSUME NEW w \in Expanders, expander[w] # 0, expander' = [expander EXCEPT ![w] = 0]
      PROVE  /\ expander[w] \in 1..Len(log) /\ ~Skipped(log[expander[w]])
             /\ log[expander[w]].revision = expander[w]
             /\ expander' \in [Expanders -> 0..Len(log)]
             /\ \A v \in Expanders : expander'[v] # 0 => ~Skipped(log[expander'[v]])
  <2>1. expander[w] \in 1..Len(log)
    BY <1>w, <1>t, <1>l
  <2>2. ~Skipped(log[expander[w]])
    BY <1>w, <1>h, Zenon DEF HandlersExpand
  <2>3. expander' \in [Expanders -> 0..Len(log)]
    BY <1>w, <1>t, <1>l
  <2>4. ASSUME NEW v \in Expanders, expander'[v] # 0
        PROVE  ~Skipped(log[expander'[v]])
    <3>1. expander'[v] = expander[v]
      BY <2>4, <1>w, <1>t, Zenon
    <3> QED  BY <3>1, <2>4, <1>h, Zenon DEF HandlersExpand
  <2> QED  BY <2>1, <2>2, <2>3, <2>4, <1>e, Zenon
<1>6. ASSUME NEW w \in Expanders, RebuildExpandedMessageMentions(w)
      PROVE  MentionInv'
  <2> DEFINE i == expander[w]
  <2>1. /\ i # 0 /\ Finish(i) /\ expander' = [expander EXCEPT ![w] = 0]
        /\ expanded' = IF Outdated(log[i]) THEN expanded ELSE log[i].revision
        /\ UNCHANGED <<message, log, gaveUp>>
    BY <1>6, Zenon DEF RebuildExpandedMessageMentions
  <2>2. /\ i \in 1..Len(log) /\ ~Skipped(log[i]) /\ log[i].revision = i
        /\ expander' \in [Expanders -> 0..Len(log)]
        /\ \A v \in Expanders : expander'[v] # 0 => ~Skipped(log[expander'[v]])
    BY <2>1, <1>w, Zenon
  <2> HIDE DEF i
  <2>3. /\ done' \in 0..Len(log)
        /\ done' = Len(log) => done = Len(log) \/ i = message.revision
    BY <2>1, <2>2, <1>f, Zenon
  <2>4. ASSUME Outdated(log[i])
        PROVE  MentionInv'
    <3>1. expanded' = expanded
      BY <2>1, <2>4, Zenon
    <3>2. ~(i = message.revision /\ message.life = "live")
      BY <2>2, <2>4, Zenon DEF Outdated
    <3>3. ExpandedRowsAreCurrent'
      BY <2>1, <2>3, <3>1, <3>2, <1>x, Zenon DEF ExpandedRowsAreCurrent
    <3> QED  BY <2>1, <2>2, <2>3, <3>1, <3>3, <1>r, <1>t, Zenon
  <2>5. ASSUME ~Outdated(log[i])
        PROVE  MentionInv'
    <3>1. message.life = "live" /\ message.revision = i /\ expanded' = i
      BY <2>1, <2>2, <2>5, Zenon DEF Outdated
    <3>2. message.content = i /\ message.group
      BY <3>1, <2>2, <1>e, Zenon
    <3>3. ExpandedRowsAreCurrent'
      BY <2>1, <3>1, <3>2, Zenon DEF ExpandedRowsAreCurrent
    <3>4. expanded' \in 0..MaxRevision
      BY <3>1, <3>2, <1>m, Zenon
    <3> QED  BY <2>1, <2>2, <2>3, <3>3, <3>4, <1>r, <1>t, Zenon
  <2> QED  BY <2>4, <2>5, Zenon
<1>7. ASSUME NEW w \in Expanders, RetryExpansion(w)
      PROVE  MentionInv'
  <2>1. /\ expander[w] # 0 /\ expander' = [expander EXCEPT ![w] = 0]
        /\ UNCHANGED <<message, expanded, log, done, gaveUp>>
    BY <1>7, Zenon DEF RetryExpansion
  <2>2. ExpandedRowsAreCurrent'
    BY <2>1, <1>x, Zenon DEF ExpandedRowsAreCurrent
  <2> QED  BY <2>1, <2>2, <1>w, <1>r, <1>t, Zenon
<1>8. ASSUME NEW w \in Expanders, DropExpansion(w)
      PROVE  MentionInv'
  <2>1. /\ expander[w] # 0 /\ Finish(expander[w]) /\ expander' = [expander EXCEPT ![w] = 0]
        /\ gaveUp' = TRUE /\ UNCHANGED <<message, expanded, log>>
    BY <1>8, Zenon DEF DropExpansion
  <2>2. expander[w] \in 1..Len(log)
    BY <2>1, <1>w, Zenon
  <2>3. done' \in 0..Len(log)
    BY <2>1, <2>2, <1>f, Zenon
  <2>4. ExpandedRowsAreCurrent'
    BY <2>1, <1>x, Zenon DEF ExpandedRowsAreCurrent
  <2> QED  BY <2>1, <2>3, <2>4, <1>w, <1>r, <1>t, Zenon
<1>9. CASE UNCHANGED mentionVars
  <2>1. UNCHANGED <<message, expanded, log, done, expander, gaveUp>>
    BY <1>9, Zenon DEF mentionVars
  <2>2. ExpandedRowsAreCurrent'
    BY <2>1, <1>x, Zenon DEF ExpandedRowsAreCurrent
  <2> QED  BY <2>1, <2>2, <1>r, <1>t, <1>h, Zenon DEF HandlersExpand
<1> QED  BY <1>1, <1>2, <1>3, <1>4, <1>5, <1>6, <1>7, <1>8, <1>9, Zenon DEF MentionNext

(* Expanded mention rows are those of the message's present content, and are *)
(* there once its events are handled, for any number of overlapping handlers *)
(* and any length of the message's history (mention_expander.go).            *)
THEOREM ExpandedRowsStayCurrent == MentionSpec => []ExpandedRowsAreCurrent
<1>1. MentionInit => MentionInv
  <2> SUFFICES ASSUME MentionInit PROVE MentionInv
    OBVIOUS
  <2>0. log = <<>> /\ Len(log) = 0 /\ log \in Seq(Events)
    BY DEF MentionInit
  <2>b. 0 \in 0..MaxRevision /\ 0 \in 0..Len(log)
    BY <2>0, MentionConstants
  <2>c. expander \in [Expanders -> 0..Len(log)] /\ done \in 0..Len(log)
    BY <2>b, Zenon DEF MentionInit
  <2>d. message \in [life : {"none", "live", "deleted"}, revision : 0..MaxRevision,
                     content : 0..MaxRevision, group : BOOLEAN]
    BY <2>b, Zenon DEF MentionInit
  <2>1. MentionTypeOK
    BY <2>0, <2>b, <2>c, <2>d, Zenon DEF MentionInit, MentionTypeOK
  <2>2. EventsFollowRevisions
    BY <2>0 DEF MentionInit, EventsFollowRevisions
  <2>3. HandlersExpand /\ ExpandedRowsAreCurrent
    BY Zenon DEF MentionInit, HandlersExpand, ExpandedRowsAreCurrent
  <2> QED  BY <2>1, <2>2, <2>3, Zenon DEF MentionInv
<1>2. MentionInv /\ [MentionNext]_mentionVars => MentionInv'
  BY MentionStep, Zenon
<1>3. MentionInv => ExpandedRowsAreCurrent
  BY Zenon DEF MentionInv
<1> QED  BY <1>1, <1>2, <1>3, PTL DEF MentionSpec
=============================================================================
