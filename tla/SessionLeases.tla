----------------------------- MODULE SessionLeases -----------------------------
(***************************************************************************)
(* What a logical session keeps outside its Session node, and how long it  *)
(* outlives the session: the owner key in Redis that RESUME is routed by   *)
(* and the registration with Presence that makes the user online           *)
(* (state.go, leases.go, presence.go).  Both have a time to live that the  *)
(* lease loop renews for the sessions it captured at the start of a cycle; *)
(* a removal that runs meanwhile does not stop the cycle.                  *)
(***************************************************************************)
EXTENDS Integers

CONSTANTS Leased,   \* the node's logical sessions
          MaxLost   \* bound: calls that fail, leases that lapse

ASSUME LeaseConstants == MaxLost \in Nat

VARIABLES
    life,     \* what the goroutine of the session does next
    held,     \* s.sessions
    owned,    \* sessions with an owner key
    online,   \* sessions registered with Presence
    cycle,    \* the lease loop: its step, and the sessions it still has to renew
    lost      \* faults so far

leaseVars == <<life, held, owned, online, cycle, lost>>

Lost == lost < MaxLost /\ lost' = lost + 1

Kept == UNCHANGED lost

Goes(s, from, to) == life[s] = from /\ life' = [life EXCEPT ![s] = to]

(* A remote set with a member more, or less; a call that fails is felt as    *)
(* one that was not made, or as one whose answer was lost.                   *)
Called(set, after) == \/ set' = after /\ Kept
                      \/ set' \in {set, after} /\ Lost

-------------------------------------------------------------------------------
(* StartBackground: the lease loop runs before the node serves. *)
StartLeaseLoop ==
    /\ cycle.step = "off"
    /\ cycle' = [cycle EXCEPT !.step = "wait"]
    /\ Kept /\ UNCHANGED <<life, held, owned, online>>

(* IDENTIFY: the session enters s.sessions, then its owner key is written,   *)
(* then it is registered; a failure removes it again.                        *)
Identify(s) ==
    /\ cycle.step # "off"
    /\ Goes(s, "new", "own")
    /\ held' = held \cup {s}
    /\ Kept /\ UNCHANGED <<owned, online, cycle>>

WriteOwner(s) ==
    /\ \/ Goes(s, "own", "register") /\ owned' = owned \cup {s} /\ Kept
       \/ Goes(s, "own", "remove") /\ owned' \in {owned, owned \cup {s}} /\ Lost
    /\ UNCHANGED <<held, online, cycle>>

Register(s) ==
    /\ \/ Goes(s, "register", "open") /\ online' = online \cup {s} /\ Kept
       \/ Goes(s, "register", "remove") /\ online' \in {online, online \cup {s}} /\ Lost
    /\ UNCHANGED <<held, owned, cycle>>

(* A resumable binding ends: the owner key is written again.                 *)
DetachOwner(s) ==
    /\ life[s] = "open"
    /\ Called(owned, owned \cup {s})
    /\ UNCHANGED <<life, held, online, cycle>>

(* The rest of the handshake failed, a binding ended that is not resumable,  *)
(* or a detached session expired.                                            *)
CloseStream(s) ==
    /\ Goes(s, "open", "remove")
    /\ Kept /\ UNCHANGED <<held, owned, online, cycle>>

(* removeSession: out of s.sessions first, then out of Redis and Presence.   *)
Unhold(s) ==
    /\ Goes(s, "remove", "disown")
    /\ held' = held \ {s}
    /\ Kept /\ UNCHANGED <<owned, online, cycle>>

Disown(s) ==
    /\ Goes(s, "disown", "unregister")
    /\ Called(owned, owned \ {s})
    /\ UNCHANGED <<held, online, cycle>>

Unregister(s) ==
    /\ Goes(s, "unregister", "gone")
    /\ Called(online, online \ {s})
    /\ UNCHANGED <<held, owned, cycle>>

-------------------------------------------------------------------------------
(* Fault: a cycle renews whatever has an owner key.                          *)
BeginCycleOwned ==
    /\ cycle.step = "wait"
    /\ cycle' = [step |-> "owners", sessions |-> held \cup owned]
    /\ Kept /\ UNCHANGED <<life, held, owned, online>>

(* refreshSessionLeases captures the sessions under s.mu.                    *)
BeginCycle ==
    /\ cycle.step = "wait"
    /\ cycle' = [step |-> "owners", sessions |-> held]
    /\ Kept /\ UNCHANGED <<life, held, owned, online>>

(* refreshSessionLeaseBatch: owner keys in one pipeline, of which a failure  *)
(* leaves any part; then one call to Presence, which answers with the        *)
(* sessions it does not know; these are registered again one by one, whether *)
(* or not they are still held.                                               *)
SetOwners ==
    /\ cycle.step = "owners"
    /\ cycle' = [cycle EXCEPT !.step = "presences"]
    /\ \/ owned' = owned \cup cycle.sessions /\ Kept
       \/ \E written \in SUBSET cycle.sessions : owned' = owned \cup written /\ Lost
    /\ UNCHANGED <<life, held, online>>

Renewing(sessions) == [step |-> IF sessions = {} THEN "wait" ELSE "missing", sessions |-> sessions]

RefreshUserSessions ==
    /\ cycle.step = "presences"
    /\ \/ cycle' = Renewing(cycle.sessions \ online) /\ Kept
       \/ cycle' = Renewing({}) /\ Lost
    /\ UNCHANGED <<life, held, owned, online>>

RegisterMissing(s) ==
    /\ cycle.step = "missing" /\ s \in cycle.sessions
    /\ cycle' = Renewing(cycle.sessions \ {s})
    /\ Called(online, online \cup {s})
    /\ UNCHANGED <<life, held, owned>>

-------------------------------------------------------------------------------
(* The time to live runs out for what no cycle renews, and by a fault (a     *)
(* loop that stalls) for the rest.                                           *)
OwnerExpires(s) ==
    /\ s \in owned
    /\ owned' = owned \ {s}
    /\ IF s \in held THEN Lost ELSE Kept
    /\ UNCHANGED <<life, held, online, cycle>>

PresenceExpires(s) ==
    /\ s \in online
    /\ online' = online \ {s}
    /\ IF s \in held THEN Lost ELSE Kept
    /\ UNCHANGED <<life, held, owned, cycle>>

-------------------------------------------------------------------------------
LeasesInit ==
    /\ life = [s \in Leased |-> "new"]
    /\ held = {} /\ owned = {} /\ online = {}
    /\ cycle = [step |-> "off", sessions |-> {}]
    /\ lost = 0

LifeStep(s) == WriteOwner(s) \/ Register(s) \/ Unhold(s) \/ Disown(s) \/ Unregister(s)

CycleStep ==
    \/ BeginCycle \/ SetOwners \/ RefreshUserSessions
    \/ \E s \in Leased : RegisterMissing(s)

LeasesNext ==
    \/ \E s \in Leased :
         \/ Identify(s) \/ LifeStep(s) \/ DetachOwner(s) \/ CloseStream(s)
         \/ OwnerExpires(s) \/ PresenceExpires(s)
    \/ StartLeaseLoop \/ CycleStep

(* The goroutines and the loop keep running; what nobody renews expires.     *)
LeasesFairness ==
    /\ \A s \in Leased :
         /\ WF_leaseVars(LifeStep(s))
         /\ WF_leaseVars(s \notin held /\ OwnerExpires(s))
         /\ WF_leaseVars(s \notin held /\ PresenceExpires(s))
    /\ WF_leaseVars(CycleStep)

LeasesSpec == LeasesInit /\ [][LeasesNext]_leaseVars /\ LeasesFairness

-------------------------------------------------------------------------------
(* A lease cycle captured before a session was removed may write its owner   *)
(* key and its presence again after the removal (leases.go), so a user may   *)
(* seem online without a session; but a removed session is finally gone from *)
(* Redis and Presence, and a session that stays open is finally in both.     *)
LeasesFollowSession ==
    \A s \in Leased :
        /\ <>[](life[s] = "gone" => s \notin owned \cup online)
        /\ <>[](life[s] = "open" => s \in owned \cap online)
===============================================================================
