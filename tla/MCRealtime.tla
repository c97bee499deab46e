----------------------------- MODULE MCRealtime -----------------------------
(***************************************************************************)
(* Parts of the realtime path that must keep going: a partition of the     *)
(* Kafka consumer that is never revoked, a logical session, the routes and *)
(* leases of a Session node, the handlers of a Gateway that drains, and    *)
(* its rate limiter.  They share no state; a behaviour follows the one its *)
(* first state chooses and the others are not started.  Routes are         *)
(* followed twice: one session with guild events and no faults, and both   *)
(* sessions with faults while no guild event arrives.                      *)
(***************************************************************************)
EXTENDS LogicalSession, NodeRoutes, SessionLeases, GatewayDrain, RateLimiter, TLC

CONSTANTS u1, u2, u3, fourA, fourB, s1, s2, Records

VARIABLES
  \* the state of PartitionConsumer
  committed, member, fetchPos, fetched, paused, polled, cur, assignments, queued,
  pauseReasons, stopped, ended, stage, rec, attempt, records, ctxDone, active,
  lastCompleted, offsets, uncommitted, backpressured, flushing, flushCount, ppc,
  pworker, pexpired, crashes, settled,
  subject  \* the part this behaviour follows

\* The queue and the poll of the consumer have the bounds that make it pause
\* for both of its reasons.
Consumer == INSTANCE PartitionConsumer WITH
  QueueSize <- 1, MaxPoll <- 2, MaxBuffered <- 1, MaxUncommitted <- 2,
  RetryMaxAttempts <- 1, DropAfterRetryExhausted <- TRUE, MaxAssignments <- 1,
  MaxCrashes <- 0, PollSpansRebalance <- FALSE,
  pc <- stage, pending <- offsets, closed <- ended

consumerVars ==
  <<committed, member, fetchPos, fetched, paused, polled, cur, assignments, queued,
    pauseReasons, stopped, ended, stage, rec, attempt, records, ctxDone, active,
    lastCompleted, offsets, uncommitted, backpressured, flushing, flushCount, ppc,
    pworker, pexpired, crashes, settled>>

MCScopeOf == u1 :> fourA @@ u2 :> fourA @@ u3 :> fourB

MCInit ==
  /\ subject \in {"consumer", "session", "routes", "faulty routes", "leases",
                 "gateway", "limiter"}
  /\ Consumer!Init /\ Init /\ RoutesInit /\ LeasesInit /\ DrainInit /\ RateInit

MCNext ==
  \/ /\ subject = "consumer" /\ Consumer!Next
     /\ ppc' = ppc /\ (cur # 0 => member' = member)
     /\ UNCHANGED <<vars, routeVars, leaseVars, gatewayVars, rateVars, subject>>
  \/ /\ subject = "session" /\ Next
     /\ UNCHANGED <<consumerVars, routeVars, leaseVars, gatewayVars, rateVars, subject>>
  \/ /\ subject = "routes" /\ RoutesNext
     /\ failures' = failures /\ worker'[s2] = worker[s2]
     /\ UNCHANGED <<consumerVars, vars, leaseVars, gatewayVars, rateVars, subject>>
  \/ /\ subject = "faulty routes" /\ RoutesNext
     /\ \A h \in Handlers : worker'[h] = worker[h]
     /\ UNCHANGED <<consumerVars, vars, leaseVars, gatewayVars, rateVars, subject>>
  \/ /\ subject = "leases" /\ LeasesNext
     /\ UNCHANGED <<consumerVars, vars, routeVars, gatewayVars, rateVars, subject>>
  \/ /\ subject = "gateway" /\ DrainNext
     /\ UNCHANGED <<consumerVars, vars, routeVars, leaseVars, rateVars, subject>>
  \/ /\ subject = "limiter" /\ RateNext
     /\ UNCHANGED <<consumerVars, vars, routeVars, leaseVars, gatewayVars, subject>>

MCSpec ==
  /\ MCInit
  /\ [][MCNext]_<<consumerVars, vars, routeVars, leaseVars, gatewayVars,
                  rateVars, subject>>
  /\ Consumer!Fairness /\ Fairness
  /\ RoutesFairness /\ LeasesFairness /\ DrainFairness /\ RateFairness

(* PartitionConsumer's KeptPartitionDrains: no pause, full queue or failed   *)
(* commit leaves a partition the member keeps stuck.                         *)
KeptPartitionDrains == subject = "consumer" => Consumer!KeptPartitionDrains

(* PartitionConsumer's SerialInOrder: enqueue and afterProcessed hand the     *)
(* records of the partition to its worker in order and without a gap.        *)
SerialInOrder == Consumer!SerialInOrder

=============================================================================
