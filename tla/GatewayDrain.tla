----------------------------- MODULE GatewayDrain -----------------------------
(***************************************************************************)
(* WebSocket handlers of one Gateway process, from the upgrade to the end  *)
(* (server.go, handleWebSocket; client.go, run), the slots they take from  *)
(* the process-local socket limiter (pkg/socketlimit), and Drain, which    *)
(* runs beside them.  A handler's deferred calls run in the order of the   *)
(* code, each under its own mutex.                                         *)
(***************************************************************************)
EXTENDS Integers, FiniteSets

CONSTANTS Upgrades,             \* upgrade requests
          Scopes,               \* source scopes of clients
          scopeOf,              \* scope of each request
          MaxConnections, MaxPending, MaxPendingForScope

ASSUME DrainConstants ==
    /\ scopeOf \in [Upgrades -> Scopes]
    /\ {MaxConnections, MaxPending, MaxPendingForScope} \subseteq Nat \ {0}

VARIABLES
    upgrade,     \* where each handler is
    lease,       \* its lease: "none", "pending", "ready", "released"
    connections, pendings, scopes,    \* the limiter's counts
    tracked,     \* Server.connections
    handlers,    \* connectionsWG
    closing,        \* connections that Drain closes
    drain        \* "no", "draining", "done", or "forced" by its context

gatewayVars == <<upgrade, lease, connections, pendings, scopes, tracked,
                 handlers, closing, drain>>
limiterVars == <<lease, connections, pendings, scopes>>

Moves(u, from, to) == upgrade[u] = from /\ upgrade' = [upgrade EXCEPT ![u] = to]

-------------------------------------------------------------------------------
(* beginConnection refuses once Drain has begun. *)
BeginConnection(u) ==
    /\ IF drain # "no" THEN Moves(u, "new", "ended") /\ UNCHANGED handlers
       ELSE Moves(u, "new", "begun") /\ handlers' = handlers + 1
    /\ UNCHANGED <<limiterVars, tracked, closing, drain>>

(* The rate limiter or the address resolver refuses. *)
RefuseUpgrade(u) ==
    /\ Moves(u, "begun", "leaving")
    /\ UNCHANGED <<limiterVars, tracked, handlers, closing, drain>>

HasRoom(u) ==
    /\ connections < MaxConnections
    /\ pendings < MaxPending /\ scopes[scopeOf[u]] < MaxPendingForScope

Acquire(u) ==
    /\ IF HasRoom(u)
       THEN /\ Moves(u, "begun", "leased")
            /\ lease' = [lease EXCEPT ![u] = "pending"]
            /\ connections' = connections + 1
            /\ pendings' = pendings + 1
            /\ scopes' = [scopes EXCEPT ![scopeOf[u]] = @ + 1]
       ELSE Moves(u, "begun", "leaving") /\ UNCHANGED limiterVars
    /\ UNCHANGED <<tracked, handlers, closing, drain>>

RejectWebSocket(u) ==
    /\ Moves(u, "leased", "releasing")
    /\ UNCHANGED <<limiterVars, tracked, handlers, closing, drain>>

(* Fault: a connection is tracked though Drain has read the others. *)
TrackAnyConnection(u) ==
    /\ Moves(u, "leased", "running") /\ tracked' = tracked \cup {u}
    /\ UNCHANGED <<limiterVars, handlers, closing, drain>>

(* trackConnection looks again: Drain may have begun during the upgrade. *)
TrackConnection(u) ==
    /\ IF drain # "no" THEN Moves(u, "leased", "releasing") /\ UNCHANGED tracked
       ELSE Moves(u, "leased", "running") /\ tracked' = tracked \cup {u}
    /\ UNCHANGED <<limiterVars, handlers, closing, drain>>

(* releasePending. *)
ReleasePending(u) ==
    /\ pendings' = pendings - 1
    /\ scopes' = [scopes EXCEPT ![scopeOf[u]] = @ - 1]

(* bind: READY or RESUMED has been written. *)
MarkReady(u) ==
    /\ Moves(u, "running", "bound")
    /\ lease' = [lease EXCEPT ![u] = "ready"]
    /\ ReleasePending(u)
    /\ UNCHANGED <<connections, tracked, handlers, closing, drain>>

(* run returns: the handshake failed, or the socket or the Session stream    *)
(* ended.                                                                    *)
RunReturns(u) ==
    /\ upgrade[u] \in {"running", "bound"}
    /\ upgrade' = [upgrade EXCEPT ![u] = "untracking"]
    /\ UNCHANGED <<limiterVars, tracked, handlers, closing, drain>>

UntrackConnection(u) ==
    /\ Moves(u, "untracking", "releasing")
    /\ tracked' = tracked \ {u}
    /\ UNCHANGED <<limiterVars, handlers, closing, drain>>

(* Fault: a handshake that failed keeps its pending slot. *)
ReleaseSocketOnly(u) ==
    /\ Moves(u, "releasing", "leaving")
    /\ lease' = [lease EXCEPT ![u] = "released"]
    /\ connections' = connections - 1
    /\ UNCHANGED <<pendings, scopes, tracked, handlers, closing, drain>>

Release(u) ==
    /\ Moves(u, "releasing", "leaving")
    /\ lease' = [lease EXCEPT ![u] = "released"]
    /\ connections' = connections - 1
    /\ IF lease[u] = "pending" THEN ReleasePending(u) ELSE UNCHANGED <<pendings, scopes>>
    /\ UNCHANGED <<tracked, handlers, closing, drain>>

HandlerDone(u) ==
    /\ Moves(u, "leaving", "ended")
    /\ handlers' = handlers - 1
    /\ UNCHANGED <<limiterVars, tracked, closing, drain>>

-------------------------------------------------------------------------------
(* Drain: a second call only waits for the first. *)
Drain ==
    /\ drain = "no"
    /\ drain' = "draining"
    /\ closing' = tracked
    /\ UNCHANGED <<upgrade, limiterVars, tracked, handlers>>

(* connectionsWG.Wait returns.  The wait goes on after Drain's context has   *)
(* ended, which cancels the connections' contexts besides.                   *)
DrainDone ==
    /\ drain \in {"draining", "forced"} /\ handlers = 0
    /\ drain' = "done"
    /\ UNCHANGED <<upgrade, limiterVars, tracked, handlers, closing>>

DrainTimesOut ==
    /\ drain = "draining"
    /\ drain' = "forced"
    /\ UNCHANGED <<upgrade, limiterVars, tracked, handlers, closing>>

-------------------------------------------------------------------------------
DrainInit ==
    /\ upgrade = [u \in Upgrades |-> "new"]
    /\ lease = [u \in Upgrades |-> "none"]
    /\ connections = 0 /\ pendings = 0 /\ scopes = [s \in Scopes |-> 0]
    /\ tracked = {} /\ closing = {}
    /\ handlers = 0
    /\ drain = "no"

Upgrading(u) ==
    \/ RefuseUpgrade(u) \/ Acquire(u) \/ RejectWebSocket(u) \/ TrackConnection(u)

Finishing(u) == UntrackConnection(u) \/ Release(u) \/ HandlerDone(u)

DrainNext ==
    \/ \E u \in Upgrades :
         \/ BeginConnection(u) \/ Upgrading(u) \/ MarkReady(u)
         \/ RunReturns(u) \/ Finishing(u)
    \/ Drain \/ DrainDone \/ DrainTimesOut

(* The steps of an upgrade and of an ending handler go on by themselves.  A  *)
(* connection may last for ever, unless Drain has closed its socket.         *)
DrainFairness ==
    /\ \A u \in Upgrades :
         /\ WF_gatewayVars(Upgrading(u))
         /\ WF_gatewayVars(Finishing(u))
         /\ WF_gatewayVars(u \in closing /\ RunReturns(u))
    /\ WF_gatewayVars(DrainDone)

DrainSpec == DrainInit /\ [][DrainNext]_gatewayVars /\ DrainFairness

-------------------------------------------------------------------------------
(* The limiter counts what there is and stays within its limits: the total   *)
(* is the number of sockets whose handler holds a lease, and the pending     *)
(* ones, in all and per source scope, are those still in their handshake,    *)
(* however handshakes, failures and a drain interleave (socketlimit,         *)
(* Acquire, MarkReady, Release).                                             *)
SlotsMatchSockets ==
    LET Holding == {u \in Upgrades :
                      upgrade[u] \in {"leased", "running", "bound", "untracking", "releasing"}}
        Pending == {u \in Holding : lease[u] = "pending"}
    IN  /\ connections = Cardinality(Holding) /\ connections <= MaxConnections
        /\ pendings = Cardinality(Pending) /\ pendings <= MaxPending
        /\ \A s \in Scopes : /\ scopes[s] = Cardinality({u \in Pending : scopeOf[u] = s})
                             /\ scopes[s] <= MaxPendingForScope

(* Once Drain has begun, every handler ends and none starts again, also one  *)
(* whose upgrade Drain overtook (server.go, beginConnection and              *)
(* trackConnection).                                                         *)
DrainFinishes ==
    (drain # "no") ~> [](drain = "done" /\ tracked = {} /\ connections = 0
                         /\ \A u \in Upgrades : upgrade[u] \in {"new", "ended"})
===============================================================================
