------------------------------ MODULE NodeRoutes ------------------------------
(***************************************************************************)
(* How the Dispatcher finds the sessions of a Session node: the node's     *)
(* indexes of sessions by user and by guild (state.go, dispatch.go), the   *)
(* routes it derives from them and keeps in Redis (routes.go), and the     *)
(* node's own leased entry in etcd (sessionregistry).                      *)
(*                                                                         *)
(* The sessions are those of one user: a user's route depends on no other  *)
(* user.  Every goroutine is a worker: one for the life of each session    *)
(* (IDENTIFY, then removal), one per handler of guild events and the       *)
(* ticker of refreshRoutes.  They meet at s.mu, routeMu and Redis only, so *)
(* each step below ends where the code releases a lock or a remote call    *)
(* returns.  SessionLeases has what a session keeps elsewhere.             *)
(***************************************************************************)
EXTENDS FiniteSets, Integers

CONSTANTS Sessions,   \* logical sessions of the user, in order of no import
          Guilds,
          Handlers,   \* goroutines that run DispatchGuildEvent
          Ticker,     \* refreshRoutes
          MaxFaults   \* bound: failed calls and lapsed leases

ASSUME NodeRoutesConstants ==
    /\ MaxFaults \in Nat
    /\ Ticker \notin Sessions \cup Handlers
    /\ Sessions \cap Handlers = {}
    /\ "user" \notin Guilds

VARIABLES
    sessions,    \* s.sessions
    userIndex,   \* s.users of the user
    guildIndex,  \* s.guilds
    memberOf,    \* session.guilds
    published,   \* s.publishedRoutes
    directory,   \* the node's unexpired members in Redis' route sets
    node,        \* the node's entry in etcd
    worker,      \* what each goroutine has yet to do, and what it captured
    failures     \* faults so far

index == <<sessions, userIndex, guildIndex, memberOf>>

remote == <<published, directory, node>>

routeVars == <<sessions, userIndex, guildIndex, memberOf, published, directory,
               node, worker, failures>>

Routes == {"user"} \cup Guilds

AllWorkers == Sessions \cup Handlers \cup {Ticker}

(***************************************************************************)
(* A worker's step, and the values it holds across its locks: a snapshot   *)
(* of the routes, sessions still to visit, the session it is at, guilds.   *)
(***************************************************************************)
Idle(step) ==
    [step |-> step, routes |-> {}, batch |-> {}, current |-> {}, guilds |-> {}]

At(w, step) == worker[w].step = step

To(w, step) == worker' = [worker EXCEPT ![w].step = step]

ToWith(w, step, field, value) ==
    worker' = [worker EXCEPT ![w] = [@ EXCEPT !.step = step, ![field] = value]]

(* A call fails, or a lease lapses though its holder lives. *)
Fault == failures < MaxFaults /\ failures' = failures + 1

NoFault == UNCHANGED failures

ActiveRoutes == {"user" : s \in userIndex} \cup {g \in Guilds : guildIndex[g] # {}}

-------------------------------------------------------------------------------
(* StartBackground: the loops run and the node is registered before any      *)
(* client is sent to it.                                                     *)
StartBackground ==
    /\ At(Ticker, "off")
    /\ To(Ticker, "tick")
    /\ node' = "ready"
    /\ NoFault
    /\ UNCHANGED <<index, published, directory>>

(* IDENTIFY.  The guilds were loaded from Guild before, so they may be      *)
(* any.                                                                     *)
AddSession(s, joined) ==
    /\ At(s, "new") /\ ~At(Ticker, "off")
    /\ sessions' = sessions \cup {s}
    /\ userIndex' = userIndex \cup {s}
    /\ guildIndex' = [g \in Guilds |->
                        IF g \in joined THEN guildIndex[g] \cup {s} ELSE guildIndex[g]]
    /\ memberOf' = [memberOf EXCEPT ![s] = joined]
    /\ To(s, "route")
    /\ NoFault /\ UNCHANGED remote

(* The session ends: its owner or presence could not be written (before its  *)
(* routes are), the rest of the handshake failed, cleanupDetached found it   *)
(* expired, or a binding ended that is not resumable.                        *)
EndSession(s) ==
    /\ At(s, "route") \/ At(s, "open")
    /\ To(s, "remove")
    /\ NoFault
    /\ UNCHANGED <<index, remote>>

-------------------------------------------------------------------------------
(* removeSession: the guilds are read under session.mu, the indexes are      *)
(* cleared under s.mu, then the routes are refreshed.                         *)
CaptureGuilds(s) ==
    /\ At(s, "remove")
    /\ ToWith(s, "unindex", "guilds", memberOf[s])
    /\ NoFault
    /\ UNCHANGED <<index, remote>>

Unindex(s) ==
    /\ At(s, "unindex")
    /\ sessions' = sessions \ {s}
    /\ userIndex' = userIndex \ {s}
    /\ guildIndex' = [g \in Guilds |->
                        IF g \in worker[s].guilds THEN guildIndex[g] \ {s} ELSE guildIndex[g]]
    /\ ToWith(s, "unroute", "guilds", {})
    /\ NoFault
    /\ UNCHANGED <<memberOf, remote>>

-------------------------------------------------------------------------------
(* refreshAllRoutes reads the indexes under s.mu and publishes under         *)
(* routeMu; the two are not one critical section.  It ends what each of its  *)
(* callers was doing.                                                        *)
Refreshing == [route |-> "publish", unroute |-> "retract",
               refresh |-> "republish", tick |-> "retick"]

Refreshed == [publish |-> "open", retract |-> "gone",
              republish |-> "serve", retick |-> "tick"]

RouteSnapshot(w) ==
    /\ worker[w].step \in DOMAIN Refreshing
    /\ ToWith(w, Refreshing[worker[w].step], "routes", ActiveRoutes)
    /\ NoFault
    /\ UNCHANGED <<index, remote>>

(* Fault: a route the node believes published is not written again.           *)
RefreshUnpublished(w) ==
    /\ worker[w].step \in DOMAIN Refreshed
    /\ LET routes == worker[w].routes
       IN  /\ directory' = (directory \ (published \ routes)) \cup (routes \ published)
           /\ published' = routes
    /\ ToWith(w, Refreshed[worker[w].step], "routes", {})
    /\ NoFault
    /\ UNCHANGED <<index, node>>

(* Two pipelines; one that fails leaves any part of its commands applied.    *)
RefreshAllRoutes(w) ==
    /\ worker[w].step \in DOMAIN Refreshed
    /\ LET routes   == worker[w].routes
           detached == published \ routes
       IN  \E removed \in SUBSET detached, added \in SUBSET routes,
              detachFails, refreshFails \in BOOLEAN :
             /\ detachFails \/ removed = detached
             /\ refreshFails \/ added = routes
             /\ directory' = (directory \ removed) \cup added
             /\ published' = (published \ IF detachFails THEN {} ELSE detached)
                               \cup IF refreshFails THEN {} ELSE routes
             /\ IF detachFails \/ refreshFails THEN Fault ELSE NoFault
    /\ ToWith(w, Refreshed[worker[w].step], "routes", {})
    /\ UNCHANGED <<index, node>>

-------------------------------------------------------------------------------
(* Guild events change the guilds of the user's sessions.  Each session is   *)
(* changed under its own lock and the index under s.mu, one after the other. *)
Serve(h, step, g, captured) ==
    /\ At(h, "serve") /\ ~At(Ticker, "off")
    /\ worker' = [worker EXCEPT ![h] =
                    [step |-> IF captured = {} /\ step # "drop" THEN "refresh" ELSE step,
                     routes |-> {}, batch |-> captured, current |-> {}, guilds |-> {g}]]
    /\ NoFault
    /\ UNCHANGED <<index, remote>>

AttachGuildUser(h, g) == Serve(h, "join", g, userIndex)

DetachGuildUser(h, g) == Serve(h, "leave", g, userIndex)

DetachGuild(h, g) == Serve(h, "drop", g, guildIndex[g])

GuildOf(h) == CHOOSE g \in worker[h].guilds : TRUE

(* The session's own set, then the index: s stays in the batch between.      *)
JoinGuild(h, s) ==
    /\ At(h, "join") /\ s \in worker[h].batch
    /\ memberOf' = [memberOf EXCEPT ![s] = @ \cup {GuildOf(h)}]
    /\ ToWith(h, "joining", "current", {s})
    /\ NoFault
    /\ UNCHANGED <<sessions, userIndex, guildIndex, remote>>

LeaveGuild(h, s) ==
    /\ At(h, "leave") /\ s \in worker[h].batch
    /\ memberOf' = [memberOf EXCEPT ![s] = @ \ {GuildOf(h)}]
    /\ ToWith(h, "leaving", "current", {s})
    /\ NoFault
    /\ UNCHANGED <<sessions, userIndex, guildIndex, remote>>

Visited(h, again) ==
    LET left == worker[h].batch \ worker[h].current
    IN  worker' = [worker EXCEPT ![h] =
                     [@ EXCEPT !.step = IF left = {} THEN "refresh" ELSE again,
                               !.batch = left, !.current = {}]]

AddIndex(h) ==
    /\ At(h, "joining")
    /\ guildIndex' = [guildIndex EXCEPT ![GuildOf(h)] = @ \cup worker[h].current]
    /\ Visited(h, "join")
    /\ NoFault
    /\ UNCHANGED <<sessions, userIndex, memberOf, remote>>

RemoveIndex(h) ==
    /\ At(h, "leaving")
    /\ guildIndex' = [guildIndex EXCEPT ![GuildOf(h)] = @ \ worker[h].current]
    /\ Visited(h, "leave")
    /\ NoFault
    /\ UNCHANGED <<sessions, userIndex, memberOf, remote>>

(* detachGuild: every captured session forgets the guild, then the guild's   *)
(* whole index goes.                                                         *)
DropGuild(h) ==
    /\ At(h, "drop")
    /\ \/ \E s \in worker[h].batch :
            /\ memberOf' = [memberOf EXCEPT ![s] = @ \ {GuildOf(h)}]
            /\ ToWith(h, "drop", "batch", worker[h].batch \ {s})
            /\ UNCHANGED guildIndex
       \/ /\ worker[h].batch = {}
          /\ guildIndex' = [guildIndex EXCEPT ![GuildOf(h)] = {}]
          /\ To(h, "refresh")
          /\ UNCHANGED memberOf
    /\ NoFault
    /\ UNCHANGED <<sessions, userIndex, remote>>

-------------------------------------------------------------------------------
(* The node's own entry: refreshNode's heartbeat renews it or writes it       *)
(* again, its lease may lapse, and the Dispatcher's resolver removes the      *)
(* members of nodes that etcd does not list.                                  *)
RegisterNode ==
    /\ node = "absent" /\ ~At(Ticker, "off")
    /\ node' = "ready"
    /\ NoFault
    /\ UNCHANGED <<index, published, directory, worker>>

NodeLeaseLapses ==
    /\ node = "ready"
    /\ node' = "absent"
    /\ Fault
    /\ UNCHANGED <<index, published, directory, worker>>

ResolveStaleRoute(r) ==
    /\ r \in directory /\ node # "ready"
    /\ directory' = directory \ {r}
    /\ NoFault
    /\ UNCHANGED <<index, published, node, worker>>

(* Time to live in Redis: it runs out for what nobody renews, and by a fault *)
(* (a loop that stalls) for the rest.                                        *)
RouteExpires(r) ==
    /\ r \in directory
    /\ directory' = directory \ {r}
    /\ IF r \in ActiveRoutes THEN Fault ELSE NoFault
    /\ UNCHANGED <<index, published, node, worker>>

-------------------------------------------------------------------------------
RoutesInit ==
    /\ sessions = {} /\ userIndex = {}
    /\ guildIndex = [g \in Guilds |-> {}]
    /\ memberOf = [s \in Sessions |-> {}]
    /\ published = {} /\ directory = {}
    /\ node = "absent"
    /\ worker = [w \in AllWorkers |->
                   Idle(IF w \in Sessions THEN "new"
                        ELSE IF w \in Handlers THEN "serve"
                        ELSE "off")]
    /\ failures = 0

(* What a goroutine does once it has begun: it never waits for another. *)
SessionStep(s) ==
    \/ CaptureGuilds(s) \/ Unindex(s) \/ RouteSnapshot(s)
    \/ RefreshAllRoutes(s)

HandlerStep(h) ==
    \/ \E s \in Sessions : JoinGuild(h, s) \/ LeaveGuild(h, s)
    \/ AddIndex(h) \/ RemoveIndex(h) \/ DropGuild(h)
    \/ RouteSnapshot(h) \/ RefreshAllRoutes(h)

TickerStep == RouteSnapshot(Ticker) \/ RefreshAllRoutes(Ticker)

RoutesNext ==
    \/ \E s \in Sessions :
         \/ SessionStep(s) \/ EndSession(s)
         \/ \E joined \in SUBSET Guilds : AddSession(s, joined)
    \/ \E h \in Handlers :
         \/ HandlerStep(h)
         \/ \E g \in Guilds : AttachGuildUser(h, g) \/ DetachGuildUser(h, g) \/ DetachGuild(h, g)
    \/ StartBackground \/ TickerStep
    \/ RegisterNode \/ NodeLeaseLapses
    \/ \E r \in Routes : ResolveStaleRoute(r) \/ RouteExpires(r)

(* Goroutines and tickers keep running, and what nobody renews expires.  No  *)
(* client connects, no event arrives and no fault happens by fairness.       *)
RoutesFairness ==
    /\ \A s \in Sessions : WF_routeVars(SessionStep(s))
    /\ \A h \in Handlers : WF_routeVars(HandlerStep(h))
    /\ \A r \in Routes : WF_routeVars(r \notin ActiveRoutes /\ RouteExpires(r))
    /\ WF_routeVars(TickerStep)

RoutesSpec == RoutesInit /\ [][RoutesNext]_routeVars /\ RoutesFairness

-------------------------------------------------------------------------------
(* refreshRoutes repairs every difference between the routes a node's        *)
(* sessions need and the members Redis holds: a stale snapshot that          *)
(* withdraws a live route, a failed pipeline, a route the Dispatcher's       *)
(* resolver removed while etcd had lost the node.  Each route is right again *)
(* and again.                                                                *)
DirectoryConverges ==
    \A r \in Routes : []<>(r \in directory <=> r \in ActiveRoutes)
===============================================================================
