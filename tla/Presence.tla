------------------------------ MODULE Presence ------------------------------
(***************************************************************************)
(* The Presence service for one user, over the Redis keys it shares with   *)
(* every other Presence instance.                                          *)
(*                                                                         *)
(* A call takes the user's mutation lock, changes the preference or a      *)
(* session, resolves the sessions that are alive, reconciles the result    *)
(* with the versioned snapshot and, when the aggregate status changed,     *)
(* publishes the transition.  Each step below is one Redis command or one  *)
(* pipeline; another instance may run between any two of them.  The batch  *)
(* renewal of leases ("renew") does not take the lock.                     *)
(*                                                                         *)
(* Handlers are calls in progress in all instances.  Sessions stand for    *)
(* the user's session keys and the members of the user's sorted set.  Time *)
(* is the expiry of a session, of a set member and of the lock.            *)
(***************************************************************************)
EXTENDS Integers, FiniteSets

CONSTANTS
  Sessions,      \* session ids of the user
  Generations,   \* gateway generations that own a session
  Statuses,      \* statuses a user can select
  Handlers,      \* calls in progress, of all instances
  Calls,         \* the calls clients make
  None,
  Orphan,        \* holder of the lock of a call that crashed
  MaxVersion,    \* the greatest version, math.MaxInt64 in the code
  MaxFaults,     \* bound: failed commands, late or lost events and crashes
  LockMayExpire  \* a call can outlast the TTL of its lock

CallRecords ==
  [op : {"register", "refresh", "update", "remove", "resolve", "renew"},
   session : Sessions, generation : Generations, status : Statuses \cup {None},
   client : BOOLEAN]

ASSUME PresenceConstants ==
  /\ {"online", "invisible"} \subseteq Statuses
  /\ "offline" \notin Statuses
  /\ Calls # {}
  /\ Calls \subseteq CallRecords
  /\ \A c \in Calls : c.op \in {"register", "refresh"} => c.status # None
  /\ MaxVersion \in Nat \ {0}
  /\ MaxFaults \in Nat
  /\ LockMayExpire \in BOOLEAN
  /\ {None, Orphan} \cap Handlers = {}
  /\ None # Orphan
  /\ None \notin Generations \cup Statuses

VARIABLES
  preference,  \* the selected status with its version, version 0 when unset
  snapshot,    \* the last aggregate status with its version
  owner,       \* generation in each session's hash, None when it is gone
  index,       \* sessions in the user's sorted set
  lock,        \* holder of the user's mutation lock
  pc,          \* next step of each call
  call,        \* its arguments
  own,         \* the preference it read or wrote
  members,     \* sessions it read from the sorted set
  alive,       \* those of them whose hash it found
  next,        \* the aggregate it computed
  changed,     \* whether that differs from the snapshot it read
  observed,    \* aggregates that left the service, in a response or an event
  last,        \* version of the newest record of each event stream
  late,        \* events whose publication timed out and that may still arrive
  consumed,    \* an on-demand resolution recorded the last transition
  overlapped,  \* the sessions were last listed while a renewal was half done
  faults       \* failures so far

keyVars == <<preference, snapshot, owner, index, lock>>
callVars == <<pc, call, own, members, alive, next, changed>>
outVars == <<observed, last, late, consumed, overlapped>>
vars == <<keyVars, callVars, outVars, faults>>

Streams == {"public", "private"}
Public == (Statuses \ {"invisible"}) \cup {"offline"}
Version == 0..MaxVersion
Preference == [status : Statuses, version : Version]
Aggregate == [status : Public, version : Version]
Unset == [status |-> "online", version |-> 0]
NoSnapshot == [status |-> "offline", version |-> 0]
NoCall == CHOOSE c \in Calls : TRUE

Locked == {"preference", "initialize", "choose", "announce", "lookup", "write", "delete",
           "list", "gather", "prune", "reconcile", "save", "publish", "unlock", "failed"}
Pcs == Locked \cup {"idle", "lock", "renew", "reindex"}

----------------------------------------------------------------------------

Init ==
  /\ preference = Unset
  /\ snapshot = NoSnapshot
  /\ owner = [s \in Sessions |-> None]
  /\ index = {}
  /\ lock = None
  /\ pc = [h \in Handlers |-> "idle"]
  /\ call = [h \in Handlers |-> NoCall]
  /\ own = [h \in Handlers |-> Unset]
  /\ members = [h \in Handlers |-> {}]
  /\ alive = [h \in Handlers |-> {}]
  /\ next = [h \in Handlers |-> NoSnapshot]
  /\ changed = [h \in Handlers |-> FALSE]
  /\ observed = {}
  /\ last = [t \in Streams |-> 0]
  /\ late = {}
  /\ consumed = FALSE
  /\ overlapped = FALSE
  /\ faults = 0

Go(h, step) == pc' = [pc EXCEPT ![h] = step]

\* The call ends and its local variables with it.
Return(h) ==
  /\ Go(h, "idle")
  /\ call' = [call EXCEPT ![h] = NoCall]
  /\ own' = [own EXCEPT ![h] = Unset]
  /\ members' = [members EXCEPT ![h] = {}]
  /\ alive' = [alive EXCEPT ![h] = {}]
  /\ next' = [next EXCEPT ![h] = NoSnapshot]
  /\ changed' = [changed EXCEPT ![h] = FALSE]

\* An RPC arrives; the batch renewal is the only one without the lock.
Receive(h) ==
  /\ pc[h] = "idle"
  /\ \E c \in Calls :
       /\ call' = [call EXCEPT ![h] = c]
       /\ Go(h, IF c.op = "renew" THEN "renew" ELSE "lock")
  /\ UNCHANGED <<keyVars, own, members, alive, next, changed, outVars, faults>>

\* Fault: the answer of SET NX is not looked at.
Acquire_Unchecked(h) ==
  /\ pc[h] = "lock"
  /\ lock' = h
  /\ Go(h, IF call[h].op = "remove" THEN "delete"
           ELSE IF call[h].op = "resolve" THEN "list" ELSE "preference")
  /\ UNCHANGED <<preference, snapshot, owner, index, call, own, members, alive, next, changed,
                 outVars, faults>>

\* The lock is SET NX with a TTL, retried until the request's deadline.
Acquire(h) ==
  /\ pc[h] = "lock"
  /\ lock = None
  /\ lock' = h
  /\ Go(h, IF call[h].op = "remove" THEN "delete"
           ELSE IF call[h].op = "resolve" THEN "list" ELSE "preference")
  /\ UNCHANGED <<preference, snapshot, owner, index, call, own, members, alive, next, changed,
                 outVars, faults>>

\* The request's deadline passes while it waits for the lock.
GiveUp(h) ==
  /\ pc[h] = "lock"
  /\ Return(h)
  /\ UNCHANGED <<keyVars, outVars, faults>>

\* A Snowflake above the previous version, or its successor when the clock of
\* this instance is behind; none is left above the greatest integer.
NextVersions(previous) == (previous + 1)..MaxVersion

\* What a call does once it knows the preference.
AfterPreference(h, p) ==
  IF call[h].op # "update" THEN "write"
  ELSE IF call[h].status # None /\ p.status # call[h].status THEN "choose"
  ELSE IF call[h].client THEN "lookup" ELSE "list"

InitialStatus(h) == IF call[h].op = "register" THEN call[h].status ELSE "online"

\* ensureUserPresencePreference reads the preference and prepares a missing one.
ReadPreference(h) ==
  /\ pc[h] = "preference"
  /\ IF preference.version # 0
     THEN /\ own' = [own EXCEPT ![h] = preference]
          /\ Go(h, AfterPreference(h, preference))
     ELSE /\ \E v \in NextVersions(0) :
               own' = [own EXCEPT ![h] = [status |-> InitialStatus(h), version |-> v]]
          /\ Go(h, "initialize")
  /\ UNCHANGED <<keyVars, call, members, alive, next, changed, outVars, faults>>

\* ensureUserPresencePreference saves the preference it prepared.
InitializePreference(h) ==
  /\ pc[h] = "initialize"
  /\ preference' = own[h]
  /\ Go(h, AfterPreference(h, own[h]))
  /\ UNCHANGED <<snapshot, owner, index, lock, call, own, members, alive, next, changed,
                 outVars, faults>>

\* UpdateUserPresence saves a newly selected status.
SavePreference(h) ==
  /\ pc[h] = "choose"
  /\ \E v \in NextVersions(own[h].version) :
       /\ own' = [own EXCEPT ![h] = [status |-> call[h].status, version |-> v]]
       /\ preference' = own'[h]
  /\ Go(h, "announce")
  /\ UNCHANGED <<snapshot, owner, index, lock, call, members, alive, next, changed, outVars,
                 faults>>

\* A record reaches the topic.
Arrive(stream, version) == last' = [last EXCEPT ![stream] = version]

\* The publication times out: the record is lost or arrives later.
TimesOut(stream, version) ==
  /\ faults < MaxFaults
  /\ faults' = faults + 1
  /\ late' = late \cup {<<stream, version>>}
  /\ UNCHANGED last

Publish(stream, version) ==
  \/ Arrive(stream, version) /\ UNCHANGED <<late, faults>>
  \/ TimesOut(stream, version)

\* publishPreferenceTransition: best effort, the call goes on either way.
PublishPreference(h) ==
  /\ pc[h] = "announce"
  /\ Publish("private", own[h].version)
  /\ Go(h, IF call[h].client THEN "lookup" ELSE "list")
  /\ UNCHANGED <<keyVars, call, own, members, alive, next, changed, observed, consumed,
                 overlapped>>

\* UpdateUserSession reads the session; one that is gone is not written back.
LookupSession(h) ==
  /\ pc[h] = "lookup"
  /\ IF owner[call[h].session] = None
     THEN Go(h, "list") /\ UNCHANGED call
     ELSE /\ call' = [call EXCEPT ![h].generation = owner[call[h].session]]
          /\ Go(h, "write")
  /\ UNCHANGED <<keyVars, own, members, alive, next, changed, outVars, faults>>

\* writeUserSession sets the hash and the member of the sorted set.
WriteSession(h) ==
  /\ pc[h] = "write"
  /\ owner' = [owner EXCEPT ![call[h].session] = call[h].generation]
  /\ index' = index \cup {call[h].session}
  /\ Go(h, "list")
  /\ UNCHANGED <<preference, snapshot, lock, call, own, members, alive, next, changed, outVars,
                 faults>>

\* RemoveUserSession deletes both, whatever generation owns the session.
DeleteSession(h) ==
  /\ pc[h] = "delete"
  /\ owner' = [owner EXCEPT ![call[h].session] = None]
  /\ index' = index \ {call[h].session}
  /\ Go(h, "list")
  /\ UNCHANGED <<preference, snapshot, lock, call, own, members, alive, next, changed, outVars,
                 faults>>

\* resolveUserPresence lists the set members that have not expired, ...
ListMembers(h) ==
  /\ pc[h] = "list"
  /\ members' = [members EXCEPT ![h] = index]
  /\ overlapped' = (\E g \in Handlers : pc[g] = "reindex")
  /\ Go(h, "gather")
  /\ UNCHANGED <<keyVars, call, own, alive, next, changed, observed, last, late, consumed,
                 faults>>

\* ... reads the hash of each of them ...
GatherSessions(h) ==
  /\ pc[h] = "gather"
  /\ alive' = [alive EXCEPT ![h] = {s \in members[h] : owner[s] # None}]
  /\ Go(h, "prune")
  /\ UNCHANGED <<keyVars, call, own, members, next, changed, outVars, faults>>

\* aggregateUserPresence
AggregateStatus(p, sessions) ==
  IF sessions = {} \/ p.status = "invisible" THEN "offline" ELSE p.status

\* ... drops the members without one and aggregates the rest.
PruneAndAggregate(h) ==
  /\ pc[h] = "prune"
  /\ index' = index \ (members[h] \ alive[h])
  /\ next' = [next EXCEPT ![h].status = AggregateStatus(preference, alive[h])]
  /\ Go(h, "reconcile")
  /\ UNCHANGED <<preference, snapshot, owner, lock, call, own, members, alive, changed, outVars,
                 faults>>

Differs(h) == snapshot.version = 0 \/ snapshot.status # next[h].status

\* reconcileUserPresence reads the snapshot: a new status gets a new version, and
\* an unchanged one is saved again when last_seen_at moved.
Reconcile(h) ==
  /\ pc[h] = "reconcile"
  /\ changed' = [changed EXCEPT ![h] = Differs(h)]
  /\ \/ /\ Differs(h)
        /\ \E v \in NextVersions(snapshot.version) : next' = [next EXCEPT ![h].version = v]
        /\ Go(h, "save")
     \/ /\ ~Differs(h)
        /\ next' = [next EXCEPT ![h].version = snapshot.version]
        /\ \E step \in {"save", "unlock"} : Go(h, step)
  /\ UNCHANGED <<keyVars, call, own, members, alive, outVars, faults>>

\* nextVersion fails: no version is left.
Exhausted(h) ==
  /\ \/ pc[h] = "choose" /\ NextVersions(own[h].version) = {}
     \/ pc[h] = "reconcile" /\ Differs(h) /\ NextVersions(snapshot.version) = {}
  /\ Go(h, "failed")
  /\ UNCHANGED <<keyVars, call, own, members, alive, next, changed, outVars, faults>>

\* Fault: only a user that comes online is announced.
Announces_OnlineOnly(h) == changed[h] /\ call[h].op # "resolve" /\ next[h].status # "offline"

\* ResolveUsersPresence reconciles but publishes nothing.
Announces(h) == changed[h] /\ call[h].op # "resolve"

\* SaveUserPresenceSnapshot
SaveSnapshot(h) ==
  /\ pc[h] = "save"
  /\ snapshot' = next[h]
  /\ consumed' = IF changed[h] THEN call[h].op = "resolve" ELSE consumed
  /\ Go(h, IF Announces(h) THEN "publish" ELSE "unlock")
  /\ UNCHANGED <<preference, owner, index, lock, call, own, members, alive, next, changed,
                 observed, last, late, overlapped, faults>>

\* publishTransition, still inside the lock.
PublishTransition(h) ==
  /\ pc[h] = "publish"
  /\ Publish("public", next[h].version)
  /\ observed' = observed \cup {next[h]}
  /\ Go(h, "unlock")
  /\ UNCHANGED <<keyVars, call, own, members, alive, next, changed, consumed, overlapped>>

\* The lock is released only by its holder; a call that lost it fails.  All but
\* RemoveUserSession respond with the aggregate.
Unlock(h) ==
  /\ pc[h] \in {"unlock", "failed"}
  /\ lock' = IF lock = h THEN None ELSE lock
  /\ observed' = IF pc[h] = "unlock" /\ lock = h /\ call[h].op # "remove"
                 THEN observed \cup {next[h]} ELSE observed
  /\ Return(h)
  /\ UNCHANGED <<preference, snapshot, owner, index, last, late, consumed, overlapped, faults>>

----------------------------------------------------------------------------

\* RefreshUserSessions: the script renews the hash its caller still owns, ...
RenewHash(h) ==
  /\ pc[h] = "renew"
  /\ IF owner[call[h].session] = call[h].generation
     THEN Go(h, "reindex") /\ UNCHANGED <<call, own, members, alive, next, changed>>
     ELSE Return(h)
  /\ UNCHANGED <<keyVars, outVars, faults>>

\* ... and a second pipeline renews the member of the sorted set.
RenewMember(h) ==
  /\ pc[h] = "reindex"
  /\ index' = index \cup {call[h].session}
  /\ Return(h)
  /\ UNCHANGED <<preference, snapshot, owner, lock, outVars, faults>>

\* The lease of a session runs out: hash and set member expire together ...
ExpireSession(s) ==
  /\ owner[s] # None
  /\ owner' = [owner EXCEPT ![s] = None]
  /\ index' = index \ {s}
  /\ UNCHANGED <<preference, snapshot, lock, callVars, outVars, faults>>

\* ... except that the member has the old expiry while a renewal is half done.
ExpireMember(s) ==
  /\ s \in index
  /\ owner[s] = None \/ \E h \in Handlers : pc[h] = "reindex" /\ call[h].session = s
  /\ index' = index \ {s}
  /\ UNCHANGED <<preference, snapshot, owner, lock, callVars, outVars, faults>>

\* The TTL of the lock passes.
ExpireLock ==
  /\ lock # None
  /\ lock = Orphan \/ LockMayExpire
  /\ lock' = None
  /\ UNCHANGED <<preference, snapshot, owner, index, callVars, outVars, faults>>

\* An event whose publication timed out arrives after all.
ArriveLate ==
  /\ \E e \in late :
       /\ Arrive(e[1], e[2])
       /\ late' = late \ {e}
  /\ UNCHANGED <<keyVars, callVars, observed, consumed, overlapped, faults>>

\* A Redis command fails, before or after it took effect.
Fail(h) ==
  /\ pc[h] \in (Locked \ {"failed"}) \cup {"renew", "reindex"}
  /\ faults < MaxFaults
  /\ faults' = faults + 1
  /\ IF pc[h] \in Locked
     THEN Go(h, "failed") /\ UNCHANGED <<call, own, members, alive, next, changed>>
     ELSE Return(h)
  /\ UNCHANGED <<keyVars, outVars>>

\* The instance dies: its lock stays until the TTL passes.
Crash(h) ==
  /\ pc[h] # "idle"
  /\ faults < MaxFaults
  /\ faults' = faults + 1
  /\ lock' = IF lock = h THEN Orphan ELSE lock
  /\ Return(h)
  /\ UNCHANGED <<preference, snapshot, owner, index, outVars>>

\* The steps of a call that holds, or held, the lock.
LockedStep(h) ==
  \/ ReadPreference(h) \/ InitializePreference(h) \/ SavePreference(h) \/ PublishPreference(h)
  \/ LookupSession(h) \/ WriteSession(h) \/ DeleteSession(h)
  \/ ListMembers(h) \/ GatherSessions(h) \/ PruneAndAggregate(h)
  \/ Reconcile(h) \/ Exhausted(h) \/ SaveSnapshot(h) \/ PublishTransition(h) \/ Unlock(h)

Step(h) ==
  \/ Receive(h) \/ Acquire(h) \/ GiveUp(h) \/ LockedStep(h)
  \/ RenewHash(h) \/ RenewMember(h) \/ Fail(h) \/ Crash(h)

Next ==
  \/ \E h \in Handlers : Step(h)
  \/ \E s \in Sessions : ExpireSession(s) \/ ExpireMember(s)
  \/ ExpireLock
  \/ ArriveLate

Spec == Init /\ [][Next]_vars

----------------------------------------------------------------------------

\* The values of the service's keys and of the calls in progress.
TypeOK ==
  /\ preference \in Preference
  /\ snapshot \in Aggregate
  /\ owner \in [Sessions -> Generations \cup {None}]
  /\ index \in SUBSET Sessions
  /\ lock \in Handlers \cup {None, Orphan}
  /\ pc \in [Handlers -> Pcs]
  /\ call \in [Handlers -> CallRecords]
  /\ own \in [Handlers -> Preference]
  /\ members \in [Handlers -> SUBSET Sessions]
  /\ alive \in [Handlers -> SUBSET Sessions]
  /\ next \in [Handlers -> Aggregate]
  /\ changed \in [Handlers -> BOOLEAN]
  /\ observed \in SUBSET Aggregate
  /\ last \in [Streams -> Version]
  /\ late \in SUBSET (Streams \X Version)
  /\ consumed \in BOOLEAN
  /\ overlapped \in BOOLEAN
  /\ faults \in 0..MaxFaults

\* Whoever sees a version, in a response or in an event, sees the same status
\* with it: a version names one aggregate transition.
VersionNamesStatus ==
  \A a, b \in observed : a.version = b.version => a.status = b.status

\* The snapshot moves forward only, and its status changes only together with
\* its version; the same holds of the preference.
VersionsGrow ==
  [][/\ snapshot' # snapshot => snapshot'.version > snapshot.version
     /\ preference' # preference => preference'.version > preference.version]_vars

\* No call is in progress.
Settled == \A h \in Handlers : pc[h] = "idle"

\* Every aggregate transition that a registration, refresh, update or removal
\* records is published, whatever else runs: with no call in progress and nothing
\* failed, the newest public event carries the version of the snapshot, unless
\* ResolveUsersPresence, which publishes nothing, recorded its transition.
TransitionsAnnounced ==
  Settled /\ faults = 0 /\ ~consumed => last["public"] = snapshot.version

\* With no call in progress, nothing failed and versions left, the snapshot has the
\* public status of the user's preference, or says offline of a user without a live
\* session.  It says offline of one that has a live session only if the sessions
\* were listed while a batch renewal had renewed the session's hash and not yet
\* its member of the sorted set.
LiveUserHasStatus ==
  Settled /\ faults = 0 /\ snapshot.version < MaxVersion =>
    \/ snapshot.status = AggregateStatus(preference, Sessions)
    \/ /\ snapshot.status = "offline"
       /\ overlapped \/ \A s \in Sessions : owner[s] = None
=============================================================================
