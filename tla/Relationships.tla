--------------------------- MODULE Relationships ---------------------------
(***************************************************************************)
(* Friendships, requests and blocks of the User service.  A pair of users  *)
(* has a row in each direction, owned by the user it belongs to; a         *)
(* mutation takes the advisory locks of both users, lower ID first, reads  *)
(* the rows, writes one or both and enqueues an event for every owner      *)
(* whose row changed, all in one transaction.                              *)
(***************************************************************************)
EXTENDS Naturals, FiniteSets

CONSTANTS
  Members,  \* user IDs: numbers, as the lock order compares them
  Calls     \* concurrent RPCs

ASSUME UserIDs == Members \subseteq Nat

VARIABLES
  rel,     \* rel[u][t]: u's committed row toward t
  shown,   \* shown[u][t]: u's row toward t by the events sent to u's devices
  call,    \* per RPC: its step, the pair and the rows it read
  locked   \* per user: the RPCs whose transaction holds its advisory lock

relationVars == <<rel, shown, call, locked>>

Types == {"none", "friend", "incoming", "outgoing", "blocked"}

NoCall == [step |-> "idle"]

CallStates ==
  [step : {"first", "second", "read"}, user : Members, target : Members]
    \union [step : {"decide"}, user : Members, target : Members, own : Types, reverse : Types]

RelationTypeOK ==
  /\ rel \in [Members -> [Members -> Types]]
  /\ shown \in [Members -> [Members -> Types]]
  /\ call \in [Calls -> CallStates \union {NoCall}]
  /\ locked \in [Members -> SUBSET Calls]

RelationInit ==
  /\ rel = [u \in Members |-> [t \in Members |-> "none"]]
  /\ shown = rel
  /\ call = [c \in Calls |-> NoCall]
  /\ locked = [u \in Members |-> {}]

(***************************************************************************)
(* Operators                                                               *)
(***************************************************************************)

InStep(c, s) == call[c].step = s

Both(c) == {call[c].user, call[c].target}

\* The user whose lock the transaction takes first: the lower ID.
FirstLock(c) == CHOOSE u \in Both(c) : \A t \in Both(c) : u <= t

SecondLock(c) == CHOOSE u \in Both(c) : u # FirstLock(c)

\* pg_advisory_xact_lock: it waits until no transaction holds the user's lock.
Take(c, u, next) ==
  /\ locked[u] = {}
  /\ locked' = [locked EXCEPT ![u] = {c}]
  /\ call' = [call EXCEPT ![c].step = next]
  /\ UNCHANGED <<rel, shown>>

\* The transaction ends and its locks are released.
EndCall(c) ==
  /\ call' = [call EXCEPT ![c] = NoCall]
  /\ locked' = [u \in Members |-> locked[u] \ {c}]

\* Both rows of the pair after the commit.  The caller's devices are told the
\* caller's row, the target's what `news` says, if anything.
Commit(c, own, reverse, news) ==
  LET u == call[c].user
      t == call[c].target
  IN /\ rel' = [rel EXCEPT ![u][t] = own, ![t][u] = reverse]
     /\ shown' = [shown EXCEPT ![u][t] = own,
                               ![t][u] = IF news = "nothing" THEN @ ELSE news]
     /\ EndCall(c)

\* DeleteRelationshipExceptBlocked: the reverse row, unless it is a block.
ExceptBlocked(c) ==
  LET row == rel[call[c].target][call[c].user]
  IN IF row = "blocked" THEN row ELSE "none"

acceptIntoFriendship(c) == Commit(c, "friend", "friend", "friend")

\* Both owners are told that the relationship is gone.
removePair(c) ==
  /\ rel[call[c].user][call[c].target] # "none"
  /\ Commit(c, "none", ExceptBlocked(c), "none")

(***************************************************************************)
(* Actions                                                                 *)
(***************************************************************************)

\* An RPC for the pair is validated and opens its transaction.
BeginMutation(c) ==
  /\ InStep(c, "idle")
  /\ \E u, t \in Members :
       u # t /\ call' = [call EXCEPT ![c] = [step |-> "first", user |-> u, target |-> t]]
  /\ UNCHANGED <<rel, shown, locked>>

LockFirst(c) == InStep(c, "first") /\ Take(c, FirstLock(c), "second")

LockSecond(c) == InStep(c, "second") /\ Take(c, SecondLock(c), "read")

\* Both rows are read under the locks.
ReadRows(c) ==
  /\ InStep(c, "read")
  /\ call' = [call EXCEPT ![c] =
       [step |-> "decide", user |-> @.user, target |-> @.target,
        own |-> rel[@.user][@.target], reverse |-> rel[@.target][@.user]]]
  /\ UNCHANGED <<rel, shown, locked>>

SendFriendRequest(c) ==
  /\ InStep(c, "decide")
  /\ call[c].own # "blocked" /\ call[c].reverse # "blocked"
  /\ \/ call[c].own = "none" /\ Commit(c, "outgoing", "incoming", "incoming")
     \/ call[c].own = "incoming" /\ acceptIntoFriendship(c)

AcceptFriendRequest(c) ==
  /\ InStep(c, "decide")
  /\ call[c].own = "incoming"
  /\ acceptIntoFriendship(c)

DeclineFriendRequest(c) ==
  /\ InStep(c, "decide")
  /\ call[c].own = "incoming"
  /\ removePair(c)

RemoveFriend(c) ==
  /\ InStep(c, "decide")
  /\ call[c].own \in {"friend", "outgoing", "incoming"}
  /\ removePair(c)

\* Fault: a block leaves the other side's row alone.
BlockOwnRow(c) ==
  /\ InStep(c, "decide")
  /\ call[c].own # "blocked"
  /\ Commit(c, "blocked", rel[call[c].target][call[c].user], "nothing")

\* A block replaces the caller's row and strips the other side's, which only
\* sees the relationship disappear; a block held by the other side stays.
BlockUser(c) ==
  /\ InStep(c, "decide")
  /\ call[c].own # "blocked"
  /\ IF call[c].reverse \in {"none", "blocked"}
       THEN Commit(c, "blocked", rel[call[c].target][call[c].user], "nothing")
       ELSE Commit(c, "blocked", ExceptBlocked(c), "none")

UnblockUser(c) ==
  /\ InStep(c, "decide")
  /\ call[c].own = "blocked"
  /\ rel[call[c].user][call[c].target] # "none"
  /\ Commit(c, "none", rel[call[c].target][call[c].user], "nothing")

\* A refused, repeated or failed call changes nothing.
RollBackMutation(c) ==
  /\ ~InStep(c, "idle")
  /\ EndCall(c)
  /\ UNCHANGED <<rel, shown>>

RelationNext ==
  \E c \in Calls :
    \/ BeginMutation(c) \/ LockFirst(c) \/ LockSecond(c) \/ ReadRows(c)
    \/ SendFriendRequest(c) \/ AcceptFriendRequest(c) \/ DeclineFriendRequest(c)
    \/ RemoveFriend(c) \/ BlockUser(c) \/ UnblockUser(c) \/ RollBackMutation(c)

RelationSpec == RelationInit /\ [][RelationNext]_relationVars

(***************************************************************************)
(* Properties                                                              *)
(***************************************************************************)

\* What the other side's row must be.
Mirrors(own, reverse) ==
  \/ own = "friend" /\ reverse = "friend"
  \/ own = "incoming" /\ reverse = "outgoing"
  \/ own = "outgoing" /\ reverse = "incoming"
  \/ own \in {"none", "blocked"} /\ reverse \in {"none", "blocked"}

\* The two rows of a pair always describe one relationship, and the events sent
\* to a user's devices always leave them with the user's own rows, however the
\* calls of both sides interleave (relationships.go; LockRelationshipPair).
RelationshipsAgree ==
  \A u, t \in Members : u # t =>
    /\ Mirrors(rel[u][t], rel[t][u])
    /\ shown[u][t] = rel[u][t]

=============================================================================
