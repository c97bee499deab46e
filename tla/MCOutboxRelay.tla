--------------------------- MODULE MCOutboxRelay ---------------------------
(***************************************************************************)
(* The outbox and its relay for TLC: two streams of one shard.             *)
(***************************************************************************)
EXTENDS OutboxRelay, TLC

Draft(s, n) == [stream |-> s, count |-> n]

\* SendFriendRequest and the like: events to both users, the caller first.
Relationship(u, v) == [lock |-> {u, v}, groups |-> <<Draft(u, 1), Draft(v, 1)>>]

\* A guild transaction drafts several events of one stream.
Guild(s, n) == [lock |-> {}, groups |-> <<Draft(s, n)>>]

AllOps == {Relationship(1, 2), Relationship(2, 1), Guild(1, 2)}

OneShard == [s \in Streams |-> 1]
============================================================================
