SPECIFICATION FairRelaySpec
CONSTANTS
  Streams = {1, 2}
  MaxID = 2
  Writers = {t1, t2}
  Ops <- AllOps
  None = None
  Shards = {1}
  ShardID <- OneShard
  Workers = {r1, r2}
  BatchSize = 2
  MaxLosses = 1
INVARIANT WritersNeverDeadlock
PROPERTIES NoStaleRedelivery ImplementsOrderedLog OutboxDrains
