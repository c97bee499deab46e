SPECIFICATION MCSpec
CONSTANTS
  u1 = u1
  u2 = u2
  u3 = u3
  fourA = fourA
  fourB = fourB
  s1 = s1
  s2 = s2
  Records = 6
  Conns = {c1, c2}
  None = None
  Janitor = Janitor
  QueueSize = 1
  ReplayLimit = 2
  MaxPendingDispatches = 1
  MaxEvents = 1
  RefreshFails = FALSE
  Sessions = {s1, s2}
  Guilds = {g1}
  Handlers = {h1}
  Ticker = ticker
  MaxFaults = 1
  Leased = {s1, s2}
  MaxLost = 2
  Upgrades = {u1, u2, u3}
  Scopes = {fourA, fourB}
  scopeOf <- MCScopeOf
  MaxConnections = 2
  MaxPending = 2
  MaxPendingForScope = 1
  Takers = {u1, u2}
  MaxOutages = 2
  MaxCancels = 2
CHECK_DEADLOCK FALSE
INVARIANTS
  SlotsMatchSockets
PROPERTIES
  KeptPartitionDrains
  SerialInOrder
  SessionEnds
  DirectoryConverges
  LeasesFollowSession
  DrainFinishes
  PrimaryReturns
