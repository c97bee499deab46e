SPECIFICATION MCSpec
CONSTANTS
  s1 = s1
  n1 = n1
  Sessions = {s1}
  Generations = {g1}
  Statuses = {"online", "invisible"}
  Handlers = {c1, c2}
  Calls <- EveryCall
  None = None
  Orphan = Orphan
  MaxVersion = 2
  MaxFaults = 1
  LockMayExpire = FALSE
  Publishers = {r1, r2}
  Keys = {k1, k2}
  NumGens = 3
  DedupTTL = 2
  MaxClock = 5
  Nodes = {n1, n2}
  Dispatchers = {d1, d2}
  NoDispatcher = NoDispatcher
  Records = 3
  Messages = {1, 2}
  MaxMishaps = 1
  Sockets = {c1, c2}
  NoSocket = NoSocket
  MaxSequence = 3
  Holders = {p1, p2, p3}
  LimitKeys = {k1, k2}
  Capacity = 2
SYMMETRY Symmetry
\* Clocks, logs and connections are bounded: the model may stop.
CHECK_DEADLOCK FALSE
INVARIANTS
  VersionNamesStatus EveryTransitionPublished
  FilterIsExact  ToldOnce
  AcksReachBinding KeyCapacityKept
