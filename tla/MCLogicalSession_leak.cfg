SPECIFICATION FairSpec
CONSTANTS
  Conns = {c1, c2}
  None = None
  Janitor = Janitor
  QueueSize = 1
  ReplayLimit = 2
  MaxPendingDispatches = 1
  MaxEvents = 1
  RefreshFails = TRUE
\* Connections are used once and events are bounded: the model may stop.
CHECK_DEADLOCK FALSE
PROPERTY SessionEnds
