SPECIFICATION Spec
CONSTANTS
  Conns = {c1, c2}
  None = None
  Janitor = Janitor
  QueueSize = 2
  ReplayLimit = 2
  MaxPendingDispatches = 2
  MaxEvents = 3
  RefreshFails = TRUE
\* Connections are used once and events are bounded: the model may stop.
SYMMETRY Symmetry
CHECK_DEADLOCK FALSE
INVARIANTS StreamsContinue AckedWasDelivered BindingsAreServed
