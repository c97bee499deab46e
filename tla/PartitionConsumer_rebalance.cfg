SPECIFICATION Spec
CONSTANTS
  Records = 2
  QueueSize = 1
  MaxPoll = 2
  MaxBuffered = 1
  MaxUncommitted = 1
  RetryMaxAttempts = 0
  DropAfterRetryExhausted = FALSE
  MaxAssignments = 2
  MaxCrashes = 1
  PollSpansRebalance = FALSE
\* The log is finite and rebalances are bounded: the model may stop.
CHECK_DEADLOCK FALSE
INVARIANTS OnlyCompletedCommitted PausesHold
PROPERTY CommittedNeverRegresses
