SPECIFICATION MentionSpec
CONSTANTS
  Expanders = {w1, w2}
  MaxRevision = 3
\* The revision is bounded: the model may stop.
CHECK_DEADLOCK FALSE
INVARIANT NewerEventDrivesExpansion
