SPECIFICATION MCSpec
CONSTANTS
  Creators = {q1, q2, q3}
  Fingerprints = {f1, f2}
  NoClaim = NoClaim
  KeyTTL = 2
  MaxNow = 3
  MaxClaimTries = 3
  Members = {1, 2, 3}
  Calls = {p1, p2}
  Expanders = {p1, p2}
  MaxRevision = 5
  Devices = {p1, p2}
  LastId = 3
  Images = {image}
  Attachments = {attachment}
  Tasks = {p1, p2}
  MaxActiveUploads = 1
  Editors = {p1, p2}
  NoEditor = NoEditor
  MaxChannels = 5
  MaxLayout = 3
  MaxItems = 1
  People = {u1, u2, u3}
  Founder = u1
  Requests = {p1, p2}
  NoRequest = NoRequest
  MaxUses = 1
SYMMETRY Symmetry
\* Clocks, revisions and messages are bounded: the model may stop.
CHECK_DEADLOCK FALSE
INVARIANTS
  KeyCreatesOnce RelationshipsAgree ExpandedRowsAreCurrent
  ReadEventsFollowRow EventsRebuildLayout DeletedGuildIsEmpty
PROPERTIES
  UploadsConsistent
