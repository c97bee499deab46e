SPECIFICATION Spec
CONSTANTS
  Sessions = {s1, s2}
  Handlers = {h1}
  None = None
  Sights = {"none", "visible"}
  MaxRevision = 3
  MaxEvents = 2
SYMMETRY Symmetry
INVARIANT SnapshotMeetsRequired
