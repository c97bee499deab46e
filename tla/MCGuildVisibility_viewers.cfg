SPECIFICATION Spec
CONSTANTS
  Sessions = {s1}
  Handlers = {h1}
  None = None
  Sights = {"hidden", "visible"}
  MaxRevision = 3
  MaxEvents = 3
INVARIANT RevokedViewersAreTold
