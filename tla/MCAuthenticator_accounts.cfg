SPECIFICATION MCSpec
CONSTANTS
  p1 = p1
  p2 = p2
  p3 = p3
  x1 = x1
  x2 = x2
  alice = alice
  bob = bob
  forAlice = forAlice
  forAnyone = forAnyone
  Requests = {p1, p2, p3}
  NoToken = NoToken
  IdleTTL = 2
  AbsoluteTTL = 3
  RefreshTTL = 2
  RotationGrace = 1
  MaxTime = 3
  MaxRotations = 3
  Workers = {p1, p2}
  SessionIds = {x1, x2}
  Challenges = {c1}
  NoSession = NoSession
  MaxAttempts = 2
  RecoveryCodeCount = 1
  MaxMinted = 2
  MaxPasswords = 2
  MaxStep = 1
  Registrations = {p1, p2}
  Users = {x1, x2}
  NoUser = NoUser
  Emails = {alice, bob}
  NoEmail = NoEmail
  Invites = {forAlice, forAnyone}
  NoInvite = NoInvite
  BoundEmail <- MCBoundEmail
SYMMETRY MCSymmetry
CHECK_DEADLOCK FALSE
INVARIANTS
  OneSuccessor HonestClientKeepsSession
  SessionsMatchCredentials ProofsSpentOnce
  InvitePerCredential VerifiedAddressConfirmed
PROPERTIES RevocationIsFinal
