SPECIFICATION Spec
CONSTANTS
  None = None
  alice = alice
  ghost = ghost
  User = {alice}
  UserRef = {alice, ghost}
  w1 = w1
  w2 = w2
  Worker = {w1, w2}
  Event = {"track1", "track2", "pack", "refund1"}
  Content <- MCContent
  MaxCrashes = 1
  MaxFailures = 1
  MaxReentries = 1
CHECK_DEADLOCK FALSE
INVARIANTS
  TypeOK
  EffectsAreEarned
PROPERTIES
  RevocationIsFinal
  AccessFollowsLedger
SYMMETRY Symmetry
