SPECIFICATION Spec
CONSTANTS
  None = None
  alice = alice
  ghost = ghost
  User = {alice}
  UserRef = {alice, ghost}
  w1 = w1
  w2 = w2
  Worker = {w1}
  Event = {"track1", "ghost"}
  Content <- MCContent
  MaxCrashes = 1
  MaxFailures = 0
  MaxReentries = 0
CHECK_DEADLOCK FALSE
INVARIANT AckedPaymentIsGranted
