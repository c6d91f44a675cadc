SPECIFICATION FairSpec
CONSTANTS
  None = None
  alice = alice
  anonymous = anonymous
  User = {alice, anonymous}
  Body = {"house"}
  Request = {"first"}
  Owner <- MCOwner
  Input <- MCInput
  SlotTTL = 2
  ResultTTL = 2
  FailureTTL = 2
  RetryIntervals <- MCRetryIntervals
  Scheduler = FALSE
  MaxTime = 1
  MaxCrashes = 0
CHECK_DEADLOCK FALSE
PROPERTY EveryJobSettles
