SPECIFICATION FairSpec
CONSTANTS
  None = None
  alice = alice
  anonymous = anonymous
  User = {alice, anonymous}
  Body = {"house"}
  Request = {"first", "second", "guest1"}
  Owner <- MCOwner
  Input <- MCInput
  SlotTTL = 1
  ResultTTL = 1
  FailureTTL = 1
  RetryIntervals <- MCRetryIntervals
  Scheduler = TRUE
  MaxTime = 2
  MaxCrashes = 1
CHECK_DEADLOCK FALSE
INVARIANTS
  TypeOK
  JobsStayPrivate
  AnswerIsPollable
  OneJobPerSlot
PROPERTY EveryJobRests
