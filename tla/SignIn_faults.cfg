SPECIFICATION FairSpec
CONSTANTS
  None = None
  ann = ann
  bob = bob
  c1 = c1
  c2 = c2
  ip = ip
  Address = {ann, bob}
  AddressOf <- MCAddressOf
  Login = {"first", "second"}
  Callback = {c1, c2}
  Ip = ip
  IpLimit = 2
  EmailLimit = 1
  MaxFailures = 1
CHECK_DEADLOCK FALSE
INVARIANTS
  TypeOK
  SessionsAreOfOneUser
  NoReplay
PROPERTIES
  CookieKeepsItsUser
  ThrottleReopens
  EveryCallbackEnds
