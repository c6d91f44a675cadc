SPECIFICATION FairSpec
CONSTANTS
  None = None
  ann = ann
  bob = bob
  audit1 = audit1
  audit2 = audit2
  audit3 = audit3
  q1 = q1
  q2 = q2
  old = old
  new = new
  bobs = bobs
  User = {ann, bob}
  Audit = {audit1, audit2, audit3}
  Quote = {q1, q2}
  Vault = {old, new, bobs}
  OwnerOf <- MCOwnerOf
  VaultOf <- MCVaultOf
  AuditOf <- MCAuditOf
  VaultOwner <- MCVaultOwner
  Parsed = {q1, q2}
  Flip = {"first", "second"}
CHECK_DEADLOCK FALSE
INVARIANTS
  TypeOK
  PromiseKept
PROPERTIES
  OptOutIsAtomic
  PurgesAreScoped
  EveryFlipEnds
