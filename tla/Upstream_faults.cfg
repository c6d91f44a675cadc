SPECIFICATION MCSpec
CONSTANTS
  None = None
  MaxAttempts = 2
  Threshold = 2
  Cooldown = 2
  Fetcher = {"first", "second"}
  Query = {"here", "there"}
  TTL = 2
  MaxEntries = 1
  Job = {"one", "two"}
  roof = roof
  shed = shed
  fence = fence
  remote = remote
  Site = {roof, shed, fence, remote}
  BucketOf <- MCBucketOf
  SourceOf <- MCSourceOf
  WithSibling = {"nsrdb", "pvgis"}
  Configured = {"nsrdb", "openmeteo"}
CHECK_DEADLOCK FALSE
INVARIANTS
  TypeOK
  OpenIffThreshold
  StampIsHonest
  JobsEndWhole
PROPERTIES
  BreakerProbes
  EveryJobEnds
