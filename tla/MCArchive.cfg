SPECIFICATION Spec
CONSTANTS
  alice = alice
  bob = bob
  Events = {1, 2, 3, 4}
  At <- SplitDays
  UserOf <- SplitUsers
  DayLength = 1
  ArchiveAfter = 1
  BatchSize = 2
  Retention = 1
  Erasures = {alice}
  EraseBatch = 1
  TornWrites = FALSE
  Unencodable = {}
  MaxTime = 2
  MaxCrashes = 1
INVARIANTS NoEventVanishes ManifestBacked ListedSurvives PlanPartitions ErasureComplete
PROPERTY ImplementsTiers
ACTION_CONSTRAINT SplitAlone
CHECK_DEADLOCK FALSE
