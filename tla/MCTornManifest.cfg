SPECIFICATION Spec
CONSTANTS
  alice = alice
  bob = bob
  Events = {1, 2, 3}
  At <- TwoDays
  UserOf <- TwoUsers
  DayLength = 1
  ArchiveAfter = 1
  BatchSize = 2
  Retention = 1
  Erasures = {}
  EraseBatch = 2
  TornWrites = TRUE
  Unencodable = {}
  MaxTime = 2
  MaxCrashes = 1
INVARIANT ListedSurvives
CHECK_DEADLOCK FALSE
