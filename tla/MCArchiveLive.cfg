SPECIFICATION FairSpec
CONSTANTS
  alice = alice
  bob = bob
  Events = {1, 2}
  At <- OneDay
  UserOf <- OneUser
  DayLength = 1
  ArchiveAfter = 1
  BatchSize = 1
  Retention = 1
  Erasures = {}
  EraseBatch = 2
  TornWrites = TRUE
  Unencodable = {}
  MaxTime = 2
  MaxCrashes = 2
CHECK_DEADLOCK FALSE
PROPERTY EventuallyArchived
