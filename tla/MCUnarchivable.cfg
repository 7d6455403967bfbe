SPECIFICATION FairSpec
CONSTANTS
  alice = alice
  bob = bob
  Events = {1, 2}
  At <- OneDay
  UserOf <- OneUser
  DayLength = 1
  ArchiveAfter = 1
  BatchSize = 2
  Retention = 0
  Erasures = {}
  EraseBatch = 2
  TornWrites = FALSE
  Unencodable = {1}
  MaxTime = 2
  MaxCrashes = 0
CHECK_DEADLOCK FALSE
PROPERTY EventuallyArchived
