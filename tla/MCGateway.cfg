SPECIFICATION Spec
CONSTANTS
  r1 = r1
  r2 = r2
  r3 = r3
  None = None
  Requests = {r1, r2, r3}
  Retries = {r3}
  SecretOf <- SameSecret
  Configs <- MCConfigs
  StartConfig <- Before
  MaxConnections = 2
  Burst = 1
  TokenUnits = 3
  Rate = 2
  MaxDb = 1
  SizeInterval = 1
  MaxReloads = 1
  MaxFlushed = 2
  MaxTime = 3
INVARIANTS AdmittedWithinRate RetryHonest IdentityCurrent MountedOnce
PROPERTIES SizeHonest EveryRequestAnswered
ACTION_CONSTRAINT Apart
CHECK_DEADLOCK FALSE
