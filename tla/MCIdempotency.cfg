SPECIFICATION Spec
CONSTANTS
  a1 = a1
  a2 = a2
  a3 = a3
  f = f
  b1 = b1
  b2 = b2
  b3 = b3
  k1 = k1
  k2 = k2
  Attempts <- Keyed
  Batches = {}
  Unconfirmed = {}
  Keys = {k1, k2}
  NoKey = NoKey
  KeyOf <- KeyedKeyOf
  NumShards = 2
  HashOf <- SameHash
  MaxEntries = 8
  Ttl = 2
  Error = Error
  MaxTime = 0
  MaxCrashes = 0
INVARIANT RetryCreatesNoDuplicate
CHECK_DEADLOCK FALSE
