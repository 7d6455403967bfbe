SPECIFICATION SplitSpec
CONSTANTS
  a1 = a1
  a2 = a2
  a3 = a3
  f = f
  b1 = b1
  b2 = b2
  b3 = b3
  k1 = k1
  k2 = k2
  Attempts <- All
  Batches <- OneBatch
  Unconfirmed = {f}
  Keys = {k1, k2}
  NoKey = NoKey
  KeyOf <- AllKeyOf
  NumShards = 2
  HashOf <- SameHash
  MaxEntries = 3
  Ttl = 2
  Error = Error
  MaxTime = 3
  MaxCrashes = 1
INVARIANTS AnswerStored BatchAligned RetryDeduplicated CacheBounded
CHECK_DEADLOCK FALSE
