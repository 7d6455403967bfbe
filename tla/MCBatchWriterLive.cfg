SPECIFICATION FairSpec
CONSTANTS
  e1 = e1
  e2 = e2
  e3 = e3
  hot = hot
  cold = cold
  Events <- MixedEvents
  Requests <- ManyRequests
  FireAndForget = {}
  Tiers = {hot}
  TierOf <- OneTierOf
  FlushShards = 2
  ChannelCapacity = 2
  BatchSize = 4
  BatchFloor = 2
  Rotator = Rotator
  OtherCheckpointers = {}
  HasDeadline = TRUE
  MaxCrashes = 0
CHECK_DEADLOCK FALSE
PROPERTIES EveryCallSettles EventuallyVisible DropDrains
