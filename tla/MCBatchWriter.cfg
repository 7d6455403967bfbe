SPECIFICATION Spec
CONSTANTS
  e1 = e1
  e2 = e2
  e3 = e3
  hot = hot
  cold = cold
  Events <- MixedEvents
  Requests <- MixedRequests
  FireAndForget = {e3}
  Tiers = {hot, cold}
  TierOf <- MixedTierOf
  FlushShards = 2
  ChannelCapacity = 2
  BatchSize = 4
  BatchFloor = 2
  Rotator = Rotator
  OtherCheckpointers = {}
  HasDeadline = TRUE
  MaxCrashes = 1
INVARIANTS TypeOK AckedDurable WaiterHeld NoSilentLoss AtMostOnce RefusedNotTaken BoundedBacklog
PROPERTY ImplementsLog
CHECK_DEADLOCK FALSE
