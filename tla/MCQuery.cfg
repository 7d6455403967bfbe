SPECIFICATION FairSpec
CONSTANTS
  hot = hot
  cold = cold
  pager = pager
  exporter = exporter
  Events = {1, 2, 3}
  At <- DistinctAt
  Tiers = {hot, cold}
  TierOf <- TwoTiers
  Pagers = {pager}
  Exporters = {exporter}
  PageLimit = 1
  ExportLimit = 1
  NoCursor = 4
INVARIANTS NoDuplicates NothingSkipped
PROPERTY ListingEnds
CHECK_DEADLOCK FALSE
