SPECIFICATION Spec
CONSTANTS
  hot = hot
  cold = cold
  pager = pager
  exporter = exporter
  Events = {1, 2, 3, 4}
  At <- TiedAt
  Tiers = {hot, cold}
  TierOf <- TwoTiers
  Pagers = {}
  Exporters = {exporter}
  PageLimit = 1
  ExportLimit = 2
  NoCursor = 5
INVARIANT NothingSkipped
CHECK_DEADLOCK FALSE
