CONSTANTS
  Files <- MCFiles
  Bundled = "bundled"
  MaxNanos = 40
  MaxCount = 300
  Payloads <- MCPayloads
  Callers <- MCCallers
  Tiers = {"free", "pro"}
  LongTexts = {"toolong"}
  MaxTokens = 100
  MaxCost = 100
  MinTs = 5
  Now = 15
  DayLength = 10
  Windows <- MCWindows
  PageLimit = 2
  MaxPosts = 2
SPECIFICATION Spec
INVARIANTS RoundTrip FoundAsShown AggregatesBracketed MergedComplete OwnPriceWins VariantsPriced
PROPERTIES RefreshKeepsPrice BilledOnce
CHECK_DEADLOCK FALSE
ACTION_CONSTRAINT CatalogSteadyWhileReading
