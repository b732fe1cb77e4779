CONSTANTS
  None = None
  p1 = p1
  p2 = p2
  p3 = p3
  Proc = {p1, p2, p3}
  Signers = {p1, p2}
  Scenarios <- InTurnOnly
  Others = {"rent", "update", "retire", "claim", "collect", "burnStale", "succeed", "vacate", "cool"}
  Purse = 4
  MarketViews = {"restPrice", "tenureDuration"}
  Attempts = 2
  FeedAttempts = 2
SPECIFICATION Spec
PROPERTY UpdateKeepsEarlierPatch
CHECK_DEADLOCK FALSE
