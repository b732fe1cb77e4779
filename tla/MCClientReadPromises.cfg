CONSTANTS
  None = None
  p1 = p1
  p2 = p2
  p3 = p3
  Proc = {p1, p2, p3}
  Signers = {p1, p2}
  Scenarios <- ReadingOnly
  Others = {"succeed"}
  Purse = 4
  MarketViews = {"restPrice", "tenureDuration"}
  Attempts = 2
  FeedAttempts = 2
SPECIFICATION Spec
INVARIANT ReadsKeepAPromise
CHECK_DEADLOCK FALSE
