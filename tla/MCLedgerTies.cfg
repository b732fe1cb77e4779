SPECIFICATION Spec
CONSTANTS
  Prices = {1}
  PageSize = 2
  MaxTime = 2
  MaxTxs = 3
INVARIANT
  TenanciesAlwaysFaithful
CHECK_DEADLOCK FALSE
