SPECIFICATION Spec
CONSTANTS
  Prices = {1, 2}
  PageSize = 2
  MaxTime = 3
  MaxTxs = 4
INVARIANTS
  WalkReadsWindow
  StatementSettles
  StatusFaithful
  TenanciesFaithful
CHECK_DEADLOCK FALSE
