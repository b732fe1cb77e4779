SPECIFICATION Spec
CONSTANTS
  Ensembles <- MCEnsembles
  Shapes <- MCShapes
  Height <- MCHeight
  Scale <- MCScale
  Tenures = {1, 2}
  Overpay = {0}
  Addresses = {a1}
  Delays = {0, 2}
  None = None
  MaxCaps = 3
  MaxTime = 5
  MaxStake = 100
  MaxUnlock = 2
  MaxMs = 4
PROPERTY
  RentRefusals
CHECK_DEADLOCK FALSE
