SPECIFICATION Spec
CONSTANTS
  Ids = {e1, e2}
  Initial = {e1}
  MaxVersion = 2
  MaxFaults = 2
  MaxBuffer = 2
  MaxAdds = 1
INVARIANTS
  TypeOK
  SeenOnlyWatched
  SignalsInHand
PROPERTIES
  SilentAfterStop
  DeltasReachCaller
  AddedIsReported
CHECK_DEADLOCK FALSE
