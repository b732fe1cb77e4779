SPECIFICATION Spec
CONSTANTS
  MaxVersion = 3
  MaxFaults = 2
  MaxBuffer = 2
INVARIANTS
  TypeOK
  SetupGapCovered
PROPERTIES
  ShownForward
  SilentAfterStop
  ChangesAreShown
  WatchSurvivesFaults
CHECK_DEADLOCK FALSE
