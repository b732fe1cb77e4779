SPECIFICATION Spec
CONSTANTS
  MaxVersion = 2
  MaxFaults = 1
  MaxBuffer = 2
PROPERTY
  ResumableWithoutGaps
CHECK_DEADLOCK FALSE
