SPECIFICATION Spec
CONSTANTS
  Ids = {e1, e2}
  Initial = {e1}
  MaxVersion = 2
  MaxFaults = 0
  MaxBuffer = 1
  MaxAdds = 1
PROPERTY
  NoEmissionAfterRemove
CHECK_DEADLOCK FALSE
