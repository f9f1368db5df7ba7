SPECIFICATION Spec
CONSTANTS
  Ids = {s1, s2}
  MaxEvents = 1
INVARIANTS NothingMissed
PROPERTIES ReturnedIsForgotten AppendsReturn
CHECK_DEADLOCK FALSE
