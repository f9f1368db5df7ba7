SPECIFICATION Spec
CONSTANTS
  Procs = {p1, p2}
  Nobody = Nobody
  MaxEvents = 4
  MaxCrashes = 2
INVARIANTS OneWriter NothingAckedIsLost FileIsReadable LoadedInOrder
CHECK_DEADLOCK FALSE
