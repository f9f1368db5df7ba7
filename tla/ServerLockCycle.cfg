SPECIFICATION ServerSpec
CONSTANTS
  RoundCaps = {0, 2}
  DefaultMaxGoalRounds = 1
  BlockCodes <- MCBlockCodes
  Clock = {0}
  MaxEvents = 20
  Workers = {w1, w2}
  Turns = {t1, t2}
  Free = Free
  BlockedAfter = 2
  MaxPrompts = 1
  MaxTools = 1
  MaxCancels = 1
  MaxCommands = 1
SYMMETRY MCSlots
INVARIANTS NoLockCycle
CHECK_DEADLOCK FALSE
