SPECIFICATION HostsSpec
CONSTANTS
  RoundCaps = {0, 2}
  DefaultMaxGoalRounds = 1
  BlockCodes <- MCBlockCodes
  Clock = {0}
  MaxEvents = 20
  Workers = {w1, w2}
  Turns = {t1, t2}
  Free = Free
  BlockedAfter = 1
  MaxPrompts = 2
  MaxTools = 2
  MaxCancels = 1
  MaxCommands = 1
SYMMETRY MCSlots
INVARIANTS ServerLogAgrees HumanFirst ServerTurnsApart RequestNeverLost
PROPERTIES RoundsWithinBudget
CHECK_DEADLOCK FALSE
