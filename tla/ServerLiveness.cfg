SPECIFICATION FairServerSpec
CONSTANTS
  RoundCaps = {0, 2}
  DefaultMaxGoalRounds = 1
  BlockCodes <- MCBlockCodes
  Clock = {0}
  MaxEvents = 20
  Workers = {w1}
  Turns = {t1, t2}
  Free = Free
  BlockedAfter = 2
  MaxPrompts = 2
  MaxTools = 1
  MaxCancels = 0
  MaxCommands = 1
PROPERTIES QueuedPromptRuns GoalContinues
CHECK_DEADLOCK FALSE
