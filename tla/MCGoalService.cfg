SPECIFICATION Spec
CONSTANTS
  RoundCaps <- MCRoundCaps
  DefaultMaxGoalRounds = 2
  BlockCodes <- MCBlockCodes
  Clock <- MCClock
  MaxEvents = 6
INVARIANTS MirrorsLog
PROPERTIES RevisionsAdvance KeepsContract
CHECK_DEADLOCK FALSE
