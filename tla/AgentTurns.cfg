SPECIFICATION FairSpec
CONSTANTS
  MaxTurns = 2
  MaxSteps = 2
  MaxCalls = 3
  MaxCrashes = 2
INVARIANTS RepairIsExact TurnNumbersIncrease NotStartedIsTrue ThisTurnAnswered
PROPERTIES CancelStops
CHECK_DEADLOCK FALSE
