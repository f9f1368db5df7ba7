SPECIFICATION Spec
CHECK_DEADLOCK FALSE
CONSTANTS
  MaxEvents = 15
  MaxTurns = 2
  MaxSteps = 2
  MaxCalls = 2
  MaxCommands = 1
  MaxCrashes = 1
INVARIANTS PairsStayWhole HiddenWasSummarized
PROPERTIES StepsKeepTheirContext
