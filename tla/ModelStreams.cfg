SPECIFICATION Spec
CONSTANTS
  WireChunks <- MCWireChunks
  MaxWire = 3
  OutCap = 1
INVARIANTS AnswerIsWhole FinishComesLast ReplayKeepsDeltas
PROPERTIES StreamEnds
CHECK_DEADLOCK FALSE
