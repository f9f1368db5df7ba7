SPECIFICATION Spec
CONSTANT MaxEvents = 5
INVARIANTS SurfaceIsFold
PROPERTIES HiddenStaysHidden
CHECK_DEADLOCK FALSE
