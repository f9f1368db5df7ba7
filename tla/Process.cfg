SPECIFICATION Spec
CONSTANTS
  RowOf <- MCRowOf
  Patches <- MCPatches
  MaxPatches = 6
  None = "none"
  Malformed = Malformed
  Modules <- MCModules
  Given = {"profile"}
  Ceiling = 3
  Requests = {0, 1, 2, 4}
  Reports <- MCReports
INVARIANTS PatchesReachTheTree ActivatesWhatItCan HandoffIsFresh ResultIsWhatWasSaid CancelStartsNoRound
PROPERTIES LoopEnds
CHECK_DEADLOCK FALSE
