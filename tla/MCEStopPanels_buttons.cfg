SPECIFICATION FairSpec
CONSTANTS
  r = r
  NumPanels = 1
  Stations = {r}
  PanelOf <- OnlyRed
  Inputs <- SingleAndDualField
  maxSnapshotAge = 1
  DiscrepancyWindow = 1
INVARIANTS
  HeldButtonStops
  HeldFieldEStopEndsMatch
PROPERTIES
  RepairedStationClears
