SPECIFICATION Spec
CONSTANTS
  r = r
  NumPanels = 1
  Stations = {r}
  PanelOf <- OnlyRed
  Inputs <- DualAndSingleField
  maxSnapshotAge = 1
  DiscrepancyWindow = 1
INVARIANTS
  FaultRefusesStart
