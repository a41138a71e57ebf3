CONSTANTS
  None = None
  Hubs = {red, blue}
  Network = "lossy"
  Miscounts = FALSE
  MaxSessions = 3
  MaxSeq = 2
  MaxInFlight = 2
SPECIFICATION Spec
SYMMETRY HubSymmetry
INVARIANTS NeverMoreThanCounted LostDatagramsCostNothing
