CONSTANTS
  None = None
  Hubs = {red}
  Network = "udp"
  Miscounts = FALSE
  MaxSessions = 2
  MaxSeq = 3
  MaxInFlight = 3
SPECIFICATION Spec
INVARIANTS ReorderedAndDuplicatesAreDropped
