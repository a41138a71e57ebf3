CONSTANTS
  None = None
  Hubs = {red}
  Network = "udp"
  Miscounts = TRUE
  MaxSessions = 2
  MaxSeq = 3
  MaxInFlight = 2
SPECIFICATION Spec
PROPERTIES ImplementsHubFeed
