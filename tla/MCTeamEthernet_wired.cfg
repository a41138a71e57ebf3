CONSTANTS
  a = a
  Teams = {a}
  NoTeam = NoTeam
  NumStations = 2
  MaxRequests = 3
  MaxClears = 1
  MaxSwitches = 2
SPECIFICATION FairSpec
CHECK_DEADLOCK FALSE
INVARIANTS ActiveMeansCarried OneSubnetPerTeam PortsComeBack
PROPERTIES ImplementsLatestWins
