CONSTANTS
  a = a
  Teams = {a}
  NoTeam = NoTeam
  NumStations = 2
  MaxLoads = 2
  MaxFaults = 1
  MaxSaves = 1
SPECIFICATION FairSpec
INVARIANTS TypeOK
PROPERTIES AccessPointConverges
