SPECIFICATION FairSpec
CHECK_DEADLOCK FALSE
CONSTANTS
  r = r
  b = b
  t1 = t1
  t2 = t2
  NoTeam = NoTeam
  NoConn = NoConn
  Stations = {r}
  Teams = {t1, t2}
  Results = {"R"}
  MaxConns = 2
INVARIANTS
  NoStrangerAtStation
PROPERTIES
  DeadConnectionsGo
  GameDataIsHeard
