CONSTANTS
  r = r
  t1 = t1
  NoTeam = NoTeam
  NoConn = NoConn
  Stations = {r}
  Teams = {t1}
  PanelInputs <- Panel
  FieldEStopWired = TRUE
  WarmupDuration = 1
  AutoDuration = 1
  PauseDuration = 1
  TeleopDuration = 1
  DsPacketPeriod = 2
  PostMatchAutoClearDelay = 2
  Modes = {"red", "random"}
SPECIFICATION FairSpec
INVARIANTS FieldStopEndsMatch GameDataOnlyInTeleop ForcedWinnerHonoured BypassAsAsked PauseIsDisabled
PROPERTIES NoEnableUnderStop StopsLatched ImplementsMatchCycle MatchTurnsAround StoppedRobotIsDisabled
