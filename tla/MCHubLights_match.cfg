CONSTANTS
  TicksPerSec = 2
  WarmupDurationSec = 1
  AutoDurationSec = 1
  PauseDurationSec = 1
  TeleopDurationSec = 11
  TransitionShiftDurationSec = 2
  ShiftDurationSec = 2
  EndgameDurationSec = 1
  ScoringGracePeriodSec = 1
  PostMatchAutoClearDelaySec = 1
  hubLightWarningSec = 1
  hubLightScoringAssessmentSec = 1
  Modes = {"counted", "red"}
  MaxStall = 1
  MaxFuel = 2
SPECIFICATION LitSpec
INVARIANTS TalliedOnce ResultMatchesAuto HubsFollowResult ScoringFollowsField LitHubCredits LightsGoOff
PROPERTIES CueNearHandover CreditStands LightsShowActivity WarnedBeforeDark MarkedHubIsNamed
