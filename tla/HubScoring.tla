------------------------------ MODULE HubScoring ------------------------------
(***************************************************************************)
(* How FUEL becomes a score: game/hub.go, field/arena_hub_counter.go and   *)
(* the parts of Arena.Update that drive them.                              *)
(*                                                                         *)
(* The counts come from a source that keeps HubFeed.tla's promise and      *)
(* rises at any moment, for its listener takes no arena lock.  A pass of   *)
(* Update folds the counts into the tallies of the shift they arrived in   *)
(* (Fold) and then runs the match (Step); both hold arena.mu, but time     *)
(* passes and FUEL arrives between the two, so each is a step of its own.  *)
(*                                                                         *)
(* The stops, the lineup and the driver stations are Arena.tla's; here     *)
(* they are a match that may be cut short in any pass.                     *)
(*                                                                         *)
(* A definition that Next does not reach is a faulty variant of the one    *)
(* that follows it, kept to show which property catches that fault.        *)
(***************************************************************************)
EXTENDS Integers

CONSTANTS
  TicksPerSec,
  WarmupDurationSec, AutoDurationSec, PauseDurationSec, TeleopDurationSec,
  TransitionShiftDurationSec, ShiftDurationSec, EndgameDurationSec,
  ScoringGracePeriodSec, PostMatchAutoClearDelaySec,
  Modes,             \* the AUTO winner modes the operator chooses from
  MaxStall,          \* the longest time, in ticks, between two passes of Update
  MaxFuel            \* bound on the FUEL of one match

ASSUME TicksAssumption == TicksPerSec \in Nat \ {0}
ASSUME DurationsAssumption ==
  /\ WarmupDurationSec \in Nat /\ AutoDurationSec \in Nat
  /\ PauseDurationSec \in Nat /\ TeleopDurationSec \in Nat
  /\ TransitionShiftDurationSec \in Nat /\ ShiftDurationSec \in Nat /\ EndgameDurationSec \in Nat
  /\ ScoringGracePeriodSec \in Nat /\ PostMatchAutoClearDelaySec \in Nat
\* TestTeleopDurationMatchesShiftBreakdown (game/match_timing_test.go).
ASSUME BreakdownAssumption ==
  TeleopDurationSec = TransitionShiftDurationSec + 4 * ShiftDurationSec + EndgameDurationSec
\* The AUTO count is settled by the end of the pause (game/match_timing.go).
ASSUME PauseAssumption == PauseDurationSec >= ScoringGracePeriodSec
ASSUME ModesAssumption == Modes \subseteq {"random", "red", "blue", "counted"}
ASSUME FuelAssumption == MaxFuel \in Nat
\* Within every shift the grace period of the one before it is long over.
ASSUME GraceAssumption ==
  /\ ShiftDurationSec >= ScoringGracePeriodSec
  /\ TransitionShiftDurationSec >= 2 * ScoringGracePeriodSec
\* A pass comes every 10 ms and is never later than the grace period, of seconds.
ASSUME StallAssumption == MaxStall \in 1 .. (ScoringGracePeriodSec * TicksPerSec)

Alliances == {"red", "blue"}

VARIABLES
  MatchState,
  now,               \* time since MatchStartTime
  dwell,             \* time since postMatchStartTime
  stalled,           \* time since the last pass of Update
  folded,            \* is a pass of Update between Fold and Step?
  count,             \* the count source
  lost,              \* history: what receivers replaced since the match began had counted
  saving,            \* is a settings save past its check for a running match?
  ShiftCounts,
  WonAuto,           \* of each alliance's Hub
  AutoWinner, AutoWinnerMode, GameData,
  lastShift

sourceVars == <<count, lost>>
hubVars == <<ShiftCounts, WonAuto>>
resultVars == <<AutoWinner, GameData>>
vars == <<MatchState, now, dwell, stalled, folded, sourceVars, saving, hubVars, resultVars,
          AutoWinnerMode, lastShift>>

Feed == INSTANCE HubFeed WITH Hubs <- Alliances

-----------------------------------------------------------------------------
(* The shifts (game/hub.go), numbered as its constants are                   *)

ShiftAuto == 0
ShiftTransition == 1
Shift1 == 2
Shift4 == 5
ShiftEndgame == 6
ShiftPostMatch == 7
ShiftCount == 8
Shifts == 0 .. 7

Ticks(seconds) == seconds * TicksPerSec

AutoEnd == Ticks(WarmupDurationSec + AutoDurationSec)
TeleopStart == AutoEnd + Ticks(PauseDurationSec)
TeleopEnd == TeleopStart + Ticks(TeleopDurationSec)
Grace == Ticks(ScoringGracePeriodSec)

\* When a shift ends on the field's clock: AUTO, the transition and the four alliance
\* shifts by their own durations, the endgame with teleop.
ShiftEnd(shift) ==
  IF shift = ShiftAuto THEN AutoEnd
  ELSE IF shift \in ShiftTransition .. Shift4
       THEN TeleopStart + Ticks(TransitionShiftDurationSec + (shift - 1) * ShiftDurationSec)
       ELSE TeleopEnd

ShiftStart(shift) ==
  IF shift = ShiftAuto THEN 0
  ELSE IF shift = ShiftTransition THEN TeleopStart ELSE ShiftEnd(shift - 1)

\* GetCurrentShiftTiming: the shift the field is in, which the lights and the panel follow.
FieldShift(t) ==
  LET running == {s \in ShiftAuto .. ShiftEndgame : ShiftStart(s) <= t /\ t < ShiftEnd(s)}
  IN IF running = {} THEN ShiftCount ELSE CHOOSE s \in running : TRUE

IsShiftActive(shift, won) ==
  \/ shift \in {ShiftAuto, ShiftTransition, ShiftEndgame, ShiftPostMatch}
  \/ shift \in {Shift1, Shift1 + 2} /\ ~won
  \/ shift \in {Shift1 + 1, Shift4} /\ won

ScoringEndEvenly(shift, won) ==
  IF shift = ShiftEndgame THEN TeleopEnd ELSE ShiftEnd(shift) + Grace
ScoringEndPastPause(shift, won) ==
  IF shift = ShiftAuto THEN TeleopStart + Grace
  ELSE IF shift = ShiftEndgame THEN TeleopEnd
       ELSE ShiftEnd(shift) + (IF IsShiftActive(shift, won) THEN Grace ELSE 0)

\* When a Hub stops crediting a shift: a grace period after it, had the Hub been active, and
\* the endgame's own is the post-match shift.
ScoringEnd(shift, won) ==
  IF shift = ShiftEndgame THEN TeleopEnd
  ELSE ShiftEnd(shift) + (IF IsShiftActive(shift, won) THEN Grace ELSE 0)

\* getCurrentShift: the shift a FUEL arriving at t is tallied under.
ScoringShift(won, t) ==
  LET open == {s \in Shifts : t < ScoringEnd(s, won)}
  IN IF open = {} THEN ShiftCount ELSE CHOOSE s \in open : \A r \in open : s <= r

Total(counts) ==
  counts[0] + counts[1] + counts[2] + counts[3] + counts[4] + counts[5] + counts[6] + counts[7]

\* The tallies of a Hub that reads total on its counter at t (UpdateState): what is new goes
\* to the shift it is found in, and a count that has fallen changes nothing.
UpdateState(counts, won, total, t) ==
  LET shift == ScoringShift(won, t)
  IN IF shift # ShiftCount /\ total > Total(counts)
     THEN [counts EXCEPT ![shift] = @ + (total - Total(counts))]
     ELSE counts

NoFuel == [s \in Shifts |-> 0]

Credit(counts, won) == [s \in Shifts |-> IF IsShiftActive(s, won) THEN counts[s] ELSE 0]

\* hubCreditedCount.
Credited(h) == Total(Credit(ShiftCounts[h], WonAuto[h]))

-----------------------------------------------------------------------------
(* A pass of Update                                                          *)

Timed == {"WarmupPeriod", "AutoPeriod", "PausePeriod", "TeleopPeriod"}
InProgress == Timed \cup {"StartMatch"}

WonAutoOf(winner) == [h \in Alliances |-> winner = h]

\* updateHubCounts, with the sync of the Hubs that precedes it.
Fold ==
  /\ ~folded
  /\ folded' = TRUE
  /\ WonAuto' = WonAutoOf(AutoWinner)
  /\ ShiftCounts' = [h \in Alliances |-> UpdateState(ShiftCounts[h], WonAuto'[h], count[h], now)]
  /\ UNCHANGED <<MatchState, now, dwell, stalled, sourceVars, saving, resultVars, AutoWinnerMode,
                 lastShift>>

\* ResetMatch of the count source.
ResetCounts == count' = Feed!Zero /\ lost' = Feed!Zero

resetHubs ==
  /\ ShiftCounts' = [h \in Alliances |-> NoFuel]
  /\ WonAuto' = WonAutoOf("none")

TeleopShiftLate(remaining) ==
  LET handovers == {k \in 1 .. 4 : remaining >= EndgameDurationSec + k * ShiftDurationSec}
  IN IF handovers = {} THEN IF remaining < EndgameDurationSec THEN ShiftEndgame ELSE Shift4
     ELSE Shift4 - (CHOOSE k \in handovers : \A j \in handovers : j <= k)

\* teleopShift, from the whole seconds of teleop that are left.
TeleopShift(remaining) ==
  LET handovers == {k \in 1 .. 4 : remaining > EndgameDurationSec + k * ShiftDurationSec}
  IN IF remaining > EndgameDurationSec + 4 * ShiftDurationSec THEN ShiftTransition
     ELSE IF handovers = {} /\ remaining <= EndgameDurationSec THEN ShiftEndgame
     ELSE IF handovers = {} THEN Shift4
     ELSE Shift4 - (CHOOSE k \in handovers : \A j \in handovers : j <= k)

\* currentShift, which sounds the cue; Seconds are truncated as int() truncates them.
CurrentShift(state, t) ==
  IF state = "AutoPeriod" THEN ShiftAuto
  ELSE IF state = "TeleopPeriod"
       THEN TeleopShift((Ticks(TeleopDurationSec) - (t - TeleopStart)) \div TicksPerSec)
       ELSE IF state = "PostMatch" THEN ShiftPostMatch ELSE ShiftCount

\* The end of the pass, the state machine having left the match in state with game data data:
\* a stop may end the match yet, and the cue is sounded on the state that is left.
FinishPass(state, data) ==
  /\ folded' = FALSE
  /\ \/ MatchState' = state /\ GameData' = data
     \/ /\ state \in InProgress
        /\ MatchState' = "PostMatch" /\ GameData' = ""
  /\ dwell' = IF MatchState' = "PostMatch" /\ MatchState = "PostMatch" THEN dwell ELSE 0
  /\ lastShift' = CurrentShift(MatchState', now)
  /\ UNCHANGED <<AutoWinnerMode, saving>>

PreMatchStep ==
  /\ MatchState = "PreMatch"
  /\ FinishPass("PreMatch", GameData)
  /\ UNCHANGED <<now, sourceVars, hubVars, AutoWinner>>

StartMatchStepKeepsHubs ==
  /\ MatchState = "StartMatch"
  /\ now' = 0
  /\ AutoWinner' = "none"
  /\ ResetCounts
  /\ UNCHANGED hubVars
  /\ FinishPass(IF WarmupDurationSec > 0 THEN "WarmupPeriod" ELSE "AutoPeriod", "")

\* The baseline of the match: its clock, the counts and the tallies all from here.
StartMatchStep ==
  /\ MatchState = "StartMatch"
  /\ now' = 0
  /\ AutoWinner' = "none"
  /\ ResetCounts
  /\ resetHubs
  /\ FinishPass(IF WarmupDurationSec > 0 THEN "WarmupPeriod" ELSE "AutoPeriod", "")

WarmupStep ==
  /\ MatchState = "WarmupPeriod"
  /\ FinishPass(IF now >= Ticks(WarmupDurationSec) THEN "AutoPeriod" ELSE "WarmupPeriod", GameData)
  /\ UNCHANGED <<now, sourceVars, hubVars, AutoWinner>>

\* countedAutoWinner; an equal count is a coin flip.
CountedAutoWinner(red, blue) ==
  IF red = blue THEN Alliances ELSE IF red > blue THEN {"red"} ELSE {"blue"}

\* assignAutoWinner.
AssignAutoWinner ==
  CASE AutoWinnerMode \in Alliances -> {AutoWinnerMode}
    [] AutoWinnerMode = "counted" ->
         CountedAutoWinner(ShiftCounts["red"][ShiftAuto], ShiftCounts["blue"][ShiftAuto])
    [] OTHER -> Alliances

GameDataFor(winner) ==
  IF winner = "red" THEN "R" ELSE IF winner = "blue" THEN "B" ELSE ""

OpenTeleopUnsynced ==
  /\ AutoWinner' \in AssignAutoWinner
  /\ UNCHANGED <<now, sourceVars, hubVars>>
  /\ FinishPass("TeleopPeriod", GameDataFor(AutoWinner'))

\* handleAutoWinner and the transition it runs at: the Hubs follow the result at once.
OpenTeleop ==
  /\ AutoWinner' \in AssignAutoWinner
  /\ WonAuto' = WonAutoOf(AutoWinner')
  /\ UNCHANGED <<now, sourceVars, ShiftCounts>>
  /\ FinishPass("TeleopPeriod", GameDataFor(AutoWinner'))

AutoStep ==
  /\ MatchState = "AutoPeriod"
  /\ \/ /\ now < AutoEnd
        /\ FinishPass("AutoPeriod", GameData)
        /\ UNCHANGED <<now, sourceVars, hubVars, AutoWinner>>
     \/ /\ now >= AutoEnd
        /\ IF PauseDurationSec > 0
           THEN FinishPass("PausePeriod", GameData) /\ UNCHANGED <<now, sourceVars, hubVars,
                                                                   AutoWinner>>
           ELSE OpenTeleop

PauseStep ==
  /\ MatchState = "PausePeriod"
  /\ \/ now >= TeleopStart /\ OpenTeleop
     \/ /\ now < TeleopStart
        /\ FinishPass("PausePeriod", GameData)
        /\ UNCHANGED <<now, sourceVars, hubVars, AutoWinner>>

TeleopStepDecidesAgain ==
  /\ MatchState = "TeleopPeriod"
  /\ IF now >= TeleopEnd
     THEN FinishPass("PostMatch", "") /\ UNCHANGED <<now, sourceVars, hubVars, AutoWinner>>
     ELSE OpenTeleop

TeleopStep ==
  /\ MatchState = "TeleopPeriod"
  /\ IF now >= TeleopEnd THEN FinishPass("PostMatch", "") ELSE FinishPass("TeleopPeriod", GameData)
  /\ UNCHANGED <<now, sourceVars, hubVars, AutoWinner>>

\* ResetMatch and LoadMatch, as clearMatchLocked and ResetField leave the scoring.
Clear ==
  /\ MatchState' = "PreMatch" /\ GameData' = "" /\ dwell' = 0
  /\ ResetCounts
  /\ resetHubs
  /\ AutoWinner' = "none"
  /\ UNCHANGED <<now, AutoWinnerMode, saving>>

PostMatchStep ==
  /\ MatchState = "PostMatch"
  /\ \/ /\ dwell >= Ticks(PostMatchAutoClearDelaySec)
        /\ Clear
        /\ folded' = FALSE
        /\ lastShift' = CurrentShift("PreMatch", now)
     \/ /\ dwell < Ticks(PostMatchAutoClearDelaySec)
        /\ FinishPass("PostMatch", GameData)
        /\ UNCHANGED <<now, sourceVars, hubVars, AutoWinner>>

Step ==
  /\ folded /\ stalled' = 0
  /\ \/ PreMatchStep \/ StartMatchStep \/ WarmupStep \/ AutoStep
     \/ PauseStep \/ TeleopStep \/ PostMatchStep

-----------------------------------------------------------------------------
(* The operator, the counter and time                                        *)

StartMatch ==
  /\ ~folded
  /\ MatchState = "PreMatch"
  /\ MatchState' = "StartMatch"
  /\ UNCHANGED <<now, dwell, stalled, folded, sourceVars, saving, hubVars, resultVars,
                 AutoWinnerMode, lastShift>>

AbortMatch ==
  /\ ~folded
  /\ MatchState \in InProgress
  /\ MatchState' = "PostMatch" /\ GameData' = "" /\ dwell' = 0
  /\ UNCHANGED <<now, stalled, folded, sourceVars, saving, hubVars, AutoWinner, AutoWinnerMode,
                 lastShift>>

ClearMatch ==
  /\ ~folded
  /\ MatchState = "PostMatch"
  /\ Clear
  /\ UNCHANGED <<stalled, folded, lastShift>>

ResetField ==
  /\ ~folded
  /\ MatchState \in {"PreMatch", "PostMatch"}
  /\ Clear
  /\ UNCHANGED <<stalled, folded, lastShift>>

SetAutoWinnerMode ==
  /\ ~folded
  /\ MatchState \in {"PreMatch", "PostMatch"}
  /\ AutoWinnerMode' \in Modes
  /\ UNCHANGED <<MatchState, now, dwell, stalled, folded, sourceVars, saving, hubVars, resultVars,
                 lastShift>>

\* settingsPostHandler refuses a save while a match is in progress.  It looks at MatchState
\* without the lock and loads later, so a match may be started in between.
SaveSettings ==
  /\ ~saving /\ MatchState \notin InProgress
  /\ saving' = TRUE
  /\ UNCHANGED <<MatchState, now, dwell, stalled, folded, sourceVars, hubVars, resultVars,
                 AutoWinnerMode, lastShift>>

\* The rest of LoadSettings, of a save that alters neither the timing nor the AUTO mode (a
\* restore may: Arena.tla): a new receiver, which has counted nothing, takes the place of the
\* old one.
LoadSettings ==
  /\ saving /\ ~folded
  /\ saving' = FALSE
  /\ count' = Feed!Zero
  /\ lost' = [h \in Alliances |-> lost[h] + count[h]]
  /\ UNCHANGED <<MatchState, now, dwell, stalled, folded, hubVars, resultVars, AutoWinnerMode,
                 lastShift>>

Counted(h) == count[h] + lost[h]

CountRises(h) ==
  /\ Counted("red") + Counted("blue") < MaxFuel
  /\ count' = [count EXCEPT ![h] = @ + 1]
  /\ UNCHANGED <<MatchState, now, dwell, stalled, folded, lost, saving, hubVars, resultVars,
                 AutoWinnerMode, lastShift>>

\* The first instant no shift is open any more, and none ever will be again: MatchStartTime
\* is the zero time until a match is started.
NowLimit == TeleopEnd + Grace

\* Once nothing depends on the time any more it is left to stand.
Tick ==
  /\ stalled < MaxStall
  /\ now < NowLimit \/ (MatchState = "PostMatch" /\ dwell < Ticks(PostMatchAutoClearDelaySec))
  /\ stalled' = stalled + 1
  /\ now' = IF now < NowLimit THEN now + 1 ELSE now
  /\ dwell' = IF MatchState = "PostMatch" /\ dwell < Ticks(PostMatchAutoClearDelaySec)
              THEN dwell + 1 ELSE dwell
  /\ UNCHANGED <<MatchState, folded, sourceVars, saving, hubVars, resultVars, AutoWinnerMode,
                 lastShift>>

-----------------------------------------------------------------------------
Init ==
  /\ MatchState = "PreMatch" /\ now = NowLimit /\ dwell = 0 /\ stalled = 0 /\ folded = FALSE
  /\ count = Feed!Zero /\ lost = Feed!Zero /\ saving = FALSE
  /\ ShiftCounts = [h \in Alliances |-> NoFuel] /\ WonAuto = WonAutoOf("none")
  /\ AutoWinner = "none" /\ AutoWinnerMode \in Modes /\ GameData = ""
  /\ lastShift = ShiftCount

Next == \/ Fold \/ Step
        \/ StartMatch \/ AbortMatch \/ ClearMatch \/ ResetField \/ SetAutoWinnerMode
        \/ SaveSettings \/ LoadSettings
        \/ \E h \in Alliances : CountRises(h)
        \/ Tick

Spec == Init /\ [][Next]_vars

-----------------------------------------------------------------------------
(* Properties                                                                *)

PassEnds == folded /\ ~folded'

TypeOK ==
  /\ MatchState \in InProgress \cup {"PreMatch", "PostMatch"}
  /\ now \in Nat /\ dwell \in Nat /\ stalled \in 0 .. MaxStall /\ folded \in BOOLEAN
  /\ count \in [Alliances -> Nat] /\ lost \in [Alliances -> Nat] /\ saving \in BOOLEAN
  /\ ShiftCounts \in [Alliances -> [Shifts -> Nat]] /\ WonAuto \in [Alliances -> BOOLEAN]
  /\ AutoWinner \in Alliances \cup {"none"} /\ AutoWinnerMode \in Modes
  /\ GameData \in {"", "R", "B"}
  /\ lastShift \in Shifts \cup {ShiftCount}

\* FUEL is tallied once, under one shift: the tallies never add up to more than the counters
\* have counted since the match began, whatever became of a counter in between (UpdateState,
\* resetHubs, applyHubCounterSettings).
TalliedOnce ==
  \A h \in Alliances : Total(ShiftCounts[h]) <= Counted(h)

\* The AUTO result a match runs under is the one its AUTO tallies say: they do not move once
\* it is decided, so the FUEL log and the robots agree (countedAutoWinner, getCurrentShift).
ResultMatchesAuto ==
  MatchState = "TeleopPeriod" /\ AutoWinnerMode = "counted" =>
    AutoWinner \in CountedAutoWinner(ShiftCounts["red"][ShiftAuto], ShiftCounts["blue"][ShiftAuto])

\* The Hubs alternate by the result the driver stations were sent: in teleop exactly one
\* alliance won AUTO, its own Hub says so, and the game data names it (handleAutoWinner,
\* syncHubWonAuto).
HubsFollowResult ==
  MatchState = "TeleopPeriod" =>
    \E winner \in Alliances : WonAuto = WonAutoOf(winner) /\ GameData = GameDataFor(winner)

\* FUEL that was credited stays credited to the end of the match: the result is settled
\* before any shift that depends on it can be scored in (isShiftActive, handleAutoWinner).
CreditStands ==
  [][hubVars' # hubVars /\ MatchState \in Timed \cup {"PostMatch"} /\ MatchState' # "PreMatch" =>
       \A h \in Alliances : Credited(h)' >= Credited(h)]_vars

\* The scoring clock is the field's clock with a grace period: during a shift, FUEL goes to
\* that shift, or to the one before while its grace lasts and for a Hub that was active in
\* it (getCurrentShift against GetCurrentShiftTiming).
ScoringFollowsField ==
  LET field == FieldShift(now)
  IN field # ShiftCount =>
       \A h \in Alliances :
         LET scoring == ScoringShift(WonAuto[h], now)
         IN scoring # field => /\ scoring = field - 1 /\ now < ShiftEnd(scoring) + Grace
                               /\ IsShiftActive(scoring, WonAuto[h])

\* The cue of a shift sounds in teleop no later than the pass that finds the field in that
\* shift, and less than a second before: the whole seconds teleopShift compares are never
\* more than a handover off (currentShift against GetCurrentShiftTiming).
CueNearHandover ==
  [][PassEnds /\ MatchState' = "TeleopPeriod" /\ now < TeleopEnd =>
       FieldShift(now) <= lastShift' /\ lastShift' <= FieldShift(now + TicksPerSec - 1)]_vars
=============================================================================
