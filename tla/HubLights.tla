------------------------------ MODULE HubLights ------------------------------
(***************************************************************************)
(* The lights of the HUBs over the scoring of HubScoring.tla:              *)
(* field/arena_leds.go and its place at the end of a pass of Update.       *)
(*                                                                         *)
(* A light has a mode, the sequence its output was last told to run; red   *)
(* and blue names are one here.  The lights go by hubs of their own, with  *)
(* the AUTO result and the field's clock, where the scoring goes by the    *)
(* tallying hubs and a clock with grace periods: what the two have to do   *)
(* with each other is the business of the properties below.                *)
(*                                                                         *)
(* Three actors set the modes: the pass of Update, the goroutine each end  *)
(* of a match leaves behind, which takes no lock, and a settings save,     *)
(* which puts a fresh output in the place of the old one.                  *)
(*                                                                         *)
(* A definition that LitNext does not reach is a faulty variant of the one *)
(* that follows it, kept to show which property catches that fault.        *)
(***************************************************************************)
EXTENDS HubScoring

CONSTANTS
  hubLightWarningSec,
  hubLightScoringAssessmentSec

ASSUME LightsAssumption == hubLightWarningSec \in Nat /\ hubLightScoringAssessmentSec \in Nat
\* No pass is later than a warning is long.
ASSUME WarningAssumption == MaxStall <= hubLightWarningSec * TicksPerSec

Lit == {"Startup", "Solid", "Pulse", "Advantage", "White"}

VARIABLES
  mode,              \* of each HUB's light
  lastMatchState,    \* the match state the last pass left, "none" before the first
  offTimers          \* the goroutines of ended matches, each the time it has slept

lightVars == <<mode, lastMatchState, offTimers>>
allVars == <<vars, lightVars>>

Both(m) == [h \in Alliances |-> m]

-----------------------------------------------------------------------------
(* updateHubLeds                                                             *)

Shift2 == Shift1 + 1
Shift3 == Shift1 + 2

\* Whose light pulses in the last seconds of a shift: that of a HUB about to go dark.
PulsesUntilShift2(h, shift, winner) ==
  \/ shift \in {ShiftTransition, Shift2} /\ winner = h
  \/ shift = Shift1 /\ winner # h
  \/ shift = ShiftEndgame

PulsesBeforeLit(h, shift, winner) ==
  \/ shift \in {ShiftTransition, Shift2} /\ winner # h
  \/ shift \in {Shift1, Shift3} /\ winner = h
  \/ shift = ShiftEndgame

Pulses(h, shift, winner) ==
  \/ shift \in {ShiftTransition, Shift2} /\ winner = h
  \/ shift \in {Shift1, Shift3} /\ winner # h
  \/ shift = ShiftEndgame

Remaining(shift, t) == ShiftEnd(shift) - t

\* Whose light marks the advantage until then.
MarksFirstToShoot(h, shift, winner) == shift = ShiftTransition /\ winner # h

Marks(h, shift, winner) == shift = ShiftTransition /\ winner = h

TeleopModeOnScoringClock(h, winner, t) ==
  IF IsShiftActive(ScoringShift(winner = h, t), winner = h) THEN "Solid" ELSE "Off"

\* updateTeleopHubLeds, of one HUB, in a shift of the field.
TeleopMode(h, winner, t) ==
  LET shift == FieldShift(t)
      ending == Remaining(shift, t) <= Ticks(hubLightWarningSec)
  IN IF ending /\ Pulses(h, shift, winner) THEN "Pulse"
     ELSE IF ~ending /\ Marks(h, shift, winner) THEN "Advantage"
     ELSE IF IsShiftActive(shift, winner = h) THEN "Solid" ELSE "Off"

\* The end of a match leaves both lights white and a goroutine that darkens them.
updateHubLedsOnce ==
  /\ mode' = CASE MatchState' = "AutoPeriod" -> Both("Startup")
               [] MatchState' = "PausePeriod" -> Both("Solid")
               [] MatchState' = "TeleopPeriod" /\ FieldShift(now') # ShiftCount ->
                    [h \in Alliances |-> TeleopMode(h, AutoWinner', now')]
               [] MatchState' = "PostMatch" /\ lastMatchState = "TeleopPeriod" -> Both("White")
               [] OTHER -> mode
  /\ offTimers' = IF MatchState' = "PostMatch" /\ lastMatchState = "TeleopPeriod"
                  THEN offTimers \cup {0} ELSE offTimers
  /\ lastMatchState' = MatchState'

updateHubLeds ==
  /\ mode' = CASE MatchState' = "AutoPeriod" -> Both("Startup")
               [] MatchState' = "PausePeriod" -> Both("Solid")
               [] MatchState' = "TeleopPeriod" /\ FieldShift(now') # ShiftCount ->
                    [h \in Alliances |-> TeleopMode(h, AutoWinner', now')]
               [] MatchState' = "PostMatch" /\ lastMatchState # "PostMatch" -> Both("White")
               [] OTHER -> mode
  /\ offTimers' = IF MatchState' = "PostMatch" /\ lastMatchState # "PostMatch"
                  THEN offTimers \cup {0} ELSE offTimers
  /\ lastMatchState' = MatchState'

LitStep == Step /\ updateHubLeds

-----------------------------------------------------------------------------
(* The goroutine, the settings save and time                                 *)

AssessmentTicks == Ticks(hubLightScoringAssessmentSec)

\* The goroutine wakes and darkens whatever output the arena has by now.
LightsOff ==
  /\ AssessmentTicks \in offTimers
  /\ offTimers' = offTimers \ {AssessmentTicks}
  /\ mode' = Both("Off")
  /\ UNCHANGED <<vars, lastMatchState>>

\* applyHubLedSettings: the old output is let go of and the new one starts from Off.
LitLoadSettings ==
  /\ LoadSettings
  /\ mode' = Both("Off")
  /\ UNCHANGED <<lastMatchState, offTimers>>

\* A goroutine oversleeps by less than a tick, as a pass is never later than MaxStall.
LitTick ==
  /\ AssessmentTicks \notin offTimers
  /\ Tick
  /\ offTimers' = {age + 1 : age \in offTimers}
  /\ UNCHANGED <<mode, lastMatchState>>

LitOther ==
  /\ \/ Fold
     \/ StartMatch \/ AbortMatch \/ ClearMatch \/ ResetField \/ SetAutoWinnerMode
     \/ SaveSettings
     \/ \E h \in Alliances : CountRises(h)
  /\ UNCHANGED lightVars

-----------------------------------------------------------------------------
LitInit == Init /\ mode = Both("Off") /\ lastMatchState = "none" /\ offTimers = {}

LitNext == LitStep \/ LightsOff \/ LitLoadSettings \/ LitTick \/ LitOther

LitSpec == LitInit /\ [][LitNext]_allVars

-----------------------------------------------------------------------------
(* Properties                                                                *)

LitTypeOK ==
  /\ mode \in [Alliances -> Lit \cup {"Off"}]
  /\ lastMatchState \in InProgress \cup {"PreMatch", "PostMatch", "none"}
  /\ offTimers \subseteq 0 .. AssessmentTicks

\* FUEL shot at a light that is on is never for nothing: from AUTO to the end of teleop the
\* scoring credits what arrives at a lit HUB, though its clock is another one and the light
\* may be a whole stalled pass old (updateTeleopHubLeds against getCurrentShift).
LitHubCredits ==
  MatchState \in {"AutoPeriod", "PausePeriod", "TeleopPeriod"} =>
    \A h \in Alliances :
      mode[h] # "Off" => IsShiftActive(ScoringShift(WonAuto[h], now), WonAuto[h])

\* Nor does a robot wait at a HUB for nothing: after each pass in teleop a HUB's light is on
\* exactly when the field's shift is one its alliance scores in, by the tallying hubs' own
\* result, and also when a save or a late goroutine has just darkened it (updateHubLeds).
LightsShowActivity ==
  [][PassEnds /\ MatchState' = "TeleopPeriod" /\ FieldShift(now) # ShiftCount =>
       \A h \in Alliances :
         mode'[h] # "Off" <=> IsShiftActive(FieldShift(now), WonAuto'[h])]_allVars

\* A HUB does not go dark on a robot that is shooting without a warning: in teleop a pass
\* turns a light off only when it pulsed (hubLightWarningSec).
WarnedBeforeDark ==
  [][PassEnds /\ MatchState = "TeleopPeriod" /\ MatchState' = "TeleopPeriod" =>
       \A h \in Alliances : mode[h] # "Off" /\ mode'[h] = "Off" => mode[h] = "Pulse"]_allVars

\* In the transition shift the one light that differs is that of the alliance the game data
\* names, whose HUB goes dark first: field and driver stations say the same
\* (updateTeleopHubLeds, gameDataForAutoWinner).
MarkedHubIsNamed ==
  [][PassEnds /\ MatchState' = "TeleopPeriod" /\ FieldShift(now) = ShiftTransition =>
       \E winner \in Alliances :
         /\ {h \in Alliances : mode'[h] \in {"Pulse", "Advantage"}} = {winner}
         /\ GameData' = GameDataFor(winner)]_allVars

\* The lights of a match that is over do not stay on: while one is lit in PostMatch, its
\* goroutine is still asleep or the pass that starts one is still to come, whichever way the
\* match ended and whatever was saved since (updateHubLeds).
LightsGoOff ==
  MatchState = "PostMatch" /\ (\E h \in Alliances : mode[h] # "Off") =>
    offTimers # {} \/ lastMatchState # "PostMatch"
=============================================================================
