-------------------------------- MODULE Arena --------------------------------
(***************************************************************************)
(* The arena of field/arena.go: the match state machine, the stops, and    *)
(* what the driver stations are told.                                      *)
(*                                                                         *)
(* Three kinds of actor share the state.  The arena goroutine runs Update  *)
(* every 10 ms with arena.mu held; the web handlers call the exported      *)
(* methods, which take the same mutex; the toggles of web/match_play.go,   *)
(* DisableAll and the driver station goroutines take no lock at all.       *)
(* Update is therefore split at the points where a lock-free actor can be  *)
(* seen: one step up to the field e-stop poll (UpdateBegin) and one step   *)
(* for each panel input it polls after it (PollPanel).  The clear of a     *)
(* match is split too, at the two points where what it does to the         *)
(* bypasses can be seen or overwritten (ClearReset, ClearRestore).  The    *)
(* mutex is free exactly when Unlocked holds.                              *)
(*                                                                         *)
(* Time is counted in ticks.  clock is the elapsed time the current state  *)
(* compares against: time since MatchStartTime in the four timed periods,  *)
(* time since postMatchStartTime in PostMatch, and 0 in PreMatch and       *)
(* StartMatch, which read neither.                                         *)
(*                                                                         *)
(* owed and asked record what was asked of the arena, for the properties;  *)
(* no guard reads them.                                                    *)
(*                                                                         *)
(* A definition that Next does not reach is a faulty variant of the one    *)
(* that follows it, kept to show which property catches that fault.        *)
(***************************************************************************)
EXTENDS Naturals, Sequences

CONSTANTS
  Stations,          \* the alliance stations
  Teams,             \* the teams in the database
  NoTeam, NoConn,    \* nil Team, nil DsConn
  PanelInputs,       \* the panels' inputs, in the order Update polls them
  FieldEStopWired,   \* is a field e-stop pin configured? (a noop panel if not)
  WarmupDuration, AutoDuration, PauseDuration, TeleopDuration,
  DsPacketPeriod, PostMatchAutoClearDelay,
  Modes              \* the AUTO winner modes in use; random is the fallback

\* The station an input of a panel's field e-stop names.
All == "all"

ASSUME StationsAssumption == All \notin Stations
ASSUME NilAssumption ==
  NoTeam \notin Teams /\ NoConn \notin [RobotLinked : BOOLEAN, Enabled : BOOLEAN]
ASSUME PanelAssumption ==
  PanelInputs \in Seq([station : Stations \cup {All}, isAStop : BOOLEAN])
ASSUME TimingAssumption ==
  /\ WarmupDuration \in Nat /\ AutoDuration \in Nat
  /\ PauseDuration \in Nat /\ TeleopDuration \in Nat
  /\ DsPacketPeriod \in Nat \ {0}
  /\ PostMatchAutoClearDelay \in Nat
ASSUME ModesAssumption ==
  Modes \subseteq {"random", "red", "blue", "counted"} /\ "random" \in Modes
ASSUME FieldEStopAssumption == FieldEStopWired \in BOOLEAN

VARIABLES
  MatchState,
  clock,             \* elapsed time the state compares against (see above)
  AutoWinner, AutoWinnerMode, GameData,
  EStop, AStop, Bypass, EStopFault,
  Team, DsConn,
  FieldEStop,        \* the latch inside GpioFieldEStopPanel
  fieldEStopActive, fieldEStopFault,
  sinceDsPacket,     \* time since lastDsPacketTime
  polling,           \* 0, or the panel input the running Update polls next
  clearing,          \* who is in clearMatchLocked: "no", "command", or a "pass" of Update,
                     \* which is then to "resume"
  bypassed,          \* the snapshot of the bypasses it took
  owed,              \* the AUTO winner the match was started to have, or "open"
  asked              \* what was last asked of each bypass: "on", "off", or either
                     \* while a clear was under way ("raced")

vars == <<MatchState, clock, AutoWinner, AutoWinnerMode, GameData, EStop, AStop, Bypass,
          EStopFault, Team, DsConn, FieldEStop, fieldEStopActive, fieldEStopFault,
          sinceDsPacket, polling, clearing, bypassed, owed, asked>>

lineupVars == <<Team, AutoWinnerMode, owed>>
bypassVars == <<Bypass, asked>>
stopVars == <<EStop, AStop, bypassVars, EStopFault>>
fieldStopVars == <<FieldEStop, fieldEStopActive, fieldEStopFault>>
clearVars == <<clearing, bypassed>>
lockVars == <<polling, clearVars>>
matchVars == <<MatchState, clock, AutoWinner, GameData>>

-----------------------------------------------------------------------------
(* Match states and durations (game/match_timing.go)                         *)

Timed == {"WarmupPeriod", "AutoPeriod", "PausePeriod", "TeleopPeriod"}
InProgress == Timed \cup {"StartMatch"}
MatchStates == InProgress \cup {"PreMatch", "PostMatch"}

GetDurationToAutoEnd == WarmupDuration + AutoDuration
GetDurationToTeleopStart == GetDurationToAutoEnd + PauseDuration
GetDurationToTeleopEnd == GetDurationToTeleopStart + TeleopDuration

StopStates == {"OK", "Active", "Fault"}

\* MatchTimeSec() == 0: time.Since is positive in the timed periods.
MatchTimeIsZero == MatchState \notin Timed

\* The values the AUTO result can take in each mode.  Random and an AUTO tie are a coin
\* flip; which alliance Counted names is settled by the FUEL counts, not modelled here.
AssignAutoWinner(mode) ==
  IF mode \in {"red", "blue"} THEN {mode} ELSE {"red", "blue"}

GameDataForAutoWinner(winner) ==
  IF winner = "red" THEN "R" ELSE IF winner = "blue" THEN "B" ELSE ""

Connected(s) == DsConn[s] # NoConn
ToldEnabled(s) == Connected(s) /\ DsConn[s].Enabled

Unlocked == polling = 0 /\ clearing = "no"

\* Between clearMatchLocked's snapshot of the bypasses and its deferred restore of them.
ClearUnderWay == clearing \in {"command", "pass"}

\* The clock of a state entered by the current step.
ClockIn(state) ==
  IF state = MatchState \/ (state \in Timed /\ MatchState \in Timed) THEN clock ELSE 0

-----------------------------------------------------------------------------
(* Update: from the state machine to the field e-stop poll                   *)

EnableDespiteEStop(s, auto, enabled) == enabled /\ ~(auto /\ AStop[s]) /\ ~Bypass[s]
EnableDespiteBypass(s, auto, enabled) == enabled /\ ~EStop[s] /\ ~(auto /\ AStop[s])

\* The enable decision of sendDsPacket for one station.
EnableDecision(s, auto, enabled) ==
  enabled /\ ~EStop[s] /\ ~(auto /\ AStop[s]) /\ ~Bypass[s]

SendDsPacket(auto, enabled) ==
  /\ DsConn' = [s \in Stations |->
                  IF Connected(s)
                  THEN [DsConn[s] EXCEPT !.Enabled = EnableDecision(s, auto, enabled)]
                  ELSE NoConn]
  /\ sinceDsPacket' = 0

\* GpioFieldEStopPanel.State: the latch only ever escalates.
Latch(reading) ==
  IF reading = "Fault" \/ (reading = "Active" /\ FieldEStop = "OK") THEN reading ELSE FieldEStop

FieldReadings == IF FieldEStopWired THEN StopStates ELSE {"OK"}

\* The rest of the pass, once the state machine has left the match in state with game data
\* data and decided what to tell the robots: packets, then the field e-stop.
FinishPass(state, data, auto, enabled, send) ==
  /\ IF send \/ sinceDsPacket >= DsPacketPeriod
     THEN SendDsPacket(auto, enabled)
     ELSE UNCHANGED <<DsConn, sinceDsPacket>>
  /\ \E reading \in FieldReadings : FieldEStop' = Latch(reading)
  /\ fieldEStopFault' = (FieldEStop' = "Fault")
  /\ IF FieldEStop' # "OK" /\ ~fieldEStopActive
     THEN /\ fieldEStopActive' = TRUE
          /\ EStop' = [s \in Stations |-> TRUE]
          /\ MatchState' = IF state \in InProgress THEN "PostMatch" ELSE state
          /\ GameData' = IF state \in InProgress THEN "" ELSE data
     ELSE /\ UNCHANGED <<fieldEStopActive, EStop>>
          /\ MatchState' = state
          /\ GameData' = data
  /\ clock' = ClockIn(MatchState')
  /\ polling' = IF PanelInputs = << >> THEN 0 ELSE 1
  /\ clearing' = "no"
  /\ UNCHANGED <<lineupVars, AStop, bypassVars, EStopFault, bypassed>>

PreMatchPass ==
  /\ MatchState = "PreMatch"
  /\ FinishPass("PreMatch", GameData, TRUE, FALSE, FALSE)
  /\ UNCHANGED AutoWinner

StartMatchPass ==
  /\ MatchState = "StartMatch"
  /\ AutoWinner' = "none"
  /\ IF WarmupDuration > 0
     THEN FinishPass("WarmupPeriod", "", TRUE, FALSE, FALSE)
     ELSE FinishPass("AutoPeriod", "", TRUE, TRUE, TRUE)

WarmupPass ==
  /\ MatchState = "WarmupPeriod"
  /\ IF clock >= WarmupDuration
     THEN FinishPass("AutoPeriod", GameData, TRUE, TRUE, TRUE)
     ELSE FinishPass("WarmupPeriod", GameData, TRUE, FALSE, FALSE)
  /\ UNCHANGED AutoWinner

\* handleAutoWinner and the transition into teleop it runs at.
OpenTeleop ==
  /\ AutoWinner' \in AssignAutoWinner(AutoWinnerMode)
  /\ FinishPass("TeleopPeriod", GameDataForAutoWinner(AutoWinner'), FALSE, TRUE, TRUE)

EnterPauseQuietly ==
  FinishPass("PausePeriod", GameData, FALSE, FALSE, FALSE) /\ UNCHANGED AutoWinner
EnterPause ==
  FinishPass("PausePeriod", GameData, FALSE, FALSE, TRUE) /\ UNCHANGED AutoWinner

AutoPass ==
  /\ MatchState = "AutoPeriod"
  /\ IF clock < GetDurationToAutoEnd
     THEN FinishPass("AutoPeriod", GameData, TRUE, TRUE, FALSE) /\ UNCHANGED AutoWinner
     ELSE IF PauseDuration > 0
          THEN EnterPause
          ELSE OpenTeleop

PausePass ==
  /\ MatchState = "PausePeriod"
  /\ IF clock >= GetDurationToTeleopStart
     THEN OpenTeleop
     ELSE FinishPass("PausePeriod", GameData, FALSE, FALSE, FALSE) /\ UNCHANGED AutoWinner

TeleopPass ==
  /\ MatchState = "TeleopPeriod"
  /\ IF clock >= GetDurationToTeleopEnd
     THEN FinishPass("PostMatch", "", FALSE, FALSE, TRUE)
     ELSE FinishPass("TeleopPeriod", GameData, FALSE, TRUE, FALSE)
  /\ UNCHANGED AutoWinner

DwellNeverOver == FALSE
DwellIsOver == clock >= PostMatchAutoClearDelay

\* Once the dwell is over the pass clears the match before it goes on: AutoClear, below.
PostMatchPass ==
  /\ MatchState = "PostMatch" /\ ~DwellIsOver
  /\ FinishPass("PostMatch", GameData, FALSE, FALSE, FALSE)
  /\ UNCHANGED AutoWinner

\* The rest of a pass that has cleared the match.
ClearedPass ==
  /\ clearing = "resume" /\ MatchState = "PreMatch"
  /\ FinishPass("PreMatch", GameData, FALSE, FALSE, FALSE)
  /\ UNCHANGED AutoWinner

UpdateBegin ==
  /\ polling = 0
  /\ \/ /\ clearing = "no"
        /\ \/ PreMatchPass \/ StartMatchPass \/ WarmupPass \/ AutoPass
           \/ PausePass \/ TeleopPass \/ PostMatchPass
     \/ ClearedPass

-----------------------------------------------------------------------------
(* Update: the e-stop panels, one input at a time                            *)

NextInput == polling' = IF polling < Len(PanelInputs) THEN polling + 1 ELSE 0

AbortKeepsGameData == MatchState' = "PostMatch" /\ clock' = 0 /\ UNCHANGED GameData

Abort == MatchState' = "PostMatch" /\ clock' = 0 /\ GameData' = ""

AbortMatchForAnyStop == Abort

\* abortMatchForStop: a no-op outside a match.
AbortMatchForStop ==
  IF MatchState \in InProgress THEN Abort ELSE UNCHANGED <<MatchState, clock, GameData>>

\* An unreachable panel answers for its e-stops only, and a panel whose field e-stop is
\* not ticked drops that input, so an a-stop or an "all" input may be missing from a poll.
PollAbsent ==
  /\ polling > 0
  /\ PanelInputs[polling].isAStop \/ PanelInputs[polling].station = All
  /\ NextInput
  /\ UNCHANGED <<matchVars, lineupVars, stopVars, fieldStopVars, DsConn, sinceDsPacket, clearVars>>

StationsOf(input) == IF input.station = All THEN Stations ELSE {input.station}

\* handleTeamAStop: an a-stop is let go of everywhere but in AUTO.
TeamAStop(s, pressed) == pressed \/ (MatchState = "AutoPeriod" /\ AStop[s])

PollAStop ==
  /\ polling > 0
  /\ PanelInputs[polling].isAStop
  /\ \E pressed \in BOOLEAN :
       AStop' = [s \in Stations |->
                   IF s \in StationsOf(PanelInputs[polling]) THEN TeamAStop(s, pressed)
                   ELSE AStop[s]]
  /\ NextInput
  /\ UNCHANGED <<matchVars, lineupVars, EStop, bypassVars, EStopFault, fieldStopVars, DsConn,
                 sinceDsPacket, clearVars>>

TeamEStopUnlatched(s, stopped) == stopped

\* handleTeamEStop: a stopped input stops the station; a released one lets it go only
\* while the match time reads zero.
TeamEStop(s, stopped) == stopped \/ (EStop[s] /\ ~MatchTimeIsZero)

PollEStop ==
  /\ polling > 0
  /\ ~PanelInputs[polling].isAStop
  /\ \E reading \in StopStates :
       LET affected == StationsOf(PanelInputs[polling])
           stopped == reading # "OK"
       IN /\ EStopFault' = [s \in Stations |->
                              IF s \in affected THEN reading = "Fault" ELSE EStopFault[s]]
          /\ EStop' = [s \in Stations |->
                         IF s \in affected THEN TeamEStop(s, stopped) ELSE EStop[s]]
          /\ IF PanelInputs[polling].station = All /\ stopped
             THEN AbortMatchForStop
             ELSE UNCHANGED <<MatchState, clock, GameData>>
  /\ NextInput
  /\ UNCHANGED <<lineupVars, AutoWinner, AStop, bypassVars, fieldStopVars, DsConn, sinceDsPacket,
                 clearVars>>

PollPanel == PollAbsent \/ PollAStop \/ PollEStop

-----------------------------------------------------------------------------
(* The operator's commands, under arena.mu                                   *)

Ready(s) ==
  /\ ~EStopFault[s] /\ ~EStop[s]
  /\ Bypass[s] \/ (Connected(s) /\ DsConn[s].RobotLinked)

CanStartUnderFieldStop ==
  MatchState = "PreMatch" /\ ~fieldEStopFault /\ \A s \in Stations : Ready(s)

\* checkCanStartMatch.
CanStartMatch ==
  /\ MatchState = "PreMatch"
  /\ ~fieldEStopFault /\ ~fieldEStopActive
  /\ \A s \in Stations : Ready(s)

\* The counter that Counted mode also asks for may be offline, in which case the call
\* returns an error and changes nothing.
StartMatch ==
  /\ Unlocked
  /\ CanStartMatch
  /\ MatchState' = "StartMatch"
  /\ owed' = IF AutoWinnerMode \in {"red", "blue"} THEN AutoWinnerMode ELSE "open"
  /\ UNCHANGED <<clock, AutoWinner, GameData, Team, AutoWinnerMode, stopVars, fieldStopVars,
                 DsConn, sinceDsPacket, lockVars>>

AbortMatch ==
  /\ Unlocked
  /\ MatchState \in InProgress
  /\ Abort
  /\ UNCHANGED <<AutoWinner, lineupVars, stopVars, fieldStopVars, DsConn, sinceDsPacket, lockVars>>

AllOff == [s \in Stations |-> FALSE]

\* What ResetMatch does, whoever calls it.
ResetMatch == MatchState' = "PreMatch" /\ clock' = 0 /\ GameData' = "" /\ Bypass' = AllOff

ResetField ==
  /\ Unlocked
  /\ MatchState \in {"PreMatch", "PostMatch"}
  /\ ResetMatch
  /\ AutoWinner' = "none"
  /\ DsConn' = [s \in Stations |-> NoConn]
  /\ Team' = [s \in Stations |-> NoTeam]
  /\ EStop' = AllOff /\ AStop' = AllOff /\ EStopFault' = AllOff
  /\ asked' = [s \in Stations |-> "off"]
  /\ owed' = "open"
  /\ UNCHANGED <<AutoWinnerMode, fieldStopVars, sinceDsPacket, lockVars>>

\* Clear and then State: two readings of the button, each free to differ.
ClearFieldEStop ==
  /\ Unlocked
  /\ \E first, second \in FieldReadings :
       LET cleared == IF first = "OK" THEN "OK" ELSE FieldEStop
       IN FieldEStop' = IF second = "Fault" \/ (second = "Active" /\ cleared = "OK")
                        THEN second ELSE cleared
  /\ fieldEStopFault' = (FieldEStop' = "Fault")
  /\ IF FieldEStop' = "OK"
     THEN fieldEStopActive' = FALSE /\ EStop' = AllOff
     ELSE UNCHANGED <<fieldEStopActive, EStop>>
  /\ UNCHANGED <<matchVars, lineupVars, AStop, bypassVars, EStopFault, DsConn, sinceDsPacket,
                 lockVars>>

SetAutoWinnerModeAnytime ==
  /\ Unlocked
  /\ AutoWinnerMode' \in Modes
  /\ UNCHANGED <<matchVars, Team, owed, stopVars, fieldStopVars, DsConn, sinceDsPacket, lockVars>>

SetAutoWinnerMode ==
  /\ Unlocked
  /\ MatchState \in {"PreMatch", "PostMatch"}
  /\ AutoWinnerMode' \in Modes
  /\ UNCHANGED <<matchVars, Team, owed, stopVars, fieldStopVars, DsConn, sinceDsPacket, lockVars>>

\* A save of the settings, or a restore of the database, which nothing keeps out of a match:
\* the mode becomes the stored one, and the field e-stop panel is a new object with its
\* latch down, while the arena's own record of it stays until the next pass.
LoadSettings ==
  /\ Unlocked
  /\ AutoWinnerMode' \in Modes
  /\ FieldEStop' = "OK"
  /\ owed' = IF /\ AutoWinnerMode' # AutoWinnerMode
                /\ MatchState \in InProgress \ {"TeleopPeriod"}
             THEN "open" ELSE owed
  /\ UNCHANGED <<matchVars, Team, stopVars, fieldEStopActive, fieldEStopFault, DsConn,
                 sinceDsPacket, lockVars>>

BypassEmptyStations ==
  /\ Unlocked
  /\ Bypass' = [s \in Stations |-> Bypass[s] \/ Team[s] = NoTeam]
  /\ asked' = [s \in Stations |-> IF Team[s] = NoTeam THEN "on" ELSE asked[s]]
  /\ UNCHANGED <<matchVars, lineupVars, EStop, AStop, EStopFault, fieldStopVars, DsConn,
                 sinceDsPacket, lockVars>>

\* validateTeams: no team in two stations.
Valid(lineup) ==
  \A s, r \in Stations : lineup[s] = lineup[r] /\ lineup[s] # NoTeam => s = r

\* Not guarded by the match state: a lineup can be changed in mid-match.  assignTeam keeps
\* the connection of a station whose team does not change and closes any other.
SubstituteTeams ==
  /\ Unlocked
  /\ \E lineup \in [Stations -> Teams \cup {NoTeam}] :
       /\ Valid(lineup)
       /\ Team' = lineup
       /\ DsConn' = [s \in Stations |-> IF lineup[s] = Team[s] THEN DsConn[s] ELSE NoConn]
  /\ UNCHANGED <<matchVars, AutoWinnerMode, owed, stopVars, fieldStopVars, sinceDsPacket, lockVars>>

\* ClearMatch, as far as clearMatchLocked's snapshot.
ClearMatch ==
  /\ Unlocked
  /\ MatchState = "PostMatch"
  /\ clearing' = "command" /\ bypassed' = Bypass
  /\ UNCHANGED <<matchVars, lineupVars, stopVars, fieldStopVars, DsConn, sinceDsPacket, polling>>

Operator == \/ StartMatch \/ AbortMatch \/ ClearMatch \/ ResetField \/ ClearFieldEStop
            \/ SetAutoWinnerMode \/ LoadSettings \/ BypassEmptyStations \/ SubstituteTeams

-----------------------------------------------------------------------------
(* clearMatchLocked, for the operator or for the pass that ends the dwell    *)

AutoClear ==
  /\ Unlocked
  /\ MatchState = "PostMatch" /\ DwellIsOver
  /\ clearing' = "pass" /\ bypassed' = Bypass
  /\ UNCHANGED <<matchVars, lineupVars, stopVars, fieldStopVars, DsConn, sinceDsPacket, polling>>

ClearReset ==
  /\ ClearUnderWay
  /\ MatchState = "PostMatch"
  /\ ResetMatch
  /\ owed' = "open"
  /\ UNCHANGED <<AutoWinner, Team, AutoWinnerMode, EStop, AStop, asked, EStopFault, fieldStopVars,
                 DsConn, sinceDsPacket, lockVars>>

ClearRestoreDropsBypass ==
  /\ ClearUnderWay
  /\ MatchState = "PreMatch"
  /\ AutoWinner' = "none"
  /\ bypassed' = AllOff
  /\ clearing' = IF clearing = "pass" THEN "resume" ELSE "no"
  /\ UNCHANGED <<MatchState, clock, GameData, lineupVars, stopVars, fieldStopVars, DsConn,
                 sinceDsPacket, polling>>

\* LoadMatch, of the lineup already loaded, so that assignTeam touches no connection; then
\* the deferred restore of every bypass, over whatever has been asked of it since.
ClearRestore ==
  /\ ClearUnderWay
  /\ MatchState = "PreMatch"
  /\ AutoWinner' = "none"
  /\ Bypass' = bypassed
  /\ bypassed' = AllOff
  /\ clearing' = IF clearing = "pass" THEN "resume" ELSE "no"
  /\ UNCHANGED <<MatchState, clock, GameData, lineupVars, EStop, AStop, asked, EStopFault,
                 fieldStopVars, DsConn, sinceDsPacket, polling>>

Clearing == AutoClear \/ ClearReset \/ ClearRestore

-----------------------------------------------------------------------------
(* Actors that take no lock                                                  *)

\* What is asked of a bypass while clearMatchLocked is about to overwrite it can be lost.
Asked(on) == IF ClearUnderWay THEN "raced" ELSE IF on THEN "on" ELSE "off"

ToggleBypass(s) ==
  /\ Bypass' = [Bypass EXCEPT ![s] = ~Bypass[s]]
  /\ asked' = [asked EXCEPT ![s] = Asked(~Bypass[s])]
  /\ UNCHANGED <<matchVars, lineupVars, EStop, AStop, EStopFault, fieldStopVars, DsConn,
                 sinceDsPacket, lockVars>>

ToggleEStop(s) ==
  /\ EStop' = [EStop EXCEPT ![s] = ~EStop[s]]
  /\ UNCHANGED <<matchVars, lineupVars, AStop, bypassVars, EStopFault, fieldStopVars, DsConn,
                 sinceDsPacket, lockVars>>

DisableAll ==
  /\ Bypass' = [s \in Stations |-> TRUE]
  /\ asked' = [s \in Stations |-> Asked(TRUE)]
  /\ UNCHANGED <<matchVars, lineupVars, EStop, AStop, EStopFault, fieldStopVars, DsConn,
                 sinceDsPacket, lockVars>>

\* The accept loop, taken here as one step; DriverStations.tla takes it apart.
DsConnect(s) ==
  /\ Team[s] # NoTeam
  /\ DsConn' = [DsConn EXCEPT ![s] = [RobotLinked |-> FALSE, Enabled |-> FALSE]]
  /\ UNCHANGED <<matchVars, lineupVars, stopVars, fieldStopVars, sinceDsPacket, lockVars>>

DsDisconnect(s) ==
  /\ Connected(s)
  /\ DsConn' = [DsConn EXCEPT ![s] = NoConn]
  /\ UNCHANGED <<matchVars, lineupVars, stopVars, fieldStopVars, sinceDsPacket, lockVars>>

\* A status datagram sets the link bit either way; the one second link timeout clears it.
DsStatus(s) ==
  /\ Connected(s)
  /\ DsConn' = [DsConn EXCEPT ![s].RobotLinked = ~@]
  /\ UNCHANGED <<matchVars, lineupVars, stopVars, fieldStopVars, sinceDsPacket, lockVars>>

LockFree == \/ DisableAll
            \/ \E s \in Stations : \/ ToggleBypass(s) \/ ToggleEStop(s)
                                   \/ DsConnect(s) \/ DsDisconnect(s) \/ DsStatus(s)

-----------------------------------------------------------------------------
(* Time                                                                      *)

ClockLimit == IF MatchState = "PostMatch" THEN PostMatchAutoClearDelay
              ELSE IF MatchState \in Timed THEN GetDurationToTeleopEnd ELSE 0

\* The clocks stop at the largest value the code tells apart.
Tick ==
  /\ clock < ClockLimit \/ sinceDsPacket < DsPacketPeriod
  /\ clock' = IF clock < ClockLimit THEN clock + 1 ELSE clock
  /\ sinceDsPacket' = IF sinceDsPacket < DsPacketPeriod THEN sinceDsPacket + 1 ELSE sinceDsPacket
  /\ UNCHANGED <<MatchState, AutoWinner, GameData, lineupVars, stopVars, fieldStopVars, DsConn,
                 lockVars>>

-----------------------------------------------------------------------------
Init ==
  /\ MatchState = "PreMatch" /\ clock = 0
  /\ AutoWinner = "none" /\ AutoWinnerMode \in Modes /\ GameData = ""
  /\ EStop = AllOff /\ AStop = AllOff /\ Bypass = AllOff /\ EStopFault = AllOff
  /\ Team = [s \in Stations |-> NoTeam] /\ DsConn = [s \in Stations |-> NoConn]
  /\ FieldEStop = "OK" /\ fieldEStopActive = FALSE /\ fieldEStopFault = FALSE
  /\ sinceDsPacket = DsPacketPeriod     \* lastDsPacketTime is the zero time
  /\ polling = 0 /\ clearing = "no" /\ bypassed = AllOff
  /\ owed = "open" /\ asked = [s \in Stations |-> "off"]

Next == UpdateBegin \/ PollPanel \/ Operator \/ Clearing \/ LockFree \/ Tick

Spec == Init /\ [][Next]_vars

\* The loop goroutine keeps running, and a mutex that others keep taking is handed to it in
\* the end (sync.Mutex); whoever is in clearMatchLocked gets through it, and time keeps
\* passing.  Nobody else has to act.
FairSpec ==
  Spec /\ SF_vars(UpdateBegin) /\ WF_vars(PollPanel) /\ WF_vars(Clearing) /\ WF_vars(Tick)

-----------------------------------------------------------------------------
(* Properties                                                                *)

TypeOK ==
  /\ MatchState \in MatchStates /\ clock \in Nat
  /\ AutoWinner \in {"none", "red", "blue"}
  /\ AutoWinnerMode \in Modes /\ GameData \in {"", "R", "B"}
  /\ EStop \in [Stations -> BOOLEAN] /\ AStop \in [Stations -> BOOLEAN]
  /\ Bypass \in [Stations -> BOOLEAN] /\ EStopFault \in [Stations -> BOOLEAN]
  /\ Team \in [Stations -> Teams \cup {NoTeam}]
  /\ DsConn \in [Stations -> [RobotLinked : BOOLEAN, Enabled : BOOLEAN] \cup {NoConn}]
  /\ FieldEStop \in StopStates /\ fieldEStopActive \in BOOLEAN /\ fieldEStopFault \in BOOLEAN
  /\ sinceDsPacket \in Nat
  /\ polling \in 0 .. Len(PanelInputs)
  /\ clearing \in {"no", "command", "pass", "resume"} /\ bypassed \in [Stations -> BOOLEAN]
  /\ owed \in {"open", "red", "blue"} /\ asked \in [Stations -> {"on", "off", "raced"}]

\* No match is under way while the field e-stop is latched: the pass that latches it ends
\* the match whatever state the pass left it in, and no command starts one until the
\* latch is cleared (checkCanStartMatch, abortMatchForStop).
FieldStopEndsMatch == fieldEStopActive => MatchState \notin InProgress

\* Game data is out exactly while teleop runs, and names the winner that teleop was opened
\* with; it does not outlive the match by any way out of it (handleAutoWinner, the PostMatch
\* transition, abortMatchLocked).
GameDataOnlyInTeleop ==
  GameData = IF MatchState = "TeleopPeriod" THEN GameDataForAutoWinner(AutoWinner) ELSE ""

\* Nothing may observe an AUTO winner before the teleop transition, and teleop always has
\* one: AllianceNone is never a valid result (handleAutoWinner, assignAutoWinner).
WinnerWithheld ==
  /\ MatchState \in InProgress \ {"TeleopPeriod"} => AutoWinner = "none"
  /\ MatchState = "TeleopPeriod" => AutoWinner # "none"

\* A match started under a forced mode gives teleop to that alliance: nothing but a change
\* of the stored settings under way can take the match's outcome from the operator who set
\* it up (StartMatch, SetAutoWinnerMode, handleAutoWinner).
ForcedWinnerHonoured ==
  MatchState = "TeleopPeriod" /\ owed # "open" => AutoWinner = owed

\* No driver station was last told to enable its robot during the pause: the disable goes
\* out with the transition and not up to a packet period later (Update).
PauseIsDisabled == MatchState = "PausePeriod" => \A s \in Stations : ~ToldEnabled(s)

\* A robot is never switched on under a stop: no packet turns a station from disabled to
\* enabled while it is e-stopped or bypassed, while the field e-stop is latched, or in a
\* state other than the two periods that drive robots (Update, sendDsPacket).
NoEnableUnderStop ==
  [][\A s \in Stations :
       ~ToldEnabled(s) /\ ToldEnabled(s)' =>
          /\ ~EStop[s] /\ ~Bypass[s] /\ ~fieldEStopActive
          /\ MatchState' \in {"AutoPeriod", "TeleopPeriod"} \/ fieldEStopActive']_vars

\* A station's e-stop stays latched for the rest of the match whatever its button does, and
\* an a-stop for the rest of AUTO; only the operator's two commands release an e-stop
\* early (handleTeamEStop, handleTeamAStop).
StopsLatched ==
  [][\A s \in Stations :
       /\ MatchState \in Timed /\ MatchState' \in Timed /\ EStop[s] /\ ~EStop'[s] =>
             ClearFieldEStop \/ ToggleEStop(s)
       /\ MatchState = "AutoPeriod" /\ AStop[s] => AStop'[s]]_vars

\* A bypass stands as it was last asked for, over any number of matches, resets and clears,
\* by the operator or by the dwell: clearMatchLocked drops it and puts it back, and only what
\* is asked of it inside that window may be lost (ToggleBypass, DisableAll,
\* BypassEmptyStations, ResetField, clearMatchLocked).
BypassAsAsked ==
  ~ClearUnderWay => \A s \in Stations : /\ asked[s] = "on" => Bypass[s]
                                        /\ asked[s] = "off" => ~Bypass[s]

\* A started match always comes back to an idle field, with no operator command
\* (the periods' timers and the PostMatch dwell of Update).
MatchTurnsAround == MatchState = "StartMatch" ~> MatchState = "PreMatch"

\* A station that is stopped or bypassed is told so: its driver station is disabled, or the
\* stop is released first (the packet period of Update, DisableAll).
StoppedRobotIsDisabled ==
  \A s \in Stations :
    EStop[s] \/ Bypass[s] ~> ~ToldEnabled(s) \/ ~(EStop[s] \/ Bypass[s])

MC == INSTANCE MatchCycle WITH phase <- MatchState, result <- GameData

\* The arena implements the abstract match cycle.
ImplementsMatchCycle == MC!Spec

=============================================================================
