----------------------------- MODULE ArenaProofs -----------------------------
(***************************************************************************)
(* Theorems about Arena.tla, for any stations, teams, panels, durations    *)
(* and modes.                                                              *)
(*                                                                         *)
(* Every way through Update's state machine ends in FinishPass, so what    *)
(* FinishPass does to the match, to the types and to the connections is    *)
(* settled in three lemmas, and the theorems only look at the state each   *)
(* pass hands it.                                                          *)
(***************************************************************************)
EXTENDS Arena, SequenceTheorems, TLAPS

Conns == [RobotLinked : BOOLEAN, Enabled : BOOLEAN]

\* The number of panel inputs is a natural number, whatever panels are configured.
LEMMA PanelLength == Len(PanelInputs) \in Nat
  BY PanelAssumption

\* The values the panel cursor takes are positions of a list of that length, or 0.
LEMMA CursorRange ==
  ASSUME NEW n \in Nat
  PROVE  /\ 0 \in 0 .. n
         /\ n \in Nat \ {0} => 1 \in 0 .. n
         /\ \A p \in 0 .. n : (IF p < n THEN p + 1 ELSE 0) \in 0 .. n
  OBVIOUS

-----------------------------------------------------------------------------
(* FinishPass                                                                *)

\* The field e-stop ends the match the state machine was about to leave in a period, and
\* touches the match in no other way.
LEMMA FinishPassMatch ==
  ASSUME NEW state, NEW data, NEW auto, NEW enabled, NEW send,
         FinishPass(state, data, auto, enabled, send)
  PROVE  /\ \/ /\ MatchState' = state /\ GameData' = data
               /\ fieldEStopActive' = fieldEStopActive
            \/ /\ state \notin InProgress
               /\ MatchState' = state /\ GameData' = data
               /\ fieldEStopActive' = TRUE
            \/ /\ state \in InProgress /\ ~fieldEStopActive
               /\ MatchState' = "PostMatch" /\ GameData' = ""
               /\ fieldEStopActive' = TRUE
         /\ clock' = ClockIn(MatchState')
         /\ AutoWinnerMode' = AutoWinnerMode /\ Team' = Team /\ owed' = owed
         /\ AStop' = AStop /\ Bypass' = Bypass /\ asked' = asked /\ EStopFault' = EStopFault
         /\ clearing' = "no" /\ bypassed' = bypassed
  BY DEF FinishPass, lineupVars, bypassVars

\* The variables FinishPass assigns keep their types.
LEMMA FinishPassTypes ==
  ASSUME TypeOK, NEW state \in MatchStates, NEW data \in {"", "R", "B"},
         NEW auto \in BOOLEAN, NEW enabled \in BOOLEAN, NEW send \in BOOLEAN,
         FinishPass(state, data, auto, enabled, send), AutoWinner' \in {"none", "red", "blue"}
  PROVE  TypeOK'
<1>1. DsConn' \in [Stations -> Conns \cup {NoConn}] /\ sinceDsPacket' \in Nat
  <2>1. CASE send \/ sinceDsPacket >= DsPacketPeriod
    <3>1. sinceDsPacket' = 0
      BY <2>1 DEF FinishPass, SendDsPacket
    <3>2. \A s \in Stations :
            Connected(s) =>
              [DsConn[s] EXCEPT !.Enabled = EnableDecision(s, auto, enabled)] \in Conns
      <4> TAKE s \in Stations
      <4> HAVE Connected(s)
      <4>1. DsConn[s] \in Conns
        BY DEF TypeOK, Connected, Conns
      <4>2. EnableDecision(s, auto, enabled) \in BOOLEAN
        BY DEF EnableDecision, TypeOK
      <4> QED
        BY <4>1, <4>2 DEF Conns
    <3>3. DsConn' = [s \in Stations |->
                       IF Connected(s)
                       THEN [DsConn[s] EXCEPT !.Enabled = EnableDecision(s, auto, enabled)]
                       ELSE NoConn]
      BY <2>1 DEF FinishPass, SendDsPacket
    <3> QED
      BY <3>1, <3>2, <3>3
  <2>2. CASE ~(send \/ sinceDsPacket >= DsPacketPeriod)
    BY <2>2 DEF FinishPass, TypeOK, Conns
  <2> QED
    BY <2>1, <2>2
<1>2. FieldEStop' \in StopStates /\ fieldEStopFault' \in BOOLEAN
  BY DEF FinishPass, FieldReadings, Latch, TypeOK, StopStates
<1>3. /\ EStop' \in [Stations -> BOOLEAN] /\ fieldEStopActive' \in BOOLEAN
      /\ MatchState' \in MatchStates /\ GameData' \in {"", "R", "B"}
  BY DEF FinishPass, TypeOK, MatchStates
<1>4. clock' \in Nat
  <2>1. clock' = ClockIn(MatchState')
    BY FinishPassMatch
  <2> QED
    BY <2>1 DEF ClockIn, TypeOK
<1>5. polling' \in 0 .. Len(PanelInputs)
  <2>1. polling' = 0 \/ (PanelInputs # << >> /\ polling' = 1)
    BY DEF FinishPass
  <2>2. PanelInputs # << >> => Len(PanelInputs) \in Nat \ {0}
    BY PanelAssumption, EmptySeq, Zenon
  <2> QED
    BY <2>1, <2>2, PanelLength, CursorRange, Zenon
<1>6. /\ AutoWinnerMode' \in Modes /\ Team' \in [Stations -> Teams \cup {NoTeam}]
      /\ AStop' \in [Stations -> BOOLEAN] /\ Bypass' \in [Stations -> BOOLEAN]
      /\ EStopFault' \in [Stations -> BOOLEAN]
      /\ clearing' \in {"no", "command", "pass", "resume"} /\ bypassed' \in [Stations -> BOOLEAN]
      /\ owed' \in {"open", "red", "blue"} /\ asked' \in [Stations -> {"on", "off", "raced"}]
  <2>1. /\ AutoWinnerMode' = AutoWinnerMode /\ Team' = Team /\ owed' = owed
        /\ AStop' = AStop /\ Bypass' = Bypass /\ asked' = asked /\ EStopFault' = EStopFault
        /\ clearing' = "no" /\ bypassed' = bypassed
    BY FinishPassMatch
  <2> QED
    BY <2>1 DEF TypeOK
<1> QED
  BY <1>1, <1>2, <1>3, <1>4, <1>5, <1>6 DEF TypeOK, Conns

\* FinishPass opens and closes no connection; a station it leaves told to enable was told so
\* before, or is enabled by this packet; and a transition that disables reaches everyone.
LEMMA FinishPassConns ==
  ASSUME TypeOK, NEW state, NEW data, NEW auto \in BOOLEAN, NEW enabled \in BOOLEAN,
         NEW send \in BOOLEAN, FinishPass(state, data, auto, enabled, send),
         NEW s \in Stations
  PROVE  /\ Connected(s)' <=> Connected(s)
         /\ ToldEnabled(s)' => \/ ToldEnabled(s) /\ ~send
                               \/ EnableDecision(s, auto, enabled)
<1>1. CASE send \/ sinceDsPacket >= DsPacketPeriod
  <2>1. CASE Connected(s)
    <3>1. DsConn'[s] = [DsConn[s] EXCEPT !.Enabled = EnableDecision(s, auto, enabled)]
      BY <1>1, <2>1 DEF FinishPass, SendDsPacket
    <3>2. DsConn[s] \in Conns
      BY <2>1 DEF TypeOK, Connected, Conns
    <3>3. EnableDecision(s, auto, enabled) \in BOOLEAN
      BY DEF EnableDecision, TypeOK
    <3>4. DsConn'[s] \in Conns /\ DsConn'[s].Enabled = EnableDecision(s, auto, enabled)
      BY <3>1, <3>2, <3>3 DEF Conns
    <3> QED
      BY <3>4, <2>1, NilAssumption DEF Connected, ToldEnabled, Conns
  <2>2. CASE ~Connected(s)
    BY <1>1, <2>2 DEF FinishPass, SendDsPacket, Connected, ToldEnabled
  <2> QED
    BY <2>1, <2>2
<1>2. CASE ~(send \/ sinceDsPacket >= DsPacketPeriod)
  BY <1>2 DEF FinishPass, Connected, ToldEnabled
<1> QED
  BY <1>1, <1>2

-----------------------------------------------------------------------------
(* The inductive invariant                                                   *)

\* What a withheld winner rests on: the last match's winner is gone before the next match
\* can be started.
NoWinnerWhenIdle == MatchState = "PreMatch" /\ ~ClearUnderWay => AutoWinner = "none"

\* What a forced winner rests on: until teleop the mode is the one the match started under.
OwedIsTheMode ==
  MatchState \in InProgress \ {"TeleopPeriod"} /\ owed # "open" => AutoWinnerMode = owed

\* What a bypass that outlives a clear rests on: the snapshot is of what was asked before.
SnapshotAsAsked ==
  ClearUnderWay => \A s \in Stations : /\ asked[s] = "on" => bypassed[s]
                                       /\ asked[s] = "off" => ~bypassed[s]

\* The part of the invariant that the bypasses disturb, and the part that the match does.
BypassInv == BypassAsAsked /\ SnapshotAsAsked
MatchInv == /\ FieldStopEndsMatch
            /\ GameDataOnlyInTeleop
            /\ WinnerWithheld
            /\ NoWinnerWhenIdle
            /\ OwedIsTheMode
            /\ ForcedWinnerHonoured

IInv == TypeOK /\ MatchInv /\ BypassInv /\ PauseIsDisabled

\* How a pass may move the match, before the field e-stop is looked at.
PassMove(state, data) ==
  \/ state = MatchState /\ data = GameData
  \/ MatchState = "StartMatch" /\ state \in {"WarmupPeriod", "AutoPeriod"}
  \/ MatchState = "WarmupPeriod" /\ state = "AutoPeriod"
  \/ MatchState = "AutoPeriod" /\ state = "PausePeriod"
  \/ MatchState \in {"AutoPeriod", "PausePeriod"} /\ state = "TeleopPeriod"
  \/ MatchState = "TeleopPeriod" /\ state = "PostMatch"

\* What every pass of the state machine hands to FinishPass.
PassPlan(state, data, auto, enabled, send) ==
  /\ state \in MatchStates /\ data \in {"", "R", "B"}
  /\ auto \in BOOLEAN /\ enabled \in BOOLEAN /\ send \in BOOLEAN
  /\ AutoWinner' \in {"none", "red", "blue"}
  /\ PassMove(state, data)
  /\ data = IF state = "TeleopPeriod" THEN GameDataForAutoWinner(AutoWinner') ELSE ""
  /\ state \in (InProgress \ {"TeleopPeriod"}) \cup {"PreMatch"} => AutoWinner' = "none"
  /\ state = "TeleopPeriod" =>
       /\ AutoWinner' # "none"
       /\ owed # "open" => AutoWinner' = owed
  /\ enabled <=> state \in {"AutoPeriod", "TeleopPeriod"}
  /\ state = "AutoPeriod" => auto
  /\ state = "TeleopPeriod" => ~auto
  /\ state \notin {MatchState, "PreMatch", "WarmupPeriod"} => send

\* Each of the state machine's passes has such a plan.
LEMMA PassHasPlan ==
  ASSUME IInv, UpdateBegin
  PROVE  \E state, data, auto, enabled, send :
           /\ FinishPass(state, data, auto, enabled, send)
           /\ PassPlan(state, data, auto, enabled, send)
<1> DEFINE Planned(state, data, auto, enabled, send) ==
             /\ FinishPass(state, data, auto, enabled, send)
             /\ PassPlan(state, data, auto, enabled, send)
<1> USE DEF PassPlan, PassMove, MatchStates, InProgress, Timed, GameDataForAutoWinner, IInv,
            MatchInv, TypeOK, GameDataOnlyInTeleop, WinnerWithheld, NoWinnerWhenIdle,
            ForcedWinnerHonoured
<1>0. ~ClearUnderWay
  BY DEF UpdateBegin, ClearUnderWay, ClearedPass
<1>1. CASE PreMatchPass
  <2>1. Planned("PreMatch", GameData, TRUE, FALSE, FALSE)
    BY <1>0, <1>1 DEF PreMatchPass, ClearUnderWay
  <2> QED
    BY <2>1
<1>2. CASE StartMatchPass
  <2>1. CASE WarmupDuration > 0
    <3>1. Planned("WarmupPeriod", "", TRUE, FALSE, FALSE)
      BY <1>2, <2>1 DEF StartMatchPass
    <3> QED
      BY <3>1
  <2>2. CASE ~(WarmupDuration > 0)
    <3>1. Planned("AutoPeriod", "", TRUE, TRUE, TRUE)
      BY <1>2, <2>2 DEF StartMatchPass
    <3> QED
      BY <3>1
  <2> QED
    BY <2>1, <2>2
<1>3. CASE WarmupPass
  <2>1. CASE clock >= WarmupDuration
    <3>1. Planned("AutoPeriod", GameData, TRUE, TRUE, TRUE)
      BY <1>3, <2>1 DEF WarmupPass
    <3> QED
      BY <3>1
  <2>2. CASE ~(clock >= WarmupDuration)
    <3>1. Planned("WarmupPeriod", GameData, TRUE, FALSE, FALSE)
      BY <1>3, <2>2 DEF WarmupPass
    <3> QED
      BY <3>1
  <2> QED
    BY <2>1, <2>2
<1>4. ASSUME OpenTeleop, MatchState \in {"AutoPeriod", "PausePeriod"}
      PROVE  Planned("TeleopPeriod", GameDataForAutoWinner(AutoWinner'), FALSE, TRUE, TRUE)
  <2>1. AutoWinner' \in {"red", "blue"}
    BY <1>4 DEF OpenTeleop, AssignAutoWinner
  <2>2. owed # "open" => AutoWinner' = owed
    BY <1>4 DEF OpenTeleop, AssignAutoWinner, OwedIsTheMode
  <2> QED
    BY <1>4, <2>1, <2>2 DEF OpenTeleop
<1>5. CASE AutoPass
  <2>1. CASE clock < GetDurationToAutoEnd
    <3>1. Planned("AutoPeriod", GameData, TRUE, TRUE, FALSE)
      BY <1>5, <2>1 DEF AutoPass
    <3> QED
      BY <3>1
  <2>2. CASE ~(clock < GetDurationToAutoEnd) /\ PauseDuration > 0
    <3>1. Planned("PausePeriod", GameData, FALSE, FALSE, TRUE)
      BY <1>5, <2>2 DEF AutoPass, EnterPause
    <3> QED
      BY <3>1
  <2>3. CASE ~(clock < GetDurationToAutoEnd) /\ ~(PauseDuration > 0)
    <3>1. OpenTeleop /\ MatchState = "AutoPeriod"
      BY <1>5, <2>3 DEF AutoPass
    <3> QED
      BY <1>4, <3>1
  <2> QED
    BY <2>1, <2>2, <2>3
<1>6. CASE PausePass
  <2>1. CASE clock >= GetDurationToTeleopStart
    <3>1. OpenTeleop /\ MatchState = "PausePeriod"
      BY <1>6, <2>1 DEF PausePass
    <3> QED
      BY <1>4, <3>1
  <2>2. CASE ~(clock >= GetDurationToTeleopStart)
    <3>1. Planned("PausePeriod", GameData, FALSE, FALSE, FALSE)
      BY <1>6, <2>2 DEF PausePass
    <3> QED
      BY <3>1
  <2> QED
    BY <2>1, <2>2
<1>7. CASE TeleopPass
  <2>1. CASE clock >= GetDurationToTeleopEnd
    <3>1. Planned("PostMatch", "", FALSE, FALSE, TRUE)
      BY <1>7, <2>1 DEF TeleopPass
    <3> QED
      BY <3>1
  <2>2. CASE ~(clock >= GetDurationToTeleopEnd)
    <3>1. Planned("TeleopPeriod", GameData, FALSE, TRUE, FALSE)
      BY <1>7, <2>2 DEF TeleopPass
    <3> QED
      BY <3>1
  <2> QED
    BY <2>1, <2>2
<1>8. CASE PostMatchPass
  <2>1. Planned("PostMatch", GameData, FALSE, FALSE, FALSE)
    BY <1>8 DEF PostMatchPass
  <2> QED
    BY <2>1
<1>9. CASE ClearedPass
  <2>1. Planned("PreMatch", GameData, FALSE, FALSE, FALSE)
    BY <1>0, <1>9 DEF ClearedPass
  <2> QED
    BY <2>1
<1> QED
  BY <1>1, <1>2, <1>3, <1>5, <1>6, <1>7, <1>8, <1>9, Zenon DEF UpdateBegin

-----------------------------------------------------------------------------
(* Type correctness and the invariant, action by action                      *)

\* A step that leaves the match, its winner and the field e-stop alone keeps what relates them.
LEMMA QuietMatch ==
  ASSUME MatchInv, MatchState' = MatchState, AutoWinner' = AutoWinner, GameData' = GameData,
         AutoWinnerMode' = AutoWinnerMode, owed' = owed, clearing' = clearing,
         fieldEStopActive' => fieldEStopActive
  PROVE  MatchInv'
  BY DEF MatchInv, FieldStopEndsMatch, GameDataOnlyInTeleop, WinnerWithheld, NoWinnerWhenIdle,
         OwedIsTheMode, ForcedWinnerHonoured, ClearUnderWay

\* A match that has just ended, however, is owed nothing and has nothing to show.
LEMMA EndedMatch ==
  ASSUME MatchState' = "PostMatch", GameData' = ""
  PROVE  MatchInv' /\ PauseIsDisabled'
  BY DEF MatchInv, FieldStopEndsMatch, GameDataOnlyInTeleop, WinnerWithheld, NoWinnerWhenIdle,
         OwedIsTheMode, ForcedWinnerHonoured, PauseIsDisabled, InProgress, Timed

\* Nor has an idle field, once the winner of the last match is gone.
LEMMA IdleField ==
  ASSUME MatchState' = "PreMatch", GameData' = "", ClearUnderWay' \/ AutoWinner' = "none"
  PROVE  MatchInv' /\ PauseIsDisabled'
  BY DEF MatchInv, FieldStopEndsMatch, GameDataOnlyInTeleop, WinnerWithheld, NoWinnerWhenIdle,
         OwedIsTheMode, ForcedWinnerHonoured, PauseIsDisabled, InProgress, Timed

\* Nor is a robot told to run in the pause by a step that tells none to run and stays in it.
LEMMA QuietPause ==
  ASSUME PauseIsDisabled, MatchState' = MatchState,
         \A s \in Stations : ToldEnabled(s)' => ToldEnabled(s)
  PROVE  PauseIsDisabled'
  BY DEF PauseIsDisabled

\* The match's own variables at one place, for the type invariant.
LEMMA QuietTypes ==
  ASSUME TypeOK, UNCHANGED <<lineupVars, bypassVars, fieldStopVars, clearVars, DsConn>>
  PROVE  /\ Team' \in [Stations -> Teams \cup {NoTeam}] /\ AutoWinnerMode' \in Modes
         /\ owed' \in {"open", "red", "blue"} /\ Bypass' \in [Stations -> BOOLEAN]
         /\ asked' \in [Stations -> {"on", "off", "raced"}]
         /\ FieldEStop' \in StopStates /\ fieldEStopActive' \in BOOLEAN
         /\ fieldEStopFault' \in BOOLEAN
         /\ clearing' \in {"no", "command", "pass", "resume"}
         /\ bypassed' \in [Stations -> BOOLEAN]
         /\ DsConn' \in [Stations -> [RobotLinked : BOOLEAN, Enabled : BOOLEAN] \cup {NoConn}]
<1>1. /\ Team' = Team /\ AutoWinnerMode' = AutoWinnerMode /\ owed' = owed /\ Bypass' = Bypass
      /\ asked' = asked /\ FieldEStop' = FieldEStop /\ fieldEStopActive' = fieldEStopActive
      /\ fieldEStopFault' = fieldEStopFault /\ clearing' = clearing /\ bypassed' = bypassed
      /\ DsConn' = DsConn
  BY DEF lineupVars, bypassVars, fieldStopVars, clearVars
<1> QED
  BY <1>1 DEF TypeOK

\* A poll of one panel input can end the match and stop stations, and reaches no connection.
LEMMA PollKeepsInvariant ==
  ASSUME IInv, PollPanel
  PROVE  TypeOK' /\ MatchInv' /\ PauseIsDisabled'
<1> USE DEF IInv
<1>1. polling' \in 0 .. Len(PanelInputs)
  <2>1. polling' = IF polling < Len(PanelInputs) THEN polling + 1 ELSE 0
    BY DEF PollPanel, PollAbsent, PollAStop, PollEStop, NextInput
  <2> QED
    BY <2>1, PanelLength, CursorRange, Zenon DEF TypeOK
<1>2. /\ \/ MatchState' = MatchState /\ clock' = clock /\ GameData' = GameData
         \/ MatchState' = "PostMatch" /\ clock' = 0 /\ GameData' = ""
      /\ AutoWinner' = AutoWinner /\ sinceDsPacket' = sinceDsPacket
      /\ UNCHANGED <<lineupVars, bypassVars, fieldStopVars, clearVars, DsConn>>
  BY DEF PollPanel, PollAbsent, PollAStop, PollEStop, AbortMatchForStop, Abort, matchVars, stopVars
<1>3. EStop' \in [Stations -> BOOLEAN] /\ EStopFault' \in [Stations -> BOOLEAN]
  BY DEF PollPanel, PollAbsent, PollAStop, PollEStop, TeamEStop, MatchTimeIsZero, stopVars, TypeOK
<1>4. AStop' \in [Stations -> BOOLEAN]
  BY DEF PollPanel, PollAbsent, PollAStop, TeamAStop, PollEStop, stopVars, TypeOK
<1>5. TypeOK'
  <2>1. MatchState' \in MatchStates /\ GameData' \in {"", "R", "B"} /\ clock' \in Nat
    <3>1. 0 \in Nat
      OBVIOUS
    <3> QED
      BY <1>2, <3>1 DEF TypeOK, MatchStates
  <2>2. AutoWinner' \in {"none", "red", "blue"} /\ sinceDsPacket' \in Nat
    BY <1>2 DEF TypeOK
  <2> QED
    BY <1>1, <1>2, <1>3, <1>4, <2>1, <2>2, QuietTypes, Zenon DEF TypeOK
<1>6. CASE MatchState' = MatchState /\ GameData' = GameData
  <2>1. MatchInv'
    BY <1>2, <1>6, QuietMatch DEF lineupVars, fieldStopVars, clearVars
  <2>2. PauseIsDisabled'
    BY <1>2, <1>6, QuietPause DEF ToldEnabled, Connected
  <2> QED
    BY <1>5, <2>1, <2>2
<1>7. CASE MatchState' = "PostMatch" /\ GameData' = ""
  BY <1>5, <1>7, EndedMatch
<1> QED
  BY <1>2, <1>6, <1>7

\* A pass of Update up to the field e-stop.
LEMMA UpdateKeepsInvariant ==
  ASSUME IInv, UpdateBegin
  PROVE  TypeOK' /\ MatchInv' /\ PauseIsDisabled'
<1>1. PICK state, data, auto, enabled, send :
        FinishPass(state, data, auto, enabled, send) /\ PassPlan(state, data, auto, enabled, send)
  BY PassHasPlan
<1>2. TypeOK'
  BY <1>1, FinishPassTypes DEF IInv, PassPlan
<1>3. /\ \/ /\ MatchState' = state /\ GameData' = data
            /\ fieldEStopActive' = fieldEStopActive
         \/ /\ state \notin InProgress
            /\ MatchState' = state /\ GameData' = data
            /\ fieldEStopActive' = TRUE
         \/ /\ state \in InProgress /\ ~fieldEStopActive
            /\ MatchState' = "PostMatch" /\ GameData' = ""
            /\ fieldEStopActive' = TRUE
      /\ AutoWinnerMode' = AutoWinnerMode /\ owed' = owed
  BY <1>1, FinishPassMatch
<1>4. FieldStopEndsMatch'
  BY <1>1, <1>3 DEF IInv, MatchInv, FieldStopEndsMatch, PassPlan, PassMove, InProgress, Timed
<1>5. /\ GameDataOnlyInTeleop' /\ WinnerWithheld' /\ NoWinnerWhenIdle'
      /\ ForcedWinnerHonoured'
  BY <1>1, <1>3 DEF GameDataOnlyInTeleop, WinnerWithheld, NoWinnerWhenIdle, ForcedWinnerHonoured,
                    PassPlan, InProgress, Timed
<1>6. OwedIsTheMode'
  BY <1>1, <1>3 DEF IInv, MatchInv, OwedIsTheMode, PassPlan, PassMove, InProgress, Timed
<1>7. PauseIsDisabled'
  <2> SUFFICES ASSUME MatchState' = "PausePeriod", NEW s \in Stations
               PROVE  ~ToldEnabled(s)'
    BY DEF PauseIsDisabled
  <2>1. state = "PausePeriod"
    BY <1>3
  <2>2. ~EnableDecision(s, auto, enabled)
    BY <1>1, <2>1 DEF PassPlan, EnableDecision
  <2>3. send \/ ~ToldEnabled(s)
    BY <1>1, <2>1 DEF PassPlan, IInv, PauseIsDisabled
  <2>4. ToldEnabled(s)' => (ToldEnabled(s) /\ ~send) \/ EnableDecision(s, auto, enabled)
    <3>1. TypeOK /\ auto \in BOOLEAN /\ enabled \in BOOLEAN /\ send \in BOOLEAN
      BY <1>1, Zenon DEF PassPlan, IInv
    <3> QED
      BY <1>1, <3>1, FinishPassConns, Zenon
  <2> QED
    BY <2>2, <2>3, <2>4
<1> QED
  BY <1>2, <1>4, <1>5, <1>6, <1>7 DEF MatchInv

\* An operator's command, the start of a clear included.
LEMMA OperatorKeepsInvariant ==
  ASSUME IInv, Operator
  PROVE  TypeOK' /\ MatchInv' /\ PauseIsDisabled'
<1> USE DEF IInv
<1>1. CASE StartMatch
  <2>1. /\ MatchState = "PreMatch" /\ MatchState' = "StartMatch" /\ ~fieldEStopActive'
        /\ UNCHANGED <<clock, AutoWinner, AutoWinnerMode, GameData>> /\ ~ClearUnderWay
        /\ owed' = IF AutoWinnerMode \in {"red", "blue"} THEN AutoWinnerMode ELSE "open"
    BY <1>1 DEF StartMatch, CanStartMatch, fieldStopVars, Unlocked, ClearUnderWay
  <2>2. TypeOK'
    <3>1. MatchState' \in MatchStates /\ owed' \in {"open", "red", "blue"}
      BY <2>1 DEF MatchStates, InProgress
    <3>2. UNCHANGED <<clock, AutoWinner, GameData, Team, AutoWinnerMode, EStop, AStop, Bypass,
                      asked, EStopFault, FieldEStop, fieldEStopActive, fieldEStopFault, DsConn,
                      sinceDsPacket, polling, clearing, bypassed>>
      BY <1>1 DEF StartMatch, stopVars, bypassVars, fieldStopVars, lockVars, clearVars
    <3> QED
      BY <3>1, <3>2 DEF TypeOK
  <2>3. GameDataOnlyInTeleop' /\ WinnerWithheld'
    BY <2>1 DEF MatchInv, GameDataOnlyInTeleop, WinnerWithheld, NoWinnerWhenIdle
  <2>4. OwedIsTheMode' /\ ForcedWinnerHonoured'
    BY <2>1 DEF OwedIsTheMode, ForcedWinnerHonoured
  <2> QED
    BY <2>1, <2>2, <2>3, <2>4 DEF MatchInv, FieldStopEndsMatch, NoWinnerWhenIdle, PauseIsDisabled
<1>2. CASE AbortMatch
  <2>1. MatchState' = "PostMatch" /\ GameData' = "" /\ clock' = 0
    BY <1>2 DEF AbortMatch, Abort
  <2>2. UNCHANGED <<AutoWinner, Team, AutoWinnerMode, owed, EStop, AStop, Bypass, asked,
                    EStopFault, FieldEStop, fieldEStopActive, fieldEStopFault, DsConn,
                    sinceDsPacket, polling, clearing, bypassed>>
    BY <1>2 DEF AbortMatch, lineupVars, stopVars, bypassVars, fieldStopVars, lockVars, clearVars
  <2>3. TypeOK'
    BY <2>1, <2>2 DEF TypeOK, MatchStates
  <2> QED
    BY <2>1, <2>3, EndedMatch
<1>3. CASE ResetField
  <2>1. TypeOK'
    <3>1. UNCHANGED <<AutoWinnerMode, FieldEStop, fieldEStopActive, fieldEStopFault,
                      sinceDsPacket, polling, clearing, bypassed>>
      BY <1>3 DEF ResetField, fieldStopVars, lockVars, clearVars
    <3> QED
      BY <1>3, <3>1 DEF ResetField, ResetMatch, AllOff, TypeOK, MatchStates
  <2> QED
    BY <1>3, <2>1, IdleField DEF ResetField, ResetMatch
<1>4. CASE ClearFieldEStop
  <2>1. UNCHANGED <<MatchState, clock, AutoWinner, GameData, Team, AutoWinnerMode, owed, AStop,
                    Bypass, asked, EStopFault, DsConn, sinceDsPacket, polling, clearing, bypassed>>
    BY <1>4 DEF ClearFieldEStop, matchVars, lineupVars, bypassVars, lockVars, clearVars
  <2>2. TypeOK'
    <3>1. FieldEStop' \in StopStates
      BY <1>4 DEF ClearFieldEStop, FieldReadings, TypeOK, StopStates
    <3>2. fieldEStopActive' \in BOOLEAN /\ fieldEStopFault' \in BOOLEAN
      BY <1>4 DEF ClearFieldEStop, TypeOK
    <3>3. EStop' \in [Stations -> BOOLEAN]
      BY <1>4 DEF ClearFieldEStop, TypeOK, AllOff
    <3> QED
      BY <2>1, <3>1, <3>2, <3>3 DEF TypeOK
  <2>3. fieldEStopActive' => fieldEStopActive
    BY <1>4 DEF ClearFieldEStop
  <2>4. PauseIsDisabled'
    BY <2>1, QuietPause DEF ToldEnabled, Connected
  <2> QED
    BY <2>1, <2>2, <2>3, <2>4, QuietMatch
<1>5. CASE SetAutoWinnerMode
  <2>1. /\ UNCHANGED <<MatchState, clock, AutoWinner, GameData, Team, owed, EStop, AStop, Bypass,
                       asked, EStopFault, FieldEStop, fieldEStopActive, fieldEStopFault, DsConn,
                       sinceDsPacket, polling, clearing, bypassed>>
        /\ AutoWinnerMode' \in Modes /\ MatchState \in {"PreMatch", "PostMatch"}
    BY <1>5 DEF SetAutoWinnerMode, matchVars, stopVars, bypassVars, fieldStopVars, lockVars,
                clearVars
  <2>2. TypeOK'
    BY <2>1 DEF TypeOK
  <2>3. MatchInv'
    BY <2>1 DEF MatchInv, FieldStopEndsMatch, GameDataOnlyInTeleop, WinnerWithheld,
                NoWinnerWhenIdle, OwedIsTheMode, ForcedWinnerHonoured, ClearUnderWay,
                InProgress, Timed
  <2> QED
    BY <2>1, <2>2, <2>3, QuietPause DEF ToldEnabled, Connected
<1>6. CASE LoadSettings
  <2>1. /\ UNCHANGED <<MatchState, clock, AutoWinner, GameData, Team, EStop, AStop, Bypass, asked,
                       EStopFault, fieldEStopActive, fieldEStopFault, DsConn, sinceDsPacket,
                       polling, clearing, bypassed>>
        /\ AutoWinnerMode' \in Modes /\ FieldEStop' = "OK"
    BY <1>6 DEF LoadSettings, matchVars, stopVars, bypassVars, lockVars, clearVars
  <2>2. \/ owed' = owed /\ AutoWinnerMode' = AutoWinnerMode
        \/ owed' = owed /\ MatchState \notin InProgress \ {"TeleopPeriod"}
        \/ owed' = "open" /\ MatchState # "TeleopPeriod"
    BY <1>6 DEF LoadSettings
  <2>3. TypeOK'
    <3>1. owed' \in {"open", "red", "blue"}
      BY <2>2 DEF TypeOK
    <3> QED
      BY <2>1, <3>1 DEF TypeOK, StopStates
  <2>4. OwedIsTheMode' /\ ForcedWinnerHonoured'
    BY <2>1, <2>2 DEF MatchInv, OwedIsTheMode, ForcedWinnerHonoured
  <2>5. FieldStopEndsMatch' /\ GameDataOnlyInTeleop' /\ WinnerWithheld' /\ NoWinnerWhenIdle'
    BY <2>1 DEF MatchInv, FieldStopEndsMatch, GameDataOnlyInTeleop, WinnerWithheld,
                NoWinnerWhenIdle, ClearUnderWay
  <2>6. PauseIsDisabled'
    BY <2>1, QuietPause DEF ToldEnabled, Connected
  <2> QED
    BY <2>3, <2>4, <2>5, <2>6 DEF MatchInv
<1>7. CASE BypassEmptyStations
  <2>1. UNCHANGED <<MatchState, clock, AutoWinner, GameData, Team, AutoWinnerMode, owed, EStop,
                    AStop, EStopFault, FieldEStop, fieldEStopActive, fieldEStopFault, DsConn,
                    sinceDsPacket, polling, clearing, bypassed>>
    BY <1>7 DEF BypassEmptyStations, matchVars, lineupVars, fieldStopVars, lockVars, clearVars
  <2>2. Bypass' \in [Stations -> BOOLEAN] /\ asked' \in [Stations -> {"on", "off", "raced"}]
    BY <1>7 DEF BypassEmptyStations, TypeOK
  <2>3. TypeOK'
    BY <2>1, <2>2 DEF TypeOK
  <2>4. PauseIsDisabled'
    BY <2>1, QuietPause DEF ToldEnabled, Connected
  <2> QED
    BY <2>1, <2>3, <2>4, QuietMatch
<1>8. CASE SubstituteTeams
  <2>1. UNCHANGED <<MatchState, clock, AutoWinner, GameData, AutoWinnerMode, owed, EStop, AStop,
                    Bypass, asked, EStopFault, FieldEStop, fieldEStopActive, fieldEStopFault,
                    sinceDsPacket, polling, clearing, bypassed>>
    BY <1>8 DEF SubstituteTeams, matchVars, stopVars, bypassVars, fieldStopVars, lockVars,
                clearVars
  <2>2. /\ Team' \in [Stations -> Teams \cup {NoTeam}]
        /\ DsConn' \in [Stations -> [RobotLinked : BOOLEAN, Enabled : BOOLEAN] \cup {NoConn}]
    BY <1>8 DEF SubstituteTeams, TypeOK
  <2>3. TypeOK'
    BY <2>1, <2>2 DEF TypeOK
  <2>4. \A s \in Stations : ToldEnabled(s)' => ToldEnabled(s)
    BY <1>8 DEF SubstituteTeams, ToldEnabled, Connected
  <2> QED
    BY <2>1, <2>3, <2>4, QuietMatch, QuietPause
<1>9. CASE ClearMatch
  <2>1. /\ UNCHANGED <<MatchState, clock, AutoWinner, GameData, Team, AutoWinnerMode, owed, EStop,
                       AStop, Bypass, asked, EStopFault, FieldEStop, fieldEStopActive,
                       fieldEStopFault, DsConn, sinceDsPacket, polling>>
        /\ MatchState = "PostMatch" /\ clearing' = "command" /\ bypassed' = Bypass
    BY <1>9 DEF ClearMatch, matchVars, lineupVars, stopVars, bypassVars, fieldStopVars
  <2>2. TypeOK'
    BY <2>1 DEF TypeOK
  <2> QED
    BY <2>1, <2>2, EndedMatch DEF MatchInv, GameDataOnlyInTeleop
<1> QED
  BY <1>1, <1>2, <1>3, <1>4, <1>5, <1>6, <1>7, <1>8, <1>9 DEF Operator

\* The steps of a clear, whoever takes them.
LEMMA ClearingKeepsInvariant ==
  ASSUME IInv, Clearing
  PROVE  TypeOK' /\ MatchInv' /\ PauseIsDisabled'
<1> USE DEF IInv
<1>1. CASE AutoClear
  <2>1. /\ UNCHANGED <<MatchState, clock, AutoWinner, GameData, Team, AutoWinnerMode, owed, EStop,
                       AStop, Bypass, asked, EStopFault, FieldEStop, fieldEStopActive,
                       fieldEStopFault, DsConn, sinceDsPacket, polling>>
        /\ MatchState = "PostMatch" /\ clearing' = "pass" /\ bypassed' = Bypass
    BY <1>1 DEF AutoClear, matchVars, lineupVars, stopVars, bypassVars, fieldStopVars
  <2>2. TypeOK'
    BY <2>1 DEF TypeOK
  <2> QED
    BY <2>1, <2>2, EndedMatch DEF MatchInv, GameDataOnlyInTeleop
<1>2. CASE ClearReset
  <2>1. /\ UNCHANGED <<AutoWinner, Team, AutoWinnerMode, EStop, AStop, asked, EStopFault,
                       FieldEStop, fieldEStopActive, fieldEStopFault, DsConn, sinceDsPacket,
                       polling, clearing, bypassed>>
        /\ ClearUnderWay /\ MatchState' = "PreMatch" /\ clock' = 0 /\ GameData' = ""
        /\ Bypass' = AllOff /\ owed' = "open"
    BY <1>2 DEF ClearReset, ResetMatch, fieldStopVars, lockVars, clearVars
  <2>2. TypeOK'
    BY <2>1 DEF TypeOK, MatchStates, AllOff
  <2>3. ClearUnderWay'
    BY <2>1 DEF ClearUnderWay
  <2> QED
    BY <2>1, <2>2, <2>3, IdleField
<1>3. CASE ClearRestore
  <2>1. /\ UNCHANGED <<MatchState, clock, GameData, Team, AutoWinnerMode, owed, EStop, AStop,
                       asked, EStopFault, FieldEStop, fieldEStopActive, fieldEStopFault, DsConn,
                       sinceDsPacket, polling>>
        /\ MatchState = "PreMatch" /\ AutoWinner' = "none" /\ Bypass' = bypassed
        /\ bypassed' = AllOff /\ clearing' \in {"resume", "no"}
    BY <1>3 DEF ClearRestore, lineupVars, fieldStopVars
  <2>2. TypeOK'
    BY <2>1 DEF TypeOK, AllOff
  <2>3. GameData' = "" /\ MatchState' = "PreMatch"
    BY <2>1 DEF MatchInv, GameDataOnlyInTeleop
  <2> QED
    BY <2>1, <2>2, <2>3, IdleField
<1> QED
  BY <1>1, <1>2, <1>3 DEF Clearing

\* Replacing one station's connection by one that has been told no more than the old.
LEMMA OneConnection ==
  ASSUME TypeOK, NEW s \in Stations, NEW conn \in Conns \cup {NoConn},
         DsConn' = [DsConn EXCEPT ![s] = conn],
         conn # NoConn /\ conn.Enabled => ToldEnabled(s)
  PROVE  /\ DsConn' \in [Stations -> Conns \cup {NoConn}]
         /\ \A r \in Stations : ToldEnabled(r)' => ToldEnabled(r)
  BY DEF TypeOK, Conns, ToldEnabled, Connected

\* An actor that takes no lock makes, drops or updates a connection, and tells no robot to
\* run.
LEMMA LockFreeConns ==
  ASSUME TypeOK, LockFree
  PROVE  /\ DsConn' \in [Stations -> Conns \cup {NoConn}]
         /\ \A s \in Stations : ToldEnabled(s)' => ToldEnabled(s)
<1>1. CASE DisableAll \/ \E s \in Stations : ToggleBypass(s) \/ ToggleEStop(s)
  BY <1>1 DEF DisableAll, ToggleBypass, ToggleEStop, TypeOK, Conns, ToldEnabled, Connected
<1>2. ASSUME NEW s \in Stations, DsConnect(s) \/ DsDisconnect(s) \/ DsStatus(s)
      PROVE  /\ DsConn' \in [Stations -> Conns \cup {NoConn}]
             /\ \A r \in Stations : ToldEnabled(r)' => ToldEnabled(r)
  <2>1. CASE DsConnect(s)
    <3>1. [RobotLinked |-> FALSE, Enabled |-> FALSE] \in Conns
      BY DEF Conns
    <3> QED
      BY <2>1, <3>1, OneConnection DEF DsConnect
  <2>2. CASE DsDisconnect(s)
    BY <2>2, OneConnection DEF DsDisconnect
  <2>3. CASE DsStatus(s)
    <3> DEFINE relinked == [DsConn[s] EXCEPT !.RobotLinked = ~@]
    <3>1. DsConn[s] \in Conns
      BY <2>3 DEF DsStatus, Connected, TypeOK, Conns
    <3>2. relinked \in Conns /\ relinked.Enabled = DsConn[s].Enabled
      BY <3>1 DEF Conns
    <3>3. DsConn' = [DsConn EXCEPT ![s] = relinked]
      BY <2>3 DEF DsStatus
    <3>4. relinked.Enabled => ToldEnabled(s)
      BY <2>3, <3>2, Zenon DEF DsStatus, ToldEnabled
    <3> HIDE DEF relinked
    <3> QED
      BY <3>2, <3>3, <3>4, OneConnection, Zenon
  <2> QED
    BY <1>2, <2>1, <2>2, <2>3
<1> QED
  BY <1>1, <1>2 DEF LockFree

\* An actor that takes no lock never touches the match, and the only connection it makes is
\* one that has been told nothing.
LEMMA LockFreeKeepsInvariant ==
  ASSUME IInv, LockFree
  PROVE  TypeOK' /\ MatchInv' /\ PauseIsDisabled'
<1> USE DEF IInv
<1>1. UNCHANGED <<MatchState, clock, AutoWinner, GameData, AutoWinnerMode, Team, owed, AStop,
                  EStopFault, FieldEStop, fieldEStopActive, fieldEStopFault, sinceDsPacket,
                  polling, clearing, bypassed>>
  BY DEF LockFree, DisableAll, ToggleBypass, ToggleEStop, DsConnect, DsDisconnect, DsStatus,
         matchVars, lineupVars, stopVars, fieldStopVars, lockVars, clearVars
<1>2. /\ EStop' \in [Stations -> BOOLEAN] /\ Bypass' \in [Stations -> BOOLEAN]
      /\ asked' \in [Stations -> {"on", "off", "raced"}]
  <2>1. \A on : Asked(on) \in {"on", "off", "raced"}
    BY DEF Asked
  <2>2. CASE DisableAll
    BY <2>1, <2>2 DEF DisableAll, TypeOK
  <2>3. ASSUME NEW s \in Stations, ToggleBypass(s)
        PROVE  /\ EStop' \in [Stations -> BOOLEAN] /\ Bypass' \in [Stations -> BOOLEAN]
               /\ asked' \in [Stations -> {"on", "off", "raced"}]
    BY <2>1, <2>3 DEF ToggleBypass, TypeOK
  <2>4. ASSUME NEW s \in Stations,
               ToggleEStop(s) \/ DsConnect(s) \/ DsDisconnect(s) \/ DsStatus(s)
        PROVE  /\ EStop' \in [Stations -> BOOLEAN] /\ Bypass' \in [Stations -> BOOLEAN]
               /\ asked' \in [Stations -> {"on", "off", "raced"}]
    BY <2>4 DEF ToggleEStop, DsConnect, DsDisconnect, DsStatus, stopVars, bypassVars, TypeOK
  <2> QED
    BY <2>2, <2>3, <2>4 DEF LockFree
<1>3. /\ DsConn' \in [Stations -> Conns \cup {NoConn}]
      /\ \A s \in Stations : ToldEnabled(s)' => ToldEnabled(s)
  BY LockFreeConns
<1>4. TypeOK'
  BY <1>1, <1>2, <1>3 DEF TypeOK, Conns
<1> QED
  BY <1>1, <1>3, <1>4, QuietMatch, QuietPause

\* The bypasses and what was asked of them, over every step: a snapshot is taken of bypasses
\* that are as asked, and whatever is asked while it is held is marked as raced.
LEMMA BypassStep ==
  ASSUME IInv, [Next]_vars
  PROVE  BypassInv'
<1> USE DEF IInv, BypassInv, BypassAsAsked, SnapshotAsAsked
<1>1. ASSUME UNCHANGED <<bypassVars, clearVars>> PROVE BypassInv'
  BY <1>1 DEF bypassVars, clearVars, ClearUnderWay
<1>2. CASE UpdateBegin
  <2>1. PICK state, data, auto, enabled, send : FinishPass(state, data, auto, enabled, send)
    BY <1>2, PassHasPlan
  <2>2. Bypass' = Bypass /\ asked' = asked /\ clearing' = "no"
    BY <2>1, FinishPassMatch
  <2>3. ~ClearUnderWay
    BY <1>2 DEF UpdateBegin, ClearUnderWay, ClearedPass
  <2> QED
    BY <2>2, <2>3 DEF ClearUnderWay
<1>3. CASE PollPanel \/ Tick
  BY <1>1, <1>3 DEF PollPanel, PollAbsent, PollAStop, PollEStop, Tick, stopVars, lockVars
<1>4. CASE ResetField
  BY <1>4 DEF ResetField, ResetMatch, AllOff, Unlocked, lockVars, clearVars, ClearUnderWay
<1>5. CASE BypassEmptyStations
  <2>1. ~ClearUnderWay /\ ~ClearUnderWay'
    BY <1>5 DEF BypassEmptyStations, Unlocked, lockVars, clearVars, ClearUnderWay
  <2>2. ASSUME NEW s \in Stations
        PROVE  (asked'[s] = "on" => Bypass'[s]) /\ (asked'[s] = "off" => ~Bypass'[s])
    BY <1>5, <2>1, <2>2 DEF BypassEmptyStations, TypeOK
  <2> QED
    BY <2>1, <2>2
<1>6. CASE ClearMatch \/ AutoClear
  <2>1. /\ ~ClearUnderWay /\ ClearUnderWay'
        /\ bypassed' = Bypass /\ Bypass' = Bypass /\ asked' = asked
    BY <1>6 DEF ClearMatch, AutoClear, Unlocked, ClearUnderWay, stopVars, bypassVars
  <2> QED
    BY <2>1
<1>7. CASE Operator /\ ~ResetField /\ ~BypassEmptyStations /\ ~ClearMatch
  BY <1>1, <1>7 DEF Operator, StartMatch, AbortMatch, ClearFieldEStop, SetAutoWinnerMode,
                    LoadSettings, SubstituteTeams, stopVars, lockVars
<1>8. CASE ClearReset
  <2>1. ClearUnderWay /\ ClearUnderWay' /\ asked' = asked /\ bypassed' = bypassed
    BY <1>8 DEF ClearReset, lockVars, clearVars, ClearUnderWay
  <2> QED
    BY <2>1
<1>9. CASE ClearRestore
  <2>1. ClearUnderWay /\ ~ClearUnderWay' /\ asked' = asked /\ Bypass' = bypassed
    BY <1>9 DEF ClearRestore, ClearUnderWay
  <2> QED
    BY <2>1
<1>10. CASE DisableAll
  <2>1. clearing' = clearing /\ bypassed' = bypassed
    BY <1>10 DEF DisableAll, lockVars, clearVars
  <2>2. ASSUME NEW s \in Stations
        PROVE  /\ asked'[s] = IF ClearUnderWay THEN "raced" ELSE "on"
               /\ Bypass'[s]
    BY <1>10 DEF DisableAll, Asked
  <2> QED
    BY <2>1, <2>2 DEF ClearUnderWay
<1>11. ASSUME NEW s \in Stations, ToggleBypass(s) PROVE BypassInv'
  <2>1. clearing' = clearing /\ bypassed' = bypassed
    BY <1>11 DEF ToggleBypass, lockVars, clearVars
  <2>2. /\ asked'[s] = IF ClearUnderWay THEN "raced" ELSE IF ~Bypass[s] THEN "on" ELSE "off"
        /\ Bypass'[s] <=> ~Bypass[s]
    BY <1>11 DEF ToggleBypass, Asked, TypeOK
  <2>3. ASSUME NEW r \in Stations, r # s
        PROVE  asked'[r] = asked[r] /\ Bypass'[r] = Bypass[r]
    BY <1>11, <2>3 DEF ToggleBypass, TypeOK
  <2>4. BypassAsAsked'
    BY <2>1, <2>2, <2>3 DEF ClearUnderWay
  <2>5. SnapshotAsAsked'
    BY <2>1, <2>2, <2>3 DEF ClearUnderWay
  <2> QED
    BY <2>4, <2>5
<1>12. ASSUME NEW s \in Stations,
              ToggleEStop(s) \/ DsConnect(s) \/ DsDisconnect(s) \/ DsStatus(s)
       PROVE  BypassInv'
  BY <1>1, <1>12 DEF ToggleEStop, DsConnect, DsDisconnect, DsStatus, stopVars, lockVars
<1>13. CASE UNCHANGED vars
  BY <1>1, <1>13 DEF vars, bypassVars, clearVars
<1> QED
  BY <1>2, <1>3, <1>4, <1>5, <1>6, <1>7, <1>8, <1>9, <1>10, <1>11, <1>12, <1>13
     DEF Next, LockFree, Clearing, Operator

\* The strengthened invariant holds initially and is kept by every step.
LEMMA InitInvariant == Init => IInv
<1> SUFFICES ASSUME Init PROVE IInv
  OBVIOUS
<1>1. polling \in 0 .. Len(PanelInputs)
  BY PanelLength, CursorRange, Zenon DEF Init
<1>2. TypeOK
  BY <1>1, TimingAssumption DEF Init, TypeOK, MatchStates, StopStates, AllOff
<1>3. BypassInv
  BY DEF Init, BypassInv, BypassAsAsked, SnapshotAsAsked, AllOff, ClearUnderWay
<1> QED
  BY <1>2, <1>3 DEF IInv, MatchInv, Init, FieldStopEndsMatch, GameDataOnlyInTeleop,
                    WinnerWithheld, NoWinnerWhenIdle, OwedIsTheMode, ForcedWinnerHonoured,
                    PauseIsDisabled, InProgress, Timed

\* Every kind of step keeps the strengthened invariant: the pass, the panels, the operator, a
\* clear, the actors that take no lock, and time.
LEMMA StepInvariant == IInv /\ [Next]_vars => IInv'
<1> SUFFICES ASSUME IInv, [Next]_vars PROVE TypeOK' /\ MatchInv' /\ PauseIsDisabled'
  BY BypassStep DEF IInv
<1>1. CASE UpdateBegin
  BY <1>1, UpdateKeepsInvariant
<1>2. CASE PollPanel
  BY <1>2, PollKeepsInvariant
<1>3. CASE Operator
  BY <1>3, OperatorKeepsInvariant
<1>4. CASE Clearing
  BY <1>4, ClearingKeepsInvariant
<1>5. CASE LockFree
  BY <1>5, LockFreeKeepsInvariant
<1>6. CASE Tick \/ UNCHANGED vars
  <2>1. UNCHANGED <<MatchState, AutoWinner, GameData, Team, AutoWinnerMode, owed, EStop, AStop,
                    Bypass, asked, EStopFault, FieldEStop, fieldEStopActive, fieldEStopFault,
                    DsConn, polling, clearing, bypassed>>
    BY <1>6 DEF Tick, vars, lineupVars, stopVars, bypassVars, fieldStopVars, lockVars, clearVars
  <2>2. clock' \in Nat /\ sinceDsPacket' \in Nat
    <3>1. clock' \in {clock, clock + 1} /\ sinceDsPacket' \in {sinceDsPacket, sinceDsPacket + 1}
      BY <1>6, Zenon DEF Tick, vars
    <3>2. clock \in Nat /\ sinceDsPacket \in Nat
      BY DEF IInv, TypeOK
    <3> QED
      BY <3>1, <3>2
  <2>3. TypeOK'
    BY <2>1, <2>2 DEF IInv, TypeOK
  <2>4. MatchInv'
    BY <2>1, QuietMatch DEF IInv
  <2>5. PauseIsDisabled'
    BY <2>1, QuietPause DEF IInv, ToldEnabled, Connected
  <2> QED
    BY <2>3, <2>4, <2>5
<1> QED
  BY <1>1, <1>2, <1>3, <1>4, <1>5, <1>6 DEF Next

\* The strengthened invariant holds throughout: it is what every theorem below rests on.
THEOREM ArenaInvariant == Spec => []IInv
  BY InitInvariant, StepInvariant, PTL DEF Spec

\* Every variable keeps its type, for any stations, panels, durations and modes (Arena).
THEOREM TypeCorrect == Spec => []TypeOK
<1>1. IInv => TypeOK
  BY DEF IInv
<1> QED
  BY <1>1, ArenaInvariant, PTL

\* No match is under way while the field e-stop is latched (Update, checkCanStartMatch).
THEOREM FieldStopEndsEveryMatch == Spec => []FieldStopEndsMatch
<1>1. IInv => FieldStopEndsMatch
  BY DEF IInv, MatchInv
<1> QED
  BY <1>1, ArenaInvariant, PTL

\* The game data is out exactly during teleop, and names the winner of that match
\* (handleAutoWinner, abortMatchLocked).
THEOREM GameDataIsWithheld == Spec => []GameDataOnlyInTeleop
<1>1. IInv => GameDataOnlyInTeleop
  BY DEF IInv, MatchInv
<1> QED
  BY <1>1, ArenaInvariant, PTL

\* There is no winner to observe before teleop and there is always one in it
\* (handleAutoWinner, assignAutoWinner).
THEOREM WinnerIsWithheld == Spec => []WinnerWithheld
<1>1. IInv => WinnerWithheld
  BY DEF IInv, MatchInv
<1> QED
  BY <1>1, ArenaInvariant, PTL

\* Teleop goes to the alliance that the mode named when the match was started, if it named one
\* and no settings were loaded under way that replaced it (assignAutoWinner,
\* SetAutoWinnerMode, LoadSettings).
THEOREM ForcedWinnerStands == Spec => []ForcedWinnerHonoured
<1>1. IInv => ForcedWinnerHonoured
  BY DEF IInv, MatchInv
<1> QED
  BY <1>1, ArenaInvariant, PTL

\* No robot was last told to run during the pause (Update, sendDsPacket).
THEOREM PauseDisables == Spec => []PauseIsDisabled
<1>1. IInv => PauseIsDisabled
  BY DEF IInv
<1> QED
  BY <1>1, ArenaInvariant, PTL

-----------------------------------------------------------------------------
(* What a step may never do                                                  *)

\* Only a pass of Update tells a robot to run that was not told so before.
LEMMA EnabledByUpdate ==
  ASSUME IInv, Next, NEW s \in Stations, ~ToldEnabled(s), ToldEnabled(s)'
  PROVE  UpdateBegin
<1> USE DEF ToldEnabled, Connected
<1>1. ~PollPanel
  BY DEF PollPanel, PollAbsent, PollAStop, PollEStop
<1>2. ~Operator
  BY NilAssumption DEF Operator, StartMatch, AbortMatch, ClearMatch, ResetField, ClearFieldEStop,
     SetAutoWinnerMode, LoadSettings, BypassEmptyStations, SubstituteTeams
<1>3. ~LockFree
  BY LockFreeConns DEF IInv
<1>4. ~Tick /\ ~Clearing
  BY DEF Tick, Clearing, AutoClear, ClearReset, ClearRestore
<1> QED
  BY <1>1, <1>2, <1>3, <1>4 DEF Next

\* No packet switches a robot on under an e-stop, a bypass or the field e-stop, nor outside
\* the two periods that drive robots (Update, sendDsPacket).
THEOREM NothingEnabledUnderStop == Spec => NoEnableUnderStop
<1> DEFINE Lawful(s) == /\ ~EStop[s] /\ ~Bypass[s] /\ ~fieldEStopActive
                        /\ MatchState' \in {"AutoPeriod", "TeleopPeriod"} \/ fieldEStopActive'
<1>1. ASSUME IInv, Next, NEW s \in Stations, ~ToldEnabled(s), ToldEnabled(s)'
      PROVE  Lawful(s)
  <2>1. UpdateBegin
    BY <1>1, EnabledByUpdate
  <2>2. PICK state, data, auto, enabled, send :
          /\ FinishPass(state, data, auto, enabled, send)
          /\ PassPlan(state, data, auto, enabled, send)
    BY <1>1, <2>1, PassHasPlan
  <2>3. EnableDecision(s, auto, enabled)
    <3>1. TypeOK /\ auto \in BOOLEAN /\ enabled \in BOOLEAN /\ send \in BOOLEAN
      BY <1>1, <2>2, Zenon DEF PassPlan, IInv
    <3>2. ToldEnabled(s)' => (ToldEnabled(s) /\ ~send) \/ EnableDecision(s, auto, enabled)
      BY <2>2, <3>1, FinishPassConns, Zenon
    <3> QED
      BY <1>1, <3>2, Zenon
  <2>4. enabled /\ ~EStop[s] /\ ~Bypass[s]
    BY <2>3, Zenon DEF EnableDecision
  <2>5. state \in {"AutoPeriod", "TeleopPeriod"}
    BY <2>2, <2>4, Zenon DEF PassPlan
  <2>6. ~fieldEStopActive
    <3>1. MatchState \in InProgress
      BY <2>2, <2>5 DEF PassPlan, PassMove, InProgress, Timed
    <3> QED
      BY <1>1, <3>1 DEF IInv, MatchInv, FieldStopEndsMatch
  <2>7. MatchState' = state \/ fieldEStopActive'
    BY <2>2 DEF FinishPass
  <2> QED
    BY <2>4, <2>5, <2>6, <2>7
<1>2. IInv /\ [Next]_vars =>
        [\A s \in Stations : ~ToldEnabled(s) /\ ToldEnabled(s)' => Lawful(s)]_vars
  BY <1>1
<1> QED
  BY <1>2, ArenaInvariant, PTL DEF Spec, NoEnableUnderStop

\* The order that is right for a station while the match is in state: to run in the two periods
\* that drive robots unless it is stopped there.
Drivable(s, state) ==
  /\ state \in {"AutoPeriod", "TeleopPeriod"}
  /\ ~EStop[s] /\ ~Bypass[s] /\ ~(state = "AutoPeriod" /\ AStop[s])

\* A pass that has to send: the packet period is over, or it opens or closes a period of play.
Sends == \/ sinceDsPacket >= DsPacketPeriod
         \/ MatchState' \notin {MatchState, "PreMatch", "WarmupPeriod"}

\* A packet that is sent tells a station exactly what was decided for it.
LEMMA PacketIsDecision ==
  ASSUME TypeOK, NEW state, NEW data, NEW auto \in BOOLEAN, NEW enabled \in BOOLEAN,
         NEW send \in BOOLEAN, FinishPass(state, data, auto, enabled, send),
         send \/ sinceDsPacket >= DsPacketPeriod,
         NEW s \in Stations, Connected(s)
  PROVE  ToldEnabled(s)' <=> EnableDecision(s, auto, enabled)
<1>1. DsConn'[s] = [DsConn[s] EXCEPT !.Enabled = EnableDecision(s, auto, enabled)]
  BY DEF FinishPass, SendDsPacket
<1>2. DsConn[s] \in Conns
  BY DEF TypeOK, Connected, Conns
<1>3. EnableDecision(s, auto, enabled) \in BOOLEAN
  BY DEF EnableDecision, TypeOK
<1>4. DsConn'[s] \in Conns /\ DsConn'[s].Enabled = EnableDecision(s, auto, enabled)
  BY <1>1, <1>2, <1>3 DEF Conns
<1> QED
  BY <1>4, NilAssumption DEF Connected, ToldEnabled, Conns

\* No order outlives its packet period: a pass that has to send tells every driver station to
\* run exactly if the state it leaves the match in drives robots and nothing stops that one;
\* only the pass that finds the field e-stop pressed has sent its packets before.  This is
\* the safety half of StoppedRobotIsDisabled (Update, sendDsPacket).
THEOREM PacketsFollowTheField ==
  Spec => [][UpdateBegin /\ Sends /\ fieldEStopActive' = fieldEStopActive =>
               \A s \in Stations : Connected(s) =>
                 (ToldEnabled(s)' <=> Drivable(s, MatchState'))]_vars
<1>1. ASSUME IInv, UpdateBegin, Sends, fieldEStopActive' = fieldEStopActive,
             NEW s \in Stations, Connected(s)
      PROVE  ToldEnabled(s)' <=> Drivable(s, MatchState')
  <2>1. PICK state, data, auto, enabled, send :
          /\ FinishPass(state, data, auto, enabled, send)
          /\ PassPlan(state, data, auto, enabled, send)
    BY <1>1, PassHasPlan
  <2>2. MatchState' = state
    <3>1. ~(FieldEStop' # "OK" /\ ~fieldEStopActive)
      BY <1>1, <2>1 DEF FinishPass
    <3> QED
      BY <2>1, <3>1 DEF FinishPass
  <2>3. TypeOK /\ auto \in BOOLEAN /\ enabled \in BOOLEAN /\ send \in BOOLEAN
    BY <1>1, <2>1, Zenon DEF PassPlan, IInv
  <2>4. send \/ sinceDsPacket >= DsPacketPeriod
    BY <1>1, <2>1, <2>2, Zenon DEF PassPlan, Sends
  <2>5. ToldEnabled(s)' <=> EnableDecision(s, auto, enabled)
    BY <1>1, <2>1, <2>3, <2>4, PacketIsDecision, Zenon
  <2>6. /\ enabled <=> state \in {"AutoPeriod", "TeleopPeriod"}
        /\ state = "AutoPeriod" => auto
        /\ state = "TeleopPeriod" => ~auto
    BY <2>1, Zenon DEF PassPlan
  <2>7. EnableDecision(s, auto, enabled) <=> Drivable(s, state)
    BY <2>6 DEF EnableDecision, Drivable
  <2> QED
    BY <2>2, <2>5, <2>7, Zenon
<1>2. IInv /\ [Next]_vars =>
        [UpdateBegin /\ Sends /\ fieldEStopActive' = fieldEStopActive =>
           \A s \in Stations : Connected(s) =>
             (ToldEnabled(s)' <=> Drivable(s, MatchState'))]_vars
  BY <1>1
<1> QED
  BY <1>2, ArenaInvariant, PTL DEF Spec

\* An e-stop outlives its button until the match is over, and an a-stop until AUTO is
\* (handleTeamEStop, handleTeamAStop).
THEOREM StopsStayLatched == Spec => StopsLatched
<1> DEFINE Latched(s) ==
             /\ MatchState \in Timed /\ MatchState' \in Timed /\ EStop[s] /\ ~EStop'[s] =>
                   ClearFieldEStop \/ ToggleEStop(s)
             /\ MatchState = "AutoPeriod" /\ AStop[s] => AStop'[s]
<1>1. ASSUME IInv, Next, NEW s \in Stations
      PROVE  Latched(s)
  <2>1. CASE UpdateBegin
    <3>1. PICK state, data, auto, enabled, send :
            FinishPass(state, data, auto, enabled, send)
      BY <1>1, <2>1, PassHasPlan
    <3>2. (EStop' = EStop \/ EStop' = [r \in Stations |-> TRUE]) /\ AStop' = AStop
      BY <3>1 DEF FinishPass
    <3> QED
      BY <3>2
  <2>2. CASE PollPanel
    <3>1. CASE PollAbsent
      BY <3>1 DEF PollAbsent, stopVars
    <3>2. CASE PollAStop
      <4>1. MatchState = "AutoPeriod" /\ AStop[s] => AStop'[s]
        BY <3>2 DEF PollAStop, TeamAStop
      <4> QED
        BY <3>2, <4>1 DEF PollAStop
    <3>3. CASE PollEStop
      <4>1. MatchState \in Timed /\ EStop[s] => EStop'[s]
        BY <3>3 DEF PollEStop, TeamEStop, MatchTimeIsZero
      <4> QED
        BY <3>3, <4>1 DEF PollEStop
    <3> QED
      BY <2>2, <3>1, <3>2, <3>3 DEF PollPanel
  <2>3. CASE Operator
    <3>1. CASE ClearFieldEStop
      BY <3>1 DEF ClearFieldEStop
    <3>2. CASE ResetField
      BY <3>2 DEF ResetField, ResetMatch, Timed
    <3>3. CASE Operator /\ ~ClearFieldEStop /\ ~ResetField
      BY <3>3 DEF Operator, StartMatch, AbortMatch, ClearMatch, SetAutoWinnerMode,
                  LoadSettings, BypassEmptyStations, SubstituteTeams, stopVars
    <3> QED
      BY <2>3, <3>1, <3>2, <3>3
  <2>4. CASE LockFree
    <3>1. AStop' = AStop
      BY <2>4 DEF LockFree, DisableAll, ToggleBypass, ToggleEStop, DsConnect, DsDisconnect,
                  DsStatus, stopVars
    <3>2. EStop[s] /\ ~EStop'[s] => ToggleEStop(s)
      <4>1. ASSUME NEW r \in Stations, ToggleEStop(r), EStop[s], ~EStop'[s]
            PROVE  r = s
        BY <1>1, <4>1 DEF ToggleEStop, IInv, TypeOK
      <4> QED
        BY <2>4, <4>1 DEF LockFree, DisableAll, ToggleBypass, DsConnect, DsDisconnect, DsStatus,
                          stopVars
    <3> QED
      BY <3>1, <3>2
  <2>5. CASE Tick \/ Clearing
    BY <2>5 DEF Tick, Clearing, AutoClear, ClearReset, ClearRestore, stopVars
  <2> QED
    BY <1>1, <2>1, <2>2, <2>3, <2>4, <2>5 DEF Next
<1>2. IInv /\ [Next]_vars => [\A s \in Stations : Latched(s)]_vars
  BY <1>1
<1> QED
  BY <1>2, ArenaInvariant, PTL DEF Spec, StopsLatched

\* A bypass stands as it was last asked for, through every clear and every match, unless it was
\* asked for inside a clear (ToggleBypass, DisableAll, clearMatchLocked).
THEOREM BypassOutlivesClears == Spec => []BypassAsAsked
<1>1. IInv => BypassAsAsked
  BY DEF IInv, BypassInv
<1> QED
  BY <1>1, ArenaInvariant, PTL

-----------------------------------------------------------------------------
(* The arena implements the match cycle                                      *)

\* Every run of the arena, its commands, its stops and its lock-free actors included, is a
\* run of the abstract match cycle (Update, StartMatch, abortMatchLocked, clearMatchLocked,
\* ResetField).
THEOREM ArenaImplementsMatchCycle == Spec => ImplementsMatchCycle
<1>1. Init => MC!Init
  BY DEF Init, MC!Init
<1>2. ASSUME IInv, [Next]_vars
      PROVE  [MC!Next]_<<MatchState, GameData>>
  <2> DEFINE Idle == UNCHANGED <<MatchState, GameData>>
  <2> USE DEF MC!Next, MC!Arm, MC!Advance, MC!OpenTeleop, MC!Over, MC!Recycle, MC!Underway,
              InProgress, Timed
  <2>1. CASE UpdateBegin
    <3>1. PICK state, data, auto, enabled, send :
            /\ FinishPass(state, data, auto, enabled, send)
            /\ PassPlan(state, data, auto, enabled, send)
      BY <1>2, <2>1, PassHasPlan
    <3>2. \/ MatchState' = state /\ GameData' = data
          \/ state \in InProgress /\ MatchState' = "PostMatch" /\ GameData' = ""
      BY <3>1 DEF FinishPass
    <3>3. PassMove(state, data)
      BY <3>1 DEF PassPlan
    <3>4. /\ state # "TeleopPeriod" => data = ""
          /\ state = "TeleopPeriod" => data \in {"R", "B"}
      <4>1. AutoWinner' \in {"none", "red", "blue"}
        BY <3>1 DEF PassPlan
      <4>2. state = "TeleopPeriod" => AutoWinner' # "none"
        BY <3>1 DEF PassPlan
      <4>3. data = IF state = "TeleopPeriod" THEN GameDataForAutoWinner(AutoWinner') ELSE ""
        BY <3>1 DEF PassPlan
      <4> QED
        BY <4>1, <4>2, <4>3 DEF GameDataForAutoWinner
    <3>5. MatchState # "TeleopPeriod" => GameData = ""
      BY <1>2 DEF IInv, MatchInv, GameDataOnlyInTeleop
    <3>6. CASE state = MatchState /\ data = GameData
      BY <3>2, <3>6
    <3>7. CASE ~(state = MatchState /\ data = GameData)
      BY <3>2, <3>3, <3>4, <3>5, <3>7 DEF PassMove
    <3> QED
      BY <3>6, <3>7
  <2>2. CASE PollPanel
    <3>1. Idle \/ (MatchState \in InProgress /\ Abort)
      BY <2>2 DEF PollPanel, PollAbsent, PollAStop, PollEStop, AbortMatchForStop, matchVars
    <3> QED
      BY <3>1 DEF Abort
  <2>3. CASE Operator
    <3>1. CASE StartMatch
      BY <3>1 DEF StartMatch, CanStartMatch
    <3>2. CASE AbortMatch
      BY <3>2 DEF AbortMatch, Abort
    <3>3. CASE ResetField
      BY <1>2, <3>3 DEF ResetField, ResetMatch, IInv, MatchInv, GameDataOnlyInTeleop
    <3>4. CASE \/ ClearMatch \/ ClearFieldEStop \/ SetAutoWinnerMode \/ LoadSettings
               \/ BypassEmptyStations \/ SubstituteTeams
      BY <3>4 DEF ClearMatch, ClearFieldEStop, SetAutoWinnerMode, LoadSettings,
                  BypassEmptyStations, SubstituteTeams, matchVars
    <3> QED
      BY <2>3, <3>1, <3>2, <3>3, <3>4 DEF Operator
  <2>4. CASE LockFree \/ Tick \/ Clearing
    <3>1. CASE ClearReset
      BY <1>2, <3>1 DEF ClearReset, ResetMatch, IInv, MatchInv, GameDataOnlyInTeleop
    <3>2. CASE (LockFree \/ Tick \/ Clearing) /\ ~ClearReset
      BY <3>2 DEF LockFree, DisableAll, ToggleBypass, ToggleEStop, DsConnect, DsDisconnect,
                  DsStatus, matchVars, Tick, Clearing, AutoClear, ClearRestore
    <3> QED
      BY <2>4, <3>1, <3>2
  <2>5. CASE UNCHANGED vars
    BY <2>5 DEF vars
  <2> QED
    BY <1>2, <2>1, <2>2, <2>3, <2>4, <2>5 DEF Next
<1> QED
  BY <1>1, <1>2, ArenaInvariant, PTL DEF Spec, ImplementsMatchCycle, MC!Spec, MC!vars
=============================================================================
