----------------------------- MODULE EStopPanels -----------------------------
(***************************************************************************)
(* From a button to the arena: the contacts and their wires, the panel     *)
(* that samples them (cmd/estop-panel), the poll over the network          *)
(* (hardware/network_estop_panel.go) and what the arena makes of it        *)
(* (handlePanelInput and the start check of field/arena.go).               *)
(*                                                                         *)
(* A panel samples at its own pace and may stall; its process may die and  *)
(* start again, its network may fail, and its configuration may be         *)
(* replaced over HTTP.  The arena polls the panels one after the other in  *)
(* every pass.  Time is in ticks, each long enough for a pass.             *)
(*                                                                         *)
(* Arena.tla has the rest of the arena, a-stops included, and takes any    *)
(* reading a panel can report; here the readings come from the e-stop      *)
(* buttons, and a match is a state that is left again.                     *)
(*                                                                         *)
(* A definition that Next does not reach is a faulty variant of the one    *)
(* that follows it, kept to show which property catches that fault.        *)
(***************************************************************************)
EXTENDS Naturals

CONSTANTS
  NumPanels,            \* the panels, in the order they are polled
  Stations, PanelOf,    \* the alliance stations, and the panel responsible for each
  Inputs,               \* the wired e-stops: [panel, station, contacts]
  maxSnapshotAge, DiscrepancyWindow    \* in ticks

Panels == 1 .. NumPanels

\* The station a panel's field e-stop names.
All == "all"

ASSUME PanelsAssumption == NumPanels \in Nat
ASSUME StationsAssumption == All \notin Stations /\ PanelOf \in [Stations -> Panels]
ASSUME InputsAssumption ==
  /\ Inputs \subseteq [panel : Panels, station : Stations \cup {All}, contacts : {"dual", "nc"}]
  /\ \A i \in Inputs : i.station # All => PanelOf[i.station] = i.panel
  /\ \A i, j \in Inputs : i.panel = j.panel /\ i.station = j.station => i = j
ASSUME TimesAssumption ==
  maxSnapshotAge \in Nat /\ DiscrepancyWindow \in Nat \ {0}

VARIABLES
  lines,                \* of an input: the levels of its NC and its NO line
  held,                 \* for how long it has not read released
  sample, age,          \* of a panel's sampler: its inputs' states, and when they were read
  disagreed,            \* of an input: DiscrepancyFilter.since (0: zero), as ticks ago plus 1
  reader,               \* of a panel: what its sampler reads, "gpio" or "noop"
  replacing,            \* of a panel: the new sampler handleConfig has made, or "none"
  link,                 \* of a panel: "up", "unreachable" or "down"
  MatchState,
  EStop, EStopFault,    \* of a station
  fieldEStop,           \* the panels whose field e-stop is honoured; a setting
  polling,              \* 0, or the panel the running Update polls next
  passed                \* ghost: a pass has ended since the last tick, start or reset

buttonVars == <<lines, held>>
panelVars == <<sample, age, disagreed, reader, replacing, link>>
stopVars == <<EStop, EStopFault>>
vars == <<buttonVars, panelVars, MatchState, stopVars, fieldEStop, polling, passed>>

InputsOf(p) == {i \in Inputs : i.panel = p}

-----------------------------------------------------------------------------
(* Contacts and their decoding (hardware/interfaces.go)                      *)

\* 0 for a closed contact.  An open one, and a cut conductor, read 1 through the pull-up.
Released == <<0, 1>>
Pressed == <<1, 0>>
BothOpen == <<1, 1>>
BothClosed == <<0, 0>>

DecodeChannels(levels) ==
  CASE levels = Released -> "OK"
    [] levels = Pressed -> "Active"
    [] OTHER -> "Fault"

DecodeSingleNC(nc) == IF nc = 0 THEN "OK" ELSE "Active"

Decode(i) == IF i.contacts = "dual" THEN DecodeChannels(lines[i]) ELSE DecodeSingleNC(lines[i][1])

\* DiscrepancyFilter.Update: from when the channels have disagreed, and the state reported.
Since(state, since) == IF state # "Fault" THEN 0 ELSE IF since = 0 THEN 1 ELSE since
Filtered(state, since) ==
  IF state # "Fault" THEN state ELSE IF since <= DiscrepancyWindow THEN "Active" ELSE "Fault"

-----------------------------------------------------------------------------
(* Buttons and wires                                                         *)

\* A button is pressed or released, a conductor cut, shorted or repaired.  A button in travel
\* has both contacts open; a single contact's button has no NO line, which floats.
ChangeLines(i, levels) ==
  /\ lines[i] # levels
  /\ i.contacts = "nc" => levels \in {Released, BothOpen}
  /\ lines' = [lines EXCEPT ![i] = levels]
  /\ held' = [held EXCEPT ![i] = IF levels = Released THEN 0 ELSE @]
  /\ UNCHANGED <<panelVars, MatchState, stopVars, fieldEStop, polling, passed>>

\* One tick.  Update has completed a pass in it.
Tick ==
  /\ polling = 0 /\ passed
  /\ held' = [i \in Inputs |->
                IF Decode(i) = "OK" THEN 0
                ELSE IF held[i] > maxSnapshotAge THEN held[i] ELSE held[i] + 1]
  /\ age' = [p \in Panels |-> IF age[p] > maxSnapshotAge THEN age[p] ELSE age[p] + 1]
  /\ disagreed' = [i \in Inputs |->
                     IF disagreed[i] \in 1 .. DiscrepancyWindow THEN disagreed[i] + 1
                     ELSE disagreed[i]]
  /\ passed' = FALSE
  /\ UNCHANGED <<lines, sample, reader, replacing, link, MatchState, stopVars, fieldEStop, polling>>

-----------------------------------------------------------------------------
(* The panel (cmd/estop-panel/main.go)                                       *)

\* A sample of a panel's inputs, from filters that started at since.
TakeSample(p, since) ==
  /\ disagreed' = [i \in Inputs |->
                     IF i.panel = p THEN Since(Decode(i), since[i]) ELSE disagreed[i]]
  /\ sample' = [i \in Inputs |->
                  IF i.panel = p THEN Filtered(Decode(i), disagreed'[i]) ELSE sample[i]]
  /\ age' = [age EXCEPT ![p] = 0]

FreshFilters == [i \in Inputs |-> 0]

\* sampler.sample.  A noop reader reads nothing.
Sample(p) ==
  /\ link[p] # "down"
  /\ TakeSample(p, disagreed)
  /\ UNCHANGED <<reader, replacing, link, buttonVars, MatchState, stopVars, fieldEStop, polling,
                 passed>>

\* handleConfig opens the pins of the new configuration while the old sampler still holds
\* them; the kernel gives a line to one requester, so that fails, and the new sampler gets a
\* noop reader.  Both configurations use the same pins.
PostConfig(p) ==
  /\ link[p] = "up" /\ replacing[p] = "none"
  /\ replacing' = [replacing EXCEPT ![p] = IF reader[p] = "gpio" THEN "noop" ELSE "gpio"]
  /\ UNCHANGED <<sample, age, disagreed, reader, link, buttonVars, MatchState, stopVars,
                 fieldEStop, polling, passed>>

\* The new sampler, which has taken its first sample, replaces the old; the old one closes.
SwapSampler(p) ==
  /\ replacing[p] # "none" /\ link[p] # "down"
  /\ reader' = [reader EXCEPT ![p] = replacing[p]]
  /\ replacing' = [replacing EXCEPT ![p] = "none"]
  /\ TakeSample(p, FreshFilters)
  /\ UNCHANGED <<link, buttonVars, MatchState, stopVars, fieldEStop, polling, passed>>

\* The network, and the panel's process.
ChangeLink(p, to) ==
  /\ link[p] # "down" /\ link[p] # to
  /\ link' = [link EXCEPT ![p] = to]
  /\ replacing' = IF to = "down" THEN [replacing EXCEPT ![p] = "none"] ELSE replacing
  /\ UNCHANGED <<sample, age, disagreed, reader, buttonVars, MatchState, stopVars, fieldEStop,
                 polling, passed>>

\* main: the lines are free, and the first sample is taken before anything is served.
StartPanel(p) ==
  /\ link[p] = "down"
  /\ link' = [link EXCEPT ![p] = "up"]
  /\ reader' = [reader EXCEPT ![p] = "gpio"]
  /\ TakeSample(p, FreshFilters)
  /\ UNCHANGED <<replacing, buttonVars, MatchState, stopVars, fieldEStop, polling, passed>>

-----------------------------------------------------------------------------
(* The poll (NetworkEStopPanel.Poll) and the arena                           *)

MatchTimeIsZero == MatchState # "InMatch"

FaultWithoutAge(p) ==
  IF link[p] # "up" \/ reader[p] = "noop" \/ InputsOf(p) = {} THEN "unreachable" ELSE "none"

\* Why a poll of panel p reports faults instead of its inputs, if it does.
PollFault(p) ==
  IF link[p] # "up" THEN "unreachable"
  ELSE IF age[p] > maxSnapshotAge THEN "stale"
  ELSE IF reader[p] = "noop" \/ InputsOf(p) = {} THEN "unreachable"
  ELSE "none"

\* What a poll says of the e-stop of station s, All included: a set with at most one report.
EStopReports(p, s) ==
  IF PollFault(p) # "none"
  THEN IF s # All /\ PanelOf[s] = p THEN {[state |-> "Fault", fault |-> PollFault(p)]} ELSE {}
  ELSE {[state |-> sample[i], fault |-> IF sample[i] = "Fault" THEN "wiring" ELSE "none"] :
          i \in {j \in InputsOf(p) : j.station = s /\ (s = All => p \in fieldEStop)}}

TeamEStopForGood(eStop, report) == report.state # "OK" \/ eStop

\* handleTeamEStop
TeamEStop(eStop, report) == report.state # "OK" \/ (eStop /\ ~MatchTimeIsZero)

\* One station after a poll of panel p: its own input first, the field e-stop's after it.
EStopAfter(p, s) ==
  LET own == EStopReports(p, s)
      field == EStopReports(p, All)
      afterOwn == IF own = {} THEN EStop[s] ELSE \A r \in own : TeamEStop(EStop[s], r)
  IN  IF field = {} THEN afterOwn ELSE \A r \in field : TeamEStop(afterOwn, r)

EStopFaultAfter(p, s) ==
  LET last == IF EStopReports(p, All) # {} THEN EStopReports(p, All) ELSE EStopReports(p, s)
  IN  IF last = {} THEN EStopFault[s] ELSE CHOOSE f \in {r.fault : r \in last} : TRUE

\* Panel p polled and its inputs handled; what is reported of a field e-stop may end the match.
PollAndEnd(p, ends) ==
  /\ p = polling + 1
  /\ EStop' = [s \in Stations |-> EStopAfter(p, s)]
  /\ EStopFault' = [s \in Stations |-> EStopFaultAfter(p, s)]
  /\ MatchState' = IF MatchState = "InMatch" /\ \E r \in EStopReports(p, All) : r.state \in ends
                   THEN "PostMatch" ELSE MatchState
  /\ polling' = IF p = NumPanels THEN 0 ELSE p
  /\ passed' = (p = NumPanels)
  /\ UNCHANGED <<buttonVars, panelVars, fieldEStop>>

PollPanelEndsOnPress(p) == PollAndEnd(p, {"Active"})

PollPanel(p) == PollAndEnd(p, {"Active", "Fault"})

\* checkAllianceStationsReady, as far as it reads the stops.
CanStart == \A s \in Stations : ~EStop[s] /\ EStopFault[s] = "none"

StartMatch ==
  /\ polling = 0 /\ MatchState = "PreMatch" /\ CanStart
  /\ MatchState' = "InMatch" /\ passed' = FALSE
  /\ UNCHANGED <<buttonVars, panelVars, stopVars, fieldEStop, polling>>

EndMatch ==
  /\ polling = 0 /\ MatchState = "InMatch"
  /\ MatchState' = "PostMatch"
  /\ UNCHANGED <<buttonVars, panelVars, stopVars, fieldEStop, polling, passed>>

ClearMatch ==
  /\ polling = 0 /\ MatchState = "PostMatch"
  /\ MatchState' = "PreMatch"
  /\ UNCHANGED <<buttonVars, panelVars, stopVars, fieldEStop, polling, passed>>

ResetField ==
  /\ polling = 0 /\ MatchState # "InMatch"
  /\ MatchState' = "PreMatch"
  /\ EStop' = [s \in Stations |-> FALSE]
  /\ EStopFault' = [s \in Stations |-> "none"]
  /\ passed' = FALSE
  /\ UNCHANGED <<buttonVars, panelVars, fieldEStop, polling>>

-----------------------------------------------------------------------------

\* Panels just started, their buttons released.
Init ==
  /\ lines = [i \in Inputs |-> Released]
  /\ held = [i \in Inputs |-> 0]
  /\ sample = [i \in Inputs |-> Decode(i)]
  /\ age = [p \in Panels |-> 0]
  /\ disagreed = [i \in Inputs |-> 0]
  /\ reader = [p \in Panels |-> "gpio"] /\ replacing = [p \in Panels |-> "none"]
  /\ link = [p \in Panels |-> "up"]
  /\ MatchState = "PreMatch"
  /\ EStop = [s \in Stations |-> FALSE]
  /\ EStopFault = [s \in Stations |-> "none"]
  /\ fieldEStop \in SUBSET Panels
  /\ polling = 0 /\ passed = FALSE

Field == \/ \E i \in Inputs, levels \in {Released, Pressed, BothOpen, BothClosed} :
              ChangeLines(i, levels)
         \/ \E p \in Panels : \/ PostConfig(p)
                              \/ \E to \in {"up", "unreachable", "down"} : ChangeLink(p, to)
                              \/ StartPanel(p)
         \/ StartMatch
         \/ ResetField
         \/ Tick

Next == \/ Field
        \/ \E p \in Panels : Sample(p) \/ SwapSampler(p) \/ PollPanel(p)
        \/ EndMatch
        \/ ClearMatch

Spec == Init /\ [][Next]_vars

\* The arena's loop and a live panel's sampler run for ever; matches end and are cleared.
FairSpec ==
  /\ Spec
  /\ \A p \in Panels : WF_vars(Sample(p)) /\ WF_vars(SwapSampler(p)) /\ WF_vars(PollPanel(p))
  /\ WF_vars(EndMatch) /\ WF_vars(ClearMatch)

-----------------------------------------------------------------------------
(* Properties                                                                *)

Overdue(i) == held[i] > maxSnapshotAge

\* The types of the variables; the clocks stay within their bounds.
TypeOK ==
  /\ lines \in [Inputs -> {Released, Pressed, BothOpen, BothClosed}]
  /\ held \in [Inputs -> 0 .. maxSnapshotAge + 1]
  /\ sample \in [Inputs -> {"OK", "Active", "Fault"}]
  /\ age \in [Panels -> 0 .. maxSnapshotAge + 1]
  /\ disagreed \in [Inputs -> 0 .. DiscrepancyWindow + 1]
  /\ reader \in [Panels -> {"gpio", "noop"}]
  /\ replacing \in [Panels -> {"none", "gpio", "noop"}]
  /\ link \in [Panels -> {"up", "unreachable", "down"}]
  /\ MatchState \in {"PreMatch", "InMatch", "PostMatch"}
  /\ EStop \in [Stations -> BOOLEAN]
  /\ EStopFault \in [Stations -> {"none", "wiring", "unreachable", "stale"}]
  /\ fieldEStop \subseteq Panels
  /\ polling \in 0 .. NumPanels /\ passed \in BOOLEAN

\* An e-stop that has not read released for longer than a sample may be old stops its station
\* at the end of every pass of a match, whatever its panel, the network or the sampler are
\* doing and however the button is wired.  Without a field e-stop on a panel, that holds
\* outside a match too (handlePanelInput, Poll).
HeldButtonStops ==
  passed /\ (MatchState = "InMatch" \/ fieldEStop = {}) =>
    \A i \in Inputs : Overdue(i) /\ i.station # All => EStop[i.station]

\* A panel's field e-stop held as long leaves no match running, or, where its panel has
\* failed, every station of that panel stopped and, unless the field e-stop of another panel
\* has reported since, faulted (Arena.Update, faulted).
HeldFieldEStopEndsMatch ==
  passed /\ MatchState = "InMatch" =>
    \A i \in Inputs : Overdue(i) /\ i.station = All /\ i.panel \in fieldEStop =>
      \A s \in Stations : PanelOf[s] = i.panel =>
        /\ EStop[s]
        /\ fieldEStop = {i.panel} => EStopFault[s] \in {"unreachable", "stale"}

\* Once a station's buttons are released, its wires whole and the panels go on answering from
\* their pins with fresh samples, its stop and its fault go away without a restart of the
\* controller and do not come back.  A station without a button of its own has to wait for a
\* Reset Field.
RepairedStationClears ==
  \A s \in {i.station : i \in Inputs} \ {All} :
    <>[](/\ \A i \in Inputs : i.station \in {s, All} => lines[i] = Released
         /\ \A p \in Panels : PollFault(p) = "none" /\ replacing[p] = "none")
      => <>[](~EStop[s] /\ EStopFault[s] = "none")

\* "Confirm that during each of the above, Start Match is refused with an error naming the
\* station and the fault" (docs/hardware-wiring.md, on broken and shorted conductors).
FaultRefusesStart ==
  passed /\ MatchState = "PreMatch" /\ CanStart => \A i \in Inputs : ~Overdue(i)
=============================================================================
