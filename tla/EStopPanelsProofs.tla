--------------------------- MODULE EStopPanelsProofs ---------------------------
(***************************************************************************)
(* Theorems about EStopPanels.tla, for any number of panels and stations,  *)
(* any wiring and any time limits: a button that is held stops.            *)
(*                                                                         *)
(* Two things carry it.  A sample that says released is no older than the  *)
(* press it has missed (Sampled), so a poll that believes it is not late.  *)
(* And what the panels polled so far in a pass have done to a station is   *)
(* not undone by those polled after them (Stops, FieldStops).              *)
(***************************************************************************)
EXTENDS EStopPanels, TLAPS

\* A button that reads released is not held, and a single contact's other line floats.
Resting ==
  \A i \in Inputs :
    /\ lines[i] = Released => held[i] = 0
    /\ i.contacts = "nc" => lines[i] \in {Released, BothOpen}

\* A sample that reads released was taken when it was.
Sampled == \A i \in Inputs : sample[i] = "OK" => held[i] <= age[i.panel]

\* Has the running pass polled panel p, or the last one and nothing happened since?
Polled(p) == passed \/ p <= polling

\* Is panel p polled after every field e-stop that is honoured?
AfterFieldEStops(p) == \A q \in fieldEStop : q < p

\* What a polled panel's overdue buttons have done.
Stops ==
  \A i \in Inputs :
    /\ Polled(i.panel) /\ Overdue(i) /\ i.station # All
    /\ MatchState = "InMatch" \/ AfterFieldEStops(i.panel)
    => EStop[i.station] = TRUE

FieldStops ==
  MatchState = "InMatch" =>
    \A i \in Inputs :
      Polled(i.panel) /\ Overdue(i) /\ i.station = All /\ i.panel \in fieldEStop =>
        \A s \in Stations : PanelOf[s] = i.panel =>
          /\ EStop[s] = TRUE
          /\ fieldEStop = {i.panel} => EStopFault[s] \in {"unreachable", "stale"}

IInv == TypeOK /\ Resting /\ Sampled /\ (passed => polling = 0) /\ Stops /\ FieldStops

-----------------------------------------------------------------------------
(* Inputs and samples                                                        *)

\* What InputsAssumption says of one input.
LEMMA InputTypes ==
  ASSUME NEW i \in Inputs
  PROVE  /\ i.panel \in Panels /\ i.station \in Stations \cup {All}
         /\ i.contacts \in {"dual", "nc"}
         /\ i.station # All => PanelOf[i.station] = i.panel
  BY InputsAssumption

\* An input decodes to one of the three states, and to released only when it is at rest.
LEMMA DecodeTypes ==
  ASSUME NEW i \in Inputs
  PROVE  /\ Decode(i) \in {"OK", "Active", "Fault"}
         /\ TypeOK /\ Resting /\ Decode(i) = "OK" => held[i] = 0
<1>1. Decode(i) \in {"OK", "Active", "Fault"}
  BY DEF Decode, DecodeChannels, DecodeSingleNC
<1>2. ASSUME TypeOK, Resting, Decode(i) = "OK" PROVE lines[i] = Released
  <2>1. CASE i.contacts = "dual"
    BY <1>2, <2>1 DEF Decode, DecodeChannels
  <2>2. CASE i.contacts # "dual"
    <3>1. lines[i][1] = 0
      BY <1>2, <2>2 DEF Decode, DecodeSingleNC
    <3>2. lines[i] \in {Released, BothOpen}
      BY <1>2, <2>2, InputTypes DEF Resting
    <3>3. BothOpen[1] = 1
      BY DEF BothOpen
    <3> QED
      BY <3>1, <3>2, <3>3
  <2> QED
    BY <2>1, <2>2
<1>3. ASSUME TypeOK, Resting, Decode(i) = "OK" PROVE held[i] = 0
  BY <1>2, <1>3 DEF Resting
<1> QED
  BY <1>1, <1>3

\* The filter's clock and state, of a state it is given.
LEMMA FilterTypes ==
  ASSUME NEW state \in {"OK", "Active", "Fault"}, NEW since \in 0 .. DiscrepancyWindow + 1
  PROVE  /\ Since(state, since) \in 0 .. DiscrepancyWindow + 1
         /\ \A t : Filtered(state, t) \in {"OK", "Active", "Fault"}
         /\ \A t : Filtered(state, t) = "OK" => state = "OK"
  BY TimesAssumption DEF Since, Filtered

\* A sample has the types it should; what it reads released is not held.
LEMMA TakeSampleTypes ==
  ASSUME TypeOK, Resting, Sampled, NEW p \in Panels,
         NEW since \in [Inputs -> 0 .. DiscrepancyWindow + 1],
         TakeSample(p, since), held' = held
  PROVE  /\ disagreed' \in [Inputs -> 0 .. DiscrepancyWindow + 1]
         /\ sample' \in [Inputs -> {"OK", "Active", "Fault"}]
         /\ age' \in [Panels -> 0 .. maxSnapshotAge + 1]
         /\ Sampled'
<1>1. disagreed' = [i \in Inputs |->
                      IF i.panel = p THEN Since(Decode(i), since[i]) ELSE disagreed[i]]
      /\ sample' = [i \in Inputs |->
                      IF i.panel = p THEN Filtered(Decode(i), disagreed'[i]) ELSE sample[i]]
      /\ age' = [age EXCEPT ![p] = 0]
  BY DEF TakeSample
<1>2. disagreed' \in [Inputs -> 0 .. DiscrepancyWindow + 1]
  <2>1. \A i \in Inputs : Since(Decode(i), since[i]) \in 0 .. DiscrepancyWindow + 1
    BY DecodeTypes, FilterTypes
  <2>2. \A i \in Inputs : disagreed[i] \in 0 .. DiscrepancyWindow + 1
    BY DEF TypeOK
  <2> QED
    BY <1>1, <2>1, <2>2
<1>3. \A i \in Inputs : /\ Filtered(Decode(i), disagreed'[i]) \in {"OK", "Active", "Fault"}
                        /\ Filtered(Decode(i), disagreed'[i]) = "OK" => held[i] = 0
  <2> TAKE i \in Inputs
  <2>1. 0 \in 0 .. DiscrepancyWindow + 1
    BY TimesAssumption
  <2> QED
    BY <2>1, DecodeTypes, FilterTypes
<1>4. sample' \in [Inputs -> {"OK", "Active", "Fault"}]
  BY <1>1, <1>3 DEF TypeOK
<1>5. 0 \in 0 .. maxSnapshotAge + 1
  BY TimesAssumption
<1>6. age' \in [Panels -> 0 .. maxSnapshotAge + 1]
  BY <1>1, <1>5 DEF TypeOK
<1>7. ASSUME NEW i \in Inputs, sample'[i] = "OK"
      PROVE  held'[i] <= age'[i.panel]
  <2>1. CASE i.panel = p
    <3>1. held[i] = 0 /\ age'[p] = 0
      BY <1>1, <1>3, <1>7, <2>1 DEF TypeOK
    <3> QED
      BY <2>1, <3>1
  <2>2. CASE i.panel # p
    <3>1. sample[i] = "OK" /\ age'[i.panel] = age[i.panel]
      BY <1>1, <1>7, <2>2, InputTypes DEF TypeOK
    <3> QED
      BY <3>1 DEF Sampled
  <2> QED
    BY <2>1, <2>2
<1> QED
  BY <1>2, <1>4, <1>6, <1>7 DEF Sampled

-----------------------------------------------------------------------------
(* What a poll reports                                                       *)

\* A poll of a station's own panel that faults faults the station and says nothing of the
\* field e-stop.
LEMMA FaultReports ==
  ASSUME NEW p \in Panels, PollFault(p) # "none"
  PROVE  /\ PollFault(p) \in {"unreachable", "stale"}
         /\ EStopReports(p, All) = {}
         /\ \A s \in Stations : PanelOf[s] = p =>
              EStopReports(p, s) = {[state |-> "Fault", fault |-> PollFault(p)]}
<1>1. PollFault(p) \in {"unreachable", "stale"}
  BY DEF PollFault
<1>2. \A s \in Stations : s # All
  BY StationsAssumption
<1> QED
  BY <1>1, <1>2 DEF EStopReports

\* Nothing is reported of a station by a panel that is not its own, nor of a field e-stop that
\* the settings do not honour.
LEMMA NoReport ==
  ASSUME NEW p \in Panels
  PROVE  /\ \A s \in Stations : PanelOf[s] # p => EStopReports(p, s) = {}
         /\ p \notin fieldEStop => EStopReports(p, All) = {}
<1>1. ASSUME NEW s \in Stations, PanelOf[s] # p
      PROVE  EStopReports(p, s) = {}
  <2>1. \A j \in InputsOf(p) : j.station # s
    BY <1>1, InputTypes, StationsAssumption DEF InputsOf
  <2> QED
    BY <1>1, <2>1 DEF EStopReports
<1>2. ASSUME p \notin fieldEStop
      PROVE  EStopReports(p, All) = {}
  BY <1>2 DEF EStopReports
<1> QED
  BY <1>1, <1>2

\* A sample that a poll believes does not read released for a button that is overdue.
LEMMA BelievedSample ==
  ASSUME TypeOK, Sampled, NEW i \in Inputs, Overdue(i), PollFault(i.panel) = "none"
  PROVE  sample[i] \in {"Active", "Fault"}
<1>1. /\ age[i.panel] \in 0 .. maxSnapshotAge + 1 /\ held[i] \in 0 .. maxSnapshotAge + 1
      /\ maxSnapshotAge \in Nat
  BY InputTypes, TimesAssumption DEF TypeOK
<1>2. ~(age[i.panel] > maxSnapshotAge)
  BY DEF PollFault
<1>3. sample[i] # "OK"
  BY <1>1, <1>2 DEF Sampled, Overdue
<1> QED
  BY <1>3 DEF TypeOK

\* An overdue button's own panel reports its station, and not as released.
LEMMA OwnReport ==
  ASSUME TypeOK, Sampled, NEW i \in Inputs, Overdue(i), i.station # All
  PROVE  /\ EStopReports(i.panel, i.station) # {}
         /\ \A r \in EStopReports(i.panel, i.station) : r.state # "OK"
<1> DEFINE p == i.panel
           s == i.station
<1>1. p \in Panels /\ s \in Stations /\ PanelOf[s] = p
  BY InputTypes
<1>2. CASE PollFault(p) # "none"
  <2>1. EStopReports(p, s) = {[state |-> "Fault", fault |-> PollFault(p)]}
    BY <1>1, <1>2, FaultReports
  <2> QED
    BY <2>1
<1>3. CASE PollFault(p) = "none"
  <2> DEFINE of == {j \in InputsOf(p) : j.station = s /\ (s = All => p \in fieldEStop)}
  <2>1. of = {i}
    BY InputsAssumption DEF InputsOf
  <2>2. sample[i] \in {"Active", "Fault"}
    BY <1>3, BelievedSample
  <2>3. EStopReports(p, s)
          = {[state |-> sample[j], fault |-> IF sample[j] = "Fault" THEN "wiring" ELSE "none"] :
               j \in of}
    BY <1>3 DEF EStopReports
  <2>4. EStopReports(p, s)
          = {[state |-> sample[i], fault |-> IF sample[i] = "Fault" THEN "wiring" ELSE "none"]}
    BY <2>1, <2>3
  <2> QED
    BY <2>2, <2>4
<1> QED
  BY <1>2, <1>3

\* So does the panel of an overdue field e-stop, where it does not fault instead.
LEMMA FieldReport ==
  ASSUME TypeOK, Sampled, NEW i \in Inputs, Overdue(i), i.station = All,
         i.panel \in fieldEStop, PollFault(i.panel) = "none"
  PROVE  \E r \in EStopReports(i.panel, All) : r.state \in {"Active", "Fault"}
<1> DEFINE report == [state |-> sample[i],
                      fault |-> IF sample[i] = "Fault" THEN "wiring" ELSE "none"]
<1>1. sample[i] \in {"Active", "Fault"}
  BY BelievedSample
<1>2. report \in EStopReports(i.panel, All)
  BY DEF EStopReports, InputsOf
<1> QED
  BY <1>1, <1>2

-----------------------------------------------------------------------------
(* What a station makes of the reports                                       *)

\* A stop stands during a match, and where no field e-stop reports out of one.
LEMMA StopStands ==
  ASSUME NEW p \in Panels, NEW s \in Stations, MatchState = "InMatch" \/ p \notin fieldEStop,
         \/ EStop[s] = TRUE /\ (MatchState = "InMatch" \/ EStopReports(p, s) = {})
         \/ EStopReports(p, s) # {} /\ \A r \in EStopReports(p, s) : r.state # "OK"
  PROVE  EStopAfter(p, s) = TRUE
<1> DEFINE own == EStopReports(p, s)
           field == EStopReports(p, All)
           afterOwn == IF own = {} THEN EStop[s] ELSE \A r \in own : TeamEStop(EStop[s], r)
<1>1. afterOwn = TRUE
  BY Zenon DEF TeamEStop, MatchTimeIsZero
<1>2. field = {} \/ MatchState = "InMatch"
  BY NoReport
<1>3. MatchState = "InMatch" => \A r \in field : TeamEStop(afterOwn, r)
  BY <1>1 DEF TeamEStop, MatchTimeIsZero
<1>4. EStopAfter(p, s) = IF field = {} THEN afterOwn ELSE \A r \in field : TeamEStop(afterOwn, r)
  BY DEF EStopAfter
<1> QED
  BY <1>1, <1>2, <1>3, <1>4

\* What a report can say.
LEMMA ReportTypes ==
  ASSUME NEW p \in Panels, NEW s
  PROVE  \A r \in EStopReports(p, s) : r.fault \in {"none", "wiring", "unreachable", "stale"}
<1>1. PollFault(p) \in {"none", "unreachable", "stale"}
  BY DEF PollFault
<1> QED
  BY <1>1 DEF EStopReports

\* A poll leaves every station a stop that is set or not, and a fault of one of the kinds.
LEMMA AfterTypes ==
  ASSUME TypeOK, NEW p \in Panels, NEW s \in Stations
  PROVE  /\ EStopAfter(p, s) \in BOOLEAN
         /\ EStopFaultAfter(p, s) \in {"none", "wiring", "unreachable", "stale"}
<1>1. EStop[s] \in BOOLEAN /\ EStopFault[s] \in {"none", "wiring", "unreachable", "stale"}
  BY DEF TypeOK
<1>2. EStopAfter(p, s) \in BOOLEAN
  BY <1>1 DEF EStopAfter
<1>3. EStopFaultAfter(p, s) \in {"none", "wiring", "unreachable", "stale"}
  <2> DEFINE last == IF EStopReports(p, All) # {} THEN EStopReports(p, All)
                     ELSE EStopReports(p, s)
             faults == {r.fault : r \in last}
  <2>1. faults \subseteq {"none", "wiring", "unreachable", "stale"}
    BY ReportTypes
  <2>2. last # {} => (CHOOSE f \in faults : TRUE) \in faults
    OBVIOUS
  <2>3. EStopFaultAfter(p, s) = IF last = {} THEN EStopFault[s] ELSE CHOOSE f \in faults : TRUE
    BY DEF EStopFaultAfter
  <2> QED
    BY <1>1, <2>1, <2>2, <2>3
<1> QED
  BY <1>2, <1>3

-----------------------------------------------------------------------------
(* The steps                                                                 *)

\* Init establishes the invariant.
LEMMA InitIInv == Init => IInv
<1> SUFFICES ASSUME Init PROVE IInv
  OBVIOUS
<1>1. /\ lines = [i \in Inputs |-> Released] /\ held = [i \in Inputs |-> 0]
      /\ sample = [i \in Inputs |-> Decode(i)]
      /\ age = [p \in Panels |-> 0] /\ disagreed = [i \in Inputs |-> 0]
  BY DEF Init
<1>2. /\ reader = [p \in Panels |-> "gpio"] /\ replacing = [p \in Panels |-> "none"]
      /\ link = [p \in Panels |-> "up"] /\ MatchState = "PreMatch"
      /\ EStop = [s \in Stations |-> FALSE] /\ EStopFault = [s \in Stations |-> "none"]
      /\ fieldEStop \subseteq Panels /\ polling = 0 /\ passed = FALSE
  BY DEF Init
<1>3. /\ 0 \in 0 .. maxSnapshotAge + 1 /\ 0 \in 0 .. DiscrepancyWindow + 1
      /\ 0 \in 0 .. NumPanels
  BY TimesAssumption, PanelsAssumption
<1>4. lines \in [Inputs -> {Released, Pressed, BothOpen, BothClosed}]
  BY <1>1
<1>5. /\ held \in [Inputs -> 0 .. maxSnapshotAge + 1]
      /\ age \in [Panels -> 0 .. maxSnapshotAge + 1]
      /\ disagreed \in [Inputs -> 0 .. DiscrepancyWindow + 1]
  BY <1>1, <1>3
<1>6. sample \in [Inputs -> {"OK", "Active", "Fault"}]
  BY <1>1, DecodeTypes
<1>7. TypeOK
  BY <1>2, <1>3, <1>4, <1>5, <1>6 DEF TypeOK
<1>8. Resting
  BY <1>1 DEF Resting
<1>9. Sampled
  BY <1>1, InputTypes DEF Sampled
<1>10. \A p \in Panels : ~Polled(p)
  BY <1>2 DEF Polled, Panels
<1> QED
  BY <1>2, <1>7, <1>8, <1>9, <1>10, InputTypes DEF IInv, Stops, FieldStops

\* Before the first panel of a pass is polled there is nothing that a stop has to show.
LEMMA NothingPolled ==
  ASSUME polling' = 0, passed' = FALSE
  PROVE  Stops' /\ FieldStops' /\ (passed' => polling' = 0)
<1>1. \A p \in Panels : ~(p <= polling')
  BY DEF Panels
<1> QED
  BY <1>1, InputTypes DEF Stops, FieldStops, Polled

\* While no button becomes overdue and no match starts, the stops stand as they are.
LEMMA StopsUntouched ==
  ASSUME IInv, UNCHANGED <<stopVars, fieldEStop, polling, passed>>,
         MatchState' = MatchState \/ MatchState' # "InMatch",
         \A i \in Inputs : Overdue(i)' => Overdue(i)
  PROVE  Stops' /\ FieldStops' /\ (passed' => polling' = 0)
  BY DEF IInv, Stops, FieldStops, Polled, AfterFieldEStops, stopVars

\* A button is pressed or released, a wire cut or repaired.
LEMMA ChangeLinesKeeps ==
  ASSUME IInv, NEW i \in Inputs, NEW levels \in {Released, Pressed, BothOpen, BothClosed},
         ChangeLines(i, levels)
  PROVE  IInv'
<1>1. /\ i.contacts = "nc" => levels \in {Released, BothOpen}
      /\ lines' = [lines EXCEPT ![i] = levels]
      /\ held' = [held EXCEPT ![i] = IF levels = Released THEN 0 ELSE @]
      /\ UNCHANGED <<panelVars, MatchState, stopVars, fieldEStop, polling, passed>>
  BY DEF ChangeLines
<1>2. TypeOK /\ Resting /\ Sampled
  BY DEF IInv
<1>3. maxSnapshotAge \in Nat /\ 0 \in 0 .. maxSnapshotAge + 1
  BY TimesAssumption
<1>4. /\ lines' \in [Inputs -> {Released, Pressed, BothOpen, BothClosed}]
      /\ \A j \in Inputs : j # i => lines'[j] = lines[j] /\ held'[j] = held[j]
      /\ lines'[i] = levels /\ held'[i] = IF levels = Released THEN 0 ELSE held[i]
  BY <1>1, <1>2 DEF TypeOK
<1>5. held' \in [Inputs -> 0 .. maxSnapshotAge + 1]
  BY <1>1, <1>2, <1>3 DEF TypeOK
<1>6. \A j \in Inputs : held'[j] = held[j] \/ held'[j] = 0
  BY <1>4
<1>7. TypeOK'
  BY <1>1, <1>2, <1>4, <1>5 DEF TypeOK, panelVars, stopVars
<1>8. Resting'
  BY <1>1, <1>2, <1>4 DEF Resting
<1>9. Sampled'
  <2> SUFFICES ASSUME NEW j \in Inputs, sample[j] = "OK" PROVE held'[j] <= age[j.panel]
    BY <1>1 DEF Sampled, panelVars
  <2>1. age[j.panel] \in 0 .. maxSnapshotAge + 1 /\ held[j] <= age[j.panel]
    BY <1>2, InputTypes DEF TypeOK, Sampled
  <2> QED
    BY <1>3, <1>6, <2>1
<1>10. \A j \in Inputs : Overdue(j)' => Overdue(j)
  BY <1>3, <1>6 DEF Overdue
<1> QED
  BY <1>1, <1>7, <1>8, <1>9, <1>10, StopsUntouched DEF IInv

\* Time passes for presses and samples alike.
LEMMA TickKeeps ==
  ASSUME IInv, Tick
  PROVE  IInv'
<1>1. TypeOK /\ Resting /\ Sampled
  BY DEF IInv
<1>2. /\ held' = [i \in Inputs |->
                    IF Decode(i) = "OK" THEN 0
                    ELSE IF held[i] > maxSnapshotAge THEN held[i] ELSE held[i] + 1]
      /\ age' = [p \in Panels |-> IF age[p] > maxSnapshotAge THEN age[p] ELSE age[p] + 1]
  BY DEF Tick
<1>3. /\ polling' = 0 /\ passed' = FALSE
      /\ UNCHANGED <<lines, sample, reader, replacing, link, MatchState, stopVars, fieldEStop>>
  BY DEF Tick
<1>4. /\ \A i \in Inputs : held[i] \in 0 .. maxSnapshotAge + 1
      /\ \A p \in Panels : age[p] \in 0 .. maxSnapshotAge + 1
      /\ \A i \in Inputs : disagreed[i] \in 0 .. DiscrepancyWindow + 1
      /\ maxSnapshotAge \in Nat /\ DiscrepancyWindow \in Nat
  BY <1>1, TimesAssumption DEF TypeOK
<1>5. held' \in [Inputs -> 0 .. maxSnapshotAge + 1] /\ age' \in [Panels -> 0 .. maxSnapshotAge + 1]
  BY <1>2, <1>4
<1>6. disagreed' \in [Inputs -> 0 .. DiscrepancyWindow + 1]
  BY <1>4 DEF Tick
<1>7. TypeOK'
  <2>1. polling' \in 0 .. NumPanels
    BY <1>3, PanelsAssumption
  <2> QED
    BY <1>1, <1>3, <1>5, <1>6, <2>1 DEF TypeOK, stopVars
<1>8. Resting'
  <2> SUFFICES ASSUME NEW i \in Inputs PROVE lines[i] = Released => held'[i] = 0
    BY <1>1, <1>3 DEF Resting
  <2>1. Released[1] = 0
    BY DEF Released
  <2>2. lines[i] = Released => Decode(i) = "OK"
    <3>1. Released # Pressed
      <4>1. Pressed[1] = 1
        BY DEF Pressed
      <4> QED
        BY <2>1, <4>1
    <3>2. DecodeChannels(Released) = "OK"
      BY <3>1 DEF DecodeChannels
    <3>3. DecodeSingleNC(0) = "OK"
      BY DEF DecodeSingleNC
    <3> QED
      BY <2>1, <3>2, <3>3, Zenon DEF Decode
  <2> QED
    BY <1>2, <2>2
<1>9. Sampled'
  <2> SUFFICES ASSUME NEW i \in Inputs, sample[i] = "OK" PROVE held'[i] <= age'[i.panel]
    BY <1>3 DEF Sampled
  <2>1. held[i] <= age[i.panel] /\ i.panel \in Panels
    BY <1>1, InputTypes DEF Sampled
  <2>2. age'[i.panel] = IF age[i.panel] > maxSnapshotAge THEN age[i.panel] ELSE age[i.panel] + 1
    BY <1>2, <2>1
  <2>3. CASE Decode(i) = "OK"
    <3>1. held'[i] = 0
      BY <1>2, <2>3
    <3> QED
      BY <1>4, <2>1, <2>2, <3>1
  <2>4. CASE Decode(i) # "OK"
    <3>1. held'[i] = IF held[i] > maxSnapshotAge THEN held[i] ELSE held[i] + 1
      BY <1>2, <2>4
    <3> QED
      BY <1>4, <2>1, <2>2, <3>1
  <2> QED
    BY <2>3, <2>4
<1> QED
  BY <1>3, <1>7, <1>8, <1>9, NothingPolled DEF IInv

\* A panel samples, starts, or takes a new configuration.
LEMMA SamplingKeeps ==
  ASSUME IInv, NEW p \in Panels, Sample(p) \/ SwapSampler(p) \/ StartPanel(p)
  PROVE  IInv'
<1>1. TypeOK /\ Resting /\ Sampled
  BY DEF IInv
<1>2. UNCHANGED <<buttonVars, MatchState, stopVars, fieldEStop, polling, passed>>
  BY DEF Sample, SwapSampler, StartPanel
<1>3. PICK since \in [Inputs -> 0 .. DiscrepancyWindow + 1] : TakeSample(p, since)
  <2>1. disagreed \in [Inputs -> 0 .. DiscrepancyWindow + 1]
    BY <1>1 DEF TypeOK
  <2>2. FreshFilters \in [Inputs -> 0 .. DiscrepancyWindow + 1]
    BY TimesAssumption DEF FreshFilters
  <2> QED
    BY <2>1, <2>2 DEF Sample, SwapSampler, StartPanel
<1>4. /\ disagreed' \in [Inputs -> 0 .. DiscrepancyWindow + 1]
      /\ sample' \in [Inputs -> {"OK", "Active", "Fault"}]
      /\ age' \in [Panels -> 0 .. maxSnapshotAge + 1]
      /\ Sampled'
  BY <1>1, <1>2, <1>3, TakeSampleTypes DEF buttonVars
<1>5. /\ reader' \in [Panels -> {"gpio", "noop"}]
      /\ replacing' \in [Panels -> {"none", "gpio", "noop"}]
      /\ link' \in [Panels -> {"up", "unreachable", "down"}]
  <2>1. CASE Sample(p)
    BY <1>1, <2>1 DEF Sample, TypeOK
  <2>2. CASE SwapSampler(p)
    <3>1. replacing[p] \in {"gpio", "noop"}
      BY <1>1, <2>2 DEF SwapSampler, TypeOK
    <3> QED
      BY <1>1, <2>2, <3>1 DEF SwapSampler, TypeOK
  <2>3. CASE StartPanel(p)
    BY <1>1, <2>3 DEF StartPanel, TypeOK
  <2> QED
    BY <2>1, <2>2, <2>3
<1>6. TypeOK'
  BY <1>1, <1>2, <1>4, <1>5 DEF TypeOK, buttonVars, stopVars
<1>7. Resting'
  BY <1>1, <1>2 DEF Resting, buttonVars
<1>8. \A i \in Inputs : Overdue(i)' => Overdue(i)
  BY <1>2 DEF Overdue, buttonVars
<1> QED
  BY <1>2, <1>4, <1>6, <1>7, <1>8, StopsUntouched DEF IInv

\* A configuration arrives, or the network or a panel's process comes or goes.
LEMMA LinkKeeps ==
  ASSUME IInv, NEW p \in Panels,
         PostConfig(p) \/ \E to \in {"up", "unreachable", "down"} : ChangeLink(p, to)
  PROVE  IInv'
<1>1. TypeOK /\ Resting /\ Sampled
  BY DEF IInv
<1>2. UNCHANGED <<sample, age, disagreed, reader, buttonVars, MatchState, stopVars, fieldEStop,
                  polling, passed>>
  BY DEF PostConfig, ChangeLink
<1>3. /\ replacing' \in [Panels -> {"none", "gpio", "noop"}]
      /\ link' \in [Panels -> {"up", "unreachable", "down"}]
  BY <1>1 DEF PostConfig, ChangeLink, TypeOK
<1>4. TypeOK'
  BY <1>1, <1>2, <1>3 DEF TypeOK, buttonVars, stopVars
<1>5. Resting' /\ Sampled'
  BY <1>1, <1>2 DEF Resting, Sampled, buttonVars
<1>6. \A i \in Inputs : Overdue(i)' => Overdue(i)
  BY <1>2 DEF Overdue, buttonVars
<1> QED
  BY <1>2, <1>4, <1>5, <1>6, StopsUntouched DEF IInv

\* The match starts, ends or is cleared, or the field is reset.
LEMMA MatchKeeps ==
  ASSUME IInv, StartMatch \/ EndMatch \/ ClearMatch \/ ResetField
  PROVE  IInv'
<1>1. TypeOK /\ Resting /\ Sampled
  BY DEF IInv
<1>2. UNCHANGED <<buttonVars, panelVars, fieldEStop, polling>>
  BY DEF StartMatch, EndMatch, ClearMatch, ResetField
<1>3. TypeOK'
  <2>1. /\ MatchState' \in {"PreMatch", "InMatch", "PostMatch"} /\ passed' \in BOOLEAN
    BY <1>1 DEF StartMatch, EndMatch, ClearMatch, ResetField, TypeOK
  <2>2. /\ EStop' \in [Stations -> BOOLEAN]
        /\ EStopFault' \in [Stations -> {"none", "wiring", "unreachable", "stale"}]
    <3>1. CASE StartMatch \/ EndMatch \/ ClearMatch
      BY <1>1, <3>1 DEF StartMatch, EndMatch, ClearMatch, TypeOK, stopVars
    <3>2. CASE ResetField
      BY <3>2 DEF ResetField
    <3> QED
      BY <3>1, <3>2
  <2> QED
    BY <1>1, <1>2, <2>1, <2>2 DEF TypeOK, buttonVars, panelVars
<1>4. Resting' /\ Sampled'
  BY <1>1, <1>2 DEF Resting, Sampled, buttonVars, panelVars
<1>5. CASE StartMatch \/ ResetField
  <2>1. polling' = 0 /\ passed' = FALSE
    BY <1>5 DEF StartMatch, ResetField
  <2> QED
    BY <1>3, <1>4, <2>1, NothingPolled DEF IInv
<1>6. CASE EndMatch \/ ClearMatch
  <2>1. UNCHANGED <<stopVars, fieldEStop, polling, passed>> /\ MatchState' # "InMatch"
    BY <1>6 DEF EndMatch, ClearMatch
  <2>2. \A i \in Inputs : Overdue(i)' => Overdue(i)
    BY <1>2 DEF Overdue, buttonVars
  <2> QED
    BY <1>3, <1>4, <2>1, <2>2, StopsUntouched DEF IInv
<1> QED
  BY <1>5, <1>6

\* A panel is polled: its own overdue buttons stop, and what the panels polled before it have
\* stopped stays so.
LEMMA PollKeeps ==
  ASSUME IInv, NEW p \in Panels, PollPanel(p)
  PROVE  IInv'
<1>1. TypeOK /\ Resting /\ Sampled /\ Stops /\ FieldStops
  BY DEF IInv
<1>2. /\ p = polling + 1
      /\ EStop' = [s \in Stations |-> EStopAfter(p, s)]
      /\ EStopFault' = [s \in Stations |-> EStopFaultAfter(p, s)]
      /\ UNCHANGED <<buttonVars, panelVars, fieldEStop>>
  BY DEF PollPanel, PollAndEnd
<1>3. /\ MatchState' = IF /\ MatchState = "InMatch"
                          /\ \E r \in EStopReports(p, All) : r.state \in {"Active", "Fault"}
                       THEN "PostMatch" ELSE MatchState
      /\ polling' = IF p = NumPanels THEN 0 ELSE p
      /\ passed' = (p = NumPanels)
  BY DEF PollPanel, PollAndEnd
<1>4. MatchState' = "InMatch" =>
        /\ MatchState = "InMatch"
        /\ \A r \in EStopReports(p, All) : r.state \notin {"Active", "Fault"}
  BY <1>3
<1>5. \A k \in Panels : Polled(k)' => Polled(k) \/ k = p
  <2>1. p \in Nat /\ NumPanels \in Nat /\ polling \in Nat
    BY <1>1, PanelsAssumption DEF Panels, TypeOK
  <2>2. \A k \in Panels : k \in Nat /\ 1 <= k /\ k <= NumPanels
    BY PanelsAssumption DEF Panels
  <2>3. CASE p = NumPanels
    BY <1>2, <2>1, <2>2, <2>3 DEF Polled
  <2>4. CASE p # NumPanels
    <3>1. polling' = p /\ passed' = FALSE
      BY <1>3, <2>4
    <3> QED
      BY <1>2, <2>1, <2>2, <3>1 DEF Polled
  <2> QED
    BY <2>3, <2>4
<1>6. TypeOK'
  <2>1. /\ EStop' \in [Stations -> BOOLEAN]
        /\ EStopFault' \in [Stations -> {"none", "wiring", "unreachable", "stale"}]
    BY <1>1, <1>2, AfterTypes
  <2>2. MatchState' \in {"PreMatch", "InMatch", "PostMatch"}
    BY <1>1, <1>3 DEF TypeOK
  <2>3. polling' \in 0 .. NumPanels
    BY <1>3, PanelsAssumption DEF Panels
  <2>4. passed' \in BOOLEAN
    BY <1>3
  <2> QED
    BY <1>1, <1>2, <2>1, <2>2, <2>3, <2>4 DEF TypeOK, buttonVars, panelVars
<1>7. Resting' /\ Sampled'
  BY <1>1, <1>2 DEF Resting, Sampled, buttonVars, panelVars
<1>8. \A i \in Inputs : Overdue(i)' = Overdue(i)
  BY <1>2 DEF Overdue, buttonVars
<1>9. Stops'
  <2> SUFFICES ASSUME NEW i \in Inputs, Polled(i.panel)', Overdue(i)', i.station # All,
                      MatchState' = "InMatch" \/ AfterFieldEStops(i.panel)'
               PROVE  EStop'[i.station] = TRUE
    BY DEF Stops
  <2>2. Overdue(i) /\ (Polled(i.panel) \/ i.panel = p)
    BY <1>5, <1>8, InputTypes
  <2>0. MatchState = "InMatch" \/ AfterFieldEStops(i.panel)
    BY <1>2, <1>4 DEF AfterFieldEStops
  <2>1. MatchState = "InMatch" \/ p \notin fieldEStop
    <3>1. CASE MatchState = "InMatch"
      BY <3>1
    <3>2. CASE AfterFieldEStops(i.panel)
      <4>1. i.panel \in Nat /\ i.panel <= NumPanels /\ p \in Nat
        BY InputTypes, PanelsAssumption DEF Panels
      <4>2. i.panel <= p
        BY <1>3, <4>1 DEF Polled
      <4> QED
        BY <3>2, <4>1, <4>2 DEF AfterFieldEStops
    <3> QED
      BY <2>0, <3>1, <3>2
  <2>3. i.station \in Stations /\ PanelOf[i.station] = i.panel
    BY InputTypes
  <2>4. EStopAfter(p, i.station) = TRUE
    <3>1. CASE i.panel = p
      <4>1. /\ EStopReports(p, i.station) # {}
            /\ \A r \in EStopReports(p, i.station) : r.state # "OK"
        BY <1>1, <2>2, <3>1, OwnReport
      <4> QED
        BY <2>1, <2>3, <4>1, StopStands
    <3>2. CASE i.panel # p
      <4>1. EStop[i.station] = TRUE
        BY <1>1, <2>0, <2>2, <3>2 DEF Stops
      <4>2. EStopReports(p, i.station) = {}
        BY <2>3, <3>2, NoReport
      <4> QED
        BY <2>1, <2>3, <4>1, <4>2, StopStands
    <3> QED
      BY <3>1, <3>2
  <2> QED
    BY <1>2, <2>3, <2>4
<1>10. FieldStops'
  <2> SUFFICES ASSUME MatchState' = "InMatch", NEW i \in Inputs, Polled(i.panel)', Overdue(i)',
                      i.station = All, i.panel \in fieldEStop,
                      NEW s \in Stations, PanelOf[s] = i.panel
               PROVE  /\ EStop'[s] = TRUE
                      /\ fieldEStop = {i.panel} => EStopFault'[s] \in {"unreachable", "stale"}
    BY <1>2 DEF FieldStops
  <2>1. MatchState = "InMatch"
    BY <1>4
  <2>2. Overdue(i) /\ (Polled(i.panel) \/ i.panel = p)
    BY <1>5, <1>8, InputTypes
  <2>3. CASE i.panel = p
    <3>1. PollFault(p) # "none"
      <4>1. \A r \in EStopReports(p, All) : r.state \notin {"Active", "Fault"}
        BY <1>4
      <4> QED
        BY <1>1, <2>2, <2>3, <4>1, FieldReport
    <3>2. /\ PollFault(p) \in {"unreachable", "stale"}
          /\ EStopReports(p, All) = {}
          /\ EStopReports(p, s) = {[state |-> "Fault", fault |-> PollFault(p)]}
      BY <2>3, <3>1, FaultReports
    <3>3. EStopReports(p, s) # {} /\ \A r \in EStopReports(p, s) : r.state # "OK"
      BY <3>2
    <3>4. EStopAfter(p, s) = TRUE
      BY <2>1, <3>3, StopStands
    <3>5. EStopFaultAfter(p, s) = PollFault(p)
      <4>1. {r.fault : r \in EStopReports(p, s)} = {PollFault(p)}
        BY <3>2
      <4>2. EStopFaultAfter(p, s) = CHOOSE f \in {r.fault : r \in EStopReports(p, s)} : TRUE
        BY <3>2, <3>3 DEF EStopFaultAfter
      <4> QED
        BY <4>1, <4>2
    <3> QED
      BY <1>2, <3>2, <3>4, <3>5
  <2>4. CASE i.panel # p
    <3>1. /\ EStop[s] = TRUE
          /\ fieldEStop = {i.panel} => EStopFault[s] \in {"unreachable", "stale"}
      BY <1>1, <2>1, <2>2, <2>4 DEF FieldStops
    <3>2. EStopReports(p, s) = {}
      BY <2>4, NoReport
    <3>3. EStopAfter(p, s) = TRUE
      BY <2>1, <3>1, <3>2, StopStands
    <3>4. fieldEStop = {i.panel} => EStopFaultAfter(p, s) = EStopFault[s]
      <4>1. fieldEStop = {i.panel} => EStopReports(p, All) = {}
        BY <2>4, NoReport
      <4> QED
        BY <3>2, <4>1 DEF EStopFaultAfter
    <3> QED
      BY <1>2, <3>1, <3>3, <3>4
  <2> QED
    BY <2>3, <2>4
<1>11. passed' => polling' = 0
  BY <1>3
<1> QED
  BY <1>6, <1>7, <1>9, <1>10, <1>11 DEF IInv

-----------------------------------------------------------------------------
(* The theorems                                                              *)

\* The invariant holds of every state.
LEMMA Invariant == Spec => []IInv
<1>1. IInv /\ [Next]_vars => IInv'
  <2> SUFFICES ASSUME IInv, [Next]_vars PROVE IInv'
    OBVIOUS
  <2>1. CASE UNCHANGED vars
    BY <2>1 DEF vars, buttonVars, panelVars, stopVars, IInv, TypeOK, Resting, Sampled, Stops,
                FieldStops, Polled, AfterFieldEStops, Overdue
  <2>2. CASE Field
    BY <2>2, ChangeLinesKeeps, LinkKeeps, SamplingKeeps, MatchKeeps, TickKeeps DEF Field
  <2>3. CASE \E p \in Panels : Sample(p) \/ SwapSampler(p) \/ PollPanel(p)
    BY <2>3, SamplingKeeps, PollKeeps
  <2>4. CASE EndMatch \/ ClearMatch
    BY <2>4, MatchKeeps
  <2> QED
    BY <2>1, <2>2, <2>3, <2>4 DEF Next
<1> QED
  BY <1>1, InitIInv, PTL DEF Spec

\* Every variable has its type; no clock leaves its bounds.
THEOREM PanelsAreTyped == Spec => []TypeOK
<1>1. IInv => TypeOK
  BY DEF IInv
<1> QED
  BY <1>1, Invariant, PTL

\* Every e-stop held longer than a sample may be old has stopped its station by the end of a
\* pass (handlePanelInput, NetworkEStopPanel.Poll).
THEOREM HeldButtonsStop == Spec => []HeldButtonStops
<1>1. IInv => HeldButtonStops
  BY DEF IInv, Stops, Polled, AfterFieldEStops, HeldButtonStops
<1> QED
  BY <1>1, Invariant, PTL

\* Every field e-stop held so has ended the match or stopped its panel's stations
\* (Arena.Update, faulted).
THEOREM HeldFieldEStopsEnd == Spec => []HeldFieldEStopEndsMatch
<1>1. IInv => HeldFieldEStopEndsMatch
  BY DEF IInv, FieldStops, Polled, HeldFieldEStopEndsMatch
<1> QED
  BY <1>1, Invariant, PTL

\* A start is refused while a station's e-stop is held or its wiring broken, unless a field
\* e-stop that is honoured is polled with the station's panel or after it: so far does the
\* sentence hold that FaultRefusesStart quotes (checkAllianceStationsReady, handlePanelInput).
THEOREM HeldButtonRefusesStart ==
  Spec => [](\A i \in Inputs :
               /\ passed /\ Overdue(i) /\ i.station # All
               /\ \A p \in fieldEStop : p < i.panel
               => ~CanStart)
<1> DEFINE Refused(i) ==
      /\ passed /\ Overdue(i) /\ i.station # All
      /\ \A p \in fieldEStop : p < i.panel
      => ~CanStart
<1>1. IInv => \A i \in Inputs : Refused(i)
  <2> SUFFICES ASSUME IInv, NEW i \in Inputs, passed, Overdue(i), i.station # All,
                      \A p \in fieldEStop : p < i.panel
               PROVE  ~CanStart
    OBVIOUS
  <2>1. EStop[i.station] = TRUE
    BY DEF IInv, Stops, Polled, AfterFieldEStops
  <2> QED
    BY <2>1, InputTypes DEF CanStart
<1> QED
  BY <1>1, Invariant, PTL

-----------------------------------------------------------------------------
(* What lets go of a stop                                                    *)

\* A panel that answers shows the station's own button, or a field e-stop, released.
SeenReleased(s) ==
  \E p \in Panels : /\ PollFault(p) = "none"
                    /\ \E i \in InputsOf(p) : i.station \in {s, All} /\ sample[i] = "OK"

\* A report that is not of a stop comes from a panel that answers, and from an input of that
\* station that reads released.
LEMMA ReleaseIsSeen ==
  ASSUME NEW p \in Panels, NEW t, NEW r \in EStopReports(p, t), r.state = "OK"
  PROVE  PollFault(p) = "none" /\ \E i \in InputsOf(p) : i.station = t /\ sample[i] = "OK"
<1>1. PollFault(p) = "none"
  BY DEF EStopReports
<1>2. PICK i \in InputsOf(p) :
        i.station = t /\ r = [state |-> sample[i],
                              fault |-> IF sample[i] = "Fault" THEN "wiring" ELSE "none"]
  BY <1>1 DEF EStopReports
<1> QED
  BY <1>1, <1>2

\* Silence never lets go of a stop: but for a Reset Field, a station's e-stop is released only
\* outside a match and only by a poll of a panel that answers with a fresh sample in which the
\* station's own button, or a field e-stop, reads released (handleTeamEStop, Poll).
THEOREM SilenceReleasesNothing ==
  Spec => [][\A s \in Stations : EStop[s] /\ ~EStop'[s] /\ ~ResetField =>
               MatchState # "InMatch" /\ SeenReleased(s)]_vars
<1>1. ASSUME NEW s \in Stations, NEW p \in Panels, PollPanel(p), EStop[s], ~EStop'[s]
      PROVE  MatchState # "InMatch" /\ SeenReleased(s)
  <2>1. ~EStopAfter(p, s)
    BY <1>1 DEF PollPanel, PollAndEnd
  <2>2. PICK t \in {s, All} : \E r \in EStopReports(p, t) : r.state = "OK" /\ MatchTimeIsZero
    <3>1. CASE EStopReports(p, All) = {}
      BY <1>1, <2>1, <3>1 DEF EStopAfter, TeamEStop
    <3>2. CASE EStopReports(p, All) # {}
      <4> DEFINE own == EStopReports(p, s)
                 after == IF own = {} THEN EStop[s] ELSE \A r \in own : TeamEStop(EStop[s], r)
      <4>1. PICK r \in EStopReports(p, All) : ~TeamEStop(after, r)
        BY <2>1, <3>2 DEF EStopAfter
      <4>2. r.state = "OK" /\ (~after \/ MatchTimeIsZero)
        BY <4>1 DEF TeamEStop
      <4>3. ~after => \E q \in own : q.state = "OK" /\ MatchTimeIsZero
        BY <1>1 DEF TeamEStop
      <4> QED
        BY <4>2, <4>3
    <3> QED
      BY <3>1, <3>2
  <2>3. PollFault(p) = "none" /\ \E i \in InputsOf(p) : i.station = t /\ sample[i] = "OK"
    BY <2>2, ReleaseIsSeen
  <2> QED
    BY <2>2, <2>3 DEF MatchTimeIsZero, SeenReleased
<1>2. ASSUME NEW s \in Stations, [Next]_vars, EStop[s], ~EStop'[s], ~ResetField
      PROVE  MatchState # "InMatch" /\ SeenReleased(s)
  <2>1. UNCHANGED EStop \/ \E p \in Panels : PollPanel(p)
    BY <1>2 DEF Next, Field, ChangeLines, PostConfig, ChangeLink, StartPanel, StartMatch, Tick,
       Sample, SwapSampler, EndMatch, ClearMatch, stopVars, vars
  <2> QED
    BY <1>1, <1>2, <2>1
<1>3. [Next]_vars => [\A s \in Stations : EStop[s] /\ ~EStop'[s] /\ ~ResetField =>
                        MatchState # "InMatch" /\ SeenReleased(s)]_vars
  BY <1>2
<1> QED
  BY <1>3, PTL DEF Spec
=============================================================================
