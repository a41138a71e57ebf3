----------------------------- MODULE TeamEthernet -----------------------------
(***************************************************************************)
(* The wired team network: configureTeamEthernet and                       *)
(* cycleStationPortsForRenewal of field/arena.go, the driver of            *)
(* network/switch.go, and the Catalyst it configures over Telnet.          *)
(*                                                                         *)
(* Every lineup loaded starts a goroutine that configures the switch, and  *)
(* every cleared match one that shuts and reopens the ports of the         *)
(* stations with a team.  The first kind queue on ethernetApplyMutex and   *)
(* drop out when superseded; both lock the mutex of the Switch object they *)
(* found in arena.teamNetwork.  A settings save puts a new object there,   *)
(* with a mutex of its own and no knowledge of the switch, and leaves the  *)
(* goroutines of the old one running.                                      *)
(*                                                                         *)
(* A Telnet session is one step.  It may fail at any point: then the       *)
(* switch has carried out some prefix of the commands, maybe all of them.  *)
(* A session that times out counts as a success in the code and is one     *)
(* here: a switch that accepts commands and ignores them is not modelled,  *)
(* nor one that is power-cycled or configured by hand.                     *)
(*                                                                         *)
(* A definition that Next does not reach is a faulty variant of the one    *)
(* that follows it, kept to show which property catches that fault.        *)
(***************************************************************************)
EXTENDS Naturals, Sequences

CONSTANTS
  Teams, NoTeam,
  NumStations,       \* six on the field
  MaxRequests, MaxClears, MaxSwitches   \* bounds on the environment

ASSUME TeamsAssumption == NoTeam \notin Teams
ASSUME StationsAssumption == NumStations \in Nat \ {0}
ASSUME SwitchesAssumption == MaxSwitches \in Nat \ {0}

Stations == 1 .. NumStations

\* A team stands in at most one station (SubstituteTeams refuses anything else).
Lineups == {l \in [Stations -> Teams \cup {NoTeam}] :
              \A s, t \in Stations : s # t /\ l[s] # NoTeam => l[s] # l[t]}

Empty == [s \in Stations |-> NoTeam]

Configuring == {"baseline", "save", "remove", "add", "settle"}

VARIABLES
  lineup,                  \* the team of each alliance station
  networkSecurityEnabled,  \* EventSettings.NetworkSecurityEnabled
  started,                 \* has the goroutine of Run configured the network?
  requests,                \* the goroutines of configureTeamEthernet, by generation
  cycles,                  \* the goroutines of cycleStationPortsForRenewal
  switches,                \* the Switch objects; arena.teamNetwork is the last
  pool,                    \* the switch: the team whose subnet a station's VLAN has
  portUp,                  \* the switch: the driver station ports not shut down
  taken                    \* ghost: the last request a Switch object was called for

arenaVars == <<lineup, networkSecurityEnabled, started>>
equipmentVars == <<pool, portUp>>
vars == <<arenaVars, requests, cycles, switches, equipmentVars, taken>>

ethernetConfigGeneration == Len(requests)
teamNetwork == Len(switches)

\* Switch.mutex of object i is held.
Locked(i) == \/ \E g \in 1 .. Len(requests) :
                  requests[g].sw = i /\ requests[g].pc \in Configuring
             \/ \E c \in 1 .. Len(cycles) : cycles[c].sw = i /\ cycles[c].pc = "reopen"

\* ethernetApplyMutex is held.
Applying == \E g \in 1 .. Len(requests) : requests[g].pc \in Configuring \cup {"waiting"}

NewSwitch(addressed) ==
  [addressed |-> addressed, synced |-> FALSE, applied |-> Empty, Status |-> "UNKNOWN"]

-----------------------------------------------------------------------------
(* The arena                                                                 *)

ConfigureTeamEthernet(teams) ==
  requests' = IF networkSecurityEnabled
              THEN Append(requests, [teams |-> teams, pc |-> "queued", sw |-> 0, rebuild |-> {}])
              ELSE requests

\* LoadMatch, SubstituteTeams and ResetField, as far as the network goes.
LoadLineup(teams) ==
  /\ Len(requests) < MaxRequests
  /\ lineup' = teams
  /\ ConfigureTeamEthernet(teams)
  /\ UNCHANGED <<networkSecurityEnabled, started, cycles, switches, equipmentVars, taken>>

CycleStationPortsForRenewal(occupied) ==
  cycles' = IF networkSecurityEnabled /\ occupied # {}
            THEN Append(cycles, [stations |-> occupied, pc |-> "queued", sw |-> teamNetwork])
            ELSE cycles

\* The end of a match: ports first, then the same lineup is loaded again.
ClearMatch ==
  /\ Len(requests) < MaxRequests /\ Len(cycles) < MaxClears
  /\ CycleStationPortsForRenewal({s \in Stations : lineup[s] # NoTeam})
  /\ ConfigureTeamEthernet(lineup)
  /\ UNCHANGED <<arenaVars, switches, equipmentVars, taken>>

\* A settings save: a new Switch object, whatever the old one is doing.
LoadSettings ==
  /\ Len(switches) < MaxSwitches
  /\ networkSecurityEnabled' \in BOOLEAN
  /\ \E addressed \in BOOLEAN : switches' = Append(switches, NewSwitch(addressed))
  /\ UNCHANGED <<lineup, started, requests, cycles, equipmentVars, taken>>

\* "go arena.setupNetwork(arena.currentTeams(), false)" in Run: the lineup is read at the go
\* statement, when it is still empty, and handed on when the goroutine is scheduled.
RunConfigures ==
  /\ ~started /\ Len(requests) < MaxRequests
  /\ started' = TRUE
  /\ ConfigureTeamEthernet(Empty)
  /\ UNCHANGED <<lineup, networkSecurityEnabled, cycles, switches, equipmentVars, taken>>

-----------------------------------------------------------------------------
(* The goroutine of one request                                              *)

TakeInTurn(g) ==
  /\ requests[g].pc = "queued" /\ ~Applying
  /\ requests' = [requests EXCEPT ![g].pc = "waiting", ![g].sw = teamNetwork]
  /\ UNCHANGED <<arenaVars, cycles, switches, equipmentVars, taken>>

\* ethernetApplyMutex, then the check, then the object arena.teamNetwork holds.
Take(g) ==
  /\ requests[g].pc = "queued" /\ ~Applying
  /\ requests' = IF g # ethernetConfigGeneration
                 THEN [requests EXCEPT ![g].pc = "done"]
                 ELSE [requests EXCEPT ![g].pc = "waiting", ![g].sw = teamNetwork]
  /\ UNCHANGED <<arenaVars, cycles, switches, equipmentVars, taken>>

\* ConfigureTeamEthernet returns, leaving the object as given.
Return(g, sw) ==
  /\ requests' = [requests EXCEPT ![g].pc = "done", ![g].sw = 0, ![g].rebuild = {}]
  /\ switches' = [switches EXCEPT ![requests[g].sw] = sw]

Proceed(g, pc) ==
  /\ requests' = [requests EXCEPT ![g].pc = pc]
  /\ UNCHANGED switches

FailQuietly(g) == Return(g, [switches[requests[g].sw] EXCEPT !.Status = "ERROR"])

Fail(g) == Return(g, [switches[requests[g].sw] EXCEPT !.synced = FALSE, !.Status = "ERROR"])

RebuildOccupied(sw, teams) ==
  IF sw.synced THEN {s \in Stations : teams[s] \notin {NoTeam, sw.applied[s]}} ELSE Stations

\* The stations whose VLAN is to be rebuilt: all, unless the switch's state is known.
Rebuild(sw, teams) ==
  IF sw.synced THEN {s \in Stations : teams[s] # sw.applied[s]} ELSE Stations

\* Switch.mutex, and what the object knows decides how much there is to do.
Begin(g) ==
  LET sw == switches[requests[g].sw]
      teams == requests[g].teams IN
  /\ requests[g].pc = "waiting" /\ ~Locked(requests[g].sw)
  /\ taken' = g
  /\ \/ /\ ~sw.addressed
        /\ Return(g, [sw EXCEPT !.Status = "DISABLED"])
     \/ /\ sw.addressed /\ sw.synced /\ teams = sw.applied
        /\ Return(g, [sw EXCEPT !.Status = "ACTIVE"])
     \/ /\ sw.addressed /\ (sw.synced => teams # sw.applied)
        /\ requests' = [requests EXCEPT ![g].pc = IF sw.synced THEN "remove" ELSE "baseline",
                                        ![g].rebuild = Rebuild(sw, teams)]
        /\ switches' = [switches EXCEPT ![requests[g].sw].Status = "CONFIGURING"]
  /\ UNCHANGED <<arenaVars, cycles, equipmentVars>>

\* A Telnet session that carried out the commands of the first n stations.
Session(g, n, next) == (n = NumStations /\ Proceed(g, next)) \/ Fail(g)

\* The standing configuration, of which the ports' "no shutdown" matters here.
Baseline(g) ==
  /\ requests[g].pc = "baseline"
  /\ \E n \in 0 .. NumStations :
       /\ portUp' = portUp \cup 1 .. n
       /\ Session(g, n, "save")
  /\ UNCHANGED <<arenaVars, cycles, pool, taken>>

\* "write memory".  What the startup configuration then holds is left out.
Save(g) ==
  /\ requests[g].pc = "save"
  /\ Session(g, NumStations, "remove") \/ Fail(g)
  /\ UNCHANGED <<arenaVars, cycles, equipmentVars, taken>>

Remove(g) ==
  /\ requests[g].pc = "remove"
  /\ \E n \in 0 .. NumStations :
       /\ pool' = [s \in Stations |->
                     IF s \in requests[g].rebuild \cap 1 .. n THEN NoTeam ELSE pool[s]]
       /\ Session(g, n, "add")
  /\ UNCHANGED <<arenaVars, cycles, portUp, taken>>

\* An empty station gets no subnet; with none to add there is no session that could fail.
Add(g) ==
  LET filled == {s \in requests[g].rebuild : requests[g].teams[s] # NoTeam} IN
  /\ requests[g].pc = "add"
  /\ \/ filled = {} /\ Proceed(g, "settle") /\ UNCHANGED pool
     \/ /\ filled # {}
        /\ \E n \in 0 .. NumStations :
             /\ pool' = [s \in Stations |->
                           IF s \in filled \cap 1 .. n THEN requests[g].teams[s] ELSE pool[s]]
             /\ Session(g, n, "settle")
  /\ UNCHANGED <<arenaVars, cycles, portUp, taken>>

\* After the backoff: what the switch now carries is known.
Settle(g) ==
  /\ requests[g].pc = "settle"
  /\ Return(g, [switches[requests[g].sw] EXCEPT
                  !.applied = requests[g].teams, !.synced = TRUE, !.Status = "ACTIVE"])
  /\ UNCHANGED <<arenaVars, cycles, equipmentVars, taken>>

-----------------------------------------------------------------------------
(* The goroutine of one port cycle                                           *)

CyclePc(c, pc) == cycles' = [cycles EXCEPT ![c].pc = pc]

\* Switch.mutex and the first session.  An error here leaves without reopening anything.
Shut(c) ==
  /\ cycles[c].pc = "queued" /\ ~Locked(cycles[c].sw)
  /\ \/ ~switches[cycles[c].sw].addressed /\ CyclePc(c, "failed") /\ UNCHANGED portUp
     \/ /\ switches[cycles[c].sw].addressed
        /\ \E n \in 0 .. NumStations :
             /\ portUp' = portUp \ (cycles[c].stations \cap 1 .. n)
             /\ (n = NumStations /\ CyclePc(c, "reopen")) \/ CyclePc(c, "failed")
  /\ UNCHANGED <<arenaVars, requests, switches, pool, taken>>

ReopenUnterminated(c) ==
  /\ cycles[c].pc = "reopen"
  /\ CyclePc(c, "done") \/ CyclePc(c, "failed")
  /\ UNCHANGED <<arenaVars, requests, switches, equipmentVars, taken>>

Reopen(c) ==
  /\ cycles[c].pc = "reopen"
  /\ \E n \in 0 .. NumStations :
       /\ portUp' = portUp \cup (cycles[c].stations \cap 1 .. n)
       /\ (n = NumStations /\ CyclePc(c, "done")) \/ CyclePc(c, "failed")
  /\ UNCHANGED <<arenaVars, requests, switches, pool, taken>>

-----------------------------------------------------------------------------

\* The controller has just made its arena, which loaded an empty test match; the switch
\* outlived the last process and may carry any lineup.
Init ==
  /\ lineup = Empty
  /\ networkSecurityEnabled \in BOOLEAN
  /\ started = FALSE
  /\ requests = IF networkSecurityEnabled
                THEN <<[teams |-> Empty, pc |-> "queued", sw |-> 0, rebuild |-> {}]>>
                ELSE <<>>
  /\ cycles = <<>>
  /\ \E addressed \in BOOLEAN : switches = <<NewSwitch(addressed)>>
  /\ pool \in Lineups
  /\ portUp \in SUBSET Stations
  /\ taken = 0

Configure(g) == \/ Take(g) \/ Begin(g) \/ Baseline(g) \/ Save(g)
                \/ Remove(g) \/ Add(g) \/ Settle(g)

Cycle(c) == Shut(c) \/ Reopen(c)

Goroutines == \/ \E g \in 1 .. Len(requests) : Configure(g)
              \/ \E c \in 1 .. Len(cycles) : Cycle(c)

Next == \/ \E teams \in Lineups : LoadLineup(teams)
        \/ ClearMatch
        \/ LoadSettings
        \/ RunConfigures
        \/ Goroutines

Spec == Init /\ [][Next]_vars

\* Goroutines that can run do: every session ends by its deadline.
FairSpec == Spec /\ WF_vars(Goroutines)

-----------------------------------------------------------------------------
(* Properties                                                                *)

RequestType == [teams : Lineups, pc : Configuring \cup {"queued", "waiting", "done"},
                sw : 0 .. MaxSwitches, rebuild : SUBSET Stations]
CycleType == [stations : (SUBSET Stations) \ {{}}, pc : {"queued", "reopen", "done", "failed"},
              sw : 1 .. MaxSwitches]
SwitchType == [addressed : BOOLEAN, synced : BOOLEAN, applied : Lineups,
               Status : {"UNKNOWN", "DISABLED", "CONFIGURING", "ACTIVE", "ERROR"}]

\* The types of the variables; a port cycle has at least one port.
TypeOK ==
  /\ lineup \in Lineups
  /\ networkSecurityEnabled \in BOOLEAN /\ started \in BOOLEAN
  /\ requests \in Seq(RequestType) /\ cycles \in Seq(CycleType) /\ switches \in Seq(SwitchType)
  /\ teamNetwork \in 1 .. MaxSwitches
  /\ pool \in [Stations -> Teams \cup {NoTeam}]
  /\ portUp \in SUBSET Stations
  /\ taken \in 0 .. Len(requests)

\* A station is only rebuilt when its team differs from the one believed to be on the switch.
\* So when the badge reads ACTIVE the switch must carry exactly the lineup of the last
\* request taken up, through failures part way, settings saves and port cycles
\* (Switch.ConfigureTeamEthernet).
ActiveMeansCarried ==
  switches[teamNetwork].Status = "ACTIVE" =>
    /\ pool = switches[teamNetwork].applied
    /\ pool = requests[taken].teams

\* No team's subnet is ever on two VLANs, not even while teams change places: the switch
\* would refuse the second, and the team's robot and driver station would be apart.
OneSubnetPerTeam == pool \in Lineups

\* A driver station port is down only while a cycle is about to reopen it, or after one that
\* failed and said so (Switch.CycleStationPorts); ports that were down when the controller
\* started are up once the switch has been configured in full.
PortsComeBack ==
  LET Cycled == {c \in 1 .. Len(cycles) : cycles[c].pc \in {"reopen", "failed"}} IN
  (\E i \in 1 .. Len(switches) : switches[i].synced) =>
    \A s \in Stations \ portUp : \E c \in Cycled : s \in cycles[c].stations

LW == INSTANCE LatestWins WITH newest <- ethernetConfigGeneration

\* Superseded configurations drop out, none overtakes a newer one, and the newest always
\* reaches the switch (Arena.configureTeamEthernet).
ImplementsLatestWins == LW!Spec

=============================================================================
