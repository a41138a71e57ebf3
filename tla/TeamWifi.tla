------------------------------- MODULE TeamWifi -------------------------------
(***************************************************************************)
(* The team WiFi: setupNetwork of field/arena.go, network/access_point.go  *)
(* and the access point it configures over HTTP.                           *)
(*                                                                         *)
(* Every lineup loaded starts a goroutine that calls ConfigureTeamWifi,    *)
(* and the monitor, the loop of AccessPoint.Run, calls it again with       *)
(* lastConfiguredTeams when the access point is active with other SSIDs.   *)
(* Nothing orders these calls and no lock guards what they share.          *)
(* lastConfiguredTeams is an array: it is written, and copied for the      *)
(* monitor's call, one station at a time, so a copy made during a write    *)
(* can be a mixture.                                                       *)
(*                                                                         *)
(* The access point accepts a configuration at once and applies it later.  *)
(* It may be unreachable, answer too late to a request it has accepted,    *)
(* or lose its configuration: a bounded number of faults in all.           *)
(*                                                                         *)
(* A definition that Next does not reach is a faulty variant of the one    *)
(* that follows it, kept to show which property catches that fault.        *)
(***************************************************************************)
EXTENDS Naturals

CONSTANTS
  Teams, NoTeam,
  NumStations,                    \* six on the field
  MaxLoads, MaxFaults, MaxSaves   \* bounds on the environment

ASSUME TeamsAssumption == NoTeam \notin Teams
ASSUME StationsAssumption == NumStations \in Nat \ {0}
\* The arena loads a lineup as it is made.
ASSUME BoundsAssumption == MaxLoads \in Nat \ {0} /\ MaxFaults \in Nat /\ MaxSaves \in Nat

Stations == 1 .. NumStations
Lineups == [Stations -> Teams \cup {NoTeam}]
Empty == [s \in Stations |-> NoTeam]

\* The calls of ConfigureTeamWifi: one for each load, and the monitor's own.
Monitor == 0
Callers == 0 .. MaxLoads

VARIABLES
  lineup,                  \* the team of each alliance station
  networkSecurityEnabled,
  loads, saves, faults,    \* counted against their bounds
  Status,                  \* AccessPoint.Status
  lastConfiguredTeams,
  TeamWifiStatuses,        \* the team of each station's last status
  calls,                   \* calls[c]: the argument and how far the call has come
  monitor,                 \* where the monitor is
  response,                \* the answer to its last status request
  ssids, apStatus,         \* the access point: what it runs, and its own status
  accepted                 \* the access point: the configuration it is to run

arenaVars == <<lineup, networkSecurityEnabled, loads, saves>>
driverVars == <<Status, lastConfiguredTeams, TeamWifiStatuses>>
accessPointVars == <<ssids, apStatus, accepted>>
vars == <<arenaVars, faults, driverVars, calls, monitor, response, accessPointVars>>

NoCall == [teams |-> Empty, pc |-> "idle", next |-> 0]
Call(teams) == [teams |-> teams, pc |-> "called", next |-> 0]

-----------------------------------------------------------------------------
(* The arena                                                                 *)

\* setupNetwork for a new lineup, whichever command loads it; a match that is cleared loads
\* the lineup it had.
LoadLineup(teams) ==
  /\ loads < MaxLoads
  /\ loads' = loads + 1
  /\ lineup' = teams
  /\ calls' = IF networkSecurityEnabled
              THEN [calls EXCEPT ![loads + 1] = Call(teams)]
              ELSE calls
  /\ UNCHANGED <<networkSecurityEnabled, saves, faults, driverVars, monitor, response,
                 accessPointVars>>

\* A settings save, as far as SetSettings goes.
SetSettings ==
  /\ saves < MaxSaves
  /\ saves' = saves + 1
  /\ networkSecurityEnabled' \in BOOLEAN
  /\ Status' = "UNKNOWN"
  /\ UNCHANGED <<lineup, loads, faults, lastConfiguredTeams, TeamWifiStatuses, calls, monitor,
                 response, accessPointVars>>

-----------------------------------------------------------------------------
(* ConfigureTeamWifi                                                         *)

Enter(c) ==
  /\ calls[c].pc = "called"
  /\ \/ /\ ~networkSecurityEnabled
        /\ calls' = [calls EXCEPT ![c] = NoCall]
        /\ UNCHANGED Status
     \/ /\ networkSecurityEnabled
        /\ calls' = [calls EXCEPT ![c].pc = "remember", ![c].next = 1]
        /\ Status' = "CONFIGURING"
  /\ UNCHANGED <<arenaVars, faults, lastConfiguredTeams, TeamWifiStatuses, monitor, response,
                 accessPointVars>>

\* lastConfiguredTeams = teams, one station of it.
Remember(c) ==
  LET s == calls[c].next IN
  /\ calls[c].pc = "remember"
  /\ lastConfiguredTeams' = [lastConfiguredTeams EXCEPT ![s] = calls[c].teams[s]]
  /\ calls' = IF s = NumStations THEN [calls EXCEPT ![c].pc = "post", ![c].next = 0]
                                 ELSE [calls EXCEPT ![c].next = s + 1]
  /\ UNCHANGED <<arenaVars, faults, Status, TeamWifiStatuses, monitor, response, accessPointVars>>

Accept(teams) ==
  /\ accepted' = teams /\ apStatus' = "CONFIGURING"
  /\ UNCHANGED ssids

\* The request: accepted, accepted with the answer lost, or not accepted.  The call returns
\* in each case; an error is only logged.
Post(c) ==
  /\ calls[c].pc = "post"
  /\ calls' = [calls EXCEPT ![c] = NoCall]
  /\ \/ Accept(calls[c].teams) /\ UNCHANGED faults
     \/ faults < MaxFaults /\ faults' = faults + 1 /\ UNCHANGED accessPointVars
  /\ UNCHANGED <<arenaVars, driverVars, monitor, response>>

ConfigureTeamWifi(c) == Enter(c) \/ Remember(c) \/ Post(c)

-----------------------------------------------------------------------------
(* The monitor: AccessPoint.Run                                              *)

\* The status request of updateMonitoring.  Without network security the monitor goes
\* straight to its comparison.
Fetch ==
  /\ monitor = "sleep"
  /\ \/ /\ ~networkSecurityEnabled
        /\ monitor' = "compare"
        /\ UNCHANGED <<faults, Status, response>>
     \/ /\ networkSecurityEnabled
        /\ response' = [status |-> apStatus, teams |-> ssids]
        /\ monitor' = "store"
        /\ UNCHANGED <<faults, Status>>
     \/ /\ networkSecurityEnabled /\ faults < MaxFaults
        /\ faults' = faults + 1
        /\ Status' = "ERROR"
        /\ UNCHANGED <<monitor, response>>
  /\ UNCHANGED <<arenaVars, lastConfiguredTeams, TeamWifiStatuses, calls, accessPointVars>>

Store ==
  /\ monitor = "store"
  /\ Status' = response.status
  /\ TeamWifiStatuses' = response.teams
  /\ response' = [status |-> "UNKNOWN", teams |-> Empty]
  /\ monitor' = "compare"
  /\ UNCHANGED <<arenaVars, faults, lastConfiguredTeams, calls, accessPointVars>>

StatusMatchesFirstStation == lastConfiguredTeams[1] = TeamWifiStatuses[1]

StatusMatchesLastConfiguration ==
  \A s \in Stations : lastConfiguredTeams[s] = TeamWifiStatuses[s]

\* An active access point with other SSIDs is configured again: the monitor's argument is
\* copied one station at a time.
Compare ==
  /\ monitor = "compare"
  /\ IF Status = "ACTIVE" /\ ~StatusMatchesLastConfiguration
     THEN monitor' = "copy" /\ calls' = [calls EXCEPT ![Monitor].next = 1]
     ELSE monitor' = "sleep" /\ UNCHANGED calls
  /\ UNCHANGED <<arenaVars, faults, driverVars, response, accessPointVars>>

CopyStation(s) ==
  IF s = NumStations THEN [calls[Monitor] EXCEPT !.teams[s] = lastConfiguredTeams[s],
                                                 !.pc = "called", !.next = 0]
                     ELSE [calls[Monitor] EXCEPT !.teams[s] = lastConfiguredTeams[s],
                                                 !.next = s + 1]

CopyWithoutWaiting ==
  /\ monitor = "copy"
  /\ calls' = [calls EXCEPT ![Monitor] = CopyStation(calls[Monitor].next)]
  /\ monitor' = IF calls'[Monitor].pc = "called" THEN "sleep" ELSE "copy"
  /\ UNCHANGED <<arenaVars, faults, driverVars, response, accessPointVars>>

Copy ==
  /\ monitor = "copy"
  /\ calls' = [calls EXCEPT ![Monitor] = CopyStation(calls[Monitor].next)]
  /\ monitor' = IF calls'[Monitor].pc = "called" THEN "retry" ELSE "copy"
  /\ UNCHANGED <<arenaVars, faults, driverVars, response, accessPointVars>>

\* The monitor's call has returned.
Return ==
  /\ monitor = "retry" /\ calls[Monitor].pc = "idle"
  /\ monitor' = "sleep"
  /\ UNCHANGED <<arenaVars, faults, driverVars, calls, response, accessPointVars>>

Run == Fetch \/ Store \/ Compare \/ Copy \/ Return

-----------------------------------------------------------------------------
(* The access point                                                          *)

Apply ==
  /\ apStatus = "CONFIGURING"
  /\ ssids' = accepted /\ apStatus' = "ACTIVE"
  /\ UNCHANGED <<arenaVars, faults, driverVars, calls, monitor, response, accepted>>

LoseConfiguration ==
  /\ faults < MaxFaults
  /\ faults' = faults + 1
  /\ ssids' = Empty /\ accepted' = Empty /\ apStatus' = "ACTIVE"
  /\ UNCHANGED <<arenaVars, driverVars, calls, monitor, response>>

-----------------------------------------------------------------------------

\* The controller has made its arena, which loaded an empty test match; the access point has
\* the configuration of an earlier run.
Init ==
  /\ lineup = Empty
  /\ networkSecurityEnabled \in BOOLEAN
  /\ loads = 1 /\ saves = 0 /\ faults = 0
  /\ Status = "UNKNOWN"
  /\ lastConfiguredTeams = Empty /\ TeamWifiStatuses = Empty
  /\ calls = [c \in Callers |->
                IF c = 1 /\ networkSecurityEnabled THEN Call(Empty) ELSE NoCall]
  /\ monitor = "sleep"
  /\ response = [status |-> "UNKNOWN", teams |-> Empty]
  /\ ssids \in Lineups /\ accepted = ssids /\ apStatus = "ACTIVE"

System == (\E c \in Callers : ConfigureTeamWifi(c)) \/ Run \/ Apply

Next == \/ \E teams \in Lineups : LoadLineup(teams)
        \/ SetSettings
        \/ LoseConfiguration
        \/ System

Spec == Init /\ [][Next]_vars

\* Every call returns (three seconds at most), the monitor loops for ever, and the access
\* point gets round to applying what it accepted.
FairSpec ==
  /\ Spec
  /\ \A c \in Callers : WF_vars(ConfigureTeamWifi(c))
  /\ WF_vars(Run)
  /\ WF_vars(Apply)

-----------------------------------------------------------------------------
(* Properties                                                                *)

CallType == [teams : Lineups, pc : {"idle", "called", "remember", "post"}, next : 0 .. NumStations]

\* The types of the variables; the monitor does nothing else while its own call lasts.
TypeOK ==
  /\ lineup \in Lineups /\ networkSecurityEnabled \in BOOLEAN
  /\ loads \in 0 .. MaxLoads /\ saves \in 0 .. MaxSaves /\ faults \in 0 .. MaxFaults
  /\ Status \in {"UNKNOWN", "CONFIGURING", "ACTIVE", "ERROR"}
  /\ lastConfiguredTeams \in Lineups /\ TeamWifiStatuses \in Lineups
  /\ calls \in [Callers -> CallType]
  /\ monitor \in {"sleep", "store", "compare", "copy", "retry"}
  /\ calls[Monitor].pc # "idle" => monitor = "retry"
  /\ response \in [status : {"UNKNOWN", "CONFIGURING", "ACTIVE"}, teams : Lineups]
  /\ ssids \in Lineups /\ accepted \in Lineups /\ apStatus \in {"CONFIGURING", "ACTIVE"}

\* Whatever was lost on the way, the access point ends up with the SSIDs last asked for, and
\* the monitor then leaves it alone: a needless configuration would drop every robot off the
\* air (AccessPoint.Run).
AccessPointConverges ==
  <>[](networkSecurityEnabled =>
         /\ ssids = lastConfiguredTeams /\ apStatus = "ACTIVE"
         /\ monitor \notin {"copy", "retry"})

=============================================================================
