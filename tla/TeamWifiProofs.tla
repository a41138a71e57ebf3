---------------------------- MODULE TeamWifiProofs ----------------------------
(***************************************************************************)
(* Theorems about TeamWifi.tla, for any stations, teams and bounds.        *)
(*                                                                         *)
(* A call and the monitor's copy go through the stations one by one, and   *)
(* the invariant keeps their places among them.  From it comes that an     *)
(* access point that runs what was asked of it is left alone.              *)
(***************************************************************************)
EXTENDS TeamWifi, TLAPS

\* A call that remembers and a copy that is being made are at one of the stations.
InPlace ==
  /\ \A c \in Callers : calls[c].pc = "remember" => calls[c].next \in Stations
  /\ monitor = "copy" => calls[Monitor].next \in Stations

IInv == TypeOK /\ InPlace

\* The access point runs what was last asked for, nothing is on its way to it, and what the
\* monitor may have read of it says so.
Settled ==
  /\ networkSecurityEnabled
  /\ \A c \in Callers : calls[c].pc = "idle"
  /\ monitor \notin {"copy", "retry"}
  /\ ssids = lastConfiguredTeams /\ accepted = lastConfiguredTeams
  /\ monitor = "store" /\ response.status = "ACTIVE" => response.teams = lastConfiguredTeams
  /\ monitor = "compare" /\ Status = "ACTIVE" => TeamWifiStatuses = lastConfiguredTeams

-----------------------------------------------------------------------------
(* Calls                                                                     *)

\* The bounds and the places of the stations.
LEMMA Places ==
  /\ Empty \in Lineups /\ NoCall \in CallType
  /\ \A teams \in Lineups : Call(teams) \in CallType
  /\ Monitor \in Callers /\ 1 \in Callers /\ 1 \in Stations
  /\ \A s \in Stations : s \in 0 .. NumStations /\ (s # NumStations => s + 1 \in Stations)
  /\ 0 \in 0 .. NumStations
<1>1. Empty \in Lineups
  BY DEF Empty, Lineups
<1>2. 0 \in 0 .. NumStations
  BY StationsAssumption
<1>3. NoCall \in CallType /\ \A teams \in Lineups : Call(teams) \in CallType
  BY <1>1, <1>2 DEF NoCall, Call, CallType
<1>4. Monitor \in Callers /\ 1 \in Callers /\ 1 \in Stations
  BY StationsAssumption, BoundsAssumption DEF Monitor, Callers, Stations
<1>5. \A s \in Stations : s \in 0 .. NumStations /\ (s # NumStations => s + 1 \in Stations)
  BY StationsAssumption DEF Stations
<1> QED
  BY <1>1, <1>2, <1>3, <1>4, <1>5

\* One station of a lineup changed leaves a lineup.
LEMMA OneStation ==
  ASSUME NEW teams \in Lineups, NEW other \in Lineups, NEW s \in Stations
  PROVE  [teams EXCEPT ![s] = other[s]] \in Lineups
  BY DEF Lineups

\* A load starts a call of its own, never the monitor's.
LEMMA LoadKeeps ==
  ASSUME IInv, NEW teams \in Lineups, LoadLineup(teams)
  PROVE  IInv'
<1> USE DEF IInv
<1>1. loads + 1 \in Callers /\ loads + 1 # Monitor /\ loads' \in 0 .. MaxLoads
  BY BoundsAssumption DEF LoadLineup, TypeOK, Callers, Monitor
<1>2. calls' \in [Callers -> CallType]
  BY <1>1, Places DEF LoadLineup, TypeOK
<1>3. calls'[Monitor] = calls[Monitor]
  BY <1>1, Places DEF LoadLineup, TypeOK
<1>4. \A c \in Callers : calls'[c] = calls[c] \/ calls'[c].pc = "called"
  BY <1>1 DEF LoadLineup, TypeOK, Call
<1>5. TypeOK'
  BY <1>1, <1>2, <1>3 DEF LoadLineup, TypeOK, driverVars, accessPointVars
<1>6. InPlace'
  BY <1>3, <1>4 DEF LoadLineup, InPlace
<1> QED
  BY <1>5, <1>6

\* A settings save and a fault of the access point touch no call.
LEMMA EnvironmentKeeps ==
  ASSUME IInv, SetSettings \/ LoseConfiguration
  PROVE  IInv'
<1> USE DEF IInv
<1>1. CASE SetSettings
  <2>1. saves' \in 0 .. MaxSaves
    BY <1>1, BoundsAssumption DEF SetSettings, TypeOK
  <2> QED
    BY <1>1, <2>1 DEF SetSettings, TypeOK, InPlace, accessPointVars
<1>2. CASE LoseConfiguration
  <2>1. faults' \in 0 .. MaxFaults
    BY <1>2, BoundsAssumption DEF LoseConfiguration, TypeOK
  <2> QED
    BY <1>2, <2>1, Places DEF LoseConfiguration, TypeOK, InPlace, arenaVars, driverVars
<1> QED
  BY <1>1, <1>2

\* A call keeps its place; the monitor's own ends or goes on while the monitor waits.
LEMMA CallKeeps ==
  ASSUME IInv, NEW c \in Callers, ConfigureTeamWifi(c)
  PROVE  IInv'
<1> USE DEF IInv
<1>1. /\ calls \in [Callers -> CallType] /\ calls[c] \in CallType
      /\ calls[c].teams \in Lineups
      /\ lastConfiguredTeams \in Lineups
  BY DEF TypeOK, CallType
<1>2. monitor = "copy" => c # Monitor
  BY DEF TypeOK, ConfigureTeamWifi, Enter, Remember, Post
<1>3. CASE Enter(c)
  <2>1. /\ calls'[c] \in CallType /\ calls' = [calls EXCEPT ![c] = calls'[c]]
        /\ calls'[c].pc = "remember" => calls'[c].next \in Stations
        /\ c = Monitor => calls'[c].pc = "idle" \/ monitor = "retry"
    <3>0. c = Monitor => monitor = "retry"
      BY <1>3 DEF Enter, TypeOK
    <3>1. CASE calls' = [calls EXCEPT ![c] = NoCall]
      <4>1. calls'[c] = NoCall
        BY <1>1, <3>1
      <4> QED
        BY <1>1, <3>0, <3>1, <4>1, Places DEF NoCall
    <3>2. CASE calls' = [calls EXCEPT ![c].pc = "remember", ![c].next = 1]
      <4>1. calls'[c] = [calls[c] EXCEPT !.pc = "remember", !.next = 1]
        BY <1>1, <3>2
      <4> QED
        BY <1>1, <3>0, <3>2, <4>1, Places DEF CallType
    <3> QED
      BY <1>3, <3>1, <3>2 DEF Enter
  <2>2. /\ Status' \in {Status, "CONFIGURING"}
        /\ UNCHANGED <<arenaVars, faults, lastConfiguredTeams, TeamWifiStatuses, monitor, response,
                       accessPointVars>>
    BY <1>3 DEF Enter
  <2>3. /\ calls' \in [Callers -> CallType]
        /\ calls'[Monitor].pc # "idle" => monitor = "retry"
    BY <1>1, <2>1, Places DEF TypeOK
  <2>4. TypeOK'
    BY <2>2, <2>3 DEF TypeOK, arenaVars, accessPointVars
  <2>5. InPlace'
    BY <1>1, <1>2, <2>1, <2>2, Places DEF InPlace
  <2> QED
    BY <2>4, <2>5
<1>4. CASE Remember(c)
  <2> DEFINE s == calls[c].next
  <2>0. s \in Stations
    BY <1>4 DEF Remember, InPlace
  <2>1. /\ lastConfiguredTeams' = [lastConfiguredTeams EXCEPT ![s] = calls[c].teams[s]]
        /\ calls' = IF s = NumStations THEN [calls EXCEPT ![c].pc = "post", ![c].next = 0]
                                       ELSE [calls EXCEPT ![c].next = s + 1]
        /\ UNCHANGED <<arenaVars, faults, Status, TeamWifiStatuses, monitor, response,
                       accessPointVars>>
        /\ calls[c].pc = "remember"
    BY <1>4 DEF Remember
  <2>2. lastConfiguredTeams' \in Lineups
    BY <1>1, <2>0, <2>1, OneStation
  <2>3. calls'[c] \in CallType /\ calls' = [calls EXCEPT ![c] = calls'[c]]
    BY <1>1, <2>0, <2>1, Places DEF CallType
  <2>4. calls'[c].pc = "remember" => calls'[c].next \in Stations
    BY <1>1, <2>0, <2>1, Places DEF CallType
  <2> HIDE DEF s
  <2>5. calls'[Monitor].pc # "idle" => monitor = "retry"
    BY <1>1, <2>1, <2>3, Places DEF TypeOK
  <2>6. calls' \in [Callers -> CallType]
    BY <1>1, <2>3
  <2>7. TypeOK'
    BY <2>1, <2>2, <2>5, <2>6 DEF TypeOK, arenaVars, accessPointVars
  <2>8. InPlace'
    BY <1>1, <1>2, <2>1, <2>3, <2>4, Places DEF InPlace
  <2> QED
    BY <2>7, <2>8
<1>5. CASE Post(c)
  <2>1. /\ calls' = [calls EXCEPT ![c] = NoCall]
        /\ UNCHANGED <<arenaVars, driverVars, monitor, response>>
    BY <1>5 DEF Post
  <2>2. faults' \in 0 .. MaxFaults
    BY <1>5, BoundsAssumption DEF Post, TypeOK
  <2>3. ssids' \in Lineups /\ accepted' \in Lineups /\ apStatus' \in {"CONFIGURING", "ACTIVE"}
    BY <1>1, <1>5 DEF Post, Accept, TypeOK, accessPointVars
  <2>4. /\ calls' \in [Callers -> CallType]
        /\ \A d \in Callers : calls'[d] = calls[d] \/ calls'[d].pc = "idle"
        /\ monitor = "copy" => calls'[Monitor] = calls[Monitor]
    BY <1>1, <1>2, <2>1, Places DEF NoCall
  <2> QED
    BY <2>1, <2>2, <2>3, <2>4, Places DEF TypeOK, InPlace, arenaVars, driverVars
<1> QED
  BY <1>3, <1>4, <1>5 DEF ConfigureTeamWifi

\* The monitor keeps its place in the copy, and waits while its call lasts.
LEMMA MonitorKeeps ==
  ASSUME IInv, Run \/ Apply
  PROVE  IInv'
<1> USE DEF IInv
<1>1. /\ calls \in [Callers -> CallType] /\ calls[Monitor] \in CallType
      /\ lastConfiguredTeams \in Lineups /\ Monitor \in Callers
      /\ calls[Monitor].pc # "idle" => monitor = "retry"
  BY Places DEF TypeOK
<1>2. CASE Fetch
  <2>1. faults' \in 0 .. MaxFaults
    BY <1>2, BoundsAssumption DEF Fetch, TypeOK
  <2>2. response' \in [status : {"UNKNOWN", "CONFIGURING", "ACTIVE"}, teams : Lineups]
    BY <1>2 DEF Fetch, TypeOK
  <2>3. /\ monitor' \in {"sleep", "store", "compare"} /\ monitor = "sleep"
        /\ Status' \in {Status, "ERROR"} /\ calls' = calls
    BY <1>2 DEF Fetch
  <2> QED
    BY <1>2, <2>1, <2>2, <2>3 DEF Fetch, TypeOK, InPlace, arenaVars, accessPointVars
<1>3. CASE Store
  BY <1>3, Places DEF Store, TypeOK, InPlace, arenaVars, accessPointVars
<1>4. CASE Compare
  <2>1. CASE monitor' = "copy" /\ calls' = [calls EXCEPT ![Monitor].next = 1]
    <3>1. calls'[Monitor] = [calls[Monitor] EXCEPT !.next = 1]
      BY <1>1, <2>1
    <3>2. calls'[Monitor] \in CallType /\ calls'[Monitor].pc = "idle"
          /\ calls'[Monitor].next \in Stations
      BY <1>1, <1>4, <3>1, Places DEF Compare, CallType
    <3>3. calls' \in [Callers -> CallType] /\ \A c \in Callers \ {Monitor} : calls'[c] = calls[c]
      BY <1>1, <2>1, <3>1, <3>2
    <3> QED
      BY <1>4, <2>1, <3>2, <3>3 DEF Compare, TypeOK, InPlace, arenaVars, driverVars,
         accessPointVars
  <2>2. CASE monitor' = "sleep" /\ calls' = calls
    BY <1>4, <2>2 DEF Compare, TypeOK, InPlace, arenaVars, driverVars, accessPointVars
  <2> QED
    BY <1>4, <2>1, <2>2 DEF Compare
<1>5. CASE Copy
  <2> DEFINE s == calls[Monitor].next
             copied == [calls[Monitor].teams EXCEPT ![s] = lastConfiguredTeams[s]]
  <2>1. s \in Stations /\ calls[Monitor].pc = "idle" /\ calls[Monitor].teams \in Lineups
    BY <1>1, <1>5 DEF Copy, InPlace, CallType
  <2>2. copied \in Lineups
    BY <1>1, <2>1, OneStation
  <2>3. calls' = [calls EXCEPT ![Monitor] = CopyStation(s)]
    BY <1>5 DEF Copy
  <2>4. CopyStation(s) = IF s = NumStations
                         THEN [teams |-> copied, pc |-> "called", next |-> 0]
                         ELSE [teams |-> copied, pc |-> "idle", next |-> s + 1]
    <3>2. CASE s = NumStations
      <4>1. CopyStation(s) = [calls[Monitor] EXCEPT !.teams[s] = lastConfiguredTeams[s],
                                                    !.pc = "called", !.next = 0]
        BY <3>2 DEF CopyStation
      <4> QED
        BY <1>1, <2>1, <3>2, <4>1 DEF CallType
    <3>3. CASE s # NumStations
      <4>1. CopyStation(s) = [calls[Monitor] EXCEPT !.teams[s] = lastConfiguredTeams[s],
                                                    !.next = s + 1]
        BY <3>3 DEF CopyStation
      <4> QED
        BY <1>1, <2>1, <3>3, <4>1 DEF CallType
    <3> QED
      BY <3>2, <3>3
  <2> HIDE DEF copied, s
  <2>5. /\ CopyStation(s) \in CallType
        /\ CopyStation(s).pc \in {"idle", "called"}
        /\ CopyStation(s).pc = "idle" => CopyStation(s).next \in Stations
    BY <2>1, <2>2, <2>4, Places DEF CallType
  <2>6. /\ calls'[Monitor] = CopyStation(s) /\ calls' \in [Callers -> CallType]
        /\ \A c \in Callers \ {Monitor} : calls'[c] = calls[c]
    BY <1>1, <2>3, <2>5
  <2>7. /\ monitor' = IF calls'[Monitor].pc = "called" THEN "retry" ELSE "copy"
        /\ UNCHANGED <<arenaVars, faults, driverVars, response, accessPointVars>>
    BY <1>5 DEF Copy
  <2>8. TypeOK'
    BY <2>5, <2>6, <2>7 DEF TypeOK, arenaVars, driverVars, accessPointVars
  <2>9. InPlace'
    BY <2>5, <2>6, <2>7 DEF InPlace
  <2> QED
    BY <2>8, <2>9
<1>6. CASE Return
  BY <1>6 DEF Return, TypeOK, InPlace, arenaVars, driverVars, accessPointVars
<1>7. CASE Apply
  BY <1>7 DEF Apply, TypeOK, InPlace, arenaVars, driverVars
<1> QED
  BY <1>2, <1>3, <1>4, <1>5, <1>6, <1>7 DEF Run

\* The invariant of every behaviour.
LEMMA Invariant == Spec => []IInv
<1>1. Init => IInv
  <2> SUFFICES ASSUME Init PROVE IInv
    OBVIOUS
  <2>1. loads \in 0 .. MaxLoads /\ saves \in 0 .. MaxSaves /\ faults \in 0 .. MaxFaults
    BY BoundsAssumption DEF Init
  <2>2. calls \in [Callers -> CallType] /\ \A c \in Callers : calls[c].pc \in {"idle", "called"}
    BY Places DEF Init, NoCall, Call
  <2>3. calls[Monitor].pc = "idle"
    BY Places DEF Init, NoCall, Monitor
  <2> QED
    BY <2>1, <2>2, <2>3, Places DEF Init, IInv, TypeOK, InPlace
<1>2. IInv /\ [Next]_vars => IInv'
  <2> SUFFICES ASSUME IInv, [Next]_vars PROVE IInv'
    OBVIOUS
  <2>1. CASE UNCHANGED vars
    BY <2>1 DEF vars, arenaVars, driverVars, accessPointVars, IInv, TypeOK, InPlace
  <2>2. CASE System
    BY <2>2, CallKeeps, MonitorKeeps DEF System
  <2> QED
    BY <2>1, <2>2, LoadKeeps, EnvironmentKeeps DEF Next
<1> QED
  BY <1>1, <1>2, PTL DEF Spec

-----------------------------------------------------------------------------
(* Theorems                                                                  *)

\* Every variable has its type, and the monitor does nothing else while its own call lasts
\* (AccessPoint.Run, ConfigureTeamWifi).
THEOREM WifiIsTyped == Spec => []TypeOK
<1>1. IInv => TypeOK
  BY DEF IInv
<1> QED
  BY <1>1, Invariant, PTL

\* What the monitor reads of a settled access point gives it nothing to do.
LEMMA SettledStep ==
  ASSUME IInv, Settled, System
  PROVE  Settled' /\ UNCHANGED <<ssids, lastConfiguredTeams>>
<1>1. \A c \in Callers : calls[c].pc = "idle"
  BY DEF Settled
<1>2. ~\E c \in Callers : ConfigureTeamWifi(c)
  BY <1>1 DEF ConfigureTeamWifi, Enter, Remember, Post
<1>3. CASE Fetch
  BY <1>3 DEF Fetch, Settled, arenaVars, accessPointVars
<1>4. CASE Store
  BY <1>4 DEF Store, Settled, arenaVars, accessPointVars
<1>5. CASE Compare
  <2>1. Status = "ACTIVE" => StatusMatchesLastConfiguration
    BY <1>5 DEF Compare, Settled, StatusMatchesLastConfiguration
  <2>2. monitor' = "sleep" /\ UNCHANGED calls
    BY <1>5, <2>1 DEF Compare
  <2> QED
    BY <1>5, <2>2 DEF Compare, Settled, arenaVars, driverVars, accessPointVars
<1>6. CASE Apply
  BY <1>6 DEF Apply, Settled, arenaVars, driverVars
<1> QED
  BY <1>2, <1>3, <1>4, <1>5, <1>6 DEF System, Run, Copy, Return, Settled

\* An access point that runs what was last asked for is left alone: from then on no call, no
\* look of the monitor at it and no failed look configures it again, until a lineup is loaded,
\* the settings are saved or it loses its configuration (AccessPoint.Run).
THEOREM SettledIsLeftAlone ==
  Spec => [][Settled /\ System => Settled' /\ UNCHANGED <<ssids, lastConfiguredTeams>>]_vars
<1>1. IInv /\ [Next]_vars =>
        (Settled /\ System => Settled' /\ UNCHANGED <<ssids, lastConfiguredTeams>>)
  BY SettledStep
<1> QED
  BY <1>1, Invariant, PTL DEF Spec
=============================================================================
