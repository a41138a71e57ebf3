--------------------------- MODULE TeamEthernetProofs ---------------------------
(***************************************************************************)
(* Theorems about TeamEthernet.tla, for any number of stations, teams,     *)
(* requests and driver objects: what a driver believes of the switch is    *)
(* what the switch carries, wherever a session fails.                      *)
(*                                                                         *)
(* One request is at work at a time (OneAtATime), with the object that was *)
(* current when it was taken up; an object installed since knows nothing.  *)
(* What the request may assume of the switch depends on where it is (Plan):*)
(* that its object's belief holds before it touches a VLAN, that the       *)
(* VLANs to rebuild are empty between the two sessions, and that the       *)
(* switch carries its lineup after the second.  The ports are accounted    *)
(* for from the first full session on (Ports).                             *)
(***************************************************************************)
EXTENDS TeamEthernet, TLAPS

Requests == 1 .. Len(requests)
Active(g) == requests[g].pc \in Configuring \cup {"waiting"}

\* What holds of the object and the VLANs p while the request r is under way.
Plan(r, sw, p) ==
  /\ r.pc \in {"baseline", "save"} => ~sw.synced
  /\ r.pc \in {"waiting", "remove"} => (sw.synced => p = sw.applied)
  /\ r.pc \in {"baseline", "save", "remove"} => r.rebuild = Rebuild(sw, r.teams)
  /\ r.pc = "add" => \A s \in Stations : p[s] = IF s \in r.rebuild THEN NoTeam ELSE r.teams[s]
  /\ r.pc = "settle" => p = r.teams
  /\ r.pc # "waiting" => sw.Status # "ACTIVE"

OneAtATime ==
  \A g \in Requests : Active(g) =>
    /\ \A h \in Requests : Active(h) => h = g
    /\ requests[g].sw \in 1 .. teamNetwork
    /\ \A i \in 1 .. teamNetwork :
         i > requests[g].sw => ~switches[i].synced /\ switches[i].Status # "ACTIVE"
    /\ Plan(requests[g], switches[requests[g].sw], pool)

\* What the current object believes, with nobody at work.
Known ==
  ~Applying /\ switches[teamNetwork].synced => pool = switches[teamNetwork].applied

Badge ==
  switches[teamNetwork].Status = "ACTIVE" =>
    /\ switches[teamNetwork].synced /\ taken \in Requests
    /\ switches[teamNetwork].applied = requests[taken].teams

\* Requests are begun in the order of their numbers.
Numbers ==
  \A g \in Requests :
    /\ requests[g].pc = "queued" => taken # g
    /\ requests[g].pc = "waiting" => taken < g
    /\ requests[g].pc \in Configuring => taken = g

AfterBaseline == {"save", "remove", "add", "settle"}

\* The ports that are down are those a cycle shut and has not reopened.
Accounted ==
  \A s \in Stations \ portUp :
    \E c \in 1 .. Len(cycles) : cycles[c].pc \in {"reopen", "failed"} /\ s \in cycles[c].stations

Ports ==
  /\ (\E i \in 1 .. teamNetwork : switches[i].synced) => Accounted
  /\ (\E g \in Requests : requests[g].pc \in AfterBaseline) => Accounted

IInv ==
  TypeOK /\ OneAtATime /\ Known /\ Badge /\ Numbers /\ Ports /\ OneSubnetPerTeam

-----------------------------------------------------------------------------
(* Sequences                                                                 *)

\* One element of a sequence is replaced.
LEMMA Replaced ==
  ASSUME NEW S, NEW q \in Seq(S), NEW i \in 1 .. Len(q), NEW v \in S
  PROVE  /\ [q EXCEPT ![i] = v] \in Seq(S) /\ Len([q EXCEPT ![i] = v]) = Len(q)
         /\ [q EXCEPT ![i] = v][i] = v
         /\ \A j \in 1 .. Len(q) : j # i => [q EXCEPT ![i] = v][j] = q[j]
  OBVIOUS

\* An element that is replaced by itself is unchanged.
LEMMA Unreplaced ==
  ASSUME NEW S, NEW q \in Seq(S), NEW i \in 1 .. Len(q)
  PROVE  [q EXCEPT ![i] = q[i]] = q
  OBVIOUS

\* One element is added to a sequence.
LEMMA Appended ==
  ASSUME NEW S, NEW q \in Seq(S), NEW v \in S
  PROVE  /\ Append(q, v) \in Seq(S) /\ Len(Append(q, v)) = Len(q) + 1
         /\ Append(q, v)[Len(q) + 1] = v
         /\ \A j \in 1 .. Len(q) : Append(q, v)[j] = q[j]
  OBVIOUS

\* A lineup without some of its teams is one, and so is one without any.
LEMMA FewerTeams ==
  ASSUME NEW l \in Lineups, NEW m \in [Stations -> Teams \cup {NoTeam}],
         \A s \in Stations : m[s] \in {NoTeam, l[s]}
  PROVE  m \in Lineups
  BY DEF Lineups

\* No team anywhere is a lineup.
LEMMA EmptyIsLineup == Empty \in Lineups
  BY DEF Empty, Lineups

-----------------------------------------------------------------------------
(* The steps                                                                 *)

\* Init establishes the invariant.
LEMMA InitIInv == Init => IInv
<1> SUFFICES ASSUME Init PROVE IInv
  OBVIOUS
<1> DEFINE first == [teams |-> Empty, pc |-> "queued", sw |-> 0, rebuild |-> {}]
<1>1. first \in RequestType
  BY EmptyIsLineup, SwitchesAssumption DEF RequestType
<1>2. requests \in Seq(RequestType) /\ \A g \in Requests : requests[g].pc = "queued"
  <2>1. CASE requests = <<>>
    BY <2>1 DEF Requests
  <2>2. CASE requests = <<first>>
    BY <1>1, <2>2 DEF Requests
  <2> QED
    BY <2>1, <2>2 DEF Init
<1>3. PICK addressed \in BOOLEAN : switches = <<NewSwitch(addressed)>>
  BY DEF Init
<1>4. NewSwitch(addressed) \in SwitchType
  BY EmptyIsLineup DEF NewSwitch, SwitchType
<1>5. switches \in Seq(SwitchType) /\ Len(switches) = 1 /\ switches[1] = NewSwitch(addressed)
  BY <1>3, <1>4
<1>6. ~switches[1].synced /\ switches[1].Status = "UNKNOWN"
  BY <1>5 DEF NewSwitch
<1>7. pool \in Lineups /\ pool \in [Stations -> Teams \cup {NoTeam}]
  BY DEF Init, Lineups
<1>8. Len(requests) \in Nat /\ taken = 0
  BY <1>2 DEF Init
<1>9. TypeOK
  <2>1. cycles \in Seq(CycleType)
    BY DEF Init
  <2>2. lineup \in Lineups /\ networkSecurityEnabled \in BOOLEAN /\ started \in BOOLEAN
        /\ portUp \in SUBSET Stations
    BY EmptyIsLineup DEF Init
  <2>3. teamNetwork \in 1 .. MaxSwitches
    BY <1>5, SwitchesAssumption DEF teamNetwork
  <2> QED
    BY <1>2, <1>5, <1>7, <1>8, <2>1, <2>2, <2>3 DEF TypeOK
<1>10. OneAtATime /\ Numbers
  BY <1>2, <1>8 DEF OneAtATime, Numbers, Active, Configuring, Requests
<1>11. Known /\ Badge
  BY <1>5, <1>6 DEF Known, Badge, teamNetwork
<1>12. Ports
  BY <1>2, <1>5, <1>6 DEF Ports, teamNetwork, AfterBaseline
<1> QED
  BY <1>7, <1>9, <1>10, <1>11, <1>12 DEF IInv, OneSubnetPerTeam

\* A request is made, or none, and a cycle, or none: both wait for their turn.
LEMMA NewWorkKeeps ==
  ASSUME IInv, lineup' \in Lineups, started' \in BOOLEAN,
         UNCHANGED <<networkSecurityEnabled, switches, equipmentVars, taken>>,
         NEW teams \in Lineups, ConfigureTeamEthernet(teams),
         NEW occupied \in SUBSET Stations,
         UNCHANGED cycles \/ CycleStationPortsForRenewal(occupied)
  PROVE  IInv'
<1> DEFINE new == [teams |-> teams, pc |-> "queued", sw |-> 0, rebuild |-> {}]
           cycle == [stations |-> occupied, pc |-> "queued", sw |-> teamNetwork]
<1>0. TypeOK /\ OneAtATime /\ Known /\ Badge /\ Numbers /\ Ports /\ OneSubnetPerTeam
  BY DEF IInv
<1>1. new \in RequestType
  BY SwitchesAssumption DEF RequestType
<1>2. /\ requests' \in Seq(RequestType) /\ Len(requests) \in Nat
      /\ Len(requests') \in {Len(requests), Len(requests) + 1}
      /\ \A g \in Requests : requests'[g] = requests[g]
      /\ \A g \in 1 .. Len(requests') : g \notin Requests =>
           g = Len(requests) + 1 /\ requests'[g] = new
  <2>1. requests \in Seq(RequestType) /\ Len(requests) \in Nat
    BY <1>0 DEF TypeOK
  <2>2. CASE requests' = requests
    BY <2>1, <2>2 DEF Requests
  <2>3. CASE requests' = Append(requests, new)
    <3>1. /\ requests' \in Seq(RequestType) /\ Len(requests') = Len(requests) + 1
          /\ requests'[Len(requests) + 1] = new
          /\ \A j \in 1 .. Len(requests) : requests'[j] = requests[j]
      BY <1>1, <2>1, <2>3, Appended
    <3> QED
      BY <2>1, <3>1 DEF Requests
  <2> QED
    BY <2>2, <2>3 DEF ConfigureTeamEthernet
<1>3. /\ cycles' \in Seq(CycleType) /\ Len(cycles) \in Nat /\ Len(cycles') >= Len(cycles)
      /\ \A c \in 1 .. Len(cycles) : cycles'[c] = cycles[c]
  <2>1. cycles \in Seq(CycleType) /\ Len(cycles) \in Nat
    BY <1>0 DEF TypeOK
  <2>2. CASE cycles' = cycles
    BY <2>1, <2>2
  <2>3. CASE occupied # {} /\ cycles' = Append(cycles, cycle)
    <3>0. teamNetwork \in 1 .. MaxSwitches
      BY <1>0 DEF TypeOK
    <3>1. cycle \in CycleType
      BY <2>3, <3>0 DEF CycleType
    <3>2. /\ cycles' \in Seq(CycleType) /\ Len(cycles') = Len(cycles) + 1
          /\ \A j \in 1 .. Len(cycles) : cycles'[j] = cycles[j]
      BY <2>1, <2>3, <3>1, Appended
    <3> QED
      BY <2>1, <3>2
  <2> QED
    BY <2>2, <2>3 DEF CycleStationPortsForRenewal
<1>4. /\ UNCHANGED <<switches, pool, portUp, taken, networkSecurityEnabled>>
      /\ teamNetwork' = teamNetwork
  BY DEF equipmentVars, teamNetwork
<1>5. TypeOK'
  <2>1. taken' \in 0 .. Len(requests')
    BY <1>0, <1>2, <1>4 DEF TypeOK
  <2> QED
    BY <1>0, <1>2, <1>3, <1>4, <2>1 DEF TypeOK
<1>6. \A g \in Requests' : \/ g \in Requests /\ requests'[g] = requests[g]
                           \/ g \notin Requests /\ requests'[g].pc = "queued"
                              /\ g = Len(requests) + 1
  BY <1>2 DEF Requests
<1>7. Requests \subseteq Requests'
  BY <1>2 DEF Requests
<1>8. OneAtATime'
  <2> SUFFICES ASSUME NEW g \in Requests', Active(g)'
               PROVE  /\ \A h \in Requests' : Active(h)' => h = g
                      /\ requests'[g].sw \in 1 .. teamNetwork'
                      /\ \A i \in 1 .. teamNetwork' :
                           i > requests'[g].sw =>
                             ~switches'[i].synced /\ switches'[i].Status # "ACTIVE"
                      /\ Plan(requests[g], switches[requests[g].sw], pool)'
    BY DEF OneAtATime
  <2>1. \A h \in Requests' : Active(h)' => h \in Requests /\ Active(h) /\ requests'[h] = requests[h]
    BY <1>6 DEF Active, Configuring
  <2>2. g \in Requests /\ Active(g) /\ requests'[g] = requests[g]
    BY <2>1
  <2>3. Plan(requests[g], switches[requests[g].sw], pool)'
        <=> Plan(requests[g], switches[requests[g].sw], pool)
    BY <1>4, <2>2 DEF Plan, Rebuild
  <2> QED
    BY <1>0, <1>4, <2>1, <2>2, <2>3 DEF OneAtATime
<1>9. Applying' <=> Applying
  BY <1>6, <1>7, <1>2 DEF Applying, Requests, Configuring
<1>10. Known' /\ OneSubnetPerTeam'
  BY <1>0, <1>4, <1>9 DEF Known, OneSubnetPerTeam
<1>11. Badge'
  BY <1>0, <1>2, <1>4, <1>7 DEF Badge
<1>12. Numbers'
  <2>1. taken \in 0 .. Len(requests) /\ Len(requests) \in Nat
    BY <1>0, <1>2 DEF TypeOK
  <2>2. taken # Len(requests) + 1
    BY <2>1
  <2> QED
    BY <1>0, <1>4, <1>6, <2>2 DEF Numbers, Configuring
<1>13. Ports'
  <2>1. Accounted => Accounted'
    <3>1. \A c \in 1 .. Len(cycles) : c \in 1 .. Len(cycles')
      BY <1>3, <1>5 DEF TypeOK
    <3> QED
      BY <1>3, <1>4, <3>1 DEF Accounted
  <2>2. (\E g \in Requests' : requests'[g].pc \in AfterBaseline)
        => \E g \in Requests : requests[g].pc \in AfterBaseline
    BY <1>6 DEF AfterBaseline
  <2> QED
    BY <1>0, <1>4, <2>1, <2>2 DEF Ports
<1> QED
  BY <1>5, <1>8, <1>10, <1>11, <1>12, <1>13 DEF IInv
\* A settings save installs an object that knows nothing and that nobody works with yet.
LEMMA NewObjectKeeps ==
  ASSUME IInv, LoadSettings
  PROVE  IInv'
<1>0. TypeOK /\ OneAtATime /\ Known /\ Badge /\ Numbers /\ Ports /\ OneSubnetPerTeam
  BY DEF IInv
<1>1. PICK addressed \in BOOLEAN : switches' = Append(switches, NewSwitch(addressed))
  BY DEF LoadSettings
<1>2. NewSwitch(addressed) \in SwitchType
  BY EmptyIsLineup DEF NewSwitch, SwitchType
<1>3. switches \in Seq(SwitchType) /\ Len(switches) \in Nat
  BY <1>0 DEF TypeOK
<1>4. /\ switches' \in Seq(SwitchType) /\ teamNetwork' = teamNetwork + 1 /\ teamNetwork \in Nat
      /\ switches'[teamNetwork + 1] = NewSwitch(addressed)
      /\ \A i \in 1 .. teamNetwork : switches'[i] = switches[i]
  BY <1>1, <1>2, <1>3, Appended DEF teamNetwork
<1>5. ~switches'[teamNetwork'].synced /\ switches'[teamNetwork'].Status = "UNKNOWN"
  BY <1>4 DEF NewSwitch
<1>6. UNCHANGED <<lineup, started, requests, cycles, pool, portUp, taken>>
      /\ networkSecurityEnabled' \in BOOLEAN /\ teamNetwork < MaxSwitches
  BY DEF LoadSettings, equipmentVars, teamNetwork
<1>7. TypeOK'
  <2>1. teamNetwork' \in 1 .. MaxSwitches
    BY <1>4, <1>6, SwitchesAssumption
  <2> QED
    BY <1>0, <1>4, <1>6, <2>1 DEF TypeOK
<1>8. \A i \in 1 .. teamNetwork' : i \in 1 .. teamNetwork \/ i = teamNetwork'
  BY <1>4
<1>9. OneAtATime'
  <2> SUFFICES ASSUME NEW g \in Requests, Active(g)
               PROVE  /\ \A h \in Requests : Active(h) => h = g
                      /\ requests[g].sw \in 1 .. teamNetwork'
                      /\ \A i \in 1 .. teamNetwork' :
                           i > requests[g].sw =>
                             ~switches'[i].synced /\ switches'[i].Status # "ACTIVE"
                      /\ Plan(requests[g], switches'[requests[g].sw], pool)
    BY <1>6 DEF OneAtATime, Requests, Active, Plan, Rebuild
  <2>1. /\ \A h \in Requests : Active(h) => h = g
        /\ requests[g].sw \in 1 .. teamNetwork
        /\ \A i \in 1 .. teamNetwork :
             i > requests[g].sw => ~switches[i].synced /\ switches[i].Status # "ACTIVE"
        /\ Plan(requests[g], switches[requests[g].sw], pool)
    BY <1>0 DEF OneAtATime
  <2>2. requests[g].sw \in 1 .. teamNetwork'
    BY <1>4, <2>1
  <2>3. switches'[requests[g].sw] = switches[requests[g].sw]
    BY <1>4, <2>1
  <2>4. "UNKNOWN" # "ACTIVE"
    OBVIOUS
  <2> QED
    BY <1>4, <1>5, <1>8, <2>1, <2>2, <2>3, <2>4
<1>10. Known' /\ Badge' /\ OneSubnetPerTeam'
  BY <1>0, <1>5, <1>6 DEF Known, Badge, OneSubnetPerTeam
<1>11. Numbers'
  BY <1>0, <1>6 DEF Numbers, Requests
<1>12. Ports'
  <2>1. (\E i \in 1 .. teamNetwork' : switches'[i].synced)
        => \E i \in 1 .. teamNetwork : switches[i].synced
    BY <1>4, <1>5, <1>8
  <2> QED
    BY <1>0, <1>6, <2>1 DEF Ports, Accounted, Requests
<1> QED
  BY <1>7, <1>9, <1>10, <1>11, <1>12 DEF IInv

\* A request is taken up with the current object, or drops out.
LEMMA TakeKeeps ==
  ASSUME IInv, NEW g \in Requests, Take(g)
  PROVE  IInv'
<1>0. TypeOK /\ OneAtATime /\ Known /\ Badge /\ Numbers /\ Ports /\ OneSubnetPerTeam
  BY DEF IInv
<1>1. /\ requests[g].pc = "queued" /\ ~Applying
      /\ UNCHANGED <<lineup, networkSecurityEnabled, started, cycles, switches, pool, portUp,
                    taken>>
      /\ teamNetwork' = teamNetwork
  BY DEF Take, arenaVars, equipmentVars, teamNetwork
<1>2. PICK r \in RequestType :
        /\ requests' = [requests EXCEPT ![g] = r] /\ r.teams = requests[g].teams
        /\ \/ r.pc = "done"
           \/ r.pc = "waiting" /\ r.sw = teamNetwork /\ g = Len(requests)
  <2>0. requests[g] \in RequestType /\ teamNetwork \in 0 .. MaxSwitches
    BY <1>0, SwitchesAssumption DEF TypeOK, Requests
  <2> DEFINE r1 == [requests[g] EXCEPT !.pc = "done"]
             r2 == [requests[g] EXCEPT !.pc = "waiting", !.sw = teamNetwork]
  <2>1. r1 \in RequestType /\ r1.pc = "done" /\ r1.teams = requests[g].teams
    BY <2>0 DEF RequestType
  <2>2. /\ r2 \in RequestType /\ r2.pc = "waiting" /\ r2.sw = teamNetwork
        /\ r2.teams = requests[g].teams
    BY <2>0 DEF RequestType
  <2>3. \/ requests' = [requests EXCEPT ![g] = r1]
        \/ g = Len(requests) /\ requests' = [requests EXCEPT ![g] = r2]
    BY DEF Take, ethernetConfigGeneration
  <2> QED
    BY <2>1, <2>2, <2>3
<1>3. /\ requests' \in Seq(RequestType) /\ Len(requests') = Len(requests) /\ requests'[g] = r
      /\ \A j \in Requests : j # g => requests'[j] = requests[j]
      /\ Requests' = Requests /\ Len(requests) \in Nat
  <2>1. requests \in Seq(RequestType)
    BY <1>0 DEF TypeOK
  <2> QED
    BY <1>2, <2>1, Replaced DEF Requests
<1>4. TypeOK'
  BY <1>0, <1>1, <1>3 DEF TypeOK
<1>5. \A h \in Requests : ~Active(h)
  BY <1>1 DEF Applying, Active, Requests, Configuring
<1>6. \A h \in Requests : Active(h)' => h = g /\ requests'[g].pc = "waiting"
  BY <1>2, <1>3, <1>5 DEF Active, Configuring
<1>7. OneAtATime'
  <2> SUFFICES ASSUME NEW h \in Requests, Active(h)'
               PROVE  /\ \A k \in Requests : Active(k)' => k = h
                      /\ requests'[h].sw \in 1 .. teamNetwork
                      /\ \A i \in 1 .. teamNetwork :
                           i > requests'[h].sw =>
                             ~switches[i].synced /\ switches[i].Status # "ACTIVE"
                      /\ Plan(requests[h], switches[requests[h].sw], pool)'
    BY <1>1, <1>3 DEF OneAtATime
  <2>1. h = g /\ requests'[h] = r /\ r.pc = "waiting" /\ r.sw = teamNetwork
    BY <1>2, <1>3, <1>6
  <2>2. teamNetwork \in 1 .. MaxSwitches
    BY <1>0 DEF TypeOK
  <2>3. Plan(r, switches[teamNetwork], pool)
    BY <1>0, <1>1, <2>1 DEF Plan, Known
  <2>4. Plan(requests[h], switches[requests[h].sw], pool)'
    BY <1>1, <2>1, <2>3 DEF Plan, Rebuild
  <2> QED
    BY <1>6, <2>1, <2>2, <2>4, SwitchesAssumption
<1>8. Known'
  BY <1>0, <1>1 DEF Known
<1>9. Badge'
  <2>1. taken \in Requests => requests'[taken].teams = requests[taken].teams
    BY <1>2, <1>3
  <2> QED
    BY <1>0, <1>1, <1>3, <2>1 DEF Badge
<1>10. Numbers'
  <2>1. g = Len(requests) => taken < g
    <3>1. taken \in 0 .. Len(requests) /\ taken # g
      BY <1>0, <1>1 DEF TypeOK, Numbers
    <3> QED
      BY <1>3, <3>1
  <2>2. /\ requests'[g].pc # "queued" /\ requests'[g].pc \notin Configuring
        /\ requests'[g].pc = "waiting" => taken < g
    BY <1>2, <1>3, <2>1 DEF Configuring
  <2> QED
    BY <1>0, <1>1, <1>3, <2>2 DEF Numbers
<1>11. Ports'
  <2>1. (\E h \in Requests : requests'[h].pc \in AfterBaseline)
        => \E h \in Requests : requests[h].pc \in AfterBaseline
    BY <1>2, <1>3 DEF AfterBaseline
  <2> QED
    BY <1>0, <1>1, <1>3, <2>1 DEF Ports, Accounted
<1> QED
  BY <1>0, <1>1, <1>4, <1>7, <1>8, <1>9, <1>10, <1>11 DEF IInv, OneSubnetPerTeam
-----------------------------------------------------------------------------
(* A request at work                                                         *)

\* What the request g leaves when its record becomes r and its object becomes sw.
LEMMA WorkKeeps ==
  ASSUME IInv, NEW g \in Requests, Active(g),
         NEW r \in RequestType, NEW sw \in SwitchType,
         requests' = [requests EXCEPT ![g] = r],
         switches' = [switches EXCEPT ![requests[g].sw] = sw],
         UNCHANGED <<arenaVars, cycles>>,
         pool' \in Lineups, portUp \subseteq portUp', portUp' \subseteq Stations,
         taken' = g, r.teams = requests[g].teams,
         \/ /\ r.pc = "done"
            /\ sw.synced => pool' = sw.applied
            /\ sw.Status = "ACTIVE" => sw.synced /\ sw.applied = r.teams
         \/ r.pc \in Configuring /\ r.sw = requests[g].sw /\ Plan(r, sw, pool'),
         sw.synced \/ r.pc \in AfterBaseline =>
           \/ switches[requests[g].sw].synced \/ requests[g].pc \in AfterBaseline
           \/ portUp' = Stations
  PROVE  IInv'
<1>0. TypeOK /\ OneAtATime /\ Known /\ Badge /\ Numbers /\ Ports /\ OneSubnetPerTeam
  BY DEF IInv
<1> DEFINE n == requests[g].sw
<1>1. /\ n \in 1 .. teamNetwork
      /\ \A h \in Requests : Active(h) => h = g
      /\ \A i \in 1 .. teamNetwork : i > n => ~switches[i].synced /\ switches[i].Status # "ACTIVE"
  BY <1>0 DEF OneAtATime
<1>2. /\ requests' \in Seq(RequestType) /\ Len(requests') = Len(requests) /\ requests'[g] = r
      /\ \A j \in Requests : j # g => requests'[j] = requests[j]
      /\ Requests' = Requests /\ Len(requests) \in Nat
  <2>1. requests \in Seq(RequestType)
    BY <1>0 DEF TypeOK
  <2> QED
    BY <2>1, Replaced DEF Requests
<1>3. /\ switches' \in Seq(SwitchType) /\ teamNetwork' = teamNetwork /\ switches'[n] = sw
      /\ \A i \in 1 .. teamNetwork : i # n => switches'[i] = switches[i]
      /\ teamNetwork \in 1 .. MaxSwitches
  <2>1. switches \in Seq(SwitchType) /\ teamNetwork \in 1 .. MaxSwitches
    BY <1>0 DEF TypeOK
  <2> QED
    BY <1>1, <2>1, Replaced DEF teamNetwork
<1>4. UNCHANGED <<lineup, networkSecurityEnabled, started, cycles>>
  BY DEF arenaVars
<1>5. TypeOK'
  <2>1. pool' \in [Stations -> Teams \cup {NoTeam}]
    BY DEF Lineups
  <2>2. taken' \in 0 .. Len(requests')
    BY <1>2 DEF Requests
  <2> QED
    BY <1>0, <1>2, <1>3, <1>4, <2>1, <2>2 DEF TypeOK
<1>6. \A h \in Requests : h # g => ~Active(h) /\ ~Active(h)'
  BY <1>1, <1>2 DEF Active
<1>7. Active(g)' <=> r.pc \in Configuring
  BY <1>2 DEF Active, Configuring
<1>8. OneAtATime'
  <2> SUFFICES ASSUME NEW h \in Requests, Active(h)'
               PROVE  /\ \A k \in Requests : Active(k)' => k = h
                      /\ requests'[h].sw \in 1 .. teamNetwork
                      /\ \A i \in 1 .. teamNetwork :
                           i > requests'[h].sw =>
                             ~switches'[i].synced /\ switches'[i].Status # "ACTIVE"
                      /\ Plan(requests[h], switches[requests[h].sw], pool)'
    BY <1>2, <1>3 DEF OneAtATime
  <2>1. h = g /\ requests'[h] = r /\ r.pc \in Configuring /\ r.sw = n
    BY <1>2, <1>6, <1>7 DEF Configuring
  <2>2. Plan(r, sw, pool')
    BY <2>1 DEF Configuring
  <2>3. Plan(requests[h], switches[requests[h].sw], pool)'
    <3>1. requests'[h] = r /\ switches'[requests'[h].sw] = sw
      BY <1>3, <2>1
    <3>2. Plan(requests'[h], switches'[requests'[h].sw], pool')
      BY <2>2, <3>1
    <3> QED
      BY <3>2 DEF Plan
  <2>4. \A i \in 1 .. teamNetwork : i > n => i # n
    BY <1>1, <1>3
  <2> QED
    BY <1>1, <1>3, <1>6, <2>1, <2>3, <2>4
<1>9. Applying' <=> r.pc \in Configuring
  <2>1. Applying' <=> \E h \in Requests : Active(h)'
    BY <1>2 DEF Applying, Active, Requests
  <2> QED
    BY <1>6, <1>7, <2>1
<1>10. n = teamNetwork => Known' /\ Badge'
  <2> SUFFICES ASSUME n = teamNetwork PROVE Known' /\ Badge'
    OBVIOUS
  <2>1. switches'[teamNetwork'] = sw
    BY <1>3
  <2>2. ~Applying' => (sw.synced => pool' = sw.applied)
    BY <1>9
  <2>3. sw.Status = "ACTIVE" => sw.synced /\ sw.applied = r.teams
    BY DEF Plan, Configuring
  <2>4. taken' \in Requests' /\ requests'[taken'] = r
    BY <1>2
  <2> QED
    BY <2>1, <2>2, <2>3, <2>4 DEF Known, Badge
<1>11. n # teamNetwork => ~switches'[teamNetwork].synced /\ switches'[teamNetwork].Status # "ACTIVE"
  BY <1>1, <1>3
<1>12. Known' /\ Badge'
  BY <1>3, <1>10, <1>11 DEF Known, Badge
<1>13. Numbers'
  <2>1. \A h \in Requests : h # g => requests[h].pc \notin Configuring \cup {"waiting"}
    BY <1>6 DEF Active
  <2>2. r.pc \notin {"queued", "waiting"}
    BY DEF Configuring
  <2> QED
    BY <1>0, <1>2, <2>1, <2>2 DEF Numbers
<1>14. Ports'
  <2>1. Accounted => Accounted'
    BY <1>4 DEF Accounted
  <2>2. portUp' = Stations => Accounted'
    BY DEF Accounted
  <2>3. (\E i \in 1 .. teamNetwork : switches'[i].synced)
        => sw.synced \/ \E i \in 1 .. teamNetwork : switches[i].synced
    BY <1>1, <1>3
  <2>4. (\E h \in Requests : requests'[h].pc \in AfterBaseline)
        => r.pc \in AfterBaseline \/ \E h \in Requests : requests[h].pc \in AfterBaseline
    BY <1>2
  <2>5. sw.synced \/ r.pc \in AfterBaseline => Accounted'
    BY <1>0, <1>1, <2>1, <2>2 DEF Ports
  <2> QED
    BY <1>0, <1>2, <1>3, <2>1, <2>3, <2>4, <2>5 DEF Ports
<1>15. OneSubnetPerTeam'
  BY DEF OneSubnetPerTeam
<1> QED
  BY <1>5, <1>8, <1>12, <1>13, <1>14, <1>15 DEF IInv
\* What is known of a request at work and of its object.
LEMMA AtWork ==
  ASSUME IInv, NEW g \in Requests, Active(g)
  PROVE  /\ requests[g] \in RequestType /\ requests[g].teams \in Lineups
         /\ requests[g].sw \in 1 .. teamNetwork
         /\ switches[requests[g].sw] \in SwitchType /\ switches \in Seq(SwitchType)
         /\ Plan(requests[g], switches[requests[g].sw], pool)
         /\ pool \in Lineups /\ portUp \subseteq Stations
         /\ requests[g].pc \in Configuring => taken = g
<1>1. /\ TypeOK /\ pool \in Lineups
      /\ requests[g].sw \in 1 .. teamNetwork /\ Plan(requests[g], switches[requests[g].sw], pool)
      /\ requests[g].pc \in Configuring => taken = g
  BY DEF IInv, OneAtATime, Numbers, OneSubnetPerTeam
<1>2. requests \in Seq(RequestType) /\ switches \in Seq(SwitchType) /\ portUp \subseteq Stations
  BY <1>1 DEF TypeOK
<1>3. requests[g] \in RequestType /\ switches[requests[g].sw] \in SwitchType
  BY <1>1, <1>2 DEF Requests, teamNetwork
<1>4. requests[g].teams \in Lineups
  BY <1>3 DEF RequestType
<1> QED
  BY <1>1, <1>2, <1>3, <1>4

\* A session that fails leaves an object that knows that it knows nothing.
LEMMA FailKeeps ==
  ASSUME IInv, NEW g \in Requests, requests[g].pc \in Configuring, Fail(g),
         UNCHANGED <<arenaVars, cycles, taken>>,
         pool' \in Lineups, portUp \subseteq portUp', portUp' \subseteq Stations
  PROVE  IInv'
<1> DEFINE r == [requests[g] EXCEPT !.pc = "done", !.sw = 0, !.rebuild = {}]
           sw == [switches[requests[g].sw] EXCEPT !.synced = FALSE, !.Status = "ERROR"]
<1>1. Active(g)
  BY DEF Active
<1>2. requests[g] \in RequestType /\ switches[requests[g].sw] \in SwitchType /\ taken = g
  BY <1>1, AtWork
<1>3. r \in RequestType /\ r.pc = "done" /\ r.teams = requests[g].teams
  <2>1. 0 \in 0 .. MaxSwitches
    BY SwitchesAssumption
  <2> QED
    BY <1>2, <2>1 DEF RequestType
<1>4. sw \in SwitchType /\ ~sw.synced /\ sw.Status # "ACTIVE"
  BY <1>2 DEF SwitchType
<1>5. requests' = [requests EXCEPT ![g] = r] /\ switches' = [switches EXCEPT ![requests[g].sw] = sw]
  BY DEF Fail, Return
<1>6. r.pc \notin AfterBaseline
  BY <1>3 DEF AfterBaseline
<1> HIDE DEF r, sw
<1> QED
  BY <1>1, <1>2, <1>3, <1>4, <1>5, <1>6, WorkKeeps

\* A session that succeeds leaves what the next part of the plan asks for.
LEMMA ProceedKeeps ==
  ASSUME IInv, NEW g \in Requests, requests[g].pc \in Configuring,
         NEW next \in Configuring, Proceed(g, next),
         UNCHANGED <<arenaVars, cycles, taken>>,
         pool' \in Lineups, portUp \subseteq portUp', portUp' \subseteq Stations,
         Plan([requests[g] EXCEPT !.pc = next], switches[requests[g].sw], pool'),
         requests[g].pc \in AfterBaseline \/ portUp' = Stations
  PROVE  IInv'
<1> DEFINE r == [requests[g] EXCEPT !.pc = next]
           sw == switches[requests[g].sw]
<1>1. Active(g)
  BY DEF Active
<1>2. /\ requests[g] \in RequestType /\ sw \in SwitchType /\ taken = g
      /\ requests[g].sw \in 1 .. teamNetwork /\ switches \in Seq(SwitchType)
  BY <1>1, AtWork
<1>3. /\ r \in RequestType /\ r.pc \in Configuring /\ r.teams = requests[g].teams
      /\ r.sw = requests[g].sw
  BY <1>2, SwitchesAssumption DEF RequestType
<1>4. switches' = [switches EXCEPT ![requests[g].sw] = sw]
  BY <1>2, Unreplaced DEF Proceed, teamNetwork
<1>5. requests' = [requests EXCEPT ![g] = r]
  BY DEF Proceed
<1>6. Plan(r, sw, pool')
  OBVIOUS
<1>7. sw.synced \/ r.pc \in AfterBaseline =>
        \/ switches[requests[g].sw].synced \/ requests[g].pc \in AfterBaseline
        \/ portUp' = Stations
  OBVIOUS
<1> HIDE DEF r, sw
<1> QED
  BY <1>1, <1>2, <1>3, <1>4, <1>5, <1>6, <1>7, WorkKeeps

\* The object's mutex is taken: there is nothing to do, or the sessions to come are chosen.
LEMMA BeginKeeps ==
  ASSUME IInv, NEW g \in Requests, Begin(g)
  PROVE  IInv'
<1> DEFINE n == requests[g].sw
           sw == switches[n]
           teams == requests[g].teams
           done == [requests[g] EXCEPT !.pc = "done", !.sw = 0, !.rebuild = {}]
           begun == [requests[g] EXCEPT !.pc = IF sw.synced THEN "remove" ELSE "baseline",
                                        !.rebuild = Rebuild(sw, teams)]
<1>1. /\ requests[g].pc = "waiting" /\ Active(g)
      /\ UNCHANGED <<arenaVars, cycles, pool, portUp>> /\ taken' = g
  BY DEF Begin, Active, equipmentVars
<1>2. /\ requests[g] \in RequestType /\ sw \in SwitchType /\ pool \in Lineups
      /\ portUp \subseteq Stations
      /\ Plan(requests[g], sw, pool)
  BY <1>1, AtWork
<1>3. pool' \in Lineups /\ portUp \subseteq portUp' /\ portUp' \subseteq Stations
  BY <1>1, <1>2
<1>4. sw.synced => pool' = sw.applied
  BY <1>1, <1>2 DEF Plan
<1>5. done \in RequestType /\ done.pc = "done" /\ done.teams = teams /\ done.pc \notin AfterBaseline
  <2>1. 0 \in 0 .. MaxSwitches
    BY SwitchesAssumption
  <2>2. done \in RequestType /\ done.pc = "done" /\ done.teams = teams
    BY <1>2, <2>1 DEF RequestType
  <2> QED
    BY <2>2 DEF AfterBaseline
<1>6. ASSUME ~sw.addressed, Return(g, [sw EXCEPT !.Status = "DISABLED"])
      PROVE  IInv'
  <2> DEFINE left == [sw EXCEPT !.Status = "DISABLED"]
  <2>1. /\ left \in SwitchType /\ left.Status # "ACTIVE"
        /\ left.synced = sw.synced /\ left.applied = sw.applied
    BY <1>2 DEF SwitchType
  <2>2. requests' = [requests EXCEPT ![g] = done] /\ switches' = [switches EXCEPT ![n] = left]
    BY <1>6 DEF Return
  <2> HIDE DEF left, done
  <2> QED
    BY <1>1, <1>3, <1>4, <1>5, <2>1, <2>2, WorkKeeps
<1>7. ASSUME sw.synced, teams = sw.applied, Return(g, [sw EXCEPT !.Status = "ACTIVE"])
      PROVE  IInv'
  <2> DEFINE left == [sw EXCEPT !.Status = "ACTIVE"]
  <2>1. left \in SwitchType /\ left.synced = sw.synced /\ left.applied = sw.applied
    BY <1>2 DEF SwitchType
  <2>2. requests' = [requests EXCEPT ![g] = done] /\ switches' = [switches EXCEPT ![n] = left]
    BY <1>7 DEF Return
  <2> HIDE DEF left, done
  <2> QED
    BY <1>1, <1>3, <1>4, <1>5, <1>7, <2>1, <2>2, WorkKeeps
<1>8. ASSUME requests' = [requests EXCEPT ![g] = begun],
             switches' = [switches EXCEPT ![n].Status = "CONFIGURING"]
      PROVE  IInv'
  <2> DEFINE left == [sw EXCEPT !.Status = "CONFIGURING"]
  <2>1. /\ left \in SwitchType /\ left.Status # "ACTIVE"
        /\ left.synced = sw.synced /\ left.applied = sw.applied
    BY <1>2 DEF SwitchType
  <2>2. switches' = [switches EXCEPT ![n] = left]
    BY <1>8
  <2>3. Rebuild(sw, teams) \in SUBSET Stations /\ Rebuild(left, teams) = Rebuild(sw, teams)
    BY <2>1 DEF Rebuild
  <2>4. /\ begun \in RequestType /\ begun.pc = (IF sw.synced THEN "remove" ELSE "baseline")
        /\ begun.teams = teams /\ begun.sw = n /\ begun.rebuild = Rebuild(sw, teams)
    BY <1>2, <2>3 DEF RequestType, Configuring
  <2>5. begun.pc \in Configuring /\ (begun.pc \in AfterBaseline => sw.synced)
    BY <2>4 DEF Configuring, AfterBaseline
  <2>6. Plan(begun, left, pool')
    BY <1>4, <2>1, <2>3, <2>4 DEF Plan
  <2> HIDE DEF left, begun
  <2> QED
    BY <1>1, <1>3, <1>8, <2>1, <2>2, <2>4, <2>5, <2>6, WorkKeeps
<1> HIDE DEF done, begun
<1> QED
  BY <1>6, <1>7, <1>8 DEF Begin, begun

\* The sessions and what follows them.
LEMMA SessionsKeep ==
  ASSUME IInv, NEW g \in Requests, Baseline(g) \/ Save(g) \/ Remove(g) \/ Add(g) \/ Settle(g)
  PROVE  IInv'
<1> DEFINE sw == switches[requests[g].sw]
           teams == requests[g].teams
           rebuild == requests[g].rebuild
           Next_(next) == [requests[g] EXCEPT !.pc = next]
<1>1. /\ requests[g].pc \in Configuring /\ Active(g)
      /\ UNCHANGED <<arenaVars, cycles, taken>>
  BY DEF Baseline, Save, Remove, Add, Settle, Active, Configuring
<1>2. /\ requests[g] \in RequestType /\ sw \in SwitchType /\ teams \in Lineups
      /\ pool \in Lineups /\ portUp \subseteq Stations /\ taken = g
      /\ Plan(requests[g], sw, pool)
  BY <1>1, AtWork
<1>3. \A next \in Configuring : /\ Next_(next).pc = next /\ Next_(next).teams = teams
                                /\ Next_(next).rebuild = rebuild
  BY <1>2 DEF RequestType
<1>4. NumStations \in Nat \ {0} /\ Stations = 1 .. NumStations
  BY StationsAssumption DEF Stations
<1>5. {"baseline", "save", "remove", "add", "settle"} = Configuring
  BY DEF Configuring
<1>6. sw.Status # "ACTIVE"
  BY <1>1, <1>2 DEF Plan, Configuring
<1>7. pool \in [Stations -> Teams \cup {NoTeam}] /\ teams \in [Stations -> Teams \cup {NoTeam}]
  BY <1>2 DEF Lineups
<1>8. CASE Baseline(g)
  <2>1. PICK m \in 0 .. NumStations : portUp' = portUp \cup 1 .. m /\ Session(g, m, "save")
    BY <1>8 DEF Baseline
  <2>2. /\ requests[g].pc = "baseline" /\ pool' = pool /\ ~sw.synced
        /\ rebuild = Rebuild(sw, teams)
    BY <1>2, <1>8 DEF Baseline, Plan
  <2>3. portUp \subseteq portUp' /\ portUp' \subseteq Stations
    <3>1. 1 .. m \subseteq Stations
      BY <1>4
    <3> QED
      BY <1>2, <2>1, <3>1
  <2>4. CASE m = NumStations /\ Proceed(g, "save")
    <3>1. portUp' = Stations
      BY <1>2, <1>4, <2>1, <2>4
    <3>2. Plan(Next_("save"), sw, pool')
      BY <1>3, <1>5, <1>6, <2>2 DEF Plan
    <3> QED
      BY <1>1, <1>2, <1>5, <2>2, <2>3, <2>4, <3>1, <3>2, ProceedKeeps
  <2>5. CASE Fail(g)
    BY <1>1, <1>2, <2>2, <2>3, <2>5, FailKeeps
  <2> QED
    BY <2>1, <2>4, <2>5 DEF Session
<1>9. CASE Save(g)
  <2>1. /\ requests[g].pc = "save" /\ pool' = pool /\ portUp' = portUp /\ ~sw.synced
        /\ Proceed(g, "remove") \/ Fail(g)
    BY <1>2, <1>9 DEF Save, Plan, Session, equipmentVars
  <2>2. CASE Proceed(g, "remove")
    <3>1. rebuild = Rebuild(sw, teams)
      BY <1>2, <2>1 DEF Plan
    <3>2. Plan(Next_("remove"), sw, pool')
      BY <1>3, <1>5, <1>6, <2>1, <3>1 DEF Plan
    <3> QED
      BY <1>1, <1>2, <1>5, <2>1, <2>2, <3>2, ProceedKeeps DEF AfterBaseline
  <2>3. CASE Fail(g)
    BY <1>1, <1>2, <2>1, <2>3, FailKeeps
  <2> QED
    BY <2>1, <2>2, <2>3
<1>10. CASE Remove(g)
  <2>1. PICK m \in 0 .. NumStations :
          /\ pool' = [s \in Stations |-> IF s \in rebuild \cap 1 .. m THEN NoTeam ELSE pool[s]]
          /\ Session(g, m, "add")
    BY <1>10 DEF Remove
  <2>2. /\ requests[g].pc = "remove" /\ portUp' = portUp /\ (sw.synced => pool = sw.applied)
        /\ rebuild = Rebuild(sw, teams)
    BY <1>2, <1>10 DEF Remove, Plan
  <2>3. pool' \in Lineups
    <3>1. /\ pool' \in [Stations -> Teams \cup {NoTeam}]
          /\ \A s \in Stations : pool'[s] \in {NoTeam, pool[s]}
      BY <1>7, <2>1
    <3> QED
      BY <1>2, <3>1, FewerTeams
  <2>4. CASE m = NumStations /\ Proceed(g, "add")
    <3>1. \A s \in Stations : pool'[s] = IF s \in rebuild THEN NoTeam ELSE pool[s]
      BY <1>4, <2>1, <2>4
    <3>2. \A s \in Stations \ rebuild : pool[s] = teams[s]
      BY <2>2 DEF Rebuild
    <3>3. Plan(Next_("add"), sw, pool')
      BY <1>3, <1>5, <1>6, <3>1, <3>2 DEF Plan
    <3> QED
      BY <1>1, <1>2, <1>5, <2>2, <2>3, <2>4, <3>3, ProceedKeeps DEF AfterBaseline
  <2>5. CASE Fail(g)
    BY <1>1, <1>2, <2>2, <2>3, <2>5, FailKeeps
  <2> QED
    BY <2>1, <2>4, <2>5 DEF Session
<1>11. CASE Add(g)
  <2> DEFINE filled == {s \in rebuild : teams[s] # NoTeam}
  <2>1. /\ requests[g].pc = "add" /\ portUp' = portUp
        /\ \A s \in Stations : pool[s] = IF s \in rebuild THEN NoTeam ELSE teams[s]
    BY <1>2, <1>11 DEF Add, Plan
  <2>2. CASE filled = {} /\ Proceed(g, "settle") /\ pool' = pool
    <3>1. \A s \in Stations : pool[s] = teams[s]
      BY <2>1, <2>2
    <3>2. pool' = teams
      BY <1>7, <2>2, <3>1
    <3>3. Plan(Next_("settle"), sw, pool')
      BY <1>3, <1>5, <1>6, <3>2 DEF Plan
    <3> QED
      BY <1>1, <1>2, <1>5, <2>1, <2>2, <3>3, ProceedKeeps DEF AfterBaseline
  <2>3. ASSUME NEW m \in 0 .. NumStations, Session(g, m, "settle"),
               pool' = [s \in Stations |->
                          IF s \in filled \cap 1 .. m THEN teams[s] ELSE pool[s]]
        PROVE  IInv'
    <3>1. pool' \in Lineups
      <4>1. /\ pool' \in [Stations -> Teams \cup {NoTeam}]
            /\ \A s \in Stations : pool'[s] \in {NoTeam, teams[s]}
        BY <1>7, <2>1, <2>3
      <4> QED
        BY <1>2, <4>1, FewerTeams
    <3>2. CASE m = NumStations /\ Proceed(g, "settle")
      <4>1. \A s \in Stations : pool'[s] = teams[s]
        BY <1>4, <2>1, <2>3, <3>2
      <4>2. pool' = teams
        BY <1>7, <2>3, <4>1
      <4>3. Plan(Next_("settle"), sw, pool')
        BY <1>3, <1>5, <1>6, <4>2 DEF Plan
      <4> QED
        BY <1>1, <1>2, <1>5, <2>1, <3>1, <3>2, <4>3, ProceedKeeps DEF AfterBaseline
    <3>3. CASE Fail(g)
      BY <1>1, <1>2, <2>1, <3>1, <3>3, FailKeeps
    <3> QED
      BY <2>3, <3>2, <3>3 DEF Session
  <2> QED
    BY <1>11, <2>2, <2>3 DEF Add
<1>12. CASE Settle(g)
  <2> DEFINE done == [requests[g] EXCEPT !.pc = "done", !.sw = 0, !.rebuild = {}]
             left == [sw EXCEPT !.applied = teams, !.synced = TRUE, !.Status = "ACTIVE"]
  <2>1. /\ requests[g].pc = "settle" /\ pool' = pool /\ portUp' = portUp /\ pool = teams
        /\ requests' = [requests EXCEPT ![g] = done]
        /\ switches' = [switches EXCEPT ![requests[g].sw] = left]
    BY <1>2, <1>12 DEF Settle, Return, Plan, equipmentVars
  <2>2. done \in RequestType /\ done.pc = "done" /\ done.teams = teams
    <3>1. 0 \in 0 .. MaxSwitches
      BY SwitchesAssumption
    <3> QED
      BY <1>2, <3>1 DEF RequestType
  <2>3. left \in SwitchType /\ left.synced /\ left.applied = teams
    BY <1>2 DEF SwitchType
  <2> HIDE DEF done, left
  <2> QED
    BY <1>1, <1>2, <2>1, <2>2, <2>3, WorkKeeps DEF AfterBaseline
<1> QED
  BY <1>8, <1>9, <1>10, <1>11, <1>12

-----------------------------------------------------------------------------
(* Port cycles                                                               *)

\* A cycle that shuts ports answers for them, and one that is done has reopened its own.
LEMMA CycleKeeps ==
  ASSUME IInv, NEW c \in 1 .. Len(cycles), Cycle(c)
  PROVE  IInv'
<1>0. TypeOK /\ OneAtATime /\ Known /\ Badge /\ Numbers /\ Ports /\ OneSubnetPerTeam
  BY DEF IInv
<1>1. cycles \in Seq(CycleType) /\ cycles[c] \in CycleType /\ portUp \subseteq Stations
  BY <1>0 DEF TypeOK
<1>2. /\ UNCHANGED <<lineup, networkSecurityEnabled, started, requests, switches, pool, taken>>
      /\ teamNetwork' = teamNetwork
  BY DEF Cycle, Shut, Reopen, arenaVars, teamNetwork
<1>3. PICK pc \in {"reopen", "done", "failed"} :
        /\ CyclePc(c, pc) /\ portUp' \subseteq Stations
        /\ portUp \ cycles[c].stations \subseteq portUp'
        /\ portUp \subseteq portUp' \/ pc \in {"reopen", "failed"}
        /\ pc = "done" => cycles[c].stations \subseteq portUp'
  <2>1. NumStations \in Nat /\ Stations = 1 .. NumStations /\ cycles[c].stations \subseteq Stations
    BY <1>1, StationsAssumption DEF Stations, CycleType
  <2>2. CASE Shut(c)
    <3>1. CASE CyclePc(c, "failed") /\ portUp' = portUp
      BY <1>1, <3>1
    <3>2. ASSUME NEW m \in 0 .. NumStations,
                 portUp' = portUp \ (cycles[c].stations \cap 1 .. m),
                 CyclePc(c, "reopen") \/ CyclePc(c, "failed")
          PROVE  \/ /\ CyclePc(c, "reopen") /\ portUp' \subseteq Stations
                    /\ portUp \ cycles[c].stations \subseteq portUp'
                 \/ /\ CyclePc(c, "failed") /\ portUp' \subseteq Stations
                    /\ portUp \ cycles[c].stations \subseteq portUp'
      BY <1>1, <3>2
    <3> QED
      BY <2>2, <3>1, <3>2 DEF Shut
  <2>3. CASE Reopen(c)
    <3>1. PICK m \in 0 .. NumStations :
            /\ portUp' = portUp \cup (cycles[c].stations \cap 1 .. m)
            /\ (m = NumStations /\ CyclePc(c, "done")) \/ CyclePc(c, "failed")
      BY <2>3 DEF Reopen
    <3>2. portUp' \subseteq Stations /\ portUp \subseteq portUp'
      BY <1>1, <2>1, <3>1
    <3>3. m = NumStations => cycles[c].stations \subseteq portUp'
      BY <2>1, <3>1
    <3> QED
      BY <3>1, <3>2, <3>3
  <2> QED
    BY <2>2, <2>3 DEF Cycle
<1>4. /\ cycles' \in Seq(CycleType) /\ Len(cycles') = Len(cycles)
      /\ cycles'[c].pc = pc /\ cycles'[c].stations = cycles[c].stations
      /\ \A d \in 1 .. Len(cycles) : d # c => cycles'[d] = cycles[d]
  <2> DEFINE r == [cycles[c] EXCEPT !.pc = pc]
  <2>1. r \in CycleType /\ r.pc = pc /\ r.stations = cycles[c].stations
    BY <1>1 DEF CycleType
  <2>2. cycles' = [cycles EXCEPT ![c] = r]
    BY <1>3 DEF CyclePc
  <2> HIDE DEF r
  <2> QED
    BY <1>1, <2>1, <2>2, Replaced
<1>5. TypeOK'
  BY <1>0, <1>2, <1>3, <1>4 DEF TypeOK
<1>6. OneAtATime' /\ Known' /\ Badge' /\ Numbers' /\ OneSubnetPerTeam'
  <2>1. OneAtATime'
    BY <1>0, <1>2 DEF OneAtATime, Requests, Active, Plan, Rebuild
  <2>2. Known' /\ Badge' /\ Numbers' /\ OneSubnetPerTeam'
    BY <1>0, <1>2 DEF Known, Applying, Badge, Numbers, OneSubnetPerTeam, Requests
  <2> QED
    BY <2>1, <2>2
<1>7. Accounted => Accounted'
  <2> SUFFICES ASSUME Accounted, NEW s \in Stations \ portUp'
               PROVE  \E d \in 1 .. Len(cycles) :
                        cycles'[d].pc \in {"reopen", "failed"} /\ s \in cycles'[d].stations
    BY <1>4 DEF Accounted
  <2>1. CASE s \in portUp
    <3>1. s \in cycles[c].stations /\ pc \in {"reopen", "failed"}
      BY <1>3, <2>1
    <3> QED
      BY <1>4, <3>1
  <2>2. CASE s \notin portUp
    <3>1. PICK d \in 1 .. Len(cycles) :
            cycles[d].pc \in {"reopen", "failed"} /\ s \in cycles[d].stations
      BY <2>2 DEF Accounted
    <3>2. d = c => pc \in {"reopen", "failed"}
      BY <1>3, <3>1
    <3> QED
      BY <1>4, <3>1, <3>2
  <2> QED
    BY <2>1, <2>2
<1>8. Ports'
  BY <1>0, <1>2, <1>7 DEF Ports, Requests
<1> QED
  BY <1>5, <1>6, <1>8 DEF IInv
-----------------------------------------------------------------------------
(* The theorems                                                              *)

\* Every step keeps the invariant.
LEMMA NextIInv == IInv /\ [Next]_vars => IInv'
<1> SUFFICES ASSUME IInv, [Next]_vars PROVE IInv'
  OBVIOUS
<1>1. lineup \in Lineups /\ started \in BOOLEAN
  BY DEF IInv, TypeOK
<1>2. ASSUME NEW teams \in Lineups, LoadLineup(teams) PROVE IInv'
  BY <1>1, <1>2, NewWorkKeeps DEF LoadLineup
<1>3. CASE ClearMatch
  <2>1. {s \in Stations : lineup[s] # NoTeam} \in SUBSET Stations
    OBVIOUS
  <2> QED
    BY <1>1, <1>3, <2>1, NewWorkKeeps DEF ClearMatch, arenaVars
<1>4. CASE LoadSettings
  BY <1>4, NewObjectKeeps
<1>5. CASE RunConfigures
  BY <1>1, <1>5, EmptyIsLineup, NewWorkKeeps DEF RunConfigures
<1>6. ASSUME NEW g \in 1 .. Len(requests), Configure(g) PROVE IInv'
  BY <1>6, TakeKeeps, BeginKeeps, SessionsKeep DEF Configure, Requests
<1>7. ASSUME NEW c \in 1 .. Len(cycles), Cycle(c) PROVE IInv'
  BY <1>7, CycleKeeps
<1>8. CASE UNCHANGED vars
  <2>1. UNCHANGED <<lineup, networkSecurityEnabled, started, requests, cycles, switches, pool,
                    portUp, taken>>
    BY <1>8 DEF vars, arenaVars, equipmentVars
  <2>2. TypeOK' /\ OneAtATime'
    <3>1. TypeOK'
      BY <2>1 DEF IInv, TypeOK, teamNetwork
    <3>2. OneAtATime'
      BY <2>1 DEF IInv, OneAtATime, Requests, Active, Plan, Rebuild, teamNetwork
    <3> QED
      BY <3>1, <3>2
  <2>3. Known' /\ Badge' /\ Numbers' /\ Ports' /\ OneSubnetPerTeam'
    BY <2>1 DEF IInv, Known, Applying, Badge, Numbers, Ports, Accounted, OneSubnetPerTeam, Requests,
                teamNetwork
  <2> QED
    BY <2>2, <2>3 DEF IInv
<1> QED
  BY <1>2, <1>3, <1>4, <1>5, <1>6, <1>7, <1>8 DEF Next, Goroutines

\* The invariant holds in every state.
LEMMA Invariant == Spec => []IInv
<1>1. IInv /\ [Next]_vars => IInv'
  BY NextIInv
<1> QED
  BY <1>1, InitIInv, PTL DEF Spec

\* Every variable has its type, whatever the sessions leave behind.
THEOREM NetworkIsTyped == Spec => []TypeOK
<1>1. IInv => TypeOK
  BY DEF IInv
<1> QED
  BY <1>1, Invariant, PTL

\* When the badge reads ACTIVE the switch carries the lineup of the last request begun
\* (Switch.ConfigureTeamEthernet).
THEOREM BadgeIsTrue == Spec => []ActiveMeansCarried
<1>1. IInv => ActiveMeansCarried
  <2> SUFFICES ASSUME IInv, switches[teamNetwork].Status = "ACTIVE"
               PROVE  /\ pool = switches[teamNetwork].applied
                      /\ pool = requests[taken].teams
    BY DEF ActiveMeansCarried
  <2>1. /\ switches[teamNetwork].synced
        /\ switches[teamNetwork].applied = requests[taken].teams
    BY DEF IInv, Badge
  <2>2. CASE ~Applying
    BY <2>1, <2>2 DEF IInv, Known
  <2>3. CASE Applying
    <3>1. PICK g \in Requests : Active(g)
      BY <2>3 DEF Applying, Active, Requests
    <3>2. /\ requests[g].sw \in 1 .. teamNetwork
          /\ \A i \in 1 .. teamNetwork : i > requests[g].sw => switches[i].Status # "ACTIVE"
          /\ Plan(requests[g], switches[requests[g].sw], pool)
          /\ teamNetwork \in 1 .. MaxSwitches
      BY <3>1 DEF IInv, OneAtATime, TypeOK
    <3>3. teamNetwork \in 1 .. teamNetwork
      BY <3>2, SwitchesAssumption
    <3>4. requests[g].sw = teamNetwork
      BY <3>2, <3>3, SwitchesAssumption
    <3>5. requests[g].pc = "waiting" /\ pool = switches[teamNetwork].applied
      BY <2>1, <3>2, <3>4 DEF Plan
    <3> QED
      BY <2>1, <3>5
  <2> QED
    BY <2>2, <2>3
<1> QED
  BY <1>1, Invariant, PTL

\* No team's subnet is ever on two VLANs (removeTeamConfig before addTeamConfig).
THEOREM SubnetsNeverMeet == Spec => []OneSubnetPerTeam
<1>1. IInv => OneSubnetPerTeam
  BY DEF IInv
<1> QED
  BY <1>1, Invariant, PTL

\* A port is down only while a cycle is about to reopen it or after one that failed
\* (Switch.CycleStationPorts).
THEOREM PortsAreAccountedFor == Spec => []PortsComeBack
<1>1. IInv => PortsComeBack
  BY DEF IInv, Ports, Accounted, PortsComeBack, teamNetwork
<1> QED
  BY <1>1, Invariant, PTL

\* What is begun is taken up in the order of the requests, none after a newer one and none
\* that was superseded before it was taken: the safety part of LatestWins
\* (configureTeamEthernet).
THEOREM NewestIsTakenUp == Spec => LW!Init /\ [][LW!Next]_LW!vars
<1>1. Init => LW!Init
  <2> SUFFICES ASSUME Init PROVE LW!Init
    OBVIOUS
  <2>1. requests = <<>> \/ Len(requests) = 1
    BY DEF Init
  <2> QED
    BY <2>1 DEF Init, LW!Init, ethernetConfigGeneration
<1>2. IInv /\ [Next]_vars => [LW!Next]_LW!vars
  <2> SUFFICES ASSUME IInv, [Next]_vars PROVE [LW!Next]_LW!vars
    OBVIOUS
  <2>0. requests \in Seq(RequestType) /\ Len(requests) \in Nat /\ taken \in 0 .. Len(requests)
    BY DEF IInv, TypeOK
  <2>1. ASSUME taken' = taken,
               requests' = requests \/ Len(requests') \in {Len(requests), Len(requests) + 1}
        PROVE  [LW!Next]_LW!vars
    BY <2>1 DEF LW!Next, LW!Request, LW!vars, ethernetConfigGeneration
  <2>2. ASSUME NEW teams, ConfigureTeamEthernet(teams)
        PROVE  Len(requests') \in {Len(requests), Len(requests) + 1}
    <3> DEFINE new == [teams |-> teams, pc |-> "queued", sw |-> 0, rebuild |-> {}]
    <3>1. requests' = requests \/ requests' = Append(requests, new)
      BY <2>2 DEF ConfigureTeamEthernet
    <3> HIDE DEF new
    <3> QED
      BY <2>0, <3>1
  <2>3. CASE (\E teams \in Lineups : LoadLineup(teams)) \/ ClearMatch \/ RunConfigures
    <3>1. taken' = taken
      BY <2>3 DEF LoadLineup, ClearMatch, RunConfigures
    <3>2. \E teams : ConfigureTeamEthernet(teams)
      BY <2>3 DEF LoadLineup, ClearMatch, RunConfigures
    <3> QED
      BY <2>1, <2>2, <3>1, <3>2
  <2>4. CASE LoadSettings \/ (\E c \in 1 .. Len(cycles) : Cycle(c)) \/ UNCHANGED vars
    <3>1. taken' = taken /\ requests' = requests
      BY <2>4 DEF LoadSettings, Cycle, Shut, Reopen, vars
    <3> QED
      BY <2>1, <3>1
  <2>5. ASSUME NEW g \in Requests, Configure(g) PROVE [LW!Next]_LW!vars
    <3>1. Len(requests') = Len(requests)
      <4>1. \A i, x : Len([requests EXCEPT ![i] = x]) = Len(requests)
        BY <2>0
      <4>2. \E x : requests' = [requests EXCEPT ![g] = x]
        BY <2>5 DEF Configure, Take, Begin, Baseline, Save, Remove, Add, Settle, Session, Fail,
                    Return, Proceed
      <4> QED
        BY <4>1, <4>2
    <3>2. CASE Begin(g)
      <4>1. requests[g].pc = "waiting" /\ taken' = g
        BY <3>2 DEF Begin
      <4>2. taken < g
        BY <4>1 DEF IInv, Numbers
      <4>3. g \in (taken + 1) .. Len(requests)
        BY <2>0, <4>2 DEF Requests
      <4> QED
        BY <3>1, <4>1, <4>3 DEF LW!Next, LW!Take, ethernetConfigGeneration
    <3>3. CASE ~Begin(g)
      <4>1. taken' = taken
        BY <2>5, <3>3 DEF Configure, Take, Baseline, Save, Remove, Add, Settle
      <4> QED
        BY <2>1, <3>1, <4>1
    <3> QED
      BY <3>2, <3>3
  <2> QED
    BY <2>3, <2>4, <2>5 DEF Next, Goroutines, Requests
<1> QED
  BY <1>1, <1>2, Invariant, PTL DEF Spec
=============================================================================
