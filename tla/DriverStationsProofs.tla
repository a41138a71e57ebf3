-------------------------- MODULE DriverStationsProofs -------------------------
(***************************************************************************)
(* Theorems about DriverStations.tla, for any number of stations, teams    *)
(* and connections: whose driver station a station listens to, what the    *)
(* process dies of, and whom a connection that fails takes along.          *)
(*                                                                         *)
(* NoStrangerAtStation is not inductive by itself.  What it takes is that  *)
(* the connection between its look-up and its installation is not at a     *)
(* station yet, is younger than those that are, and, unless the lineup has *)
(* changed since, of the team of the station it will be installed at.      *)
(***************************************************************************)
EXTENDS DriverStations, TLAPS

\* The connection being accepted, and those at stations, have been made.
Made ==
  /\ accepting # NoConn => accepting <= connected
  /\ \A s \in Stations : DsConn[s] # NoConn => DsConn[s] <= connected

\* The look-up still holds of the connection being accepted, unless it was disturbed.
LookedUp ==
  accepting # NoConn =>
    accepting \in disturbed \/ Team[AllianceStation[accepting]] = TeamId[accepting]

IInv == TypeOK /\ Made /\ LookedUp /\ NoStrangerAtStation

\* A new connection is none of those made before.
LEMMA NewConnection ==
  ASSUME TypeOK, connected < MaxConns
  PROVE  /\ connected + 1 \in Conns /\ connected + 1 \in 0 .. MaxConns
         /\ \A c \in Conns : c <= connected => c # connected + 1 /\ c <= connected + 1
<1>1. connected \in 0 .. MaxConns /\ MaxConns \in Nat
  BY NamesAssumption DEF TypeOK
<1> QED
  BY <1>1 DEF Conns

\* Init establishes the invariant.
LEMMA InitIInv == Init => IInv
<1> SUFFICES ASSUME Init PROVE IInv
  OBVIOUS
<1>1. (CHOOSE s \in Stations : TRUE) \in Stations
  BY NamesAssumption
<1>2. TypeOK
  <2>1. AllianceStation \in [Conns -> Stations]
    BY <1>1 DEF Init
  <2>2. connected \in 0 .. MaxConns
    <3>1. MaxConns \in Nat
      BY NamesAssumption
    <3>2. connected = 0
      BY DEF Init
    <3> QED
      BY <3>1, <3>2
  <2>3. /\ Team \in [Stations -> Teams \cup {NoTeam}]
        /\ DsConn \in [Stations -> Conns \cup {NoConn}]
        /\ \A s \in Stations : DsConn[s] = NoConn
        /\ TeamId \in [Conns -> Teams \cup {NoTeam}] /\ newDs \in [Conns -> BOOLEAN]
        /\ peer \in [Conns -> BOOLEAN] /\ open \in [Conns -> BOOLEAN]
        /\ SentGameData \in [Conns -> Values] /\ heard \in [Conns -> Values]
        /\ reader \in [Conns -> {"none", "reading", "closed", "matched", "done"}]
    BY DEF Init, Values
  <2>4. GameData \in Values /\ accepting \in Conns \cup {NoConn} /\ disturbed \subseteq Conns
        /\ panicked \in BOOLEAN
    BY DEF Init, Values
  <2> QED
    BY <2>1, <2>2, <2>3, <2>4 DEF TypeOK
<1> QED
  BY <1>2 DEF Init, IInv, Made, LookedUp, NoStrangerAtStation

-----------------------------------------------------------------------------
(* The steps                                                                 *)

\* A driver station connects: everything at a station was there before it.
LEMMA AcceptKeeps ==
  ASSUME IInv, NEW team \in Teams, NEW new \in BOOLEAN, Accept(team, new)
  PROVE  IInv'
<1> DEFINE c == connected + 1
<1> USE DEF IInv
<1>1. /\ accepting = NoConn /\ connected < MaxConns /\ connected' = c
      /\ TeamId' = [TeamId EXCEPT ![c] = team] /\ newDs' = [newDs EXCEPT ![c] = new]
      /\ peer' = [peer EXCEPT ![c] = TRUE]
      /\ UNCHANGED <<stationVars, dataVars, reader, disturbed, panicked>>
  BY DEF Accept
<1>2. \/ \E s \in Stations : /\ Team[s] = team
                             /\ AllianceStation' = [AllianceStation EXCEPT ![c] = s]
                             /\ open' = [open EXCEPT ![c] = TRUE] /\ accepting' = c
      \/ UNCHANGED <<AllianceStation, open, accepting>>
  BY DEF Accept
<1>3. /\ c \in Conns /\ c \in 0 .. MaxConns
      /\ \A d \in Conns : d <= connected => d # c /\ d <= c
  BY <1>1, NewConnection
<1> HIDE DEF c
<1>4. /\ AllianceStation' \in [Conns -> Stations] /\ open' \in [Conns -> BOOLEAN]
      /\ accepting' \in {NoConn, c}
      /\ \A d \in Conns : d # c => AllianceStation'[d] = AllianceStation[d]
  BY <1>1, <1>2, <1>3 DEF TypeOK
<1>5. \A s \in Stations : DsConn[s] # NoConn => DsConn[s] \in Conns /\ DsConn[s] # c
  BY <1>3 DEF TypeOK, Made
<1>6. TypeOK'
  <2>1. TeamId' \in [Conns -> Teams \cup {NoTeam}] /\ newDs' \in [Conns -> BOOLEAN]
        /\ peer' \in [Conns -> BOOLEAN]
    BY <1>1, <1>3 DEF TypeOK
  <2>2. connected' \in 0 .. MaxConns
    BY <1>1, <1>3
  <2>3. accepting' \in Conns \cup {NoConn}
    BY <1>3, <1>4
  <2>4. \A s \in Stations : DsConn'[s] # NoConn =>
                              AllianceStation'[DsConn'[s]] = s /\ reader'[DsConn'[s]] # "none"
    BY <1>1, <1>4, <1>5 DEF TypeOK, stationVars
  <2> QED
    BY <1>1, <1>4, <2>1, <2>2, <2>3, <2>4 DEF TypeOK, stationVars, dataVars
<1>7. Made'
  <2>1. c <= c
    BY <1>3
  <2>2. \A s \in Stations : DsConn[s] # NoConn => DsConn[s] <= c
    BY <1>3, <1>5 DEF Made
  <2> QED
    BY <1>1, <1>4, <2>1, <2>2 DEF Made, stationVars
<1>8. LookedUp'
  <2>1. CASE accepting' = NoConn
    BY <2>1 DEF LookedUp
  <2>2. CASE accepting' # NoConn
    <3>1. PICK s \in Stations : /\ Team[s] = team /\ accepting' = c
                                /\ AllianceStation' = [AllianceStation EXCEPT ![c] = s]
      BY <1>1, <1>2, <2>2
    <3>2. AllianceStation'[c] = s /\ TeamId'[c] = team
      BY <1>1, <1>3, <3>1 DEF TypeOK
    <3> QED
      BY <1>1, <3>1, <3>2 DEF LookedUp, stationVars
  <2> QED
    BY <2>1, <2>2
<1>9. NoStrangerAtStation'
  <2>1. \A d \in Conns : d # c => TeamId'[d] = TeamId[d]
    BY <1>1 DEF TypeOK
  <2> QED
    BY <1>1, <1>5, <2>1 DEF NoStrangerAtStation, stationVars
<1> QED
  BY <1>6, <1>7, <1>8, <1>9

\* The connection that is installed is of the station's team, or was disturbed.
LEMMA InstallKeeps ==
  ASSUME IInv, Install
  PROVE  IInv'
<1> USE DEF IInv
<1> DEFINE c == accepting
           at == AllianceStation[c]
<1>1. /\ c \in Conns /\ at \in Stations /\ accepting' = NoConn
      /\ DsConn' = [DsConn EXCEPT ![at] = c] /\ reader' = [reader EXCEPT ![c] = "reading"]
      /\ UNCHANGED <<Team, identityVars, dataVars, peer, open, disturbed, panicked>>
  BY DEF Install, TypeOK
<1>2. /\ DsConn'[at] = c /\ \A s \in Stations : s # at => DsConn'[s] = DsConn[s]
      /\ DsConn' \in [Stations -> Conns \cup {NoConn}]
      /\ reader'[c] = "reading" /\ \A d \in Conns : d # c => reader'[d] = reader[d]
      /\ reader' \in [Conns -> {"none", "reading", "closed", "matched", "done"}]
  BY <1>1 DEF TypeOK
<1>3. TypeOK'
  <2>1. \A s \in Stations : DsConn'[s] # NoConn =>
                              AllianceStation[DsConn'[s]] = s /\ reader'[DsConn'[s]] # "none"
    BY <1>1, <1>2 DEF TypeOK
  <2> QED
    BY <1>1, <1>2, <2>1 DEF TypeOK, identityVars, dataVars
<1>4. Made'
  BY <1>1, <1>2 DEF Made, identityVars, Install
<1>5. LookedUp'
  BY <1>1 DEF LookedUp
<1>6. NoStrangerAtStation'
  BY <1>1, <1>2 DEF NoStrangerAtStation, LookedUp, identityVars, Install
<1> QED
  BY <1>3, <1>4, <1>5, <1>6

\* A failed connection removes whichever its station holds, and nothing else of a station.
LEMMA RemoveKeeps ==
  ASSUME IInv, NEW c \in Conns, Remove(c)
  PROVE  IInv'
<1> USE DEF IInv
<1> DEFINE at == AllianceStation[c]
<1>1. /\ at \in Stations /\ DsConn' = [DsConn EXCEPT ![at] = NoConn]
      /\ reader' = [reader EXCEPT ![c] = "done"]
      /\ UNCHANGED <<Team, identityVars, dataVars, peer, open, accepting, disturbed, panicked>>
  BY DEF Remove, TypeOK
<1>2. /\ \A s \in Stations : DsConn'[s] = NoConn \/ DsConn'[s] = DsConn[s]
      /\ DsConn' \in [Stations -> Conns \cup {NoConn}]
      /\ \A d \in Conns : reader'[d] \in {reader[d], "done"}
      /\ reader' \in [Conns -> {"none", "reading", "closed", "matched", "done"}]
  BY <1>1 DEF TypeOK
<1>3. TypeOK'
  <2>1. \A s \in Stations : DsConn'[s] # NoConn =>
                              AllianceStation[DsConn'[s]] = s /\ reader'[DsConn'[s]] # "none"
    BY <1>2 DEF TypeOK
  <2> QED
    BY <1>1, <1>2, <2>1 DEF TypeOK, identityVars, dataVars
<1>4. Made' /\ NoStrangerAtStation'
  BY <1>1, <1>2 DEF Made, NoStrangerAtStation, identityVars
<1>5. LookedUp'
  BY <1>1 DEF LookedUp, identityVars
<1> QED
  BY <1>3, <1>4, <1>5

\* Assigning teams keeps a connection at a station only where it is the new team's.
LEMMA SubstituteKeeps ==
  ASSUME IInv, NEW lineup \in Lineups, SubstituteTeams(lineup)
  PROVE  IInv'
<1> USE DEF IInv
<1> DEFINE closing == {s \in Stations : DsConn[s] # NoConn} \ Kept(lineup)
<1>1. /\ Team' = [s \in Stations |-> IF s \in Kept(lineup) THEN Team[s] ELSE lineup[s]]
      /\ Close(closing) /\ Disturb
      /\ UNCHANGED <<identityVars, dataVars, peer, reader, accepting, panicked>>
  BY DEF SubstituteTeams, AssignTeams
<1>2. /\ open' \in [Conns -> BOOLEAN] /\ DsConn' \in [Stations -> Conns \cup {NoConn}]
      /\ \A s \in Stations : DsConn'[s] = NoConn \/ DsConn'[s] = DsConn[s]
      /\ \A s \in Stations : DsConn'[s] # NoConn => s \in Kept(lineup)
  BY <1>1 DEF TypeOK, Close
<1>3. Team' \in [Stations -> Teams \cup {NoTeam}]
  BY <1>1 DEF TypeOK, Lineups
<1>4. disturbed' \subseteq Conns /\ disturbed \subseteq disturbed'
      /\ (accepting # NoConn =>
            accepting \in disturbed' \/ Team'[AllianceStation[accepting]] = TeamId[accepting])
  BY <1>1 DEF Disturb, TypeOK
<1>5. TypeOK'
  BY <1>1, <1>2, <1>3, <1>4 DEF TypeOK, identityVars, dataVars
<1>6. Made'
  BY <1>1, <1>2 DEF Made, identityVars
<1>7. LookedUp'
  BY <1>1, <1>4 DEF LookedUp, identityVars
<1>8. NoStrangerAtStation'
  <2>1. \A s \in Kept(lineup) : Team'[s] = Team[s]
    BY <1>1 DEF Kept
  <2> QED
    BY <1>1, <1>2, <1>4, <2>1 DEF NoStrangerAtStation, identityVars
<1> QED
  BY <1>5, <1>6, <1>7, <1>8

\* A reset closes every connection.
LEMMA ResetKeeps ==
  ASSUME IInv, ResetField
  PROVE  IInv'
<1> USE DEF IInv
<1>1. /\ Team' = [s \in Stations |-> NoTeam] /\ GameData' = "" /\ Close(Stations) /\ Disturb
      /\ UNCHANGED <<identityVars, SentGameData, heard, peer, reader, accepting, panicked>>
  BY DEF ResetField
<1>2. open' \in [Conns -> BOOLEAN] /\ DsConn' = [s \in Stations |-> NoConn]
  BY <1>1 DEF TypeOK, Close
<1>3. disturbed' \subseteq Conns
      /\ (accepting # NoConn =>
            accepting \in disturbed' \/ Team'[AllianceStation[accepting]] = TeamId[accepting])
  BY <1>1 DEF Disturb, TypeOK
<1>4. TypeOK'
  BY <1>1, <1>2, <1>3 DEF TypeOK, identityVars, Values
<1> QED
  BY <1>1, <1>2, <1>3, <1>4 DEF Made, LookedUp, NoStrangerAtStation, identityVars

\* The other steps leave stations, teams and the accept loop's connection where they are, or
\* give that up.
LEMMA OthersKeep ==
  ASSUME IInv,
         \/ GiveUp
         \/ \E c \in Conns : ReadFails(c) \/ Compare(c) \/ PeerLeaves(c)
         \/ \E s \in Stations : SendDsPacket(s)
         \/ \E value \in Values : SetGameData(value)
         \/ UNCHANGED vars
  PROVE  IInv'
<1> USE DEF IInv
<1>1. /\ UNCHANGED <<stationVars, identityVars, disturbed>>
      /\ accepting' \in {accepting, NoConn}
  BY DEF GiveUp, ReadFails, Compare, CompareTo, PeerLeaves, SendDsPacket, SetGameData, vars
<1>2. TypeOK'
  <2> USE DEF TypeOK, stationVars, identityVars, dataVars
  <2>1. CASE GiveUp
    BY <2>1 DEF GiveUp
  <2>2. ASSUME NEW c \in Conns, ReadFails(c) PROVE TypeOK'
    BY <2>2 DEF ReadFails
  <2>3. ASSUME NEW c \in Conns, Compare(c) PROVE TypeOK'
    <3>1. reader' \in [Conns -> {"none", "reading", "closed", "matched", "done"}]
          /\ \A d \in Conns : reader'[d] \in {reader[d], "matched", "done"}
      BY <2>3 DEF Compare, CompareTo
    <3> QED
      BY <2>3, <3>1 DEF Compare, CompareTo
  <2>4. ASSUME NEW c \in Conns, PeerLeaves(c) PROVE TypeOK'
    BY <2>4 DEF PeerLeaves
  <2>5. ASSUME NEW s \in Stations, SendDsPacket(s) PROVE TypeOK'
    <3>1. SentGameData' \in [Conns -> Values] /\ heard' \in [Conns -> Values]
      BY <2>5 DEF SendDsPacket
    <3>2. panicked' \in BOOLEAN
      BY <2>5 DEF SendDsPacket
    <3> QED
      BY <2>5, <3>1, <3>2 DEF SendDsPacket
  <2>6. ASSUME NEW value \in Values, SetGameData(value) PROVE TypeOK'
    BY <2>6 DEF SetGameData
  <2>7. CASE UNCHANGED vars
    BY <2>7 DEF vars
  <2> QED
    BY <2>1, <2>2, <2>3, <2>4, <2>5, <2>6, <2>7
<1> QED
  BY <1>1, <1>2 DEF Made, LookedUp, NoStrangerAtStation, stationVars, identityVars

-----------------------------------------------------------------------------
(* The theorems                                                              *)

\* The invariant holds of every state.
LEMMA Invariant == Spec => []IInv
<1>1. IInv /\ [Next]_vars => IInv'
  BY AcceptKeeps, InstallKeeps, RemoveKeeps, SubstituteKeeps, ResetKeeps, OthersKeep DEF Next
<1> QED
  BY <1>1, InitIInv, PTL DEF Spec

\* Every variable has its type, and a connection at a station was accepted for it
\* (listenForDriverStations).
THEOREM ConnectionsAreTyped == Spec => []TypeOK
<1>1. IInv => TypeOK
  BY DEF IInv
<1> QED
  BY <1>1, Invariant, PTL

\* A station listens to a stranger only if the lineup changed while that one was accepted
\* (assignTeam, ResetField).
THEOREM NoStrangerIsHeard == Spec => []NoStrangerAtStation
<1>1. IInv => NoStrangerAtStation
  BY DEF IInv
<1> QED
  BY <1>1, Invariant, PTL

-----------------------------------------------------------------------------
(* What the process dies of                                                  *)

\* Every connection at a station, or on its way to one, says it is of some team; and a death
\* has someone to blame.
Blame ==
  /\ \A s \in Stations : DsConn[s] # NoConn => TeamId[DsConn[s]] \in Teams
  /\ accepting # NoConn => TeamId[accepting] \in Teams
  /\ panicked => disturbed # {}

\* Every step keeps it: to die takes a station without a team and a connection at it.
LEMMA BlameKept ==
  ASSUME IInv, Blame, [Next]_vars
  PROVE  Blame'
<1> USE DEF Blame, stationVars, identityVars
<1>0. NoTeam \notin Teams
  BY NamesAssumption
<1>1. ASSUME NEW team \in Teams, NEW new \in BOOLEAN, Accept(team, new)
      PROVE  Blame'
  <2> DEFINE c == connected + 1
  <2>1. /\ TeamId' = [TeamId EXCEPT ![c] = team] /\ accepting' \in {accepting, c}
        /\ UNCHANGED <<DsConn, disturbed, panicked>> /\ accepting = NoConn
        /\ connected < MaxConns
    BY <1>1 DEF Accept
  <2>2. c \in Conns /\ \A d \in Conns : d <= connected => d # c
    BY <2>1, NewConnection DEF IInv
  <2>3. \A s \in Stations : DsConn[s] # NoConn => DsConn[s] \in Conns /\ DsConn[s] # c
    BY <2>2 DEF IInv, TypeOK, Made
  <2>4. TeamId'[c] = team /\ \A d \in Conns : d # c => TeamId'[d] = TeamId[d]
    BY <2>1, <2>2 DEF IInv, TypeOK
  <2> QED
    BY <2>1, <2>3, <2>4
<1>2. CASE Install
  <2>1. \A s \in Stations : DsConn'[s] = DsConn[s] \/ DsConn'[s] = accepting
    BY <1>2 DEF Install, IInv, TypeOK
  <2> QED
    BY <1>2, <2>1 DEF Install
<1>3. CASE GiveUp
  BY <1>3 DEF GiveUp
<1>4. ASSUME NEW c \in Conns, ReadFails(c) \/ Compare(c) \/ PeerLeaves(c)
      PROVE  Blame'
  BY <1>4 DEF ReadFails, Compare, CompareTo, PeerLeaves
<1>5. ASSUME NEW c \in Conns, Remove(c)
      PROVE  Blame'
  <2>1. \A s \in Stations : DsConn'[s] = DsConn[s] \/ DsConn'[s] = NoConn
    BY <1>5 DEF Remove, IInv, TypeOK
  <2> QED
    BY <1>5, <2>1 DEF Remove
<1>6. ASSUME NEW s \in Stations, SendDsPacket(s)
      PROVE  Blame'
  <2>1. UNCHANGED <<DsConn, TeamId, accepting, disturbed>> /\ DsConn[s] # NoConn
    BY <1>6 DEF SendDsPacket
  <2>2. CASE panicked' = panicked
    BY <2>1, <2>2
  <2>3. CASE panicked' = (Team[s] = NoTeam)
    <3>1. Team[s] = NoTeam => TeamId[DsConn[s]] # Team[s]
      BY <1>0, <2>1
    <3>2. Team[s] = NoTeam => DsConn[s] \in disturbed
      BY <2>1, <3>1 DEF IInv, NoStrangerAtStation
    <3> QED
      BY <2>1, <2>3, <3>2
  <2> QED
    BY <1>6, <2>2, <2>3 DEF SendDsPacket
<1>7. ASSUME NEW closing, Close(closing), Disturb, UNCHANGED <<TeamId, accepting, panicked>>
      PROVE  Blame'
  <2>1. \A s \in Stations : DsConn'[s] = DsConn[s] \/ DsConn'[s] = NoConn
    BY <1>7 DEF Close
  <2>2. disturbed \subseteq disturbed'
    BY <1>7 DEF Disturb
  <2> QED
    BY <1>7, <2>1, <2>2
<1>8. ASSUME NEW lineup \in Lineups, SubstituteTeams(lineup)
      PROVE  Blame'
  BY <1>7, <1>8 DEF SubstituteTeams, AssignTeams
<1>9. CASE ResetField
  BY <1>7, <1>9 DEF ResetField
<1>10. ASSUME NEW value \in Values, SetGameData(value)
       PROVE  Blame'
  BY <1>10 DEF SetGameData
<1>11. CASE UNCHANGED vars
  BY <1>11 DEF vars
<1> QED
  BY <1>1, <1>2, <1>3, <1>4, <1>5, <1>6, <1>8, <1>9, <1>10, <1>11 DEF Next

\* The run that finds NeverPanics violated finds the only way there is: the process dies of a
\* connection whose station changed hands while it was accepted, and of nothing else
\* (listenForDriverStations, sendDsPacket).
THEOREM DisturbanceIsToBlame == Spec => [](panicked => disturbed # {})
<1>1. Init => Blame
  <2> SUFFICES ASSUME Init PROVE Blame
    OBVIOUS
  <2>1. /\ \A s \in Stations : DsConn[s] = NoConn
        /\ accepting = NoConn /\ panicked = FALSE
    BY DEF Init
  <2> QED
    BY <2>1 DEF Blame
<1>2. IInv /\ Blame /\ [Next]_vars => Blame'
  BY BlameKept
<1>3. Blame => (panicked => disturbed # {})
  BY DEF Blame
<1> QED
  BY <1>1, <1>2, <1>3, Invariant, PTL DEF Spec

-----------------------------------------------------------------------------
(* Whom a connection that fails takes along                                  *)

\* A connection at a station has a goroutine that is not done with it: the safety half of
\* DeadConnectionsGo, for nobody else would take a dead connection away.
HasReader ==
  \A s \in Stations : DsConn[s] # NoConn => reader[DsConn[s]] \in {"reading", "closed", "matched"}

\* Connections are numbered as they are made: the one being accepted is the newest and not
\* started, and one that has found itself at its station is no newer than what is there now.
InTurn ==
  /\ accepting # NoConn => accepting = connected /\ reader[accepting] = "none"
  /\ \A c \in Conns : reader[c] # "none" => c <= connected
  /\ \A c \in Conns : reader[c] = "matched" /\ DsConn[AllianceStation[c]] # NoConn =>
                        c <= DsConn[AllianceStation[c]]

\* What the arena holds for sent has arrived, as long as the driver station is there.
RecordIsTrue ==
  \A c \in Conns : /\ peer[c] => c <= connected /\ heard[c] = SentGameData[c]
                   /\ c > connected => heard[c] = "" /\ SentGameData[c] = ""

Watch == HasReader /\ InTurn /\ RecordIsTrue

\* The numbers of connections are naturals.
LEMMA Numbers ==
  /\ connected \in 0 .. MaxConns => connected \in Nat
  /\ \A c \in Conns : c \in Nat
  /\ NoConn \notin Conns
<1>1. MaxConns \in Nat /\ NoConn \notin Conns
  BY NamesAssumption
<1>2. \A i \in 0 .. MaxConns : i \in Nat
  BY <1>1
<1>3. \A c \in Conns : c \in Nat
  BY <1>1 DEF Conns
<1> QED
  BY <1>1, <1>2, <1>3

\* A driver station connects: a connection with a new number, of which nothing is known.
LEMMA AcceptWatched ==
  ASSUME IInv, Watch, NEW team \in Teams, NEW new \in BOOLEAN, Accept(team, new)
  PROVE  Watch'
<1> DEFINE n == connected + 1
<1> USE DEF IInv, Watch
<1>1. /\ accepting = NoConn /\ connected < MaxConns /\ connected' = n
      /\ peer' = [peer EXCEPT ![n] = TRUE]
      /\ UNCHANGED <<stationVars, dataVars, reader, disturbed, panicked>>
  BY DEF Accept
<1>2. /\ accepting' \in {NoConn, n}
      /\ \A c \in Conns : c # n => AllianceStation'[c] = AllianceStation[c]
  BY <1>1 DEF Accept, TypeOK
<1>3. /\ n \in Conns /\ \A c \in Conns : c <= connected => c # n /\ c <= n
      /\ ~(n <= connected) /\ n > connected /\ \A c \in Conns : c > n => c > connected
      /\ n <= n
  <2>1. connected \in Nat /\ \A c \in Conns : c \in Nat
    BY Numbers DEF TypeOK
  <2> QED
    BY <1>1, <2>1, NewConnection
<1> HIDE DEF n
<1>4. HasReader'
  BY <1>1 DEF HasReader, stationVars
<1>5. InTurn'
  <2>1. reader[n] = "none"
    BY <1>3 DEF InTurn, TypeOK
  <2>2. \A c \in Conns : reader[c] # "none" => c # n /\ c <= n
    BY <1>3 DEF InTurn
  <2>3. accepting' # NoConn => accepting' = connected' /\ reader'[accepting'] = "none"
    BY <1>1, <1>2, <2>1
  <2>4. \A c \in Conns : reader'[c] = "matched" /\ DsConn'[AllianceStation'[c]] # NoConn =>
                           c <= DsConn'[AllianceStation'[c]]
    BY <1>1, <1>2, <2>2 DEF InTurn, stationVars
  <2> QED
    BY <1>1, <2>2, <2>3, <2>4 DEF InTurn
<1>6. RecordIsTrue'
  <2>1. heard[n] = "" /\ SentGameData[n] = ""
    BY <1>3 DEF RecordIsTrue
  <2>2. \A c \in Conns : peer'[c] => c = n \/ peer[c]
    BY <1>1 DEF TypeOK
  <2>3. \A c \in Conns : peer'[c] => c <= n /\ heard[c] = SentGameData[c]
    BY <1>3, <2>1, <2>2 DEF RecordIsTrue
  <2>4. \A c \in Conns : c > n => heard[c] = "" /\ SentGameData[c] = ""
    BY <1>3 DEF RecordIsTrue
  <2> QED
    BY <1>1, <2>3, <2>4 DEF RecordIsTrue, dataVars
<1> QED
  BY <1>4, <1>5, <1>6

\* The connection that is installed is newer than all that have found themselves at stations.
LEMMA InstallWatched ==
  ASSUME IInv, Watch, Install
  PROVE  Watch'
<1> USE DEF IInv, Watch
<1> DEFINE n == accepting
           at == AllianceStation[n]
<1>1. /\ n \in Conns /\ at \in Stations /\ accepting' = NoConn
      /\ DsConn' = [DsConn EXCEPT ![at] = n] /\ reader' = [reader EXCEPT ![n] = "reading"]
      /\ UNCHANGED <<Team, identityVars, dataVars, peer, open, disturbed, panicked>>
  BY DEF Install, TypeOK
<1>2. n = connected /\ reader[n] = "none" /\ n <= connected
  BY <1>1, Numbers DEF InTurn, Install, TypeOK
<1>3. /\ DsConn'[at] = n /\ \A s \in Stations : s # at => DsConn'[s] = DsConn[s]
      /\ reader'[n] = "reading" /\ \A c \in Conns : c # n => reader'[c] = reader[c]
  BY <1>1 DEF TypeOK
<1>4. HasReader'
  <2>1. \A s \in Stations : DsConn[s] \in Conns \cup {NoConn}
    BY DEF TypeOK
  <2>2. \A s \in Stations : DsConn[s] # NoConn => DsConn[s] # n
    BY <1>2 DEF HasReader
  <2> QED
    BY <1>3, <2>1, <2>2 DEF HasReader
<1>5. InTurn'
  <2>1. \A c \in Conns : reader'[c] # "none" => c <= connected
    BY <1>2, <1>3 DEF InTurn
  <2>2. \A c \in Conns : reader'[c] = "matched" /\ DsConn'[AllianceStation[c]] # NoConn =>
                           c <= DsConn'[AllianceStation[c]]
    <3>1. \A c \in Conns : AllianceStation[c] \in Stations
      BY DEF TypeOK
    <3>2. \A c \in Conns : reader'[c] = "matched" => reader[c] = "matched" /\ c <= n
      BY <1>2, <1>3 DEF InTurn
    <3> QED
      BY <1>3, <3>1, <3>2 DEF InTurn
  <2> QED
    BY <1>1, <2>1, <2>2 DEF InTurn, identityVars
<1>6. RecordIsTrue'
  BY <1>1 DEF RecordIsTrue, identityVars, dataVars
<1> QED
  BY <1>4, <1>5, <1>6

\* A goroutine of a connection moves on: it is done with a station only if it is not there.
LEMMA ReaderWatched ==
  ASSUME IInv, Watch, NEW c \in Conns, ReadFails(c) \/ Compare(c) \/ Remove(c) \/ PeerLeaves(c)
  PROVE  Watch'
<1> USE DEF IInv, Watch
<1>1. CASE ReadFails(c)
  <2>1. /\ reader[c] = "reading" /\ reader'[c] = "closed"
        /\ \A d \in Conns : d # c => reader'[d] = reader[d]
        /\ UNCHANGED <<stationVars, identityVars, dataVars, peer, accepting>>
    BY <1>1 DEF ReadFails, TypeOK
  <2>2. HasReader' /\ RecordIsTrue'
    BY <2>1 DEF HasReader, RecordIsTrue, TypeOK, stationVars, identityVars, dataVars
  <2>3. InTurn'
    BY <2>1 DEF InTurn, TypeOK, stationVars, identityVars
  <2> QED
    BY <2>2, <2>3
<1>2. CASE Compare(c)
  <2> DEFINE here == DsConn[AllianceStation[c]] = c
  <2>1. /\ reader[c] = "closed" /\ reader'[c] = IF here THEN "matched" ELSE "done"
        /\ \A d \in Conns : d # c => reader'[d] = reader[d]
        /\ UNCHANGED <<stationVars, identityVars, dataVars, peer, accepting>>
    BY <1>2 DEF Compare, CompareTo, TypeOK
  <2>2. \A s \in Stations : DsConn[s] = c => here
    BY Numbers DEF TypeOK
  <2>3. HasReader'
    BY <2>1, <2>2 DEF HasReader, TypeOK, stationVars
  <2>4. InTurn'
    <3>1. c <= c
      BY Numbers
    <3>2. here => DsConn[AllianceStation[c]] = c
      OBVIOUS
    <3> HIDE DEF here
    <3> QED
      BY <2>1, <3>1, <3>2 DEF InTurn, TypeOK, stationVars, identityVars
  <2> QED
    BY <2>1, <2>3, <2>4 DEF RecordIsTrue, identityVars, dataVars
<1>3. CASE Remove(c)
  <2> DEFINE at == AllianceStation[c]
  <2>1. /\ reader[c] = "matched" /\ reader'[c] = "done" /\ at \in Stations
        /\ \A d \in Conns : d # c => reader'[d] = reader[d]
        /\ DsConn'[at] = NoConn /\ \A s \in Stations : s # at => DsConn'[s] = DsConn[s]
        /\ UNCHANGED <<Team, identityVars, dataVars, peer, accepting>>
    BY <1>3 DEF Remove, TypeOK
  <2>2. \A s \in Stations : DsConn[s] # NoConn /\ s # at => DsConn[s] \in Conns /\ DsConn[s] # c
    BY DEF TypeOK
  <2>3. HasReader'
    BY <2>1, <2>2 DEF HasReader
  <2>4. InTurn'
    BY <2>1 DEF InTurn, TypeOK, identityVars
  <2> QED
    BY <2>1, <2>3, <2>4 DEF RecordIsTrue, identityVars, dataVars
<1>4. CASE PeerLeaves(c)
  <2>1. /\ \A d \in Conns : peer'[d] => peer[d]
        /\ UNCHANGED <<stationVars, identityVars, dataVars, reader, accepting>>
    BY <1>4 DEF PeerLeaves, TypeOK
  <2> QED
    BY <2>1 DEF HasReader, InTurn, RecordIsTrue, stationVars, identityVars, dataVars
<1> QED
  BY <1>1, <1>2, <1>3, <1>4

\* The arena's commands and its loop: they take connections away from stations and never put
\* one there, and the loop records what it has written.
LEMMA ArenaWatched ==
  ASSUME IInv, Watch,
         \/ GiveUp
         \/ \E s \in Stations : SendDsPacket(s)
         \/ \E lineup \in Lineups : SubstituteTeams(lineup)
         \/ ResetField
         \/ \E value \in Values : SetGameData(value)
         \/ UNCHANGED vars
  PROVE  Watch'
<1> USE DEF IInv, Watch
<1>1. /\ UNCHANGED <<identityVars, reader, peer>> /\ accepting' \in {accepting, NoConn}
      /\ \A s \in Stations : DsConn'[s] \in {DsConn[s], NoConn}
  <2>1. /\ UNCHANGED <<identityVars, reader, peer>> /\ accepting' \in {accepting, NoConn}
    BY DEF GiveUp, SendDsPacket, SubstituteTeams, AssignTeams, ResetField, SetGameData, vars
  <2>2. DsConn' = DsConn \/ \E closing : Close(closing)
    BY DEF GiveUp, SendDsPacket, SubstituteTeams, AssignTeams, ResetField, SetGameData, vars,
       stationVars
  <2> QED
    BY <2>1, <2>2 DEF Close
<1>2. HasReader' /\ InTurn'
  BY <1>1 DEF HasReader, InTurn, TypeOK, identityVars
<1>3. RecordIsTrue'
  <2>1. CASE UNCHANGED <<SentGameData, heard>>
    BY <1>1, <2>1 DEF RecordIsTrue, identityVars
  <2>2. ASSUME NEW s \in Stations, SendDsPacket(s), ~UNCHANGED <<SentGameData, heard>>
        PROVE  RecordIsTrue'
    <3> DEFINE c == DsConn[s]
    <3>1. /\ c \in Conns /\ c <= connected /\ CheckGameData(c)
          /\ SentGameData' = [SentGameData EXCEPT ![c] = GameData]
          /\ heard' = IF peer[c] THEN [heard EXCEPT ![c] = GameData] ELSE heard
      <4>1. c \in Conns /\ c <= connected
        BY <2>2 DEF SendDsPacket, TypeOK, Made
      <4>2. CheckGameData(c)
        BY <2>2 DEF SendDsPacket
      <4> QED
        BY <2>2, <4>1, <4>2 DEF SendDsPacket
    <3>2. /\ SentGameData'[c] = GameData
          /\ peer[c] => heard'[c] = GameData
          /\ \A d \in Conns : d # c => SentGameData'[d] = SentGameData[d] /\ heard'[d] = heard[d]
      BY <3>1 DEF TypeOK
    <3>3. ~(c > connected)
      BY <3>1, Numbers DEF TypeOK
    <3> QED
      BY <1>1, <3>1, <3>2, <3>3 DEF RecordIsTrue, identityVars
  <2> QED
    BY <2>1, <2>2 DEF GiveUp, SubstituteTeams, AssignTeams, ResetField, SetGameData, vars, dataVars
<1> QED
  BY <1>2, <1>3

\* The invariant holds of every state.
LEMMA Watched == Spec => [](IInv /\ Watch)
<1>1. Init => Watch
  <2> SUFFICES ASSUME Init PROVE Watch
    OBVIOUS
  <2> QED
    BY DEF Init, Watch, HasReader, InTurn, RecordIsTrue
<1>2. IInv /\ Watch /\ [Next]_vars => Watch'
  BY AcceptWatched, InstallWatched, ReaderWatched, ArenaWatched DEF Next
<1> QED
  BY <1>1, <1>2, Invariant, PTL DEF Spec

\* A connection at a station has a goroutine that will take it away when it fails: none is ever
\* left behind by the goroutine that should have (handleTcpConnection).
THEOREM NoneIsLeftBehind == Spec => []HasReader
<1>1. Watch => HasReader
  BY DEF Watch
<1> QED
  BY <1>1, Watched, PTL

\* A connection that fails compares and removes in two steps, and may take another along that
\* was installed in between; but only a newer one of its own station, and leaves every other
\* station alone (handleTcpConnection).
THEOREM OnlyANewerOneGoesAlong ==
  Spec => [][\A c \in Conns : Remove(c) =>
               /\ DsConn[AllianceStation[c]] # NoConn => c <= DsConn[AllianceStation[c]]
               /\ \A s \in Stations \ {AllianceStation[c]} : DsConn'[s] = DsConn[s]]_vars
<1> DEFINE Struck(c) ==
             /\ DsConn[AllianceStation[c]] # NoConn => c <= DsConn[AllianceStation[c]]
             /\ \A s \in Stations \ {AllianceStation[c]} : DsConn'[s] = DsConn[s]
<1>1. ASSUME IInv, Watch, NEW c \in Conns, Remove(c)
      PROVE  Struck(c)
  BY <1>1 DEF IInv, Watch, InTurn, Remove, TypeOK
<1>2. IInv /\ Watch => [\A c \in Conns : Remove(c) => Struck(c)]_vars
  BY <1>1
<1> QED
  BY <1>2, Watched, PTL

\* What the arena takes a legacy driver station to have been sent has arrived there, as long as
\* it is connected: comparing with SentGameData is comparing with what it heard (checkGameData).
THEOREM SentIsHeard == Spec => [](\A c \in Conns : peer[c] => heard[c] = SentGameData[c])
<1>1. Watch => \A c \in Conns : peer[c] => heard[c] = SentGameData[c]
  BY DEF Watch, RecordIsTrue
<1> QED
  BY <1>1, Watched, PTL
=============================================================================
