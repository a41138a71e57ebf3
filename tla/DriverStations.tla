---------------------------- MODULE DriverStations ----------------------------
(***************************************************************************)
(* Driver stations coming and going (field/driver_station_connection.go)   *)
(* while the lineup changes (field/arena.go).                              *)
(*                                                                         *)
(* Three kinds of goroutine touch a station's connection.  The arena's     *)
(* commands and its loop hold the arena's lock, so each is one step.  The  *)
(* accept loop and the goroutine of every connection do not: each looks at *)
(* the station in one step and writes it in a later one.                   *)
(*                                                                         *)
(* Arena.tla has what a driver station is told about its robot; here it is *)
(* which connection is told, and the game data a legacy one gets over TCP. *)
(*                                                                         *)
(* A definition that Next does not reach is a faulty variant of the one    *)
(* that follows it, kept to show which property catches that fault.        *)
(***************************************************************************)
EXTENDS Naturals

CONSTANTS Stations, Teams, NoTeam, NoConn,
          Results,      \* the game data a match may publish
          MaxConns      \* bound: the connections ever made

Conns == 1 .. MaxConns

ASSUME NamesAssumption ==
  /\ Stations # {} /\ NoTeam \notin Teams /\ "" \notin Results
  /\ MaxConns \in Nat /\ NoConn \notin Conns

VARIABLES
  Team, DsConn,         \* of a station: the team assigned to it, and its connection
  GameData,
  connected,            \* the connections made so far are 1 .. connected
  TeamId, newDs,        \* of a connection: who it says it is, and its protocol
  AllianceStation,      \* of a connection: the station it was accepted for
  peer, open,           \* of a connection: its driver station is there; the arena has it open
  SentGameData, heard,  \* of a connection: what was last sent over TCP, and what has arrived
  reader,               \* of a connection: how far handleTcpConnection has come
  accepting,            \* NoConn, or the connection between its look-up and its installation
  disturbed,            \* ghost: the connections whose station changed hands in between
  panicked              \* the process has died of a nil dereference

stationVars == <<Team, DsConn>>
identityVars == <<connected, TeamId, newDs, AllianceStation>>
dataVars == <<GameData, SentGameData, heard>>
vars == <<stationVars, identityVars, dataVars, peer, open, reader, accepting, disturbed, panicked>>

Values == Results \cup {""}

-----------------------------------------------------------------------------
(* The accept loop (listenForDriverStations)                                 *)

\* A driver station connects and identifies itself.  It is kept if its team has a station.
Accept(team, new) ==
  LET c == connected + 1
      assigned == {s \in Stations : Team[s] = team}
  IN  /\ accepting = NoConn /\ connected < MaxConns
      /\ connected' = c
      /\ TeamId' = [TeamId EXCEPT ![c] = team]
      /\ newDs' = [newDs EXCEPT ![c] = new]
      /\ peer' = [peer EXCEPT ![c] = TRUE]
      /\ \/ \E s \in assigned :
              /\ AllianceStation' = [AllianceStation EXCEPT ![c] = s]
              /\ open' = [open EXCEPT ![c] = TRUE]
              /\ accepting' = c
         \/ /\ assigned = {}
            /\ UNCHANGED <<AllianceStation, open, accepting>>
      /\ UNCHANGED <<stationVars, dataVars, reader, disturbed, panicked>>

\* The assignment is sent, the UDP socket made, the connection installed and its goroutine
\* started.  A driver station that has gone may fail the first of these.
Install ==
  /\ accepting # NoConn
  /\ DsConn' = [DsConn EXCEPT ![AllianceStation[accepting]] = accepting]
  /\ reader' = [reader EXCEPT ![accepting] = "reading"]
  /\ accepting' = NoConn
  /\ UNCHANGED <<Team, identityVars, dataVars, peer, open, disturbed, panicked>>

GiveUp ==
  /\ accepting # NoConn /\ ~peer[accepting]
  /\ open' = [open EXCEPT ![accepting] = FALSE]
  /\ accepting' = NoConn
  /\ UNCHANGED <<stationVars, identityVars, dataVars, peer, reader, disturbed, panicked>>

-----------------------------------------------------------------------------
(* The goroutine of a connection (handleTcpConnection)                       *)

\* A read fails: nothing came for driverStationTcpLinkTimeoutSec, or either side has closed.
ReadFails(c) ==
  /\ reader[c] = "reading" /\ ~(peer[c] /\ open[c])
  /\ open' = [open EXCEPT ![c] = FALSE]
  /\ reader' = [reader EXCEPT ![c] = "closed"]
  /\ UNCHANGED <<stationVars, identityVars, dataVars, peer, accepting, disturbed, panicked>>

\* Is the station's connection still this one?
CompareTo(c, matches) ==
  /\ reader[c] = "closed"
  /\ reader' = [reader EXCEPT ![c] = IF matches THEN "matched" ELSE "done"]
  /\ UNCHANGED <<stationVars, identityVars, dataVars, peer, open, accepting, disturbed, panicked>>

CompareTeam(c) ==
  CompareTo(c, DsConn[AllianceStation[c]] = c /\ Team[AllianceStation[c]] = TeamId[c])

Compare(c) == CompareTo(c, DsConn[AllianceStation[c]] = c)

\* It was: whichever is there now goes.
Remove(c) ==
  /\ reader[c] = "matched"
  /\ DsConn' = [DsConn EXCEPT ![AllianceStation[c]] = NoConn]
  /\ reader' = [reader EXCEPT ![c] = "done"]
  /\ UNCHANGED <<Team, identityVars, dataVars, peer, open, accepting, disturbed, panicked>>

\* The cable comes out or the laptop is closed.
PeerLeaves(c) ==
  /\ peer[c]
  /\ peer' = [peer EXCEPT ![c] = FALSE]
  /\ UNCHANGED <<stationVars, identityVars, dataVars, open, reader, accepting, disturbed, panicked>>

-----------------------------------------------------------------------------
(* The arena's loop and commands, under its lock                             *)

\* checkGameData: what a connection is sent over TCP counts as sent if the write succeeds.
CheckGameDataUnlessEmpty(c) == ~newDs[c] /\ SentGameData[c] # GameData /\ GameData # ""
CheckGameData(c) == ~newDs[c] /\ SentGameData[c] # GameData

\* sendDsPacket to one station.  Writing to a closed connection fails; to one whose driver
\* station has gone it may.  The error is logged with the number of the station's team.
SendDsPacket(s) ==
  LET c == DsConn[s]
  IN  /\ c # NoConn
      /\ \/ /\ open[c]
            /\ SentGameData' = IF CheckGameData(c) THEN [SentGameData EXCEPT ![c] = GameData]
                               ELSE SentGameData
            /\ heard' = IF CheckGameData(c) /\ peer[c] THEN [heard EXCEPT ![c] = GameData]
                        ELSE heard
            /\ UNCHANGED panicked
         \/ /\ ~(open[c] /\ peer[c])
            /\ panicked' = (Team[s] = NoTeam)
            /\ UNCHANGED <<SentGameData, heard>>
      /\ UNCHANGED <<stationVars, identityVars, GameData, peer, open, reader, accepting, disturbed>>

\* A connection of another team than its station's was being installed when that changed.
Disturb ==
  disturbed' = IF accepting # NoConn /\ Team'[AllianceStation[accepting]] # TeamId[accepting]
               THEN disturbed \cup {accepting} ELSE disturbed

\* What the lineup leaves of each station's connection, and the ones it closes.
Close(closing) ==
  /\ open' = [c \in Conns |-> open[c] /\ \A s \in closing : DsConn[s] # c]
  /\ DsConn' = [s \in Stations |-> IF s \in closing THEN NoConn ELSE DsConn[s]]

\* A lineup names a team once (validateTeams).
Lineups == {l \in [Stations -> Teams \cup {NoTeam}] :
              \A s, t \in Stations : s # t /\ l[s] # NoTeam => l[s] # l[t]}

\* assignTeam does nothing at a station whose connection is already the team's.
Kept(lineup) == {s \in Stations : DsConn[s] # NoConn /\ TeamId[DsConn[s]] = lineup[s]}

AssignTeams(lineup, closing) ==
  /\ Team' = [s \in Stations |-> IF s \in Kept(lineup) THEN Team[s] ELSE lineup[s]]
  /\ Close(closing)
  /\ Disturb
  /\ UNCHANGED <<identityVars, dataVars, peer, reader, accepting, panicked>>

SubstituteTeamsKeepingEmptied(lineup) ==
  AssignTeams(lineup, {s \in Stations : DsConn[s] # NoConn /\ lineup[s] # NoTeam} \ Kept(lineup))

SubstituteTeams(lineup) ==
  AssignTeams(lineup, {s \in Stations : DsConn[s] # NoConn} \ Kept(lineup))

\* ResetField, and ResetMatch in it.
ResetField ==
  /\ Close(Stations)
  /\ Team' = [s \in Stations |-> NoTeam]
  /\ GameData' = ""
  /\ Disturb
  /\ UNCHANGED <<identityVars, SentGameData, heard, peer, reader, accepting, panicked>>

\* The AUTO result is published as teleop opens, and withdrawn by every way out of it.
SetGameData(value) ==
  /\ (GameData = "") # (value = "")
  /\ GameData' = value
  /\ UNCHANGED <<stationVars, identityVars, SentGameData, heard, peer, open, reader, accepting,
                 disturbed, panicked>>

-----------------------------------------------------------------------------

\* The empty test match NewArena loads.
Init ==
  /\ Team = [s \in Stations |-> NoTeam]
  /\ DsConn = [s \in Stations |-> NoConn]
  /\ GameData = ""
  /\ connected = 0
  /\ TeamId = [c \in Conns |-> NoTeam] /\ newDs = [c \in Conns |-> FALSE]
  /\ AllianceStation = [c \in Conns |-> CHOOSE s \in Stations : TRUE]
  /\ peer = [c \in Conns |-> FALSE] /\ open = [c \in Conns |-> FALSE]
  /\ SentGameData = [c \in Conns |-> ""] /\ heard = [c \in Conns |-> ""]
  /\ reader = [c \in Conns |-> "none"]
  /\ accepting = NoConn /\ disturbed = {} /\ panicked = FALSE

Next ==
  /\ ~panicked
  /\ \/ \E team \in Teams, new \in BOOLEAN : Accept(team, new)
     \/ Install \/ GiveUp
     \/ \E c \in Conns : ReadFails(c) \/ Compare(c) \/ Remove(c) \/ PeerLeaves(c)
     \/ \E s \in Stations : SendDsPacket(s)
     \/ \E lineup \in Lineups : SubstituteTeams(lineup)
     \/ ResetField
     \/ \E value \in Values : SetGameData(value)

Spec == Init /\ [][Next]_vars

\* Goroutines run on, and the loop sends to every station every dsPacketPeriodMs.
FairSpec ==
  /\ Spec
  /\ WF_vars(~panicked /\ Install)
  /\ \A c \in Conns : WF_vars(~panicked /\ (ReadFails(c) \/ Compare(c) \/ Remove(c)))
  /\ \A s \in Stations : WF_vars(~panicked /\ SendDsPacket(s))

-----------------------------------------------------------------------------
(* Properties                                                                *)

\* The types of the variables; a connection at a station was accepted for that station, and
\* its goroutine has been started.
TypeOK ==
  /\ Team \in [Stations -> Teams \cup {NoTeam}]
  /\ DsConn \in [Stations -> Conns \cup {NoConn}]
  /\ \A s \in Stations : DsConn[s] # NoConn =>
                          AllianceStation[DsConn[s]] = s /\ reader[DsConn[s]] # "none"
  /\ GameData \in Values /\ connected \in 0 .. MaxConns
  /\ TeamId \in [Conns -> Teams \cup {NoTeam}] /\ newDs \in [Conns -> BOOLEAN]
  /\ AllianceStation \in [Conns -> Stations]
  /\ peer \in [Conns -> BOOLEAN] /\ open \in [Conns -> BOOLEAN]
  /\ SentGameData \in [Conns -> Values] /\ heard \in [Conns -> Values]
  /\ reader \in [Conns -> {"none", "reading", "closed", "matched", "done"}]
  /\ accepting \in Conns \cup {NoConn} /\ disturbed \subseteq Conns /\ panicked \in BOOLEAN

\* A station listens to a driver station of a team that is not its own only if the lineup
\* changed while that one was being accepted (assignTeam, ResetField).
NoStrangerAtStation ==
  \A s \in Stations : DsConn[s] # NoConn /\ TeamId[DsConn[s]] # Team[s] => DsConn[s] \in disturbed

\* A connection that has been closed, or whose driver station has gone, does not stay at a
\* station, whatever happens to the lineup in the meantime (handleTcpConnection).
DeadConnectionsGo ==
  \A c \in Conns : ~panicked /\ connected >= c /\ ~(open[c] /\ peer[c])
                     ~> panicked \/ \A s \in Stations : DsConn[s] # c

\* A legacy driver station that stays connected comes to hear the AUTO result of its match,
\* and to hear that there is none any more when the match is over (checkGameData).
GameDataIsHeard ==
  \A c \in Conns, g \in Values :
    LET Listening == /\ GameData = g /\ ~newDs[c] /\ peer[c] /\ open[c]
                     /\ \E s \in Stations : DsConn[s] = c
    IN  Listening ~> panicked \/ ~Listening \/ heard[c] = g

\* "sendDsPacket reading Team.Id while assignTeam sets Team to nil panics the process outright,
\* taking the field down" is what the arena's lock is there to prevent (field/arena.go).
NeverPanics == ~panicked
=============================================================================
