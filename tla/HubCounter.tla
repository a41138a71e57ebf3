------------------------------ MODULE HubCounter ------------------------------
(***************************************************************************)
(* The receiver of the webcam FUEL counter (hardware/hub_counter.go), the  *)
(* counter that feeds it and the UDP network between them.                 *)
(*                                                                         *)
(* The counter is a program of its own.  It numbers its datagrams, keeps   *)
(* cumulative counts per run (a session), sends on every FUEL and sends a  *)
(* heartbeat when there is none; it may be restarted at any moment, and    *)
(* FUEL scored while it is down is nobody's.  The receiver's listener and  *)
(* the arena goroutine's ResetMatch both run under the receiver's mutex,   *)
(* so each is one step.                                                    *)
(*                                                                         *)
(* Two ghosts say what the counts should be.  fuel is the FUEL the counter *)
(* has counted over all its sessions, and every datagram carries the value *)
(* it was sent at; origin is the datagram the running match is measured    *)
(* from.                                                                   *)
(*                                                                         *)
(* A definition that Next does not reach is a faulty variant of the one    *)
(* that follows it, kept to show which property catches that fault.        *)
(***************************************************************************)
EXTENDS Integers, FiniteSets

CONSTANTS
  Hubs,
  Network,           \* "perfect", "lossy" (in order), or "udp" (lost, duplicated, reordered)
  Miscounts,         \* may a broken counter take a FUEL back?
  MaxSessions, MaxSeq, MaxInFlight,    \* bounds
  None               \* nothing received yet

VARIABLES
  session, seq, seen,             \* the counter: its run, its datagrams, its counts
  inFlight,                       \* the datagrams on the network, with their copies
  last,                           \* the last accepted datagram
  baseSession, base, carried,     \* where the match started, what earlier sessions gave it
  fuel, origin                    \* ghosts, see above

counterVars == <<session, seq, seen, fuel>>
receiverVars == <<last, baseSession, base, carried, origin>>
vars == <<counterVars, inFlight, receiverVars>>

Zero == [h \in Hubs |-> 0]

Datagrams == [session : Nat \ {0}, seq : Nat, count : [Hubs -> Nat], fuel : [Hubs -> Nat]]

\* How often a datagram can arrive.
Copies == IF Network = "udp" THEN {1, 2} ELSE {1}

ASSUME NetworkAssumption == Network \in {"perfect", "lossy", "udp"}
ASSUME CounterAssumption == Miscounts \in BOOLEAN
ASSUME BoundsAssumption == MaxSessions \in Nat /\ MaxSeq \in Nat /\ MaxInFlight \in Nat
ASSUME NoneAssumption == None \notin Datagrams

-----------------------------------------------------------------------------
(* The counter                                                               *)

Send(count, total) ==
  /\ seq < MaxSeq
  /\ Cardinality(inFlight) < MaxInFlight
  /\ seq' = seq + 1
  /\ LET d == [session |-> session, seq |-> seq + 1, count |-> count, fuel |-> total]
     IN inFlight' = inFlight \cup {[datagram |-> d, copy |-> c] : c \in Copies}

\* A FUEL is counted and reported at once.
Score(h) ==
  /\ seen' = [seen EXCEPT ![h] = @ + 1]
  /\ fuel' = [fuel EXCEPT ![h] = @ + 1]
  /\ Send(seen', fuel')
  /\ UNCHANGED <<session, receiverVars>>

Heartbeat ==
  /\ Send(seen, fuel)
  /\ UNCHANGED <<session, seen, fuel, receiverVars>>

\* A counter that is not behaving.
Miscount(h) ==
  /\ Miscounts /\ seen[h] > 0
  /\ seen' = [seen EXCEPT ![h] = @ - 1]
  /\ Send(seen', fuel)
  /\ UNCHANGED <<session, fuel, receiverVars>>

\* A new run counts from zero, or resumes from saved state.
Restart ==
  /\ session < MaxSessions
  /\ session' = session + 1 /\ seq' = 0 /\ seen' \in {Zero, seen}
  /\ UNCHANGED <<fuel, inFlight, receiverVars>>

-----------------------------------------------------------------------------
(* The receiver                                                              *)

SameSession(d) == last # None /\ last.session = d.session

\* Within a session seq orders the datagrams, and a count that went down cannot have come
\* from a counter that is behaving.
Stale(d) ==
  /\ SameSession(d)
  /\ \/ d.seq <= last.seq
     \/ \E h \in Hubs : d.count[h] < last.count[h]

CarriedFromZero(h) == carried[h] + last.count[h]

\* What the outgoing session contributed to this match, banked.
Banked(h) == carried[h] + (last.count[h] - base[h])

RebaseForgets(d) ==
  /\ baseSession' = d.session
  /\ base' = d.count
  /\ carried' = Zero
  /\ origin' = IF last = None THEN d ELSE origin

\* A session not seen before, or the first heard from: bank what the outgoing session
\* contributed, and measure the new one from where it is found.
Rebase(d) ==
  /\ baseSession' = d.session
  /\ base' = d.count
  /\ carried' = IF last = None THEN carried ELSE [h \in Hubs |-> Banked(h)]
  /\ origin' = IF last = None THEN d ELSE origin

Record(d) ==
  IF Stale(d) THEN UNCHANGED receiverVars
  ELSE /\ last' = d
       /\ IF SameSession(d) THEN UNCHANGED <<baseSession, base, carried, origin>>
                            ELSE Rebase(d)

TakeBaselineForgetsSession ==
  /\ baseSession' = 0
  /\ base' = IF last = None THEN Zero ELSE last.count
  /\ origin' = last

\* The baseline ResetMatch takes: the last datagram, if there is one.
TakeBaseline ==
  /\ baseSession' = IF last = None THEN 0 ELSE last.session
  /\ base' = IF last = None THEN Zero ELSE last.count
  /\ origin' = last

\* The counter itself is never reset: the counts are made to read zero from here.
ResetMatch ==
  /\ carried' = Zero
  /\ TakeBaseline
  /\ UNCHANGED <<last, counterVars, inFlight>>

GetHubCounts ==
  [h \in Hubs |-> carried[h] + (IF last # None /\ last.session = baseSession
                                THEN last.count[h] - base[h] ELSE 0)]

-----------------------------------------------------------------------------
(* The network                                                               *)

Earlier(d, e) == d.session < e.session \/ (d.session = e.session /\ d.seq < e.seq)

\* Only UDP overtakes.
Deliverable(m) ==
  Network = "udp" \/ \A n \in inFlight : ~Earlier(n.datagram, m.datagram)

Receive(m) ==
  /\ Deliverable(m)
  /\ Record(m.datagram)
  /\ inFlight' = inFlight \ {m}
  /\ UNCHANGED counterVars

Lose(m) ==
  /\ Network # "perfect"
  /\ inFlight' = inFlight \ {m}
  /\ UNCHANGED <<counterVars, receiverVars>>

-----------------------------------------------------------------------------
Init ==
  /\ session = 1 /\ seq = 0 /\ seen = Zero /\ fuel = Zero
  /\ inFlight = {}
  /\ last = None /\ baseSession = 0 /\ base = Zero /\ carried = Zero
  /\ origin = None

Next == \/ \E h \in Hubs : Score(h) \/ Miscount(h)
        \/ Heartbeat \/ Restart \/ ResetMatch
        \/ \E m \in inFlight : Receive(m) \/ Lose(m)

Spec == Init /\ [][Next]_vars

-----------------------------------------------------------------------------
(* Properties                                                                *)

TypeOK ==
  /\ session \in Nat \ {0} /\ seq \in Nat
  /\ seen \in [Hubs -> Nat] /\ fuel \in [Hubs -> Nat]
  /\ inFlight \subseteq [datagram : Datagrams, copy : {1, 2}]
  /\ last \in Datagrams \cup {None} /\ origin \in Datagrams \cup {None}
  /\ baseSession \in Nat /\ base \in [Hubs -> Nat] /\ carried \in [Hubs -> Nat]

\* The counts the scoring reads start at zero and fall in no step that is not a call of
\* ResetMatch, which takes them to zero: what was counted stays, whatever the network does,
\* however often the counter restarts and even if it miscounts (HubCounterReceiver.record,
\* GetHubCounts, ResetMatch).
Feed == INSTANCE HubFeed WITH count <- GetHubCounts
ImplementsHubFeed == Feed!Init /\ [][Feed!Step(ResetMatch)]_GetHubCounts

\* On a network that keeps the order, a match is never credited more FUEL than the counter
\* has counted since the datagram the match is measured from: not by a restart, and not by
\* a counter that resumes from saved state (HubCounterReceiver.record).
NeverMoreThanCounted ==
  last # None => \A h \in Hubs : GetHubCounts[h] + origin.fuel[h] <= fuel[h]

\* A lost datagram costs nothing, for the next one supersedes it: while the match is
\* measured from the running session, nothing counted is missing once the counter's latest
\* datagram is in (HubCounterReceiver.record, GetHubCounts).
LostDatagramsCostNothing ==
  last # None /\ last.session = session /\ last.seq = seq /\ origin.session = session
    => \A h \in Hubs : GetHubCounts[h] + origin.fuel[h] = fuel[h]

\* "Reordered / duplicate: Dropped; effect on scoring: None"
\* (docs/spec-hub-fuel-counter-feed.md, 6.5): with nothing miscounted, no more FUEL is in
\* the counts than was scored.
ReorderedAndDuplicatesAreDropped == NeverMoreThanCounted

=============================================================================
