---------------------------- MODULE HubCounterProofs ----------------------------
(***************************************************************************)
(* Proofs about HubCounter.tla, for every set of HUBs, every bound and     *)
(* every network: the counts the scoring reads implement HubFeed.tla.  On  *)
(* a network that keeps the order, with a counter that does not miscount,  *)
(* they never exceed what was counted.                                     *)
(***************************************************************************)
EXTENDS HubCounter, TLAPS

\* The match is measured from the session of the last accepted datagram, from a count that
\* session has since only left behind.
BaselineInv ==
  /\ last = None => baseSession = 0 /\ base = Zero /\ carried = Zero /\ origin = None
  /\ last # None => /\ baseSession = last.session
                    /\ origin # None
                    /\ \A h \in Hubs : base[h] <= last.count[h]

IInv == TypeOK /\ BaselineInv

\* What the counts read before anything is received, and after.
CountsValue(counts) ==
  counts = IF last = None THEN Zero ELSE [h \in Hubs |-> carried[h] + (last.count[h] - base[h])]

\* The counts in terms of the last datagram (GetHubCounts): the baseline's session is always
\* that of the last datagram.
LEMMA CountsRead == IInv => CountsValue(GetHubCounts) /\ GetHubCounts \in [Hubs -> Nat]
<1> SUFFICES ASSUME IInv PROVE CountsValue(GetHubCounts) /\ GetHubCounts \in [Hubs -> Nat]
  OBVIOUS
<1>1. CASE last = None
  <2>1. \A h \in Hubs : carried[h] + (IF last # None /\ last.session = baseSession
                                      THEN last.count[h] - base[h] ELSE 0) = 0
    BY <1>1 DEF IInv, BaselineInv, Zero
  <2>2. GetHubCounts = Zero
    BY <2>1 DEF GetHubCounts, Zero
  <2> QED
    BY <2>2, <1>1 DEF CountsValue, Zero
<1>2. CASE last # None
  <2>1. last.session = baseSession
    BY <1>2 DEF IInv, BaselineInv
  <2>2. GetHubCounts = [h \in Hubs |-> carried[h] + (last.count[h] - base[h])]
    BY <1>2, <2>1 DEF GetHubCounts
  <2>3. \A h \in Hubs : carried[h] + (last.count[h] - base[h]) \in Nat
    BY <1>2 DEF IInv, TypeOK, BaselineInv, Datagrams
  <2> QED
    BY <1>2, <2>2, <2>3 DEF CountsValue
<1> QED
  BY <1>1, <1>2

\* A datagram that is sent is of the type of datagrams, whatever it counts (Send).
LEMMA SendTypes ==
  ASSUME TypeOK, NEW count \in [Hubs -> Nat], NEW total \in [Hubs -> Nat], Send(count, total)
  PROVE  seq' \in Nat /\ inFlight' \subseteq [datagram : Datagrams, copy : {1, 2}]
<1> DEFINE d == [session |-> session, seq |-> seq + 1, count |-> count, fuel |-> total]
<1>1. d \in Datagrams
  BY DEF TypeOK, Datagrams
<1>2. \A c \in Copies : [datagram |-> d, copy |-> c] \in [datagram : Datagrams, copy : {1, 2}]
  BY <1>1 DEF Copies
<1>3. inFlight' = inFlight \cup {[datagram |-> d, copy |-> c] : c \in Copies}
  BY DEF Send
<1> HIDE DEF d
<1>4. inFlight \subseteq [datagram : Datagrams, copy : {1, 2}]
  BY DEF TypeOK
<1>5. inFlight' \subseteq [datagram : Datagrams, copy : {1, 2}]
  BY <1>2, <1>3, <1>4, Zenon
<1> QED
  BY <1>5 DEF Send, TypeOK

\* The counter's steps disturb nothing the receiver holds.
LEMMA CounterKeepsInvariant ==
  ASSUME IInv,
         (\E h \in Hubs : Score(h) \/ Miscount(h)) \/ Heartbeat \/ Restart
  PROVE  IInv' /\ UNCHANGED receiverVars
<1>1. UNCHANGED receiverVars
  BY DEF Score, Miscount, Heartbeat, Restart
<1>2. BaselineInv'
  BY <1>1 DEF IInv, BaselineInv, receiverVars, Zero
<1>3. last' \in Datagrams \cup {None} /\ origin' \in Datagrams \cup {None}
      /\ baseSession' \in Nat /\ base' \in [Hubs -> Nat] /\ carried' \in [Hubs -> Nat]
  BY <1>1 DEF IInv, TypeOK, receiverVars
<1>4. CASE \E h \in Hubs : Score(h)
  <2> PICK h \in Hubs : Score(h)
    BY <1>4
  <2>1. seen' \in [Hubs -> Nat] /\ fuel' \in [Hubs -> Nat]
    BY DEF Score, IInv, TypeOK
  <2>2. Send(seen', fuel') /\ session' = session
    BY DEF Score
  <2>3. seq' \in Nat /\ inFlight' \subseteq [datagram : Datagrams, copy : {1, 2}]
    BY <2>1, <2>2, SendTypes DEF IInv
  <2> QED
    BY <1>1, <1>2, <1>3, <2>1, <2>2, <2>3 DEF IInv, TypeOK
<1>5. CASE \E h \in Hubs : Miscount(h)
  <2> PICK h \in Hubs : Miscount(h)
    BY <1>5
  <2>1. seen' \in [Hubs -> Nat] /\ fuel' = fuel
    BY DEF Miscount, IInv, TypeOK
  <2>2. Send(seen', fuel) /\ session' = session /\ fuel \in [Hubs -> Nat]
    BY DEF Miscount, IInv, TypeOK
  <2>3. seq' \in Nat /\ inFlight' \subseteq [datagram : Datagrams, copy : {1, 2}]
    BY <2>1, <2>2, SendTypes DEF IInv
  <2> QED
    BY <1>1, <1>2, <1>3, <2>1, <2>2, <2>3 DEF IInv, TypeOK
<1>6. CASE Heartbeat
  <2>1. Send(seen, fuel) /\ seen \in [Hubs -> Nat] /\ fuel \in [Hubs -> Nat]
    BY <1>6 DEF Heartbeat, IInv, TypeOK
  <2>2. seq' \in Nat /\ inFlight' \subseteq [datagram : Datagrams, copy : {1, 2}]
    BY <2>1, SendTypes DEF IInv
  <2> QED
    BY <1>1, <1>2, <1>3, <1>6, <2>2 DEF IInv, TypeOK, Heartbeat
<1>7. CASE Restart
  BY <1>1, <1>2, <1>3, <1>7 DEF IInv, TypeOK, Restart, Zero
<1> QED
  BY <1>4, <1>5, <1>6, <1>7

\* Recording a datagram keeps the invariant, and the counts never fall (record): a stale one
\* changes nothing, one of the same session cannot count less, and a new session starts from
\* the banked count.
LEMMA RecordRaises ==
  ASSUME IInv, NEW d \in Datagrams, Record(d),
         UNCHANGED counterVars, inFlight' \subseteq inFlight
  PROVE  IInv' /\ \A h \in Hubs : GetHubCounts'[h] >= GetHubCounts[h]
<1>1. CASE Stale(d)
  <2>1. UNCHANGED receiverVars
    BY <1>1 DEF Record
  <2>2. IInv'
    BY <2>1 DEF IInv, TypeOK, BaselineInv, receiverVars, counterVars, Zero
  <2>3. GetHubCounts' = GetHubCounts
    BY <2>1 DEF GetHubCounts, receiverVars
  <2>4. GetHubCounts \in [Hubs -> Nat]
    BY CountsRead
  <2> QED
    BY <2>2, <2>3, <2>4
<1>2. CASE ~Stale(d) /\ SameSession(d)
  <2>1. last' = d /\ UNCHANGED <<baseSession, base, carried, origin>>
    BY <1>2 DEF Record
  <2>2. last # None /\ last.session = d.session /\ d # None
    BY <1>2, NoneAssumption DEF SameSession
  <2>3. \A h \in Hubs : d.count[h] >= last.count[h]
    BY <1>2, <2>2 DEF Stale, SameSession, IInv, TypeOK, Datagrams
  <2>4. TypeOK'
    BY <2>1 DEF IInv, TypeOK, counterVars
  <2>5. \A h \in Hubs : base[h] <= d.count[h]
    BY <2>2, <2>3 DEF IInv, TypeOK, BaselineInv, Datagrams
  <2>6. BaselineInv'
    BY <2>1, <2>2, <2>5 DEF IInv, BaselineInv
  <2>7. CountsValue(GetHubCounts) /\ CountsValue(GetHubCounts)'
    <3>1. IInv'
      BY <2>4, <2>6 DEF IInv
    <3>2. (IInv => CountsValue(GetHubCounts))'
      BY CountsRead, PTL
    <3> QED
      BY <3>1, <3>2, CountsRead
  <2>8. \A h \in Hubs : /\ GetHubCounts[h] = carried[h] + (last.count[h] - base[h])
                        /\ GetHubCounts'[h] = carried[h] + (d.count[h] - base[h])
    BY <2>7, <2>1, <2>2 DEF CountsValue
  <2> QED
    BY <2>3, <2>4, <2>6, <2>8, <2>2 DEF IInv, TypeOK, Datagrams
<1>3. CASE ~Stale(d) /\ ~SameSession(d)
  <2>1. last' = d /\ baseSession' = d.session /\ base' = d.count
    BY <1>3 DEF Record, Rebase
  <2>2. d # None
    BY NoneAssumption
  <2>3. CASE last = None
    <3>1. carried' = Zero /\ origin' = d
      BY <1>3, <2>3 DEF Record, Rebase, IInv, BaselineInv
    <3>2. TypeOK'
      BY <2>1, <3>1 DEF IInv, TypeOK, counterVars, Datagrams, Zero
    <3>3. \A h \in Hubs : base'[h] <= last'.count[h]
      BY <2>1 DEF Datagrams
    <3>4. IInv'
      BY <2>1, <2>2, <3>1, <3>2, <3>3 DEF IInv, BaselineInv
    <3>5. (IInv => GetHubCounts \in [Hubs -> Nat])'
      BY CountsRead, PTL
    <3>6. GetHubCounts = Zero
      BY CountsRead, <2>3 DEF CountsValue
    <3> QED
      BY <3>4, <3>5, <3>6 DEF Zero
  <2>4. CASE last # None
    <3>1. carried' = [h \in Hubs |-> Banked(h)] /\ origin' = origin
      BY <1>3, <2>4 DEF Record, Rebase
    <3>2. GetHubCounts = [h \in Hubs |-> Banked(h)] /\ GetHubCounts \in [Hubs -> Nat]
      BY CountsRead, <2>4 DEF CountsValue, Banked
    <3>3. carried' = GetHubCounts
      BY <3>1, <3>2
    <3>4. TypeOK'
      BY <2>1, <3>1, <3>2, <3>3 DEF IInv, TypeOK, counterVars, Datagrams
    <3>5. \A h \in Hubs : base'[h] <= last'.count[h]
      BY <2>1 DEF Datagrams
    <3>6. IInv'
      BY <2>1, <2>2, <2>4, <3>1, <3>4, <3>5 DEF IInv, BaselineInv
    <3>7. CountsValue(GetHubCounts)'
      <4>1. (IInv => CountsValue(GetHubCounts))'
        BY CountsRead, PTL
      <4> QED
        BY <4>1, <3>6
    <3>8. \A h \in Hubs : GetHubCounts'[h] = GetHubCounts[h] + (d.count[h] - d.count[h])
      BY <3>7, <3>3, <2>1, <2>2 DEF CountsValue
    <3> QED
      BY <3>2, <3>6, <3>8 DEF Datagrams
  <2> QED
    BY <2>3, <2>4
<1> QED
  BY <1>1, <1>2, <1>3

\* A match reset keeps the invariant and leaves the counts at zero (ResetMatch).
LEMMA ResetZeroes ==
  ASSUME IInv, ResetMatch
  PROVE  IInv' /\ GetHubCounts' = Zero
<1>1. TypeOK'
  <2>1. baseSession' \in Nat /\ base' \in [Hubs -> Nat] /\ origin' \in Datagrams \cup {None}
    BY DEF IInv, TypeOK, ResetMatch, TakeBaseline, Datagrams, Zero
  <2> QED
    BY <2>1 DEF IInv, TypeOK, ResetMatch, counterVars, Zero
<1>2. BaselineInv'
  <2>1. CASE last = None
    BY <2>1 DEF BaselineInv, ResetMatch, TakeBaseline, Zero
  <2>2. CASE last # None
    <3>1. last' = last /\ baseSession' = last.session /\ base' = last.count /\ origin' = last
      BY <2>2 DEF ResetMatch, TakeBaseline
    <3>2. \A h \in Hubs : last.count[h] <= last.count[h]
      BY <2>2 DEF IInv, TypeOK, Datagrams
    <3> QED
      BY <2>2, <3>1, <3>2 DEF BaselineInv
  <2> QED
    BY <2>1, <2>2
<1>3. IInv'
  BY <1>1, <1>2 DEF IInv
<1>4. CountsValue(GetHubCounts)'
  <2>1. (IInv => CountsValue(GetHubCounts))'
    BY CountsRead, PTL
  <2> QED
    BY <2>1, <1>3
<1>5. CASE last = None
  BY <1>3, <1>4, <1>5 DEF CountsValue, ResetMatch, Zero
<1>6. CASE last # None
  <2>1. last' = last /\ base' = last.count /\ carried' = Zero
    BY <1>6 DEF ResetMatch, TakeBaseline
  <2>2. GetHubCounts' = [h \in Hubs |-> Zero[h] + (last.count[h] - last.count[h])]
    BY <2>1, <1>4, <1>6 DEF CountsValue
  <2>3. \A h \in Hubs : Zero[h] + (last.count[h] - last.count[h]) = 0
    BY <1>6 DEF IInv, TypeOK, Datagrams, Zero
  <2> QED
    BY <1>3, <2>2, <2>3 DEF Zero
<1> QED
  BY <1>3, <1>5, <1>6

\* The receiver starts with nothing received and every count at zero.
LEMMA InitEstablishes == Init => IInv
  BY NoneAssumption DEF Init, IInv, TypeOK, BaselineInv, Zero

\* Every step keeps the invariant; a reset takes the counts to zero, in any other step they
\* stay or rise.
LEMMA StepRaises ==
  ASSUME IInv, [Next]_vars
  PROVE  /\ IInv'
         /\ ResetMatch => GetHubCounts' = Zero
         /\ \/ ResetMatch
            \/ GetHubCounts' = GetHubCounts
            \/ \A h \in Hubs : GetHubCounts'[h] >= GetHubCounts[h]
<1>0. ResetMatch => GetHubCounts' = Zero
  BY ResetZeroes
<1>1. CASE (\E h \in Hubs : Score(h) \/ Miscount(h)) \/ Heartbeat \/ Restart
  <2>1. IInv' /\ UNCHANGED receiverVars
    BY <1>1, CounterKeepsInvariant
  <2> QED
    BY <1>0, <2>1 DEF GetHubCounts, receiverVars
<1>2. CASE ResetMatch
  BY <1>2, ResetZeroes
<1>3. CASE \E m \in inFlight : Receive(m)
  <2> PICK m \in inFlight : Receive(m)
    BY <1>3
  <2>1. m.datagram \in Datagrams
    BY DEF IInv, TypeOK
  <2>2. Record(m.datagram) /\ UNCHANGED counterVars /\ inFlight' \subseteq inFlight
    BY DEF Receive
  <2> QED
    BY <1>0, <2>1, <2>2, RecordRaises
<1>4. CASE \E m \in inFlight : Lose(m)
  <2>1. UNCHANGED <<counterVars, receiverVars>> /\ inFlight' \subseteq inFlight
    BY <1>4 DEF Lose
  <2>2. IInv'
    BY <2>1 DEF IInv, TypeOK, BaselineInv, counterVars, receiverVars, Zero
  <2>3. GetHubCounts' = GetHubCounts
    BY <2>1 DEF GetHubCounts, receiverVars
  <2> QED
    BY <1>0, <2>2, <2>3
<1>5. CASE UNCHANGED vars
  <2>1. IInv'
    BY <1>5 DEF IInv, TypeOK, BaselineInv, vars, counterVars, receiverVars, Zero
  <2>2. GetHubCounts' = GetHubCounts
    BY <1>5 DEF GetHubCounts, vars, receiverVars
  <2> QED
    BY <1>0, <2>1, <2>2
<1> QED
  BY <1>1, <1>2, <1>3, <1>4, <1>5 DEF Next

\* The invariant holds throughout, with the steps it is proved from.
THEOREM CounterInvariant == Spec => []IInv
<1>1. IInv /\ [Next]_vars => IInv'
  BY StepRaises
<1> QED
  BY InitEstablishes, <1>1, PTL DEF Spec

\* Every variable keeps its type: in particular no baseline or carried count ever goes
\* negative, whatever the network delivers.
THEOREM CounterTypeCorrect == Spec => []TypeOK
<1>1. IInv => TypeOK
  BY DEF IInv
<1> QED
  BY CounterInvariant, <1>1, PTL

\* The counts keep HubFeed's promise: they start at zero and fall in no step but a call of
\* ResetMatch, on every network and across every restart.
THEOREM CounterImplementsHubFeed == Spec => ImplementsHubFeed
<1>1. Init => Feed!Init
  <2> SUFFICES ASSUME Init PROVE GetHubCounts = Feed!Zero
    BY DEF Feed!Init
  <2>1. IInv /\ last = None
    BY InitEstablishes DEF Init
  <2> QED
    BY <2>1, CountsRead DEF CountsValue, Zero, Feed!Zero
<1>2. IInv /\ [Next]_vars => [Feed!Step(ResetMatch)]_GetHubCounts
  <2> SUFFICES ASSUME IInv, [Next]_vars, GetHubCounts' # GetHubCounts
               PROVE  Feed!Step(ResetMatch)
    OBVIOUS
  <2>1. IInv'
    BY StepRaises
  <2>2. (IInv => GetHubCounts \in [Hubs -> Nat])'
    BY CountsRead, PTL
  <2>3. GetHubCounts' \in [Hubs -> Nat]
    BY <2>1, <2>2
  <2>4. ResetMatch => GetHubCounts' = Feed!Zero
    BY StepRaises DEF Feed!Zero, Zero
  <2>5. ~ResetMatch => \A h \in Hubs : GetHubCounts'[h] >= GetHubCounts[h]
    BY StepRaises
  <2> QED
    BY <2>3, <2>4, <2>5 DEF Feed!Step, Feed!Rise, Feed!ResetMatch
<1> QED
  BY <1>1, <1>2, CounterInvariant, PTL DEF Spec, ImplementsHubFeed

-----------------------------------------------------------------------------
(* Networks that keep the order                                              *)

Ordered == Network \in {"perfect", "lossy"} /\ Miscounts = FALSE

\* The datagram the counter would send if it had nothing new to say.
Current == [session |-> session, seq |-> seq, count |-> seen, fuel |-> fuel]

NotAfter(d, e) == d.session < e.session \/ (d.session = e.session /\ d.seq <= e.seq)

\* e, not sent before d, has counted at least as much, and in one session by exactly what
\* was scored between them.
Agree(d, e) ==
  \A h \in Hubs :
    /\ d.fuel[h] <= e.fuel[h]
    /\ d.session = e.session => e.count[h] - d.count[h] = e.fuel[h] - d.fuel[h]
    /\ d.session = e.session /\ d.seq = e.seq => d.fuel[h] = e.fuel[h]

\* Everything on the network was sent by the counter as it counted, in one order, and after
\* the last datagram accepted.
FlightInv ==
  /\ \A m \in inFlight : NotAfter(m.datagram, Current) /\ Agree(m.datagram, Current)
  /\ \A m, n \in inFlight : Earlier(m.datagram, n.datagram) => Agree(m.datagram, n.datagram)
  /\ \A m, n \in inFlight :
       m = n \/ Earlier(m.datagram, n.datagram) \/ Earlier(n.datagram, m.datagram)

LastInv ==
  last # None =>
    /\ NotAfter(last, Current) /\ Agree(last, Current)
    /\ \A m \in inFlight : Earlier(last, m.datagram) /\ Agree(last, m.datagram)

\* The credit is at most what was scored since the origin, and exactly that in its session.
CreditInv ==
  last # None =>
    /\ NotAfter(origin, last)
    /\ \A h \in Hubs :
         /\ GetHubCounts[h] + origin.fuel[h] <= last.fuel[h]
         /\ origin.session = last.session => GetHubCounts[h] + origin.fuel[h] = last.fuel[h]

OrderInv == IInv /\ FlightInv /\ LastInv /\ CreditInv

\* The receiver's credit depends on nothing the counter or the network changes alone.
LEMMA CreditStands ==
  ASSUME CreditInv, UNCHANGED receiverVars
  PROVE  CreditInv'
<1>1. GetHubCounts' = GetHubCounts
  BY DEF GetHubCounts, receiverVars
<1> QED
  BY <1>1 DEF CreditInv, NotAfter, receiverVars

\* A send takes its place at the end of the order (Score, Heartbeat).
LEMMA SendKeepsOrder ==
  ASSUME Ordered, IInv, FlightInv, LastInv, UNCHANGED <<session, last>>,
         seen' \in [Hubs -> Nat], fuel' \in [Hubs -> Nat],
         \A h \in Hubs : fuel'[h] >= fuel[h] /\ seen'[h] - seen[h] = fuel'[h] - fuel[h],
         Send(seen', fuel')
  PROVE  FlightInv' /\ LastInv'
<1> DEFINE now == [session |-> session, seq |-> seq + 1, count |-> seen', fuel |-> fuel']
           sent == [datagram |-> now, copy |-> 1]
<1>1. inFlight' = inFlight \cup {sent}
  BY DEF Send, Copies, Ordered
<1>2. Current' = now
  BY DEF Current, Send
<1>3. session \in Nat /\ seq \in Nat /\ seen \in [Hubs -> Nat] /\ fuel \in [Hubs -> Nat]
  BY DEF IInv, TypeOK
<1>4. ASSUME NEW d \in Datagrams, NotAfter(d, Current), Agree(d, Current)
      PROVE  Earlier(d, now) /\ NotAfter(d, now) /\ Agree(d, now)
  <2>1. /\ now.session = session /\ now.seq = seq + 1
        /\ now.count = seen' /\ now.fuel = fuel'
        /\ Current.session = session /\ Current.seq = seq
        /\ Current.count = seen /\ Current.fuel = fuel
    BY DEF Current
  <2> HIDE DEF now
  <2>2. d.session \in Nat /\ d.seq \in Nat /\ d.count \in [Hubs -> Nat] /\ d.fuel \in [Hubs -> Nat]
    BY DEF Datagrams
  <2>3. Earlier(d, now) /\ NotAfter(d, now)
    BY <1>4, <2>1, <2>2, <1>3 DEF Earlier, NotAfter
  <2>4. d.session = now.session => d.seq # now.seq
    BY <1>4, <2>1, <2>2, <1>3 DEF NotAfter
  <2>5. ASSUME NEW h \in Hubs
        PROVE  /\ d.fuel[h] <= now.fuel[h]
               /\ d.session = now.session => now.count[h] - d.count[h] = now.fuel[h] - d.fuel[h]
    <3>1. /\ d.fuel[h] <= fuel[h]
          /\ d.session = session => seen[h] - d.count[h] = fuel[h] - d.fuel[h]
      BY <1>4, <2>1 DEF Agree
    <3>2. d.fuel[h] \in Nat /\ d.count[h] \in Nat /\ seen[h] \in Nat /\ fuel[h] \in Nat
          /\ seen'[h] \in Nat /\ fuel'[h] \in Nat
      BY <2>2, <1>3
    <3>3. fuel'[h] >= fuel[h] /\ seen'[h] - seen[h] = fuel'[h] - fuel[h]
      OBVIOUS
    <3> QED
      BY <3>1, <3>2, <3>3, <2>1
  <2> QED
    BY <2>3, <2>4, <2>5 DEF Agree
<1>5. NotAfter(now, now) /\ Agree(now, now)
  BY <1>3 DEF NotAfter, Agree
<1>6. ~Earlier(now, now)
  BY <1>3 DEF Earlier
<1>7. \A m \in inFlight : /\ m.datagram \in Datagrams
                          /\ Earlier(m.datagram, now) /\ NotAfter(m.datagram, now)
                          /\ Agree(m.datagram, now)
  <2> TAKE m \in inFlight
  <2>1. m.datagram \in Datagrams
    BY DEF IInv, TypeOK
  <2>2. NotAfter(m.datagram, Current) /\ Agree(m.datagram, Current)
    BY DEF FlightInv
  <2> QED
    BY <2>1, <2>2, <1>4
<1>8. sent.datagram = now
  OBVIOUS
<1>9. \A m \in inFlight : ~Earlier(now, m.datagram)
  <2> TAKE m \in inFlight
  <2>1. now.session = session /\ now.seq = seq + 1
    OBVIOUS
  <2>2. m.datagram.session \in Nat /\ m.datagram.seq \in Nat
    BY <1>7 DEF Datagrams
  <2> HIDE DEF now
  <2> QED
    BY <1>7, <2>1, <2>2, <1>3 DEF Earlier
<1> HIDE DEF now, sent
<1>10. FlightInv'
  <2>1. \A m \in inFlight' : NotAfter(m.datagram, now) /\ Agree(m.datagram, now)
    BY <1>1, <1>5, <1>7, <1>8
  <2>2. \A m, n \in inFlight' : Earlier(m.datagram, n.datagram) => Agree(m.datagram, n.datagram)
    BY <1>1, <1>6, <1>7, <1>8, <1>9 DEF FlightInv
  <2>3. \A m, n \in inFlight' :
          m = n \/ Earlier(m.datagram, n.datagram) \/ Earlier(n.datagram, m.datagram)
    BY <1>1, <1>7, <1>8 DEF FlightInv
  <2> QED
    BY <2>1, <2>2, <2>3, <1>2 DEF FlightInv, NotAfter, Agree, Earlier
<1>11. LastInv'
  <2> SUFFICES ASSUME last # None
               PROVE  /\ NotAfter(last, now) /\ Agree(last, now)
                      /\ \A m \in inFlight' : Earlier(last, m.datagram) /\ Agree(last, m.datagram)
    BY <1>2 DEF LastInv, NotAfter, Agree, Earlier
  <2>1. last \in Datagrams
    BY DEF IInv, TypeOK
  <2>2. NotAfter(last, Current) /\ Agree(last, Current)
    BY DEF LastInv
  <2> QED
    BY <2>1, <2>2, <1>1, <1>4, <1>8 DEF LastInv
<1> QED
  BY <1>10, <1>11

\* The counter's steps keep the order: a restart opens a session later than all.
LEMMA CounterKeepsOrder ==
  ASSUME Ordered, OrderInv, (\E h \in Hubs : Score(h) \/ Miscount(h)) \/ Heartbeat \/ Restart
  PROVE  OrderInv'
<1>1. IInv' /\ UNCHANGED receiverVars
  BY CounterKeepsInvariant DEF OrderInv
<1>2. CreditInv' /\ last' = last
  BY <1>1, CreditStands DEF OrderInv, receiverVars
<1>3. CASE \E h \in Hubs : Score(h)
  <2> PICK h \in Hubs : Score(h)
    BY <1>3
  <2>1. seen' = [seen EXCEPT ![h] = @ + 1] /\ fuel' = [fuel EXCEPT ![h] = @ + 1]
        /\ Send(seen', fuel') /\ session' = session
    BY DEF Score
  <2>2. seen' \in [Hubs -> Nat] /\ fuel' \in [Hubs -> Nat]
    BY <2>1 DEF OrderInv, IInv, TypeOK
  <2>3. \A k \in Hubs : fuel'[k] >= fuel[k] /\ seen'[k] - seen[k] = fuel'[k] - fuel[k]
    BY <2>1 DEF OrderInv, IInv, TypeOK
  <2> QED
    BY <1>1, <1>2, <2>1, <2>2, <2>3, SendKeepsOrder DEF OrderInv
<1>4. CASE \E h \in Hubs : Miscount(h)
  BY <1>4 DEF Miscount, Ordered
<1>5. CASE Heartbeat
  <2>1. seen' = seen /\ fuel' = fuel /\ Send(seen', fuel') /\ session' = session
    BY <1>5 DEF Heartbeat
  <2>2. seen' \in [Hubs -> Nat] /\ fuel' \in [Hubs -> Nat]
        /\ \A k \in Hubs : fuel'[k] >= fuel[k] /\ seen'[k] - seen[k] = fuel'[k] - fuel[k]
    BY <2>1 DEF OrderInv, IInv, TypeOK
  <2> QED
    BY <1>1, <1>2, <2>1, <2>2, SendKeepsOrder DEF OrderInv
<1>6. CASE Restart
  <2>1. session' = session + 1 /\ fuel' = fuel /\ inFlight' = inFlight
    BY <1>6 DEF Restart
  <2>2. Current'.session = session + 1 /\ Current'.fuel = fuel
        /\ Current.session = session /\ Current.fuel = fuel /\ session \in Nat
    BY <2>1 DEF Current, OrderInv, IInv, TypeOK
  <2>3. ASSUME NEW d \in Datagrams, NotAfter(d, Current), Agree(d, Current)
        PROVE  NotAfter(d, Current') /\ Agree(d, Current')
    <3>1. d.session \in Nat /\ d.session <= session
      BY <2>2, <2>3 DEF NotAfter, Datagrams
    <3>2. d.session < Current'.session
      BY <2>2, <3>1
    <3>3. d.session # Current'.session
      BY <2>2, <3>1
    <3> QED
      BY <2>2, <2>3, <3>2, <3>3 DEF NotAfter, Agree
  <2>4. \A m \in inFlight : m.datagram \in Datagrams
    BY DEF OrderInv, IInv, TypeOK
  <2>5. FlightInv'
    <3>1. \A m \in inFlight : NotAfter(m.datagram, Current') /\ Agree(m.datagram, Current')
      BY <2>3, <2>4 DEF OrderInv, FlightInv
    <3> QED
      BY <2>1, <3>1 DEF OrderInv, FlightInv, NotAfter, Agree, Earlier
  <2>6. LastInv'
    <3> SUFFICES ASSUME last # None
                 PROVE  NotAfter(last, Current') /\ Agree(last, Current')
      BY <1>2, <2>1 DEF OrderInv, LastInv, NotAfter, Agree, Earlier
    <3>1. last \in Datagrams
      BY DEF OrderInv, IInv, TypeOK
    <3> QED
      BY <3>1, <2>3 DEF OrderInv, LastInv
  <2> QED
    BY <1>1, <1>2, <2>5, <2>6 DEF OrderInv
<1> QED
  BY <1>3, <1>4, <1>5, <1>6

\* Accepting the oldest datagram on the network credits exactly what was scored since the
\* last one, or, across a restart, nothing (record).
LEMMA RecordKeepsCredit ==
  ASSUME OrderInv, NEW m \in inFlight, \A n \in inFlight : ~Earlier(n.datagram, m.datagram),
         Record(m.datagram), UNCHANGED counterVars, inFlight' = inFlight \ {m}
  PROVE  OrderInv'
<1> DEFINE d == m.datagram
<1>1. d \in Datagrams
  BY DEF OrderInv, IInv, TypeOK
<1>2. IInv'
  BY <1>1, RecordRaises DEF OrderInv
<1>3. FlightInv'
  BY DEF OrderInv, FlightInv, NotAfter, Agree, Earlier, Current, counterVars
<1>4. CASE Stale(d)
  <2>1. UNCHANGED receiverVars
    BY <1>4 DEF Record
  <2>2. LastInv'
    BY <2>1 DEF OrderInv, LastInv, NotAfter, Agree, Earlier, Current, counterVars, receiverVars
  <2> QED
    BY <2>1, <2>2, <1>2, <1>3, CreditStands DEF OrderInv
<1>5. CASE ~Stale(d)
  <2>1. last' = d /\ d # None
    BY <1>5, <1>1, NoneAssumption DEF Record
  <2>2. LastInv'
    <3>1. NotAfter(d, Current') /\ Agree(d, Current')
      BY DEF OrderInv, FlightInv, NotAfter, Agree, Current, counterVars
    <3>2. \A n \in inFlight' : Earlier(d, n.datagram) /\ Agree(d, n.datagram)
      BY DEF OrderInv, FlightInv
    <3> QED
      BY <2>1, <3>1, <3>2 DEF LastInv, NotAfter, Agree, Earlier
  <2>3. CountsValue(GetHubCounts) /\ CountsValue(GetHubCounts)'
    <3>1. (IInv => CountsValue(GetHubCounts))'
      BY CountsRead, PTL
    <3> QED
      BY <3>1, <1>2, CountsRead DEF OrderInv
  <2>4. CASE last = None
    <3>1. origin' = d /\ base' = d.count /\ carried' = Zero
      BY <1>5, <2>4 DEF Record, Rebase, SameSession, OrderInv, IInv, BaselineInv
    <3>2. GetHubCounts' = [h \in Hubs |-> Zero[h] + (d.count[h] - d.count[h])]
      BY <2>1, <2>3, <3>1 DEF CountsValue
    <3>3. \A h \in Hubs : GetHubCounts'[h] + d.fuel[h] = d.fuel[h]
      BY <3>2, <1>1 DEF Zero, Datagrams
    <3>4. NotAfter(d, d) /\ \A h \in Hubs : d.fuel[h] <= d.fuel[h]
      BY <1>1 DEF NotAfter, Datagrams
    <3>5. CreditInv'
      BY <2>1, <3>1, <3>3, <3>4 DEF CreditInv, NotAfter
    <3> QED
      BY <1>2, <1>3, <2>2, <3>5 DEF OrderInv
  <2>5. CASE last # None
    <3> DEFINE credit == [h \in Hubs |-> carried[h] + (last.count[h] - base[h])]
    <3>1. GetHubCounts = credit /\ credit \in [Hubs -> Nat]
      BY <2>3, <2>5, CountsRead DEF CountsValue, OrderInv
    <3>2. Earlier(last, d) /\ Agree(last, d) /\ last \in Datagrams /\ origin \in Datagrams
      BY <2>5 DEF OrderInv, LastInv, IInv, TypeOK, BaselineInv
    <3>3. NotAfter(origin, last)
      BY <2>5 DEF OrderInv, CreditInv
    <3>4. origin' = origin
      BY <1>5, <2>5 DEF Record, Rebase
    <3>5. NotAfter(origin, d)
      BY <3>2, <3>3, <1>1 DEF NotAfter, Earlier, Datagrams
    <3>6. \A h \in Hubs : /\ credit[h] + origin.fuel[h] <= last.fuel[h]
                          /\ origin.session = last.session =>
                               credit[h] + origin.fuel[h] = last.fuel[h]
      BY <2>5, <3>1 DEF OrderInv, CreditInv
    <3>7. CASE last.session = d.session
      <4>1. base' = base /\ carried' = carried
        BY <1>5, <2>5, <3>7 DEF Record, SameSession
      <4>2. GetHubCounts' = [h \in Hubs |-> carried[h] + (d.count[h] - base[h])]
        BY <2>1, <2>3, <4>1 DEF CountsValue
      <4>3. ASSUME NEW h \in Hubs
            PROVE  GetHubCounts'[h] = credit[h] + (d.fuel[h] - last.fuel[h])
        <5>1. d.count[h] - last.count[h] = d.fuel[h] - last.fuel[h]
          BY <3>2, <3>7 DEF Agree
        <5>2. d.count[h] \in Nat /\ d.fuel[h] \in Nat /\ last.count[h] \in Nat
              /\ last.fuel[h] \in Nat /\ carried[h] \in Nat /\ base[h] \in Nat
          BY <1>1, <3>2 DEF Datagrams, OrderInv, IInv, TypeOK
        <5>3. GetHubCounts'[h] = carried[h] + (d.count[h] - base[h])
          BY <4>2
        <5>4. credit[h] = carried[h] + (last.count[h] - base[h])
          OBVIOUS
        <5> HIDE DEF credit, d
        <5> QED
          BY <5>1, <5>2, <5>3, <5>4
      <4>4. \A h \in Hubs : d.fuel[h] \in Nat /\ last.fuel[h] \in Nat /\ origin.fuel[h] \in Nat
                            /\ credit[h] \in Nat
        BY <1>1, <3>1, <3>2 DEF Datagrams
      <4> HIDE DEF credit, d
      <4>5. \A h \in Hubs : /\ GetHubCounts'[h] + origin.fuel[h] <= d.fuel[h]
                            /\ origin.session = d.session =>
                                 GetHubCounts'[h] + origin.fuel[h] = d.fuel[h]
        BY <3>6, <3>7, <4>3, <4>4
      <4>6. CreditInv'
        BY <2>1, <3>4, <3>5, <4>5 DEF CreditInv, NotAfter
      <4> QED
        BY <1>2, <1>3, <2>2, <4>6 DEF OrderInv
    <3>8. CASE last.session # d.session
      <4>1. base' = d.count /\ carried' = credit
        BY <1>5, <2>5, <3>8 DEF Record, Rebase, SameSession, Banked
      <4>2. \A h \in Hubs : GetHubCounts'[h] = credit[h] + (d.count[h] - d.count[h])
        BY <2>1, <2>3, <4>1 DEF CountsValue
      <4>3. origin.session # d.session
        BY <1>1, <3>2, <3>3, <3>8 DEF Earlier, NotAfter, Datagrams
      <4>4. \A h \in Hubs : d.fuel[h] \in Nat /\ last.fuel[h] \in Nat /\ origin.fuel[h] \in Nat
                            /\ credit[h] \in Nat /\ d.count[h] \in Nat
        BY <1>1, <3>1, <3>2 DEF Datagrams
      <4>5. \A h \in Hubs : last.fuel[h] <= d.fuel[h]
        BY <3>2 DEF Agree
      <4> HIDE DEF credit, d
      <4>6. \A h \in Hubs : GetHubCounts'[h] + origin.fuel[h] <= d.fuel[h]
        BY <3>6, <4>2, <4>4, <4>5
      <4>7. CreditInv'
        BY <2>1, <3>4, <3>5, <4>3, <4>6 DEF CreditInv, NotAfter
      <4> QED
        BY <1>2, <1>3, <2>2, <4>7 DEF OrderInv
    <3> QED
      BY <3>7, <3>8
  <2> QED
    BY <2>4, <2>5
<1> QED
  BY <1>4, <1>5

\* A match reset moves the origin to the last datagram, where the credit is zero.
LEMMA ResetKeepsOrder ==
  ASSUME OrderInv, ResetMatch
  PROVE  OrderInv'
<1>1. IInv' /\ GetHubCounts' = Zero
  BY ResetZeroes DEF OrderInv
<1>2. last' = last /\ origin' = last /\ UNCHANGED <<counterVars, inFlight>>
  BY DEF ResetMatch, TakeBaseline
<1>3. FlightInv' /\ LastInv'
  BY <1>2 DEF OrderInv, FlightInv, LastInv, NotAfter, Agree, Earlier, Current, counterVars
<1>4. ASSUME last # None
      PROVE  NotAfter(last, last) /\ \A h \in Hubs : /\ Zero[h] + last.fuel[h] = last.fuel[h]
                                                     /\ last.fuel[h] <= last.fuel[h]
  BY <1>4 DEF OrderInv, IInv, TypeOK, Datagrams, NotAfter, Zero
<1>5. CreditInv'
  BY <1>1, <1>2, <1>4 DEF CreditInv, NotAfter
<1> QED
  BY <1>1, <1>3, <1>5 DEF OrderInv

\* The order holds from the start and through every step.
LEMMA OrderKept ==
  ASSUME Ordered
  PROVE  (Init => OrderInv) /\ (OrderInv /\ [Next]_vars => OrderInv')
<1>1. Init => OrderInv
  BY InitEstablishes DEF Init, OrderInv, FlightInv, LastInv, CreditInv
<1> SUFFICES ASSUME OrderInv, [Next]_vars PROVE OrderInv'
  BY <1>1
<1>2. CASE (\E h \in Hubs : Score(h) \/ Miscount(h)) \/ Heartbeat \/ Restart
  BY <1>2, CounterKeepsOrder
<1>3. CASE ResetMatch
  BY <1>3, ResetKeepsOrder
<1>4. CASE \E m \in inFlight : Receive(m)
  <2> PICK m \in inFlight : Receive(m)
    BY <1>4
  <2>1. \A n \in inFlight : ~Earlier(n.datagram, m.datagram)
    BY DEF Receive, Deliverable, Ordered
  <2> QED
    BY <2>1, RecordKeepsCredit DEF Receive
<1>5. ASSUME UNCHANGED <<counterVars, receiverVars>>, inFlight' \subseteq inFlight
      PROVE  OrderInv'
  <2>1. IInv'
    BY <1>5 DEF OrderInv, IInv, TypeOK, BaselineInv, counterVars, receiverVars, Zero
  <2>2. CreditInv'
    BY <1>5, CreditStands DEF OrderInv
  <2>3. Current' = Current /\ last' = last
    BY <1>5 DEF Current, counterVars, receiverVars
  <2>4. FlightInv'
    BY <1>5, <2>3 DEF OrderInv, FlightInv, NotAfter, Agree, Earlier
  <2>5. LastInv'
    BY <1>5, <2>3 DEF OrderInv, LastInv, NotAfter, Agree, Earlier
  <2> QED
    BY <2>1, <2>2, <2>4, <2>5 DEF OrderInv
<1>6. CASE \E m \in inFlight : Lose(m)
  BY <1>5, <1>6 DEF Lose
<1>7. CASE UNCHANGED vars
  BY <1>5, <1>7 DEF vars
<1> QED
  BY <1>2, <1>3, <1>4, <1>6, <1>7 DEF Next

\* On a network that keeps the order no match is credited more than was counted, whatever
\* is lost and however often the counter restarts, resuming its counts or not.
THEOREM NoCreditFromNowhere ==
  ASSUME Ordered
  PROVE  Spec => []NeverMoreThanCounted
<1>1. ASSUME OrderInv PROVE NeverMoreThanCounted
  <2> SUFFICES ASSUME last # None, NEW h \in Hubs
               PROVE  GetHubCounts[h] + origin.fuel[h] <= fuel[h]
    BY DEF NeverMoreThanCounted
  <2>1. GetHubCounts[h] + origin.fuel[h] <= last.fuel[h]
    BY <1>1 DEF OrderInv, CreditInv
  <2>2. last.fuel[h] <= fuel[h]
    BY <1>1 DEF OrderInv, LastInv, Agree, Current
  <2>3. GetHubCounts \in [Hubs -> Nat]
    BY <1>1, CountsRead DEF OrderInv
  <2>4. last.fuel[h] \in Nat /\ fuel[h] \in Nat /\ origin.fuel[h] \in Nat
    BY <1>1 DEF OrderInv, IInv, TypeOK, BaselineInv, Datagrams
  <2> QED
    BY <2>1, <2>2, <2>3, <2>4
<1> QED
  BY <1>1, OrderKept, PTL DEF Spec

\* On such a network a lost datagram costs nothing once a later one of its session is in.
THEOREM NothingLostWithADatagram ==
  ASSUME Ordered
  PROVE  Spec => []LostDatagramsCostNothing
<1>1. ASSUME OrderInv PROVE LostDatagramsCostNothing
  <2> SUFFICES ASSUME last # None, last.session = session, last.seq = seq,
                      origin.session = session, NEW h \in Hubs
               PROVE  GetHubCounts[h] + origin.fuel[h] = fuel[h]
    BY DEF LostDatagramsCostNothing
  <2>1. GetHubCounts[h] + origin.fuel[h] = last.fuel[h]
    BY <1>1 DEF OrderInv, CreditInv
  <2>2. last.fuel[h] = fuel[h]
    BY <1>1 DEF OrderInv, LastInv, Agree, Current
  <2> QED
    BY <2>1, <2>2
<1> QED
  BY <1>1, OrderKept, PTL DEF Spec
=============================================================================
