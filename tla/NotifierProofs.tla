----------------------------- MODULE NotifierProofs ----------------------------
(***************************************************************************)
(* Theorems about Notifier.tla, for any number of pages and any size of    *)
(* buffer and timeout: what a page shows when it has nothing left to       *)
(* write, and when it may lose its subscription.                           *)
(*                                                                         *)
(* IdlePageIsCurrent speaks of a page that is idle; the invariant follows  *)
(* the newest match load to where it is before that: last in the page's    *)
(* channel, or being written, or still to be written by a page that joins  *)
(* (Newest); what the page's command loop answers does not come between    *)
(* (Answers).  BusyPageIsKept needs that a spell of refusals is never       *)
(* longer than the time the page has taken nothing, while its channel is   *)
(* full: a channel with room ends the spell at the next notification.      *)
(***************************************************************************)
EXTENDS Notifier, TLAPS

Settled ==
  /\ messageType = "matchLoad"
  /\ \A c \in Callers : step[c] = "idle"
  /\ ~overtaken

\* Where the newest value is, of a page that has refused nothing.
NewestIsOnItsWay(p) ==
  /\ queue[p] # <<>> => queue[p][Len(queue[p])] = version
  /\ queue[p] = <<>> /\ page[p] \in {"locking", "writing"} /\ writing[p] # Other =>
       writing[p] = version
  /\ \/ queue[p] = <<>> /\ page[p] = "waiting"
     \/ queue[p] = <<>> /\ page[p] \in {"locking", "writing"} /\ writing[p] = Other
     => shown[p] = version

Newest ==
  Settled =>
    \A p \in Pages : page[p] # "closed" /\ blockedFor[p] = NotBlocked => NewestIsOnItsWay(p)

\* An open page without a subscription has been refused.
Refused == \A p \in Pages \ listeners : page[p] # "closed" => blockedFor[p] # NotBlocked

\* A full channel's spell is no longer than the page has been idle.
Spells ==
  \A p \in listeners :
    Len(queue[p]) >= notifyBufferSize /\ blockedFor[p] # NotBlocked => blockedFor[p] <= idleFor[p]

\* No command is answered with a match load.
Answers ==
  messageType = "matchLoad" => \A p \in Pages : command[p] # "idle" => reply[p] = Other

IInv == TypeOK /\ Newest /\ Refused /\ Spells /\ Answers

-----------------------------------------------------------------------------
(* Types                                                                     *)

\* A clock that stops at its limit.
LEMMA OlderIs ==
  ASSUME NEW limit \in Nat \ {0}, NEW age \in {NotBlocked} \cup 0 .. limit
  PROVE  /\ age = NotBlocked => Older(age, limit) = NotBlocked
         /\ age # NotBlocked => Older(age, limit) \in 0 .. limit
         /\ Older(age, limit) = NotBlocked => age = NotBlocked
         /\ age # NotBlocked /\ age < limit => Older(age, limit) = age + 1
         /\ age = limit => Older(age, limit) = limit
  BY DEF Older, NotBlocked

\* A clock that is running stays in its range.
LEMMA OlderRuns ==
  ASSUME NEW limit \in Nat \ {0}, NEW age \in 0 .. limit
  PROVE  Older(age, limit) \in 0 .. limit
<1>1. CASE age \in 0 .. (limit - 1)
  BY <1>1 DEF Older
<1>2. CASE age \notin 0 .. (limit - 1)
  BY <1>2 DEF Older
<1> QED
  BY <1>1, <1>2

\* A channel that takes a message ends with it and keeps its elements' type.
LEMMA AppendIs ==
  ASSUME NEW q \in Seq(Versions), NEW v \in Versions
  PROVE  /\ Append(q, v) \in Seq(Versions) /\ Append(q, v) # <<>>
         /\ Len(Append(q, v)) = Len(q) + 1
         /\ Append(q, v)[Len(Append(q, v))] = v
  OBVIOUS

\* A channel that gives its first message keeps its last, if there is another.
LEMMA TailIs ==
  ASSUME NEW q \in Seq(Versions), q # <<>>
  PROVE  /\ Tail(q) \in Seq(Versions) /\ Len(Tail(q)) = Len(q) - 1 /\ Head(q) \in Versions
         /\ Len(q) \in Nat /\ Len(q) >= 1
         /\ Tail(q) # <<>> => Tail(q)[Len(Tail(q))] = q[Len(q)]
         /\ Tail(q) = <<>> => Head(q) = q[Len(q)]
<1>1. Len(q) \in Nat /\ Len(q) >= 1
  OBVIOUS
<1>2. /\ Tail(q) \in Seq(Versions) /\ Len(Tail(q)) = Len(q) - 1
      /\ \A i \in 1 .. Len(q) - 1 : Tail(q)[i] = q[i + 1]
  BY <1>1
<1>3. Head(q) = q[1] /\ q[1] \in Versions
  BY <1>1
<1>4. Tail(q) # <<>> => Len(Tail(q)) >= 1
  BY <1>1, <1>2
<1>5. Tail(q) = <<>> => Len(q) = 1
  BY <1>1, <1>2
<1> QED
  BY <1>1, <1>2, <1>3, <1>4, <1>5

\* A notification leaves every channel and spell with its type, and no channel too long.
LEMMA SendTypes ==
  ASSUME TypeOK, NEW c \in Callers, Send(c)
  PROVE  /\ queue' \in [Pages -> Seq(Versions)]
         /\ \A p \in Pages : Len(queue'[p]) <= notifyBufferSize
         /\ blockedFor' \in [Pages -> {NotBlocked} \cup 0 .. listenerBlockedTimeout]
         /\ listeners' \subseteq listeners
<1>1. body[c] \in Versions /\ queue \in [Pages -> Seq(Versions)]
      /\ \A p \in Pages : Len(queue[p]) <= notifyBufferSize
  BY DEF TypeOK
<1>2. notifyBufferSize \in Nat
  BY BufferAssumption
<1>3. ASSUME NEW p \in Pages
      PROVE  /\ (IF Accepts(p) THEN Append(queue[p], body[c]) ELSE queue[p]) \in Seq(Versions)
             /\ Len(IF Accepts(p) THEN Append(queue[p], body[c]) ELSE queue[p]) <= notifyBufferSize
  <2>1. CASE Accepts(p)
    <3>1. Len(queue[p]) < notifyBufferSize
      BY <2>1 DEF Accepts, Room
    <3>2. Len(queue[p]) \in Nat
      BY <1>1
    <3>3. /\ Append(queue[p], body[c]) \in Seq(Versions)
          /\ Len(Append(queue[p], body[c])) = Len(queue[p]) + 1
      BY <1>1, AppendIs
    <3> QED
      BY <1>2, <2>1, <3>1, <3>2, <3>3
  <2>2. CASE ~Accepts(p)
    BY <1>1, <2>2
  <2> QED
    BY <2>1, <2>2
<1>4. queue' = [p \in Pages |-> IF Accepts(p) THEN Append(queue[p], body[c]) ELSE queue[p]]
  BY DEF Send
<1>5. blockedFor' \in [Pages -> {NotBlocked} \cup 0 .. listenerBlockedTimeout]
  <2>1. 0 \in 0 .. listenerBlockedTimeout
    BY TimeoutAssumption
  <2> QED
    BY <2>1 DEF Send, Spell, TypeOK
<1>6. listeners' \subseteq listeners
  BY DEF Send
<1> QED
  BY <1>3, <1>4, <1>5, <1>6

-----------------------------------------------------------------------------
(* The steps                                                                 *)

\* Init establishes the invariant.
LEMMA InitIInv == Init => IInv
<1> SUFFICES ASSUME Init PROVE IInv
  OBVIOUS
<1>1. 0 \in Versions
  BY VersionAssumption DEF Versions
<1>2. /\ 0 \in 0 .. writeTimeout /\ 0 \in 0 .. listenerBlockedTimeout
      /\ 0 <= notifyBufferSize
  BY TimeoutAssumption, BufferAssumption
<1>3. <<>> \in Seq(Versions) /\ Len(<<>>) = 0
  OBVIOUS
<1>4. /\ messageType \in {"arenaStatus", "matchLoad"} /\ version \in Versions
      /\ step \in [Callers -> {"idle", "due", "sending"}] /\ body \in [Callers -> Versions]
      /\ listeners \subseteq Pages
  BY <1>1 DEF Init
<1>5. queue \in [Pages -> Seq(Versions)] /\ \A p \in Pages : Len(queue[p]) <= notifyBufferSize
  BY <1>2, <1>3 DEF Init
<1>6. /\ blockedFor \in [Pages -> {NotBlocked} \cup 0 .. listenerBlockedTimeout]
      /\ page \in [Pages -> {"closed", "joining", "waiting", "locking", "writing"}]
      /\ writing \in [Pages -> Versions \cup {Other}]
      /\ command \in [Pages -> {"idle", "locking", "writing"}]
      /\ reply \in [Pages -> Versions \cup {Other}]
      /\ pingDue \in [Pages -> BOOLEAN]
      /\ client \in [Pages -> {"reads", "stalls", "closed", "gone"}]
      /\ shown \in [Pages -> Versions] /\ overtaken \in BOOLEAN
  BY <1>1 DEF Init
<1>7. /\ writeFor \in [Pages -> 0 .. writeTimeout]
      /\ idleFor \in [Pages -> 0 .. listenerBlockedTimeout]
  BY <1>2 DEF Init
<1>8. TypeOK
  BY <1>4, <1>5, <1>6, <1>7 DEF TypeOK
<1>9. \A p \in Pages : page[p] = "closed" /\ command[p] = "idle"
  BY DEF Init
<1>10. listeners = {}
  BY DEF Init
<1> QED
  BY <1>8, <1>9, <1>10 DEF IInv, Newest, Refused, Spells, Answers

\* A change, and the message that tells of it, are still to be sent.
LEMMA ProducingKeeps ==
  ASSUME IInv, NEW c \in Callers, Change(c) \/ Produce(c)
  PROVE  IInv'
<1>1. UNCHANGED <<messageType, channelVars, writeVars, client, shown, idleFor, overtaken>>
  BY DEF Change, Produce
<1>2. TypeOK
  BY DEF IInv
<1>3. /\ step' \in [Callers -> {"idle", "due", "sending"}]
      /\ messageType = "matchLoad" => step'[c] # "idle"
  BY <1>2 DEF Change, Produce, TypeOK
<1>4. version' \in Versions /\ body' \in [Callers -> Versions]
  <2>1. CASE Change(c)
    <3>1. version + 1 \in Versions
      BY <1>2, <2>1, VersionAssumption DEF Change, TypeOK, Versions
    <3> QED
      BY <1>2, <2>1, <3>1 DEF Change, TypeOK
  <2>2. CASE Produce(c)
    BY <1>2, <2>2 DEF Produce, TypeOK
  <2> QED
    BY <2>1, <2>2
<1>5. TypeOK'
  BY <1>1, <1>2, <1>3, <1>4 DEF TypeOK, channelVars, writeVars, commandVars
<1>6. ~Settled'
  BY <1>1, <1>3 DEF Settled
<1> QED
  BY <1>1, <1>5, <1>6 DEF IInv, Newest, Refused, Spells, Answers, channelVars, writeVars,
                         commandVars

\* What a notification does to one page.
LEMMA SendToPage ==
  ASSUME TypeOK, NEW c \in Callers, Send(c), NEW p \in Pages
  PROVE  /\ Accepts(p) =>
              /\ queue'[p] # <<>> /\ queue'[p][Len(queue'[p])] = body[c]
              /\ blockedFor'[p] = NotBlocked /\ p \in listeners'
         /\ ~Accepts(p) => queue'[p] = queue[p]
         /\ p \in Full => blockedFor'[p] # NotBlocked
         /\ p \in Full /\ blockedFor[p] # NotBlocked => blockedFor'[p] = blockedFor[p]
         /\ p \in Full /\ blockedFor[p] = NotBlocked => blockedFor'[p] = 0
         /\ p \notin listeners => blockedFor'[p] = blockedFor[p]
         /\ p \in listeners \ listeners' =>
              p \in Closed \/ (p \in Full /\ blockedFor'[p] >= listenerBlockedTimeout)
<1>1. blockedFor' = Spell /\ 0 # NotBlocked
  BY DEF Send, NotBlocked
<1>2. blockedFor'[p] = IF Accepts(p) THEN NotBlocked
                       ELSE IF p \in Full /\ blockedFor[p] = NotBlocked THEN 0 ELSE blockedFor[p]
  BY <1>1 DEF Spell
<1>3. queue' = [q \in Pages |-> IF Accepts(q) THEN Append(queue[q], body[c]) ELSE queue[q]]
  BY DEF Send
<1>4. queue'[p] = IF Accepts(p) THEN Append(queue[p], body[c]) ELSE queue[p]
  BY <1>3
<1>5. body[c] \in Versions /\ queue[p] \in Seq(Versions)
  BY DEF TypeOK
<1>6. Accepts(p) => queue'[p] # <<>> /\ queue'[p][Len(queue'[p])] = body[c]
  BY <1>4, <1>5, AppendIs
<1>7. /\ Accepts(p) => p \in listeners /\ p \notin Closed /\ p \notin Full
      /\ p \in Full => p \in listeners
  BY DEF Accepts, Room, Full
<1>8. listeners'
        = listeners \ (Closed \cup {q \in Full : blockedFor'[q] >= listenerBlockedTimeout})
  BY DEF Send
<1> QED
  BY <1>1, <1>2, <1>4, <1>6, <1>7, <1>8

\* A notification either puts the newest value last in every channel that it does not find
\* full, or another is still to come or has been overtaken.
LEMMA SendKeeps ==
  ASSUME IInv, NEW c \in Callers, Send(c)
  PROVE  IInv'
<1>0. TypeOK /\ Refused /\ Spells /\ Answers
  BY DEF IInv
<1>1. /\ UNCHANGED <<messageType, version, writeVars, client, shown, idleFor>>
      /\ step' = [step EXCEPT ![c] = "idle"] 
      /\ overtaken' = (messageType = "matchLoad" /\ body[c] # version)
      /\ body' = [body EXCEPT ![c] = 0]
  BY DEF Send
<1>2. TypeOK'
  <2>1. 0 \in Versions
    BY VersionAssumption DEF Versions
  <2>2. /\ step' \in [Callers -> {"idle", "due", "sending"}] /\ overtaken' \in BOOLEAN
        /\ body' \in [Callers -> Versions]
    BY <1>0, <1>1, <2>1 DEF TypeOK
  <2> QED
    BY <1>0, <1>1, <2>2, SendTypes DEF TypeOK, writeVars, commandVars
<1>3. \A p \in Pages : page[p] # "closed" => p \notin Closed
  BY DEF Closed
<1>4. \A p \in listeners \ Closed : Accepts(p) \/ p \in Full
  BY DEF Accepts, Full
<1>5. listeners \subseteq Pages /\ listeners' \subseteq listeners
  BY <1>0, SendTypes DEF TypeOK
<1>6. Newest'
  <2> SUFFICES ASSUME Settled', NEW p \in Pages, page[p] # "closed", blockedFor'[p] = NotBlocked
               PROVE  NewestIsOnItsWay(p)'
    BY <1>1 DEF Newest, writeVars
  <2>1. body[c] = version
    BY <1>1 DEF Settled
  <2>2. p \in listeners
    BY <1>0, SendToPage DEF Refused
  <2>3. Accepts(p)
    BY <1>0, <1>3, <1>4, <2>2, SendToPage
  <2>4. queue'[p] # <<>> /\ queue'[p][Len(queue'[p])] = version
    BY <1>0, <2>1, <2>3, SendToPage
  <2> QED
    BY <1>1, <2>4 DEF NewestIsOnItsWay
<1>7. Refused'
  <2> SUFFICES ASSUME NEW p \in Pages \ listeners', page[p] # "closed"
               PROVE  blockedFor'[p] # NotBlocked
    BY <1>1 DEF Refused, writeVars
  <2>1. CASE p \in listeners
    BY <1>0, <1>3, <2>1, SendToPage
  <2>2. CASE p \notin listeners
    BY <1>0, <2>2, SendToPage DEF Refused
  <2> QED
    BY <2>1, <2>2
<1>8. Spells'
  <2> SUFFICES ASSUME NEW p \in listeners', Len(queue'[p]) >= notifyBufferSize,
                      blockedFor'[p] # NotBlocked
               PROVE  blockedFor'[p] <= idleFor[p]
    BY <1>1 DEF Spells
  <2>1. p \in Pages /\ p \in listeners /\ ~Accepts(p)
    BY <1>0, <1>5, SendToPage
  <2>2. p \notin Closed
    BY DEF Send
  <2>3. p \in Full
    BY <1>4, <2>1, <2>2
  <2>4. Len(queue[p]) >= notifyBufferSize
    BY <1>0, <2>1, SendToPage
  <2>5. idleFor[p] \in 0 .. listenerBlockedTimeout
    BY <1>0, <2>1 DEF TypeOK
  <2>6. CASE blockedFor[p] = NotBlocked
    BY <1>0, <2>1, <2>3, <2>5, <2>6, SendToPage
  <2>7. CASE blockedFor[p] # NotBlocked
    BY <1>0, <2>1, <2>3, <2>4, <2>7, SendToPage DEF Spells
  <2> QED
    BY <2>6, <2>7
<1>9. Answers'
  BY <1>0, <1>1 DEF Answers, writeVars, commandVars
<1> QED
  BY <1>2, <1>6, <1>7, <1>8, <1>9 DEF IInv

\* A page that connects has a channel before it is told anything.
LEMMA ConnectKeeps ==
  ASSUME IInv, NEW p \in Pages, Connect(p)
  PROVE  IInv'
<1>0. TypeOK /\ Newest /\ Refused /\ Spells /\ Answers
  BY DEF IInv
<1>1. /\ page[p] = "closed" /\ p \notin listeners /\ listeners' = listeners \cup {p}
      /\ queue' = [queue EXCEPT ![p] = <<>>]
      /\ blockedFor' = [blockedFor EXCEPT ![p] = NotBlocked]
      /\ page' = [page EXCEPT ![p] = "joining"] /\ client' = [client EXCEPT ![p] = "reads"]
      /\ shown' = [shown EXCEPT ![p] = 0] /\ idleFor' = [idleFor EXCEPT ![p] = 0]
      /\ UNCHANGED <<messageType, callerVars, writing, commandVars, writeFor, pingDue, overtaken>>
  BY DEF Connect
<1>2. /\ \A q \in Pages : q # p =>
           /\ queue'[q] = queue[q] /\ blockedFor'[q] = blockedFor[q] /\ page'[q] = page[q]
           /\ shown'[q] = shown[q] /\ idleFor'[q] = idleFor[q] /\ writing'[q] = writing[q]
      /\ queue'[p] = <<>> /\ blockedFor'[p] = NotBlocked /\ page'[p] = "joining"
  BY <1>0, <1>1 DEF TypeOK
<1>3. TypeOK'
  <2>1. <<>> \in Seq(Versions) /\ Len(<<>>) = 0
    OBVIOUS
  <2>2. 0 \in Versions /\ 0 \in 0 .. listenerBlockedTimeout /\ 0 <= notifyBufferSize
    BY VersionAssumption, TimeoutAssumption, BufferAssumption DEF Versions
  <2>3. queue' \in [Pages -> Seq(Versions)] /\ \A q \in Pages : Len(queue'[q]) <= notifyBufferSize
    BY <1>0, <1>1, <1>2, <2>1, <2>2 DEF TypeOK
  <2>4. idleFor' \in [Pages -> 0 .. listenerBlockedTimeout]
    BY <1>0, <1>1, <2>2 DEF TypeOK
  <2>5. shown' \in [Pages -> Versions]
    BY <1>0, <1>1, <2>2 DEF TypeOK
  <2>6. blockedFor' \in [Pages -> {NotBlocked} \cup 0 .. listenerBlockedTimeout]
    BY <1>0, <1>1 DEF TypeOK
  <2>7. /\ page' \in [Pages -> {"closed", "joining", "waiting", "locking", "writing"}]
        /\ client' \in [Pages -> {"reads", "stalls", "closed", "gone"}]
         /\ listeners' \subseteq Pages
    BY <1>0, <1>1 DEF TypeOK
  <2> QED
    BY <1>0, <1>1, <2>3, <2>4, <2>5, <2>6, <2>7 DEF TypeOK, callerVars, commandVars
<1>4. Newest'
  <2> SUFFICES ASSUME Settled, NEW q \in Pages, page'[q] # "closed", blockedFor'[q] = NotBlocked
               PROVE  NewestIsOnItsWay(q)'
    BY <1>1 DEF Newest, Settled, callerVars
  <2>1. CASE q = p
    BY <1>2, <2>1 DEF NewestIsOnItsWay
  <2>2. CASE q # p
    BY <1>0, <1>1, <1>2, <2>2 DEF Newest, NewestIsOnItsWay, callerVars
  <2> QED
    BY <2>1, <2>2
<1>5. Refused'
  BY <1>0, <1>1, <1>2 DEF Refused
<1>6. Spells'
  BY <1>0, <1>1, <1>2 DEF Spells, TypeOK
<1>7. Answers'
  BY <1>0, <1>1 DEF Answers, commandVars
<1> QED
  BY <1>3, <1>4, <1>5, <1>6, <1>7 DEF IInv

\* A page's goroutines touch their own page and leave the subscription alone.
Touches(p) ==
  /\ UNCHANGED <<messageType, callerVars, listeners, blockedFor, overtaken>>
  /\ \A q \in Pages : q # p =>
       /\ queue'[q] = queue[q] /\ page'[q] = page[q] /\ writing'[q] = writing[q]
       /\ shown'[q] = shown[q] /\ idleFor'[q] = idleFor[q]

\* So the invariant holds if it does of that page.
LEMMA TouchKeeps ==
  ASSUME IInv, TypeOK', Answers', NEW p \in Pages, page[p] # "closed", Touches(p),
         Settled /\ page'[p] # "closed" /\ NewestIsOnItsWay(p) => NewestIsOnItsWay(p)',
         Len(queue'[p]) >= notifyBufferSize => queue'[p] = queue[p] /\ idleFor'[p] = idleFor[p]
  PROVE  IInv'
<1>0. TypeOK /\ Newest /\ Refused /\ Spells /\ Answers
  BY DEF IInv
<1>1. Newest'
  <2> SUFFICES ASSUME Settled, NEW q \in Pages, page'[q] # "closed", blockedFor[q] = NotBlocked
               PROVE  NewestIsOnItsWay(q)'
    BY DEF Newest, Settled, Touches, callerVars
  <2>1. CASE q = p
    BY <1>0, <2>1 DEF Newest
  <2>2. CASE q # p
    <3>1. NewestIsOnItsWay(q)
      BY <1>0, <2>2 DEF Newest, Touches
    <3> QED
      BY <2>2, <3>1 DEF NewestIsOnItsWay, Touches, callerVars
  <2> QED
    BY <2>1, <2>2
<1>2. Refused'
  BY <1>0 DEF Refused, Touches
<1>3. Spells'
  BY <1>0 DEF Spells, Touches, TypeOK
<1> QED
  BY <1>1, <1>2, <1>3 DEF IInv

\* The page's answers are as they were.
LEMMA AnswersStand ==
  ASSUME IInv, UNCHANGED <<messageType, commandVars>>
  PROVE  Answers'
  BY DEF IInv, Answers, commandVars

\* The first write, a ping and what was on the channel.
LEMMA WritingKeeps ==
  ASSUME IInv, NEW p \in Pages, Bootstrap(p) \/ Take(p) \/ WritePing(p)
  PROVE  IInv'
<1>0. TypeOK
  BY DEF IInv
<1>1. PICK what \in Versions \cup {Other} :
        /\ Write(p, what)
        /\ \/ /\ page[p] = "joining" /\ what = version
              /\ pingDue' = [pingDue EXCEPT ![p] = FALSE] /\ UNCHANGED <<queue, idleFor>>
           \/ /\ page[p] = "waiting" /\ what = Other
              /\ pingDue' = [pingDue EXCEPT ![p] = FALSE] /\ UNCHANGED <<queue, idleFor>>
           \/ /\ page[p] = "waiting" /\ queue[p] # <<>> /\ what = Head(queue[p])
              /\ queue' = [queue EXCEPT ![p] = Tail(@)]
              /\ idleFor' = [idleFor EXCEPT ![p] = 0] /\ UNCHANGED pingDue
  <2>1. queue[p] \in Seq(Versions) /\ version \in Versions
    BY <1>0 DEF TypeOK
  <2>2. queue[p] # <<>> => Head(queue[p]) \in Versions
    BY <2>1, TailIs
  <2> QED
    BY <2>1, <2>2 DEF Bootstrap, Take, WritePing, channelVars
<1>2. UNCHANGED <<messageType, callerVars, listeners, blockedFor, commandVars, writeFor, client,
                 shown, overtaken>>
  BY DEF Bootstrap, Take, WritePing, channelVars
<1>3. page' = [page EXCEPT ![p] = "locking"] /\ writing' = [writing EXCEPT ![p] = what]
  BY <1>1 DEF Write
<1>4. Other \notin Versions
  BY DEF Other, Versions
<1>5. /\ queue[p] \in Seq(Versions) /\ Len(queue[p]) \in Nat /\ Len(queue[p]) <= notifyBufferSize
      /\ notifyBufferSize \in Nat \ {0}
  BY <1>0, BufferAssumption DEF TypeOK
<1>6. page'[p] = "locking" /\ writing'[p] = what
  BY <1>0, <1>3 DEF TypeOK
<1>7. \/ queue' = queue /\ idleFor' = idleFor
      \/ /\ queue[p] # <<>> /\ what = Head(queue[p]) /\ queue' = [queue EXCEPT ![p] = Tail(@)]
         /\ idleFor' = [idleFor EXCEPT ![p] = 0]
  BY <1>1
<1>8. /\ queue' \in [Pages -> Seq(Versions)] /\ \A q \in Pages : Len(queue'[q]) <= notifyBufferSize
      /\ idleFor' \in [Pages -> 0 .. listenerBlockedTimeout]
      /\ Len(queue'[p]) >= notifyBufferSize => queue'[p] = queue[p] /\ idleFor'[p] = idleFor[p]
  <2>1. CASE queue' = queue /\ idleFor' = idleFor
    BY <1>0, <2>1 DEF TypeOK
  <2>2. CASE queue[p] # <<>> /\ queue' = [queue EXCEPT ![p] = Tail(@)]
             /\ idleFor' = [idleFor EXCEPT ![p] = 0]
    <3>1. /\ Tail(queue[p]) \in Seq(Versions) /\ Len(Tail(queue[p])) = Len(queue[p]) - 1
      BY <1>5, <2>2, TailIs
    <3>2. 0 \in 0 .. listenerBlockedTimeout
      BY TimeoutAssumption
    <3>3. queue'[p] = Tail(queue[p]) /\ \A q \in Pages : q # p => queue'[q] = queue[q]
      BY <1>0, <2>2 DEF TypeOK
    <3>4. Len(queue'[p]) <= notifyBufferSize /\ ~(Len(queue'[p]) >= notifyBufferSize)
      BY <1>5, <3>1, <3>3
    <3>5. queue' \in [Pages -> Seq(Versions)] /\ idleFor' \in [Pages -> 0 .. listenerBlockedTimeout]
      BY <1>0, <2>2, <3>1, <3>2 DEF TypeOK
    <3> QED
      BY <1>0, <3>3, <3>4, <3>5 DEF TypeOK
  <2> QED
    BY <1>7, <2>1, <2>2
<1>9. TypeOK'
  <2>1. /\ page' \in [Pages -> {"closed", "joining", "waiting", "locking", "writing"}]
        /\ writing' \in [Pages -> Versions \cup {Other}]
    BY <1>0, <1>3 DEF TypeOK
  <2>2. pingDue' \in [Pages -> BOOLEAN]
    BY <1>0, <1>1 DEF TypeOK
  <2> QED
    BY <1>0, <1>2, <1>8, <2>1, <2>2 DEF TypeOK, callerVars, commandVars
<1>10. Touches(p) /\ page[p] # "closed"
  BY <1>0, <1>1, <1>2, <1>3, <1>7 DEF Touches, TypeOK
<1>11. ASSUME NewestIsOnItsWay(p) PROVE NewestIsOnItsWay(p)'
  <2>0. version' = version /\ shown' = shown
    BY <1>2 DEF callerVars
  <2>1. CASE page[p] = "joining" /\ what = version /\ queue' = queue
    <3>1. queue'[p] = queue[p] /\ writing'[p] = version /\ writing'[p] # Other
      BY <1>0, <1>4, <1>6, <2>1 DEF TypeOK
    <3> QED
      BY <1>6, <1>11, <2>0, <3>1 DEF NewestIsOnItsWay
  <2>2. CASE page[p] = "waiting" /\ what = Other /\ queue' = queue
    BY <1>6, <1>11, <2>0, <2>2 DEF NewestIsOnItsWay
  <2>3. CASE queue[p] # <<>> /\ what = Head(queue[p]) /\ queue' = [queue EXCEPT ![p] = Tail(@)]
    <3>1. /\ Tail(queue[p]) # <<>> => Tail(queue[p])[Len(Tail(queue[p]))] = queue[p][Len(queue[p])]
          /\ Tail(queue[p]) = <<>> => Head(queue[p]) = queue[p][Len(queue[p])]
          /\ Head(queue[p]) \in Versions
      BY <1>5, <2>3, TailIs
    <3>2. queue'[p] = Tail(queue[p])
      BY <1>0, <2>3 DEF TypeOK
    <3>3. queue[p][Len(queue[p])] = version
      BY <1>11, <2>3 DEF NewestIsOnItsWay
    <3>4. writing'[p] # Other
      BY <1>4, <1>6, <2>3, <3>1
    <3> QED
      BY <1>6, <2>0, <2>3, <3>1, <3>2, <3>3, <3>4 DEF NewestIsOnItsWay
  <2> QED
    BY <1>1, <2>1, <2>2, <2>3
<1>12. Answers'
  BY <1>2, AnswersStand
<1> QED
  BY <1>8, <1>9, <1>10, <1>11, <1>12, TouchKeeps

\* The mutex is the page's goroutine's.
LEMMA LockingKeeps ==
  ASSUME IInv, NEW p \in Pages, LockPage(p)
  PROVE  IInv'
<1>0. TypeOK
  BY DEF IInv
<1>1. /\ page[p] = "locking" /\ page' = [page EXCEPT ![p] = "writing"]
      /\ UNCHANGED <<messageType, callerVars, channelVars, writing, commandVars, writeFor, pingDue,
                     client, shown, idleFor, overtaken>>
  BY DEF LockPage
<1>2. TypeOK'
  <2>1. page' \in [Pages -> {"closed", "joining", "waiting", "locking", "writing"}]
    BY <1>0, <1>1 DEF TypeOK
  <2> QED
    BY <1>0, <1>1, <2>1 DEF TypeOK, callerVars, channelVars, commandVars
<1>3. Touches(p)
  BY <1>0, <1>1 DEF Touches, TypeOK, channelVars
<1>4. ASSUME NewestIsOnItsWay(p) PROVE NewestIsOnItsWay(p)'
  <2>1. page'[p] = "writing"
    BY <1>0, <1>1 DEF TypeOK
  <2> QED
    BY <1>1, <1>4, <2>1 DEF NewestIsOnItsWay, callerVars, channelVars
<1>5. Answers'
  BY <1>1, AnswersStand
<1> QED
  BY <1>1, <1>2, <1>3, <1>4, <1>5, TouchKeeps DEF channelVars

\* A write ends, one way or the other.
LEMMA WrittenKeeps ==
  ASSUME IInv, NEW p \in Pages, WriteSucceeds(p) \/ WriteFails(p)
  PROVE  IInv'
<1>0. TypeOK
  BY DEF IInv
<1>1. /\ page[p] = "writing"
      /\ UNCHANGED <<messageType, callerVars, listeners, blockedFor, commandVars, overtaken>>
      /\ writing' = [writing EXCEPT ![p] = 0] /\ writeFor' = [writeFor EXCEPT ![p] = 0]
  BY DEF WriteSucceeds, WriteFails, channelVars
<1>2. \/ /\ page' = [page EXCEPT ![p] = "waiting"]
         /\ shown' = IF writing[p] = Other THEN shown ELSE [shown EXCEPT ![p] = writing[p]]
         /\ UNCHANGED <<queue, idleFor>>
      \/ /\ page' = [page EXCEPT ![p] = "closed"] /\ shown' = [shown EXCEPT ![p] = 0]
         /\ queue' = [queue EXCEPT ![p] = <<>>] /\ idleFor' = [idleFor EXCEPT ![p] = 0]
  BY DEF WriteSucceeds, WriteFails, Shows, channelVars
<1>3. /\ 0 \in Versions /\ 0 \in 0 .. writeTimeout /\ 0 \in 0 .. listenerBlockedTimeout
      /\ notifyBufferSize \in Nat \ {0}
  BY VersionAssumption, TimeoutAssumption, BufferAssumption DEF Versions
<1>4. <<>> \in Seq(Versions) /\ Len(<<>>) = 0
  OBVIOUS
<1>5. /\ queue' \in [Pages -> Seq(Versions)] /\ \A q \in Pages : Len(queue'[q]) <= notifyBufferSize
      /\ idleFor' \in [Pages -> 0 .. listenerBlockedTimeout]
      /\ Len(queue'[p]) >= notifyBufferSize => queue'[p] = queue[p] /\ idleFor'[p] = idleFor[p]
  <2>1. CASE UNCHANGED <<queue, idleFor>>
    BY <1>0, <2>1 DEF TypeOK
  <2>2. CASE queue' = [queue EXCEPT ![p] = <<>>] /\ idleFor' = [idleFor EXCEPT ![p] = 0]
    <3>1. /\ queue' \in [Pages -> Seq(Versions)]
          /\ idleFor' \in [Pages -> 0 .. listenerBlockedTimeout]
      BY <1>0, <1>3, <1>4, <2>2 DEF TypeOK
    <3>2. queue'[p] = <<>> /\ \A q \in Pages : q # p => queue'[q] = queue[q]
      BY <1>0, <2>2 DEF TypeOK
    <3>3. Len(queue'[p]) = 0
      BY <1>4, <3>2
    <3>4. /\ \A q \in Pages : Len(queue'[q]) <= notifyBufferSize
          /\ ~(Len(queue'[p]) >= notifyBufferSize)
      BY <1>0, <1>3, <3>2, <3>3 DEF TypeOK
    <3> QED
      BY <3>1, <3>4
  <2> QED
    BY <1>2, <2>1, <2>2
<1>6. TypeOK'
  <2>1. /\ page' \in [Pages -> {"closed", "joining", "waiting", "locking", "writing"}]
        /\ writing' \in [Pages -> Versions \cup {Other}]
    BY <1>0, <1>1, <1>2, <1>3 DEF TypeOK
  <2>2. writeFor' \in [Pages -> 0 .. writeTimeout]
    BY <1>0, <1>1, <1>3 DEF TypeOK
  <2>3. shown' \in [Pages -> Versions]
    <3>1. writing[p] # Other => writing[p] \in Versions
      BY <1>0 DEF TypeOK
    <3> QED
      BY <1>0, <1>2, <1>3, <3>1 DEF TypeOK
  <2>4. /\ pingDue' \in [Pages -> BOOLEAN]
        /\ client' \in [Pages -> {"reads", "stalls", "closed", "gone"}]
    BY <1>0 DEF TypeOK, WriteSucceeds, WriteFails
  <2> QED
    BY <1>0, <1>1, <1>5, <2>1, <2>2, <2>3, <2>4 DEF TypeOK, callerVars, commandVars
<1>7. Touches(p)
  BY <1>0, <1>1, <1>2 DEF Touches, TypeOK
<1>8. ASSUME page'[p] # "closed", NewestIsOnItsWay(p) PROVE NewestIsOnItsWay(p)'
  <2>1. /\ page' = [page EXCEPT ![p] = "waiting"] /\ queue' = queue
        /\ shown' = IF writing[p] = Other THEN shown ELSE [shown EXCEPT ![p] = writing[p]]
    BY <1>0, <1>2, <1>8 DEF TypeOK
  <2>2. page'[p] = "waiting" /\ shown'[p] = IF writing[p] = Other THEN shown[p] ELSE writing[p]
    BY <1>0, <2>1 DEF TypeOK
  <2> QED
    BY <1>1, <1>8, <2>1, <2>2 DEF NewestIsOnItsWay, callerVars
<1>9. Answers'
  BY <1>1, AnswersStand
<1> QED
  BY <1>1, <1>5, <1>6, <1>7, <1>8, <1>9, TouchKeeps

\* What the command loop does: to a page of which the match load is followed it shows nothing.
LEMMA CommandKeeps ==
  ASSUME IInv, NEW p \in Pages,
         Command(p) \/ LockCommand(p) \/ CommandSucceeds(p) \/ CommandFails(p)
  PROVE  IInv'
<1>0. TypeOK /\ Newest /\ Refused /\ Spells /\ Answers
  BY DEF IInv
<1>1. UNCHANGED <<messageType, callerVars, channelVars, page, writing, pingDue, idleFor, overtaken>>
  BY DEF Command, LockCommand, CommandSucceeds, CommandFails
<1>2. 0 \in Versions /\ 0 \in 0 .. writeTimeout /\ version \in Versions
  BY <1>0, VersionAssumption, TimeoutAssumption DEF TypeOK, Versions
<1>3. /\ command' \in [Pages -> {"idle", "locking", "writing"}]
      /\ reply' \in [Pages -> Versions \cup {Other}]
      /\ client' \in [Pages -> {"reads", "stalls", "closed", "gone"}]
  <2>1. CASE Command(p)
    <3>1. (IF messageType = "arenaStatus" THEN version ELSE Other) \in Versions \cup {Other}
      BY <1>2
    <3> QED
      BY <1>0, <2>1, <3>1 DEF Command, TypeOK
  <2>2. CASE LockCommand(p)
    BY <1>0, <2>2 DEF LockCommand, TypeOK
  <2>3. CASE CommandSucceeds(p) \/ CommandFails(p)
    <3>1. /\ command' = [command EXCEPT ![p] = "idle"] /\ reply' = [reply EXCEPT ![p] = 0]
          /\ client' = client \/ client' = [client EXCEPT ![p] = "closed"]
      BY <2>3 DEF CommandSucceeds, CommandFails
    <3> QED
      BY <1>0, <1>2, <3>1 DEF TypeOK
  <2> QED
    BY <2>1, <2>2, <2>3
<1>4. writeFor' \in [Pages -> 0 .. writeTimeout]
  BY <1>0, <1>2 DEF Command, LockCommand, CommandSucceeds, CommandFails, TypeOK
<1>5. shown' \in [Pages -> Versions] /\ (messageType = "matchLoad" => shown' = shown)
  <2>1. CASE CommandSucceeds(p)
    <3>1. reply[p] # Other => reply[p] \in Versions
      BY <1>0 DEF TypeOK
    <3>2. messageType = "matchLoad" => reply[p] = Other
      BY <1>0, <2>1 DEF CommandSucceeds, Answers
    <3> QED
      BY <1>0, <2>1, <3>1, <3>2 DEF CommandSucceeds, Shows, TypeOK
  <2>2. CASE ~CommandSucceeds(p)
    BY <1>0, <2>2 DEF Command, LockCommand, CommandFails, TypeOK
  <2> QED
    BY <2>1, <2>2
<1>6. TypeOK'
  BY <1>0, <1>1, <1>3, <1>4, <1>5 DEF TypeOK, callerVars, channelVars
<1>7. Answers'
  BY <1>0 DEF Command, LockCommand, CommandSucceeds, CommandFails, Answers, TypeOK
<1>8. Newest' /\ Refused' /\ Spells'
  BY <1>0, <1>1, <1>5 DEF Newest, Settled, NewestIsOnItsWay, Refused, Spells, callerVars,
                          channelVars
<1> QED
  BY <1>6, <1>7, <1>8 DEF IInv

\* A browser turns.
LEMMA ClientKeeps ==
  ASSUME IInv, NEW p \in Pages, NEW state \in {"reads", "stalls", "closed", "gone"},
         ClientTurns(p, state)
  PROVE  IInv'
<1>1. /\ UNCHANGED <<messageType, callerVars, channelVars, writeVars, shown, idleFor, overtaken>>
      /\ client' \in [Pages -> {"reads", "stalls", "closed", "gone"}]
  BY DEF ClientTurns, IInv, TypeOK
<1>2. TypeOK'
  BY <1>1 DEF IInv, TypeOK, callerVars, channelVars, writeVars, commandVars
<1> QED
  BY <1>1, <1>2 DEF IInv, Newest, Settled, NewestIsOnItsWay, Refused, Spells, Answers, callerVars,
                    channelVars, writeVars, commandVars

\* Time passes for a spell and for the page that has taken nothing alike.
LEMMA TickKeeps ==
  ASSUME IInv, Tick
  PROVE  IInv'
<1>0. TypeOK /\ Newest /\ Refused /\ Spells /\ Answers
  BY DEF IInv
<1>1. UNCHANGED <<messageType, callerVars, listeners, queue, page, writing, commandVars, client,
                 shown, overtaken>>
  BY DEF Tick
<1>2. /\ writeTimeout \in Nat \ {0} /\ listenerBlockedTimeout \in Nat \ {0}
      /\ \A p \in Pages : /\ writeFor[p] \in 0 .. writeTimeout
                          /\ idleFor[p] \in 0 .. listenerBlockedTimeout
                          /\ blockedFor[p] \in {NotBlocked} \cup 0 .. listenerBlockedTimeout
  BY <1>0, TimeoutAssumption DEF TypeOK
<1>3. /\ writeFor' = [p \in Pages |-> IF MutexIsFree(p) THEN writeFor[p]
                                      ELSE Older(writeFor[p], writeTimeout)]
      /\ blockedFor' = [p \in Pages |->
                          IF p \in listeners THEN Older(blockedFor[p], listenerBlockedTimeout)
                          ELSE blockedFor[p]]
      /\ pingDue' = [p \in Pages |->
                       /\ messageType = "matchLoad" \/ p \notin listeners
                       /\ page[p] \in {"waiting", "locking", "writing"}]
      /\ idleFor' = [p \in Pages |->
                       IF queue[p] = <<>> THEN 0 ELSE Older(idleFor[p], listenerBlockedTimeout)]
  BY DEF Tick
<1>4. NotBlocked \notin Nat
  BY DEF NotBlocked
<1>5. \A p \in Pages : Older(writeFor[p], writeTimeout) \in 0 .. writeTimeout
  <2> TAKE p \in Pages
  <2>1. writeFor[p] \in 0 .. writeTimeout /\ writeTimeout \in Nat \ {0}
    BY <1>2
  <2> QED
    BY <2>1, OlderRuns
<1>6. \A p \in Pages : Older(idleFor[p], listenerBlockedTimeout) \in 0 .. listenerBlockedTimeout
  <2> TAKE p \in Pages
  <2>1. idleFor[p] \in 0 .. listenerBlockedTimeout /\ listenerBlockedTimeout \in Nat \ {0}
    BY <1>2
  <2> QED
    BY <2>1, OlderRuns
<1>7. \A p \in Pages :
        /\ Older(blockedFor[p], listenerBlockedTimeout)
             \in {NotBlocked} \cup 0 .. listenerBlockedTimeout
        /\ Older(blockedFor[p], listenerBlockedTimeout) = NotBlocked <=> blockedFor[p] = NotBlocked
  BY <1>2, OlderIs
<1>8. TypeOK'
  <2>0. 0 \in 0 .. listenerBlockedTimeout
    BY TimeoutAssumption
  <2>1. /\ writeFor' \in [Pages -> 0 .. writeTimeout]
        /\ idleFor' \in [Pages -> 0 .. listenerBlockedTimeout]
        /\ blockedFor' \in [Pages -> {NotBlocked} \cup 0 .. listenerBlockedTimeout]
    BY <1>2, <1>3, <1>5, <1>6, <1>7, <2>0
  <2>2. pingDue' \in [Pages -> BOOLEAN]
    BY <1>3
  <2> QED
    BY <1>0, <1>1, <2>1, <2>2 DEF TypeOK, callerVars, commandVars
<1>9. \A p \in Pages : blockedFor'[p] = NotBlocked <=> blockedFor[p] = NotBlocked
  BY <1>3, <1>7
<1>10. Newest' /\ Refused' /\ Answers'
  BY <1>0, <1>1, <1>9 DEF Newest, Settled, NewestIsOnItsWay, Refused, Answers, callerVars,
                          commandVars
<1>11. Spells'
  <2> SUFFICES ASSUME NEW p \in listeners, Len(queue[p]) >= notifyBufferSize,
                      blockedFor'[p] # NotBlocked
               PROVE  blockedFor'[p] <= idleFor'[p]
    BY <1>1 DEF Spells
  <2>1. p \in Pages /\ blockedFor[p] # NotBlocked /\ blockedFor[p] <= idleFor[p]
    BY <1>0, <1>9 DEF Spells, TypeOK
  <2>0. queue[p] # <<>>
    BY BufferAssumption
  <2>2. /\ blockedFor'[p] = Older(blockedFor[p], listenerBlockedTimeout)
        /\ idleFor'[p] = Older(idleFor[p], listenerBlockedTimeout)
    BY <1>3, <2>0, <2>1
  <2>3. blockedFor[p] \in 0 .. listenerBlockedTimeout /\ idleFor[p] \in 0 .. listenerBlockedTimeout
    BY <1>2, <2>1
  <2> QED
    BY <1>2, <2>1, <2>2, <2>3 DEF Older
<1> QED
  BY <1>8, <1>10, <1>11 DEF IInv

-----------------------------------------------------------------------------
(* The theorems                                                              *)

\* The invariant holds of every state.
LEMMA Invariant == Spec => []IInv
<1>1. IInv /\ [Next]_vars => IInv'
  <2> SUFFICES ASSUME IInv, [Next]_vars PROVE IInv'
    OBVIOUS
  <2>1. CASE UNCHANGED vars
    BY <2>1 DEF vars, callerVars, channelVars, writeVars, commandVars, IInv, TypeOK, Newest,
                Settled, NewestIsOnItsWay, Refused, Spells, Answers
  <2>2. CASE \E c \in Callers : Change(c) \/ Produce(c) \/ Send(c)
    BY <2>2, ProducingKeeps, SendKeeps
  <2>3. CASE \E p \in Pages :
               \/ Connect(p) \/ Bootstrap(p) \/ Take(p) \/ WritePing(p) \/ Command(p)
               \/ LockPage(p) \/ WriteSucceeds(p) \/ WriteFails(p)
               \/ LockCommand(p) \/ CommandSucceeds(p) \/ CommandFails(p)
               \/ \E state \in {"reads", "stalls", "closed", "gone"} : ClientTurns(p, state)
    BY <2>3, ConnectKeeps, WritingKeeps, LockingKeeps, WrittenKeeps, CommandKeeps, ClientKeeps
  <2>4. CASE Tick
    BY <2>4, TickKeeps
  <2> QED
    BY <2>1, <2>2, <2>3, <2>4 DEF Next
<1> QED
  BY <1>1, InitIInv, PTL DEF Spec

\* Every variable has its type and no channel holds more than its size.
THEOREM PagesAreTyped == Spec => []TypeOK
<1>1. IInv => TypeOK
  BY DEF IInv
<1> QED
  BY <1>1, Invariant, PTL

\* A page that has nothing left to write shows the newest match load, whatever answers its
\* command loop writes in between; of the arena status it is not true (HandleNotifiers,
\* notifyListener, WriteNotifier).
THEOREM IdlePagesAreCurrent == Spec => []IdlePageIsCurrent
<1>1. IInv => IdlePageIsCurrent
  BY DEF IInv, Newest, Settled, NewestIsOnItsWay, IdlePageIsCurrent
<1> QED
  BY <1>1, Invariant, PTL

\* A page that takes its messages, however late, keeps its subscription (notifyListener).
THEOREM BusyPagesAreKept == Spec => BusyPageIsKept
<1>1. IInv /\ [Next]_vars =>
        \A p \in listeners \ listeners' :
          page[p] = "closed" \/ idleFor[p] >= listenerBlockedTimeout
  <2> SUFFICES ASSUME IInv, [Next]_vars, NEW p \in listeners \ listeners'
               PROVE  page[p] = "closed" \/ idleFor[p] >= listenerBlockedTimeout
    OBVIOUS
  <2>0. TypeOK /\ Spells /\ p \in Pages
    BY DEF IInv, TypeOK
  <2>1. PICK c \in Callers : Send(c)
    <3>1. listeners' # listeners
      OBVIOUS
    <3> QED
      BY <3>1 DEF Next, vars, channelVars, Change, Produce, Connect, Bootstrap, Take, WritePing,
                  Command, LockPage, WriteSucceeds, WriteFails, LockCommand, CommandSucceeds,
                  CommandFails, ClientTurns, Tick
  <2>2. p \in Closed \/ (p \in Full /\ blockedFor'[p] >= listenerBlockedTimeout)
    BY <2>0, <2>1, SendToPage
  <2>3. CASE p \in Closed
    BY <2>3 DEF Closed
  <2>4. CASE p \in Full /\ blockedFor'[p] >= listenerBlockedTimeout
    <3>1. listenerBlockedTimeout \in Nat \ {0}
      BY TimeoutAssumption
    <3>2. blockedFor'[p] = blockedFor[p] /\ blockedFor[p] # NotBlocked
      BY <2>0, <2>1, <2>4, <3>1, SendToPage
    <3>3. Len(queue[p]) >= notifyBufferSize
      <4>1. Len(queue[p]) \in Nat /\ notifyBufferSize \in Nat
        BY <2>0, BufferAssumption DEF TypeOK
      <4>2. ~(Len(queue[p]) < notifyBufferSize)
        BY <2>4 DEF Full, Room
      <4> QED
        BY <4>1, <4>2
    <3>4. blockedFor[p] <= idleFor[p]
      BY <2>0, <3>2, <3>3 DEF Spells
    <3>5. /\ blockedFor[p] \in 0 .. listenerBlockedTimeout
          /\ idleFor[p] \in 0 .. listenerBlockedTimeout
      BY <2>0, <3>2 DEF TypeOK
    <3> QED
      BY <2>4, <3>1, <3>2, <3>4, <3>5
  <2> QED
    BY <2>2, <2>3, <2>4
<1> QED
  BY <1>1, Invariant, PTL DEF Spec, BusyPageIsKept
=============================================================================
