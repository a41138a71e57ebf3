------------------------------ MODULE Notifier ------------------------------
(***************************************************************************)
(* One notifier and the browser pages that listen to it:                   *)
(* websocket/notifier.go and HandleNotifiers of websocket/websocket.go.    *)
(*                                                                         *)
(* What the pages are told about is one value, known by its version.  Two  *)
(* kinds of notifier matter.  "arenaStatus" is notified from the loop      *)
(* alone, with arena.mu held, and again every half second whether or not   *)
(* anything changed; "matchLoad" is notified when something changed, from  *)
(* the loop and from web handlers that hold no lock.  A notification is    *)
(* two steps, for the value is produced before the notifier's mutex is     *)
(* taken.                                                                  *)
(*                                                                         *)
(* A page is a websocket served by a goroutine of its own: it registers,   *)
(* writes the value once, then writes what arrives on its channel and a    *)
(* ping now and then.  The pings of a page that is notified every half     *)
(* second as it is are left out, and so are its other notifiers, which     *)
(* take turns as the ping does.  The page's command loop                   *)
(* (web/match_play.go) is a second writer of the same websocket: it        *)
(* answers a command with an error or with the arena status.  Whoever      *)
(* writes produces the message first and then waits for the websocket's    *)
(* write mutex.                                                            *)
(*                                                                         *)
(* A definition that Next does not reach is a faulty variant of the one    *)
(* that follows it, kept to show which property catches that fault.        *)
(***************************************************************************)
EXTENDS Integers, Sequences

CONSTANTS
  Pages,                   \* the websockets that may be open at once
  notifyBufferSize,
  writeTimeout,            \* in ticks; a ping is due every tick
  listenerBlockedTimeout,  \* in ticks
  MaxVersion               \* bound on the changes of the value

ASSUME BufferAssumption == notifyBufferSize \in Nat \ {0}
ASSUME TimeoutAssumption == writeTimeout \in Nat \ {0} /\ listenerBlockedTimeout \in Nat \ {0}
ASSUME VersionAssumption == MaxVersion \in Nat

Callers == {"loop", "web"}
Versions == 0 .. MaxVersion
Other == -1                \* a message that does not hold the value: a ping, an error
NotBlocked == -1

VARIABLES
  messageType,
  version,           \* of the value the message producer reads
  step, body,        \* of each caller: how far its notification is, the value it produced
  listeners,         \* the pages whose channel is in the notifier's map
  queue,             \* the channel of each page
  blockedFor,        \* time since its blockedSince
  page,              \* where the goroutine of each page is
  writing,           \* the value, or other message, it has to write
  command, reply,    \* likewise of the page's command loop
  writeFor,          \* for how long the one that holds writeMutex has been writing
  pingDue,
  client,            \* the browser at the other end
  shown,             \* the version the browser shows, 0 when none
  idleFor,           \* history: for how long the page has left what is on its channel there
  overtaken          \* history: was the last match load sent no longer the newest?

callerVars == <<version, step, body>>
channelVars == <<listeners, queue, blockedFor>>
commandVars == <<command, reply>>
writeVars == <<page, writing, commandVars, writeFor, pingDue>>
vars == <<messageType, callerVars, channelVars, writeVars, client, shown, idleFor, overtaken>>

-----------------------------------------------------------------------------
(* Notify                                                                    *)

\* The value changes, and a notification of it is due: the arena status waits for the loop's
\* next, whoever changed it.
Change(c) ==
  /\ step[c] = "idle" /\ version < MaxVersion
  /\ c = "web" => messageType = "matchLoad"
  /\ version' = version + 1
  /\ step' = IF messageType = "matchLoad" THEN [step EXCEPT ![c] = "due"] ELSE step
  /\ UNCHANGED <<messageType, body, channelVars, writeVars, client, shown, idleFor, overtaken>>

\* getMessageBody, due on a change or, in the loop, because it is time again.
Produce(c) ==
  /\ step[c] = "due" \/ (step[c] = "idle" /\ c = "loop" /\ messageType = "arenaStatus")
  /\ step' = [step EXCEPT ![c] = "sending"]
  /\ body' = [body EXCEPT ![c] = version]
  /\ UNCHANGED <<messageType, version, channelVars, writeVars, client, shown, idleFor, overtaken>>

Closed == {p \in listeners : page[p] = "closed"}
Room == {p \in listeners \ Closed : Len(queue[p]) < notifyBufferSize}
Full == listeners \ (Closed \cup Room)

AcceptsIfUnblocked(p) == p \in Room /\ blockedFor[p] = NotBlocked

\* Whose channel takes the message: any that has room, blocked before or not.
Accepts(p) == p \in Room

SpellKept == [p \in Pages |-> IF p \in Full /\ blockedFor[p] = NotBlocked THEN 0 ELSE blockedFor[p]]

\* blockedSince after a notification: a message accepted ends the spell, the first one
\* refused begins it.
Spell == [p \in Pages |->
            IF Accepts(p) THEN NotBlocked
            ELSE IF p \in Full /\ blockedFor[p] = NotBlocked THEN 0 ELSE blockedFor[p]]

\* NotifyWithMessage: no channel is waited for, those of pages that are gone are reaped, and
\* a page that has long been full is dropped, its channel left to it.
Send(c) ==
  /\ step[c] = "sending"
  /\ step' = [step EXCEPT ![c] = "idle"]
  /\ queue' = [p \in Pages |-> IF Accepts(p) THEN Append(queue[p], body[c]) ELSE queue[p]]
  /\ blockedFor' = Spell
  /\ listeners' = listeners \ (Closed \cup {p \in Full : blockedFor'[p] >= listenerBlockedTimeout})
  /\ overtaken' = (messageType = "matchLoad" /\ body[c] # version)
  /\ body' = [body EXCEPT ![c] = 0]
  /\ UNCHANGED <<messageType, version, writeVars, client, shown, idleFor>>

-----------------------------------------------------------------------------
(* A page: HandleNotifiers                                                   *)

\* The message is there; writeMutex is not yet.
Write(p, what) ==
  /\ page' = [page EXCEPT ![p] = "locking"]
  /\ writing' = [writing EXCEPT ![p] = what]

\* A browser connects and its page registers before it asks for the value.
Connect(p) ==
  /\ page[p] = "closed" /\ p \notin listeners /\ command[p] = "idle"
  /\ listeners' = listeners \cup {p}
  /\ queue' = [queue EXCEPT ![p] = <<>>]
  /\ blockedFor' = [blockedFor EXCEPT ![p] = NotBlocked]
  /\ page' = [page EXCEPT ![p] = "joining"]
  /\ client' = [client EXCEPT ![p] = "reads"]
  /\ shown' = [shown EXCEPT ![p] = 0]
  /\ idleFor' = [idleFor EXCEPT ![p] = 0]
  /\ UNCHANGED <<messageType, callerVars, writing, commandVars, writeFor, pingDue, overtaken>>

\* WriteNotifier, which gives the new page what it has missed; the pings begin after it.
Bootstrap(p) ==
  /\ page[p] = "joining"
  /\ Write(p, version)
  /\ pingDue' = [pingDue EXCEPT ![p] = FALSE]
  /\ UNCHANGED <<messageType, callerVars, channelVars, commandVars, writeFor, client, shown,
                 idleFor, overtaken>>

TakeCoalesced(p) ==
  /\ page[p] = "waiting" /\ queue[p] # <<>>
  /\ Write(p, Head(queue[p]))
  /\ queue' = [queue EXCEPT ![p] = <<>>]
  /\ idleFor' = [idleFor EXCEPT ![p] = 0]
  /\ UNCHANGED <<messageType, callerVars, listeners, blockedFor, commandVars, writeFor, pingDue,
                 client, shown, overtaken>>

Take(p) ==
  /\ page[p] = "waiting" /\ queue[p] # <<>>
  /\ Write(p, Head(queue[p]))
  /\ queue' = [queue EXCEPT ![p] = Tail(@)]
  /\ idleFor' = [idleFor EXCEPT ![p] = 0]
  /\ UNCHANGED <<messageType, callerVars, listeners, blockedFor, commandVars, writeFor, pingDue,
                 client, shown, overtaken>>

WritePing(p) ==
  /\ page[p] = "waiting" /\ pingDue[p]
  /\ Write(p, Other)
  /\ pingDue' = [pingDue EXCEPT ![p] = FALSE]
  /\ UNCHANGED <<messageType, callerVars, channelVars, commandVars, writeFor, client, shown,
                 idleFor, overtaken>>

-----------------------------------------------------------------------------
(* The page's command loop (matchPlayWebsocketHandler)                       *)

\* A command, which may have changed the arena status just before (Change), is answered with
\* the status as it now is, by WriteNotifier.  An answer that is an error takes its turn as the
\* status does; to a page of which the match load is followed all answers are other messages.
Command(p) ==
  /\ page[p] # "closed" /\ command[p] = "idle" /\ client[p] = "reads"
  /\ command' = [command EXCEPT ![p] = "locking"]
  /\ reply' = [reply EXCEPT ![p] = IF messageType = "arenaStatus" THEN version ELSE Other]
  /\ UNCHANGED <<messageType, callerVars, channelVars, page, writing, writeFor, pingDue, client,
                 shown, idleFor, overtaken>>

-----------------------------------------------------------------------------
(* Websocket.Write: one writer at a time, each for no longer than a deadline *)

MutexIsFree(p) == page[p] # "writing" /\ command[p] # "writing"

LockPage(p) ==
  /\ page[p] = "locking" /\ MutexIsFree(p)
  /\ page' = [page EXCEPT ![p] = "writing"]
  /\ UNCHANGED <<messageType, callerVars, channelVars, writing, commandVars, writeFor, pingDue,
                 client, shown, idleFor, overtaken>>

LockCommand(p) ==
  /\ command[p] = "locking" /\ MutexIsFree(p)
  /\ command' = [command EXCEPT ![p] = "writing"]
  /\ UNCHANGED <<messageType, callerVars, channelVars, page, writing, reply, writeFor, pingDue,
                 client, shown, idleFor, overtaken>>

Shows(p, what) == shown' = IF what = Other THEN shown ELSE [shown EXCEPT ![p] = what]

WriteSucceeds(p) ==
  /\ page[p] = "writing" /\ client[p] = "reads"
  /\ page' = [page EXCEPT ![p] = "waiting"]
  /\ writing' = [writing EXCEPT ![p] = 0]
  /\ writeFor' = [writeFor EXCEPT ![p] = 0]
  /\ Shows(p, writing[p])
  /\ UNCHANGED <<messageType, callerVars, channelVars, commandVars, pingDue, client, idleFor,
                 overtaken>>

CommandSucceeds(p) ==
  /\ command[p] = "writing" /\ client[p] = "reads"
  /\ command' = [command EXCEPT ![p] = "idle"]
  /\ reply' = [reply EXCEPT ![p] = 0]
  /\ writeFor' = [writeFor EXCEPT ![p] = 0]
  /\ Shows(p, reply[p])
  /\ UNCHANGED <<messageType, callerVars, channelVars, page, writing, pingDue, client, idleFor,
                 overtaken>>

ExpiredNever(p) == FALSE

\* The write deadline.
Expired(p) == ~MutexIsFree(p) /\ writeFor[p] >= writeTimeout

\* A connection on which a write has failed takes no other: it is as good as closed.  The
\* page's goroutine returns and closes its channel on the way out; what it knew goes with it.
WriteFails(p) ==
  /\ page[p] = "writing"
  /\ Expired(p) \/ client[p] = "closed"
  /\ page' = [page EXCEPT ![p] = "closed"]
  /\ writing' = [writing EXCEPT ![p] = 0]
  /\ writeFor' = [writeFor EXCEPT ![p] = 0]
  /\ pingDue' = [pingDue EXCEPT ![p] = FALSE]
  /\ client' = [client EXCEPT ![p] = "closed"]
  /\ queue' = [queue EXCEPT ![p] = <<>>]
  /\ shown' = [shown EXCEPT ![p] = 0]
  /\ idleFor' = [idleFor EXCEPT ![p] = 0]
  /\ UNCHANGED <<messageType, callerVars, listeners, blockedFor, commandVars, overtaken>>

\* The command loop logs the error and reads on; the page's goroutine finds out by a write
\* of its own.
CommandFails(p) ==
  /\ command[p] = "writing"
  /\ Expired(p) \/ client[p] = "closed"
  /\ command' = [command EXCEPT ![p] = "idle"]
  /\ reply' = [reply EXCEPT ![p] = 0]
  /\ writeFor' = [writeFor EXCEPT ![p] = 0]
  /\ client' = [client EXCEPT ![p] = "closed"]
  /\ UNCHANGED <<messageType, callerVars, channelVars, page, writing, pingDue, shown, idleFor,
                 overtaken>>

-----------------------------------------------------------------------------
(* The browsers and time                                                     *)

\* A browser stops reading and resumes, closes its connection, or is gone without a word.
ClientTurns(p, state) ==
  /\ page[p] # "closed"
  /\ \/ client[p] = "reads" /\ state \in {"stalls", "closed", "gone"}
     \/ client[p] = "stalls" /\ state \in {"reads", "closed", "gone"}
  /\ client' = [client EXCEPT ![p] = state]
  /\ UNCHANGED <<messageType, callerVars, channelVars, writeVars, shown, idleFor, overtaken>>

Older(age, limit) == IF age \in 0 .. (limit - 1) THEN age + 1 ELSE age

\* A write past its deadline fails before more time passes.
Tick ==
  /\ \A p \in Pages : ~Expired(p)
  /\ writeFor' = [p \in Pages |->
                    IF MutexIsFree(p) THEN writeFor[p] ELSE Older(writeFor[p], writeTimeout)]
  /\ blockedFor' = [p \in Pages |->
                      IF p \in listeners THEN Older(blockedFor[p], listenerBlockedTimeout)
                      ELSE blockedFor[p]]
  /\ pingDue' = [p \in Pages |->
                   /\ messageType = "matchLoad" \/ p \notin listeners
                   /\ page[p] \in {"waiting", "locking", "writing"}]
  /\ idleFor' = [p \in Pages |->
                   IF queue[p] = <<>> THEN 0 ELSE Older(idleFor[p], listenerBlockedTimeout)]
  /\ UNCHANGED <<messageType, callerVars, listeners, queue, page, writing, commandVars, client,
                 shown, overtaken>>

-----------------------------------------------------------------------------
Init ==
  /\ messageType \in {"arenaStatus", "matchLoad"} /\ version = 0
  /\ step = [c \in Callers |-> "idle"] /\ body = [c \in Callers |-> 0]
  /\ listeners = {} /\ queue = [p \in Pages |-> <<>>]
  /\ blockedFor = [p \in Pages |-> NotBlocked]
  /\ page = [p \in Pages |-> "closed"] /\ writing = [p \in Pages |-> 0]
  /\ command = [p \in Pages |-> "idle"] /\ reply = [p \in Pages |-> 0]
  /\ writeFor = [p \in Pages |-> 0] /\ pingDue = [p \in Pages |-> FALSE]
  /\ client = [p \in Pages |-> "closed"] /\ shown = [p \in Pages |-> 0]
  /\ idleFor = [p \in Pages |-> 0] /\ overtaken = FALSE

Next ==
  \/ \E c \in Callers : Change(c) \/ Produce(c) \/ Send(c)
  \/ \E p \in Pages :
       \/ Connect(p) \/ Bootstrap(p) \/ Take(p) \/ WritePing(p) \/ Command(p)
       \/ LockPage(p) \/ WriteSucceeds(p) \/ WriteFails(p)
       \/ LockCommand(p) \/ CommandSucceeds(p) \/ CommandFails(p)
       \/ \E state \in {"reads", "stalls", "closed", "gone"} : ClientTurns(p, state)
  \/ Tick

Spec == Init /\ [][Next]_vars

\* The loop and the goroutines are scheduled, time passes, a select that finds a message and a
\* ping ready chooses between them at random, and a mutex goes to whoever has long waited.
Fairness ==
  /\ \A c \in Callers : WF_vars(Produce(c)) /\ WF_vars(Send(c))
  /\ \A p \in Pages : /\ WF_vars(Bootstrap(p)) /\ SF_vars(Take(p)) /\ SF_vars(WritePing(p))
                      /\ SF_vars(LockPage(p)) /\ WF_vars(WriteSucceeds(p)) /\ WF_vars(WriteFails(p))
                      /\ WF_vars(CommandSucceeds(p)) /\ WF_vars(CommandFails(p))
  /\ WF_vars(Tick)

FairSpec == Spec /\ Fairness

-----------------------------------------------------------------------------
(* Properties                                                                *)

TypeOK ==
  /\ messageType \in {"arenaStatus", "matchLoad"} /\ version \in Versions
  /\ step \in [Callers -> {"idle", "due", "sending"}] /\ body \in [Callers -> Versions]
  /\ listeners \subseteq Pages
  /\ queue \in [Pages -> Seq(Versions)] /\ \A p \in Pages : Len(queue[p]) <= notifyBufferSize
  /\ blockedFor \in [Pages -> {NotBlocked} \cup 0 .. listenerBlockedTimeout]
  /\ page \in [Pages -> {"closed", "joining", "waiting", "locking", "writing"}]
  /\ writing \in [Pages -> Versions \cup {Other}]
  /\ command \in [Pages -> {"idle", "locking", "writing"}]
  /\ reply \in [Pages -> Versions \cup {Other}]
  /\ writeFor \in [Pages -> 0 .. writeTimeout]
  /\ pingDue \in [Pages -> BOOLEAN]
  /\ client \in [Pages -> {"reads", "stalls", "closed", "gone"}]
  /\ shown \in [Pages -> Versions]
  /\ idleFor \in [Pages -> 0 .. listenerBlockedTimeout] /\ overtaken \in BOOLEAN

\* A page with nothing left to write shows the newest match load, though it is not notified
\* again: registering before the first write leaves no gap, and nothing is lost but to a full
\* channel or to a caller that was overtaken between producing and sending
\* (HandleNotifiers, notifyListener).  The arena status has a second writer and changes
\* without a notification; PagesCatchUp is about that.
IdlePageIsCurrent ==
  messageType = "matchLoad" =>
  \A p \in Pages :
    /\ page[p] = "waiting" /\ queue[p] = <<>> /\ blockedFor[p] = NotBlocked
    /\ \A c \in Callers : step[c] = "idle"
    /\ ~overtaken
    => shown[p] = version

Subscribed(p) == p \in listeners /\ page[p] # "closed"

\* What was lost on a full channel, or overwritten by the late answer to a command, is made
\* good: with a notification every half second each page that keeps its subscription comes to
\* show any value, or a newer one (the arena status, sent with the driver station packets).
PagesCatchUp ==
  \A p \in Pages : \A v \in 1 .. MaxVersion :
    (messageType = "arenaStatus" /\ version = v /\ Subscribed(p))
      ~> (shown[p] >= v \/ ~Subscribed(p))

\* A page that is open loses its subscription only after it has left what is on its channel
\* there for the whole of listenerBlockedTimeout: being full now and then costs nothing
\* (notifyListener, and the comment on listenerBlockedTimeout).
BusyPageIsKept ==
  [][\A p \in listeners \ listeners' :
       page[p] = "closed" \/ idleFor[p] >= listenerBlockedTimeout]_vars

\* A browser that is gone, with a word or without one, costs a goroutine and a channel for a
\* while and not for good (writeTimeout, the ping and the reaping of closed channels).
DeadPagesGo ==
  \A p \in Pages :
    client[p] \in {"closed", "gone"}
      ~> page[p] = "closed" /\ (messageType = "arenaStatus" => p \notin listeners)
=============================================================================
