# bioarena in TLA+

Specifications of the field controller in this repository: what it does, checked on small
instances with TLC, and the properties that matter most proved for every instance with
TLAPS. Every definition is translated from the Go source; `PROJECT.json` names the lines.

## The system

bioarena runs a practice field: six alliance stations with a driver station and a robot
each, e-stop buttons, two HUBs whose FUEL is counted by a camera, lights, sounds, and a
browser page for the operator. One process (`main.go`) holds all of it, in these parts.

| Part | Source | State | Operations |
|---|---|---|---|
| Arena | `field/arena.go`, `game/match_timing.go` | match state and times, AUTO winner and mode, game data, per station: team, connection, e-stop, a-stop, bypass, wiring fault; the field e-stop's latch flag | `Update` every 10 ms; `StartMatch`, `AbortMatch`, `ClearMatch`, `ResetField`, `SubstituteTeams`, `BypassEmptyStations`, `SetAutoWinnerMode`, `ClearFieldEStop`, `DisableAll`, `LoadSettings` |
| Field e-stop | `hardware/gpio_estop.go`, `hardware/interfaces.go` | latch, discrepancy window | `State`, `Clear`, `Close` |
| E-stop panels | `hardware/network_estop_panel.go`, `cmd/estop-panel` | last sample and its age; reachability | `Poll`; the panel's sampler, `handlePoll`, `handleConfig` |
| FUEL counter receiver | `hardware/hub_counter.go`, `plc/override.go` | last datagram, baseline, banked counts | `record`, `GetHubCounts`, `ResetMatch`, `reply` |
| HUB scoring | `game/hub.go`, `field/arena_hub_counter.go` | tallies per shift, who won AUTO | `UpdateState`, `updateHubCounts`, `resetHubs` |
| FUEL log | `field/hub_fuel_log.go` | — | `writeHubFuelLog` |
| Driver stations | `field/driver_station_connection.go` | one connection per station: link bits, last packet, game data sent | accept loop, UDP listener, control packets, one TCP goroutine each |
| Team network | `network/switch.go`, `network/access_point.go`, `field/arena.go` | generation of the wired configuration, WiFi configuration and status | `ConfigureTeamEthernet`, `CycleStationPorts`, `ConfigureTeamWifi` |
| Lights and relays | `field/arena_leds.go`, `led/`, `hardware/gpio_hub_relays.go` | the sequence each HUB's light runs, overrides | `updateHubLeds`, `applyHubLedSettings` |
| Notifiers, pages | `websocket/`, `web/`, `static/`, `templates/` | listeners, their channels and since when each is full | `Notify`, `HandleNotifiers`, the WebSocket commands |
| Settings | `web/setup_settings.go`, `field/arena.go` | `EventSettings` | the settings save, the restore of a database, `LoadSettings` |
| Database, models | `model/` | tables | create, read, update, delete |
| PLC | `plc/plc.go` | registers | never enabled here: `NewArena` installs `FakePlc` |

How they interact. `Update` runs on one goroutine with `arena.mu` held and calls everything
it needs in order: FUEL counts, the state machine, driver station packets, sounds, the field
e-stop, the panels, the cue, the lights. The web handlers call the exported methods, which
take the same mutex. Six kinds of actor take no lock: the bypass and e-stop toggles in
`web/match_play.go`, `DisableAll` on SIGTERM, the driver station goroutines, the
counter's listener, which has a mutex of its own, the settings save, and the goroutine that
darkens the lights after a match. Network equipment is configured from goroutines that the
commands start and do not wait for; each browser page is served by one of its own.

What is hard: a button pressed between two lines of a pass; a command between two passes;
what a driver station was last told going stale for up to half a second; FUEL that arrives
at the instant the AUTO result is decided; datagrams lost, doubled or overtaken, and a counter
that restarts; two panels that both report on a station; connections that come and go while
the lineup changes; settings saved as a match starts; lights and scoring on two clocks; pages
that read slowly or vanish. `PROJECT.json` lists these hazards at their lines, with the properties
that would catch them.

What makes each part correct, in a sentence each:

- Arena: a stop always wins, a match always comes back to an idle field, and the AUTO
  result can be seen during teleop and at no other time.
- Field e-stop and panels: a held button or broken wire stops its stations and refuses a
  start; only the operator, with the button released, gives the field back.
- Counter receiver: the counts only rise, and hold what was counted since the match began.
- Scoring: each FUEL is tallied once, in the shift it was scored in, under one AUTO result.
- Lights: a lit HUB credits what is shot at it, and no HUB goes dark without a warning.
- Notifiers: a page comes to show the newest value, and holds nobody up.
- Driver stations: a connection belongs to the team of its station; a stop reaches it.
- Team network: the newest lineup is the one the equipment ends up with.

## The modules

| Module | What it is |
|---|---|
| `MatchCycle.tla` | abstract: a match goes through its periods and back, the result out exactly in teleop; `Arena` and `HubScoring` implement it |
| `Arena.tla` | the arena: implements `MatchCycle` |
| `ArenaProofs.tla` | its theorems |
| `HubFeed.tla` | abstract: what a source of counts owes the scoring |
| `HubCounter.tla` | the receiver, the counter and the network: implements `HubFeed` |
| `HubCounterProofs.tla` | its theorems |
| `HubScoring.tla` | from counts to tallies, built on `HubFeed` |
| `HubLights.tla` | the lights over the scoring: composes with `HubScoring` |
| `HubProofs.tla` | the theorems of the scoring and, on those, of the lights |
| `EStopPanels.tla` | from a button's contacts to a station's stop, through wires, sampler, process and network |
| `EStopPanelsProofs.tla` | its theorems |
| `DriverStations.tla` | connections accepted, dropped and replaced while the lineup changes |
| `DriverStationsProofs.tla` | its theorems |
| `LatestWins.tla` | abstract: of requests that supersede each other, the newest is taken up |
| `TeamEthernet.tla` | switch, its driver and the goroutines that configure it: implements `LatestWins` |
| `TeamEthernetProofs.tla` | its theorems |
| `TeamWifi.tla` | access point, its monitor and the goroutines that configure it |
| `TeamWifiProofs.tla` | its theorems |
| `Notifier.tla` | a notifier, its callers and the pages that listen |
| `NotifierProofs.tla` | its theorems |
| `MC*.tla`, `*.cfg` | the instances TLC checks |

A definition in one of the models that `Next` does not reach is a faulty variant of the
definition after it: a dropped guard, a missing reset, a wrong boundary. `PROJECT.json`
pairs each with the property that catches it, so every property is known to fail on some
plausible mistake.

### Arena

State. The variables have the names of the fields they model. Time is in ticks; `clock` is
the time the current state compares with (since the match start or since the post-match
dwell began). A connection is what the arena keeps of a driver station: its robot's link bit,
and `Enabled`, the last thing it was told. `polling` is where the running `Update` is.

Actions. `Update` holds the mutex, so commands never see it half done, but lock-free
actors do. It is one action up to the field e-stop (`UpdateBegin`: the state machine,
the packets, the latch and the abort it causes) and then one action per panel input
(`PollPanel`), since the toggles can fall between them. For the same reason the clear of a
match is three: a snapshot of the bypasses (`ClearMatch` by command, `AutoClear` in the pass
that ends the dwell), `ResetMatch` with the bypasses it drops (`ClearReset`), and the reload of
the lineup with the deferred restoration (`ClearRestore`), after which a pass goes on
(`ClearedPass`). `Unlocked` says that nobody is in the middle of either. Every other command is an
action with its whole effect, `ClearFieldEStop` with its two readings of the button.

`LoadSettings` is a save or, in the middle of a match too, the restore of a database: it
replaces the AUTO mode, and the field e-stop's panel by a new one whose latch is down, while the
arena's own flags of the field e-stop stay as they are until a pass reads it.

Two variables are the properties' alone. `owed` is the alliance a forced mode named when
the match was started, or `open` when it named none or loaded settings have replaced the mode before
teleop. `asked` is what was last asked of each bypass, or `raced` when that was while a clear
was under way.

Left out because it is constant or feeds nothing here: `aStopReset` (always true without a PLC),
`handlePlcInputOutput` (returns at once), sounds, LEDs, cycle times, muting, the WPA keys, and
`CurrentMatch` beyond its lineup, which equals the stations' teams: every match is a test match.
`matchAborted` only reaches the FUEL log. A toggle's load and store are one step (two that
collide act as one), and the stations are stored to together where the code goes through them
one by one (`DisableAll`, `ResetMatch`, the restoration). A clear does not fail on its way: its
calls fail only by match states they are not called in and by a database without its teams. Of
`LoadSettings` the durations, the list of panels and the choice of the field e-stop's pins are
left out here. A driver station connects in one step. The online check of Counted mode can
refuse a start, which changes nothing. Which alliance the counts name is left open: any outcome
the mode allows.

### HubCounter

The counter's program is not in this repository: it is modelled from the datagrams the receiver
accepts and `docs/spec-hub-fuel-counter-feed.md` (`external` in `PROJECT.json`). It numbers
datagrams, sends on each FUEL and as a heartbeat, restarts from zero or from saved counts, and,
where `Miscounts` allows it, takes a count back. The network is perfect, lossy but in order, or
UDP. The receiver's part is `record`, `ResetMatch` and `GetHubCounts`, each atomic under the
receiver's mutex. Two ghost variables say what the counts ought to be: the FUEL ever counted,
carried in each datagram, and the datagram the match is measured from. `HubFeed` does not know
which steps are calls of `ResetMatch`; `ImplementsHubFeed` tells it, so that a count may fall in
those steps and in no other, and a receiver that drops what it banked when the counter restarts
is found out. Sessions are numbered in the model and random in the program: the receiver only
compares them for equality.

### HubScoring

A pass is two steps, since time passes and FUEL arrives between reading the counter (`Fold`) and
running the state machine (`Step`). Shifts are numbers, as in `game/hub.go`. `FieldShift` is the
shift the lights follow, `ScoringShift` the one FUEL is tallied under, `CurrentShift` the one
the cue follows: three computations of one timetable in three places of the source. The stops
are Arena's; here any pass may cut the match short. A settings save checks the match state
without the lock (`SaveSettings`) and installs a new receiver later (`LoadSettings`), in the
middle of a match if one was started in between; `lost` remembers what the old receiver had
counted. The saves here keep the timing and the AUTO mode: that a restore can replace the mode
is in Arena, and `ResultMatchesAuto` is of a match whose mode stays.

Four assumptions are the production values', and the module names them: the pause is at least
the scoring grace (3 s and 3 s), teleop is the sum of its shifts, a shift is at least one grace
and the transition at least two (25 s, 10 s), and a pass is never later than the grace is long
(3 s against a 10 ms loop).

### HubLights

The lit field: each action of HubScoring with what it does to the lights. A pass ends with
`updateHubLeds`, as in `Update`; the end of a match leaves a goroutine that darkens both lights
three seconds later without the lock (`LightsOff`); a settings save starts a new output dark.
`lastMatchState` is the arena's, which the lights alone read here. A mode is the sequence an
output was last told, with red and blue names as one. One more assumption: a pass is no
later than the warning is long (3 s). A goroutine oversleeps by less than a tick, as a pass is
never later than `MaxStall`.

Left out: what an output makes of a sequence (Art-Net and DMX encoding, heartbeat, colours in
`led/`, the relays' writes in `hardware/gpio_hub_relays.go`), and the overrides of the test
page.

### EStopPanels

Arena takes any reading a panel can report; here the readings come from somewhere. An input
has two lines, whose levels change when a button is pressed, travels or is let go and when a
conductor is cut, shorted or repaired. `Decode` and `Filtered` are the decoding
and the discrepancy window. A panel's sampler, its process, its reader and its network each
have a variable, since each fails in a way of its own: a stalled sampler shows by the
age of its sample only, a new configuration can leave the panel without pins, a dead process
does not answer. A pass of `Update` is one `PollPanel` for each panel in order, and with it a
station's own report comes before the field e-stop's, as in the panel's list. A match is one
state, entered by the start check and left again. Time is a tick, and at least one pass is made
in each (`passed`).

Left out: a-stops (Arena has them), buttons wired by a single NO contact, which cannot tell a
cut wire from a released button and claim nothing about it, a pin whose reading fails, which
counts as a fault until it reads again (`cmd/estop-panel/gpio_linux.go:121`), and the loop's delay
when a panel takes its 200 ms to fail.

### DriverStations

The lock is the point. The arena's commands and loop hold it, so each is one step. The accept
loop looks the team's station up (`Accept`) and installs the connection later (`Install`); a
connection's goroutine finds that its socket has failed (`ReadFails`), compares itself with
the station's connection (`Compare`) and removes that one (`Remove`). Lineups change
between any two of these. `disturbed` remembers the connections whose station changed hands
in the first window, so that `NoStrangerAtStation` can say that there is no other way in.

Left out: whatever a packet says of the robot (Arena), link statistics, the mark for a driver
station in the wrong place, log packets, and the first packet's syntax. A connection turned
away is not kept.

### TeamEthernet and TeamWifi

Every lineup loaded, a cleared match's included, starts goroutines that nobody waits for. For
the switch they carry a number, queue, drop out if superseded, and then run Telnet sessions
under the driver object's mutex; the port cycle of a cleared match takes only that mutex; a
settings save installs a new object. A session is one step and may fail after any
prefix of its commands. For the access point nothing orders them, and the
monitor's own retry is one more caller; `lastConfiguredTeams`, an array without a lock, is
written and copied a station at a time. The access point applies what it accepted in its own
time, and may forget it.

Left out: the commands themselves (a station's VLAN has a team's subnet or none), what `write
memory` saves, WPA keys, a switch that is power-cycled or configured by hand, and one that
ignores commands: the driver cannot tell.

### Notifier

One notifier, its two callers and its pages. The value the pages are told is known by a version.
`arenaStatus` is notified from the loop and again every half second; `matchLoad` when something
changes, from the loop and from web handlers that hold no lock. A notification is `Produce`,
which reads the value, and `Send`, which delivers it under the notifier's mutex: two callers can
overtake each other in between. A page registers (`Connect`), writes the value once
(`Bootstrap`), and then takes from its channel or pings. The page's command loop
(`web/match_play.go`) writes to the same websocket from a goroutine of its own: it answers a
command with the arena status as it finds it, or with an error. Both produce the message first
(`Write`, `Command`), then wait for the websocket's write mutex (`LockPage`, `LockCommand`) and
hold it until the write ends, for the browser may stall it up to its deadline. A late answer can
therefore put an older arena status over a newer one; nothing but the next notification, half a
second on, puts that right, which is `PagesCatchUp`, and `IdlePageIsCurrent` is about the match
load, which has the one writer. The timeouts are in ticks of 10 s, the ping's period; a page
that is told the arena status is never silent for so long, so the pings are left out until it
has lost its subscription. `idleFor`
and `overtaken` remember what the properties speak of.

Left out: the other notifiers of the page, which take turns with the ping in one `select`, what
the messages hold, what the commands do but for changing the value (`Change`), and the reading
side, whose end closes the connection (`client`).

## What the runs check

| Run | Instance | Shows |
|---|---|---|
| `arena_stops` | one station that a team comes and goes at; a panel with its e-stop, a field e-stop and an a-stop; the controller's own field e-stop; warmup and pause; modes forced and random; settings loaded at any time; the fairness below | stops, results, bypasses and the match cycle under every interleaving; the match turns around by itself; a stopped robot is told so (639,544 states) |
| `counter_udp` | one HUB, two sessions of three datagrams, two in flight, duplicated and reordered, miscounts | the feed's promise: no count falls but at a call of `ResetMatch` (274,960 states) |
| `counter_lossy` | two HUBs (symmetric), three sessions of two datagrams | no FUEL credited twice, none lost with a datagram (73,109 states) |
| `hub_match` | a lit match of every period and shift, the grace as long as the pause, two FUEL, settings saves, Counted and a forced mode, in ticks of half a second | tallies, credit, the result, the cue, and lights that tell the truth about them (4,459,909 states) |
| `notifier_pages` | one page with a channel of two and a command loop, two changes, both kinds of notifier | the page catches up, is kept while it reads, and goes when it is dead (317,957 states) |
| `team_ethernet` | two stations, one team, three requests, one port cycle, one settings save | the newest lineup reaches the switch; the badge, the subnets and the ports tell the truth (470,443 states) |
| `team_wifi` | two stations, one team, two loads, one fault, one settings save | the access point converges and is left alone (345,891 states) |
| `estop_panels` | one panel, a station's single-contact e-stop and a redundant field e-stop, honoured or not | a held button stops, a repaired station comes back (291,300 states) |
| `driver_stations` | one station, two teams, two connections, legacy and new | who gets in, who goes, what is heard (169,362 states) |

Bounds, and why they are enough. Arena's run has one station, so that liveness is checked on the
same graph as safety: its stations meet in the field e-stop, the `all` inputs and the lineup
only, and every safety property of the run is proved for any stations. One team is enough there:
a substitution that changes a station's team closes its connection, whoever comes. Of the modes
a forced one and one that is open are told apart. Durations of one tick let every period be
entered, dwelt in and left, and the packet period of two lets a packet fall on and off a
transition. Two sessions show a restart, three a restart of a restarted counter; two datagrams
in flight can overtake. In `hub_match` shifts of two seconds, four ticks, with a grace of one
second separate the last instant of a shift, its grace and the time after; half the passes fall
between two seconds, where the cue's whole seconds differ from the field's time; and a pass may
be late by a tick, half of the warning and of the grace, while the theorems let it be late by
the whole. Two FUEL give a tie, a win, and one FUEL before and one after a save. A channel of
two can be full and have room again while one message is being written; a timeout of three ticks
outlasts a write that takes its deadline, so that a page can be slow without being dropped; two
changes are a value told or overtaken and a newest. Pages share nothing but the mutex `Send`
holds, so one sees what any of them can, and safety is proved for any number. On the switch, two
stations let a team change places, three requests let one be superseded while another is at
work, and each failure can be followed by a good configuration. One team is enough there: a
subnet is told from none, and from the same one elsewhere. A second object is one settings save.
Two connections are a reconnect, and one station sees every pair of them. A panel's stations are
independent but for the field e-stop, which one station meets. `MaxFuel`, `MaxSeq`,
`MaxSessions`, `MaxInFlight`, `MaxStall`, `MaxRequests`, `MaxClears`, `MaxSwitches`, `MaxLoads`,
`MaxFaults`, `MaxSaves`, `MaxConns` and `MaxVersion` are the bounds on counters and appear only
in the guards of the actions that would pass them.

Two runs may stop for good and say so in their configurations: `team_ethernet`, when its bounds
end what the environment does, and `driver_stations`, when the process has died of the fault
that `driver_station_panic` shows.

Fairness. `FairSpec` of Arena asks that the loop keeps running (`UpdateBegin`, `PollPanel`),
which `Run` guarantees by an endless loop that waits for nothing but the panels' timeouts and
the mutex, that whoever clears a match gets through it (`Clearing`), and that time passes.
`UpdateBegin` is strongly fair, for the commands can take the mutex again and again: Go's
`sync.Mutex` hands itself to a goroutine that has waited for a millisecond. TeamEthernet's asks
that goroutines run: a session ends by its deadline of 15 s. TeamWifi's asks it of each call (3
s) and the monitor, and that the access point applies what it accepted. EStopPanels' asks it of
the loop and of a live panel's sampler, a ticker, and that matches end and are cleared, which
`arena_stops` shows. DriverStations' asks it of the connections' goroutines and of the packets.
Notifier's asks it of the loop, which notifies the arena status with every driver station
packet, of each page's goroutine, whose writes end by their deadline, and of time; taking a
message and pinging are strongly fair, for a `select` that finds both ready chooses between them
at random, and so is a page's turn at the write mutex, which is handed to it in the end. Nothing
is asked of operators, driver stations, buttons, wires, networks or browsers.

Runs that fail on purpose. Three runs check a sentence of a document or comment and find it
violated by the code; the findings in `PROJECT.json` quote each.

| Run | The sentence | What the code does |
|---|---|---|
| `counter_duplicates` | reordered or duplicate datagrams are dropped, without effect | one of an old session passes for a restart, and FUEL counts twice |
| `panel_start` | a broken or shorted e-stop refuses the start of a match | with a field e-stop on the panel, its released input clears the station's stop and fault just after they are set |
| `driver_station_panic` | the arena's lock keeps a packet from meeting a station without a team | the accept loop does not take it; a connection installed into a station just emptied ends the process when a packet to it fails |

Other sentences the code does not keep, met on the way and too small or too plain for a run:

- "stays latched after the button is reset, until the match is over" (a test): clearing the
  field e-stop in mid-match releases every station's (`field/arena.go:660`).
- "Robots are stopped before anything is torn down" (`field/arena.go:533`): connections are
  closed at once, and no disabled packet is sent.
- A counter's restart loses the FUEL of the outage, "nothing else": it loses the FUEL in the first
  datagram too (`hardware/hub_counter.go:342`).
- The cue marks the boundaries the lights pulse ahead of (`field/arena.go:1651`): it sounds up
  to a second early, which `CueNearHandover` bounds.
- "the shifts after the abort never ran" (`field/hub_fuel_log.go:85`): FUEL is tallied under them
  during the dwell.
- "must not cost anyone their subscription" (`websocket/notifier.go:19`): a page whose every
  write takes its deadline can stay full for the whole timeout while it is open, and then shows
  nothing new until it is closed. `PagesCatchUp` names the exception, `BusyPageIsKept` bounds it.
- A page may show an old `matchLoad` for good: a web handler that was overtaken between
  producing and sending sends the older value last (`websocket/notifier.go:59`).
  `IdlePageIsCurrent` names the exception.
- "Settings cannot be saved mid-match" (`field/arena_leds.go:44`): the check takes no lock
  (`web/setup_settings.go:39`), and restoring a database makes none (`web/setup_settings.go:250`),
  so that the AUTO mode and the durations can change in a match, against `field/arena.go:1497`, and
  the field e-stop's latch comes down with its button released. After such a save nothing is tallied
  until the new count passes the tallies (`plc/override.go:22`). Arena loads settings at any time:
  `ForcedWinnerHonoured` names the replaced mode as its exception; the durations stay.
- A settings save that is refused has already changed the settings in use, and the next change
  of the AUTO mode stores them (`web/setup_settings.go:45`, `field/arena.go:1519`).
- A match aborted and reset between two passes leaves its lights on in PreMatch: no pass
  sees the PostMatch that would have darkened them (`field/arena_leds.go:128`). `LightsGoOff` is about
  PostMatch.
- A bypass toggled, or `DisableAll` run, while the clear of a match is between its snapshot of the
  bypasses and their restoration is lost (`field/arena.go:616`). `BypassAsAsked` names this
  window as its exception.
- The answer to a command can show an older arena status than the notification it follows, until the
  next one (`web/match_play.go:144`): see Notifier above.
- With field e-stops on two panels, the released one overwrites the fault that the held one has set
  at every station, and out of a match the stop too (`field/arena.go:1347`).
- A relay board whose write for red fails leaves blue's unwritten in that pass
  (`hardware/gpio_hub_relays.go`).
- Saving the switch's configuration "only" with the baseline keeps team pools out of it
  (`network/switch.go:405`): a second full configuration saves the pools of the first.
- The last lineup loaded need not be the WiFi's: the calls are unordered (`field/arena.go:1068`).
- A panel that comes back clears its stations (`docs/hardware-wiring.md:492`): not those it has
  no input for, which stay faulted until the field is reset, unless it has a field e-stop.

## What is proved

`tlapm` checks every proof from the definitions and the assumptions the modules name.

Arena (`ArenaProofs.tla`), for any stations, teams, panels and durations. The invariants are not
inductive as they stand: that the result is withheld until teleop depends on none being there
when a match starts, and that nobody is enabled in the pause on who was told what by which
transition. `IInv` adds `NoWinnerWhenIdle` to the invariants; `OwedIsTheMode`, that until teleop
the mode is the one the match was started under, unless nothing is owed; and `SnapshotAsAsked`,
that between snapshot and restoration the snapshot is what was asked of the bypasses. With the
last `BypassOutlivesClears` follows, from a clear that does drop them. All passes of `Update`
end in `FinishPass`, so one lemma says what it may do (`FinishPassMatch`, `FinishPassTypes`,
`FinishPassConns`), another that each pass is such a plan (`PassHasPlan`), and the invariant
follows for all of them at once. The action properties and the refinement of `MatchCycle` then
need only `IInv` and the step. `PacketsFollowTheField` is the safety half of
`StoppedRobotIsDisabled`: whatever a driver station was told, the pass that ends the packet
period tells it what is right now, but for the pass that finds the field e-stop pressed, which
has sent its packets by then. It is also what says that an a-stop holds no pass longer than
AUTO: `StopsLatched` is about a release that comes too early.

HubCounter (`HubCounterProofs.tla`). `ImplementsHubFeed` and `TypeOK` hold on every network:
`BaselineInv` says the baseline is of the last datagram's session and not above it, so
the count is the banked sum plus a difference that is never negative, and `RecordRaises`
that accepting a datagram only raises it, a restart's first datagram included; what is left to fall
at is the call of `ResetMatch`. `NeverMoreThanCounted` and
`LostDatagramsCostNothing` assume `Ordered` (a network that keeps order, a counter that does not
miscount), under which `OrderInv` adds that everything in flight is later than the last
datagram and carries no less; the `counter_duplicates` run shows the assumption is needed.

HubScoring (`HubProofs.tla`), for any durations that meet the four assumptions, any tick and any
FUEL. The first part is arithmetic: the ends of the eight shifts in ticks, and the shift a time
falls in, without induction. `TalliedOnce` needs that `UpdateState` raises one tally at most,
and by no more than the count has risen (`FourKindsOfStep`). `NoFuelMissed` is the converse:
while a shift is open a pass leaves nothing untallied, unless a settings save replaced the
receiver under it. What relates result and tallies is `ResultInForce`: the tallying hubs never
lag behind `AutoWinner`, and before teleop nothing is tallied under a shift the result has a say
in. That last part needs `Timing`, which bounds how late in each period the last pass can have
been: with a later one FUEL would be tallied in the first alliance shift before there is a
result. `CreditStands` follows from both. `CueIsOnTime` compares the cue's clock, what is left
of teleop in whole seconds, truncated, with the field's (`WholeSeconds`): the cue's shift is the
field's or the one the field is in within the second (`CueIsFieldOrNext`), and a pass that ends
in teleop has sounded it (`PassSoundsCue`). `ScoringImplementsMatchCycle` and `ScoringIsFed`
place the component between the two abstract ones: it shows the arena's match cycle on one side
and asks no more of the counter than `HubFeed` on the other, where a receiver that a save
installs in the old one's place is another source (`SourceStartsOver`).

HubLights (`HubProofs.tla`, second part). `LightsOnlyWatch` shows that the lit field implements
HubScoring, so that its invariant holds under the lights. To it `LitInv` adds `Fresh`, that a
light that is on in teleop was switched on by a pass no more than a stall ago and by the field's
clock at that time, and `OffIsDue`, that a light left on after a match has a goroutine to darken
it. `LitHubCredits` then comes down to two clocks a stall apart, where the grace makes good for
the stall, and `WarnedBeforeDark` to a warning that is no shorter than one.

DriverStations (`DriverStationsProofs.tla`), for any stations, teams and connections.
`NoStrangerAtStation` needs that the connection between its look-up and its installation is of
the station's team unless it was disturbed (`LookedUp`), and is newer than all at stations
(`Made`). `DisturbanceIsToBlame` complements the run that fails: the process dies
of such a connection and of nothing else. A connection that fails compares and removes in two
steps, and a reconnect installed in between is removed in its place; `OnlyANewerOneGoesAlong`
says that this is all it can hit, from the order connections are made in (`InTurn`).
`NoneIsLeftBehind` is the safety half of `DeadConnectionsGo`, and `SentIsHeard` that of
`GameDataIsHeard`: what the arena compares with is what the driver station heard.

EStopPanels (`EStopPanelsProofs.tla`), for any panels, inputs, wirings and limits. A sample
that reads released is no older than the press it missed (`Sampled`), so that a poll that
believes it is not late; and what the panels polled so far have done to a station is not undone
by those polled after them (`Stops`, `FieldStops`). The first of these holds of an input in a match
always, and out of one while no honoured field e-stop is polled with its panel or after it. From
it follows `HeldButtonRefusesStart`, which is how far the sentence holds that `panel_start`
finds violated. The second holds of e-stops always; of the fault that a field e-stop leaves only
while a single panel has one held, and `HeldFieldEStopEndsMatch` is stated so.
`SilenceReleasesNothing` is about the other direction: no panel that is
unreachable, stale or without pins lets go of a stop, and in a match nothing does.

Notifier (`NotifierProofs.tla`), for any pages, buffer and timeouts. `IdlePageIsCurrent` speaks
of a page at rest; the invariant follows the newest match load to where it is before: last in
the channel, or being written, or still to be written by a page that joins (`Newest`). It needs
that the command loop's answers to such a page hold no match load.
`BusyPageIsKept` needs that while a channel is full its spell of refusals is no longer than the
page has taken nothing (`Spells`).

TeamEthernet (`TeamEthernetProofs.tla`), for any stations, teams, requests and objects. One request
is at work at a time, with the object that was current when it was taken up; any newer object
knows nothing yet (`OneAtATime`). `Plan` says what the request may count on at each point: that
its object's belief is true before it touches a VLAN, that the VLANs to rebuild are empty between
the two sessions, and that the switch carries its lineup after the second. `Ports` accounts for
every port that is down from the first full session on. `NewestIsTakenUp` is the safety part of
`LatestWins`.

TeamWifi (`TeamWifiProofs.tla`), for any stations, teams and bounds. A call and the monitor's
copy go through the stations one by one, and the invariant keeps their places among them
(`InPlace`). `SettledIsLeftAlone` is the safety half of `AccessPointConverges`: once the access
point runs what was last asked for, with nothing on its way and no stale reading of it in the
monitor's hands (`Settled`), no call, look or failed look changes it or what is remembered of
it, until a lineup is loaded, the settings are saved or it loses its configuration.

What the proofs assume of durations and bounds are `ASSUME`s of the modules, and TLC evaluates
each of them on the instances above.

Only model-checked: the liveness properties, for fairness and ENABLED are beyond the prover:
`MatchTurnsAround`, `StoppedRobotIsDisabled`, `PagesCatchUp`, `DeadPagesGo`, the liveness part of
`LatestWins`, `AccessPointConverges`, `RepairedStationClears`, `DeadConnectionsGo` and
`GameDataIsHeard`. Where one has a safety half of interest, that is proved, as said above.

## Plan

Done: the modules above. What would extend them, in this order:

1. Counter and scoring as one system: every FUEL counted since the match began is tallied once,
   from `CounterImplementsHubFeed`, `ScoringIsFed`, `NoFuelTwice` and `NoFuelMissed`.
2. The relays (`hardware/gpio_hub_relays.go`) as an output of HubLights: writes that fail and are
   retried, and one HUB's failure against the other's.
3. `LoadSettings` for the list of panels and the controller's pins, and loads that alter the timing.
4. Several notifiers of one page: the turns they take.

## Not modelled

The PLC (never enabled), encodings (Art-Net, control packets, Telnet and HTTP bodies),
rendering and the browser pages, the schedule of the match sounds but for the shift cue, event
status and team logs, which no other state depends on, and the database, whose transactions are
a library's. A component that is `partly` modelled has in `PROJECT.json` what is left out of it.
