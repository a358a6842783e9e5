# Verification of the practice field management system

pFMS runs a FIRST practice field: it configures the field's Wi-Fi radio for the robots that ask
for a station, bridges each station to the field network, speaks the FMS protocol to Driver
Stations, and runs matches, challenges and relays in which robots are enabled, disabled and
stopped. The server is one Node process. Its handlers run to completion one at a time, so the hard
part is rarely two threads in one function. It is the order in which presses, status reports,
timers, HTTP answers and shell commands arrive, and what a handler still believes after an
`await`.

This directory holds TLA+ modules translated from that source, TLC configurations that check them
on small instances, and TLAPS proofs of what matters most for every value of the constants.
`PROJECT.json` lists the components, runs, theorems, known hazards, disagreements found and the
source lines each definition stands for.

To check a run: `tlc -config engine.cfg MCMatch` (section 3 names the module of each
configuration). To check proofs: `tlapm MatchEngineProofs.tla`, and so for each `*Proofs.tla`.

Contents

1. The system
2. What is modelled, and how it corresponds to the code
3. The runs: questions, bounds, fairness, what they show
4. The proofs
5. Where the code and its documents disagree, and observations
6. What is not modelled

---------------------------------------------------------------------------------------------

## 1. The system

Paths are relative to `src/src/` unless they say otherwise.

### Components, their state and their operations

**Match engine** (`matchEngine.ts`). State: the phase (idle, created, countdown, auto, autoPause,
teleop, endgame, paused, postMatch), the remaining time and the interval that drains it, the
resume and auto-clear timeouts, the pending and the running match configuration, the stations that
joined, with alliance and slot, the ready check, what each station is commanded (enabled, mode,
e-stop, a-stop) and why it is down (`disabledBy`), and the splits and finishes of a challenge or a
relay. Operations: create, join, leave, evict, configure, open the ready check, ready up, start,
abort, pause, resume, stop, clear, pick the auto winner, hand a relay off, finish an alliance,
disable, undisable, e-stop, a-stop and their clears, Driver Station reports, and the timers.
*Correct if* a robot is enabled only in its own match's periods, never through a latched stop and
never in the wrong mode; one relay runner moves at a time; a match starts only with what the ready
check asked about; a timer never acts on another match than the one it was set for; and a match
that starts ends.

**Radio manager, pending changes** (`radioManager.ts`, with the holds in `index.ts`,
`matchSetup.ts` and the handlers of `websocketServer.ts`). State: `activeConfig`, who is on which
of six stations; `pendingChanges`, the list of enables and releases that wait; two settings that
hold changes. Operations: a team enables or releases a robot, leaves the line or keeps its place;
staff apply, cancel, clear the field or set up the next match; the end of a match queues releases;
a sweep releases idle robots when others wait. *Correct if* a robot never has two stations and is
never moved while it stays; nobody leaves the field without a reason; holds hold; applying loses
no request; and a robot waits in line only for want of a station.

**Radio manager, commit** (`radioManager.ts`, `networkManager.ts`, wiring in `index.ts`). State:
the deferred flag, a promise chain of pushes, the two concurrent halves of a push (the radio's
POST and `configureNetwork()`), the radio's last status, and what a restart has to make up for.
*Correct if* a change that was applied reaches the radio and the bridges, whatever failed on the
way, one push at a time, and never while robots are enabled.

**Drive sessions** (`driveSessions.ts`, `routePreferenceManager.ts`, `node-ip/linux.ts`). State:
which Driver Station laptops are on the network, which robot each drives, which are held off as
duplicates, what the engine was told; and, in the kernel, the NAT and block rules and route
preferences that carry it out, which one serialised loop of awaited commands keeps in line.
Operations: a packet is heard, Drive is pressed, a laptop disconnects, the configuration changes,
a sweep every 5 s, a restart that finds the rules of the process before it; and, underneath, the
trunk is rebuilt and its rules flushed. *Correct if* a driver keeps its robot while it talks, only
real duplicates are held off, the engine always knows who drives, and the kernel's rules come to be
what the sessions say, whatever failed on the way.

**Match queue and "Set up next match"** (`matchQueue.ts`, `matchSetup.ts`). State: the entries from
queued through on deck and playing to played, who plays in each, the line teams wait in. A setup
stages the match's robots, waits for the radio, puts the entry on deck and creates the match. The
queue follows the engine by its phases alone. *Correct if* one entry plays at a time, and only while
its match does, what was played is not played again, and a match formed from the line is fair.

**Stops outside a match** (`matchEngine.ts`, the stop cuts of `index.ts`, `networkManager.ts`,
`stopStore.ts`). State: the field's, the stations' and the teams' stops, the file that carries them
over a restart, what each Driver Station last said, the waits for those that have yet to stop, and
the cuts of Driver Station traffic in the kernel, applied by a chain of commands. *Correct if* a
stopped robot is cut off until its Driver Station has stopped, a restart lifts no stop, and nobody
is given a robot back that their Driver Station still commands Enabled.

**Delivery of stops** (`frontend/src/utils/stopDelivery.ts`, `useBackend.ts`). A stop pressed on a
page goes over a socket that may break or go half dead, and is sent again until the field's own
state shows it or it is given up on screen. *Correct if* no press is dropped silently.

**FMS server** (`fmsServer.ts`). Driver Station TCP and UDP sessions: rosters, packet cadence,
status parsing. To the engine it is a source of status reports.

**Scoring** (`scoringEngine.ts`, `scoringApi.ts`, `shiftState.ts`). Goals, shifts, counting
windows. To the engine it is who leads when auto ends.

**Application wiring** (`index.ts`) connects all of these by callbacks. **WebSocket server and
access control** (`websocketServer.ts`, `wsAccess.ts`) turns each message into one manager call,
which the modules take as an action.

The rest (network helpers, station tests, authentication, updates, monitors, recordings, audio,
notifications, schedules, stores, firmware, mDNS, and the frontend) is listed in `PROJECT.json`
with the reason each is in or out.

### How they interact

    presses --> websocketServer --> MatchEngine --phase changes--> radio manager (holds, deferral,
                                        ^                           releases after a match)
      Driver Stations --> fmsServer ----+--- commands to robots --> Driver Stations
                                                                 \-> packet holds in the kernel
      teams --> pending list --apply--> activeConfig --commit--> queue of pushes --> radio
                                                                            \------> bridges
      activeConfig, laptops --> drive sessions --pass--> kernel rules <--flush-- trunk rebuild
      stop buttons --> pages --socket--> MatchEngine --stop cuts--> kernel rules
      match queue --set up--> pending list, MatchEngine --phases--> match queue

* Calls are synchronous except `commitConfiguration()` and everything below it, the drive sessions'
  synchronisation, the chain of stop cuts, and setting up the next match.
* Timers: the match interval, a 3 s resume, a post-match auto-clear, an abandoned-setup timeout, a
  5 s deferred-commit retry, the status poll, sweeps.
* What survives a restart: station configuration, the pending list, the kernel's rules and bridges
  (after a graceful restart only), stops. The match engine's state does not.

### What is hard

* *Ordering* in the engine: some forty inputs in nine phases, several reasons for a robot to be
  down and several ways up, and hand-offs, resumes and DS reconnections that enable as a side
  effect.
* *Timers that outlive their match*: interval, resume, auto-clear and abandoned setup are each
  created and cleared in several methods.
* *Stale decisions* in the radio path: a check is made when a push is queued and used up to 90 s
  later; a radio's status describes an earlier configuration.
* *Half-failed work*: two halves per push, several commands per bridge, rules that are added
  twice.
* *Restarts* between two files, between a commit and its push, between the two halves of a push,
  and with rules, bridges and cuts of an earlier process in the kernel.
* *Records of the outside*: what the pass on the kernel's rules believes installed, against a kernel
  that commands change half way and a rebuild of the trunk empties.
* *Half-dead sockets*: a stop that left the page has not reached the field.

The hazards in `PROJECT.json` name each at its line, with the properties that cover it.

---------------------------------------------------------------------------------------------

## 2. What is modelled, and how it corresponds to the code

| Module | Models | Role |
|---|---|---|
| `MatchEngine` | `matchEngine.ts`: phases, ready check, clock, stops in a match, relays, reports | specification |
| `MatchPhases` | what the parts that follow a match may take for granted of it | abstract specification, implemented by `MatchEngine`, instantiated by `PendingChanges`, `MatchQueue` and `StopHold` |
| `MatchAudit` | the same with two memories: what changed since the ready check opened, robots out of an e-stop | history variables |
| `MCMatch`, `MCAudit` | small instances, action constraints | TLC |
| `PendingChanges` | the pending list, holds, idle releases, crash and restart | specification |
| `MCPending` | two stations, three robots, symmetry | TLC |
| `RadioCommit` | commit, deferral, queue, halves of a push, repair, restarts | specification |
| `DriveSessions` | which laptop drives which robot, and what a restart makes of the kernel's rules | specification |
| `DriveSync` | the pass on the kernel's rules, command by command, with failures, rebuilds, restarts | specification |
| `DriveRules` | what the sessions may take for granted of that pass | abstract specification, implemented by `DriveSync` |
| `MCDrive`, `MCSync` | two laptops and a team of two robots; the rules of one station | TLC |
| `StopHold` | stops out of a match, waits, cuts, the file, restarts | specification |
| `StopDelivery` | a stop's way from the press to the field | specification |
| `MatchQueue` | the queue, the line, "Set up next match", what it makes of the phases | specification |
| `MCQueue` | two entries, two teams, symmetry | TLC |
| `Lists` | filtering a list, for `PendingChanges` and `MatchQueue` | operator |
| `*Proofs` of `MatchEngine` (with `MatchAudit`), `PendingChanges`, `RadioCommit`, `DriveSessions`, `DriveSync`, `StopHold`, `StopDelivery`, `MatchQueue` | section 4 | TLAPS |

An operator `Def_Slip` is `Def` with a plausible programming error. No specification uses one.
Each is paired in `PROJECT.json` with the property that tells it from the code.

### MatchEngine

One action per method, with the method's name (`CreateMatch`, `Join`, `LeaveStation`,
`RequestReady`, `SetReady`, `StartMatch`, `PauseMatch`, `CompleteResume`, `Undisable`,
`DsReportsStatus`, ...). The whole handler is one step: `LeaveStation` of the last team includes
the end of the match, `StationDisable` of a relay runner includes the hand-off. Helpers that several
methods share are shared operators (`EnableParticipating`, `Advance`, `RecordFinish`, `EndMatch`,
`CloseReadyCheck`).

Abstractions:

* *Time.* The clock counts ticks and a tick may drain up to `MaxElapsed`, as a delayed interval
  does. `remaining` is clamped at zero; the code only ever compares it with zero. A window the
  engine reads elsewhere is a set that an action empties (`attached`: status within 5 s;
  `startHolds`: the restart cooldown and the Get Ready announcement). A window that only makes the
  engine *ignore* an input (the grace after an enable, the double-click window, a lost robot link)
  is not kept: the model may always not take that step.
* `leaked` is an interval that still fires but whose handle was overwritten. It is state the code
  has without a name for it.
* *Scores* are reduced to the choice of who leads in `ComputeAutoWinner`; laps and penalties are
  left out.
* *The controller policy* is `blocked`, which changes at any time (`PolicyChanges`).
* A staff member whose page stops its heartbeat is `SetStaffReady(role, FALSE)`.
* Stops out of a match, with the refusals they lead to, are `StopHold`'s. Match ids, names and
  timestamps are left out.

`MatchAudit` repeats no action: it runs `MatchEngine`'s own steps beside two history variables.
`CheckedSpec` records whether the match *changed* since the ready check was opened: a team came in,
went (in setup) or changed sides, or the match became another. `LiftedSpec` records who came out of an
e-stop and waits for an Enable.

### MatchPhases

The engine has nine phases; the parts that follow a match tell five apart: idle, created, countdown,
running (pauses included) and over, and whether somebody is in it. `MatchPhases` is that match: one
action per kind of step, and no more than the followers count on. The engine implements it under the
mapping `Followed` (all periods and pauses are running; nobody counts as in a match that is over),
checked and proved (`PhasesAreKept`), and a follower takes a step of it together with what its own
code makes of it: `EndMatch` of `PendingChanges` is `M!MatchEnds` and the releases that are then
staged, `StartMatch` of `MatchQueue` is `M!StartMatch` and an entry that starts to play,
`CreateMatch` of `StopHold` is `M!CreateMatch` and the e-stops it lifts. `Restart` is not a step of
the engine, which keeps nothing over a restart; it belongs to those who do.

### PendingChanges

Everything from a team's press to `activeConfig`. Every handler is synchronous, so each is a step.
`Target` is `computeTarget()`: the list folded over the stations, then a second pass for those in
line (`Considered`, `Retried`: recursive functions along the list). `MustWait` is `waitReason()`,
`Held` is `shouldHold()`, `AddChange`, `Apply` and `Withdraw` are the methods of those names. The
match is that of `MatchPhases`: a countdown counts as a match that is on, one that is aborted is set up
again, and one that is ended within its countdown stages the releases of its end.

Abstractions: which robots have been off the Wi-Fi long enough is a choice of the step (`idle`); the
Internet flag, which is toggled outside the list, is left out; the host team is a fixed set;
`SetUpNext` sets up one robot a side. A crash between the two files of an apply (`CrashInApply`) has
written the list and not the stations.

### RadioCommit

From a changed `activeConfig` on. A handler runs to its first `await`, so a push is several steps:
it starts, the radio takes the configuration over (`RadioTakes`), the POST resolves (`PushDone`)
or fails (`PushFails`), the network pass ends (`PassDone`, `PassFails`), and `Promise.all` ends
the job with the last half or with the first *failure*, the other half still under way.
`QueueRests` says that a promise callback runs before the next event. `StartCommitUnreachable` is
a push that skips the POST because the radio does not answer. `CheckSync` is the repair by
comparison with a status report, `RetryDeferred` the deferred retry, `ReadBridges` and
`BootCommit` what a start makes up for.

Abstractions: who is on the six stations is one value, `who`, and everything else a push carries
is another, `key`; a change of configuration and its commit are one step (`PendingChanges` has the
steps before it); back-off times of the repair, scans, the URL wizard, firmware uploads and the
trunk's rebuild are left out; a radio takes a configuration over before or without the POST
failing, never after.

### DriveSessions, DriveSync, DriveRules

The handlers of `driveSessions.ts` run to their end without awaiting, the pass on the kernel does
not; so there are two modules. In `DriveSessions` each handler is a step (`Heard`, `Drive`,
`StopDriving`, `Disconnected`, `ConfigChanged`, `Sweep`), built from the shared parts of the code
(`Claim`, `EndSession`, `LiftBlocks`, `TakesRobot`), which take the sessions as the part before left
them. A pass there is only what it set out to have (`goal`) and a rule that goes or comes
(`KernelChanges`), because all the sessions ever get back from the kernel is what a restart finds
(`RestartGracefully`). Silence is a choice (`GoesQuiet`).

`DriveSync` has the pass: the six loops of `syncOnce()` (`NextLoop`), the effects they await, each
one or more commands (`Issue`, `CommandRuns`, `CommandFails`, `CheckFails`, `OpDone`), the record
they keep, and calls that come in between (`Sync`, `again`). What the sessions ask for is one of the
`Situations`. Others set and drop routes (`OthersRoute`), the trunk is torn down and brought up
(`TearDown`, `BringUp`, `KernelFlushed`), and the program restarts with what is in the kernel. Three
history variables say when the code gives no promise: `failed`, an effect of the last pass failed;
`misread`, a check of the kernel failed and a deletion passed for done, or a start could not read or
parse a rule; `overtaken`, an addition was awaited through a whole rebuild.

`DriveRules` is the agreement between the two: rules go only if the last pass did not want them, come
only if it did, and may all be flushed. The kernel of `DriveSessions` takes its steps
(`KernelChanges`), and `DriveSync` implements it under
`goal <- goal \cap Dnat, kernel <- {r \in Dnat : kernel[r] > 0}`, checked and proved (`KeepsRules`).

Left out: statistics and messages; block rules in `DriveSessions`' kernel, which a restart does not
read; names of the iptables chains.

### StopHold

The buttons of a stop out of a match (`FieldEStop`, `StationEStop`, `TeamStop` and their clears),
the match of `MatchPhases` with the stations in it, as it lifts stops and stops end it
(`CreateMatch`, `ClearMatch`, `MatchMoves`, `Join`, `Leave`, ...), the Driver Station's word
(`Note`, `Silent`) and the waits on it (`ReviewFrom`, `Poll`), the listener in `index.ts` that asks
for cuts, the chain that applies them (`Apply`, which may fail), the four points of a trunk rebuild
(`TrunkGoes`, `TrunkGone`, `TrunkComes`, `TrunkBack`), the file, and a restart, with or without a
trunk. `Broadcast` is what every handler ends with: save the stops if they changed, review the
waits, follow with the cuts. A wait ends when the Driver Station said Disabled, or said nothing
readable and is attached, or has been silent long enough (`Still`).

A restart takes up what was saved last, or no stops if the file cannot be read (`RestartWith`).
History: `lost`, the last save failed or its file could not be read; `botched`, a station's last
command failed; `late`, a cut was lifted while a rebuild had taken the trunk away.

### StopDelivery

The page's entries (`stage`), the socket and what is on it each way, presses on sockets given up that
may still arrive (`strays`), and the field, which takes a stop, may refuse some, and is changed by
others too. `HalfDies` is a socket that stays open and carries nothing. `owed` and `plain` are
history: a press not in force since, and one that no state at hand or on its way showed.

### MatchQueue

One action per method of the queue and the line. `Wished` and `Formed` are the two passes of
`formFromLine()`. A setup is two steps: `SetUp` up to the wait for the radio, `SetUpGoesOn` (or
`SetUpFails`) after it, with the entry and the mode it began with. The engine is `MatchPhases`; the
queue's listener is part of the step that changes the phase (`Becomes`). `aborted` is history: a
countdown was aborted whose entry counts as playing. Left out: numbers, notes and times, the no-show
clock (it only flags teams), a failing save (only logged).

---------------------------------------------------------------------------------------------


## 3. The runs

Ten runs pass; two show a disagreement (section 5).

| Run | Module | Question | Checks |
|---|---|---|---|
| `engine` | `MCMatch` | Can any order of inputs enable a robot wrongly, a timer outlive its match, or a match take a turn its followers do not expect? | `OnlyLiveRobotsEnabled`, `StopsStop`, `NoAutoRoutineInTeleop`, `AStopEndsWithAuto`, `TimersBelong`, `OnlyEnableEndsEStopDisable`, `PhasesAreKept` |
| `relay` | `MCAudit` | Do hand-offs, departures and re-enables keep one runner, distinct slots and the policy's gate, and does a match start only with what its ready check asked about? | `RelayOneRunner`, `FinishedStaysDown`, `SlotsAreDistinct`, `PolicyGatesEveryEnable`, `StartsWhatWasChecked` |
| `live` | `MCMatch` | Do matches, resumes and setups come to an end by themselves? | `NothingLingers`, `StartedMatchEnds` |
| `pending` | `MCPending` | Does the list stay meaningful, and the field fair, under every request, hold and restart? | `WaitingMakesSense`, `RobotsDontMove`, `RobotsLeaveForAReason`, `HoldsHold`, `AppliesLoseNobody` |
| `commit` | `RadioCommit` | Does what is configured reach the radio and the bridges? | `JobIsRunning`, `ChangesAreOwed`, `RadioSettles`, `BridgesSettle` |
| `drive` | `MCDrive` | Does a driver keep its robot, is only a duplicate held off, does the engine know who drives? | `BlockedAreDuplicates`, `EngineShowsDrivers`, `LiveDriversKeepTheirRobot` |
| `sync` | `MCSync` | Do the kernel's rules come to be what the sessions ask for? | `RestsInLine`, `NoStrayRule`, `LastRobotsRuleIsGone`, `KeepsRules`, `ComesInLine` |
| `queue` | `MCQueue` | Does the queue follow the match, and is a match formed from the line fair? | `PlayingIsUnderWay`, `PlayedStaysPlayed`, `FormedFairly` |
| `stops` | `StopHold` | Is a stopped robot cut off, over restarts and rebuilds, and never freed to an Enabled Driver Station by a clear? | `CutsFollowStops`, `RestartsKeepStops`, `ClearsOnlyTheStill`, `WaitsEnd` |
| `delivery` | `StopDelivery` | Can a press of a stop be lost in silence? | `KeptUntilShown`, `PressesLand` |

A type invariant that is proved is left to its proof; every run was made with it too.

### Bounds, and why they are enough

* `engine`: one station, in matches with auto and a host-picked winner, with auto skipped, and in
  challenge runs. Every safety property of this run is about one station, or the match clock, and
  every handler treats stations alike and one at a time outside relays; what two stations add
  (readiness of all, slots, hand-offs) is what `relay` checks. Periods last one tick, teleop two so
  that endgame begins inside it, and a tick drains one or two (`MaxElapsed`): every boundary is
  crossed by a tick on time, and endgame jumped over by a late one. The action constraint
  `EnginePresses` has the "Get Ready" call made and run out only while a match is set up, where it
  delays a start, and plays a day of official matches or of challenge runs; of the runs it keeps
  what happens during one, with no Driver Station and no A-Stop, which is `relay`'s part.
  `AlliancesAlike`, here and in `relay`: no handler treats the alliances differently, and of a
  picked winner the engine asks only whether there is one, so the first station starts on red and it
  is red that is picked. It halves the states.
* `relay`: two stations of one or two alliances, one with a Driver Station that reports, one the
  policy may block; a relay the Driver Station hands off and a stopwatch challenge the staff end.
  `RelayPresses` leaves out presses `engine` covers in every phase: a disable or e-stop outside a
  match, A-Stops (a relay has no auto), the leaked interval. Configurations change until a team has
  joined, and from then on between the two challenges, which is what the ready check must notice.
* `live`: one station, no constraint, as an action constraint would make liveness unsound. The host
  may have the winner picked by hand, so the clock stops for it; teleop has an endgame, and a late tick
  may jump it.
* `pending`: two stations and three robots, one of them the host's: enough for a full field with one
  robot in line, a release that frees a place, and a robot that is asked for on another's station.
  Two keys make "the same robot, changed" different from "the same". The two teams' robots are
  interchangeable, so symmetry over them is sound; no liveness is checked here.
* `commit`: two rosters, two keys, two waiting pushes (`MaxQueue`), two simultaneous network passes
  (`MaxPasses`) and four disturbances (`MaxDisturbances`: changes, failures, matches, syslog pushes,
  restarts and radio losses). Two waiting pushes are one that matters and one overtaken by it; two
  passes are the first that can interleave; four disturbances are a change during a match, its
  failure, a restart and a further change. Deadlock is not checked: with nothing to do and no
  disturbance left the model may stop, as the system rests.
* `drive`: two laptops, two robots of one team, two stations, with a second team a laptop may name.
  A duplicate needs two laptops, a choice of robot needs two; laptops, robots and stations are
  interchangeable. Nothing is counted, so nothing else is bounded.
* `sync`: the rules of one station with two laptops, and what the sessions can ask for in it (nobody
  drives; a; b with a held off; b while a drives the team's other robot); two changes of the
  sessions or of routes (`MaxChanges`) and two failures, rebuilds or restarts (`MaxTroubles`). Every
  start is with any copies of rules, up to two, in the kernel. One change in a pass and one in the
  pass that makes up for it, and one failure in each, are the cases that differ.
* `queue`: two entries, two teams, a match of one robot or of one against one, two setups at a time
  (`MaxSetups`), which overtake one another. `Apart` bounds the line to two places and has teams
  wait in it only while the field is idle and no setup waits: line and match touch the same entries,
  but never each other, so what is left out is only their product.
* `stops`: one station, as stops and cuts of stations share only the field E-Stop and the file,
  which the proofs cover for any number; two failures, rebuilds or restarts, and two commands
  waiting.
* `delivery`: a stop the field must take and one it may refuse; two presses, two sockets that fail,
  two messages each way on a socket.

### Fairness

`live` assumes weak fairness of the engine's own timers only: `Tick`, `CompleteResume`,
`AutoClearFires`, `CancelEmptySetup`. The process runs them while it lives. Nobody is assumed to
press a button, which is why `StartedMatchEnds` excepts a pause, a way back out of the countdown, and
a winner that the host is asked for. It starts from every moment in which a match runs and not only
from its start: once the host has picked, or the pause is over, the match must go on.

`commit` assumes weak fairness of the deferred retry's timer, the status poll's comparison, the
queue's promise chain, the completion of network passes and POSTs (each may also fail instead), and
the steps of a start. It also assumes that robots are disabled some time (`RobotsStop`: a match ends,
by `live`), and that a radio which is powered answers and takes what it is sent. Without these a
radio can of course stay wrong. Disturbances are bounded, so `<>[]` says what holds after the last of
them.

`sync` assumes that a command that runs ends, so that the pass goes on, and the 5 s sweep.
`ComesInLine` is what that gives once troubles stop. `stops` assumes the poll of waits, that the chain
of commands goes on whether one fails or not, and that a silence reaches its limit unless a packet
ends it; `WaitsEnd` excepts a Driver Station that keeps commanding Enabled or unreadable packets.
`delivery` assumes the page's timers (reconnect, watchdog, review) and that a working socket carries
what is on it. Giving a press up is never assumed: a press that lands only by being forgotten would
say nothing.

### What they show

No order of stop, undisable, pause, hand-off and Driver Station report enables a robot through a
latched stop. A Driver Station that reconnects in the middle of a relay does not revive a finished
runner. A second pause, a stop or a field E-Stop takes a resume with it. A change that was deferred or
queued cannot be overtaken by a retry that clears the flag too early. A commit lost in a graceful
restart is found by comparing bridges. An apply that is interrupted can lose changes, but leaves a
meaningful list. No packet, button, disconnection or sweep takes a robot from a driver that talks,
or gives a laptop a second one. No apply leaves a robot in line before a free station.
The serialised pass forgets no rule, also when commands fail half way and the trunk is flushed under
it, and puts a robot's traffic to a new laptop only after the old one's is gone. Restarts and rebuilds
end with exactly the cuts the stops ask for. A press of a stop is never dropped in silence by the
page. A setup that waited for the radio does not bring back what was played meanwhile.

---------------------------------------------------------------------------------------------

## 4. The proofs

All theorems hold for every value of the constants that satisfies the named assumptions.

### MatchEngine and MatchAudit

Assumptions: `StationAssumption` (stations are finitely many positive numbers), `ConfigAssumption`
(a configuration is one `updateMatchConfig()` can store: a challenge skips auto),
`TimingAssumption` (periods last at least one tick, endgame may be empty).

| Theorem | Says |
|---|---|
| `TypeCorrect` | `TypeOK` always |
| `OnlyLive` | a robot is enabled only in its own match's periods |
| `StopsAlwaysStop` | no robot is enabled through a latched stop, and no match runs under a field E-Stop |
| `AStopEnds` | no A-Stop is left in teleop |
| `TimersAlwaysBelong` | a pending resume belongs to the pause that is on, the auto-clear to a finished match, and a match that is on has a clock that runs, unless it is paused or waits for the host |
| `OnlyEnableBringsItBack` | a robot marked down by an e-stop comes up by Enable only |
| `PolicyAlwaysGates` | no step brings up a robot the policy blocks |
| `ModesMatch` | a running robot is in auto mode exactly during auto |
| `SlotsStayDistinct` | the stations in a match hold distinct slots of their own alliances |
| `OneRunnerPerRelay` | in a relay the FMS hands off, only the robot whose leg it is runs, and until its alliance finishes it is somebody's leg |
| `FinishedNeverReturn` | no robot of an alliance whose clock has stopped runs again |
| `PhasesAreFollowed` | the engine implements `MatchPhases` |
| `SomebodyPlays` | a match that is on has a station in it |
| `StartsAreChecked` | a match starts only with what was there when the ready check was opened, and nobody has gone in setup since |

The inductive invariant is `IInv`, a conjunction of nine parts, each proved by a lemma per helper and
one step per action, and each only from those before it:

* `DataType` and `FlagType` are the type invariant in two parts, because its arithmetic and its
  Boolean variables need different provers; `DataType` adds that a pause knows which period it
  interrupted, without which a resume would not lead to a phase.
* `ClockSafe` is about timers: the resume, the auto-clear and the field E-Stop support each other (a
  stop ends the match, which cancels the resume, which is why the resume cannot complete under a
  stop). `ClockRuns` is the other half: every way into a period starts the clock, and every way that
  stops it leads to a pause, to the host's pick or to the end. It needs only the types.
* `RobotSafe` is `OnlyLiveRobotsEnabled`, `StopsHold`, and `EnabledIsUnmarked` (an enabled robot
  carries no `disabledBy`). The last is what `OnlyEnableBringsItBack` needs: a robot marked by an
  e-stop is down, so a step that leaves it enabled is one that brought it up.
* `ModeSafe` adds to `NoAutoRoutineInTeleop` that auto is only played, or resumed to, in a match
  that has one (`AutoIsPlayed`). A relay's hand-off brings the next robot up for teleop whatever the
  phase, which is right because a relay has no auto and so is never in it.
* `SlotSafe` adds to `SlotsAreDistinct` what makes the slots distinct at a start, everyone who
  joined is on a side and a side is no larger than `AllianceSize` (`SidesFit`); and that while a
  match is on, who stands in an alliance's relay order, and is still in the match, is of that
  alliance (`OrderFits`). Slots and legs count the stations before one, so these lemmas are about
  cardinalities.
* `RelaySafe` says of every enabled robot that its alliance has not finished and, if the FMS hands
  off, that it is the one whose leg it is. A hand-off takes one down and brings the next up in the
  same step; that the next is of the same alliance, and so not one whose clock has stopped, is where
  `OrderFits` is needed.
* `RelayGoesOn` says that an alliance on the clock has a leg to run: the order is frozen at the start,
  whose first leg is somebody's (the least of a finite set of stations), and a hand-off goes to the
  next leg or finishes the alliance. It speaks of a whole match, pauses included, and of legs rather
  than of robots that run.

`OnlyEnableBringsItBack` and `PolicyAlwaysGates` follow from a lemma that says of every action which
robot it can bring up, and what it asked first. `StartsAreChecked` adds `Seen` (an open check has seen
all there is) and a lemma that every step that changes the match in setup closes the check.

The refinement goes through `PhaseMoves`, the nine things a step may do to phase and roster.
`PhaseStep` shows of every action that it does one of them, from the types alone; `MovesFollow` that
each is a step of `MatchPhases` or none. `SomebodyPlays` is inductive along the same nine.

### PendingChanges

Assumptions: `RobotAssumption` (the host's robots are robots, the marker for nobody is not, the saved
key is a key), `SlotsAssumption` (there is a station).

| Theorem | Says |
|---|---|
| `TypeCorrect` | `TypeOK` always |
| `ListMakesSense` | no robot has two stations; one change waits per robot, and each would do something |
| `StaysPut` | no apply moves a robot that stays |
| `LeavingHasAReason` | a robot leaves by staff, by its team, or to make room, and then its place is taken |
| `HoldsAreKept` | while a match or the admin holds changes only staff change the field |
| `NobodyIsLost` | who waited to join is on the field as asked, or waits on, and then no station is free |

`TypeOK` and `WaitingMakesSense` are inductive only together (`IInv`, with what is known of the match):
that each station holds one robot needs that one change waits per robot, and that a change would do
something, after an apply, needs to know what became of the field.

Everything rests on what `computeTarget()` comes to (`TargetFits`), for any list. It goes through
the list twice, so two invariants follow it: `Turned` says of the first *i* changes whom they put,
lined up and freed; `Tried` says of the first *k* in line, tried again, who got a station, that
nobody was moved for it, that nobody is in line while a station is free, and that those still in
line are as many as were more than the stations free. The last is a count, and `LeavingHasAReason`
needs it: idle robots are released *as many as wait*, so that a station one of them leaves is taken
by somebody only because the line is at least as long.

The steps then come down to a few shapes: a list is applied in part (`AppliedInv`), a change is added
(`AddOK`), entries are dropped (`OnlyInv`). `StepSource` says of each step whether it applies a list,
and where the list is from; the four action theorems ask of that list who could be on it.

### RadioCommit

Assumptions: `RosterAssumption` (the empty roster is a roster, and no roster is one of three
markers), `BoundAssumption` (the bounds are numbers). The bounds themselves are arbitrary.

| Theorem | Says |
|---|---|
| `CommitTypes` | `TypeOK` always |
| `NothingIsForgotten` | unless a push was missed, a radio that differs is owed a push or being sent it; bridges that differ are owed a pass |
| `JobsRun` | the queue never waits for a half that is not under way |

`ChangesAreOwed` is of the radio and of the bridges. Its first half is not inductive: a push of an
*older* configuration may be under way, and when the radio takes it, the radio differs again. `Owed`
adds that a push of something other than what is configured has another behind it, deferred or
queued, and that what was taken is what was sent. `IInv == TypeOK /\ Owed`. Its second half,
`BridgesAreOwed`, is inductive with `TypeOK`, as it names whatever is left to set the bridges up: a
commit or a pass to come, and after a restart the start's own look at them. `JobIsRunning` is
inductive with `TypeOK`: a pass that overlaps another leaves one behind when it ends.

### DriveSessions

Assumptions: `TeamAssumption` (every robot has a team), `NoneAssumption` (the marker for nobody is
none of the laptops, robots, teams and stations). Theorems `DriveTypes`, `BlocksAreDuplicates`,
`EngineKnowsDrivers`, `LiveDriversKeep`. The first three are one invariant, proved together: a handler
is a chain of parts that each take the sessions as the one before left them, so what is proved of a
part is that it takes a record that *fits* (it is typed, and its blocks are duplicates) to one that
fits, and `BecomingKeeps` takes the last one back to the state and to what the engine is shown.
`LiveDriversKeep` follows by asking of each part whose session it can end (`Spared`), and whom it can
give a second robot (`Single`): taking a robot ends the laptop's one other session first, and a new
configuration hands a laptop no two, as it hands out only robots that are alone of their team.
`RestartGracefully` is excepted, for what it finds in the kernel (section 5).

### DriveSync

Assumptions: `KindAssumption` (rules and routes are apart), `SituationAssumption` (the sessions never
ask for two robots' rules on one station, or two routes of one laptop: what `DriveSessions` gives),
`BoundAssumption`. Theorems `PassTypesHold`, `PassesEndInLine`, `NothingStrays`, `TakesAwayFirst`,
and `PassKeepsRules`, the refinement: the initial states map to initial states of `DriveRules`, and
every step is one of its steps or a stutter.

`RestsInLine` speaks of the end of a pass that ran through six loops. The invariant follows it
through: `Work` says what each loop may still have to do, `Books` that what the kernel holds is on
record, `Removals` that from the third loop on nothing the goal leaves out is there, `Additions` that
what the later loops have passed is there, unless an effect failed, and `Asked` that a goal which is
no longer what is wanted has another pass behind it. `TakesAwayFirst` is the middle of the same
argument: an addition runs only in a loop after the removals.

### StopHold

Assumption: `BoundAssumption`. Theorems `StopTypes`, `CutsFollow`, `OnlyTheStill`,
`StopsOutliveRestarts`, `LatchHoldsMatches` (no match counts down or runs under the field E-Stop)
and `StopsFollowTheMatch` (the match here is that of `MatchPhases`, over restarts). `IInv == TypeOK
/\ Hearing /\ Saved /\ Cutting`. `Hearing`: a wait is of a stop that is watched, and a watched
station last heard Enabled that is not quiet still waits, so a clear that asks the waits asks
enough; `OnlyTheStill` asks of every other step, too, what lifts an e-stop, and finds only a match
being created or cleared, and a restart after a save that failed or with a file it cannot read.
`Saved`: the file has the stops, unless the last save failed or the file was not read at the start.
`Cutting`: the last command that waits for a station leaves it as was asked last, and with none
waiting the kernel is so already, with the trunk's four stages and the two excepted cases told
apart. The last two theorems add `MatchSafe`: `NoMatchUnderLatch`, and that nobody is in a match
there is not. Without the second, a station could leave an idle field, which is no step of
`MatchPhases`.

### StopDelivery

Assumptions: `PressAssumption` (finitely many presses), `BoundAssumption`. Theorems `DeliveryTypes`,
`PressesAreKept`. `KeptUntilShown` is not inductive, because a state on its way could still take the
press off the page: the invariant adds that no state on the wire shows such a press, and that what is
owed is not in force. `OnTheSocket`, its second half, is kept because a press is sent as it is made,
a new socket is sent the page's whole list, and a message leaves a working socket only by arriving.

### MatchQueue

Assumption: `QueueAssumption` (sheets name two sides of teams, a shape has up to three places a side,
wishes are for a side).

| Theorem | Says |
|---|---|
| `TypeCorrect` | `TypeOK` always, and the queue lists each of its entries once |
| `LineIsFair` | a match formed from the line fits, is full if the line lets it, leaves nobody else out, and nobody is overtaken but by a wish |
| `PlayingAlwaysUnderWay` | one entry plays at a time, and only while its match is on, save after an aborted countdown; at most one is on deck |
| `PlayedForGood` | what was played is not brought back, by a setup that waited either |

`Typed` says that the queue and the statuses agree: who has a status is listed, and once.
Rearranging, putting an entry in front and dropping some are each shown to keep that (`Arranged`,
`PutIn`, `OnlyHolds`). `LineIsFair` follows `formFromLine()` through its two passes: `AfterWishes`
says of the first *i* teams that whoever plays does so as it wished, and that the match fits;
`AfterForming` that after the first *i* of the second pass all of them play or there is no room. For
the phases, every press and setup *spares* what plays, and leaves a match under way alone, so only
the start and the end of a match begin and end an entry. A spare step puts no second entry on deck
either: only `markOnDeck()` puts one there, and sends back the one that was.

### Induction along a list

The theorems of the library on induction take an operator as a parameter, and no installed prover can
instantiate one. `PendingChanges` and `MatchQueue` compute along lists of any length, so their proofs
have an induction of their own that is first-order: a *set* of numbers that holds 0 and, with each,
the next, holds all up to the list's length (`Induction`, from the least number outside it, which
`WellFoundedInduction` gives). `Iteration` shows with it that a recursive function of the models has a
value at every entry, so that it equals what it unfolds to; `OnlyUnfolds`, `ConsideredTurns`,
`RetriedRuns`, `WishedUnfolds` and `FormedUnfolds` state that for each, and the rest is one more
induction per fact. That is why those modules use recursive functions and no `RECURSIVE` operators.

### What the proofs found

* The cases of `AddChange` overlapped: TLC takes the first that holds, but the definition left it
  open. They are disjoint now, as the tests of `addChange()` are by their order.
* `PendingChanges` and `StopHold` each had a smaller match of their own. Proving that the engine
  implements one match for all of them showed what these had left out: a countdown may be aborted
  and may be ended, and counts as a match that is on. Both are instances of `MatchPhases` now, and
  every property still holds.

### Only model-checked

Liveness: `NothingLingers`, `StartedMatchEnds`, `RadioSettles`, `BridgesSettle`, `ComesInLine`,
`WaitsEnd`, `PressesLand`. Liveness under fairness is out of the prover's reach, as it lacks `ENABLED`.
Every invariant and action property of the passing runs is the statement of a theorem, and several of
them are the safety half of one of these: a match ends because its clock runs (`ClockRuns`) and a
relay because it has a leg to go on with (`RelayGoesOn`), the radio and the bridges settle because
what differs is owed (`ChangesAreOwed`), a press lands because a working socket carries it
(`OnTheSocket`). What is left to TLC is that the timers and awaits these name do come to an end.

---------------------------------------------------------------------------------------------

## 5. Where the code and its documents disagree, and observations

| Run | Property | What happens |
|---|---|---|
| `estop_return` | `NothingElseBringsItBack` | A robot out of an e-stop that is then disabled from the console runs again at the next phase change, with no Enable. |
| `freed_robot` | `NobodyFreedToEnabled` | Creating a match, or clearing one, lifts an e-stop whose Driver Station still commands Enabled, which staff could not clear. |

`PROJECT.json` quotes the documents. Each run keeps to the smallest instance that shows its case;
`estop_return` confines TLC with `LiftPresses` to presses that matter to it.

Further observations, made while modelling and not given a run. Where a property would be too strong
for one of them, it says so, with a history variable for the case.

Match engine:

* The comment at `matchEngine.ts:92-93` says of the auto-clear that "E-stop endings are exempt - those
  require a human to clear". They are not: `schedulePostMatchAutoClear` (`:2300`) is armed for every
  match that ends, by `fieldEStop` too (`:1464`), and its timer asks nothing of how the match ended.
  `docs/match-system.md:98-100` says what the code does ("A match the field E-Stop ended auto-clears
  too"). `NothingLingers` follows the code and that document, and so passes against the comment, with
  matches ended by the field E-Stop among those it is checked on.
* An interval whose handle was overwritten (a start within the previous match's counting window,
  `matchEngine.ts:1323`, or picking the winner twice, `:659`) cannot be stopped and drains a paused
  match (`leaked`); `docs/match-system.md:28` says a pause freezes the clock. An auto pause that waits
  for the host's winner can be drained by it too, and goes to teleop with no winner.
* A staff disable is lifted by the next phase change, resume or hand-off (`enableStation`,
  `matchEngine.ts:834`); `docs/match-system.md:292` says only field staff lift it. With an e-stop in
  its past this is what `estop_return` shows.
* `slotForStation` (`matchEngine.ts:450-457`): after an abort and a change of sides, the slots of
  the aborted start are still in `portToSlot` until the next start. `getState` (about
  `matchEngine.ts:2093`) may show the configuration of an aborted start.
* Leaving during the countdown does not close the ready check, although `docs/match-system.md`
  (about line 72) says a departure does.

Radio:

* The check that robots are not enabled is made when a push is queued (`radioManager.ts:1099`): one
  that waited behind another reconfigures the radio although robots have been enabled since. A push
  that fails in one half leaves the other running under the next push (`radioManager.ts:1142`,
  `overlapped`).
* `checkRadioConfigSync` (`radioManager.ts:397`) and `recoverLostCommit` (`:1189`) compare robots,
  not keys. A change of key alone whose push failed, or which was deferred when the server
  restarted gracefully, is not repaired. Hence `RadioSettles` speaks of `who` only, and
  `ChangesAreOwed` of both.
* A failed network pass is not retried by itself. A pass cut off by a graceful restart after it
  added its address and before it added its forwarding rules is trusted by
  `restoreStationsFromBridges`. Hence `BridgesSettle` excepts "failed" and "torn".
* A crash between the staged file (`radioManager.ts:1012`) and the active file (`:1020`) loses the
  applied changes (`CrashInApply`).
* The scheduled clear runs while a match is set up despite the hold, and one that keeps the host's
  robots keeps a kept robot's place in line too. "Apply now" is refused during a match by the page
  only, not by the server.
* Cancelling one of two waiting enables can make a robot in line placeable. It then waits for
  staff, and others behind it, where the documents say a robot in line holds up nothing else.

Drive sessions:

* A removal whose check (`iptables -C`) fails passes for done, and its rule stays
  (`node-ip/linux.ts:256`); so does a rule that a graceful restart cannot read or parse
  (`index.ts:1628-1657`, only warned about), which no pass takes away unless it is asked for again
  meanwhile. Both are `misread`; in `DriveSessions` such a rule restores no session.
* An addition awaited through a whole rebuild of the trunk is recorded
  although its rule was flushed, or comes in after the record was emptied (`overtaken`).
  `installedBlocks` does not count copies, as `installedDnat` does.
* A graceful restart after the stations were rearranged can swap two laptops of a team, as rules are
  read by station and team, and `restore` can give one laptop two robots.
* What a comment says of `drive(null)` (the laptop is not given a robot again by its packets) does
  not hold for a team with one robot on the field.

Stops:

* A stop cut whose command fails is only logged (`botched`), and one lifted in the middle of a
  rebuild may stay (`late`). A save of the stops that fails is not tried again before the next
  change, and a file that cannot be read at a start is said out loud but lifts its stops
  (`stopStore.ts:60-72`); both are `lost`. The time between a crash's flush of the kernel and the
  start's cuts is not modelled.
* A press on a half-dead socket is taken off the page in silence if a stale state shows the stop
  that has since been cleared (hence `plain`). A press shown as queued, and NOT sent, may already
  have reached the field.

Match queue:

* A countdown that is aborted leaves its entry "playing" (`matchQueue.ts:256-271`): it cannot be
  removed, skipped, put back or set up again, and the next match to end marks the first playing entry,
  so that another stays "playing" until a restart (`aborted`). Practice clips pause and the idle line
  does not close meanwhile.
* The match that starts is taken for the entry on deck, whichever was set up. The Wi-Fi half of a
  setup puts its entry on deck also where the match half is refused because another match's robots
  have joined; that match's start then marks the wrong entry.
* `setupNextMatch` joins the teams it read before it waited for the radio: a swap during the wait
  joins the team that was swapped out. It creates the match also if the entry was removed meanwhile.
* A team that was skipped with its match, and joined the line again, gets into it a second time by a
  swap (`replaceTeam` does not ask), and can then be formed onto both alliances; hence the premise of
  `FormedFairly`. A team can also be in the line and in an upcoming match.
* Numbers of entries are used again after the last was removed.

---------------------------------------------------------------------------------------------

## 6. What is not modelled

`PROJECT.json` lists every component with its reason. In short:

* *Packets and processes*: the FMS server's sessions and cadence, mDNS, raw sockets, recording and
  timelapse, firmware, software update. Their control state is small, and what can go wrong is in
  formats, file systems and other programs. What the modelled parts hear of Driver Stations is an
  input that may say anything at any time.
* *Views and deliveries*: pages, monitors, station checks, audio, nudges, Slack, history. They change
  nothing a match depends on.
* *Pure computation*: scoring and shifts, schedules, rankings. The engine reads of them who leads.
* *Permissions*: which press is allowed to whom. Every press the server can take is an action.
* *Parts of modelled components*: the no-show clock, scans, the URL wizard, back-off times, the
  internet flag, the watch for robots latched by their own Driver Station, statistics.

Composition is by abstract specifications and shared actions, and not by one product of all modules,
whose state space would be out of reach: `MatchEngine` implements `MatchPhases`, which `PendingChanges`,
`StopHold` and `MatchQueue` instantiate; `DriveSync` implements `DriveRules`, whose steps the kernel of
`DriveSessions` takes; `PendingChanges` and `RadioCommit` meet in `active`, by name only. What would
come next: an abstract field between those two (who is on it changes by an apply, and reaches the radio
in order); the robots' e-stops of `StopHold` and those of `MatchEngine` as one latch; scoring across
pauses; and the Driver Station's session from roster to disconnect.
