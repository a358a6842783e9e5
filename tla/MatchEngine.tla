----------------------------- MODULE MatchEngine -----------------------------
(***************************************************************************)
(* The match engine (src/src/matchEngine.ts): one match at a time on the   *)
(* six field stations, driven by the match page, the team pages, field     *)
(* staff, Driver Station status reports and the engine's own timers.  The  *)
(* engine is single-threaded, so each public method and each timer         *)
(* callback is one atomic action; what makes it hard is the order in which *)
(* they arrive.                                                            *)
(*                                                                         *)
(* Time is abstract.  The match clock counts whole ticks (the durations    *)
(* are CONSTANTS).  A window that the engine reads elsewhere is a set of   *)
(* things still "recent" (attached, startHolds), emptied by an action that *)
(* lets the time pass; a window that only makes the engine ignore one      *)
(* input -- the grace after an FMS enable, the double-click window, a lost *)
(* robot link -- is a step the model simply does not take.                 *)
(***************************************************************************)
EXTENDS Integers, FiniteSets

CONSTANTS
  Station,         \* StationNameList: a finite set of positive numbers, in slot order
  Role,            \* StaffRoleList
  Config,          \* the match configurations the host may pick
  StartHold,       \* what may delay a start: within {"cooldown", "announcement"}
  DsStation,       \* the stations a Driver Station may report from
  PolicyStation,   \* the stations the controller policy may block and unblock
  AllianceSize,    \* stations an alliance holds (3 in the code)
  CountdownTicks, AutoTicks, PauseTicks, TeleopTicks, EndgameTicks, CountTicks,
  MaxElapsed       \* the longest gap between two ticks, in ticks

Alliance == {"red", "blue"}
Phase == {"idle", "created", "countdown", "auto", "autoPause", "teleop",
          "endgame", "paused", "postMatch"}
RobotPhase == {"auto", "teleop", "endgame"}

\* A MatchConfig, reduced to what the control flow reads.  "none" stands for null.
ConfigShape ==
  [format : {"none", "match", "challenge"}, skipAuto : BOOLEAN,
   autoWinner : {"scores", "pause", "red", "blue"},
   timing : {"none", "window", "stopwatch", "relay"},
   handoff : {"none", "manual", "staff", "ds"}]
OfficialConfig == [format |-> "match", skipAuto |-> FALSE, autoWinner |-> "scores",
                   timing |-> "none", handoff |-> "none"]
NoConfig == [OfficialConfig EXCEPT !.format = "none"]

\* updateMatchConfig only ever stores OFFICIAL_CONFIG with the two user-settable
\* fields, or what challengeConfig() builds.
WellFormedConfig(c) ==
  /\ c \in ConfigShape
  /\ c.format # "none"
  /\ c.format = "match" => c.timing = "none" /\ c.handoff = "none"
  /\ c.format = "challenge" =>
       c.skipAuto /\ c.autoWinner = "scores" /\ c.timing # "none" /\ c.handoff # "none"

ASSUME StationAssumption ==
  /\ Station \subseteq Nat \ {0}
  /\ IsFiniteSet(Station)
  /\ DsStation \subseteq Station
  /\ PolicyStation \subseteq Station
ASSUME ConfigAssumption == \A c \in Config : WellFormedConfig(c)
ASSUME TimingAssumption ==
  /\ AllianceSize \in Nat \ {0}
  /\ CountdownTicks \in Nat \ {0}
  /\ AutoTicks \in Nat \ {0}
  /\ PauseTicks \in Nat \ {0}
  /\ TeleopTicks \in Nat \ {0}
  /\ EndgameTicks \in Nat
  /\ CountTicks \in Nat \ {0}
  /\ MaxElapsed \in Nat \ {0}

(***************************************************************************)
(* An operator named Def_Slip is Def with a plausible programming slip.  No *)
(* specification uses one; PROJECT.json says which property tells which     *)
(* slip apart from the code.                                                *)
(***************************************************************************)
VARIABLES
  phase,          \* MatchPhase
  prePausePhase,  \* the phase a pause interrupted, or "none"
  remaining,      \* remainingTime; the code lets it go negative, which acts like 0
  tickTimer,      \* this.tickTimer holds a running interval
  leaked,         \* an interval the engine no longer holds a handle to still fires
  resuming,       \* resumeTimer is pending
  autoClear,      \* autoClearTimer is pending
  config,         \* the running match's config, or NoConfig
  pendingConfig,  \* what the next start will use
  autoWinner,     \* autoWinnerAlliance, or "none"
  endReason,      \* how the match ended, or "none"
  joined,         \* the stations in the match
  alliance,       \* the alliance each joined, or "none"
  portToSlot,     \* the slot startMatch assigned, or NoSlot
  readyRequested, \* the host opened the ready check
  ready,          \* stations that are ready
  forcedReady,    \* those readied by staff with no Driver Station attached
  staffReady,     \* staff roles that are ready
  staffIgnored,   \* staff roles the host marked not required
  startHolds,     \* what still delays a start
  enabled,        \* stations the field commands enabled
  mode,           \* the mode each station is commanded in
  disabledBy,     \* who took the station down, or "none"
  eStop, aStop,   \* stations with their own E-Stop / A-Stop latched
  fieldEStop,     \* the field E-Stop is latched
  relayOrder,     \* per alliance, the stations that started a relay
  legs,           \* per alliance, relay splits recorded
  finished,       \* alliances whose clock has stopped (finishedAt)
  attached,       \* stations whose DS sent a status in the last 5 s
  blocked         \* stations enableBlocked() names a reason for

clockVars  == <<phase, prePausePhase, remaining, tickTimer, leaked, resuming, autoClear>>
matchVars  == <<config, pendingConfig, autoWinner, endReason>>
rosterVars == <<joined, alliance, portToSlot>>
checkVars  == <<readyRequested, ready, forcedReady, staffReady>>
robotVars  == <<enabled, mode, disabledBy>>
stopVars   == <<eStop, aStop, fieldEStop>>
relayVars  == <<relayOrder, legs, finished>>
fieldVars  == <<staffIgnored, startHolds, attached, blocked>>
vars == <<clockVars, matchVars, rosterVars, checkVars, robotVars, stopVars,
          relayVars, fieldVars>>

-----------------------------------------------------------------------------
\* What the handlers ask of the state.

NoSlot == <<"none", 0>>
Running == phase \in RobotPhase
Ticking == tickTimer \/ leaked
MatchActive == phase \notin {"idle", "created", "postMatch"}
IsEStopped(s) == fieldEStop \/ s \in eStop
IsChallenge(c) == c.format = "challenge"
CountUp(c) == c.timing \in {"stopwatch", "relay"}
FmsHandoff(c) == c.timing = "relay" /\ c.handoff # "manual"
AwaitingWinner == config.autoWinner = "pause" /\ autoWinner = "none"
Place(s, S) == Cardinality({t \in S : t <= s})
AllianceStations(a) == {s \in joined : alliance[s] = a}
HasRoom(a) == Cardinality(AllianceStations(a)) < AllianceSize
CanAStop_AnyPhase == phase \notin {"idle", "postMatch"}
CanAStop ==
  \/ phase \in {"created", "countdown", "auto"}
  \/ phase = "paused" /\ prePausePhase = "auto"
StaffWaitedFor == (Role \ staffIgnored) \ staffReady

\* The slot a station's place in its alliance gives it.
JoinedSlot(s) == <<alliance[s], Place(s, AllianceStations(alliance[s]))>>

\* The station whose leg it is: a set of at most one.
Leg(a, k) == {s \in relayOrder[a] : Place(s, relayOrder[a]) = k + 1}
Runner(a) == IF a \in finished THEN {} ELSE Leg(a, legs[a])

\* checkCanFinish(): an alliance's clock can be stopped.
CanFinish(a) ==
  /\ IsChallenge(config)
  /\ CountUp(config)
  /\ Running
  /\ AllianceStations(a) # {}
  /\ a \notin finished

CanUndisable_OutOfTurn(s, byAdmin) ==
  /\ s \notin blocked /\ Running /\ s \in joined /\ ~IsEStopped(s) /\ s \notin aStop
  /\ disabledBy[s] = "admin" => byAdmin
  /\ alliance[s] \notin finished
  /\ s \notin enabled
CanUndisable_AfterFinish(s, byAdmin) ==
  /\ s \notin blocked /\ Running /\ s \in joined /\ ~IsEStopped(s) /\ s \notin aStop
  /\ disabledBy[s] = "admin" => byAdmin
  /\ FmsHandoff(config) => s \in Runner(alliance[s])
  /\ s \notin enabled
CanUndisable_ThroughAStop(s, byAdmin) ==
  /\ s \notin blocked /\ Running /\ s \in joined /\ ~IsEStopped(s)
  /\ disabledBy[s] = "admin" => byAdmin
  /\ alliance[s] \notin finished
  /\ FmsHandoff(config) => s \in Runner(alliance[s])
  /\ s \notin enabled
\* Every condition undisable() checks before it enables a station.
CanUndisable(s, byAdmin) ==
  /\ s \notin blocked
  /\ Running
  /\ s \in joined
  /\ ~IsEStopped(s)
  /\ s \notin aStop
  /\ disabledBy[s] = "admin" => byAdmin
  /\ alliance[s] \notin finished
  /\ FmsHandoff(config) => s \in Runner(alliance[s])
  /\ s \notin enabled

CanEnable_ForgetsEStop(s, a) ==
  s \notin blocked /\ s \in joined /\ ~IsEStopped(s) /\ s \notin a
CanEnable_NoPolicy(s, a) ==
  s \in joined /\ ~IsEStopped(s) /\ s \notin a /\ disabledBy[s] # "estop"
\* enableStation() goes through, with a the A-Stops that hold.
CanEnable(s, a) ==
  /\ s \notin blocked
  /\ s \in joined
  /\ ~IsEStopped(s)
  /\ s \notin a
  /\ disabledBy[s] # "estop"

Set(f, S, v) == [x \in DOMAIN f |-> IF x \in S THEN v ELSE f[x]]
Drained(e) == IF e < remaining THEN remaining - e ELSE 0

-----------------------------------------------------------------------------
\* Pieces of handlers; each fixes the primed variables its comment names.

\* setInterval over whatever tickTimer held: tickTimer, leaked.
StartTick == tickTimer' = TRUE /\ leaked' = (leaked \/ tickTimer)
StopTick  == tickTimer' = FALSE /\ leaked' = leaked

\* ready, forcedReady (which is only read for a ready station).
ReadyBecomes(R) == ready' = R /\ forcedReady' = forcedReady \cap R

\* checkVars.
CloseReadyCheck == readyRequested' = FALSE /\ ReadyBecomes({}) /\ staffReady' = {}

\* The stations of S leave the roster: joined, alliance, aStop.
Unjoin(S) ==
  /\ joined' = joined \ S
  /\ alliance' = Set(alliance, S, "none")
  /\ aStop' = aStop \ S

\* The match is over, every robot disabled: phase, remaining, autoClear, endReason, enabled.
EndMatch(reason, left) ==
  /\ phase' = "postMatch"
  /\ remaining' = left
  /\ autoClear' = TRUE
  /\ endReason' = reason
  /\ enabled' = {}

CutShort_KeepsResume(reason) == EndMatch(reason, 0) /\ StopTick /\ UNCHANGED resuming
\* A match cut short: EndMatch with the clock and any resume stopped.
CutShort(reason) == EndMatch(reason, 0) /\ StopTick /\ resuming' = FALSE

\* liftingEStops() on stations coming out of a stop: a joined one mid-match
\* comes out disabled, for Enable alone to lift: enabled, disabledBy.
CameOutOfEStop(lifted) ==
  LET down == {s \in lifted \cap joined : MatchActive}
  IN  /\ enabled' = enabled \ down
      /\ disabledBy' = Set(disabledBy, down, "estop")

\* recordFinish() for alliance a, from robots `on` and disables `by`: finished,
\* robotVars and, when no alliance is left on the clock, the end of the run.
RecordFinish(a, on, by, who) ==
  LET done == finished \cup {a}
  IN  /\ finished' = done
      /\ disabledBy' = Set(by, AllianceStations(a), who)
      /\ IF \A s \in joined : alliance[s] \in done
         THEN EndMatch("normal", CountTicks)
         ELSE /\ enabled' = on \ AllianceStations(a)
              /\ UNCHANGED <<phase, remaining, autoClear, endReason>>
      /\ UNCHANGED <<prePausePhase, tickTimer, leaked, resuming, mode>>

\* relayAdvance(), from robots `on` and disables `by`: clockVars, endReason,
\* legs, finished, robotVars.
Advance(a, on, by) ==
  LET down == [x \in Station |-> IF x \in Runner(a) THEN "relay" ELSE by[x]]
      left == on \ Runner(a)
      next == Leg(a, legs[a] + 1)
      goes == {s \in next : CanEnable(s, aStop)}
  IN  /\ legs' = [legs EXCEPT ![a] = @ + 1]
      /\ IF next = {}
         THEN RecordFinish(a, left, down, "relay")
         ELSE /\ enabled' = (left \ (next \cap blocked)) \cup goes
              /\ mode' = Set(mode, goes, "teleOp")
              /\ disabledBy' = Set(down, goes, "none")
              /\ UNCHANGED <<clockVars, endReason, finished>>

\* relayHandoffFromDisable() after s went down, leaving `on` and `by`; the
\* disable itself is made here: clockVars, endReason, legs, finished, robotVars.
DisableMaybeHandOff(s, who) ==
  LET on == enabled \ {s}
      by == [disabledBy EXCEPT ![s] = who]
  IN  IF /\ FmsHandoff(config) /\ config.handoff = "ds"
         /\ alliance[s] \in Alliance /\ s \in Runner(alliance[s])
         /\ CanFinish(alliance[s])
      THEN Advance(alliance[s], on, by)
      ELSE /\ enabled' = on
           /\ disabledBy' = by
           /\ UNCHANGED <<clockVars, endReason, legs, finished, mode>>

\* enableParticipating(): robotVars, aStop.
EnableParticipating(m) ==
  LET held == IF m = "teleOp" THEN {} ELSE aStop
      play == {s \in joined : alliance[s] \notin finished}
      wait == {s \in play : FmsHandoff(config) /\ s \notin Runner(alliance[s])}
      goes == {s \in play \ wait : CanEnable(s, held)}
  IN  /\ aStop' = held
      /\ enabled' = (enabled \ (wait \cup (play \cap blocked))) \cup goes
      /\ mode' = Set(mode, goes, m)
      /\ disabledBy' = Set(Set(disabledBy, wait, "relay"), goes, "none")

-----------------------------------------------------------------------------
Init ==
  /\ phase = "idle" /\ prePausePhase = "none" /\ remaining = 0
  /\ tickTimer = FALSE /\ leaked = FALSE /\ resuming = FALSE /\ autoClear = FALSE
  /\ config = NoConfig /\ pendingConfig = OfficialConfig
  /\ autoWinner = "none" /\ endReason = "none"
  /\ joined = {} /\ alliance = [s \in Station |-> "none"]
  /\ portToSlot = [s \in Station |-> NoSlot]
  /\ readyRequested = FALSE /\ ready = {} /\ forcedReady = {} /\ staffReady = {}
  /\ staffIgnored = {} /\ startHolds = {}
  /\ enabled = {} /\ mode = [s \in Station |-> "teleOp"]
  /\ disabledBy = [s \in Station |-> "none"]
  /\ eStop = {} /\ aStop = {} /\ fieldEStop = FALSE
  /\ relayOrder = [a \in Alliance |-> {}] /\ legs = [a \in Alliance |-> 0]
  /\ finished = {} /\ attached = {} /\ blocked = {}

-----------------------------------------------------------------------------
\* Setting a match up.

\* createMatch().  The tick of a postMatch count is left running.
CreateMatch ==
  /\ phase \in {"idle", "postMatch"}
  /\ phase' = "created"
  /\ autoClear' = FALSE
  /\ pendingConfig' = IF IsChallenge(pendingConfig) THEN pendingConfig ELSE OfficialConfig
  /\ config' = NoConfig /\ autoWinner' = "none" /\ endReason' = "none"
  /\ joined' = {} /\ alliance' = Set(alliance, Station, "none")
  /\ portToSlot' = Set(portToSlot, Station, NoSlot)
  /\ CloseReadyCheck
  /\ enabled' = {} /\ disabledBy' = Set(disabledBy, Station, "none")
  /\ eStop' = {} /\ aStop' = {}
  /\ legs' = Set(legs, Alliance, 0) /\ finished' = {}
  /\ UNCHANGED <<prePausePhase, remaining, tickTimer, leaked, resuming, mode,
                 fieldEStop, relayOrder, fieldVars>>

\* cancelMatch().  config and portToSlot keep what an aborted countdown left.
CancelMatch ==
  /\ phase = "created"
  /\ phase' = "idle"
  /\ Unjoin(Station)
  /\ CloseReadyCheck
  /\ UNCHANGED <<prePausePhase, remaining, tickTimer, leaked, resuming, autoClear,
                 matchVars, portToSlot, robotVars, eStop, fieldEStop, relayVars, fieldVars>>

CancelEmptySetup_NotWhenAsked == joined = {} /\ ~readyRequested /\ CancelMatch
\* clearEmptySetup(), and the abandoned-setup timer.
CancelEmptySetup == joined = {} /\ CancelMatch

Join_InCountdown(s, a) ==
  /\ phase \in {"created", "countdown"}
  /\ HasRoom(a)
  /\ s \notin joined \/ alliance[s] # a
  /\ joined' = joined \cup {s}
  /\ alliance' = [alliance EXCEPT ![s] = a]
  /\ CloseReadyCheck
  /\ UNCHANGED <<clockVars, matchVars, portToSlot, robotVars, stopVars, relayVars, fieldVars>>

\* joinStationAlliance(): joins, or changes the alliance of a joined station.
Join(s, a) ==
  /\ phase = "created"
  /\ HasRoom(a)
  /\ s \notin joined \/ alliance[s] # a
  /\ joined' = joined \cup {s}
  /\ alliance' = [alliance EXCEPT ![s] = a]
  /\ CloseReadyCheck
  /\ UNCHANGED <<clockVars, matchVars, portToSlot, robotVars, stopVars, relayVars, fieldVars>>

\* swapStationAlliance().
SwapStationAlliance(s) ==
  /\ s \in joined
  /\ \E a \in Alliance \ {alliance[s]} : Join(s, a)

Evict_MidMatch(S) ==
  /\ S # {} /\ S \subseteq joined
  /\ Unjoin(S)
  /\ CloseReadyCheck
  /\ UNCHANGED <<clockVars, matchVars, portToSlot, robotVars, eStop, fieldEStop,
                 relayVars, fieldVars>>

\* reconcileJoinedTeams(): the robots of S are no longer coming.
Evict(S) ==
  /\ phase = "created"
  /\ S # {} /\ S \subseteq joined
  /\ Unjoin(S)
  /\ CloseReadyCheck
  /\ UNCHANGED <<clockVars, matchVars, portToSlot, robotVars, eStop, fieldEStop,
                 relayVars, fieldVars>>

\* kickStation(): what the host does to one station is what reconciling does.
KickStation(s) == Evict({s})

\* leaveStation(), at any time.
LeaveStation(s) ==
  /\ s \in joined
  /\ Unjoin({s})
  /\ portToSlot' = [portToSlot EXCEPT ![s] = NoSlot]
  /\ IF phase = "created"
     THEN CloseReadyCheck
     ELSE ReadyBecomes(ready \ {s}) /\ UNCHANGED <<readyRequested, staffReady>>
  /\ \/ /\ MatchActive /\ joined = {s}
        /\ CutShort("abandoned")
        /\ UNCHANGED prePausePhase
     \/ /\ Running /\ CountUp(config) /\ joined # {s}
        /\ \A t \in joined \ {s} : alliance[t] \in finished
        /\ EndMatch("normal", CountTicks)
        /\ UNCHANGED <<prePausePhase, tickTimer, leaked, resuming>>
     \/ /\ ~(MatchActive /\ joined = {s})
        /\ ~(Running /\ CountUp(config) /\ \A t \in joined \ {s} : alliance[t] \in finished)
        /\ enabled' = IF MatchActive THEN enabled \ {s} ELSE enabled
        /\ UNCHANGED <<clockVars, endReason>>
  /\ UNCHANGED <<config, pendingConfig, autoWinner, mode, disabledBy, eStop,
                 fieldEStop, relayVars, fieldVars>>

UpdateMatchConfig_KeepsCheck(c) ==
  /\ phase = "created"
  /\ pendingConfig' = c
  /\ UNCHANGED <<clockVars, config, autoWinner, endReason, rosterVars, checkVars,
                 robotVars, stopVars, relayVars, fieldVars>>

\* updateMatchConfig().
UpdateMatchConfig(c) ==
  /\ phase = "created"
  /\ pendingConfig' = c
  /\ CloseReadyCheck
  /\ UNCHANGED <<clockVars, config, autoWinner, endReason, rosterVars, robotVars,
                 stopVars, relayVars, fieldVars>>

-----------------------------------------------------------------------------
\* The ready check.

\* setReadyRequested(true): opens the check, or asks every team again.
RequestReady ==
  /\ phase = "created"
  /\ readyRequested' = TRUE
  /\ IF readyRequested THEN ReadyBecomes({}) ELSE UNCHANGED <<ready, forcedReady>>
  /\ UNCHANGED <<clockVars, matchVars, rosterVars, staffReady, robotVars, stopVars,
                 relayVars, fieldVars>>

\* setReadyRequested(false).
RetractReady ==
  /\ phase = "created" /\ readyRequested
  /\ CloseReadyCheck
  /\ UNCHANGED <<clockVars, matchVars, rosterVars, robotVars, stopVars, relayVars, fieldVars>>

\* setReady() in setup; forced is the staff override with no DS attached.
SetReady(s, r, forced) ==
  /\ phase = "created" /\ s \in joined
  /\ forced => r /\ s \notin attached
  /\ r => readyRequested /\ (forced \/ s \in attached)
  /\ ready' = IF r THEN ready \cup {s} ELSE ready \ {s}
  /\ forcedReady' = IF forced THEN forcedReady \cup {s} ELSE forcedReady \ {s}
  /\ UNCHANGED <<clockVars, matchVars, rosterVars, readyRequested, staffReady,
                 robotVars, stopVars, relayVars, fieldVars>>

\* unreadyStationsWithoutDs(), every two seconds.
UnreadySweep ==
  /\ phase = "created"
  /\ ready' = {s \in ready : s \in forcedReady \/ s \in attached}
  /\ ready' # ready
  /\ UNCHANGED <<clockVars, matchVars, rosterVars, readyRequested, forcedReady,
                 staffReady, robotVars, stopVars, relayVars, fieldVars>>

\* setStaffReady(); and, with r FALSE in any phase, the sweep of a closed staff page.
SetStaffReady(role, r) ==
  /\ r => phase = "created" /\ readyRequested /\ role \notin staffIgnored
  /\ staffReady' = IF r THEN staffReady \cup {role} ELSE staffReady \ {role}
  /\ UNCHANGED <<clockVars, matchVars, rosterVars, readyRequested, ready,
                 forcedReady, robotVars, stopVars, relayVars, fieldVars>>

\* setStaffIgnored().
SetStaffIgnored(role, ignored) ==
  /\ phase = "created"
  /\ staffIgnored' = IF ignored THEN staffIgnored \cup {role} ELSE staffIgnored \ {role}
  /\ staffReady' = IF ignored THEN staffReady \ {role} ELSE staffReady
  /\ UNCHANGED <<clockVars, matchVars, rosterVars, readyRequested, ready,
                 forcedReady, robotVars, stopVars, relayVars, startHolds, attached, blocked>>

\* The "Get Ready" call: holdStart() and clearTeamReadiness().
GetReady ==
  /\ "announcement" \in StartHold
  /\ startHolds' = startHolds \cup {"announcement"}
  /\ IF phase = "created" THEN ReadyBecomes({}) ELSE UNCHANGED <<ready, forcedReady>>
  /\ UNCHANGED <<clockVars, matchVars, rosterVars, readyRequested, staffReady,
                 robotVars, stopVars, relayVars, staffIgnored, attached, blocked>>

\* restartCooldown or startHoldUntil runs out.
StartHoldOver(h) ==
  /\ h \in startHolds
  /\ startHolds' = startHolds \ {h}
  /\ UNCHANGED <<clockVars, matchVars, rosterVars, checkVars, robotVars, stopVars,
                 relayVars, staffIgnored, attached, blocked>>

-----------------------------------------------------------------------------
\* Starting, pausing and ending a match.

\* Every check startMatch() makes.
CanStart ==
  /\ phase = "created"
  /\ startHolds = {}
  /\ ~fieldEStop
  /\ readyRequested
  /\ joined # {} /\ joined \subseteq ready
  /\ StaffWaitedFor = {}
  /\ pendingConfig.skipAuto /\ ~IsChallenge(pendingConfig)
       => pendingConfig.autoWinner \in Alliance \/ autoWinner # "none"

\* startMatch().
StartMatch ==
  /\ CanStart
  /\ phase' = "countdown" /\ remaining' = CountdownTicks
  /\ StartTick
  /\ config' = pendingConfig
  /\ autoWinner' = IF pendingConfig.autoWinner \notin Alliance THEN autoWinner
                   ELSE IF pendingConfig.skipAuto THEN pendingConfig.autoWinner
                   ELSE "none"
  /\ endReason' = "none"
  /\ portToSlot' = [s \in Station |-> IF s \in joined THEN JoinedSlot(s) ELSE NoSlot]
  /\ relayOrder' = [a \in Alliance |-> AllianceStations(a)]
  /\ legs' = Set(legs, Alliance, 0) /\ finished' = {}
  /\ enabled' = {}
  /\ mode' = [s \in Station |-> IF s \in joined /\ ~pendingConfig.skipAuto
                                THEN "auto" ELSE "teleOp"]
  /\ disabledBy' = Set(disabledBy, Station \ eStop, "none")
  /\ aStop' = aStop \cap joined
  /\ UNCHANGED <<prePausePhase, resuming, autoClear, pendingConfig, joined, alliance,
                 checkVars, eStop, fieldEStop, fieldVars>>

\* abortCountdown() from the match page (S = {}), or by a team that un-readies.
AbortCountdown(S) ==
  /\ phase = "countdown"
  /\ S \subseteq joined
  /\ phase' = "created" /\ remaining' = 0
  /\ StopTick
  /\ startHolds' = startHolds \cup ({"cooldown"} \cap StartHold)
  /\ ReadyBecomes(ready \ S)
  /\ enabled' = enabled \ joined
  /\ mode' = Set(mode, joined, "teleOp")
  /\ UNCHANGED <<prePausePhase, resuming, autoClear, matchVars, rosterVars,
                 readyRequested, staffReady, disabledBy, stopVars, relayVars,
                 staffIgnored, attached, blocked>>

\* stopMatch().
StopMatch ==
  /\ MatchActive
  /\ CutShort("stopped")
  /\ UNCHANGED <<prePausePhase, config, pendingConfig, autoWinner, rosterVars, checkVars,
                 mode, disabledBy, stopVars, relayVars, fieldVars>>

\* pauseMatch(): pauses, or takes back a resume that is counting down.
PauseMatch ==
  /\ \/ /\ phase = "paused" /\ resuming
        /\ resuming' = FALSE
        /\ UNCHANGED <<phase, prePausePhase, tickTimer, leaked, enabled>>
     \/ /\ Running
        /\ phase' = "paused" /\ prePausePhase' = phase
        /\ StopTick
        /\ enabled' = {}
        /\ UNCHANGED resuming
  /\ UNCHANGED <<remaining, autoClear, matchVars, rosterVars, checkVars, mode,
                 disabledBy, stopVars, relayVars, fieldVars>>

\* resumeMatch().
ResumeMatch ==
  /\ phase = "paused" /\ ~resuming
  /\ resuming' = TRUE
  /\ UNCHANGED <<phase, prePausePhase, remaining, tickTimer, leaked, autoClear, matchVars,
                 rosterVars, checkVars, robotVars, stopVars, relayVars, fieldVars>>

\* completeResume(), three seconds later.
CompleteResume ==
  /\ resuming
  /\ resuming' = FALSE
  /\ IF phase = "paused"
     THEN /\ phase' = prePausePhase /\ prePausePhase' = "none"
          /\ EnableParticipating(IF prePausePhase = "auto" THEN "auto" ELSE "teleOp")
          /\ StartTick
     ELSE UNCHANGED <<phase, prePausePhase, robotVars, aStop, tickTimer, leaked>>
  /\ UNCHANGED <<remaining, autoClear, matchVars, rosterVars, checkVars, eStop,
                 fieldEStop, relayVars, fieldVars>>

SetAutoWinner_LeavesClock(w) ==
  /\ autoWinner' = w
  /\ UNCHANGED <<clockVars, config, pendingConfig, endReason, rosterVars, checkVars,
                 robotVars, stopVars, relayVars, fieldVars>>

\* setAutoWinner(), in any phase.
SetAutoWinner(w) ==
  /\ autoWinner' = w
  /\ IF phase = "autoPause" /\ config.autoWinner = "pause"
     THEN StartTick ELSE UNCHANGED <<tickTimer, leaked>>
  /\ UNCHANGED <<phase, prePausePhase, remaining, resuming, autoClear, config,
                 pendingConfig, endReason, rosterVars, checkVars, robotVars, stopVars,
                 relayVars, fieldVars>>

\* clearMatch(), from the match page or the auto-clear timer.
ClearMatch ==
  /\ phase = "postMatch"
  /\ phase' = "idle" /\ remaining' = 0 /\ autoClear' = FALSE
  /\ StopTick
  /\ config' = NoConfig /\ autoWinner' = "none" /\ endReason' = "none"
  /\ joined' = {} /\ alliance' = Set(alliance, Station, "none")
  /\ portToSlot' = Set(portToSlot, Station, NoSlot)
  /\ CloseReadyCheck
  /\ eStop' = {} /\ aStop' = {}
  /\ UNCHANGED <<prePausePhase, resuming, pendingConfig, robotVars, fieldEStop,
                 relayVars, fieldVars>>

AutoClearFires == autoClear /\ ClearMatch

-----------------------------------------------------------------------------
\* Stops, disables and re-enables.

\* fieldEStop(): latches, and ends a running match.
FieldEStop ==
  /\ fieldEStop' = TRUE
  /\ IF MatchActive
     THEN CutShort("estop") /\ prePausePhase' = "none"
     ELSE /\ resuming' = FALSE /\ enabled' = {}
          /\ UNCHANGED <<phase, prePausePhase, remaining, tickTimer, leaked, autoClear, endReason>>
  /\ UNCHANGED <<config, pendingConfig, autoWinner, rosterVars, checkVars, mode,
                 disabledBy, eStop, aStop, relayVars, fieldVars>>

\* clearFieldEStop(), clearEStop(station) and clearEStop(): what is left latched.
ClearEStops(field, own) ==
  /\ field => fieldEStop
  /\ own \subseteq eStop
  /\ fieldEStop' = field /\ eStop' = own
  /\ CameOutOfEStop({s \in Station : IsEStopped(s) /\ ~(field \/ s \in own)})
  /\ UNCHANGED <<clockVars, matchVars, rosterVars, checkVars, mode, aStop, relayVars, fieldVars>>

ClearFieldEStop == fieldEStop /\ ClearEStops(FALSE, eStop)
ClearEStop(s) == s \in eStop /\ ClearEStops(fieldEStop, eStop \ {s})
ClearAllEStops == ClearEStops(FALSE, {})

\* stationEStop(), whoever pressed it.
StationEStop(s) ==
  /\ eStop' = eStop \cup {s}
  /\ enabled' = enabled \ {s}
  /\ UNCHANGED <<clockVars, matchVars, rosterVars, checkVars, mode, disabledBy, aStop,
                 fieldEStop, relayVars, fieldVars>>

\* stationAStop().
StationAStop(s) ==
  /\ CanAStop /\ s \in joined
  /\ aStop' = aStop \cup {s}
  /\ enabled' = enabled \ {s}
  /\ UNCHANGED <<clockVars, matchVars, rosterVars, checkVars, mode, disabledBy, eStop,
                 fieldEStop, relayVars, fieldVars>>

\* stationClearAStop().
StationClearAStop(s) ==
  /\ phase = "created" /\ s \in aStop
  /\ aStop' = aStop \ {s}
  /\ UNCHANGED <<clockVars, matchVars, rosterVars, checkVars, robotVars, eStop,
                 fieldEStop, relayVars, fieldVars>>

\* stationDisable(), in any phase.  The team's own is a hand-off in a ds relay.
StationDisable(s, source) ==
  /\ IF source = "self" /\ s \in enabled
     THEN DisableMaybeHandOff(s, source)
     ELSE /\ enabled' = enabled \ {s}
          /\ disabledBy' = [disabledBy EXCEPT ![s] = source]
          /\ UNCHANGED <<clockVars, endReason, legs, finished, mode>>
  /\ UNCHANGED <<config, pendingConfig, autoWinner, rosterVars, checkVars, stopVars,
                 relayOrder, fieldVars>>

EnableOne_KeepsMode(s) ==
  /\ enabled' = enabled \cup {s}
  /\ disabledBy' = [disabledBy EXCEPT ![s] = "none"]
  /\ UNCHANGED mode

\* What undisable() does to a station: robotVars.
EnableOne(s) ==
  /\ enabled' = enabled \cup {s}
  /\ mode' = [mode EXCEPT ![s] = IF phase = "auto" THEN "auto" ELSE "teleOp"]
  /\ disabledBy' = [disabledBy EXCEPT ![s] = "none"]

\* undisable() from a team page or the admin console.
Undisable(s, byAdmin) ==
  /\ CanUndisable(s, byAdmin)
  /\ EnableOne(s)
  /\ UNCHANGED <<clockVars, matchVars, rosterVars, checkVars, stopVars, relayVars, fieldVars>>

-----------------------------------------------------------------------------
\* A Driver Station's status report, dsReportedStatus(): it attaches the DS, and
\* then at most one thing it says is honoured.

\* A DS that had gone quiet on a "disabled" it reported is back.
DsBack(s) == s \notin attached /\ disabledBy[s] = "ds" /\ CanUndisable(s, FALSE)

\* Nothing in the report is honoured.
DsReportsStatus(s) ==
  /\ attached' = attached \cup {s}
  /\ IF DsBack(s) THEN EnableOne(s) ELSE UNCHANGED robotVars
  /\ UNCHANGED <<clockVars, matchVars, rosterVars, checkVars, stopVars, relayVars,
                 staffIgnored, startHolds, blocked>>

\* The e-stop or a-stop bit is new: the robot ends up down, in the mode and with
\* the disable a return of its DS left it.
DsReportsStop(s, bit) ==
  /\ \/ bit = "eStop" /\ s \notin eStop /\ eStop' = eStop \cup {s} /\ UNCHANGED aStop
     \/ /\ bit = "aStop" /\ s \notin aStop /\ s \in joined /\ CanAStop
        /\ aStop' = aStop \cup {s} /\ UNCHANGED eStop
  /\ attached' = attached \cup {s}
  /\ enabled' = enabled \ {s}
  /\ IF DsBack(s)
     THEN /\ mode' = [mode EXCEPT ![s] = IF phase = "auto" THEN "auto" ELSE "teleOp"]
          /\ disabledBy' = [disabledBy EXCEPT ![s] = "none"]
     ELSE UNCHANGED <<mode, disabledBy>>
  /\ UNCHANGED <<clockVars, matchVars, rosterVars, checkVars, fieldEStop, relayVars,
                 staffIgnored, startHolds, blocked>>

\* An enabled robot's driver disabled it: the hand-off in a ds relay.
DsReportsDisabled(s) ==
  /\ s \in enabled
  /\ attached' = attached \cup {s}
  /\ DisableMaybeHandOff(s, "ds")
  /\ UNCHANGED <<config, pendingConfig, autoWinner, rosterVars, checkVars, stopVars,
                 relayOrder, staffIgnored, startHolds, blocked>>

\* Five seconds pass without a report.
DsQuiet(s) ==
  /\ s \in attached
  /\ attached' = attached \ {s}
  /\ UNCHANGED <<clockVars, matchVars, rosterVars, checkVars, robotVars, stopVars,
                 relayVars, staffIgnored, startHolds, blocked>>

\* The controller policy's verdict on a robot changes, whatever the match is doing.
PolicyChanges(s) ==
  /\ blocked' = IF s \in blocked THEN blocked \ {s} ELSE blocked \cup {s}
  /\ UNCHANGED <<clockVars, matchVars, rosterVars, checkVars, robotVars, stopVars,
                 relayVars, staffIgnored, startHolds, attached>>

-----------------------------------------------------------------------------
\* Challenge runs.

\* challengeFinish(): a stopwatch run, or a relay the drivers hand off.
ChallengeFinish(a) ==
  /\ ~FmsHandoff(config) /\ CanFinish(a)
  /\ RecordFinish(a, enabled, disabledBy, "admin")
  /\ UNCHANGED <<config, pendingConfig, autoWinner, rosterVars, checkVars, stopVars,
                 relayOrder, legs, fieldVars>>

\* relayAdvance() from the line ref's button.
RelayAdvance(a) ==
  /\ FmsHandoff(config) /\ CanFinish(a)
  /\ Advance(a, enabled, disabledBy)
  /\ UNCHANGED <<config, pendingConfig, autoWinner, rosterVars, checkVars, stopVars,
                 relayOrder, fieldVars>>

-----------------------------------------------------------------------------
\* The clock: tick() and transition(), r being the time left after the tick.

\* No phase ends.
RunsOn(r) ==
  /\ \/ config = NoConfig
     \/ phase \in {"idle", "created", "paused"}
     \/ r > 0 /\ ~(phase = "teleop" /\ ~IsChallenge(config) /\ r <= EndgameTicks)
  /\ remaining' = r
  /\ UNCHANGED <<phase, tickTimer, leaked, autoClear, autoWinner, endReason, joined,
                 alliance, checkVars, robotVars, aStop>>

EndgameStarts(r) ==
  /\ phase = "teleop" /\ ~IsChallenge(config)
  /\ r > 0 /\ r <= EndgameTicks
  /\ phase' = "endgame" /\ remaining' = r
  /\ UNCHANGED <<tickTimer, leaked, autoClear, autoWinner, endReason, joined, alliance,
                 checkVars, robotVars, aStop>>

\* A period in which robots run begins.
PeriodBegins(p, left) ==
  /\ phase' = p /\ remaining' = left
  /\ EnableParticipating(IF p = "auto" THEN "auto" ELSE "teleOp")
  /\ UNCHANGED <<tickTimer, leaked, autoClear, endReason, joined, alliance, checkVars>>

CountdownOver ==
  /\ phase = "countdown"
  /\ IF config.skipAuto THEN PeriodBegins("teleop", TeleopTicks)
                        ELSE PeriodBegins("auto", AutoTicks)
  /\ UNCHANGED autoWinner

AutoOver_KeepsRobots ==
  /\ phase = "auto"
  /\ phase' = "autoPause" /\ remaining' = PauseTicks
  /\ UNCHANGED <<tickTimer, leaked, autoClear, autoWinner, endReason, joined, alliance,
                 checkVars, robotVars, aStop>>

\* A winner the host must still pick freezes the clock.
AutoOver ==
  /\ phase = "auto"
  /\ phase' = "autoPause" /\ remaining' = PauseTicks
  /\ enabled' = {}
  /\ IF AwaitingWinner
     THEN StopTick ELSE UNCHANGED <<tickTimer, leaked>>
  /\ UNCHANGED <<autoClear, autoWinner, endReason, joined, alliance, checkVars, mode,
                 disabledBy, aStop>>

\* computeAutoWinner(); the scores are external, a tie is broken by chance.
ComputeAutoWinner ==
  autoWinner' \in CASE config.autoWinner = "pause" -> {autoWinner}
                    [] config.autoWinner = "scores" -> Alliance
                    [] OTHER -> {config.autoWinner}

AutoPauseOver ==
  /\ phase = "autoPause"
  /\ ComputeAutoWinner
  /\ PeriodBegins("teleop", TeleopTicks)

TeleopOver ==
  /\ phase \in {"teleop", "endgame"}
  /\ EndMatch("normal", CountTicks)
  /\ UNCHANGED <<tickTimer, leaked, autoWinner, joined, alliance, checkVars, mode,
                 disabledBy, aStop>>

\* The balls in flight are counted: the stations are released.
CountOver ==
  /\ phase = "postMatch"
  /\ remaining' = 0
  /\ StopTick
  /\ joined' = {} /\ alliance' = Set(alliance, Station, "none")
  /\ ReadyBecomes({})
  /\ UNCHANGED <<phase, autoClear, autoWinner, endReason, readyRequested, staffReady,
                 robotVars, aStop>>

Tick ==
  /\ Ticking
  /\ \E e \in 1..MaxElapsed :
       LET r == Drained(e)
       IN  \/ RunsOn(r)
           \/ EndgameStarts(r)
           \/ /\ r = 0 /\ config # NoConfig
              /\ CountdownOver \/ AutoOver \/ AutoPauseOver \/ TeleopOver \/ CountOver
  /\ UNCHANGED <<prePausePhase, resuming, config, pendingConfig, portToSlot, eStop,
                 fieldEStop, relayVars, fieldVars>>

-----------------------------------------------------------------------------
Enables == \E s \in Station, byAdmin \in BOOLEAN : Undisable(s, byAdmin)

Setup ==
  \/ CreateMatch \/ CancelMatch \/ CancelEmptySetup
  \/ \E s \in Station, a \in Alliance : Join(s, a)
  \/ \E s \in Station : SwapStationAlliance(s) \/ KickStation(s) \/ LeaveStation(s)
  \/ \E S \in SUBSET Station : Evict(S)
  \/ \E c \in Config : UpdateMatchConfig(c)
  \/ RequestReady \/ RetractReady \/ UnreadySweep \/ GetReady
  \/ \E s \in Station, r, forced \in BOOLEAN : SetReady(s, r, forced)
  \/ \E role \in Role, b \in BOOLEAN : SetStaffReady(role, b) \/ SetStaffIgnored(role, b)
  \/ \E h \in StartHold : StartHoldOver(h)

Play ==
  \/ StartMatch \/ StopMatch \/ PauseMatch \/ ResumeMatch \/ CompleteResume
  \/ AbortCountdown({}) \/ \E s \in Station : AbortCountdown({s})
  \/ \E w \in Alliance : SetAutoWinner(w)
  \/ ClearMatch \/ AutoClearFires
  \/ \E a \in Alliance : ChallengeFinish(a) \/ RelayAdvance(a)
  \/ Tick

Stops ==
  \/ FieldEStop \/ ClearFieldEStop \/ ClearAllEStops
  \/ \E s \in Station :
       \/ ClearEStop(s) \/ StationEStop(s) \/ StationAStop(s) \/ StationClearAStop(s)
       \/ \E source \in {"admin", "self"} : StationDisable(s, source)

Reports ==
  \/ \E s \in DsStation :
       \/ DsReportsStatus(s) \/ DsReportsDisabled(s) \/ DsQuiet(s)
       \/ \E bit \in {"eStop", "aStop"} : DsReportsStop(s, bit)
  \/ \E s \in PolicyStation : PolicyChanges(s)

NextButEnable == Setup \/ Play \/ Stops \/ Reports
Next == NextButEnable \/ Enables

Spec == Init /\ [][Next]_vars

\* The timers fire: the tick interval, the resume and auto-clear timeouts, the
\* abandoned-setup timeout.  Nothing is asked of anybody who presses a button.
Fairness ==
  /\ WF_vars(Tick)
  /\ WF_vars(CompleteResume)
  /\ WF_vars(AutoClearFires)
  /\ WF_vars(CancelEmptySetup)
FairSpec == Spec /\ Fairness

-----------------------------------------------------------------------------
\* Properties.

\* The type invariant, in groups of variables.
ClockType ==
  /\ phase \in Phase
  /\ prePausePhase \in RobotPhase \cup {"none"}
  /\ remaining \in Nat
FlagType ==
  /\ tickTimer \in BOOLEAN /\ leaked \in BOOLEAN /\ resuming \in BOOLEAN
  /\ autoClear \in BOOLEAN /\ readyRequested \in BOOLEAN /\ fieldEStop \in BOOLEAN
MatchType ==
  /\ config \in Config \cup {OfficialConfig, NoConfig}
  /\ pendingConfig \in Config \cup {OfficialConfig}
  /\ autoWinner \in Alliance \cup {"none"}
  /\ endReason \in {"none", "normal", "stopped", "estop", "abandoned"}
RosterType ==
  /\ joined \subseteq Station
  /\ alliance \in [Station -> Alliance \cup {"none"}]
  /\ portToSlot \in [Station -> (Alliance \cup {"none"}) \X Nat]
CheckType ==
  /\ ready \subseteq Station /\ forcedReady \subseteq ready
  /\ staffReady \subseteq Role /\ staffIgnored \subseteq Role
  /\ startHolds \subseteq StartHold
RobotType ==
  /\ enabled \subseteq Station
  /\ mode \in [Station -> {"auto", "teleOp"}]
  /\ disabledBy \in [Station -> {"none", "admin", "self", "ds", "estop", "relay"}]
StopType ==
  /\ eStop \subseteq Station /\ aStop \subseteq Station
  /\ attached \subseteq Station /\ blocked \subseteq Station
RelayType ==
  /\ relayOrder \in [Alliance -> SUBSET Station]
  /\ legs \in [Alliance -> Nat]
  /\ finished \subseteq Alliance

\* Every variable keeps to the values the code can give it: a pause knows what
\* it interrupted, a forced ready belongs to a ready team, and the clock, once
\* drained, does not run on below zero.
TypeOK ==
  /\ ClockType /\ FlagType /\ MatchType /\ RosterType
  /\ CheckType /\ RobotType /\ StopType /\ RelayType

\* A robot is commanded enabled only while its own match is in a period robots
\* run in: never in setup, the countdown, a pause, or once the match is over,
\* and never after its team left (every disableAll() and state.enabled = false).
OnlyLiveRobotsEnabled == enabled # {} => Running /\ enabled \subseteq joined

\* No order of presses, Driver Station reports, hand-offs, resumes and phase
\* changes enables a robot through a latched E-Stop, field E-Stop or A-Stop.
StopsHold == \A s \in enabled : ~IsEStopped(s) /\ s \notin aStop

\* A robot stopped in auto and brought back in teleop never carries mode auto,
\* which would re-run its auto routine on the open field (undisable()).
NoAutoRoutineInTeleop ==
  \A s \in enabled : mode[s] = "auto" <=> phase = "auto"

\* An A-Stop lasts through auto and no longer: none is left once teleop runs,
\* however the match got there, a pause and resume included.
AStopEndsWithAuto == phase \in {"teleop", "endgame"} => aStop = {}

\* In a relay the FMS hands off, an alliance never has two robots live, and the
\* one that is live is the one whose leg it is.  Somebody's leg it is as long as
\* the alliance is on the clock, whoever has left: a hand-off always leads on, to
\* the next leg or to the finish.
RelayOneRunner ==
  FmsHandoff(config) /\ Running =>
    /\ \A s \in enabled : s \in Runner(alliance[s])
    /\ \A a \in Alliance \ finished : relayOrder[a] # {} => Runner(a) # {}

\* Once an alliance's clock has stopped, none of its robots comes back: not by
\* a resume, a team's Enable, the admin console or its DS returning.
FinishedStaysDown == Running => \A s \in enabled : alliance[s] \notin finished

\* A resume counts down only for a match that is still paused, so it cannot
\* bring robots back into one that was stopped meanwhile, or the next one.
ResumeOnlyWhilePaused == resuming => phase = "paused" /\ prePausePhase # "none"

\* The auto-clear timer runs exactly while a finished match is on the field: it
\* never fires into a match created since.
AutoClearOnlyAfterMatch == autoClear <=> phase = "postMatch"

\* No match runs, or starts, under a latched field E-Stop.
FieldEStopEndsMatch == fieldEStop => ~MatchActive

\* During a match the joined stations hold distinct slots of their own
\* alliance, whoever else has left since the start.
SlotsAreDistinct ==
  MatchActive =>
    /\ \A s \in joined : portToSlot[s][1] = alliance[s] /\ portToSlot[s][2] \in 1..AllianceSize
    /\ \A s, t \in joined : portToSlot[s] = portToSlot[t] => s = t

\* A stop is not overrun: neither by a robot nor by a match.
StopsStop == StopsHold /\ FieldEStopEndsMatch

\* The clock of a match that is on runs, unless it is paused or waits for the host
\* to pick a winner; it runs on until a finished match's stations are released.
ClockRuns ==
  /\ MatchActive /\ phase # "paused" =>
       Ticking \/ (phase = "autoPause" /\ AwaitingWinner)
  /\ phase = "postMatch" /\ endReason = "normal" /\ joined # {} => Ticking

\* Neither timer outlives what it was set for (doResume(), clearMatch()), and the
\* clock, which every pick, pause, resume and end sets or stops, is never lost.
TimersBelong == ResumeOnlyWhilePaused /\ AutoClearOnlyAfterMatch /\ ClockRuns

\* The match as the parts that follow its phases see it.
Playing == MatchActive /\ phase # "countdown"
Followed == INSTANCE MatchPhases WITH
  phase  <- IF Playing THEN "running" ELSE IF phase = "postMatch" THEN "over" ELSE phase,
  joined <- (phase = "created" \/ MatchActive) /\ joined # {}

\* The engine implements them: a match that starts has somebody in it and is
\* never emptied and left to run, robots go only out of a countdown, nothing but
\* a countdown goes back to setup, and every match that started is seen to end,
\* whatever order presses, timers, pauses and departures come in.
PhasesAreKept == Followed!Spec

\* Nothing but a press of Enable brings back a robot that came out of an e-stop
\* during the match and is still marked so (cameOutOfEStop()).
OnlyEnableEndsEStopDisable ==
  [][\A s \in Station : disabledBy[s] = "estop" /\ s \in enabled'
       => \E byAdmin \in BOOLEAN : Undisable(s, byAdmin)]_vars

\* A robot the controller policy forbids is never enabled: not with everyone
\* else, not as the next runner, not by a press or a DS returning
\* (setEnableBlocked()).  One that is already running is not this gate's.
PolicyGatesEveryEnable ==
  [][\A s \in blocked : s \notin enabled => s \notin enabled']_vars

\* A finished match leaves the field by itself, one that the field E-Stop ended
\* too: docs/match-system.md and schedulePostMatchAutoClear() say so, against the
\* comment at POST_MATCH_AUTO_CLEAR_MS.
PostMatchClears == phase = "postMatch" ~> phase # "postMatch"

\* A resume that is not taken back completes or the match ends.
ResumeSettles == resuming ~> ~resuming

\* A match nobody joins does not hold the field (and its radio changes) forever.
EmptySetupEnds == phase = "created" /\ joined = {} ~> phase # "created" \/ joined # {}

\* What holds the field for a while does not hold it for good.
NothingLingers == PostMatchClears /\ ResumeSettles /\ EmptySetupEnds

\* A match that runs, from its start, from the host's pick or from the end of a
\* pause, comes to its end unless someone pauses it, backs out of the countdown, or
\* leaves it waiting for a winner to be picked (setAutoWinner(), tick()).
Held == phase = "paused" \/ (phase = "autoPause" /\ AwaitingWinner)
StartedMatchEnds == MatchActive /\ ~Held ~> Held \/ phase \in {"postMatch", "created"}
=============================================================================
