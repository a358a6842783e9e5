---------------------------- MODULE DriveSessions ----------------------------
(***************************************************************************)
(* Drive sessions (src/src/driveSessions.ts): which Driver Station laptop  *)
(* drives which robot, which laptops are held off as duplicates, what the  *)
(* match engine is shown of it, and the redirection rules the kernel comes *)
(* to hold, from which a graceful restart makes the sessions again.        *)
(*                                                                         *)
(* Every handler runs to its end without awaiting and is one action.  The  *)
(* pass that works on the kernel's rules awaits each command: here a pass  *)
(* is what it set out to install and, rule by rule, what it got done.      *)
(* DriveSync has the pass itself, and DriveRules what both agree on.       *)
(***************************************************************************)
EXTENDS Integers, FiniteSets

CONSTANTS Laptop, Robot, Team, Station,
          TeamOf,   \* the team in a robot's SSID
          None      \* nobody, nothing: undefined, null

ASSUME TeamAssumption == TeamOf \in [Robot -> Team]
ASSUME NoneAssumption ==
  None \notin Laptop \cup Robot \cup Team \cup Station \cup {"unheard"} /\ "unheard" \notin Team

VARIABLES
  robotOn,   \* the robot on each station, in the radio's active configuration
  team,      \* per laptop: "unheard" of, None while it named no team, or its team
  stale,     \* laptops silent for DS_STALE_TIMEOUT_MS, and those unheard of
  last,      \* lastRobot: what a laptop drove last, until it stops on purpose
  session,   \* per robot the laptop that drives it
  blocked,   \* per robot the further laptops, held off it
  shown,     \* per station the laptop the match engine was told of
  goal,      \* the rules the pass on the kernel set out to have
  kernel     \* the rules the kernel has: <<station, team, laptop>>

driveVars == <<last, session, blocked, shown>>
kernelVars == <<goal, kernel>>
vars == <<robotOn, team, stale, driveVars, kernelVars>>

-----------------------------------------------------------------------------
(* What a handler works on, and its parts.  Each takes the sessions as the *)
(* part before it left them; "touched" says that touch() was called.       *)

Drives == [session |-> session, blocked |-> blocked, last |-> last, touched |-> FALSE]

OnField(on) == {on[s] : s \in Station} \ {None}
RobotsOfTeam(on, t) == {r \in OnField(on) : TeamOf[r] = t}
DrivenBy(d, l) == {r \in Robot : d.session[r] = l}

\* robotDrivenBy: the first of them in the order of the map, which is any.
FirstDriven(d, l) == IF DrivenBy(d, l) = {} THEN {None} ELSE DrivenBy(d, l)

IsFree(d, r, quiet) == d.session[r] = None \/ d.session[r] \in quiet

\* A mutant: a session ends without anybody being told.
EndSession_Quiet(d, r) ==
  IF r = None THEN d ELSE [d EXCEPT !.session[r] = None, !.blocked[r] = {}]

EndSession(d, r) ==
  IF r = None THEN d
  ELSE [d EXCEPT !.session[r] = None, !.blocked[r] = {}, !.touched = TRUE]

LiftBlocks(d, l, which) ==
  [d EXCEPT !.blocked = [r \in Robot |-> IF r \in which THEN @[r] \ {l} ELSE @[r]],
            !.touched = @ \/ \E r \in which : l \in d.blocked[r]]

\* The laptop takes a robot nobody drives, and leaves the one it drove.
TakesRobot(d, r, l) ==
  [session |-> [d.session EXCEPT ![r] = l],
   blocked |-> [q \in Robot |-> d.blocked[q] \ {l}],
   last |-> [d.last EXCEPT ![l] = r],
   touched |-> TRUE]

\* A mutant: a laptop that drives one robot is made a duplicate on another.
Claim_BlocksDrivers(d, r, l, quiet) ==
  IF d.session[r] = l THEN {d}
  ELSE IF ~IsFree(d, r, quiet)
  THEN {[d EXCEPT !.blocked[r] = @ \cup {l}, !.touched = TRUE]}
  ELSE {TakesRobot(EndSession(d, p), r, l) : p \in FirstDriven(d, l)}

\* A mutant: whoever asks last gets the robot.
Claim_Steals(d, r, l, quiet) ==
  IF d.session[r] = l THEN {d}
  ELSE {TakesRobot(EndSession(d, p), r, l) : p \in FirstDriven(d, l)}

Claim(d, r, l, quiet) ==
  IF d.session[r] = l THEN {d}
  ELSE IF ~IsFree(d, r, quiet)
  THEN {IF DrivenBy(d, l) # {} THEN d
        ELSE [d EXCEPT !.blocked[r] = @ \cup {l}, !.touched = TRUE]}
  ELSE {TakesRobot(EndSession(d, p), r, l) : p \in FirstDriven(d, l)}

\* syncEngine: each station shows who drives the robot now on it.
DriversShown(sessions, on) ==
  [s \in Station |-> IF on[s] = None THEN None ELSE sessions[on[s]]]

\* The handler leaves d behind; a touch brings the engine up to date.
Becomes(d) ==
  /\ session' = d.session
  /\ blocked' = d.blocked
  /\ last' = d.last
  /\ shown' = IF d.touched THEN DriversShown(d.session, robotOn') ELSE shown

-----------------------------------------------------------------------------
(* The handlers.                                                           *)

\* What heard() comes to for a laptop that drives nothing of its team.
Settled(d, l, t, quiet) ==
  LET robots == RobotsOfTeam(robotOn, t) IN
    IF Cardinality(robots) = 1
    THEN UNION {Claim(d, r, l, quiet) : r \in robots}
    ELSE IF d.last[l] \in robots /\ IsFree(d, d.last[l], quiet)
    THEN Claim(d, d.last[l], l, quiet)
    ELSE {d}

\* heard: a message that carries a team number.
Heard(l, t) ==
  /\ team' = [team EXCEPT ![l] = t]
  /\ stale' = stale \ {l}
  /\ UNCHANGED <<robotOn, kernelVars>>
  /\ LET d == LiftBlocks(Drives, l, {r \in Robot : TeamOf[r] # t}) IN
       \E driving \in FirstDriven(d, l) :
         IF driving # None /\ TeamOf[driving] = t
         THEN Becomes(d)
         ELSE \E e \in Settled(EndSession(d, driving), l, t, stale \ {l}) : Becomes(e)

\* heard: one without, which only proves a known laptop alive.
HeardAlive(l) ==
  /\ team[l] # "unheard"
  /\ stale' = stale \ {l}
  /\ UNCHANGED <<robotOn, team, driveVars, kernelVars>>

Pressed(l) ==
  /\ team' = [team EXCEPT ![l] = IF @ = "unheard" THEN None ELSE @]
  /\ stale' = stale \ {l}
  /\ UNCHANGED <<robotOn, kernelVars>>

\* drive: the button, for the robot on a station.
Drive(l, s) ==
  /\ Pressed(l)
  /\ IF robotOn[s] = None THEN UNCHANGED driveVars
     ELSE \E d \in Claim(Drives, robotOn[s], l, stale \ {l}) : Becomes(d)

\* drive with null: stops, and is not to resume by itself.
StopDriving(l) ==
  /\ Pressed(l)
  /\ \E driving \in FirstDriven(Drives, l) :
       Becomes(LiftBlocks([EndSession(Drives, driving) EXCEPT !.last[l] = None], l, Robot))

\* disconnected: a TCP connection closed; the laptop may be back in seconds.
Disconnected(l) ==
  /\ UNCHANGED <<robotOn, team, stale, kernelVars>>
  /\ Becomes(LiftBlocks(Drives, l, {r \in Robot : IsFree(Drives, r, stale)}))

\* Robots that left: nobody drives them, and nobody is held off them.
Cleared(d, gone) ==
  [d EXCEPT !.session = [r \in Robot |-> IF r \in gone THEN None ELSE @[r]],
            !.blocked = [r \in Robot |-> IF r \in gone THEN {} ELSE @[r]]]

\* The laptops of a robot's team that wait for it.  The one heard last gets
\* it: any of them, for how long ago each was heard is left out.
Waiting(d, r) == {l \in Laptop \ stale : team[l] = TeamOf[r] /\ DrivenBy(d, l) = {}}

\* The robots a new configuration hands to a laptop: the only one of its team
\* there, driven by nobody, with a laptop waiting.
HandedOver(d, on) ==
  {r \in OnField(on) : /\ d.session[r] = None
                       /\ RobotsOfTeam(on, TeamOf[r]) = {r}
                       /\ Waiting(d, r) # {}}

\* configChanged: robots arrived, left or moved.
ConfigChanged(on) ==
  /\ on # robotOn
  /\ robotOn' = on
  /\ LET d == Cleared(Drives, Robot \ OnField(on))
         robots == HandedOver(d, on) IN
       \E to \in [robots -> Laptop] :
         /\ \A r \in robots : to[r] \in Waiting(d, r)
         /\ Becomes([session |-> [r \in Robot |-> IF r \in robots THEN to[r] ELSE d.session[r]],
                     blocked |-> [r \in Robot |-> d.blocked[r] \ {to[q] : q \in robots}],
                     last |-> [l \in Laptop |-> IF \E r \in robots : to[r] = l
                                                THEN CHOOSE r \in robots : to[r] = l
                                                ELSE d.last[l]],
                     touched |-> TRUE])
  /\ UNCHANGED <<team, stale, kernelVars>>

\* sweep: sessions of silent laptops end, they are no duplicates any more, and
\* those long silent and in no one's way are forgotten.
Swept == LET silent == {r \in Robot : session[r] \in stale}
             d == Cleared(Drives, silent) IN
  [d EXCEPT !.blocked = [r \in Robot |-> @[r] \ stale],
            !.touched = silent # {} \/ \E r \in Robot : d.blocked[r] \cap stale # {}]

Sweep(long) ==
  /\ \A l \in long : /\ l \in stale /\ team[l] # "unheard"
                     /\ DrivenBy(Swept, l) = {}
                     /\ \A r \in Robot : l \notin Swept.blocked[r]
  /\ team' = [l \in Laptop |-> IF l \in long THEN "unheard" ELSE team[l]]
  /\ UNCHANGED <<robotOn, stale, kernelVars>>
  /\ Becomes([Swept EXCEPT !.last = [l \in Laptop |-> IF l \in long THEN None ELSE @[l]]])

\* Time passes without a word from a laptop.
GoesQuiet(l) ==
  /\ l \notin stale
  /\ stale' = stale \cup {l}
  /\ UNCHANGED <<robotOn, team, driveVars, kernelVars>>

-----------------------------------------------------------------------------
(* The kernel's rules, and restarts.                                       *)

Wanted(sessions, on) ==
  {<<s, TeamOf[on[s]], sessions[on[s]]>> : s \in {q \in Station : on[q] # None /\ sessions[on[q]] # None}}

Rules == INSTANCE DriveRules WITH Rule <- Station \X Team \X Laptop

\* syncOnce begins: what should exist, derived from the sessions now.
SyncOnce ==
  /\ Rules!Begin(Wanted(session, robotOn))
  /\ goal' # goal
  /\ UNCHANGED <<robotOn, team, stale, driveVars>>

\* A command of the pass succeeds, one that fails being left for a later pass;
\* or the trunk is rebuilt, with none of the rules.
KernelChanges ==
  /\ Rules!RuleGoes \/ Rules!RuleComes \/ Rules!Flush
  /\ UNCHANGED <<robotOn, team, stale, driveVars>>

\* The laptops the kernel sends the traffic of a robot of this team to.
Redirected(s, t) == {l \in Laptop : <<s, t, l>> \in kernel}

\* restore, after a graceful restart: a rule becomes a session again if it can be
\* read and a robot of its team is on its station, the first of the list winning.
Restored(sessions) ==
  \A r \in Robot :
    sessions[r] \in {None} \cup
      UNION {Redirected(s, TeamOf[r]) : s \in {q \in Station : robotOn[q] = r}}

RestartGracefully ==
  /\ session' \in [Robot -> Laptop \cup {None}]
  /\ Restored(session')
  /\ team' \in [Laptop -> Team \cup {"unheard"}]
  /\ \A l \in Laptop :
       IF \E r \in Robot : session'[r] = l
       THEN \E r \in Robot : session'[r] = l /\ team'[l] = TeamOf[r]
       ELSE team'[l] = "unheard"
  /\ stale' = {l \in Laptop : team'[l] = "unheard"}
  /\ last' = [l \in Laptop |-> None]
  /\ blocked' = [r \in Robot |-> {}]
  /\ shown' = DriversShown(session', robotOn)
  /\ goal' = Wanted(session', robotOn)
  /\ UNCHANGED <<robotOn, kernel>>

\* A full restart takes the field network down, and the rules with it.
RestartFully ==
  /\ team' = [l \in Laptop |-> "unheard"]
  /\ stale' = Laptop
  /\ last' = [l \in Laptop |-> None]
  /\ session' = [r \in Robot |-> None]
  /\ blocked' = [r \in Robot |-> {}]
  /\ shown' = [s \in Station |-> None]
  /\ goal' = {} /\ kernel' = {}
  /\ UNCHANGED robotOn

-----------------------------------------------------------------------------
(* A robot is on one station: PendingChanges' OneStationPerRobot.          *)
Configurations ==
  {on \in [Station -> Robot \cup {None}] :
     \A s, q \in Station : on[s] = on[q] /\ on[s] # None => s = q}

Init ==
  /\ robotOn \in Configurations
  /\ team = [l \in Laptop |-> "unheard"]
  /\ stale = Laptop
  /\ last = [l \in Laptop |-> None]
  /\ session = [r \in Robot |-> None]
  /\ blocked = [r \in Robot |-> {}]
  /\ shown = [s \in Station |-> None]
  /\ goal = {} /\ kernel = {}

\* What a laptop says or presses that can change the robot it drives.
ChangesRobot(l) ==
  \/ \E t \in Team : Heard(l, t)
  \/ \E s \in Station : Drive(l, s)
  \/ StopDriving(l)

Restarts == RestartGracefully \/ RestartFully

Next ==
  \/ \E l \in Laptop :
       ChangesRobot(l) \/ HeardAlive(l) \/ Disconnected(l) \/ GoesQuiet(l)
  \/ \E on \in Configurations : ConfigChanged(on)
  \/ \E long \in SUBSET Laptop : Sweep(long)
  \/ SyncOnce \/ KernelChanges
  \/ Restarts

Spec == Init /\ [][Next]_vars

-----------------------------------------------------------------------------
(* Every variable keeps to the values the code can give it; a laptop that  *)
(* was never heard of, or was forgotten, is as silent as one can be and    *)
(* drives nothing.                                                         *)
TypeOK ==
  /\ robotOn \in Configurations
  /\ team \in [Laptop -> Team \cup {None, "unheard"}]
  /\ stale \in SUBSET Laptop
  /\ last \in [Laptop -> Robot \cup {None}]
  /\ session \in [Robot -> Laptop \cup {None}]
  /\ blocked \in [Robot -> SUBSET Laptop]
  /\ shown \in [Station -> Laptop \cup {None}]
  /\ goal \in SUBSET (Station \X Team \X Laptop)
  /\ kernel \in SUBSET (Station \X Team \X Laptop)
  /\ \A l \in Laptop :
       team[l] = "unheard" => l \in stale /\ \A r \in Robot : session[r] # l

(* A block cuts a laptop off a robot's network and sends it disabled       *)
(* packets.  It is only ever there for a robot on the field that another   *)
(* laptop drives, and never for a laptop that drives a robot: claim,       *)
(* endSession, configChanged and every other handler clear it in time.     *)
BlockedAreDuplicates ==
  \A r \in Robot : \A l \in blocked[r] :
    /\ r \in OnField(robotOn)
    /\ session[r] \notin {None, l}
    /\ \A q \in Robot : session[q] # l

(* The match engine sends its control packets to the laptop it was told    *)
(* of: after every handler, for every station, that is who drives the      *)
(* robot now on it, whatever moved, left or was taken over.                *)
EngineShowsDrivers == shown = DriversShown(session, robotOn)

DrivesOneAtMost(sessions, l) ==
  \A r, q \in Robot : sessions[r] = l /\ sessions[q] = l => r = q

(* A driver who keeps talking keeps its robot: no other laptop's message,  *)
(* button or disconnection takes it away, and no sweep.  Only the robot's  *)
(* leaving, the driver's own word or button, or a restart does.  And "a    *)
(* laptop drives one robot at a time" (claim()): no message, button or     *)
(* robot arriving gives it a second one; only restore() does, of rules     *)
(* that a pass left half changed.                                          *)
LiveDriversKeepTheirRobot ==
  [][/\ ~Restarts => \A r \in Robot : \A l \in Laptop \ stale :
          session[r] = l /\ session'[r] # l =>
            /\ session'[r] = None
            /\ r \notin OnField(robotOn') \/ ChangesRobot(l)
     /\ ~RestartGracefully => \A l \in Laptop :
          DrivesOneAtMost(session, l) => DrivesOneAtMost(session', l)]_vars
=============================================================================
