---------------------------- MODULE PendingChanges ----------------------------
(***************************************************************************)
(* Teams' Wi-Fi requests, from a press of Enable Robot or Release to the   *)
(* configuration of the six stations: the pending list of                  *)
(* src/src/radioManager.ts, the holds src/src/index.ts puts on it, and     *)
(* everything that adds to it, takes from it or applies it.  Getting the   *)
(* result on to the radio is RadioCommit's matter.                         *)
(*                                                                         *)
(* Every handler here runs without waiting for anything, so each is one    *)
(* step.  The list and the stations are saved as they change: a restart    *)
(* keeps both, a crash between the two writes does not.                    *)
(***************************************************************************)
EXTENDS Integers, Sequences, FiniteSets, SequencesExt, Lists

CONSTANTS
  Robot,     \* the robots, by SSID
  Host,      \* those of the host team
  Key,       \* WPA keys
  SavedKey,  \* the one the server has saved for every robot
  Slots      \* how many stations there are

ASSUME RobotAssumption == Host \subseteq Robot /\ "none" \notin Robot /\ SavedKey \in Key
ASSUME SlotsAssumption == Slots \in Nat \ {0}

Slot == 1..Slots
Empty == [robot |-> "none", key |-> "none"]
StationConfig == [robot : Robot, key : Key]
EnableChange == [kind : {"enable"}, robot : Robot, key : Key, slot : Slot]
ReleaseChange == [kind : {"release"}, robot : Robot]
Enable(r, k, s) == [kind |-> "enable", robot |-> r, key |-> k, slot |-> s]
Release(r) == [kind |-> "release", robot |-> r]

VARIABLES
  active,        \* activeConfig: who is on which station
  changes,       \* the pending list
  phase,         \* of the match,
  joined,        \* and whether somebody is in it
  holdForMatch,  \* holdRadioChangesForMatch
  holdAdmin      \* holdRadioChanges

vars == <<active, changes, phase, joined, holdForMatch, holdAdmin>>
holdVars == <<holdForMatch, holdAdmin>>
matchVars == <<phase, joined, holdVars>>

M == INSTANCE MatchPhases

-----------------------------------------------------------------------------
\* Where robots are, and where the list would put them.

At(stations, r) == {s \in Slot : stations[s].robot = r}
FreeAt(stations) == {s \in Slot : stations[s] = Empty}
First(S) == CHOOSE s \in S : \A t \in S : s <= t
OnField == {r \in Robot : At(active, r) # {}}
Robots(list) == {c.robot : c \in ToSet(list)}

\* Of a list, what is not about r.
Without(list, r) == Only(list, {c \in ToSet(list) : c.robot # r})

\* c's robot goes where it is already, else to the first of S, else in line.
Place(acc, c, S) ==
  LET here == At(acc.at, c.robot)
      to   == IF here # {} THEN here ELSE S
  IN  IF to # {} THEN [acc EXCEPT !.at[First(to)] = [robot |-> c.robot, key |-> c.key]]
                 ELSE [acc EXCEPT !.line = Append(@, c)]

Consider(acc, c) ==
  IF c.kind = "release"
  THEN [acc EXCEPT !.at = [s \in Slot |-> IF @[s].robot = c.robot THEN Empty ELSE @[s]]]
  ELSE Place(acc, c, IF acc.at[c.slot] = Empty THEN {c.slot} ELSE FreeAt(acc.at))

TryAgain(acc, c) == Place(acc, c, FreeAt(acc.at))

\* The whole list in turn, then those in line again.
Considered(list) ==
  LET acc[i \in 0..Len(list)] ==
        IF i = 0 THEN [at |-> active, line |-> <<>>] ELSE Consider(acc[i - 1], list[i])
  IN  acc[Len(list)]
Retried(once) ==
  LET acc[i \in 0..Len(once.line)] ==
        IF i = 0 THEN [at |-> once.at, line |-> <<>>] ELSE TryAgain(acc[i - 1], once.line[i])
  IN  acc[Len(once.line)]

Target_ForgetsTheLine(list) == [Retried(Considered(list)) EXCEPT !.line = <<>>]
\* computeTarget(): the stations with the list applied (at), and the enables
\* that find no station (line).
Target(list) == Retried(Considered(list))

\* shouldHold().
Held_WhileRunning == M!Active \/ holdAdmin
Held ==
  \/ M!Active
  \/ phase # "idle" /\ holdForMatch
  \/ holdAdmin

\* waitReason(): held, or a change of another robot than r waits for staff.
MustWait(list, r) ==
  Held \/ Len(Target(Without(list, r)).line) < Len(Without(list, r))

Adds(c) ==
  CASE c.kind = "release" -> c.robot \in OnField
    [] c.kind = "enable"  ->
         ~\E s \in Slot : active[s] = [robot |-> c.robot, key |-> c.key]

AddChange_Appends(list, c) == IF Adds(c) THEN Append(list, c) ELSE list
\* addChange(): overrides what waited for the robot; one on the field stays put.
AddChange(list, c) ==
  LET here == At(active, c.robot)
  IN  CASE ~Adds(c) -> Without(list, c.robot)
        [] Adds(c) /\ c.kind = "enable" /\ here # {} ->
             Append(Without(list, c.robot), [c EXCEPT !.slot = First(here)])
        [] OTHER -> Append(Without(list, c.robot), c)

\* applyPendingChanges() of the part of the list whose kind is among kinds.
Apply(list, kinds) ==
  LET selected == {c \in ToSet(list) : c.kind \in kinds}
      target   == Target(Only(list, selected))
  IN  /\ active' = target.at
      /\ changes' = Only(list, (ToSet(list) \ selected) \cup ToSet(target.line))
Everything == {"enable", "release"}
Joins == {"enable"}

\* stageIdleReleases(): which robots give way to those in line.
GivesWay_Anyone(list, idle) ==
  idle # {} =>
    /\ idle \subseteq OnField \ Robots(list)
    /\ phase = "idle" /\ ~MustWait(list, "none")
    /\ Cardinality(idle) <= Len(Target(list).line)
GivesWay(list, idle) ==
  idle # {} =>
    /\ idle \subseteq (OnField \ Host) \ Robots(list)
    /\ phase = "idle" /\ ~MustWait(list, "none")
    /\ Cardinality(idle) <= Len(Target(list).line)
Released(idle) == [i \in 1..Cardinality(idle) |-> Release(SetToSeq(idle)[i])]

-----------------------------------------------------------------------------
\* Teams.

\* request(): on the list, and applied unless it has to wait; the idle robots
\* have been off the Wi-Fi long enough.
Request(c, idle) ==
  LET list == AddChange(changes, c)
  IN  /\ IF Adds(c) /\ ~MustWait(list, c.robot)
         THEN /\ GivesWay(list, idle)
              /\ Apply(list \o Released(idle), Everything)
         ELSE idle = {} /\ changes' = list /\ UNCHANGED active
      /\ UNCHANGED matchVars

TeamEnables(r, k, s, idle) == ~M!Active /\ Request(Enable(r, k, s), idle)
TeamReleases(s) ==
  /\ ~M!Active
  /\ active[s] # Empty
  /\ Request(Release(active[s].robot), {})
RemoveSavedTeam(r) == r \in OnField /\ Request(Release(r), {})

\* cancelPendingChanges() of those among the changes.
Withdraw(dropped) ==
  /\ dropped # {}
  /\ changes' = Only(changes, ToSet(changes) \ dropped)
  /\ UNCHANGED <<active, matchVars>>

\* Where an enable is going: its place in the target, or its preference.
GoesTo(c) ==
  LET there == At(Target(changes).at, c.robot)
  IN  IF there # {} THEN First(there) ELSE c.slot

CancelStagedChange(s) ==
  Withdraw({c \in ToSet(changes) :
              \/ c.kind = "enable" /\ GoesTo(c) = s
              \/ c.kind = "release" /\ c.robot = active[s].robot})
CancelPendingChange(i) == i \in DOMAIN changes /\ Withdraw({changes[i]})
LeaveLine(r) == Withdraw({c \in ToSet(Target(changes).line) : c.robot = r})
\* The robot's team joins a match, or keeps it on the field.
KeepRobot(r) == Withdraw({Release(r)} \cap ToSet(changes))

-----------------------------------------------------------------------------
\* Staff, the clock, and pFMS itself.

ApplyNow ==
  /\ changes # <<>>
  /\ Apply(changes, Everything)
  /\ UNCHANGED matchVars

\* stageRobots(): a robot of the match goes where it would be, or is free.
Staged(list, r, k) ==
  LET at    == Target(list).at
      there == At(at, r)
      slot  == CASE there # {} -> First(there)
                 [] there = {} /\ FreeAt(at) # {} -> First(FreeAt(at))
                 [] OTHER -> 1
  IN  AddChange(list, Enable(r, k, slot))
\* setupNextMatch() of one robot a side, with the keys the server has saved:
\* both staged, then one apply.
SetUpNext(red, blue) ==
  /\ red # blue
  /\ Apply(Staged(Staged(changes, red, SavedKey), blue, SavedKey), Everything)
  /\ UNCHANGED matchVars

\* clearAllConfigurations(), keeping what stays.
ClearField(stays) ==
  /\ ~M!Active
  /\ active' = [s \in Slot |-> IF active[s].robot \in stays THEN active[s] ELSE Empty]
  /\ changes' = Only(changes, {c \in ToSet(changes) : c.robot \in stays})
  /\ UNCHANGED matchVars

\* releaseIdleForWaiting(), on a status poll.
ReleaseIdleForWaiting(idle) ==
  /\ idle # {} /\ GivesWay(changes, idle)
  /\ Apply(changes \o Released(idle), Everything)
  /\ UNCHANGED matchVars

ToggleHolds ==
  /\ \/ holdForMatch' = ~holdForMatch /\ UNCHANGED holdAdmin
     \/ holdAdmin' = ~holdAdmin /\ UNCHANGED holdForMatch
  /\ UNCHANGED <<active, changes, phase, joined>>

\* Process restarts: the match engine starts idle; a crash inside
\* applyPendingChanges() has saved the list and not the stations.
Restart ==
  /\ M!Restart
  /\ UNCHANGED <<active, changes, holdVars>>
CrashInApply ==
  /\ Target(changes).at # active
  /\ M!Restart
  /\ changes' = Target(changes).line
  /\ UNCHANGED <<active, holdVars>>

-----------------------------------------------------------------------------
\* The match.

\* Its steps that the list does not notice.
Unnoticed ==
  /\ M!CreateMatch \/ M!JoinsOrLeaves \/ M!StartMatch \/ M!AbortCountdown \/ M!RobotsGo
       \/ M!ClearMatch
  /\ UNCHANGED <<active, changes, holdVars>>

\* stageReleaseAll(): who is on the field and has no change waiting is to leave.
StageReleaseAll(stays) ==
  LET slots == Only([s \in Slot |-> s],
                    {s \in Slot : /\ active[s] # Empty
                                  /\ active[s].robot \notin stays \cup Robots(changes)})
  IN  changes \o [i \in DOMAIN slots |-> Release(active[slots[i]].robot)]

\* Every robot is queued to leave, unless the setting is off.
EndMatch ==
  /\ M!MatchEnds
  /\ changes' \in {changes, StageReleaseAll(Host)}
  /\ UNCHANGED <<active, holdVars>>

\* The robots that wait to join go through.
CancelSetup ==
  /\ M!CancelMatch /\ UNCHANGED holdVars
  /\ IF holdAdmin THEN UNCHANGED <<active, changes>> ELSE Apply(changes, Joins)

-----------------------------------------------------------------------------
Init ==
  /\ active = [s \in Slot |-> Empty]
  /\ changes = <<>>
  /\ M!Init /\ holdForMatch = TRUE /\ holdAdmin = FALSE

Team ==
  \/ \E r \in Robot, k \in Key, s \in Slot, idle \in SUBSET OnField : TeamEnables(r, k, s, idle)
  \/ \E s \in Slot : TeamReleases(s) \/ CancelStagedChange(s)
  \/ \E r \in Robot : RemoveSavedTeam(r) \/ LeaveLine(r) \/ KeepRobot(r)
Staff ==
  \/ ApplyNow
  \/ \E i \in DOMAIN changes : CancelPendingChange(i)
  \/ \E red \in Robot, blue \in Robot : SetUpNext(red, blue)
  \/ \E stays \in {{}, Host} : ClearField(stays)
Match == Unnoticed \/ EndMatch \/ CancelSetup
Itself ==
  \/ \E idle \in SUBSET OnField : ReleaseIdleForWaiting(idle)
  \/ Restart \/ CrashInApply

Next == Team \/ Staff \/ ToggleHolds \/ Match \/ Itself
Spec == Init /\ [][Next]_vars

-----------------------------------------------------------------------------
\* Properties.

\* Stations hold robots or nothing, and the list is of changes about robots.
TypeOK ==
  /\ active \in [Slot -> StationConfig \cup {Empty}]
  /\ changes \in Seq(EnableChange \cup ReleaseChange)
  /\ phase \in {"idle", "created", "countdown", "running", "over"} /\ joined \in BOOLEAN
  /\ holdForMatch \in BOOLEAN /\ holdAdmin \in BOOLEAN

\* No robot is given two stations, whatever was asked for it in whatever order.
OneStationPerRobot == \A r \in Robot : Cardinality(At(active, r)) <= 1

\* The field and the list make sense: no robot has two stations, one change
\* waits per robot, and it would do something: a release is of a robot that is
\* on the field, and an enable of one there changes its key, at its own station.
WaitingMakesSense ==
  /\ OneStationPerRobot
  /\ \A i \in DOMAIN changes :
       LET c == changes[i]
       IN  /\ \A j \in DOMAIN changes : changes[j].robot = c.robot => j = i
           /\ c.kind = "release" => c.robot \in OnField
           /\ c.kind = "enable" => /\ c.robot \in OnField => c.slot \in At(active, c.robot)
                                   /\ active[c.slot] # [robot |-> c.robot, key |-> c.key]

\* A robot that stays on the field stays on its station.
RobotsDontMove ==
  [][\A s \in Slot : active[s] # Empty /\ active[s].robot \in OnField'
       => active'[s].robot = active[s].robot]_vars

ByStaff ==
  \/ ApplyNow
  \/ \E red \in Robot, blue \in Robot : SetUpNext(red, blue)
  \/ \E stays \in {{}, Host} : ClearField(stays)
Leaves(r) == r \in OnField /\ r \notin OnField'

\* A robot leaves the field because staff applied or cleared, because its own
\* team released it, or, idle, to make room for one in line: then no match is
\* on, it is not the host's, and another robot takes its station.
RobotsLeaveForAReason ==
  [][\A r \in Robot : Leaves(r) =>
       \/ ByStaff
       \/ RemoveSavedTeam(r) \/ \E s \in At(active, r) : TeamReleases(s)
       \/ /\ phase = "idle" /\ ~holdAdmin
          /\ r \notin Host
          /\ \A s \in At(active, r) : active'[s] # Empty]_vars

\* While a match or the admin holds changes, only staff change the field; a
\* match that is cancelled before it starts lets robots join, and none leave.
HoldsHold ==
  [][active' # active
       => \/ ~M!Active /\ ~holdAdmin /\ (phase = "idle" \/ ~holdForMatch)
          \/ ByStaff
          \/ /\ phase = "created" /\ phase' = "idle" /\ ~holdAdmin
             /\ \A r \in Robot : ~Leaves(r)]_vars

\* No apply loses a robot: one that waited to join is on the field as asked, or
\* waits on.  And none waits on before a free station: those in line are tried
\* again once the whole list, with its releases, has been considered.
AppliesLoseNobody ==
  [][/\ \A i \in DOMAIN changes : changes[i].kind = "enable" =>
          \/ changes[i] \in ToSet(changes')
          \/ \E s \in Slot : active'[s] = [robot |-> changes[i].robot, key |-> changes[i].key]
          \/ ~(ApplyNow \/ CancelSetup
                 \/ \E idle \in SUBSET OnField : ReleaseIdleForWaiting(idle))
     /\ FreeAt(active') # {} /\ (\E c \in ToSet(changes') : c.kind = "enable") =>
          ~(ApplyNow \/ (CancelSetup /\ ~holdAdmin)
              \/ \E idle \in SUBSET OnField : ReleaseIdleForWaiting(idle))]_vars
=============================================================================
