------------------------------- MODULE StopHold -------------------------------
(***************************************************************************)
(* The stops that hold a robot out of a match: the field E-Stop, a robot's *)
(* own e-stop and its team's Stop (src/src/matchEngine.ts), the cut of its *)
(* Driver Station's control packets that stands in until the station has   *)
(* stopped (the stop cuts of src/src/index.ts), and the file that carries  *)
(* the stops over a restart (src/src/stopStore.ts).                        *)
(*                                                                         *)
(* Of the match only its phase, as MatchPhases has it, and who is in it    *)
(* matter; what stops do inside one is MatchEngine's.  Time is abstract: a *)
(* station may fall quiet for DS_CONTROL_QUIET_MS whenever it has not just *)
(* been heard, and may be attached to the field at any moment.             *)
(***************************************************************************)
EXTENDS Integers, Sequences

CONSTANTS
  Station,
  MaxTroubles,    \* saves and commands that fail, rebuilds and restarts: a bound
  MaxCommands     \* cuts of one station that wait to be applied: a bound

ASSUME BoundAssumption == MaxTroubles \in Nat /\ MaxCommands \in Nat

VARIABLES
  fieldEStop,   \* fieldEStopSince is set
  eStop,        \* stations with an e-stop of their own
  teamStopped,  \* stations stopped from the team's page
  match,        \* its phase
  joined,       \* stations in the match
  robot,        \* stations with a robot in their slot
  watched,      \* outOfMatchStops: e-stopped out of a match
  waits,        \* stopWaits: of these, the Driver Station has yet to stop
  word,         \* lastDsControl, and whether it is from before the stop
  quiet,        \* watched stations not heard for DS_CONTROL_QUIET_MS
  asked,        \* stopCuts: the cuts index.ts last asked for
  chain,        \* stopCutChain, as what is left of it per station
  cut,          \* the cuts there are in the kernel
  trunk,        \* "up", "going" down, "down", or "coming" up
  disk,         \* estop-state.json
  troubles,
  lost,         \* history: the last save failed, or what is saved was not read
  botched,      \* history: stations whose last command failed
  late          \* history: cuts lifted while there was no trunk, not even to lift them on

stopVars == <<fieldEStop, eStop, teamStopped>>
matchVars == <<match, joined>>
waitVars == <<watched, waits, word, quiet>>
cutVars == <<asked, chain, cut, trunk, botched, late>>
vars == <<stopVars, matchVars, robot, waitVars, cutVars, disk, troubles, lost>>

\* The match without who is in it; once it is over nobody counts as in it.
M == INSTANCE MatchPhases WITH phase <- match, joined <- match # "over" /\ joined # {}

\* A station's last control packet: Enabled, Enabled but from before the stop,
\* Disabled, or nothing that tells (none, unreadable, Disabled from before it).
Word == {"enabled", "wasEnabled", "disabled", "unclear"}

TypeOK ==
  /\ fieldEStop \in BOOLEAN /\ eStop \subseteq Station /\ teamStopped \subseteq Station
  /\ match \in {"idle", "created", "countdown", "running", "over"}
  /\ joined \subseteq Station /\ robot \subseteq Station
  /\ watched \subseteq Station /\ waits \subseteq watched /\ quiet \subseteq watched
  /\ word \in [Station -> Word]
  /\ asked \subseteq Station /\ cut \subseteq Station
  /\ chain \in [Station -> Seq(BOOLEAN)]
  /\ trunk \in {"up", "going", "down", "coming"}
  /\ disk \in [field : BOOLEAN, own : SUBSET Station, team : SUBSET Station]
  /\ troubles \in 0..MaxTroubles
  /\ lost \in BOOLEAN /\ botched \subseteq Station /\ late \subseteq Station

EStopped == IF fieldEStop THEN Station ELSE eStop
Stops == [field |-> fieldEStop, own |-> eStop, team |-> teamStopped]
Held == EStopped \ joined
StopCut == (teamStopped \cup waits) \ joined

\* index.ts acts on the trunk it has, until the teardown is over.
HasTrunk == trunk \in {"up", "going"}

-----------------------------------------------------------------------------
(* Every change of a stop ends in broadcast(): the stops are saved, the     *)
(* waits reviewed, and the cuts asked for follow.                           *)

\* A mutant: a team's Stop is not saved.
Save_ForgetsTeams ==
  /\ disk' = [Stops' EXCEPT !.team = disk.team] /\ lost' = FALSE
  /\ UNCHANGED troubles

\* saveStopsIfChanged(): a save that fails is not tried again until the stops
\* change once more.
Save ==
  \/ /\ Stops' = Stops /\ UNCHANGED <<disk, lost, troubles>>
  \/ /\ Stops' # Stops /\ disk' = Stops' /\ lost' = FALSE /\ UNCHANGED troubles
  \/ /\ Stops' # Stops /\ troubles < MaxTroubles /\ troubles' = troubles + 1
     /\ lost' = TRUE /\ UNCHANGED disk

\* A mutant: silence says nothing.
Still_NeverQuiet(attached) ==
  {s \in Station : word'[s] = "disabled" \/ (word'[s] = "unclear" /\ s \in attached)}

\* dsStopped()
Still(attached) ==
  {s \in Station : \/ word'[s] = "disabled"
                   \/ word'[s] = "unclear" /\ s \in attached
                   \/ s \in quiet'}

\* reviewStopWaits(), from the waits before it: a stop that begins waits for
\* the Driver Station of a slot with a robot.  `aged` are the Disabled packets
\* from longer before the stop than STOP_SEEN_SLACK_MS.
ReviewFrom(before, waiting, said, silent) ==
  LET begun == Held' \ before
      candidates == (waiting \cap Held') \cup (begun \cap robot')
  IN \E aged \in SUBSET {s \in begun : said[s] = "disabled"}, attached \in SUBSET candidates :
       /\ watched' = Held'
       /\ word' = [s \in Station |->
            CASE s \in begun /\ said[s] = "enabled" -> "wasEnabled"
              [] s \in aged -> "unclear"
              [] OTHER -> said[s]]
       /\ quiet' = silent \cap (Held' \ begun)
       /\ waits' = candidates \ Still(attached)

\* The listener of index.ts: a cut that changes is queued if there is a trunk,
\* and else left to the rebuild.
CutFrom(before, queue, has) ==
  LET changed == {s \in Station : (s \in before) # (s \in StopCut')}
  IN /\ asked' = StopCut'
     /\ chain' = [s \in Station |->
          IF has /\ s \in changed THEN Append(queue[s], s \in StopCut') ELSE queue[s]]
     /\ \A s \in Station : Len(chain'[s]) <= MaxCommands
     /\ late' = IF has THEN late \ changed
                ELSE late \cup {s \in changed \cap before : queue[s] # <<>> \/ s \in cut}

Broadcast ==
  /\ Save
  /\ ReviewFrom(watched, waits, word, quiet)
  /\ CutFrom(asked, chain, HasTrunk)
  /\ UNCHANGED <<cut, trunk, botched>>

-----------------------------------------------------------------------------
(* The buttons.                                                             *)

\* fieldEStop(); a match that goes on is over.
FieldEStop ==
  /\ fieldEStop' = TRUE
  /\ UNCHANGED <<eStop, teamStopped, joined, robot>>
  /\ M!MatchEnds \/ (~M!Active /\ UNCHANGED match)
  /\ Broadcast

\* clearFieldEStop(): waits for the Driver Stations of the robots it frees.
ClearFieldEStop ==
  /\ fieldEStop /\ waits \subseteq eStop
  /\ fieldEStop' = FALSE
  /\ UNCHANGED <<eStop, teamStopped, matchVars, robot>>
  /\ Broadcast

\* stationEStop()
StationEStop(s) ==
  /\ eStop' = eStop \cup {s}
  /\ UNCHANGED <<fieldEStop, teamStopped, matchVars, robot>>
  /\ Broadcast

\* clearEStop(station): under the field E-Stop it frees nobody, and waits for nobody.
MayClear(s) == fieldEStop \/ s \notin waits
ClearEStop(s) ==
  /\ s \in eStop /\ MayClear(s)
  /\ eStop' = eStop \ {s}
  /\ UNCHANGED <<fieldEStop, teamStopped, matchVars, robot>>
  /\ Broadcast

\* clearEStop() with no station
ClearAll ==
  /\ EStopped # {} /\ waits = {}
  /\ fieldEStop' = FALSE /\ eStop' = {}
  /\ UNCHANGED <<teamStopped, matchVars, robot>>
  /\ Broadcast

\* teamStop(): a station in the match is left to match control.
TeamStop(s, stop) ==
  /\ s \notin joined /\ (s \in teamStopped) # stop
  /\ teamStopped' = IF stop THEN teamStopped \cup {s} ELSE teamStopped \ {s}
  /\ UNCHANGED <<fieldEStop, eStop, matchVars, robot>>
  /\ Broadcast

-----------------------------------------------------------------------------
(* The match, as far as stops go.                                           *)

Released == joined' = {} /\ eStop' = {}

\* createMatch(), clearMatch(), cancelMatch() and the end of the counting period
CreateMatch ==
  /\ Released /\ M!CreateMatch
  /\ UNCHANGED <<fieldEStop, teamStopped, robot>> /\ Broadcast
ClearMatch ==
  /\ Released /\ M!ClearMatch
  /\ UNCHANGED <<fieldEStop, teamStopped, robot>> /\ Broadcast
CancelMatch ==
  /\ joined' = {} /\ M!CancelMatch
  /\ UNCHANGED <<stopVars, robot>> /\ Broadcast
StationsReleased ==
  /\ match = "over" /\ joined # {} /\ joined' = {}
  /\ UNCHANGED <<stopVars, match, robot>> /\ Broadcast

\* startMatch() is refused under the field E-Stop.
MatchMoves ==
  /\ UNCHANGED <<stopVars, joined, robot>>
  /\ \/ ~fieldEStop /\ M!StartMatch
     \/ M!AbortCountdown \/ M!RobotsGo \/ M!MatchEnds
  /\ Broadcast

\* joinStationAlliance(): match control takes over from a team's Stop.
Join(s) ==
  /\ match = "created" /\ s \notin joined /\ joined' = joined \cup {s}
  /\ teamStopped' = teamStopped \ {s}
  /\ UNCHANGED <<fieldEStop, eStop, match, robot>> /\ Broadcast
\* leaveStation() and reconcileJoinedTeams(); the last to leave ends a match that goes on.
Leave(s) ==
  /\ s \in joined /\ joined' = joined \ {s}
  /\ IF M!Active /\ joined' = {} THEN M!MatchEnds ELSE UNCHANGED match
  /\ UNCHANGED <<stopVars, robot>> /\ Broadcast

\* A robot takes its slot, or leaves it; the engine asks when it needs to know.
RobotMoves(s) ==
  /\ robot' = IF s \in robot THEN robot \ {s} ELSE robot \cup {s}
  /\ UNCHANGED <<stopVars, matchVars, waitVars, cutVars, disk, troubles, lost>>

-----------------------------------------------------------------------------
(* The Driver Station, as the packet capture hears it: noteDsControl().     *)

\* A mutant: the wait is not taken up again for a slot that was empty.
Rewaits_NeedsRobot(s, w) == w = "enabled" /\ s \in (watched \ waits) \cap robot

Hears(s, w) == [word EXCEPT ![s] = w]
Rewaits(s, w) == w = "enabled" /\ s \in watched \ waits

Note(s, w) ==
  /\ UNCHANGED <<stopVars, matchVars, robot>>
  /\ IF Rewaits(s, w) \/ (w = "disabled" /\ s \in waits)
     THEN /\ ReviewFrom(watched, IF Rewaits(s, w) THEN waits \cup {s} ELSE waits,
                        Hears(s, w), quiet \ {s})
          /\ CutFrom(asked, chain, HasTrunk)
          /\ UNCHANGED <<cut, trunk, botched, disk, troubles, lost>>
     ELSE /\ word' = Hears(s, w) /\ quiet' = quiet \ {s}
          /\ UNCHANGED <<watched, waits, cutVars, disk, troubles, lost>>

\* Nothing heard for DS_CONTROL_QUIET_MS, and after a restart for
\* RESTORED_STOP_QUIET_MS.
Silent(s) ==
  /\ s \in watched \ quiet /\ quiet' = quiet \cup {s}
  /\ UNCHANGED <<stopVars, matchVars, robot, watched, waits, word, cutVars, disk, troubles, lost>>

\* stopWaitTimer
Poll ==
  /\ waits # {}
  /\ UNCHANGED <<stopVars, matchVars, robot>>
  /\ Broadcast

-----------------------------------------------------------------------------
(* The kernel.                                                              *)

Apply(s, ok) ==
  /\ chain[s] # <<>>
  /\ chain' = [chain EXCEPT ![s] = Tail(@)]
  /\ IF ok
     THEN /\ cut' = IF Head(chain[s]) THEN cut \cup {s} ELSE cut \ {s}
          /\ botched' = botched \ {s} /\ UNCHANGED troubles
     ELSE /\ troubles < MaxTroubles /\ troubles' = troubles + 1
          /\ botched' = botched \cup {s} /\ UNCHANGED cut
  /\ UNCHANGED <<stopVars, matchVars, robot, waitVars, asked, trunk, late, disk, lost>>

\* rebuildTrunk(): the old trunk is torn down and its rules flushed, the new one
\* flushed again as it comes up, and the cuts then put back.
TrunkGoes ==
  /\ trunk = "up" /\ troubles < MaxTroubles /\ trunk' = "going" /\ troubles' = troubles + 1
  /\ UNCHANGED <<stopVars, matchVars, robot, waitVars, asked, chain, cut, botched, late, disk, lost>>
TrunkGone ==
  /\ trunk = "going" /\ trunk' = "down" /\ cut' = {}
  /\ UNCHANGED <<stopVars, matchVars, robot, waitVars, asked, chain, botched, late, disk, troubles, lost>>
TrunkComes ==
  /\ trunk = "down" /\ trunk' = "coming" /\ cut' = {}
  /\ UNCHANGED <<stopVars, matchVars, robot, waitVars, asked, chain, botched, late, disk, troubles, lost>>

\* A mutant: the cuts are left to the next change of a stop.
TrunkBack_ForgetsCuts ==
  /\ trunk = "coming" /\ trunk' = "up"
  /\ UNCHANGED <<stopVars, matchVars, robot, waitVars, asked, chain, cut, botched, late, disk, troubles, lost>>

TrunkBack ==
  /\ trunk = "coming" /\ trunk' = "up"
  /\ chain' = [s \in Station |-> IF s \in asked THEN Append(chain[s], TRUE) ELSE chain[s]]
  /\ \A s \in Station : Len(chain'[s]) <= MaxCommands
  /\ UNCHANGED <<stopVars, matchVars, robot, waitVars, asked, cut, botched, late, disk, troubles, lost>>

\* The process starts over with the stops it found.  bringUpTrunk() leaves the
\* cuts of stationsCutAtStart(), or finds no trunk to work on; trackStops() then
\* takes the stops up as fresh ones, and the listener lifts the cuts no longer wanted.
CutAtStart(found) == IF found.field THEN Station ELSE found.own \cup found.team
RestartWith(found) ==
  /\ troubles < MaxTroubles /\ troubles' = troubles + 1
  /\ fieldEStop' = found.field /\ eStop' = found.own /\ teamStopped' = found.team
  /\ joined' = {} /\ M!Restart /\ UNCHANGED robot
  /\ ReviewFrom({}, {}, [s \in Station |-> "unclear"], {})
  /\ \/ trunk' = "up" /\ cut' = CutAtStart(found)
     \/ trunk' = "down" /\ UNCHANGED cut
  /\ CutFrom(CutAtStart(found), [s \in Station |-> <<>>], trunk' = "up")
  /\ botched' = {} /\ lost' = (found # disk) /\ UNCHANGED disk

\* load() finds what was saved last, or nothing it can read.
NoStops == [field |-> FALSE, own |-> {}, team |-> {}]
Restart == \E found \in {disk, NoStops} : RestartWith(found)

-----------------------------------------------------------------------------
Init ==
  /\ fieldEStop = FALSE /\ eStop = {} /\ teamStopped = {}
  /\ match = "idle" /\ joined = {} /\ robot \in SUBSET Station
  /\ watched = {} /\ waits = {} /\ quiet = {} /\ word = [s \in Station |-> "unclear"]
  /\ asked = {} /\ chain = [s \in Station |-> <<>>] /\ cut = {} /\ trunk = "up"
  /\ disk = Stops /\ troubles = 0 /\ lost = FALSE /\ botched = {} /\ late = {}

Buttons ==
  \/ FieldEStop \/ ClearFieldEStop \/ ClearAll
  \/ \E s \in Station : StationEStop(s) \/ ClearEStop(s)
  \/ \E s \in Station, stop \in BOOLEAN : TeamStop(s, stop)
MatchGoesOn ==
  \/ CreateMatch \/ ClearMatch \/ CancelMatch \/ StationsReleased \/ MatchMoves
  \/ \E s \in Station : Join(s) \/ Leave(s)
Kernel ==
  \/ \E s \in Station, ok \in BOOLEAN : Apply(s, ok)
  \/ TrunkGoes \/ TrunkGone \/ TrunkComes \/ TrunkBack
Next ==
  \/ Buttons \/ MatchGoesOn \/ Poll \/ Kernel \/ Restart
  \/ \E s \in Station, w \in {"enabled", "disabled", "unclear"} : Note(s, w)
  \/ \E s \in Station : RobotMoves(s) \/ Silent(s)

Spec == Init /\ [][Next]_vars

\* The poll is an interval timer, a silence lasts unless a packet ends it, and
\* the chain of commands goes on whether one fails or not.
FairSpec ==
  /\ Spec /\ WF_vars(Poll)
  /\ \A s \in Station : WF_vars(Silent(s)) /\ WF_vars(\E ok \in BOOLEAN : Apply(s, ok))

-----------------------------------------------------------------------------
\* Once nothing is left to apply, the kernel cuts exactly the robots whose stop
\* asks for it, through rebuilds and restarts: save where a command failed
\* (index.ts only logs it), or a cut was lifted in the middle of a rebuild that
\* its command got into.
CutsFollowStops ==
  \A s \in Station :
    chain[s] = <<>> /\ trunk = "up" /\ s \notin botched \cup late
      => (s \in cut <=> s \in StopCut)

\* docs/match-system.md: a restart lifts no stop (one whose save failed, or whose
\* file cannot be read, is lost, as stopStore.ts says), and where it finds its
\* trunk, every robot with a stop is cut off from the start, before anything of
\* its Driver Station can be known.
RestartsKeepStops ==
  [][Restart => \/ lost \/ lost'
                \/ /\ Stops' = Stops
                   /\ trunk' = "up" => EStopped \cup teamStopped \subseteq cut']_vars

\* docs/network.md: staff can't clear an e-stop while the Driver Station was
\* last heard commanding Enabled, which would hand it its robot back.  Nor does
\* anything else, but a match being created or cleared, or a restart without the
\* stops on file.  Heard since the stop began, that is: of what was said just
\* before it, only slots with a robot in them are waited for (reviewStopWaits()).
FreedToEnabled == {s \in watched \ quiet : word[s] = "enabled" /\ s \notin EStopped'}
ClearsOnlyTheStill ==
  [][CreateMatch \/ ClearMatch \/ (Restart /\ (lost \/ lost')) \/ FreedToEnabled = {}]_vars

\* The same of every step: creating a match, or clearing one, too.
NobodyFreedToEnabled == [][~Restart => FreedToEnabled = {}]_vars

\* An e-stop can be cleared again and again: no wait lasts for ever, unless the
\* Driver Station keeps commanding Enabled or sending what can't be read.
WaitsEnd ==
  \A s \in Station :
    \/ []<>(s \notin waits)
    \/ []<><<Note(s, "enabled") \/ Note(s, "unclear")>>_vars
=============================================================================
