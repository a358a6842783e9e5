------------------------------- MODULE MCMatch -------------------------------
(* Small instances of MatchEngine for TLC.                                   *)
EXTENDS MatchEngine

Official(skip, winner) ==
  [OfficialConfig EXCEPT !.skipAuto = skip, !.autoWinner = winner]
Challenge(timing, handoff) ==
  [format |-> "challenge", skipAuto |-> TRUE, autoWinner |-> "scores",
   timing |-> timing, handoff |-> handoff]

RunConfigs == {Challenge("relay", "ds"), Challenge("stopwatch", "staff")}
MatchConfigs == {Official(FALSE, "pause"), Official(TRUE, "red")} \cup RunConfigs

LiveConfigs == {Official(FALSE, "pause")}

\* The "Get Ready" call is made, and runs out, while a match is set up.
CallInSetup == startHolds' # startHolds => phase = "created"

\* The engine treats the alliances alike, and asks of a picked winner only whether
\* there is one: the first station plays on red, and it is red that is picked.
AlliancesAlike ==
  /\ phase' = "countdown" =>
       \A s \in joined : (\A t \in joined : s <= t) => alliance[s] = "red"
  /\ autoWinner' # "blue"

\* With more than one station, leave out the presses whose effect the
\* one-station instances cover in every phase: a robot disabled or e-stopped
\* outside a match.
InMatchPresses ==
  phase' = phase =>
    /\ disabledBy' # disabledBy => MatchActive
    /\ ~(eStop' \subseteq eStop) => MatchActive
    /\ fieldEStop' # fieldEStop => MatchActive \/ fieldEStop
    /\ autoWinner' # autoWinner => phase = "autoPause"

\* A day of official matches, or of challenge runs; in these, what comes before
\* a run and what RelayPresses tries with two stations is left out.
EnginePresses ==
  /\ AlliancesAlike
  /\ CallInSetup
  /\ config # NoConfig => (IsChallenge(pendingConfig') <=> IsChallenge(config))
  /\ IsChallenge(pendingConfig') =>
       /\ InMatchPresses
       /\ attached' = {} /\ aStop' = {} /\ startHolds' = {} /\ ~leaked'

\* A relay has no auto, so no A-Stop matters; one clock is enough; a relay that
\* starts is one the host picked before the teams joined; a team disables its
\* robot, or staff do, while robots run.
RelayPresses ==
  /\ AlliancesAlike
  /\ InMatchPresses
  /\ ~leaked' /\ aStop' = {}
  /\ joined' # {} => IsChallenge(pendingConfig')
  /\ \A s \in Station :
       phase' = phase /\ disabledBy'[s] # disabledBy[s] /\ disabledBy'[s] \in {"self", "admin"}
         => Running
=============================================================================
