----------------------------- MODULE MatchPhases -----------------------------
(***************************************************************************)
(* What the match engine promises the parts that follow a match by its     *)
(* phases: the queue (attach() of src/src/matchQueue.ts), and the holds    *)
(* and the releases of the Wi-Fi (src/src/index.ts).  MatchEngine is       *)
(* proved to keep it; MatchQueue, PendingChanges and StopHold take each of *)
(* its steps together with what the code makes of it.                      *)
(***************************************************************************)

VARIABLES
  phase,   \* of the match; all that is played, pauses included, is "running"
  joined   \* somebody is in the match that is set up or played
vars == <<phase, joined>>

\* isMatchActive().
Active == phase \in {"countdown", "running"}

Init == phase = "idle" /\ joined = FALSE

CreateMatch ==
  /\ phase \in {"idle", "over"}
  /\ phase' = "created" /\ joined' = FALSE

\* Who joins last, or first, or leaves, while the match is set up.
JoinsOrLeaves ==
  /\ phase = "created"
  /\ joined' = ~joined
  /\ UNCHANGED phase

\* By staff, by a team that finds it empty, or by its clock.
CancelMatch ==
  /\ phase = "created"
  /\ phase' = "idle" /\ joined' = FALSE

StartMatch ==
  /\ phase = "created" /\ joined
  /\ phase' = "countdown"
  /\ UNCHANGED joined

AbortCountdown ==
  /\ phase = "countdown"
  /\ phase' = "created"
  /\ UNCHANGED joined

RobotsGo ==
  /\ phase = "countdown"
  /\ phase' = "running"
  /\ UNCHANGED joined

\* It runs out or is stopped, or its last team leaves; the countdown included.
MatchEnds ==
  /\ Active
  /\ phase' = "over" /\ joined' = FALSE

ClearMatch ==
  /\ phase = "over"
  /\ phase' = "idle"
  /\ UNCHANGED joined

Next ==
  \/ CreateMatch \/ JoinsOrLeaves \/ CancelMatch
  \/ StartMatch \/ AbortCountdown \/ RobotsGo \/ MatchEnds \/ ClearMatch

Spec == Init /\ [][Next]_vars

-----------------------------------------------------------------------------
\* pFMS starts again: no match outlives it.
Restart == phase' = "idle" /\ joined' = FALSE
=============================================================================
