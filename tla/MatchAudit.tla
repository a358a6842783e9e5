------------------------------ MODULE MatchAudit ------------------------------
(***************************************************************************)
(* The match engine with two memories it does not keep itself: what has    *)
(* changed since the host opened the ready check, and which robots came    *)
(* out of an e-stop mid-match and have not been enabled by anyone since.   *)
(* They let the properties below speak of consent: a start of what was     *)
(* checked, and a robot that moves only after someone pressed Enable.      *)
(***************************************************************************)
EXTENDS MatchEngine

VARIABLES
  altered,  \* the match is not what it was when the ready check was opened
  owed      \* joined stations out of an e-stop that still wait for an Enable
auditVars == <<vars, altered, owed>>

AuditInit == Init /\ altered = FALSE /\ owed = {}

\* A team came in, went or changed sides in setup, or the match became another one.
\* Who leaves in the countdown closes no check (leaveStation()).
Changed ==
  \/ \E s \in joined' : s \notin joined \/ alliance'[s] # alliance[s]
  \/ phase = "created" /\ joined' # joined
  \/ pendingConfig' # pendingConfig

\* Only what changes between the request and the start matters.
RecordChange ==
  altered' = /\ phase' \in {"created", "countdown"}
             /\ ~(readyRequested' /\ ~readyRequested)
             /\ altered \/ Changed

\* Out of every e-stop mid-match, still in the match.
Lifted == {s \in joined : MatchActive /\ IsEStopped(s) /\ ~IsEStopped(s)'}
RecordLift(pressed) == owed' = ((owed \cup Lifted) \ pressed) \cap joined'

\* Each property below asks for one of the two memories; the other stays empty.
CheckedSpec ==
  AuditInit /\ [][Next /\ RecordChange /\ owed' = {}]_auditVars

LiftedNext ==
  /\ \/ NextButEnable /\ RecordLift({})
     \/ \E s \in Station, byAdmin \in BOOLEAN : Undisable(s, byAdmin) /\ RecordLift({s})
  /\ UNCHANGED altered
LiftedSpec == AuditInit /\ [][LiftedNext]_auditVars

-----------------------------------------------------------------------------
\* A match starts only with teams, alliances and a configuration that were all
\* in place when the host last opened the ready check (closeReadyCheck()).
StartsWhatWasChecked == [][StartMatch => ~altered]_auditVars

\* docs/match-system.md and the comment above liftingEStops(): a robot out of an
\* e-stop runs again only after someone presses Enable.
NothingElseBringsItBack == owed \cap enabled = {}
=============================================================================
