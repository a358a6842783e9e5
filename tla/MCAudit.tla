------------------------------- MODULE MCAudit -------------------------------
(* Small instances of MatchAudit for TLC.                                    *)
EXTENDS MatchAudit, MCMatch

\* One station, with the presses that matter to coming out of an e-stop.
LiftPresses ==
  /\ InMatchPresses
  /\ aStop' = {} /\ ~leaked'
=============================================================================
