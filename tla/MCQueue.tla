------------------------------- MODULE MCQueue -------------------------------
(* A small instance of MatchQueue for TLC.                                   *)
EXTENDS MatchQueue, TLC

Sheets == {[red |-> {t}, blue |-> {}] : t \in Team}
Shapes == {[red |-> 1, blue |-> 0], [red |-> 1, blue |-> 1]}
Symmetry == Permutations(Team) \cup Permutations(Entry)
\* At most two places in the line, which is open or waited in while the field is
\* idle: line and match touch the same entries, never each other.
Apart ==
  /\ Len(line) <= 2
  /\ line # <<>> \/ lineOpen => phase = "idle" /\ setups = {}
=============================================================================
