------------------------------ MODULE MCPending ------------------------------
(* The pending list with two stations, two teams' robots, which are alike, and *)
(* one of the host team.                                                       *)
EXTENDS PendingChanges, TLC

Alike == Permutations(Robot \ Host)
=============================================================================
