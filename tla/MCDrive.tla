------------------------------- MODULE MCDrive -------------------------------
(* Drive sessions with two laptops and a team that has two robots.        *)
EXTENDS DriveSessions, TLC

Alike == Permutations(Laptop) \cup Permutations(Robot) \cup Permutations(Station)
TwoRobots == [r \in Robot |-> "t"]
=============================================================================
