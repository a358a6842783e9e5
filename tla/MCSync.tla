------------------------------- MODULE MCSync -------------------------------
(* The pass with the rules of one station and two laptops, a and b: the     *)
(* robot driven by nobody, by a, by b with a held off, and by b while a     *)
(* drives the team's other robot.                                           *)
EXTENDS DriveSync

StationOf == [a |-> "s1", b |-> "s1"]
LaptopOf == [toS1 |-> "l", toS2 |-> "l"]
Asked == {{}, {"a", "toS1"}, {"b", "offA"}, {"b", "toS2"}}
=============================================================================
