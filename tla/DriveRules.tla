----------------------------- MODULE DriveRules ------------------------------
(***************************************************************************)
(* What the drive sessions may take for granted of their redirection rules *)
(* in the kernel (src/src/driveSessions.ts syncOnce): they are worked on   *)
(* one at a time, towards what was asked for when the last pass began, as  *)
(* far as that pass gets; and others may flush them all.                   *)
(***************************************************************************)
CONSTANT Rule

VARIABLES
  goal,    \* the rules the last pass set out to have
  kernel   \* the rules there are

Init == goal \in SUBSET Rule /\ kernel \in SUBSET Rule

Begin(asked) == goal' = asked /\ UNCHANGED kernel
RuleGoes == (\E r \in kernel \ goal : kernel' = kernel \ {r}) /\ UNCHANGED goal
RuleComes == (\E r \in goal \ kernel : kernel' = kernel \cup {r}) /\ UNCHANGED goal
Flush == kernel' = {} /\ UNCHANGED goal

Next == (\E asked \in SUBSET Rule : Begin(asked)) \/ RuleGoes \/ RuleComes \/ Flush

Spec == Init /\ [][Next]_<<goal, kernel>>
=============================================================================
