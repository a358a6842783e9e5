------------------------------ MODULE DriveSync ------------------------------
(***************************************************************************)
(* The pass that brings the kernel in line with the drive sessions         *)
(* (src/src/driveSessions.ts sync, syncOnce, attempt, kernelFlushed and    *)
(* restore), with the commands it awaits (src/src/node-ip/linux.ts), the   *)
(* route preferences it shares with others                                 *)
(* (src/src/routePreferenceManager.ts) and the rebuild of the trunk, which *)
(* flushes the kernel's rules behind its back (src/src/index.ts).          *)
(*                                                                         *)
(* What the sessions ask for is DriveSessions' matter: here it changes at  *)
(* any time, to any of the Situations.                                     *)
(***************************************************************************)
EXTENDS Integers, FiniteSets

CONSTANTS
  Dnat, Block,    \* rules: a robot's traffic to a laptop, a laptop held off a robot
  Route,          \* the preferences a laptop can have
  Slot,           \* the station a Dnat rule is on
  Owner,          \* the laptop a Route is of
  Situations,     \* what the sessions can ask for: sets of the above
  MaxChanges,     \* changes of the sessions, and of routes by others: a bound
  MaxTroubles     \* commands that fail, rebuilds and restarts: a bound

Rule == Dnat \cup Block
Item == Rule \cup Route
Laptop == {Owner[r] : r \in Route}

ASSUME KindAssumption ==
  /\ Dnat \cap Block = {} /\ Rule \cap Route = {}
  /\ "none" \notin Item \cup Laptop /\ IsFiniteSet(Route)
ASSUME SituationAssumption ==
  /\ Situations \subseteq SUBSET Item
  /\ \A w \in Situations :
       /\ \A p, q \in w \cap Dnat : Slot[p] = Slot[q] => p = q
       /\ \A p, q \in w \cap Route : Owner[p] = Owner[q] => p = q
ASSUME BoundAssumption == MaxChanges \in Nat /\ MaxTroubles \in Nat

VARIABLES
  want,       \* what the sessions and the configuration ask for now
  stage,      \* the loop of syncOnce the pass is in, 0 while there is none: `syncing`
  goal,       \* what was asked for when the pass began
  todo,       \* what the loop has yet to come to
  op,         \* the effect the pass awaits: the commands it has left to run
  again,      \* syncAgain
  record,     \* per rule the copies the pass believes installed, 0 for none
  routed,     \* the laptops it routed
  kernel,     \* per rule the copies there are; per route, 1 if it is preferred
  trunk,      \* "up", "torn" down and flushed, "flushed" again, and then up
  changes, troubles,
  failed,     \* history: an effect of the last pass failed
  misread,    \* history: a rule of the kernel was taken for "no such rule"
  overtaken   \* history: an addition was awaited through the rebuild of the trunk

passVars == <<stage, goal, todo, op, again, failed>>
recordVars == <<record, routed>>
history == <<misread, overtaken>>
vars == <<want, passVars, recordVars, kernel, trunk, changes, troubles, history>>

NoOp == [item |-> "none", left |-> 0, real |-> FALSE]

-----------------------------------------------------------------------------
(* A pass: six loops, each over what it finds when it begins.              *)

Recorded(rules) == {r \in rules : record[r] > 0}
Preferred(l) == {r \in Route : Owner[r] = l /\ kernel[r] = 1}

\* A mutant: what is asked for now is added, not what was when it began.
Loop_AsksAgain(k) ==
  CASE k = 2 -> Recorded(Block) \ goal
    [] k = 3 -> {l \in routed : \A r \in goal \cap Route : Owner[r] # l}
    [] k = 4 -> Dnat \cap want
    [] k = 5 -> Block \cap goal
    [] k = 6 -> Route \cap goal

Loop(k) ==
  CASE k = 2 -> Recorded(Block) \ goal
    [] k = 3 -> {l \in routed : \A r \in goal \cap Route : Owner[r] # l}
    [] k = 4 -> Dnat \cap goal
    [] k = 5 -> Block \cap goal
    [] k = 6 -> Route \cap goal

\* A mutant: a rule counts as wanted if one is for its station.
StartPass_KeyedBySlot ==
  /\ stage' = 1 /\ goal' = want' /\ again' = FALSE /\ failed' = FALSE
  /\ todo' = {r \in Dnat : record'[r] > 0 /\ Slot[r] \notin {Slot[q] : q \in Dnat \cap want'}}
  /\ op' = NoOp

StartPass ==
  /\ stage' = 1 /\ goal' = want' /\ again' = FALSE /\ failed' = FALSE
  /\ todo' = {r \in Dnat \ want' : record'[r] > 0}
  /\ op' = NoOp

\* sync: a call while a pass runs makes it run once more.
Sync_Forgetful == IF stage = 0 THEN StartPass ELSE UNCHANGED passVars

Sync ==
  IF stage = 0 THEN StartPass
  ELSE again' = TRUE /\ UNCHANGED <<stage, goal, todo, op, failed>>

Between == stage > 0 /\ op = NoOp

NextLoop ==
  /\ Between /\ todo = {} /\ stage < 6
  /\ stage' = stage + 1
  /\ todo' = Loop(stage')
  /\ UNCHANGED <<want, goal, op, again, failed, recordVars, kernel, trunk, changes, troubles, history>>

EndPass ==
  /\ Between /\ todo = {} /\ stage = 6
  /\ UNCHANGED <<want, recordVars, kernel, trunk, changes, troubles, history>>
  /\ IF again THEN StartPass
     ELSE stage' = 0 /\ UNCHANGED <<goal, todo, op, again, failed>>

\* There already: as recorded, or for a route as the route manager says.
IsThere(i) ==
  \/ stage \in {4, 5} /\ record[i] > 0
  \/ stage = 6 /\ kernel[i] = 1

Skip(i) ==
  /\ Between /\ i \in todo /\ IsThere(i)
  /\ todo' = todo \ {i}
  /\ routed' = IF stage = 6 THEN routed \cup {Owner[i]} ELSE routed
  /\ UNCHANGED <<want, stage, goal, op, again, failed, record, kernel, trunk, changes, troubles, history>>

\* The commands of an effect: without a trunk a rule needs none, and a
\* laptop's old preference goes before it gets another.
Commands(i) ==
  CASE stage \in {1, 2, 4, 5} /\ trunk = "torn" -> 0
    [] stage \in {1, 2, 4, 5} /\ trunk = "flushed" -> 0
    [] stage = 1 /\ trunk = "up" -> record[i]
    [] stage \in {2, 4, 5} /\ trunk = "up" -> 1
    [] stage = 3 -> Cardinality(Preferred(i))
    [] stage = 6 -> 1 + Cardinality(Preferred(Owner[i]))

Issue(i) ==
  /\ Between /\ i \in todo /\ ~IsThere(i)
  /\ todo' = todo \ {i}
  /\ op' = [item |-> i, left |-> Commands(i), real |-> Commands(i) > 0]
  /\ UNCHANGED <<want, stage, goal, again, failed, recordVars, kernel, trunk, changes, troubles, history>>

\* What one command does.  A rule that is there is not added again, and one
\* that is not there need not be deleted.
Effect ==
  LET i == op.item IN
  CASE stage \in {1, 2} -> [kernel EXCEPT ![i] = IF @ > 0 THEN @ - 1 ELSE 0]
    [] stage = 3 -> [r \in Item |-> IF r \in Preferred(i) THEN 0 ELSE kernel[r]]
    [] stage \in {4, 5} -> [kernel EXCEPT ![i] = IF @ > 0 THEN @ ELSE 1]
    [] stage = 6 -> IF op.left > 1
                    THEN [r \in Item |-> IF r \in Preferred(Owner[i]) THEN 0 ELSE kernel[r]]
                    ELSE [kernel EXCEPT ![i] = 1]

CommandRuns ==
  /\ op.left > 0
  /\ kernel' = Effect
  /\ op' = [op EXCEPT !.left = @ - 1]
  /\ UNCHANGED <<want, stage, goal, todo, again, failed, recordVars, trunk, changes, troubles, history>>

\* attempt: the effect fails, is logged and stays as it was recorded.  To
\* delete a rule that is not there fails only if it went since the check.
\* A mutant, first: the rule is off the record though its removal failed.
CommandFails_Forgets ==
  /\ op.left > 0 /\ troubles < MaxTroubles
  /\ stage \in {1, 2} => kernel[op.item] > 0 \/ trunk # "up"
  /\ troubles' = troubles + 1
  /\ op' = NoOp /\ failed' = TRUE
  /\ record' = IF stage \in {1, 2} THEN [record EXCEPT ![op.item] = 0] ELSE record
  /\ UNCHANGED <<want, stage, goal, todo, again, routed, kernel, trunk, changes, history>>

CommandFails ==
  /\ op.left > 0 /\ troubles < MaxTroubles
  /\ stage \in {1, 2} => kernel[op.item] > 0 \/ trunk # "up"
  /\ troubles' = troubles + 1
  /\ op' = NoOp /\ failed' = TRUE
  /\ UNCHANGED <<want, stage, goal, todo, again, recordVars, kernel, trunk, changes, history>>

\* iptables -C fails though the rule is there: the deletion passes for done.
CheckFails ==
  /\ op.left > 0 /\ stage \in {1, 2} /\ kernel[op.item] > 0
  /\ troubles < MaxTroubles
  /\ troubles' = troubles + 1
  /\ op' = [op EXCEPT !.left = @ - 1]
  /\ misread' = TRUE
  /\ UNCHANGED <<want, stage, goal, todo, again, failed, recordVars, kernel, trunk, changes, overtaken>>

OpDone ==
  /\ op # NoOp /\ op.left = 0
  /\ op' = NoOp
  /\ record' = IF stage \in {1, 2} THEN [record EXCEPT ![op.item] = 0]
               ELSE IF stage \in {4, 5} THEN [record EXCEPT ![op.item] = 1]
               ELSE record
  /\ routed' = IF stage = 3 THEN routed \ {op.item}
               ELSE IF stage = 6 THEN routed \cup {Owner[op.item]}
               ELSE routed
  /\ UNCHANGED <<want, stage, goal, todo, again, failed, kernel, trunk, changes, troubles, history>>

-----------------------------------------------------------------------------
(* Those who call for a pass, and those who change what it works on.       *)

\* touch: a handler changed the sessions.
Touch(w) ==
  /\ w # want /\ changes < MaxChanges
  /\ want' = w /\ changes' = changes + 1
  /\ UNCHANGED <<recordVars, kernel, trunk, troubles, history>>
  /\ Sync

\* sweep, every 5 s.
Sweep ==
  /\ UNCHANGED <<want, recordVars, kernel, trunk, changes, troubles, history>>
  /\ Sync

\* The Drive button, the scanner or a new configuration sets or drops a
\* laptop's preference, between the changes of others: oneAtATime.
OthersRoute(l, routes) ==
  /\ changes < MaxChanges /\ changes' = changes + 1
  /\ ~(stage \in {3, 6} /\ op # NoOp)
  /\ Cardinality(routes) < 2 /\ routes # Preferred(l)
  /\ \A r \in routes : Owner[r] = l
  /\ kernel' = [i \in Item |-> IF i \in Route /\ Owner[i] = l
                               THEN IF i \in routes THEN 1 ELSE 0
                               ELSE kernel[i]]
  /\ UNCHANGED <<want, passVars, recordVars, trunk, troubles, history>>

Flushed == [i \in Item |-> IF i \in Rule THEN 0 ELSE kernel[i]]

\* rebuildTrunk: the old trunk's rules are flushed, then it is gone.
TearDown ==
  /\ trunk = "up" /\ troubles < MaxTroubles
  /\ trunk' = "torn" /\ troubles' = troubles + 1
  /\ kernel' = Flushed
  /\ UNCHANGED <<want, passVars, recordVars, changes, history>>

\* bringUpTrunk flushes again what is there of before.
BringUp ==
  /\ trunk = "torn"
  /\ trunk' = "flushed"
  /\ kernel' = Flushed
  /\ overtaken' = (overtaken \/ (stage \in {4, 5} /\ op.real))
  /\ UNCHANGED <<want, passVars, recordVars, changes, troubles, misread>>

\* kernelFlushed, with the new trunk: a rule's effect that needed no command
\* is over by then, for nothing else runs before its pass goes on.
KernelFlushed_KeepsRecord ==
  /\ trunk = "flushed" /\ (op = NoOp \/ op.real)
  /\ trunk' = "up"
  /\ UNCHANGED <<want, recordVars, kernel, changes, troubles, history>>
  /\ Sync

KernelFlushed ==
  /\ trunk = "flushed" /\ (op = NoOp \/ op.real)
  /\ trunk' = "up"
  /\ record' = [r \in Rule |-> 0]
  /\ UNCHANGED <<want, routed, kernel, changes, troubles, history>>
  /\ Sync

\* What a start finds in the kernel, but for rules it cannot read or parse.
Found(unread) == [r \in Rule |-> IF r \in unread THEN 0 ELSE kernel[r]]

\* A graceful restart: restore adopts what it is given, and the sessions made of
\* it ask for what they ask for.
Restart(w) ==
  /\ trunk = "up" /\ troubles < MaxTroubles
  /\ troubles' = troubles + 1
  /\ want' = w
  /\ \E unread \in SUBSET {r \in Rule : kernel[r] > 0} :
       record' = Found(unread) /\ misread' = (unread # {})
  /\ routed' = {}
  /\ overtaken' = FALSE
  /\ UNCHANGED <<kernel, trunk, changes>>
  /\ StartPass

-----------------------------------------------------------------------------
\* The first start, or one after an older version that left rules behind,
\* redirections twice.
Init ==
  /\ want \in Situations
  /\ kernel \in [Item -> 0..2]
  /\ \A i \in Block \cup Route : kernel[i] < 2
  /\ \A l \in Laptop : Cardinality(Preferred(l)) < 2
  /\ record = [r \in Rule |-> kernel[r]]
  /\ routed = {}
  /\ stage = 1 /\ goal = want /\ todo = Recorded(Dnat) \ want /\ op = NoOp
  /\ again = FALSE /\ failed = FALSE
  /\ trunk = "up" /\ changes = 0 /\ troubles = 0
  /\ misread = FALSE /\ overtaken = FALSE

Pass ==
  \/ NextLoop \/ EndPass
  \/ \E i \in todo : Skip(i) \/ Issue(i)
  \/ CommandRuns \/ OpDone

Next ==
  \/ Pass
  \/ CommandFails \/ CheckFails
  \/ \E w \in Situations : Touch(w)
  \/ Sweep
  \/ \E l \in Laptop : \E routes \in SUBSET Route : OthersRoute(l, routes)
  \/ TearDown \/ BringUp \/ KernelFlushed
  \/ \E w \in Situations : Restart(w)

Spec == Init /\ [][Next]_vars

\* A command ends, the pass goes on, and every 5 s there is a sweep.
FairSpec == Spec /\ WF_vars(Pass) /\ WF_vars(Sweep)

-----------------------------------------------------------------------------
(* Every variable keeps to the values the code can give it.                *)
TypeOK ==
  /\ want \in Situations /\ goal \in Situations
  /\ stage \in 0..6 /\ again \in BOOLEAN /\ failed \in BOOLEAN
  /\ todo \subseteq Item \cup Laptop
  /\ op = NoOp \/ op \in [item : Item \cup Laptop, left : Nat, real : BOOLEAN]
  /\ record \in [Rule -> Nat] /\ routed \subseteq Laptop
  /\ kernel \in [Item -> Nat]
  /\ trunk \in {"up", "torn", "flushed"}
  /\ changes \in 0..MaxChanges /\ troubles \in 0..MaxTroubles
  /\ misread \in BOOLEAN /\ overtaken \in BOOLEAN

RulesMatch == \A r \in Rule : kernel[r] > 0 <=> r \in want
RoutesMatch == \A r \in Route \cap want : kernel[r] = 1

Rules == INSTANCE DriveRules WITH
  Rule <- Dnat, goal <- goal \cap Dnat, kernel <- {r \in Dnat : kernel[r] > 0}

(* The redirections come and go as DriveRules says: DriveSessions relies   *)
(* on it for what a restart finds.                                         *)
KeepsRules == Rules!Spec

(* No call is lost: when the pass rests and nothing of it failed, the      *)
(* kernel has the rules the sessions now ask for, those and no others,     *)
(* however they changed while it was awaiting commands.                    *)
RestsInLine ==
  stage = 0 /\ trunk = "up" /\ ~failed /\ ~misread /\ ~overtaken => RulesMatch

(* No rule is forgotten: what the kernel holds is on record, or is being   *)
(* put in just now, so that the next pass can take it away.                *)
NoStrayRule ==
  trunk = "up" /\ ~misread /\ ~overtaken =>
    \A r \in Rule : kernel[r] > 0 => record[r] > 0 \/ op.item = r

(* "Take away first": while no command fails, a robot's traffic starts to  *)
(* go to a laptop only when the rule of its station's last one is gone.    *)
LastRobotsRuleIsGone ==
  [][~failed /\ ~misread /\ ~overtaken => \A p, q \in Dnat :
       kernel'[p] > kernel[p] /\ Slot[p] = Slot[q] /\ p # q => kernel[q] = 0]_vars

(* Whatever happens on the way, once the sessions, the trunk and the       *)
(* others leave it alone, the kernel comes to have the rules and the       *)
(* preferences the sessions ask for, and keeps them.                       *)
ComesInLine ==
  <>[](trunk = "up" /\ ~misread /\ ~overtaken) => <>[](RulesMatch /\ RoutesMatch)
=============================================================================
