--------------------------- MODULE DriveSyncProofs ----------------------------
(***************************************************************************)
(* What holds of DriveSync for any rules, routes, stations and situations.  *)
(* The argument has two halves.  The books: as long as no rule is misread   *)
(* and no addition overtaken by a rebuild, what the pass has on record is   *)
(* what the kernel has, but for the rule whose command it awaits.  The pass:*)
(* each loop leaves behind it the records the pass set out to have, but for *)
(* the rules the loop has yet to come to.                                   *)
(***************************************************************************)
EXTENDS DriveSync, FiniteSetTheorems, TLAPS

Adding == stage \in {4, 5} /\ op # NoOp
Removing == stage \in {1, 2} /\ op # NoOp

\* A rule's copies, what the pass is at, and how many commands that can take.
Types ==
  /\ want \in Situations /\ goal \in Situations
  /\ stage \in 0..6
  /\ record \in [Rule -> Nat] /\ kernel \in [Item -> Nat] /\ routed \subseteq Laptop
  /\ \A b \in Block : kernel[b] <= 1
  /\ trunk \in {"up", "torn", "flushed"}
  /\ op = [item |-> op.item, left |-> op.left, real |-> op.real]
  /\ Removing => op.left \in Nat
  /\ Adding => op.left \in 0..1 /\ (op.left = 0 \/ op.real)

\* What each loop is over.
Concerns(i) ==
  /\ stage # 0
  /\ stage = 1 => i \in Dnat \ goal
  /\ stage = 2 => i \in Block \ goal
  /\ stage = 3 => i \in Laptop
  /\ stage = 4 => i \in Dnat \cap goal
  /\ stage = 5 => i \in Block \cap goal
  /\ stage = 6 => i \in Route \cap goal

Work ==
  /\ stage # 0 => \A i \in todo : Concerns(i)
  /\ op # NoOp => Concerns(op.item)

Honest == ~misread /\ ~overtaken

UpBooks ==
  /\ \A r \in Rule : kernel[r] <= record[r] \/ (Adding /\ op.item = r)
  /\ \A r \in Rule : record[r] > 0 => kernel[r] > 0 \/ (Removing /\ op.item = r)
  /\ Removing => kernel[op.item] <= op.left
  /\ Adding => kernel[op.item] = 1 - op.left

Books ==
  Honest =>
    /\ trunk = "up" => UpBooks
    /\ trunk = "torn" => (Adding /\ op.left > 0 => \A r \in Rule : kernel[r] = 0)
    /\ trunk = "flushed" => (\A r \in Rule : kernel[r] = 0) /\ (Adding => op.left = 0 /\ ~op.real)

\* The loops up to k are through.
Through(k) == stage = 0 \/ stage > k

Removals ==
  ~failed =>
    /\ Through(1) => Recorded(Dnat) \subseteq goal
    /\ stage = 1 => Recorded(Dnat) \ goal \subseteq todo \cup {op.item}
    /\ Through(2) => Recorded(Block) \subseteq goal
    /\ stage = 2 => Recorded(Block) \ goal \subseteq todo \cup {op.item}

Additions ==
  ~again /\ ~failed =>
    /\ Through(4) => Dnat \cap goal \subseteq Recorded(Dnat)
    /\ stage = 4 => Dnat \cap goal \subseteq Recorded(Dnat) \cup todo \cup {op.item}
    /\ Through(5) => Block \cap goal \subseteq Recorded(Block)
    /\ stage = 5 => Block \cap goal \subseteq Recorded(Block) \cup todo \cup {op.item}

Asked ==
  /\ ~again => goal = want
  /\ stage = 0 => ~again /\ op = NoOp

IInv == Types /\ Work /\ Books /\ Removals /\ Additions /\ Asked

-----------------------------------------------------------------------------
LEMMA KindsApart ==
  /\ \A i \in Item \cup Laptop : i # "none"
  /\ Dnat \subseteq Rule /\ Block \subseteq Rule /\ Rule \subseteq Item /\ Route \subseteq Item
  /\ \A r \in Rule : r \notin Route
  /\ \A r \in Dnat : r \notin Block
BY KindAssumption DEF Rule, Item

\* A pass begins with what is on record and not asked for.
LEMMA StartingKeeps ==
  ASSUME StartPass
  PROVE  /\ Work' /\ Removals' /\ Additions' /\ Asked'
         /\ stage' = 1 /\ goal' = want' /\ op' = NoOp
<1>1. /\ stage' = 1 /\ goal' = want' /\ again' = FALSE /\ failed' = FALSE
      /\ todo' = {r \in Dnat \ want' : record'[r] > 0}
      /\ op' = NoOp
  BY DEF StartPass
<1>2. Work'
  BY <1>1 DEF Work, Concerns
<1>3. Removals'
  BY <1>1 DEF Removals, Through, Recorded
<1> QED
  BY <1>1, <1>2, <1>3 DEF Additions, Through, Asked

\* A call for a pass keeps what is said of it, whatever went off the record.
LEMMA SyncKeeps ==
  ASSUME IInv, Sync, \A r \in Rule : record'[r] \in {record[r], 0}
  PROVE  /\ Work' /\ Removals' /\ Additions' /\ Asked'
         /\ stage' \in 0..6 /\ goal' \in {goal, want'} /\ op' = op
         /\ (Adding' <=> Adding) /\ (Removing' <=> Removing)
<1>1. CASE stage = 0
  <2>1. StartPass
    BY <1>1 DEF Sync
  <2>2. op = NoOp
    BY <1>1 DEF IInv, Asked
  <2> QED
    BY <1>1, <2>1, <2>2, StartingKeeps DEF Adding, Removing
<1>2. CASE stage # 0
  <2>1. again' = TRUE /\ UNCHANGED <<stage, goal, todo, op, failed>>
    BY <1>2 DEF Sync
  <2>2. Work'
    BY <2>1 DEF IInv, Work, Concerns
  <2>3. Removals'
    <3>1. \A r \in Rule : record'[r] > 0 => record[r] > 0
      BY DEF IInv, Types
    <3>2. Recorded(Dnat)' \subseteq Recorded(Dnat) /\ Recorded(Block)' \subseteq Recorded(Block)
      BY <3>1, KindsApart DEF Recorded
    <3> QED
      BY <1>2, <2>1, <3>2 DEF IInv, Removals, Through
  <2> QED
    BY <1>2, <2>1, <2>2, <2>3 DEF Additions, Asked, Adding, Removing, IInv, Types
<1> QED
  BY <1>1, <1>2

\* The pass is as it was.
LEMMA PassRests ==
  ASSUME IInv, UNCHANGED <<want, passVars, recordVars>>
  PROVE  /\ Work' /\ Removals' /\ Additions' /\ Asked'
         /\ UNCHANGED <<want, stage, goal, op, record, routed>>
         /\ (Adding' <=> Adding) /\ (Removing' <=> Removing)
<1>1. UNCHANGED <<want, stage, goal, todo, op, again, failed, record, routed>>
  BY DEF passVars, recordVars
<1>2. Work'
  BY <1>1 DEF IInv, Work, Concerns
<1>3. Removals' /\ Additions' /\ Asked'
  BY <1>1 DEF IInv, Removals, Additions, Asked, Through, Recorded
<1> QED
  BY <1>1, <1>2, <1>3 DEF Adding, Removing

\* The books do not change when neither rules nor records do.
LEMMA BooksRest ==
  ASSUME IInv, UNCHANGED <<record, trunk, op, misread, overtaken>>,
         \A r \in Rule : kernel'[r] = kernel[r],
         Adding' <=> Adding, Removing' <=> Removing
  PROVE  Books'
<1>1. Adding \/ Removing => op.item \in Rule
  BY KindsApart DEF IInv, Work, Concerns, Adding, Removing
<1> QED
  BY <1>1 DEF IInv, Books, UpBooks, Honest

-----------------------------------------------------------------------------
(* Those who call for a pass, and those who change what it works on.       *)

LEMMA TouchKeeps == ASSUME IInv, NEW w \in Situations, Touch(w) PROVE IInv'
<1>1. want' = w /\ Sync /\ UNCHANGED <<record, routed, kernel, trunk, misread, overtaken>>
  BY DEF Touch, recordVars, history
<1>2. /\ Work' /\ Removals' /\ Additions' /\ Asked'
      /\ stage' \in 0..6 /\ goal' \in {goal, want'} /\ op' = op
      /\ (Adding' <=> Adding) /\ (Removing' <=> Removing)
  BY <1>1, SyncKeeps
<1>3. Books'
  BY <1>1, <1>2, BooksRest
<1>4. Types'
  BY <1>1, <1>2 DEF IInv, Types
<1> QED
  BY <1>2, <1>3, <1>4 DEF IInv

LEMMA SweepKeeps == ASSUME IInv, Sweep PROVE IInv'
<1>1. Sync /\ UNCHANGED <<want, record, routed, kernel, trunk, misread, overtaken>>
  BY DEF Sweep, recordVars, history
<1>2. /\ Work' /\ Removals' /\ Additions' /\ Asked'
      /\ stage' \in 0..6 /\ goal' \in {goal, want'} /\ op' = op
      /\ (Adding' <=> Adding) /\ (Removing' <=> Removing)
  BY <1>1, SyncKeeps
<1>3. Books'
  BY <1>1, <1>2, BooksRest
<1>4. Types'
  BY <1>1, <1>2 DEF IInv, Types
<1> QED
  BY <1>2, <1>3, <1>4 DEF IInv

LEMMA OthersKeep ==
  ASSUME IInv, NEW l \in Laptop, NEW routes \in SUBSET Route, OthersRoute(l, routes)
  PROVE  IInv'
<1>1. /\ UNCHANGED <<want, passVars, recordVars, trunk, misread, overtaken>>
      /\ kernel' = [i \in Item |-> IF i \in Route /\ Owner[i] = l
                                   THEN IF i \in routes THEN 1 ELSE 0
                                   ELSE kernel[i]]
  BY DEF OthersRoute, history
<1>2. /\ Work' /\ Removals' /\ Additions' /\ Asked'
      /\ UNCHANGED <<want, stage, goal, op, record, routed>>
      /\ (Adding' <=> Adding) /\ (Removing' <=> Removing)
  BY <1>1, PassRests
<1>3. \A r \in Rule : kernel'[r] = kernel[r]
  BY <1>1, KindsApart
<1>4. Books'
  BY <1>1, <1>2, <1>3, BooksRest
<1>5. kernel' \in [Item -> Nat]
  BY <1>1 DEF IInv, Types
<1>6. Types'
  BY <1>1, <1>2, <1>3, <1>5, KindsApart DEF IInv, Types
<1> QED
  BY <1>2, <1>4, <1>6 DEF IInv

LEMMA FlushedIsEmpty ==
  ASSUME IInv, kernel' = Flushed
  PROVE  kernel' \in [Item -> Nat] /\ \A r \in Rule : kernel'[r] = 0
BY KindsApart DEF Flushed, IInv, Types

LEMMA TearDownKeeps == ASSUME IInv, TearDown PROVE IInv'
<1>1. /\ trunk' = "torn" /\ kernel' = Flushed
      /\ UNCHANGED <<want, passVars, recordVars, misread, overtaken>>
  BY DEF TearDown, history
<1>2. /\ Work' /\ Removals' /\ Additions' /\ Asked'
      /\ UNCHANGED <<want, stage, goal, op, record, routed>>
      /\ (Adding' <=> Adding) /\ (Removing' <=> Removing)
  BY <1>1, PassRests
<1>3. kernel' \in [Item -> Nat] /\ \A r \in Rule : kernel'[r] = 0
  BY <1>1, FlushedIsEmpty
<1>4. Books'
  BY <1>1, <1>3 DEF Books
<1>5. Types'
  BY <1>1, <1>2, <1>3, KindsApart DEF IInv, Types
<1> QED
  BY <1>2, <1>4, <1>5 DEF IInv

LEMMA BringUpKeeps == ASSUME IInv, BringUp PROVE IInv'
<1>1. /\ trunk' = "flushed" /\ kernel' = Flushed
      /\ overtaken' = (overtaken \/ (stage \in {4, 5} /\ op.real))
      /\ UNCHANGED <<want, passVars, recordVars, misread>>
  BY DEF BringUp
<1>2. /\ Work' /\ Removals' /\ Additions' /\ Asked'
      /\ UNCHANGED <<want, stage, goal, op, record, routed>>
      /\ (Adding' <=> Adding) /\ (Removing' <=> Removing)
  BY <1>1, PassRests
<1>3. kernel' \in [Item -> Nat] /\ \A r \in Rule : kernel'[r] = 0
  BY <1>1, FlushedIsEmpty
<1>4. ASSUME Honest', Adding' PROVE op'.left = 0 /\ ~op'.real
  <2>1. ~op.real
    BY <1>1, <1>2, <1>4 DEF Honest, Adding
  <2> QED
    BY <1>2, <1>4, <2>1 DEF IInv, Types
<1>5. Books'
  BY <1>1, <1>3, <1>4 DEF Books
<1>6. Types'
  BY <1>1, <1>2, <1>3, KindsApart DEF IInv, Types
<1> QED
  BY <1>2, <1>5, <1>6 DEF IInv

LEMMA KernelFlushedKeeps == ASSUME IInv, KernelFlushed PROVE IInv'
<1>1. /\ trunk = "flushed" /\ (op = NoOp \/ op.real) /\ trunk' = "up"
      /\ record' = [r \in Rule |-> 0] /\ Sync
      /\ UNCHANGED <<want, routed, kernel, misread, overtaken>>
  BY DEF KernelFlushed, history
<1>2. record' \in [Rule -> Nat] /\ \A r \in Rule : record'[r] = 0
  BY <1>1
<1>3. /\ Work' /\ Removals' /\ Additions' /\ Asked'
      /\ stage' \in 0..6 /\ goal' \in {goal, want'} /\ op' = op
      /\ (Adding' <=> Adding) /\ (Removing' <=> Removing)
  BY <1>1, <1>2, SyncKeeps
<1>4. Types'
  BY <1>1, <1>2, <1>3 DEF IInv, Types
<1>5. ASSUME Honest' PROVE UpBooks'
  <2>1. (\A r \in Rule : kernel'[r] = 0) /\ (Adding => ~op.real)
    BY <1>1, <1>5 DEF IInv, Books, Honest
  <2>2. ~Adding'
    BY <1>1, <1>3, <2>1 DEF Adding
  <2>3. Removing' => op'.item \in Rule /\ op'.left \in Nat
    BY <1>3, <1>4, KindsApart DEF Work, Concerns, Removing, Types
  <2> QED
    BY <1>2, <2>1, <2>2, <2>3 DEF UpBooks
<1>6. Books'
  BY <1>1, <1>5 DEF Books
<1> QED
  BY <1>3, <1>4, <1>6 DEF IInv

LEMMA RestartKeeps == ASSUME IInv, NEW w \in Situations, Restart(w) PROVE IInv'
<1>0. PICK unread \in SUBSET {r \in Rule : kernel[r] > 0} :
        record' = Found(unread) /\ misread' = (unread # {})
  BY DEF Restart
<1>1. /\ trunk = "up" /\ want' = w /\ routed' = {} /\ UNCHANGED <<kernel, trunk>> /\ StartPass
  BY DEF Restart
<1>2. /\ Work' /\ Removals' /\ Additions' /\ Asked'
      /\ stage' = 1 /\ goal' = want' /\ op' = NoOp
  BY <1>1, StartingKeeps
<1>3. record' \in [Rule -> Nat] /\ (~misread' => \A r \in Rule : record'[r] = kernel'[r])
  BY <1>0, <1>1, KindsApart DEF Found, IInv, Types
<1>4. Types'
  BY <1>1, <1>2, <1>3 DEF IInv, Types, NoOp, Adding, Removing
<1>5. Books'
  BY <1>1, <1>2, <1>3, <1>4, KindsApart DEF Books, UpBooks, Adding, Removing, Types, Honest
<1> QED
  BY <1>2, <1>4, <1>5 DEF IInv

-----------------------------------------------------------------------------
(* The pass.                                                                *)

\* Between two effects no rule is in hand.
LEMMA Idle == ASSUME op = NoOp PROVE ~Adding /\ ~Removing
BY DEF Adding, Removing

LEMMA NextLoopKeeps == ASSUME IInv, NextLoop PROVE IInv'
<1>1. /\ op = NoOp /\ todo = {} /\ stage \in 1..5 /\ stage' = stage + 1 /\ todo' = Loop(stage + 1)
      /\ UNCHANGED <<want, goal, op, again, failed, record, routed, kernel, trunk, misread, overtaken>>
  BY DEF NextLoop, Between, IInv, Types, recordVars, history
<1>2. ~Adding /\ ~Removing /\ ~Adding' /\ ~Removing'
  BY <1>1, Idle DEF Adding, Removing
<1>3. /\ stage = 1 => todo' = Recorded(Block) \ goal
      /\ stage = 2 => todo' \subseteq Laptop
      /\ stage = 3 => todo' = Dnat \cap goal
      /\ stage = 4 => todo' = Block \cap goal
      /\ stage = 5 => todo' = Route \cap goal
  <2>1. /\ Loop(2) = Recorded(Block) \ goal /\ Loop(3) \subseteq routed /\ Loop(4) = Dnat \cap goal
        /\ Loop(5) = Block \cap goal /\ Loop(6) = Route \cap goal
    BY DEF Loop
  <2> QED
    BY <1>1, <2>1 DEF IInv, Types
<1>4. op' = NoOp /\ Recorded(Dnat)' = Recorded(Dnat) /\ Recorded(Block)' = Recorded(Block)
      /\ Recorded(Dnat) \subseteq Dnat /\ Recorded(Block) \subseteq Block
      /\ op.item \notin Dnat \cup Block
  BY <1>1, KindsApart DEF Recorded, NoOp, Rule, Item
<1>5. Work'
  <2>1. \A i \in todo' : Concerns(i)'
    BY <1>1, <1>3, <1>4 DEF Concerns
  <2> QED
    BY <1>4, <2>1 DEF Work
<1>6. Removals'
  BY <1>1, <1>3, <1>4 DEF IInv, Removals, Through
<1>7. Additions'
  BY <1>1, <1>3, <1>4 DEF IInv, Additions, Through
<1>8. Asked'
  BY <1>1 DEF IInv, Asked
<1>9. Types'
  BY <1>1, <1>2, <1>4 DEF IInv, Types
<1>10. Books'
  BY <1>1, <1>2, <1>4, BooksRest
<1> QED
  BY <1>5, <1>6, <1>7, <1>8, <1>9, <1>10 DEF IInv

LEMMA EndPassKeeps == ASSUME IInv, EndPass PROVE IInv'
<1>1. /\ op = NoOp /\ todo = {} /\ stage = 6
      /\ UNCHANGED <<want, record, routed, kernel, trunk, misread, overtaken>>
  BY DEF EndPass, Between, recordVars, history
<1>2. CASE again
  <2>1. StartPass
    BY <1>2 DEF EndPass
  <2>2. /\ Work' /\ Removals' /\ Additions' /\ Asked'
        /\ stage' = 1 /\ goal' = want' /\ op' = NoOp
    BY <2>1, StartingKeeps
  <2>3. ~Adding' /\ ~Removing' /\ ~Adding /\ ~Removing
    BY <1>1, <2>2 DEF Adding, Removing
  <2>4. Types'
    BY <1>1, <2>2, <2>3 DEF IInv, Types
  <2>5. Books'
    BY <1>1, <2>2, <2>3, BooksRest
  <2> QED
    BY <2>2, <2>4, <2>5 DEF IInv
<1>3. CASE ~again
  <2>1. stage' = 0 /\ UNCHANGED <<goal, todo, op, again, failed>>
    BY <1>3 DEF EndPass
  <2>2. ~Adding' /\ ~Removing' /\ ~Adding /\ ~Removing
    BY <1>1, <2>1 DEF Adding, Removing
  <2>3. Work'
    BY <1>1, <2>1 DEF Work
  <2>4. Removals' /\ Additions' /\ Asked'
    BY <1>1, <1>3, <2>1 DEF IInv, Removals, Additions, Asked, Through, Recorded
  <2>5. Types'
    BY <1>1, <2>1, <2>2 DEF IInv, Types
  <2>6. Books'
    BY <1>1, <2>1, <2>2, BooksRest
  <2> QED
    BY <2>3, <2>4, <2>5, <2>6 DEF IInv
<1> QED
  BY <1>2, <1>3

LEMMA SkipKeeps == ASSUME IInv, NEW i \in todo, Skip(i) PROVE IInv'
<1>1. /\ op = NoOp /\ stage > 0 /\ todo' = todo \ {i} /\ IsThere(i)
      /\ routed' = IF stage = 6 THEN routed \cup {Owner[i]} ELSE routed
      /\ UNCHANGED <<want, stage, goal, op, again, failed, record, kernel, trunk, misread, overtaken>>
  BY DEF Skip, Between, history
<1>2. Concerns(i) /\ \A j \in todo : Concerns(j)
  BY <1>1 DEF IInv, Work
<1>3. ~Adding /\ ~Removing /\ ~Adding' /\ ~Removing'
  BY <1>1, Idle DEF Adding, Removing
<1>4. Work'
  BY <1>1, <1>2 DEF Work, Concerns
<1>5. /\ stage \in {4, 5, 6}
      /\ stage = 4 => i \in Recorded(Dnat)
      /\ stage = 5 => i \in Recorded(Block)
  BY <1>1, <1>2 DEF IsThere, Concerns, Recorded
<1>6. Recorded(Dnat)' = Recorded(Dnat) /\ Recorded(Block)' = Recorded(Block)
  BY <1>1 DEF Recorded
<1>7. Removals' /\ Additions' /\ Asked'
  BY <1>1, <1>5, <1>6 DEF IInv, Removals, Additions, Asked, Through
<1>8. routed' \subseteq Laptop
  BY <1>1, <1>2 DEF IInv, Types, Concerns, Laptop
<1>9. Types'
  BY <1>1, <1>3, <1>8 DEF IInv, Types
<1>10. Books'
  BY <1>1, <1>3, BooksRest
<1> QED
  BY <1>4, <1>7, <1>9, <1>10 DEF IInv

LEMMA CommandsNeeded ==
  ASSUME IInv, NEW i, Concerns(i)
  PROVE  /\ stage \in {1, 2, 4, 5} /\ trunk # "up" => Commands(i) = 0
         /\ stage = 1 /\ trunk = "up" => Commands(i) = record[i]
         /\ stage \in {2, 4, 5} /\ trunk = "up" => Commands(i) = 1
BY DEF IInv, Types, Commands

LEMMA IssueKeeps == ASSUME IInv, NEW i \in todo, Issue(i) PROVE IInv'
<1>1. /\ op = NoOp /\ stage > 0 /\ ~IsThere(i) /\ todo' = todo \ {i}
      /\ op' = [item |-> i, left |-> Commands(i), real |-> Commands(i) > 0]
      /\ UNCHANGED <<want, stage, goal, again, failed, record, routed, kernel, trunk, misread, overtaken>>
  BY DEF Issue, Between, history, recordVars
<1>2. Concerns(i) /\ \A j \in todo : Concerns(j)
  BY <1>1 DEF IInv, Work
<1>3. stage \in {1, 2, 4, 5} => i \in Rule /\ record[i] \in Nat /\ kernel[i] \in Nat
  BY <1>2, KindsApart DEF IInv, Types, Concerns
<1>4. /\ op'.item = i /\ op'.left = Commands(i) /\ (op'.real <=> Commands(i) > 0)
      /\ op' = [item |-> op'.item, left |-> op'.left, real |-> op'.real]
  BY <1>1
<1>5. /\ Removing' <=> stage \in {1, 2}
      /\ Adding' <=> stage \in {4, 5}
  <2>1. op' # NoOp
    <3>1. i # "none"
      BY <1>2, KindsApart, <1>1 DEF Concerns, IInv, Types
    <3> QED
      BY <1>4, <3>1 DEF NoOp
  <2> QED
    BY <1>1, <2>1 DEF Adding, Removing
<1>6. Work'
  BY <1>1, <1>2, <1>4 DEF Work, Concerns
<1>7. Removals' /\ Additions' /\ Asked'
  <2>1. Recorded(Dnat)' = Recorded(Dnat) /\ Recorded(Block)' = Recorded(Block)
    BY <1>1 DEF Recorded
  <2>2. Recorded(Dnat) \subseteq Dnat /\ Recorded(Block) \subseteq Block /\ op.item \notin Dnat \cup Block
    BY <1>1, KindsApart DEF Recorded, NoOp, Rule, Item
  <2> QED
    BY <1>1, <1>4, <2>1, <2>2 DEF IInv, Removals, Additions, Asked, Through
<1>8. /\ Removing' => Commands(i) \in Nat
      /\ Adding' => Commands(i) \in {0, 1}
  BY <1>1, <1>2, <1>3, <1>5, CommandsNeeded
<1>9. Types'
  <2>1. Removing' => op'.left \in Nat
    BY <1>4, <1>8
  <2>2. Adding' => op'.left \in 0..1 /\ (op'.left = 0 \/ op'.real)
    BY <1>4, <1>8
  <2> QED
    BY <1>1, <1>4, <2>1, <2>2 DEF IInv, Types
<1>10. Books'
  <2>1. CASE trunk = "up"
    <3> SUFFICES ASSUME Honest PROVE UpBooks'
      BY <1>1, <2>1 DEF Books, Honest
    <3>1. UpBooks /\ ~Adding /\ ~Removing
      BY <1>1, <2>1, Idle DEF IInv, Books
    <3>2. \A r \in Rule : kernel'[r] <= record'[r] /\ (record'[r] > 0 => kernel'[r] > 0)
      BY <1>1, <3>1 DEF UpBooks
    <3>3. Removing' => kernel'[i] <= Commands(i)
      <4>1. stage = 2 => kernel[i] <= 1
        BY <1>2 DEF IInv, Types, Concerns
      <4> QED
        BY <1>1, <1>2, <1>3, <1>5, <2>1, <3>2, <4>1, CommandsNeeded
    <3>4. Adding' => kernel'[i] = 0 /\ Commands(i) = 1
      <4>1. stage \in {4, 5} => record[i] = 0
        BY <1>1, <1>3 DEF IsThere
      <4> QED
        BY <1>1, <1>2, <1>3, <1>5, <2>1, <3>2, <4>1, CommandsNeeded
    <3> QED
      BY <1>4, <3>2, <3>3, <3>4 DEF UpBooks
  <2>2. CASE trunk # "up"
    <3>1. Adding' => op'.left = 0 /\ ~op'.real
      BY <1>1, <1>2, <1>4, <1>5, <2>2, CommandsNeeded
    <3> QED
      BY <1>1, <2>2, <3>1 DEF IInv, Books, Honest
  <2> QED
    BY <2>1, <2>2
<1> QED
  BY <1>6, <1>7, <1>9, <1>10 DEF IInv

\* What one command does to the kernel.
LEMMA EffectIs ==
  ASSUME IInv, op # NoOp
  PROVE  /\ op.item # "none" /\ Concerns(op.item) /\ (Adding \/ Removing => op.item \in Rule)
         /\ Effect \in [Item -> Nat]
         /\ \A r \in Rule :
              Effect[r] = IF Removing /\ r = op.item /\ kernel[r] > 0 THEN kernel[r] - 1
                          ELSE IF Adding /\ r = op.item /\ kernel[r] = 0 THEN 1
                          ELSE kernel[r]
<1>1. stage \in 1..6 /\ Concerns(op.item) /\ kernel \in [Item -> Nat] /\ goal \in Situations
  BY DEF IInv, Types, Work, Concerns
<1>2. op.item # "none" /\ (Adding \/ Removing => op.item \in Rule)
      /\ (stage # 3 => op.item \in Item) /\ (stage = 6 => op.item \in Route)
  BY <1>1, KindsApart DEF Concerns, Adding, Removing, Laptop
<1>3. CASE stage \in {1, 2}
  <2>1. Removing /\ ~Adding
    BY <1>3 DEF Removing, Adding
  <2>2. Effect = [kernel EXCEPT ![op.item] = IF @ > 0 THEN @ - 1 ELSE 0]
    BY <1>3 DEF Effect
  <2>3. kernel[op.item] \in Nat
    BY <1>1, <1>2, <1>3
  <2> QED
    BY <1>1, <1>2, <2>1, <2>2, <2>3, KindsApart
<1>4. CASE stage \in {4, 5}
  <2>1. Adding /\ ~Removing
    BY <1>4 DEF Removing, Adding
  <2>2. Effect = [kernel EXCEPT ![op.item] = IF @ > 0 THEN @ ELSE 1]
    BY <1>4 DEF Effect
  <2>3. kernel[op.item] \in Nat
    BY <1>1, <1>2, <1>4
  <2> QED
    BY <1>1, <1>2, <2>1, <2>2, <2>3, KindsApart
<1>5. CASE stage \in {3, 6}
  <2>1. ~Adding /\ ~Removing
    BY <1>5 DEF Removing, Adding
  <2>2. /\ Preferred(op.item) \subseteq Route /\ Preferred(Owner[op.item]) \subseteq Route
        /\ \A r \in Rule : r \notin Route
    BY KindsApart DEF Preferred
  <2>3. \/ Effect = [r \in Item |-> IF r \in Preferred(op.item) THEN 0 ELSE kernel[r]]
        \/ Effect = [r \in Item |-> IF r \in Preferred(Owner[op.item]) THEN 0 ELSE kernel[r]]
        \/ op.item \in Route /\ Effect = [kernel EXCEPT ![op.item] = 1]
    BY <1>2, <1>5 DEF Effect
  <2> QED
    BY <1>1, <1>2, <2>1, <2>2, <2>3, KindsApart
<1> QED
  BY <1>1, <1>2, <1>3, <1>4, <1>5

LEMMA CommandKeeps == ASSUME IInv, CommandRuns PROVE IInv'
<1>1. /\ op.left > 0 /\ kernel' = Effect /\ op' = [op EXCEPT !.left = @ - 1]
      /\ UNCHANGED <<want, stage, goal, todo, again, failed, record, routed, trunk, misread, overtaken>>
  BY DEF CommandRuns, recordVars, history
<1>2. op # NoOp
  BY <1>1 DEF NoOp
<1>3. /\ op.item # "none" /\ Concerns(op.item) /\ (Adding \/ Removing => op.item \in Rule)
      /\ kernel' \in [Item -> Nat]
      /\ \A r \in Rule :
           kernel'[r] = IF Removing /\ r = op.item /\ kernel[r] > 0 THEN kernel[r] - 1
                        ELSE IF Adding /\ r = op.item /\ kernel[r] = 0 THEN 1
                        ELSE kernel[r]
  BY <1>1, <1>2, EffectIs
<1>4. /\ op'.item = op.item /\ op'.left = op.left - 1 /\ op'.real = op.real
      /\ op' = [item |-> op'.item, left |-> op'.left, real |-> op'.real]
  <2>1. op = [item |-> op.item, left |-> op.left, real |-> op.real]
    BY DEF IInv, Types
  <2>2. op' = [item |-> op.item, left |-> op.left - 1, real |-> op.real]
    BY <1>1, <2>1
  <2> QED
    BY <2>2
<1>5. op' # NoOp /\ (Adding' <=> Adding) /\ (Removing' <=> Removing)
  BY <1>1, <1>2, <1>3, <1>4 DEF NoOp, Adding, Removing
<1>6. Work'
  <2>1. \A i : Concerns(i)' <=> Concerns(i)
    BY <1>1 DEF Concerns
  <2> QED
    BY <1>1, <1>3, <1>4, <2>1 DEF IInv, Work
<1>7. Removals' /\ Additions' /\ Asked'
  BY <1>1, <1>2, <1>4 DEF IInv, Removals, Additions, Asked, Through, Recorded
<1>8. /\ Removing => op.left \in Nat \ {0}
      /\ Adding => op.left = 1 /\ op.real
  BY <1>1 DEF IInv, Types
<1>9. Types'
  <2>1. \A b \in Block : kernel'[b] <= 1
    BY <1>3, KindsApart DEF IInv, Types
  <2>2. Removing' => op'.left \in Nat
    BY <1>4, <1>5, <1>8
  <2>3. Adding' => op'.left = 0
    BY <1>4, <1>5, <1>8
  <2> QED
    BY <1>1, <1>3, <1>4, <2>1, <2>2, <2>3 DEF IInv, Types
<1>10. Books'
  <2> SUFFICES ASSUME Honest
               PROVE  /\ trunk = "up" => UpBooks'
                      /\ trunk = "torn" => (Adding' /\ op'.left > 0 => \A r \in Rule : kernel'[r] = 0)
                      /\ trunk = "flushed" => /\ \A r \in Rule : kernel'[r] = 0
                                              /\ Adding' => op'.left = 0 /\ ~op'.real
    BY <1>1 DEF Books, Honest
  <2>1. CASE trunk = "up"
    <3>1. UpBooks /\ ~(Adding /\ Removing) /\ record \in [Rule -> Nat] /\ kernel \in [Item -> Nat]
      BY <2>1 DEF IInv, Books, Types, Adding, Removing
    <3>2. \A r \in Rule : record[r] \in Nat /\ kernel[r] \in Nat
      BY <3>1, KindsApart
    <3>3. \A r \in Rule : kernel'[r] <= record[r] \/ (Adding /\ op.item = r)
      BY <1>3, <3>1, <3>2 DEF UpBooks
    <3>4. \A r \in Rule : record[r] > 0 => kernel'[r] > 0 \/ (Removing /\ op.item = r)
      BY <1>3, <3>1, <3>2 DEF UpBooks
    <3>5. Removing => kernel'[op.item] <= op.left - 1
      BY <1>3, <1>8, <3>1, <3>2 DEF UpBooks
    <3>6. Adding => kernel'[op.item] = 1 - (op.left - 1)
      BY <1>3, <1>8, <3>1, <3>2 DEF UpBooks
    <3> QED
      BY <1>1, <1>4, <1>5, <2>1, <3>3, <3>4, <3>5, <3>6 DEF UpBooks
  <2>2. CASE trunk = "torn"
    BY <1>4, <1>5, <1>8, <2>2
  <2>3. CASE trunk = "flushed"
    <3>1. ~Adding /\ \A r \in Rule : kernel[r] = 0
      BY <1>8, <2>3 DEF IInv, Books
    <3> QED
      BY <1>3, <1>5, <2>3, <3>1
  <2> QED
    BY <2>1, <2>2, <2>3
<1> QED
  BY <1>6, <1>7, <1>9, <1>10 DEF IInv

LEMMA FailureKeeps == ASSUME IInv, CommandFails PROVE IInv'
<1>1. /\ op.left > 0 /\ op' = NoOp /\ failed' = TRUE
      /\ (stage \in {1, 2} => kernel[op.item] > 0 \/ trunk # "up")
      /\ UNCHANGED <<want, stage, goal, todo, again, record, routed, kernel, trunk, misread, overtaken>>
  BY DEF CommandFails, recordVars, history
<1>2. op # NoOp /\ ~Adding' /\ ~Removing'
  BY <1>1 DEF NoOp, Adding, Removing
<1>3. Work'
  BY <1>1 DEF IInv, Work, Concerns
<1>4. Removals' /\ Additions' /\ Asked'
  BY <1>1, <1>2 DEF IInv, Removals, Additions, Asked
<1>5. Types'
  BY <1>1, <1>2 DEF IInv, Types, NoOp
<1>6. Books'
  <2>1. CASE Honest /\ trunk = "up"
    <3>1. UpBooks /\ (Adding \/ Removing => op.item \in Rule)
      BY <1>2, <2>1, EffectIs DEF IInv, Books
    <3>2. Adding => kernel[op.item] <= record[op.item]
      <4>1. Adding => op.left = 1
        BY <1>1 DEF IInv, Types
      <4> QED
        BY <3>1, <4>1 DEF UpBooks, IInv, Types
    <3>3. Removing => kernel[op.item] > 0
      BY <1>1, <2>1 DEF Removing
    <3>4. \A r \in Rule : kernel[r] <= record[r]
      BY <3>1, <3>2 DEF UpBooks
    <3>5. \A r \in Rule : record[r] > 0 => kernel[r] > 0
      BY <3>1, <3>3 DEF UpBooks
    <3> QED
      BY <1>1, <1>2, <2>1, <3>4, <3>5 DEF Books, UpBooks
  <2>2. CASE ~(Honest /\ trunk = "up")
    BY <1>1, <1>2, <2>2 DEF IInv, Books, Honest
  <2> QED
    BY <2>1, <2>2
<1> QED
  BY <1>3, <1>4, <1>5, <1>6 DEF IInv

LEMMA MisreadingKeeps == ASSUME IInv, CheckFails PROVE IInv'
<1>1. /\ op.left > 0 /\ stage \in {1, 2} /\ op' = [op EXCEPT !.left = @ - 1] /\ misread'
      /\ UNCHANGED <<want, stage, goal, todo, again, failed, record, routed, kernel, trunk>>
  BY DEF CheckFails, recordVars
<1>2. op # NoOp
  BY <1>1 DEF NoOp
<1>3. op.item # "none" /\ Removing /\ op.left \in Nat
  BY <1>1, <1>2, EffectIs DEF Removing, IInv, Types
<1>4. /\ op'.item = op.item /\ op'.left = op.left - 1 /\ op'.real = op.real
      /\ op' = [item |-> op'.item, left |-> op'.left, real |-> op'.real]
  <2>1. op = [item |-> op.item, left |-> op.left, real |-> op.real]
    BY DEF IInv, Types
  <2>2. op' = [item |-> op.item, left |-> op.left - 1, real |-> op.real]
    BY <1>1, <2>1
  <2> QED
    BY <2>2
<1>5. op' # NoOp /\ ~Adding'
  BY <1>1, <1>3, <1>4 DEF NoOp, Adding
<1>6. Work'
  BY <1>1, <1>2, <1>4 DEF IInv, Work, Concerns
<1>7. Removals' /\ Additions' /\ Asked'
  BY <1>1, <1>2, <1>4 DEF IInv, Removals, Additions, Asked, Through, Recorded
<1>8. Types'
  BY <1>1, <1>3, <1>4, <1>5 DEF IInv, Types
<1>9. Books'
  BY <1>1 DEF Books, Honest
<1> QED
  BY <1>6, <1>7, <1>8, <1>9 DEF IInv

LEMMA DoneKeeps == ASSUME IInv, OpDone PROVE IInv'
<1>1. /\ op # NoOp /\ op.left = 0 /\ op' = NoOp
      /\ record' = IF stage \in {1, 2} THEN [record EXCEPT ![op.item] = 0]
                   ELSE IF stage \in {4, 5} THEN [record EXCEPT ![op.item] = 1]
                   ELSE record
      /\ routed' = IF stage = 3 THEN routed \ {op.item}
                   ELSE IF stage = 6 THEN routed \cup {Owner[op.item]}
                   ELSE routed
      /\ UNCHANGED <<want, stage, goal, todo, again, failed, kernel, trunk, misread, overtaken>>
  BY DEF OpDone, history
<1>2. ~Adding' /\ ~Removing'
  BY <1>1 DEF Adding, Removing
<1>3. Concerns(op.item) /\ stage \in 1..6 /\ (Adding \/ Removing => op.item \in Rule)
      /\ (Removing <=> stage \in {1, 2}) /\ (Adding <=> stage \in {4, 5})
  BY <1>1, EffectIs DEF IInv, Types, Concerns, Adding, Removing
<1>4. /\ record' \in [Rule -> Nat]
      /\ \A r \in Rule : record'[r] = IF Removing /\ r = op.item THEN 0
                                      ELSE IF Adding /\ r = op.item THEN 1
                                      ELSE record[r]
  BY <1>1, <1>3 DEF IInv, Types
<1>5. Work'
  BY <1>1 DEF IInv, Work, Concerns
<1>6. ~failed => Recorded(Dnat)' = (IF stage = 1 THEN Recorded(Dnat) \ {op.item}
                                    ELSE IF stage = 4 THEN Recorded(Dnat) \cup {op.item}
                                    ELSE Recorded(Dnat))
  <2>1. stage \in {1, 4} => op.item \in Dnat
    BY <1>3 DEF Concerns
  <2>2. stage \in {2, 5} => op.item \notin Dnat
    BY <1>3, KindsApart DEF Concerns
  <2> QED
    BY <1>3, <1>4, <2>1, <2>2, KindsApart DEF Recorded
<1>7. ~failed => Recorded(Block)' = (IF stage = 2 THEN Recorded(Block) \ {op.item}
                                     ELSE IF stage = 5 THEN Recorded(Block) \cup {op.item}
                                     ELSE Recorded(Block))
  <2>1. stage \in {2, 5} => op.item \in Block
    BY <1>3 DEF Concerns
  <2>2. stage \in {1, 4} => op.item \notin Block
    BY <1>3, KindsApart DEF Concerns
  <2> QED
    BY <1>3, <1>4, <2>1, <2>2, KindsApart DEF Recorded
<1>8. stage \in {4, 5} => op.item \in goal
  BY <1>3 DEF Concerns
<1>9. Removals'
  BY <1>1, <1>3, <1>6, <1>7, <1>8 DEF IInv, Removals, Through
<1>10. Additions' /\ Asked'
  BY <1>1, <1>3, <1>6, <1>7 DEF IInv, Additions, Asked, Through
<1>11. routed' \subseteq Laptop
  BY <1>1, <1>3 DEF IInv, Types, Concerns, Laptop
<1>12. Types'
  BY <1>1, <1>2, <1>4, <1>11 DEF IInv, Types, NoOp
<1>13. Books'
  <2>1. CASE Honest /\ trunk = "up"
    <3>1. UpBooks /\ \A r \in Rule : record[r] \in Nat /\ kernel[r] \in Nat
      BY <2>1, KindsApart DEF IInv, Books, Types
    <3>2. Removing => kernel[op.item] = 0
      BY <1>1, <1>3, <3>1 DEF UpBooks
    <3>3. Adding => kernel[op.item] = 1
      BY <1>1, <3>1 DEF UpBooks
    <3>4. \A r \in Rule : kernel[r] <= record'[r] /\ (record'[r] > 0 => kernel[r] > 0)
      BY <1>3, <1>4, <3>1, <3>2, <3>3 DEF UpBooks
    <3> QED
      BY <1>1, <1>2, <2>1, <3>4 DEF Books, UpBooks
  <2>2. CASE ~(Honest /\ trunk = "up")
    BY <1>1, <1>2, <2>2 DEF IInv, Books, Honest
  <2> QED
    BY <2>1, <2>2
<1> QED
  BY <1>5, <1>9, <1>10, <1>12, <1>13 DEF IInv

-----------------------------------------------------------------------------
LEMMA InitIInv == Init => IInv
<1> SUFFICES ASSUME Init PROVE IInv
  OBVIOUS
<1>1. /\ want \in Situations /\ goal = want /\ stage = 1 /\ todo = Recorded(Dnat) \ want /\ op = NoOp
      /\ again = FALSE /\ trunk = "up" /\ routed = {}
      /\ kernel \in [Item -> 0..2] /\ record = [r \in Rule |-> kernel[r]]
      /\ \A i \in Block \cup Route : kernel[i] < 2
  BY DEF Init
<1>2. ~Adding /\ ~Removing
  BY <1>1, Idle
<1>3. kernel \in [Item -> Nat] /\ record \in [Rule -> Nat] /\ \A r \in Rule : record[r] = kernel[r]
  BY <1>1, KindsApart
<1>4. Types
  <2>1. \A b \in Block : kernel[b] <= 1
    BY <1>1, <1>3, KindsApart
  <2> QED
    BY <1>1, <1>2, <1>3, <2>1 DEF Types, NoOp
<1>5. Work
  BY <1>1 DEF Work, Concerns, Recorded
<1>6. Books
  BY <1>1, <1>2, <1>3, KindsApart DEF Books, UpBooks
<1>7. Removals /\ Additions /\ Asked
  BY <1>1 DEF Removals, Additions, Asked, Through
<1> QED
  BY <1>4, <1>5, <1>6, <1>7 DEF IInv

LEMMA NextIInv == IInv /\ [Next]_vars => IInv'
<1> SUFFICES ASSUME IInv, [Next]_vars PROVE IInv'
  OBVIOUS
<1>1. CASE Pass
  BY <1>1, NextLoopKeeps, EndPassKeeps, SkipKeeps, IssueKeeps, CommandKeeps, DoneKeeps DEF Pass
<1>2. CASE CommandFails \/ CheckFails
  BY <1>2, FailureKeeps, MisreadingKeeps
<1>3. CASE (\E w \in Situations : Touch(w)) \/ Sweep
  BY <1>3, TouchKeeps, SweepKeeps
<1>4. CASE \E l \in Laptop : \E routes \in SUBSET Route : OthersRoute(l, routes)
  BY <1>4, OthersKeep
<1>5. CASE TearDown \/ BringUp \/ KernelFlushed
  BY <1>5, TearDownKeeps, BringUpKeeps, KernelFlushedKeeps
<1>6. CASE \E w \in Situations : Restart(w)
  BY <1>6, RestartKeeps
<1>7. CASE UNCHANGED vars
  <2>1. UNCHANGED <<want, passVars, recordVars, kernel, trunk, misread, overtaken>>
    BY <1>7 DEF vars, history
  <2>2. /\ Work' /\ Removals' /\ Additions' /\ Asked'
        /\ UNCHANGED <<want, stage, goal, op, record, routed>>
        /\ (Adding' <=> Adding) /\ (Removing' <=> Removing)
    BY <2>1, PassRests
  <2>3. Books'
    BY <2>1, <2>2, BooksRest
  <2>4. Types'
    BY <2>1, <2>2 DEF IInv, Types
  <2> QED
    BY <2>2, <2>3, <2>4 DEF IInv
<1> QED
  BY <1>1, <1>2, <1>3, <1>4, <1>5, <1>6, <1>7 DEF Next

LEMMA Invariance == Spec => []IInv
BY InitIInv, NextIInv, PTL DEF Spec

-----------------------------------------------------------------------------
(* The types, of which the invariant has the better part.                  *)

OtherTypes ==
  /\ again \in BOOLEAN /\ failed \in BOOLEAN /\ misread \in BOOLEAN /\ overtaken \in BOOLEAN
  /\ todo \subseteq Item \cup Laptop
  /\ op = NoOp \/ op \in [item : Item \cup Laptop, left : Nat, real : BOOLEAN]
  /\ changes \in 0..MaxChanges /\ troubles \in 0..MaxTroubles

LEMMA StartTypes ==
  ASSUME StartPass
  PROVE  /\ again' \in BOOLEAN /\ failed' \in BOOLEAN /\ op' = NoOp /\ todo' \subseteq Item \cup Laptop
BY KindsApart DEF StartPass

LEMMA SyncTypes ==
  ASSUME OtherTypes, Sync
  PROVE  /\ again' \in BOOLEAN /\ failed' \in BOOLEAN /\ todo' \subseteq Item \cup Laptop
         /\ op' = NoOp \/ op' = op
BY StartTypes DEF OtherTypes, Sync

LEMMA CountTypes ==
  ASSUME OtherTypes,
         \/ UNCHANGED <<changes, troubles>>
         \/ changes < MaxChanges /\ changes' = changes + 1 /\ UNCHANGED troubles
         \/ troubles < MaxTroubles /\ troubles' = troubles + 1 /\ UNCHANGED changes
  PROVE  changes' \in 0..MaxChanges /\ troubles' \in 0..MaxTroubles
BY BoundAssumption DEF OtherTypes

LEMMA PassTypes == ASSUME IInv, OtherTypes, Pass PROVE OtherTypes'
<1>1. UNCHANGED <<changes, troubles, misread, overtaken>>
  BY DEF Pass, NextLoop, EndPass, Skip, Issue, CommandRuns, OpDone, history
<1>2. CASE NextLoop
  <2>1. UNCHANGED <<op, again, failed>> /\ todo' \subseteq Item \cup Laptop
    <3>1. op = NoOp /\ stage' = stage + 1 /\ stage \in 1..5 /\ todo' = Loop(stage + 1)
          /\ routed \subseteq Laptop
      BY <1>2 DEF NextLoop, Between, IInv, Types
    <3>2. /\ Loop(2) \subseteq Block /\ Loop(3) \subseteq routed /\ Loop(4) \subseteq Dnat
          /\ Loop(5) \subseteq Block /\ Loop(6) \subseteq Route
      BY DEF Loop, Recorded
    <3> QED
      BY <1>2, <3>1, <3>2, KindsApart DEF NextLoop
  <2> QED
    BY <1>1, <2>1 DEF OtherTypes
<1>3. CASE EndPass
  <2>1. (again /\ StartPass) \/ UNCHANGED <<todo, op, again, failed>>
    BY <1>3 DEF EndPass
  <2> QED
    BY <1>1, <2>1, StartTypes DEF OtherTypes
<1>4. CASE \E i \in todo : Skip(i)
  BY <1>1, <1>4 DEF OtherTypes, Skip
<1>5. ASSUME NEW i \in todo, Issue(i) PROVE OtherTypes'
  <2>1. /\ op' = [item |-> i, left |-> Commands(i), real |-> Commands(i) > 0]
        /\ todo' = todo \ {i} /\ UNCHANGED <<again, failed>> /\ Concerns(i)
    BY <1>5 DEF Issue, Between, IInv, Types, Work
  <2>2. \A l : Cardinality(Preferred(l)) \in Nat
    BY KindAssumption, FS_Subset, FS_CardinalityType DEF Preferred
  <2>3. Commands(i) \in Nat
    <3>1. CASE stage \in {1, 2, 4, 5}
      <4>1. stage = 1 => record[i] \in Nat
        BY <2>1, KindsApart DEF IInv, Types, Concerns
      <4> QED
        BY <2>1, <3>1, <4>1, CommandsNeeded
    <3>2. CASE stage = 3
      BY <2>2, <3>2 DEF Commands
    <3>3. CASE stage = 6
      BY <2>2, <3>3 DEF Commands
    <3> QED
      BY <2>1, <3>1, <3>2, <3>3 DEF Concerns, IInv, Types
  <2>4. i \in Item \cup Laptop /\ (Commands(i) > 0) \in BOOLEAN
    BY DEF OtherTypes
  <2> QED
    BY <1>1, <2>1, <2>3, <2>4 DEF OtherTypes
<1>6. CASE CommandRuns
  <2>1. op.left > 0 /\ op' = [op EXCEPT !.left = @ - 1] /\ UNCHANGED <<todo, again, failed>>
    BY <1>6 DEF CommandRuns
  <2>2. op \in [item : Item \cup Laptop, left : Nat, real : BOOLEAN]
    BY <2>1 DEF OtherTypes, NoOp
  <2>3. op' \in [item : Item \cup Laptop, left : Nat, real : BOOLEAN]
    BY <2>1, <2>2
  <2> QED
    BY <1>1, <2>1, <2>3 DEF OtherTypes
<1>7. CASE OpDone
  BY <1>1, <1>7 DEF OtherTypes, OpDone
<1> QED
  BY <1>2, <1>3, <1>4, <1>5, <1>6, <1>7 DEF Pass

LEMMA OthersTypes ==
  ASSUME OtherTypes,
         \/ (\E w \in Situations : Touch(w) \/ Restart(w)) \/ Sweep
         \/ TearDown \/ BringUp \/ KernelFlushed
         \/ \E l \in Laptop : \E routes \in SUBSET Route : OthersRoute(l, routes)
  PROVE  OtherTypes'
<1>1. changes' \in 0..MaxChanges /\ troubles' \in 0..MaxTroubles
  BY CountTypes DEF Touch, Restart, Sweep, TearDown, BringUp, KernelFlushed, OthersRoute
<1>2. misread' \in BOOLEAN /\ overtaken' \in BOOLEAN
  <2>1. ASSUME NEW w \in Situations, Restart(w) PROVE misread' \in BOOLEAN /\ overtaken' \in BOOLEAN
    BY <2>1 DEF Restart
  <2> QED
    BY <2>1 DEF OtherTypes, Touch, Sweep, TearDown, BringUp, KernelFlushed, OthersRoute, history
<1>3. Sync \/ StartPass \/ UNCHANGED passVars
  BY DEF Touch, Restart, Sweep, TearDown, BringUp, KernelFlushed, OthersRoute
<1>4. /\ again' \in BOOLEAN /\ failed' \in BOOLEAN /\ todo' \subseteq Item \cup Laptop
      /\ op' = NoOp \/ op' = op
  BY <1>3, StartTypes, SyncTypes DEF OtherTypes, passVars
<1> QED
  BY <1>1, <1>2, <1>4 DEF OtherTypes

LEMMA FailureTypes ==
  ASSUME OtherTypes, CommandFails \/ CheckFails
  PROVE  OtherTypes'
<1>1. changes' \in 0..MaxChanges /\ troubles' \in 0..MaxTroubles
  BY CountTypes DEF CommandFails, CheckFails
<1>2. CASE CommandFails
  BY <1>1, <1>2 DEF OtherTypes, CommandFails, history
<1>3. CASE CheckFails
  <2>1. op.left > 0 /\ op' = [op EXCEPT !.left = @ - 1] /\ misread' = TRUE
        /\ UNCHANGED <<todo, again, failed, overtaken>>
    BY <1>3 DEF CheckFails
  <2>2. op \in [item : Item \cup Laptop, left : Nat, real : BOOLEAN]
    BY <2>1 DEF OtherTypes, NoOp
  <2>3. op' \in [item : Item \cup Laptop, left : Nat, real : BOOLEAN]
    BY <2>1, <2>2
  <2> QED
    BY <1>1, <2>1, <2>3 DEF OtherTypes
<1> QED
  BY <1>2, <1>3

\* Every variable keeps to the values the code can give it.
THEOREM PassTypesHold == Spec => []TypeOK
<1>1. Init => IInv /\ OtherTypes
  <2>1. Init => OtherTypes
    <3>1. Init => changes \in 0..MaxChanges /\ troubles \in 0..MaxTroubles
      BY BoundAssumption DEF Init
    <3>2. Init => todo \subseteq Item \cup Laptop
      BY KindsApart DEF Init, Recorded
    <3> QED
      BY <3>1, <3>2 DEF Init, OtherTypes
  <2> QED
    BY <2>1, InitIInv
<1>2. IInv /\ OtherTypes /\ [Next]_vars => (IInv /\ OtherTypes)'
  <2> SUFFICES ASSUME IInv, OtherTypes, [Next]_vars PROVE OtherTypes'
    BY NextIInv
  <2>1. CASE UNCHANGED vars
    BY <2>1 DEF OtherTypes, vars, passVars, history
  <2>2. CASE Next
    BY <2>2, PassTypes, OthersTypes, FailureTypes DEF Next
  <2> QED
    BY <2>1, <2>2
<1>3. IInv /\ OtherTypes => TypeOK
  BY DEF IInv, Types, OtherTypes, TypeOK
<1> QED
  BY <1>1, <1>2, <1>3, PTL DEF Spec

-----------------------------------------------------------------------------
\* A pass that rests, and of which nothing failed, left the kernel with just
\* the rules that are asked for now.
THEOREM PassesEndInLine == Spec => []RestsInLine
<1>1. IInv => RestsInLine
  <2> SUFFICES ASSUME IInv, stage = 0, trunk = "up", ~failed, ~misread, ~overtaken
               PROVE  RulesMatch
    BY DEF RestsInLine
  <2>1. ~again /\ op = NoOp /\ goal = want
    BY DEF IInv, Asked
  <2>2. UpBooks /\ ~Adding /\ ~Removing
    BY <2>1, Idle DEF IInv, Books, Honest
  <2>3. \A r \in Rule : record[r] \in Nat /\ kernel[r] \in Nat
    BY KindsApart DEF IInv, Types
  <2>4. \A r \in Rule : kernel[r] > 0 <=> record[r] > 0
    BY <2>2, <2>3 DEF UpBooks
  <2>5. Recorded(Dnat) = Dnat \cap goal /\ Recorded(Block) = Block \cap goal
    BY <2>1 DEF IInv, Removals, Additions, Through, Recorded
  <2>6. \A r \in Rule : record[r] > 0 <=> r \in goal
    BY <2>5 DEF Recorded, Rule
  <2> QED
    BY <2>1, <2>4, <2>6 DEF RulesMatch
<1> QED
  BY <1>1, Invariance, PTL

\* What the kernel has is on record, so that a pass can take it away.
THEOREM NothingStrays == Spec => []NoStrayRule
<1>1. IInv => NoStrayRule
  <2> SUFFICES ASSUME IInv, trunk = "up", ~misread, ~overtaken, NEW r \in Rule, kernel[r] > 0
               PROVE  record[r] > 0 \/ op.item = r
    BY DEF NoStrayRule
  <2>1. kernel[r] <= record[r] \/ op.item = r
    BY DEF IInv, Books, UpBooks, Honest
  <2> QED
    BY <2>1, KindsApart DEF IInv, Types
<1> QED
  BY <1>1, Invariance, PTL

\* Traffic starts to go to a laptop only once the last one's rule is gone.
THEOREM TakesAwayFirst == Spec => LastRobotsRuleIsGone
<1>1. ASSUME IInv, [Next]_vars, ~failed, ~misread, ~overtaken, NEW p \in Dnat, NEW q \in Dnat,
             kernel'[p] > kernel[p], Slot[p] = Slot[q], p # q
      PROVE  kernel[q] = 0
  <2>1. /\ p \in Rule /\ q \in Rule /\ p \in Item /\ p \notin Route
        /\ kernel[p] \in Nat /\ kernel[q] \in Nat /\ record[q] \in Nat
    BY <1>1, KindsApart DEF IInv, Types
  <2>2. CASE CommandRuns
    <3>1. op.left > 0 /\ op # NoOp /\ kernel' = Effect
      BY <2>2 DEF CommandRuns, NoOp
    <3>2. Adding /\ p = op.item
      BY <1>1, <2>1, <3>1, EffectIs
    <3>3. p \in goal /\ stage = 4
      BY <1>1, <3>1, <3>2, <2>1, KindsApart DEF IInv, Work, Concerns, Adding
    <3>4. q \notin goal
      BY <1>1, <3>3, SituationAssumption DEF IInv, Types
    <3>5. record[q] = 0
      BY <1>1, <2>1, <3>3, <3>4 DEF IInv, Removals, Through, Recorded
    <3>6. CASE trunk = "up"
      BY <1>1, <2>1, <3>2, <3>5, <3>6 DEF IInv, Books, UpBooks, Honest
    <3>7. CASE trunk = "torn"
      BY <1>1, <2>1, <3>1, <3>2, <3>7 DEF IInv, Books, Honest
    <3>8. CASE trunk = "flushed"
      BY <1>1, <2>1, <3>8 DEF IInv, Books, Honest
    <3> QED
      BY <1>1, <3>6, <3>7, <3>8 DEF IInv, Types
  <2>3. CASE \E l \in Laptop : \E routes \in SUBSET Route : OthersRoute(l, routes)
    BY <1>1, <2>1, <2>3 DEF OthersRoute
  <2>4. CASE TearDown \/ BringUp
    BY <1>1, <2>1, <2>4, FlushedIsEmpty DEF TearDown, BringUp
  <2>5. CASE UNCHANGED kernel
    BY <1>1, <2>1, <2>5
  <2>6. \/ CommandRuns \/ TearDown \/ BringUp \/ UNCHANGED kernel
        \/ \E l \in Laptop : \E routes \in SUBSET Route : OthersRoute(l, routes)
    BY <1>1 DEF Next, Pass, NextLoop, EndPass, Skip, Issue, OpDone, CommandFails, CheckFails, Touch,
                Sweep, KernelFlushed, Restart, vars
  <2> QED
    BY <2>2, <2>3, <2>4, <2>5, <2>6
<1>2. IInv /\ [Next]_vars
        => [~failed /\ ~misread /\ ~overtaken => \A p, q \in Dnat :
              kernel'[p] > kernel[p] /\ Slot[p] = Slot[q] /\ p # q => kernel[q] = 0]_vars
  BY <1>1
<1> QED
  BY <1>2, Invariance, PTL DEF Spec, LastRobotsRuleIsGone

-----------------------------------------------------------------------------
\* The pass's rules come and go as DriveRules says: it implements it.
THEOREM PassKeepsRules == Spec => KeepsRules
<1> DEFINE goals == goal \cap Dnat
           there == {r \in Dnat : kernel[r] > 0}
<1>1. Init => Rules!Init
  BY DEF Rules!Init
<1>2. ASSUME IInv, [Next]_vars PROVE [Rules!Next]_<<goals, there>>
  <2>1. kernel \in [Item -> Nat] /\ \A r \in Dnat : r \in Rule /\ r \in Item /\ r \notin Route /\ r \notin Block
    BY <1>2, KindsApart DEF IInv, Types
  <2>2. CASE UNCHANGED kernel
    <3>1. UNCHANGED there
      BY <2>2
    <3> QED
      BY <3>1 DEF Rules!Next, Rules!Begin
  <2>3. CASE CommandRuns
    <3>1. op # NoOp /\ kernel' = Effect /\ goal' = goal
      BY <2>3 DEF CommandRuns, NoOp
    <3>2. /\ Concerns(op.item)
          /\ \A r \in Dnat :
               kernel'[r] = IF Removing /\ r = op.item /\ kernel[r] > 0 THEN kernel[r] - 1
                            ELSE IF Adding /\ r = op.item /\ kernel[r] = 0 THEN 1
                            ELSE kernel[r]
      BY <1>2, <2>1, <3>1, EffectIs
    <3>3. \A r \in Dnat : kernel[r] \in Nat
      BY <2>1
    <3>4. CASE Removing
      <4>1. \A r \in there : r \in there' \/ (r = op.item /\ r \notin goals)
        BY <2>1, <3>2, <3>3, <3>4 DEF Removing, Concerns
      <4>2. there' \subseteq there
        BY <3>2, <3>3, <3>4 DEF Removing, Adding
      <4>3. there' = there \/ (op.item \in there \ goals /\ there' = there \ {op.item})
        BY <4>1, <4>2
      <4> QED
        BY <3>1, <4>3 DEF Rules!Next, Rules!RuleGoes
    <3>5. CASE ~Removing
      <4>1. there \subseteq there'
        BY <3>2, <3>3, <3>5
      <4>2. \A r \in there' : r \in there \/ (r = op.item /\ r \in goals)
        BY <2>1, <3>2, <3>3, <3>5 DEF Adding, Concerns
      <4>3. there' = there \/ (op.item \in goals \ there /\ there' = there \cup {op.item})
        BY <4>1, <4>2
      <4> QED
        BY <3>1, <4>3 DEF Rules!Next, Rules!RuleComes
    <3> QED
      BY <3>4, <3>5
  <2>4. CASE \E l \in Laptop : \E routes \in SUBSET Route : OthersRoute(l, routes)
    <3>1. goal' = goal /\ \A r \in Dnat : kernel'[r] = kernel[r]
      BY <2>1, <2>4 DEF OthersRoute, passVars
    <3> QED
      BY <3>1
  <2>5. CASE TearDown \/ BringUp
    <3>1. goal' = goal /\ kernel' = Flushed
      BY <2>5 DEF TearDown, BringUp, passVars
    <3>2. there' = {}
      BY <1>2, <2>1, <3>1, FlushedIsEmpty
    <3> QED
      BY <3>1, <3>2 DEF Rules!Next, Rules!Flush
  <2>6. \/ CommandRuns \/ TearDown \/ BringUp \/ UNCHANGED kernel
        \/ \E l \in Laptop : \E routes \in SUBSET Route : OthersRoute(l, routes)
    BY <1>2 DEF Next, Pass, NextLoop, EndPass, Skip, Issue, OpDone, CommandFails, CheckFails, Touch,
                Sweep, KernelFlushed, Restart, vars
  <2> QED
    BY <2>2, <2>3, <2>4, <2>5, <2>6
<1>3. IInv /\ [Next]_vars => [Rules!Next]_<<goals, there>>
  BY <1>2
<1> QED
  BY <1>1, <1>3, Invariance, PTL DEF Spec, KeepsRules, Rules!Spec
=============================================================================
