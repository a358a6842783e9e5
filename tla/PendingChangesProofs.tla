------------------------- MODULE PendingChangesProofs -------------------------
(***************************************************************************)
(* The pending list makes sense, whoever asked for what, and what applying *)
(* it may never do, for any robots, keys, stations and length of the list. *)
(*                                                                         *)
(* computeTarget() goes through the list twice, so what it comes to is     *)
(* proved by induction along the list: Turned says what the first i        *)
(* changes have come to, Tried what trying the first k in line again has.  *)
(***************************************************************************)
EXTENDS PendingChanges, FiniteSetTheorems, SequenceTheorems, TLAPS

\* Induction along a list: what holds before it and survives each entry holds throughout.
LEMMA Induction ==
  ASSUME NEW n \in Nat, NEW S, 0 \in S, \A i \in 1..n : i - 1 \in S => i \in S
  PROVE  0..n \subseteq S
<1> DEFINE T == {i \in 0..n : i \notin S}
<1> SUFFICES ASSUME T # {} PROVE FALSE
  OBVIOUS
<1>1. \E x \in T : \A y \in T : ~ (<<y, x>> \in OpToRel(<, Nat))
  <2>1. IsWellFoundedOn(OpToRel(<, Nat), Nat)
    BY NatLessThanWellFounded
  <2>2. T \subseteq Nat
    OBVIOUS
  <2> HIDE DEF OpToRel, T
  <2> QED
    BY <2>1, <2>2, WFMin
<1>2. PICK x \in T : \A y \in T : ~ (<<y, x>> \in OpToRel(<, Nat))
  BY <1>1
<1>3. \A y \in T : ~(y < x)
  <2>1. x \in Nat /\ \A y \in T : y \in Nat
    OBVIOUS
  <2> HIDE DEF T
  <2> QED
    BY <1>2, <2>1 DEF OpToRel
<1>4. x \in 1..n /\ x - 1 \in 0..n /\ x - 1 < x
  OBVIOUS
<1> QED
  BY <1>3, <1>4

\* What starts in a set, and whose every entry keeps to it, is a function to it.
LEMMA Carried ==
  ASSUME NEW n \in Nat, NEW A, NEW g, g = [i \in 0..n |-> g[i]], g[0] \in A,
         \A i \in 1..n : g[i - 1] \in A => g[i] \in A
  PROVE  g \in [0..n -> A]
<1> DEFINE Typed == {i \in 0..n : g[i] \in A}
<1>1. 0 \in Typed /\ \A i \in 1..n : i - 1 \in Typed => i \in Typed
  OBVIOUS
<1>2. 0..n \subseteq Typed
  <2> HIDE DEF Typed
  <2> QED
    BY <1>1, Induction
<1>3. \A i \in 0..n : g[i] \in A
  BY <1>2
<1> QED
  BY <1>3

\* What is carried along a list has a value at every entry.
IsStep(n, A, step) == step \in [1..n -> [A -> A]]
HasRun(n, A, base, step) ==
  \E f \in [0..n -> A] : f[0] = base /\ \A i \in 1..n : f[i] = step[i][f[i - 1]]
LEMMA Iteration ==
  ASSUME NEW n \in Nat, NEW A, NEW base \in A, NEW step, IsStep(n, A, step)
  PROVE  HasRun(n, A, base, step)
<1> USE DEF IsStep, HasRun
<1> DEFINE Upto(k, f) == f[0] = base /\ \A i \in 1..k : f[i] = step[i][f[i - 1]]
           Done == {k \in 0..n : \E f \in [0..k -> A] : Upto(k, f)}
<1>1. 0 \in Done
  <2> DEFINE f == [i \in 0..0 |-> base]
  <2>1. f \in [0..0 -> A] /\ f[0] = base /\ \A i \in 1..0 : f[i] = step[i][f[i - 1]]
    OBVIOUS
  <2> HIDE DEF f
  <2> QED
    BY <2>1
<1>2. ASSUME NEW k \in 1..n, k - 1 \in Done PROVE k \in Done
  <2>1. PICK g \in [0..(k - 1) -> A] : Upto(k - 1, g)
    BY <1>2
  <2> DEFINE f == [i \in 0..k |-> IF i = k THEN step[k][g[k - 1]] ELSE g[i]]
  <2>2. k - 1 \in 0..(k - 1) /\ step[k][g[k - 1]] \in A
    OBVIOUS
  <2>3. f \in [0..k -> A] /\ f[0] = base
    BY <2>1, <2>2
  <2>4. ASSUME NEW i \in 1..k PROVE f[i] = step[i][f[i - 1]]
    <3>1. f[i - 1] = g[i - 1]
      OBVIOUS
    <3>2. CASE i = k
      BY <3>1, <3>2
    <3>3. CASE i # k
      BY <2>1, <3>1, <3>3
    <3> QED
      BY <3>2, <3>3
  <2>5. k \in 0..n
    OBVIOUS
  <2> HIDE DEF f
  <2>6. Upto(k, f)
    BY <2>3, <2>4
  <2> HIDE DEF Upto
  <2> QED
    BY <2>3, <2>5, <2>6
<1>3. 0..n \subseteq Done
  <2>1. \A i \in 1..n : i - 1 \in Done => i \in Done
    BY <1>2
  <2> HIDE DEF Done
  <2> QED
    BY <1>1, <2>1, Induction
<1> QED
  BY <1>3

\* Only, entry by entry.
RunsOnly(X, list, S) ==
  \E kept \in [0..Len(list) -> Seq(X)] :
    /\ kept[0] = <<>>
    /\ \A i \in 1..Len(list) :
         kept[i] = IF list[i] \in S THEN Append(kept[i - 1], list[i]) ELSE kept[i - 1]
    /\ Only(list, S) = kept[Len(list)]
LEMMA OnlyUnfolds ==
  ASSUME NEW X, NEW list \in Seq(X), NEW S
  PROVE  RunsOnly(X, list, S)
<1> DEFINE n == Len(list)
           Grown(i, s) == IF list[i] \in S THEN Append(s, list[i]) ELSE s
           Solves(f) == f = [i \in 0..n |-> IF i = 0 THEN <<>>
                     ELSE IF list[i] \in S THEN Append(f[i - 1], list[i]) ELSE f[i - 1]]
           kept == CHOOSE f : Solves(f)
           step == [i \in 1..n |-> [s \in Seq(X) |-> Grown(i, s)]]
<1>1. n \in Nat /\ <<>> \in Seq(X) /\ step \in [1..n -> [Seq(X) -> Seq(X)]]
  OBVIOUS
<1>2. PICK f \in [0..n -> Seq(X)] : f[0] = <<>> /\ \A i \in 1..n : f[i] = step[i][f[i - 1]]
  <2> DEFINE A == Seq(X)
             none == <<>>
  <2>1. \E f \in [0..n -> A] : f[0] = none /\ \A i \in 1..n : f[i] = step[i][f[i - 1]]
    <3>1. n \in Nat /\ none \in A /\ IsStep(n, A, step)
      BY <1>1 DEF IsStep
    <3> HIDE DEF n, step, A, none
    <3>2. HasRun(n, A, none, step)
      BY <3>1, Iteration
    <3> QED
      BY <3>2 DEF HasRun
  <2> QED
    BY <2>1
<1>3. Solves(f)
  <2>1. ASSUME NEW i \in 1..n PROVE f[i] = Grown(i, f[i - 1])
    <3>1. f[i - 1] \in Seq(X) /\ step[i] = [s \in Seq(X) |-> Grown(i, s)]
      OBVIOUS
    <3> HIDE DEF Grown, step
    <3> QED
      BY <3>1, <1>2
  <2>2. \A i \in 0..n : i = 0 \/ i \in 1..n
    BY <1>1
  <2>3. f = [i \in 0..n |-> f[i]]
    OBVIOUS
  <2> HIDE DEF n, step
  <2> QED
    BY <2>1, <2>2, <2>3, <1>2
<1>4. Solves(kept)
  <2> HIDE DEF Solves
  <2> QED
    BY <1>3
<1>5. Only(list, S) = kept[n]
  BY DEF Only
<1> HIDE DEF kept
<1>6. /\ kept[0] = <<>> /\ DOMAIN kept = 0..n
      /\ \A i \in 1..n : kept[i] = Grown(i, kept[i - 1])
  <2>1. \A i \in 1..n : i \in 0..n /\ i # 0
    BY <1>1
  <2>2. 0 \in 0..n
    BY <1>1
  <2> HIDE DEF n
  <2> QED
    BY <1>4, <2>1, <2>2
<1>7. kept \in [0..n -> Seq(X)]
  <2>1. kept[0] \in Seq(X)
    BY <1>6
  <2>2. ASSUME NEW i \in 1..n, kept[i - 1] \in Seq(X) PROVE kept[i] \in Seq(X)
    <3>1. kept[i] = Grown(i, kept[i - 1]) /\ list[i] \in X
      BY <1>6
    <3> HIDE DEF n
    <3> QED
      BY <3>1, <2>2
  <2>3. kept = [i \in 0..n |-> kept[i]]
    <3> HIDE DEF n
    <3> QED
      BY <1>4
  <2> HIDE DEF n
  <2> QED
    BY <1>1, <2>1, <2>2, <2>3, Carried
<1> QED
  BY <1>5, <1>6, <1>7 DEF RunsOnly

\* What Only keeps: some of the list's entries, each once, and all those in S.
IsPick(list, S, kept, h) ==
  /\ h \in [1..Len(kept) -> 1..Len(list)]
  /\ \A p \in 1..Len(kept) : kept[p] = list[h[p]] /\ kept[p] \in S
  /\ \A p, q \in 1..Len(kept) : h[p] = h[q] => p = q
  /\ \A j \in 1..Len(list) : list[j] \in S => \E p \in 1..Len(kept) : h[p] = j

LEMMA OnlyPicks ==
  ASSUME NEW X, NEW list \in Seq(X), NEW S
  PROVE  /\ Only(list, S) \in Seq(X)
         /\ \E h : IsPick(list, S, Only(list, S), h)
<1> DEFINE n == Len(list)
           Picked(i, s, h) == /\ h \in [1..Len(s) -> 1..i]
                              /\ \A p \in 1..Len(s) : s[p] = list[h[p]] /\ s[p] \in S
                              /\ \A p, q \in 1..Len(s) : h[p] = h[q] => p = q
                              /\ \A j \in 1..i : list[j] \in S => \E p \in 1..Len(s) : h[p] = j
<1>1. PICK kept \in [0..n -> Seq(X)] :
           /\ kept[0] = <<>>
           /\ \A i \in 1..n :
                kept[i] = IF list[i] \in S THEN Append(kept[i - 1], list[i]) ELSE kept[i - 1]
           /\ Only(list, S) = kept[n]
  <2>1. RunsOnly(X, list, S)
    BY OnlyUnfolds
  <2> QED
    BY <2>1 DEF RunsOnly
<1> DEFINE Done == {i \in 0..n : \E h : Picked(i, kept[i], h)}
<1>2. n \in Nat /\ \A i \in 0..n : kept[i] \in Seq(X)
  OBVIOUS
<1>3. 0 \in Done
  <2> DEFINE h == [p \in 1..0 |-> p]
  <2>1. Picked(0, kept[0], h)
    BY <1>1
  <2> HIDE DEF h, Picked
  <2> QED
    BY <1>2, <2>1
<1>4. ASSUME NEW i \in 1..n, i - 1 \in Done PROVE i \in Done
  <2>1. PICK h : Picked(i - 1, kept[i - 1], h)
    BY <1>4
  <2> DEFINE s == kept[i - 1]
             m == Len(s)
  <2>2. s \in Seq(X) /\ m \in Nat /\ i \in 0..n /\ i - 1 \in 0..n /\ list[i] \in X
    BY <1>2
  <2>3. /\ h \in [1..m -> 1..(i - 1)]
        /\ \A p \in 1..m : s[p] = list[h[p]] /\ s[p] \in S
        /\ \A p, q \in 1..m : h[p] = h[q] => p = q
        /\ \A j \in 1..(i - 1) : list[j] \in S => \E p \in 1..m : h[p] = j
    BY <2>1
  <2>4. CASE list[i] \notin S
    <3>1. kept[i] = s
      BY <1>1, <2>4
    <3>2. Picked(i, s, h)
      <4>1. h \in [1..m -> 1..i]
        BY <2>2, <2>3
      <4>2. \A j \in 1..i : list[j] \in S => j \in 1..(i - 1)
        BY <2>4
      <4> HIDE DEF s, m
      <4> QED
        BY <2>3, <4>1, <4>2 DEF m
    <3> HIDE DEF s, Picked
    <3> QED
      BY <2>2, <3>1, <3>2
  <2>5. CASE list[i] \in S
    <3> DEFINE t == Append(s, list[i])
               g == [p \in 1..(m + 1) |-> IF p = m + 1 THEN i ELSE h[p]]
    <3>1. kept[i] = t
      BY <1>1, <2>5
    <3>2. Len(t) = m + 1 /\ \A p \in 1..(m + 1) : t[p] = IF p = m + 1 THEN list[i] ELSE s[p]
      BY <2>2
    <3>3. \A p \in 1..(m + 1) : p = m + 1 \/ p \in 1..m
      BY <2>2
    <3>4. \A p \in 1..m : h[p] \in 1..(i - 1)
      BY <2>3
    <3>5. m + 1 \in 1..(m + 1) /\ \A p \in 1..m : p \in 1..(m + 1) /\ p # m + 1
      BY <2>2
    <3> HIDE DEF s, m, t
    <3>6. g \in [1..Len(t) -> 1..i]
      BY <3>2, <3>3, <3>4
    <3>7. \A p \in 1..Len(t) : t[p] = list[g[p]] /\ t[p] \in S
      BY <2>3, <2>5, <3>2, <3>3
    <3>8. ASSUME NEW p \in 1..Len(t), NEW q \in 1..Len(t), g[p] = g[q] PROVE p = q
      <4>1. \A x \in 1..m : h[x] # i
        BY <3>4
      <4> QED
        BY <2>3, <3>2, <3>3, <3>8, <4>1
    <3>9. ASSUME NEW j \in 1..i, list[j] \in S PROVE \E p \in 1..Len(t) : g[p] = j
      <4>1. CASE j = i
        BY <3>2, <3>5, <4>1
      <4>2. CASE j # i
        <5>1. PICK p \in 1..m : h[p] = j
          BY <2>3, <3>9, <4>2
        <5> QED
          BY <3>2, <3>5, <5>1
      <4> QED
        BY <4>1, <4>2
    <3>10. Picked(i, t, g)
      <4> HIDE DEF g
      <4> QED
        BY <3>6, <3>7, <3>8, <3>9
    <3> HIDE DEF g, Picked
    <3> QED
      BY <2>2, <3>1, <3>10
  <2> QED
    BY <2>4, <2>5
<1>5. n \in Done
  <2>1. \A i \in 1..n : i - 1 \in Done => i \in Done
    BY <1>4
  <2>2. n \in 0..n
    BY <1>2
  <2> HIDE DEF Done, n
  <2> QED
    BY <1>2, <1>3, <2>1, <2>2, Induction
<1>6. Only(list, S) \in Seq(X)
  BY <1>1, <1>2
<1>7. PICK h : Picked(n, kept[n], h)
  BY <1>5
<1>8. IsPick(list, S, Only(list, S), h)
  BY <1>1, <1>7 DEF IsPick
<1> QED
  BY <1>6, <1>8

\* One change per robot, and the robots a list is about.
Change == EnableChange \cup ReleaseChange
OnePerRobot(list) == \A i, j \in DOMAIN list : list[i].robot = list[j].robot => i = j
Sane(list) == list \in Seq(Change) /\ OnePerRobot(list)

\* The entries of Only(list, S) are those of list that are in S.
LEMMA OnlySet ==
  ASSUME NEW X, NEW list \in Seq(X), NEW S
  PROVE  Only(list, S) \in Seq(X) /\ ToSet(Only(list, S)) = ToSet(list) \cap S
<1> DEFINE kept == Only(list, S)
<1>1. kept \in Seq(X)
  BY OnlyPicks
<1>2. PICK h : IsPick(list, S, kept, h)
  BY OnlyPicks
<1>3. ToSet(list) = {list[j] : j \in 1..Len(list)} /\ ToSet(kept) = {kept[p] : p \in 1..Len(kept)}
  BY <1>1 DEF ToSet
<1> HIDE DEF kept
<1>4. ASSUME NEW j \in 1..Len(list), list[j] \in S PROVE list[j] \in ToSet(kept)
  <2>1. PICK p \in 1..Len(kept) : h[p] = j
    BY <1>2, <1>4 DEF IsPick
  <2> QED
    BY <1>2, <1>3, <2>1 DEF IsPick
<1>5. ASSUME NEW p \in 1..Len(kept) PROVE kept[p] \in ToSet(list) \cap S
  BY <1>2, <1>3 DEF IsPick
<1>6. ToSet(kept) = ToSet(list) \cap S
  BY <1>3, <1>4, <1>5
<1> QED
  BY <1>1, <1>6 DEF kept

\* Part of a sane list is one.
LEMMA OnlySane ==
  ASSUME NEW list, Sane(list), NEW S
  PROVE  Sane(Only(list, S)) /\ ToSet(Only(list, S)) = ToSet(list) \cap S
<1> DEFINE kept == Only(list, S)
<1>1. kept \in Seq(Change) /\ ToSet(kept) = ToSet(list) \cap S
  BY OnlySet DEF Sane
<1>2. PICK h : IsPick(list, S, kept, h)
  BY OnlyPicks DEF Sane
<1>3. DOMAIN list = 1..Len(list) /\ DOMAIN kept = 1..Len(kept)
  BY <1>1 DEF Sane
<1> HIDE DEF kept
<1>4. OnePerRobot(kept)
  BY <1>2, <1>3 DEF IsPick, Sane, OnePerRobot
<1> QED
  BY <1>1, <1>4 DEF Sane, kept

\* Nothing is dropped when everything is kept.
LEMMA OnlyAll ==
  ASSUME NEW X, NEW list \in Seq(X), NEW S, ToSet(list) \subseteq S
  PROVE  Only(list, S) = list
<1> DEFINE n == Len(list)
           Same(i, s) == Len(s) = i /\ \A j \in 1..i : s[j] = list[j]
<1>1. RunsOnly(X, list, S)
  BY OnlyUnfolds
<1>2. PICK kept \in [0..n -> Seq(X)] :
           /\ kept[0] = <<>>
           /\ \A i \in 1..n :
                kept[i] = IF list[i] \in S THEN Append(kept[i - 1], list[i]) ELSE kept[i - 1]
           /\ Only(list, S) = kept[n]
  BY <1>1 DEF RunsOnly
<1> DEFINE Done == {i \in 0..n : Same(i, kept[i])}
<1>3. n \in Nat /\ \A i \in 0..n : kept[i] \in Seq(X)
  OBVIOUS
<1>4. \A i \in 1..n : list[i] \in X /\ list[i] \in S
  BY DEF ToSet
<1>5. 0 \in Done
  BY <1>2, <1>3
<1>6. ASSUME NEW i \in 1..n, i - 1 \in Done PROVE i \in Done
  <2> DEFINE s == kept[i - 1]
  <2>1. kept[i] = Append(s, list[i])
    BY <1>2, <1>4
  <2>2. s \in Seq(X) /\ i \in 0..n /\ i - 1 \in 0..n
    BY <1>3
  <2>3. Same(i - 1, s)
    BY <1>6
  <2> HIDE DEF s
  <2>4. Same(i, Append(s, list[i]))
    BY <1>4, <2>2, <2>3
  <2> QED
    BY <2>1, <2>2, <2>4
<1>7. n \in Done
  <2>1. \A i \in 1..n : i - 1 \in Done => i \in Done
    BY <1>6
  <2>2. n \in 0..n
    BY <1>3
  <2> HIDE DEF Done, n
  <2> QED
    BY <1>3, <1>5, <2>1, <2>2, Induction
<1>8. Len(kept[n]) = n /\ \A j \in 1..n : kept[n][j] = list[j]
  BY <1>7
<1>9. kept[n] \in Seq(X)
  BY <1>3
<1> QED
  BY <1>2, <1>8, <1>9

-----------------------------------------------------------------------------
\* What is carried along a list: the stations so far, and who is in line.

Stations == [Slot -> StationConfig \cup {Empty}]
Acc == [at : Stations, line : Seq(EnableChange)]
Cfg(c) == [robot |-> c.robot, key |-> c.key]
Puts(acc, c, s) == [at |-> [acc.at EXCEPT ![s] = Cfg(c)], line |-> acc.line]
Lines(acc, c) == [at |-> acc.at, line |-> Append(acc.line, c)]
Frees(acc, r) == [at   |-> [s \in Slot |-> IF acc.at[s].robot = r THEN Empty ELSE acc.at[s]],
                  line |-> acc.line]

\* There is a first of any stations.
LEMMA FirstIn ==
  ASSUME NEW S, S \subseteq Slot, S # {}
  PROVE  First(S) \in S
<1>1. S \subseteq Nat
  BY SlotsAssumption DEF Slot
<1>2. \E x \in S : \A y \in S : ~ (<<y, x>> \in OpToRel(<, Nat))
  <2>1. IsWellFoundedOn(OpToRel(<, Nat), Nat)
    BY NatLessThanWellFounded
  <2> HIDE DEF OpToRel
  <2> QED
    BY <1>1, <2>1, WFMin
<1>3. PICK x \in S : \A y \in S : ~ (<<y, x>> \in OpToRel(<, Nat))
  BY <1>2
<1>4. \A y \in S : y \in Nat /\ ~(y < x)
  BY <1>1, <1>3 DEF OpToRel
<1>5. \A y \in S : x <= y
  BY <1>1, <1>4
<1> QED
  BY <1>5 DEF First

\* The two things Place can do.
LEMMA PlaceDoes ==
  ASSUME NEW acc \in Acc, NEW c \in EnableChange, NEW S, S \subseteq Slot
  PROVE  \/ \E s \in Slot : /\ Place(acc, c, S) = Puts(acc, c, s)
                            /\ \/ s \in At(acc.at, c.robot)
                               \/ At(acc.at, c.robot) = {} /\ s \in S
         \/ /\ Place(acc, c, S) = Lines(acc, c)
            /\ At(acc.at, c.robot) = {} /\ S = {}
<1> DEFINE here == At(acc.at, c.robot)
           to == IF here # {} THEN here ELSE S
<1>1. to \subseteq Slot
  BY DEF At
<1>2. acc = [at |-> acc.at, line |-> acc.line]
  BY DEF Acc
<1>3. CASE to # {}
  <2>1. First(to) \in to
    BY <1>1, <1>3, FirstIn
  <2>2. Place(acc, c, S) = [acc EXCEPT !.at[First(to)] = Cfg(c)]
    BY <1>3 DEF Place, Cfg
  <2> DEFINE s == First(to)
  <2>3. [acc EXCEPT !.at[s] = Cfg(c)] = Puts(acc, c, s)
    <3> HIDE DEF s
    <3> QED
      BY <1>2 DEF Puts
  <2>4. s \in Slot /\ (s \in here \/ (here = {} /\ s \in S))
    <3>1. s \in to
      BY <2>1
    <3>2. here \subseteq Slot
      BY DEF At
    <3> HIDE DEF s, here
    <3> QED
      BY <3>1, <3>2
  <2> HIDE DEF s, here
  <2> QED
    BY <2>2, <2>3, <2>4 DEF here, s
<1>4. CASE to = {}
  <2>1. Place(acc, c, S) = [acc EXCEPT !.line = Append(@, c)]
    BY <1>4 DEF Place
  <2> QED
    BY <1>2, <1>4, <2>1 DEF Lines
<1> QED
  BY <1>3, <1>4

\* All of these keep to Acc.
LEMMA PutsType ==
  ASSUME NEW acc \in Acc, NEW c \in EnableChange, NEW s \in Slot
  PROVE  Puts(acc, c, s) \in Acc
<1>1. Cfg(c) \in StationConfig
  BY DEF Cfg, StationConfig, EnableChange
<1>2. [acc.at EXCEPT ![s] = Cfg(c)] \in Stations
  BY <1>1 DEF Acc, Stations
<1> QED
  BY <1>2 DEF Puts, Acc
LEMMA LinesType ==
  ASSUME NEW acc \in Acc, NEW c \in EnableChange
  PROVE  Lines(acc, c) \in Acc
BY DEF Lines, Acc
LEMMA FreesType ==
  ASSUME NEW acc \in Acc, NEW r
  PROVE  Frees(acc, r) \in Acc
BY DEF Frees, Acc, Stations

\* The two kinds of change.
LEMMA Kinds ==
  ASSUME NEW c \in Change
  PROVE  /\ c.robot \in Robot
         /\ c \in EnableChange <=> c.kind = "enable"
         /\ c \in ReleaseChange <=> c.kind = "release"
         /\ c \in EnableChange \/ c \in ReleaseChange
         /\ c \in ReleaseChange => c = Release(c.robot)
BY DEF Change, EnableChange, ReleaseChange, Release

\* What Consider and TryAgain can do.
LEMMA ConsiderDoes ==
  ASSUME NEW acc \in Acc, NEW c \in Change
  PROVE  \/ c \in ReleaseChange /\ Consider(acc, c) = Frees(acc, c.robot)
         \/ /\ c \in EnableChange
            /\ \E s \in Slot : /\ Consider(acc, c) = Puts(acc, c, s)
                               /\ \/ s \in At(acc.at, c.robot)
                                  \/ At(acc.at, c.robot) = {} /\ acc.at[s] = Empty
         \/ /\ c \in EnableChange /\ Consider(acc, c) = Lines(acc, c)
            /\ At(acc.at, c.robot) = {} /\ FreeAt(acc.at) = {}
<1>1. CASE c \in ReleaseChange
  <2>1. Consider(acc, c) = [acc EXCEPT !.at = [s \in Slot |-> IF @[s].robot = c.robot THEN Empty ELSE @[s]]]
    BY <1>1, Kinds DEF Consider
  <2>2. acc = [at |-> acc.at, line |-> acc.line]
    BY DEF Acc
  <2> QED
    BY <1>1, <2>1, <2>2 DEF Frees
<1>2. CASE c \in EnableChange
  <2> DEFINE S == IF acc.at[c.slot] = Empty THEN {c.slot} ELSE FreeAt(acc.at)
  <2>1. Consider(acc, c) = Place(acc, c, S)
    BY <1>2 DEF Consider, EnableChange
  <2>2. c.slot \in Slot
    BY <1>2 DEF EnableChange
  <2>3. S \subseteq FreeAt(acc.at) /\ S \subseteq Slot /\ (S = {} => FreeAt(acc.at) = {})
    BY <2>2 DEF FreeAt
  <2>4. \A s \in S : acc.at[s] = Empty
    BY <2>3 DEF FreeAt
  <2> HIDE DEF S
  <2> QED
    BY <1>2, <2>1, <2>3, <2>4, PlaceDoes
<1> QED
  BY <1>1, <1>2 DEF Change
LEMMA TryAgainDoes ==
  ASSUME NEW acc \in Acc, NEW c \in EnableChange
  PROVE  \/ \E s \in Slot : /\ TryAgain(acc, c) = Puts(acc, c, s)
                            /\ \/ s \in At(acc.at, c.robot)
                               \/ At(acc.at, c.robot) = {} /\ s \in FreeAt(acc.at)
         \/ /\ TryAgain(acc, c) = Lines(acc, c)
            /\ At(acc.at, c.robot) = {} /\ FreeAt(acc.at) = {}
<1>1. FreeAt(acc.at) \subseteq Slot
  BY DEF FreeAt
<1> QED
  BY <1>1, PlaceDoes DEF TryAgain

LEMMA ConsiderType ==
  ASSUME NEW acc \in Acc, NEW c \in Change
  PROVE  Consider(acc, c) \in Acc
BY ConsiderDoes, PutsType, LinesType, FreesType
LEMMA TryAgainType ==
  ASSUME NEW acc \in Acc, NEW c \in EnableChange
  PROVE  TryAgain(acc, c) \in Acc
BY TryAgainDoes, PutsType, LinesType

\* The list taken in turn, entry by entry; and the line again.
IsTurn(list, acc) ==
  /\ acc \in [0..Len(list) -> Acc]
  /\ acc[0] = [at |-> active, line |-> <<>>]
  /\ \A i \in 1..Len(list) : acc[i] = Consider(acc[i - 1], list[i])
  /\ Considered(list) = acc[Len(list)]
IsRetry(once, acc) ==
  /\ acc \in [0..Len(once.line) -> Acc]
  /\ acc[0] = [at |-> once.at, line |-> <<>>]
  /\ \A i \in 1..Len(once.line) : acc[i] = TryAgain(acc[i - 1], once.line[i])
  /\ Retried(once) = acc[Len(once.line)]

LEMMA ConsideredTurns ==
  ASSUME active \in Stations, NEW list \in Seq(Change)
  PROVE  \E acc : IsTurn(list, acc)
<1> DEFINE n == Len(list)
           base == [at |-> active, line |-> <<>>]
           Solves(f) == f = [i \in 0..n |-> IF i = 0 THEN base ELSE Consider(f[i - 1], list[i])]
           acc == CHOOSE f : Solves(f)
           step == [i \in 1..n |-> [x \in Acc |-> Consider(x, list[i])]]
<1>1. n \in Nat /\ \A i \in 1..n : list[i] \in Change
  OBVIOUS
<1>2. base \in Acc
  BY DEF Acc
<1>3. IsStep(n, Acc, step)
  BY <1>1, ConsiderType DEF IsStep
<1>4. PICK f \in [0..n -> Acc] : f[0] = base /\ \A i \in 1..n : f[i] = step[i][f[i - 1]]
  <2> HIDE DEF n, base, step
  <2>1. HasRun(n, Acc, base, step)
    BY <1>1, <1>2, <1>3, Iteration
  <2> QED
    BY <2>1 DEF HasRun
<1>5. Solves(f)
  <2>1. ASSUME NEW i \in 1..n PROVE f[i] = Consider(f[i - 1], list[i])
    <3>1. f[i - 1] \in Acc /\ step[i] = [x \in Acc |-> Consider(x, list[i])]
      BY <1>1
    <3> HIDE DEF step
    <3> QED
      BY <3>1, <1>4
  <2>2. \A i \in 0..n : i = 0 \/ i \in 1..n
    BY <1>1
  <2>3. f = [i \in 0..n |-> f[i]]
    OBVIOUS
  <2> HIDE DEF n, step, base
  <2> QED
    BY <1>4, <2>1, <2>2, <2>3
<1>6. Solves(acc)
  <2> HIDE DEF Solves
  <2> QED
    BY <1>5
<1>7. Considered(list) = acc[n]
  BY DEF Considered
<1> HIDE DEF acc
<1>8. acc[0] = base /\ \A i \in 1..n : acc[i] = Consider(acc[i - 1], list[i])
  <2>1. 0 \in 0..n /\ \A i \in 1..n : i \in 0..n /\ i # 0
    BY <1>1
  <2> HIDE DEF n, base
  <2> QED
    BY <1>6, <2>1
<1>9. acc \in [0..n -> Acc]
  <2>1. ASSUME NEW i \in 1..n, acc[i - 1] \in Acc PROVE acc[i] \in Acc
    BY <1>1, <1>8, <2>1, ConsiderType
  <2>2. acc = [i \in 0..n |-> acc[i]]
    <3> HIDE DEF n, base
    <3> QED
      BY <1>6
  <2> HIDE DEF n, base
  <2> QED
    BY <1>1, <1>2, <1>8, <2>1, <2>2, Carried
<1> QED
  BY <1>7, <1>8, <1>9 DEF IsTurn

LEMMA RetriedRuns ==
  ASSUME NEW once \in Acc
  PROVE  \E acc : IsRetry(once, acc)
<1> DEFINE list == once.line
           n == Len(list)
           base == [at |-> once.at, line |-> <<>>]
           Solves(f) == f = [i \in 0..n |-> IF i = 0 THEN base ELSE TryAgain(f[i - 1], list[i])]
           acc == CHOOSE f : Solves(f)
           step == [i \in 1..n |-> [x \in Acc |-> TryAgain(x, list[i])]]
<1>1. list \in Seq(EnableChange)
  BY DEF Acc
<1>2. n \in Nat /\ \A i \in 1..n : list[i] \in EnableChange
  BY <1>1
<1>3. base \in Acc
  BY DEF Acc
<1>4. Retried(once) = acc[n]
  BY DEF Retried
<1> HIDE DEF list
<1>5. IsStep(n, Acc, step)
  BY <1>2, TryAgainType DEF IsStep
<1>6. PICK f \in [0..n -> Acc] : f[0] = base /\ \A i \in 1..n : f[i] = step[i][f[i - 1]]
  <2> HIDE DEF n, base, step
  <2>1. HasRun(n, Acc, base, step)
    BY <1>2, <1>3, <1>5, Iteration
  <2> QED
    BY <2>1 DEF HasRun
<1>7. Solves(f)
  <2>1. ASSUME NEW i \in 1..n PROVE f[i] = TryAgain(f[i - 1], list[i])
    <3>1. f[i - 1] \in Acc /\ step[i] = [x \in Acc |-> TryAgain(x, list[i])]
      BY <1>2
    <3> HIDE DEF step
    <3> QED
      BY <3>1, <1>6
  <2>2. \A i \in 0..n : i = 0 \/ i \in 1..n
    BY <1>2
  <2>3. f = [i \in 0..n |-> f[i]]
    OBVIOUS
  <2> HIDE DEF n, step, base
  <2> QED
    BY <1>6, <2>1, <2>2, <2>3
<1>8. Solves(acc)
  <2> HIDE DEF Solves
  <2> QED
    BY <1>7
<1> HIDE DEF acc
<1>9. acc[0] = base /\ \A i \in 1..n : acc[i] = TryAgain(acc[i - 1], list[i])
  <2>1. 0 \in 0..n /\ \A i \in 1..n : i \in 0..n /\ i # 0
    BY <1>2
  <2> HIDE DEF n, base
  <2> QED
    BY <1>8, <2>1
<1>10. acc \in [0..n -> Acc]
  <2>1. ASSUME NEW i \in 1..n, acc[i - 1] \in Acc PROVE acc[i] \in Acc
    BY <1>2, <1>9, <2>1, TryAgainType
  <2>2. acc = [i \in 0..n |-> acc[i]]
    <3> HIDE DEF n, base
    <3> QED
      BY <1>8
  <2> HIDE DEF n, base
  <2> QED
    BY <1>2, <1>3, <1>9, <2>1, <2>2, Carried
<1> QED
  BY <1>4, <1>9, <1>10 DEF IsRetry, list

-----------------------------------------------------------------------------
\* The whole list in turn.

AtMostOne(at) == \A s, t \in Slot : at[s] # Empty /\ at[s].robot = at[t].robot => s = t
Nowhere(at, r) == \A s \in Slot : at[s].robot # r
InLine(line, c) == \E p \in 1..Len(line) : line[p] = c
HasCfg(at, c) == \E s \in Slot : at[s] = Cfg(c)
Enables(list, i) == \A j \in 1..i : list[j] \in EnableChange

\* In line is who is on no station, each robot once.
LineFits(acc) ==
  /\ OnePerRobot(acc.line)
  /\ \A p \in 1..Len(acc.line) : Nowhere(acc.at, acc.line[p].robot)
\* Who was on a station is there yet, but for those a release took off.
StaysOn(list, i, at) ==
  \A s \in Slot :
    active[s] # Empty /\ (\A j \in 1..i : list[j] # Release(active[s].robot))
      => at[s].robot = active[s].robot
IsGone(list, i, at) ==
  \A j \in 1..i : list[j] \in ReleaseChange => Nowhere(at, list[j].robot)
\* Who asked to join has a station, or is in line.
IsServed(list, i, acc) ==
  \A j \in 1..i : list[j] \in EnableChange => InLine(acc.line, list[j]) \/ HasCfg(acc.at, list[j])
\* The line holds no more than was asked, and as much only if all asked to join.
IsCounted(list, i, line) ==
  Len(line) <= i /\ (Len(line) = i => Enables(list, i))
\* While none is released, who waits finds no station free.
IsFull(list, i, acc) ==
  Enables(list, i) /\ Len(acc.line) > 0 => FreeAt(acc.at) = {}

Turned(list, i, acc) ==
  /\ AtMostOne(acc.at)
  /\ \A p \in 1..Len(acc.line) : \E j \in 1..i : acc.line[p] = list[j]
  /\ LineFits(acc)
  /\ StaysOn(list, i, acc.at)
  /\ IsGone(list, i, acc.at)
  /\ IsServed(list, i, acc)
  /\ IsCounted(list, i, acc.line)
  /\ IsFull(list, i, acc)

LEMMA StationFacts ==
  ASSUME NEW at \in Stations
  PROVE  \A s \in Slot : /\ at[s] # Empty <=> at[s].robot \in Robot
                         /\ at[s] = Empty <=> at[s].robot = "none"
                         /\ at[s].robot \in Robot \cup {"none"}
BY RobotAssumption DEF Stations, StationConfig, Empty

\* The robots of a sane list are different ones.
LEMMA EarlierOthers ==
  ASSUME NEW list, Sane(list), NEW i \in 1..Len(list)
  PROVE  /\ list[i] \in Change
         /\ \A j \in 1..(i - 1) : list[j] \in Change /\ list[j].robot # list[i].robot
<1>1. DOMAIN list = 1..Len(list) /\ Len(list) \in Nat
  BY DEF Sane
<1>2. \A j \in 1..(i - 1) : j \in 1..Len(list) /\ j # i
  BY <1>1
<1> QED
  BY <1>1, <1>2 DEF Sane, OnePerRobot

\* A release.
LEMMA FreesTurns ==
  ASSUME NEW list, Sane(list), NEW i \in 1..Len(list), NEW acc \in Acc,
         Turned(list, i - 1, acc), list[i] \in ReleaseChange, active \in Stations
  PROVE  Turned(list, i, Frees(acc, list[i].robot))
<1> DEFINE c == list[i]
           r == c.robot
           new == Frees(acc, r)
<1>1. c \in Change /\ \A j \in 1..(i - 1) : list[j] \in Change /\ list[j].robot # r
  BY EarlierOthers
<1>2. i \in Nat /\ \A j \in 1..i : j \in 1..(i - 1) \/ j = i
  OBVIOUS
<1>3. r \in Robot /\ c = Release(r) /\ c \notin EnableChange
  BY <1>1, Kinds DEF ReleaseChange, EnableChange
<1>4. acc.at \in Stations /\ acc.line \in Seq(EnableChange)
  BY DEF Acc
<1>5. /\ new.line = acc.line
      /\ \A s \in Slot : new.at[s] = IF acc.at[s].robot = r THEN Empty ELSE acc.at[s]
  BY DEF Frees
<1>6. Empty.robot = "none" /\ "none" \notin Robot
  BY RobotAssumption DEF Empty
<1>7. \A s \in Slot : acc.at[s].robot \in Robot <=> acc.at[s] # Empty
  BY <1>4, StationFacts
<1> HIDE DEF r, c, new
<1>8. AtMostOne(new.at)
  BY <1>5, <1>6, <1>7 DEF AtMostOne, Turned
<1>9. \A q \in Robot : Nowhere(acc.at, q) => Nowhere(new.at, q)
  BY <1>5, <1>6 DEF Nowhere
<1>10. Nowhere(new.at, r)
  BY <1>3, <1>5, <1>6 DEF Nowhere
<1>11. LineFits(new)
  <2>1. \A p \in 1..Len(acc.line) : acc.line[p].robot \in Robot
    <3>1. \A p \in 1..Len(acc.line) : acc.line[p] \in EnableChange
      BY <1>4
    <3> QED
      BY <3>1 DEF EnableChange
  <2> QED
    BY <1>5, <1>9, <2>1 DEF LineFits, Turned
<1>12. StaysOn(list, i, new.at)
  <2> SUFFICES ASSUME NEW s \in Slot, active[s] # Empty,
                      \A j \in 1..i : list[j] # Release(active[s].robot)
               PROVE  new.at[s].robot = active[s].robot
    BY DEF StaysOn
  <2>1. acc.at[s].robot = active[s].robot
    BY <1>2 DEF Turned, StaysOn
  <2>2. active[s].robot # r
    BY <1>2, <1>3 DEF c
  <2> QED
    BY <1>5, <2>1, <2>2
<1>13. IsGone(list, i, new.at)
  <2>1. \A j \in 1..(i - 1) : list[j].robot \in Robot
    BY <1>1, Kinds
  <2> QED
    BY <1>2, <1>9, <1>10, <2>1 DEF IsGone, Turned, c, r
<1>14. IsServed(list, i, new)
  <2> SUFFICES ASSUME NEW j \in 1..i, list[j] \in EnableChange
               PROVE  InLine(new.line, list[j]) \/ HasCfg(new.at, list[j])
    BY DEF IsServed
  <2>1. j \in 1..(i - 1) /\ list[j].robot # r
    BY <1>1, <1>2, <1>3 DEF c
  <2>2. InLine(acc.line, list[j]) \/ HasCfg(acc.at, list[j])
    BY <2>1 DEF Turned, IsServed
  <2>3. HasCfg(acc.at, list[j]) => HasCfg(new.at, list[j])
    BY <1>5, <2>1 DEF HasCfg, Cfg
  <2> QED
    BY <1>5, <2>2, <2>3
<1>15. Len(new.line) < i /\ ~Enables(list, i)
  <2>1. Len(acc.line) \in Nat /\ Len(acc.line) <= i - 1
    BY <1>4 DEF Turned, IsCounted
  <2>2. ~Enables(list, i)
    BY <1>2, <1>3 DEF Enables, c
  <2> QED
    BY <1>2, <1>5, <2>1, <2>2
<1>16. Len(new.line) \in Nat
  BY <1>4, <1>5
<1>17. \A p \in 1..Len(new.line) : \E j \in 1..i : new.line[p] = list[j]
  <2>1. \A j \in 1..(i - 1) : j \in 1..i
    BY <1>2
  <2> QED
    BY <1>5, <2>1 DEF Turned
<1>18. IsCounted(list, i, new.line) /\ IsFull(list, i, new)
  BY <1>2, <1>15, <1>16 DEF IsCounted, IsFull
<1> QED
  BY <1>8, <1>11, <1>12, <1>13, <1>14, <1>17, <1>18 DEF Turned, new, r, c

\* An enable that finds its station.
LEMMA PutsTurns ==
  ASSUME NEW list, Sane(list), NEW i \in 1..Len(list), NEW acc \in Acc,
         Turned(list, i - 1, acc), list[i] \in EnableChange, active \in Stations, NEW t \in Slot,
         t \in At(acc.at, list[i].robot) \/ (At(acc.at, list[i].robot) = {} /\ acc.at[t] = Empty)
  PROVE  Turned(list, i, Puts(acc, list[i], t))
<1> DEFINE c == list[i]
           r == c.robot
           new == Puts(acc, c, t)
<1>1. c \in Change /\ \A j \in 1..(i - 1) : list[j] \in Change /\ list[j].robot # r
  BY EarlierOthers
<1>2. i \in Nat /\ i \in 1..i /\ \A j \in 1..i : j \in 1..(i - 1) \/ j = i
  OBVIOUS
<1>3. r \in Robot /\ c \notin ReleaseChange
  BY <1>1, Kinds DEF ReleaseChange, EnableChange
<1>4. acc.at \in Stations /\ acc.line \in Seq(EnableChange)
  BY DEF Acc
<1>5. /\ new.line = acc.line
      /\ \A s \in Slot : new.at[s] = IF s = t THEN Cfg(c) ELSE acc.at[s]
  BY <1>4 DEF Puts, Stations
<1>6. Empty.robot = "none" /\ "none" \notin Robot /\ Cfg(c).robot = r
  BY RobotAssumption DEF Empty, Cfg
<1>7. \A s \in Slot : acc.at[s].robot \in Robot <=> acc.at[s] # Empty
  BY <1>4, StationFacts
<1>8. acc.at[t].robot = r \/ (acc.at[t] = Empty /\ Nowhere(acc.at, r))
  BY DEF At, Nowhere
<1> HIDE DEF r, c, new
<1>9. AtMostOne(new.at)
  BY <1>3, <1>5, <1>6, <1>7, <1>8 DEF AtMostOne, Turned, Nowhere
<1>10. \A q \in Robot : q # r /\ Nowhere(acc.at, q) => Nowhere(new.at, q)
  BY <1>5, <1>6 DEF Nowhere
<1>11. LineFits(new)
  <2>1. \A p \in 1..Len(acc.line) : acc.line[p].robot \in Robot
    <3>1. \A p \in 1..Len(acc.line) : acc.line[p] \in EnableChange
      BY <1>4
    <3> QED
      BY <3>1 DEF EnableChange
  <2>2. \A p \in 1..Len(acc.line) : acc.line[p].robot # r
    BY <1>1 DEF Turned
  <2> QED
    BY <1>5, <1>10, <2>1, <2>2 DEF LineFits, Turned
<1>12. StaysOn(list, i, new.at)
  <2> SUFFICES ASSUME NEW s \in Slot, active[s] # Empty,
                      \A j \in 1..i : list[j] # Release(active[s].robot)
               PROVE  new.at[s].robot = active[s].robot
    BY DEF StaysOn
  <2>1. acc.at[s].robot = active[s].robot
    BY <1>2 DEF Turned, StaysOn
  <2>2. active[s].robot \in Robot
    BY StationFacts
  <2> QED
    BY <1>5, <1>6, <1>7, <1>8, <2>1, <2>2
<1>13. IsGone(list, i, new.at)
  <2>1. \A j \in 1..(i - 1) : list[j].robot \in Robot
    BY <1>1, Kinds
  <2> QED
    BY <1>1, <1>2, <1>3, <1>10, <2>1 DEF IsGone, Turned, c, r
<1>14. IsServed(list, i, new)
  <2> SUFFICES ASSUME NEW j \in 1..i, list[j] \in EnableChange
               PROVE  InLine(new.line, list[j]) \/ HasCfg(new.at, list[j])
    BY DEF IsServed
  <2>1. CASE j = i
    <3>1. HasCfg(new.at, c)
      BY <1>5 DEF HasCfg
    <3> QED
      BY <2>1, <3>1 DEF c
  <2>2. CASE j \in 1..(i - 1)
    <3>1. InLine(acc.line, list[j]) \/ HasCfg(acc.at, list[j])
      BY <2>2 DEF Turned, IsServed
    <3>2. list[j].robot # r /\ list[j].robot \in Robot
      BY <1>1, <2>2, Kinds
    <3>3. HasCfg(acc.at, list[j]) => HasCfg(new.at, list[j])
      <4> SUFFICES ASSUME NEW s \in Slot, acc.at[s] = Cfg(list[j])
                   PROVE  new.at[s] = Cfg(list[j])
        BY DEF HasCfg
      <4>1. acc.at[s].robot = list[j].robot
        BY DEF Cfg
      <4>2. s # t
        BY <1>6, <1>8, <3>2, <4>1
      <4> QED
        BY <1>5, <4>2
    <3> QED
      BY <1>5, <3>1, <3>3
  <2> QED
    BY <1>2, <2>1, <2>2
<1>15. Len(new.line) \in Nat /\ Len(new.line) < i
  BY <1>2, <1>4, <1>5 DEF Turned, IsCounted
<1>16. \A p \in 1..Len(new.line) : \E j \in 1..i : new.line[p] = list[j]
  <2>1. \A j \in 1..(i - 1) : j \in 1..i
    BY <1>2
  <2> QED
    BY <1>5, <2>1 DEF Turned
<1>17. IsCounted(list, i, new.line)
  BY <1>2, <1>15 DEF IsCounted
<1>18. IsFull(list, i, new)
  <2>1. Enables(list, i) => Enables(list, i - 1)
    BY <1>2 DEF Enables
  <2>2. FreeAt(new.at) \subseteq FreeAt(acc.at)
    BY <1>3, <1>5, <1>6 DEF FreeAt
  <2> QED
    BY <1>5, <2>1, <2>2 DEF IsFull, Turned
<1> QED
  BY <1>9, <1>11, <1>12, <1>13, <1>14, <1>16, <1>17, <1>18 DEF Turned, new, r, c

\* An enable that finds none.
LEMMA LinesTurns ==
  ASSUME NEW list, Sane(list), NEW i \in 1..Len(list), NEW acc \in Acc,
         Turned(list, i - 1, acc), list[i] \in EnableChange,
         At(acc.at, list[i].robot) = {}, FreeAt(acc.at) = {}
  PROVE  Turned(list, i, Lines(acc, list[i]))
<1> DEFINE c == list[i]
           r == c.robot
           new == Lines(acc, c)
           m == Len(acc.line)
<1>1. c \in Change /\ \A j \in 1..(i - 1) : list[j] \in Change /\ list[j].robot # r
  BY EarlierOthers
<1>2. i \in Nat /\ i \in 1..i /\ \A j \in 1..i : j \in 1..(i - 1) \/ j = i
  OBVIOUS
<1>3. c \notin ReleaseChange
  BY DEF ReleaseChange, EnableChange
<1>4. acc.line \in Seq(EnableChange) /\ m \in Nat
  BY DEF Acc
<1>5. /\ new.at = acc.at /\ Len(new.line) = m + 1 /\ DOMAIN new.line = 1..(m + 1)
      /\ \A p \in 1..(m + 1) : new.line[p] = IF p = m + 1 THEN c ELSE acc.line[p]
  BY <1>4 DEF Lines
<1>6. \A p \in 1..(m + 1) : p \in 1..m \/ p = m + 1
  BY <1>4
<1>7. Nowhere(acc.at, r)
  BY DEF At, Nowhere
<1>8. m + 1 \in 1..(m + 1) /\ \A p \in 1..m : p \in 1..(m + 1) /\ p # m + 1
  BY <1>4
<1> HIDE DEF r, c, new, m
<1>9. \A p \in 1..m : acc.line[p].robot # r
  BY <1>1 DEF Turned, m
<1>10. LineFits(new)
  <2>1. OnePerRobot(acc.line) /\ DOMAIN acc.line = 1..m
    BY <1>4 DEF Turned, LineFits, m
  <2>2. OnePerRobot(new.line)
    <3>1. \A p, q \in 1..m : acc.line[p].robot = acc.line[q].robot => p = q
      BY <2>1 DEF OnePerRobot
    <3>2. \A p \in 1..m : new.line[p].robot # r /\ new.line[p] = acc.line[p]
      BY <1>5, <1>8, <1>9
    <3>3. new.line[m + 1].robot = r
      BY <1>5, <1>8 DEF r
    <3>4. \A p, q \in 1..(m + 1) : new.line[p].robot = new.line[q].robot => p = q
      BY <1>6, <3>1, <3>2, <3>3
    <3> QED
      BY <1>5, <3>4 DEF OnePerRobot
  <2>3. \A p \in 1..Len(new.line) : Nowhere(new.at, new.line[p].robot)
    BY <1>5, <1>6, <1>7 DEF Turned, LineFits, m, r
  <2> QED
    BY <2>2, <2>3 DEF LineFits
<1>11. StaysOn(list, i, new.at)
  <2>1. \A j \in 1..(i - 1) : j \in 1..i
    BY <1>2
  <2> QED
    BY <1>5, <2>1 DEF StaysOn, Turned
<1>12. IsGone(list, i, new.at)
  BY <1>2, <1>3, <1>5 DEF IsGone, Turned, c
<1>13. IsServed(list, i, new)
  <2>1. \A d : InLine(acc.line, d) => InLine(new.line, d)
    BY <1>5, <1>8 DEF InLine, m
  <2>2. InLine(new.line, c)
    BY <1>5, <1>8 DEF InLine
  <2> QED
    BY <1>2, <1>5, <2>1, <2>2 DEF IsServed, Turned, c
<1>14. \A p \in 1..Len(new.line) : \E j \in 1..i : new.line[p] = list[j]
  <2>1. \A j \in 1..(i - 1) : j \in 1..i
    BY <1>2
  <2> QED
    BY <1>2, <1>5, <1>6, <2>1 DEF Turned, c, m
<1>15. IsCounted(list, i, new.line)
  <2>1. m <= i - 1 /\ (m = i - 1 => Enables(list, i - 1))
    BY DEF Turned, IsCounted, m
  <2>2. Enables(list, i - 1) => Enables(list, i)
    BY <1>2 DEF Enables
  <2> QED
    BY <1>2, <1>4, <1>5, <2>1, <2>2 DEF IsCounted
<1>16. IsFull(list, i, new)
  BY <1>5 DEF IsFull
<1> QED
  BY <1>5, <1>10, <1>11, <1>12, <1>13, <1>14, <1>15, <1>16 DEF Turned, new, r, c

LEMMA TurnsFit ==
  ASSUME active \in Stations, AtMostOne(active), NEW list, Sane(list), NEW acc, IsTurn(list, acc)
  PROVE  \A i \in 0..Len(list) : acc[i] \in Acc /\ Turned(list, i, acc[i])
<1> DEFINE n == Len(list)
           Fit == {i \in 0..n : Turned(list, i, acc[i])}
<1>1. n \in Nat /\ \A i \in 1..n : i - 1 \in 0..n /\ list[i] \in Change
  BY DEF Sane
<1>2. \A i \in 0..n : acc[i] \in Acc
  BY DEF IsTurn
<1>3. 0 \in Fit
  <2>1. acc[0].at = active /\ acc[0].line = <<>>
    BY DEF IsTurn
  <2>2. \A j \in 1..0 : FALSE
    OBVIOUS
  <2>3. Len(<<>>) = 0 /\ DOMAIN <<>> = {}
    OBVIOUS
  <2>4. Turned(list, 0, acc[0])
    BY <2>1, <2>2, <2>3 DEF Turned, LineFits, OnePerRobot, StaysOn, IsGone, IsServed,
       IsCounted, IsFull, Enables
  <2> QED
    BY <1>1, <2>4
<1>4. ASSUME NEW i \in 1..n, i - 1 \in Fit PROVE i \in Fit
  <2>1. acc[i - 1] \in Acc /\ Turned(list, i - 1, acc[i - 1]) /\ list[i] \in Change
    BY <1>1, <1>2, <1>4
  <2>2. acc[i] = Consider(acc[i - 1], list[i])
    BY DEF IsTurn
  <2>3. Turned(list, i, acc[i])
    <3> DEFINE x == acc[i - 1]
               c == list[i]
    <3> HIDE DEF x, c
    <3>1. CASE c \in ReleaseChange /\ Consider(x, c) = Frees(x, c.robot)
      BY <2>1, <2>2, <3>1, FreesTurns DEF x, c
    <3>2. ASSUME c \in EnableChange, NEW s \in Slot, Consider(x, c) = Puts(x, c, s),
                 s \in At(x.at, c.robot) \/ (At(x.at, c.robot) = {} /\ x.at[s] = Empty)
          PROVE  Turned(list, i, acc[i])
      BY <2>1, <2>2, <3>2, PutsTurns DEF x, c
    <3>3. CASE c \in EnableChange /\ Consider(x, c) = Lines(x, c)
               /\ At(x.at, c.robot) = {} /\ FreeAt(x.at) = {}
      BY <2>1, <2>2, <3>3, LinesTurns DEF x, c
    <3>4. x \in Acc /\ c \in Change
      BY <2>1 DEF x, c
    <3> QED
      BY <3>1, <3>2, <3>3, <3>4, ConsiderDoes
  <2> QED
    BY <1>1, <2>3
<1>5. 0..n \subseteq Fit
  <2>1. \A i \in 1..n : i - 1 \in Fit => i \in Fit
    BY <1>4
  <2> HIDE DEF Fit, n
  <2> QED
    BY <1>1, <1>3, <2>1, Induction
<1> QED
  BY <1>2, <1>5

-----------------------------------------------------------------------------
\* The line again.

\* What trying the first k of the line again has come to: stations that were
\* taken are as they were, the rest are for robots of the line, and as many of
\* those k wait on as were more than the stations free.
Tried(once, k, acc) ==
  /\ AtMostOne(acc.at)
  /\ \A p \in 1..Len(acc.line) : \E j \in 1..k : acc.line[p] = once.line[j]
  /\ LineFits(acc)
  /\ \A j \in (k + 1)..Len(once.line) : Nowhere(acc.at, once.line[j].robot)
  /\ \A s \in Slot : once.at[s] # Empty => acc.at[s] = once.at[s]
  /\ \A s \in Slot : acc.at[s] # once.at[s] => \E j \in 1..k : acc.at[s] = Cfg(once.line[j])
  /\ \A j \in 1..k : InLine(acc.line, once.line[j]) \/ HasCfg(acc.at, once.line[j])
  /\ Len(acc.line) > 0 => FreeAt(acc.at) = {}
FreeCount(once, k, acc) ==
  /\ Len(acc.line) <= k
  /\ Cardinality(FreeAt(acc.at)) + k = Cardinality(FreeAt(once.at)) + Len(acc.line)

\* The stations can be counted.
LEMMA SlotsFinite ==
  ASSUME NEW S, S \subseteq Slot
  PROVE  IsFiniteSet(S) /\ Cardinality(S) \in Nat
<1>1. Slots \in Nat
  BY SlotsAssumption
<1>2. IsFiniteSet(Slot)
  BY <1>1, FS_Interval, 1 \in Int DEF Slot
<1> QED
  BY <1>2, FS_Subset, FS_CardinalityType

LEMMA PutsTries ==
  ASSUME NEW once \in Acc, LineFits(once), NEW k \in 1..Len(once.line), NEW acc \in Acc,
         Tried(once, k - 1, acc), FreeCount(once, k - 1, acc), NEW t \in FreeAt(acc.at)
  PROVE  LET new == Puts(acc, once.line[k], t)
         IN  Tried(once, k, new) /\ FreeCount(once, k, new)
<1> DEFINE L == once.line
           m == Len(L)
           c == L[k]
           r == c.robot
           new == Puts(acc, c, t)
<1>1. L \in Seq(EnableChange) /\ m \in Nat
  BY DEF Acc
<1>2. k \in Nat /\ k \in 1..k /\ \A j \in 1..k : j \in 1..(k - 1) \/ j = k
  BY <1>1
<1>3. c \in EnableChange
  BY <1>1
<1>4. acc.at \in Stations /\ acc.line \in Seq(EnableChange) /\ once.at \in Stations
  BY DEF Acc
<1>5. t \in Slot /\ acc.at[t] = Empty
  BY DEF FreeAt
<1>6. /\ new.line = acc.line
      /\ \A s \in Slot : new.at[s] = IF s = t THEN Cfg(c) ELSE acc.at[s]
  BY <1>4, <1>5 DEF Puts, Stations
<1>7. Empty.robot = "none" /\ "none" \notin Robot /\ Cfg(c).robot = r /\ r \in Robot
  BY <1>3, RobotAssumption DEF Empty, Cfg, EnableChange
<1>8. \A j \in 1..m : L[j] \in EnableChange /\ L[j].robot \in Robot
  <2>1. \A j \in 1..m : L[j] \in EnableChange
    BY <1>1
  <2> HIDE DEF L, m
  <2> QED
    BY <2>1 DEF EnableChange
<1>9. \A i, j \in 1..m : L[i].robot = L[j].robot => i = j
  BY <1>1 DEF LineFits, OnePerRobot
<1>10. Nowhere(acc.at, r)
  <2>1. k \in ((k - 1) + 1)..m
    BY <1>1, <1>2
  <2> QED
    BY <2>1 DEF Tried
<1>11. k \in 1..m /\ \A j \in 1..(k - 1) : j \in 1..m /\ j # k /\ j \in 1..k
  BY <1>1, <1>2
<1>12. ASSUME NEW j \in (k + 1)..m
       PROVE  j \in ((k - 1) + 1)..m /\ j \in 1..m /\ j # k
  BY <1>1, <1>2
<1> HIDE DEF L, m, c, r, new
<1>13. \A q \in Robot : q # r /\ Nowhere(acc.at, q) => Nowhere(new.at, q)
  BY <1>6, <1>7 DEF Nowhere
<1>14. AtMostOne(new.at)
  <2>1. \A s \in Slot : acc.at[s].robot # r
    BY <1>10 DEF Nowhere
  <2>2. AtMostOne(acc.at)
    BY DEF Tried
  <2> QED
    BY <1>6, <1>7, <2>1, <2>2 DEF AtMostOne
<1>15. \A p \in 1..Len(acc.line) : \E j \in 1..(k - 1) : acc.line[p] = L[j]
  BY DEF Tried, L
<1>16. \A p \in 1..Len(new.line) : \E j \in 1..k : new.line[p] = L[j]
  BY <1>6, <1>11, <1>15
<1>17. LineFits(new)
  <2>1. \A p \in 1..Len(acc.line) : acc.line[p].robot \in Robot /\ acc.line[p].robot # r
    BY <1>8, <1>9, <1>11, <1>15 DEF r, c
  <2> QED
    BY <1>6, <1>13, <2>1 DEF LineFits, Tried
<1>18. \A j \in (k + 1)..m : Nowhere(new.at, L[j].robot)
  <2> TAKE j \in (k + 1)..m
  <2>1. j \in ((k - 1) + 1)..m /\ j \in 1..m /\ j # k
    BY <1>12
  <2>2. Nowhere(acc.at, L[j].robot)
    BY <2>1 DEF Tried, L, m
  <2>3. L[j].robot \in Robot /\ L[j].robot # r
    BY <1>8, <1>9, <1>11, <2>1 DEF r, c
  <2> QED
    BY <1>13, <2>2, <2>3
<1>19. \A s \in Slot : once.at[s] # Empty => acc.at[s] = once.at[s]
  BY DEF Tried
<1>20. \A s \in Slot : once.at[s] # Empty => new.at[s] = once.at[s]
  BY <1>5, <1>6, <1>19
<1>21. \A s \in Slot : acc.at[s] # once.at[s] => \E j \in 1..(k - 1) : acc.at[s] = Cfg(L[j])
  BY DEF Tried, L
<1>22. \A s \in Slot : new.at[s] # once.at[s] => \E j \in 1..k : new.at[s] = Cfg(L[j])
  BY <1>2, <1>6, <1>11, <1>21 DEF c
<1>23. \A j \in 1..k : InLine(new.line, L[j]) \/ HasCfg(new.at, L[j])
  <2> TAKE j \in 1..k
  <2>1. CASE j = k
    <3>1. HasCfg(new.at, c)
      BY <1>5, <1>6 DEF HasCfg
    <3> QED
      BY <2>1, <3>1 DEF c
  <2>2. CASE j \in 1..(k - 1)
    <3>1. InLine(acc.line, L[j]) \/ HasCfg(acc.at, L[j])
      BY <2>2 DEF Tried, L
    <3>2. L[j].robot \in Robot
      BY <1>8, <1>11, <2>2
    <3>3. HasCfg(acc.at, L[j]) => HasCfg(new.at, L[j])
      <4> SUFFICES ASSUME NEW s \in Slot, acc.at[s] = Cfg(L[j])
                   PROVE  new.at[s] = Cfg(L[j])
        BY DEF HasCfg
      <4>1. acc.at[s].robot = L[j].robot
        BY DEF Cfg
      <4>2. s # t
        BY <1>5, <1>7, <3>2, <4>1
      <4> QED
        BY <1>6, <4>2
    <3> QED
      BY <1>6, <3>1, <3>3
  <2> QED
    BY <1>2, <2>1, <2>2
<1>24. FreeAt(new.at) = FreeAt(acc.at) \ {t}
  BY <1>5, <1>6, <1>7 DEF FreeAt
<1>25. Len(new.line) = 0
  <2>1. Len(acc.line) \in Nat
    BY <1>4
  <2>2. FreeAt(acc.at) # {}
    OBVIOUS
  <2> QED
    BY <1>6, <2>1, <2>2 DEF Tried
<1>26. FreeCount(once, k, new)
  <2>1. /\ IsFiniteSet(FreeAt(acc.at)) /\ Cardinality(FreeAt(acc.at)) \in Nat
        /\ Cardinality(FreeAt(once.at)) \in Nat
    <3>1. FreeAt(acc.at) \subseteq Slot /\ FreeAt(once.at) \subseteq Slot
      BY DEF FreeAt
    <3> QED
      BY <3>1, SlotsFinite
  <2>2. Cardinality(FreeAt(new.at)) = Cardinality(FreeAt(acc.at)) - 1
    BY <1>24, <2>1, FS_RemoveElement
  <2>3. Cardinality(FreeAt(acc.at)) + (k - 1) = Cardinality(FreeAt(once.at)) + Len(acc.line)
    BY DEF FreeCount
  <2> QED
    BY <1>2, <1>6, <1>25, <2>1, <2>2, <2>3 DEF FreeCount
<1>27. Tried(once, k, new)
  BY <1>14, <1>16, <1>17, <1>18, <1>20, <1>22, <1>23, <1>25 DEF Tried, L, m
<1> QED
  BY <1>26, <1>27 DEF new, c, L

LEMMA LinesTries ==
  ASSUME NEW once \in Acc, LineFits(once), NEW k \in 1..Len(once.line), NEW acc \in Acc,
         Tried(once, k - 1, acc), FreeCount(once, k - 1, acc), FreeAt(acc.at) = {}
  PROVE  LET new == Lines(acc, once.line[k])
         IN  Tried(once, k, new) /\ FreeCount(once, k, new)
<1> DEFINE L == once.line
           m == Len(L)
           c == L[k]
           r == c.robot
           new == Lines(acc, c)
           l == Len(acc.line)
<1>1. L \in Seq(EnableChange) /\ m \in Nat
  BY DEF Acc
<1>2. k \in Nat /\ k \in 1..k /\ \A j \in 1..k : j \in 1..(k - 1) \/ j = k
  BY <1>1
<1>3. c \in EnableChange
  BY <1>1
<1>4. acc.line \in Seq(EnableChange) /\ l \in Nat
  BY DEF Acc
<1>5. /\ new.at = acc.at /\ Len(new.line) = l + 1 /\ DOMAIN new.line = 1..(l + 1)
      /\ \A p \in 1..(l + 1) : new.line[p] = IF p = l + 1 THEN c ELSE acc.line[p]
  BY <1>3, <1>4 DEF Lines
<1>6. \A p \in 1..(l + 1) : p \in 1..l \/ p = l + 1
  BY <1>4
<1>7. l + 1 \in 1..(l + 1) /\ \A p \in 1..l : p \in 1..(l + 1) /\ p # l + 1
  BY <1>4
<1>8. \A i, j \in 1..m : L[i].robot = L[j].robot => i = j
  BY <1>1 DEF LineFits, OnePerRobot
<1>9. Nowhere(acc.at, r)
  <2>1. k \in ((k - 1) + 1)..m
    BY <1>1, <1>2
  <2> QED
    BY <2>1 DEF Tried
<1>10. k \in 1..m /\ \A j \in 1..(k - 1) : j \in 1..m /\ j # k /\ j \in 1..k
  BY <1>1, <1>2
<1>11. \A j \in (k + 1)..m : j \in ((k - 1) + 1)..m
  BY <1>1, <1>2
<1>12. DOMAIN acc.line = 1..l
  BY <1>4
<1> HIDE DEF L, m, c, r, new, l
<1>13. \A p \in 1..l : \E j \in 1..(k - 1) : acc.line[p] = L[j]
  BY DEF Tried, L, l
<1>14. \A p \in 1..(l + 1) : \E j \in 1..k : new.line[p] = L[j]
  BY <1>2, <1>5, <1>6, <1>10, <1>13 DEF c
<1>15. LineFits(new)
  <2>1. \A p \in 1..l : acc.line[p].robot # r
    BY <1>8, <1>10, <1>13 DEF r, c
  <2>2. OnePerRobot(acc.line)
    BY DEF Tried, LineFits
  <2>3. OnePerRobot(new.line)
    <3>1. \A p, q \in 1..l : acc.line[p].robot = acc.line[q].robot => p = q
      BY <1>12, <2>2 DEF OnePerRobot
    <3>2. \A p \in 1..l : new.line[p].robot # r /\ new.line[p] = acc.line[p]
      BY <1>5, <1>7, <2>1
    <3>3. new.line[l + 1].robot = r
      BY <1>5, <1>7 DEF r
    <3>4. \A p, q \in 1..(l + 1) : new.line[p].robot = new.line[q].robot => p = q
      BY <1>6, <3>1, <3>2, <3>3
    <3> QED
      BY <1>5, <3>4 DEF OnePerRobot
  <2>4. \A p \in 1..Len(new.line) : Nowhere(new.at, new.line[p].robot)
    BY <1>5, <1>6, <1>9 DEF Tried, LineFits, l, r
  <2> QED
    BY <2>3, <2>4 DEF LineFits
<1>16. \A j \in (k + 1)..m : Nowhere(new.at, L[j].robot)
  BY <1>5, <1>11 DEF Tried, L, m
<1>17. \A s \in Slot : new.at[s] # once.at[s] => \E j \in 1..k : new.at[s] = Cfg(L[j])
  <2>1. \A s \in Slot : acc.at[s] # once.at[s] => \E j \in 1..(k - 1) : acc.at[s] = Cfg(L[j])
    BY DEF Tried, L
  <2> QED
    BY <1>5, <1>10, <2>1
<1>18. \A j \in 1..k : InLine(new.line, L[j]) \/ HasCfg(new.at, L[j])
  <2>1. \A d : InLine(acc.line, d) => InLine(new.line, d)
    BY <1>5, <1>7 DEF InLine, l
  <2>2. InLine(new.line, c)
    BY <1>5, <1>7 DEF InLine
  <2>3. \A j \in 1..(k - 1) : InLine(acc.line, L[j]) \/ HasCfg(acc.at, L[j])
    BY DEF Tried, L
  <2> QED
    BY <1>2, <1>5, <2>1, <2>2, <2>3 DEF c
<1>19. FreeCount(once, k, new)
  <2>1. Cardinality(FreeAt(acc.at)) \in Nat /\ Cardinality(FreeAt(once.at)) \in Nat
    <3>1. FreeAt(acc.at) \subseteq Slot /\ FreeAt(once.at) \subseteq Slot
      BY DEF FreeAt
    <3> QED
      BY <3>1, SlotsFinite
  <2>2. FreeAt(new.at) = FreeAt(acc.at)
    BY <1>5
  <2>3. l <= k - 1 /\ Cardinality(FreeAt(acc.at)) + (k - 1) = Cardinality(FreeAt(once.at)) + l
    BY DEF FreeCount, l
  <2>4. Len(new.line) = l + 1
    BY <1>5
  <2>5. k \in Nat
    BY <1>2
  <2> DEFINE free == Cardinality(FreeAt(acc.at))
             was == Cardinality(FreeAt(once.at))
  <2>6. free \in Nat /\ was \in Nat /\ l <= k - 1 /\ free + (k - 1) = was + l
    BY <2>1, <2>3
  <2>7. Cardinality(FreeAt(new.at)) = free
    BY <2>2
  <2> HIDE DEF free, was
  <2>8. l + 1 <= k /\ free + k = was + (l + 1)
    BY <1>4, <2>5, <2>6
  <2> QED
    BY <2>4, <2>7, <2>8 DEF FreeCount, was
<1>20. \A s \in Slot : once.at[s] # Empty => new.at[s] = once.at[s]
  BY <1>5 DEF Tried
<1>21. AtMostOne(new.at)
  BY <1>5 DEF Tried
<1>22. Tried(once, k, new)
  BY <1>5, <1>14, <1>15, <1>16, <1>17, <1>18, <1>20, <1>21 DEF Tried, L, m
<1> QED
  BY <1>19, <1>22 DEF new, c, L

\* What the second round comes to.
LEMMA RetryFits ==
  ASSUME NEW once \in Acc, AtMostOne(once.at), LineFits(once)
  PROVE  LET new == Retried(once)
         IN  /\ new \in Acc
             /\ Tried(once, Len(once.line), new) /\ FreeCount(once, Len(once.line), new)
<1>1. PICK acc : IsRetry(once, acc)
  BY RetriedRuns
<1> DEFINE n == Len(once.line)
           Fit == {k \in 0..n : Tried(once, k, acc[k]) /\ FreeCount(once, k, acc[k])}
<1>2. n \in Nat /\ \A k \in 1..n : k - 1 \in 0..n /\ k \in 0..n /\ once.line[k] \in EnableChange
  <2>1. once.line \in Seq(EnableChange)
    BY DEF Acc
  <2> QED
    BY <2>1
<1>3. \A k \in 0..n : acc[k] \in Acc
  BY <1>1 DEF IsRetry
<1>4. 0 \in Fit
  <2>1. acc[0].at = once.at /\ acc[0].line = <<>>
    BY <1>1 DEF IsRetry
  <2>2. \A j \in 1..0 : FALSE
    OBVIOUS
  <2>3. Len(<<>>) = 0 /\ DOMAIN <<>> = {} /\ \A j \in (0 + 1)..n : j \in 1..n
    BY <1>2
  <2>4. Tried(once, 0, acc[0])
    BY <2>1, <2>2, <2>3 DEF Tried, LineFits, OnePerRobot
  <2>5. Cardinality(FreeAt(once.at)) \in Nat
    <3>1. FreeAt(once.at) \subseteq Slot
      BY DEF FreeAt
    <3> QED
      BY <3>1, SlotsFinite
  <2>6. FreeCount(once, 0, acc[0])
    BY <2>1, <2>3, <2>5 DEF FreeCount
  <2> QED
    BY <1>2, <2>4, <2>6
<1>5. ASSUME NEW k \in 1..n, k - 1 \in Fit PROVE k \in Fit
  <2> DEFINE x == acc[k - 1]
             c == once.line[k]
  <2>1. x \in Acc /\ Tried(once, k - 1, x) /\ FreeCount(once, k - 1, x) /\ c \in EnableChange
    BY <1>2, <1>3, <1>5
  <2>2. acc[k] = TryAgain(x, c)
    BY <1>1 DEF IsRetry
  <2>3. At(x.at, c.robot) = {}
    <3>1. k \in ((k - 1) + 1)..n
      BY <1>2
    <3>2. Nowhere(x.at, c.robot)
      BY <2>1, <3>1 DEF Tried
    <3> QED
      BY <3>2 DEF At, Nowhere
  <2> HIDE DEF x
  <2>4. CASE \E s \in FreeAt(x.at) : TryAgain(x, c) = Puts(x, c, s)
    BY <2>1, <2>2, <2>4, <1>2, PutsTries
  <2>5. CASE TryAgain(x, c) = Lines(x, c) /\ FreeAt(x.at) = {}
    BY <2>1, <2>2, <2>5, <1>2, LinesTries
  <2> HIDE DEF c, Fit
  <2> QED
    BY <2>1, <2>3, <2>4, <2>5, TryAgainDoes
<1>6. n \in Fit
  <2>1. \A k \in 1..n : k - 1 \in Fit => k \in Fit
    BY <1>5
  <2>2. n \in 0..n
    BY <1>2
  <2> HIDE DEF Fit, n
  <2> QED
    BY <1>2, <1>4, <2>1, <2>2, Induction
<1>7. Retried(once) = acc[n]
  BY <1>1 DEF IsRetry
<1> QED
  BY <1>3, <1>6, <1>7

\* The target is what the list comes to: the same is true of both rounds.
LEMMA TargetFits ==
  ASSUME active \in Stations, AtMostOne(active), NEW list, Sane(list)
  PROVE  LET once == Considered(list)
         IN  /\ once \in Acc /\ Turned(list, Len(list), once)
             /\ Target(list) \in Acc /\ Turned(list, Len(list), Target(list))
             /\ FreeCount(once, Len(once.line), Target(list))
             /\ Len(Target(list).line) > 0 => FreeAt(Target(list).at) = {}
<1> DEFINE once == Considered(list)
           n == Len(list)
           L == once.line
           m == Len(L)
           t == Target(list)
<1>1. n \in Nat /\ n \in 0..n /\ \A i \in 1..n : list[i] \in Change
  BY DEF Sane
<1>2. once \in Acc /\ Turned(list, n, once)
  <2>1. PICK acc : IsTurn(list, acc)
    BY ConsideredTurns DEF Sane
  <2>2. acc[n] \in Acc /\ Turned(list, n, acc[n])
    BY <1>1, <2>1, TurnsFit
  <2>3. once = acc[n]
    BY <2>1 DEF IsTurn
  <2> QED
    BY <2>2, <2>3
<1>3. AtMostOne(once.at) /\ LineFits(once)
  BY <1>2 DEF Turned
<1>4. t = Retried(once)
  BY DEF Target
<1> HIDE DEF once
<1>5. t \in Acc /\ Tried(once, m, t) /\ FreeCount(once, m, t)
  BY <1>2, <1>3, <1>4, RetryFits
<1> HIDE DEF t
<1>6. L \in Seq(EnableChange) /\ m \in Nat /\ t.line \in Seq(EnableChange)
  BY <1>2, <1>5 DEF Acc
<1>7. \A j \in 1..m : L[j] \in EnableChange /\ L[j].robot \in Robot
  <2>1. \A j \in 1..m : L[j] \in EnableChange
    BY <1>6
  <2> HIDE DEF L, m
  <2> QED
    BY <2>1 DEF EnableChange
<1>8. \A j \in 1..m : \E i \in 1..n : L[j] = list[i]
  BY <1>2 DEF Turned
<1> HIDE DEF n, m, L
<1>9. \A p \in 1..Len(t.line) : \E i \in 1..n : t.line[p] = list[i]
  <2>1. \A p \in 1..Len(t.line) : \E j \in 1..m : t.line[p] = L[j]
    BY <1>5 DEF Tried, L
  <2> QED
    BY <1>8, <2>1
<1>10. \A s \in Slot : once.at[s] # Empty => t.at[s] = once.at[s]
  BY <1>5 DEF Tried
<1>11. StaysOn(list, n, t.at)
  <2> SUFFICES ASSUME NEW s \in Slot, active[s] # Empty,
                      \A j \in 1..n : list[j] # Release(active[s].robot)
               PROVE  t.at[s].robot = active[s].robot
    BY DEF StaysOn
  <2>1. once.at[s].robot = active[s].robot
    BY <1>2 DEF Turned, StaysOn
  <2>2. active[s].robot \in Robot
    BY StationFacts
  <2>3. once.at[s] # Empty
    BY <2>1, <2>2, RobotAssumption DEF Empty
  <2> QED
    BY <1>10, <2>1, <2>3
<1>12. IsGone(list, n, t.at)
  <2> SUFFICES ASSUME NEW i \in 1..n, list[i] \in ReleaseChange, NEW s \in Slot
               PROVE  t.at[s].robot # list[i].robot
    BY DEF IsGone, Nowhere
  <2>1. once.at[s].robot # list[i].robot
    BY <1>2 DEF Turned, IsGone, Nowhere
  <2>2. CASE t.at[s] = once.at[s]
    BY <2>1, <2>2
  <2>3. CASE t.at[s] # once.at[s]
    <3>1. PICK j \in 1..m : t.at[s] = Cfg(L[j])
      BY <1>5, <2>3 DEF Tried, L
    <3>2. PICK h \in 1..n : L[j] = list[h]
      BY <1>8
    <3>3. list[h] \in EnableChange /\ t.at[s].robot = list[h].robot
      BY <1>7, <3>1, <3>2 DEF Cfg
    <3>4. h # i
      BY <3>3 DEF EnableChange, ReleaseChange
    <3>5. DOMAIN list = 1..n
      BY DEF Sane, n
    <3> QED
      BY <3>3, <3>4, <3>5 DEF Sane, OnePerRobot
  <2> QED
    BY <2>2, <2>3
<1>13. IsServed(list, n, t)
  <2> SUFFICES ASSUME NEW i \in 1..n, list[i] \in EnableChange
               PROVE  InLine(t.line, list[i]) \/ HasCfg(t.at, list[i])
    BY DEF IsServed
  <2>1. InLine(L, list[i]) \/ HasCfg(once.at, list[i])
    BY <1>2 DEF Turned, IsServed, L
  <2>2. ASSUME InLine(L, list[i]) PROVE InLine(t.line, list[i]) \/ HasCfg(t.at, list[i])
    <3>1. PICK j \in 1..m : L[j] = list[i]
      BY <2>2 DEF InLine, m
    <3>2. InLine(t.line, L[j]) \/ HasCfg(t.at, L[j])
      BY <1>5 DEF Tried, L
    <3> QED
      BY <3>1, <3>2
  <2>3. ASSUME HasCfg(once.at, list[i]) PROVE HasCfg(t.at, list[i])
    <3>1. PICK s \in Slot : once.at[s] = Cfg(list[i])
      BY <2>3 DEF HasCfg
    <3>2. list[i].robot \in Robot
      BY DEF EnableChange
    <3>3. once.at[s] # Empty
      BY <3>1, <3>2, RobotAssumption DEF Cfg, Empty
    <3> QED
      BY <1>10, <3>1, <3>3 DEF HasCfg
  <2> QED
    BY <2>1, <2>2, <2>3
<1>14. IsCounted(list, n, t.line)
  <2>1. m <= n /\ (m = n => Enables(list, n))
    BY <1>2 DEF Turned, IsCounted, m, L
  <2>2. Len(t.line) <= m /\ Len(t.line) \in Nat
    BY <1>5, <1>6 DEF FreeCount
  <2>3. n \in Nat
    BY <1>1
  <2> QED
    BY <1>6, <2>1, <2>2, <2>3 DEF IsCounted
<1>15. IsFull(list, n, t) /\ AtMostOne(t.at) /\ LineFits(t)
  BY <1>5 DEF Tried, IsFull
<1>16. Turned(list, n, t)
  BY <1>9, <1>11, <1>12, <1>13, <1>14, <1>15 DEF Turned
<1>17. Len(t.line) > 0 => FreeAt(t.at) = {}
  BY <1>5 DEF Tried
<1> QED
  BY <1>2, <1>5, <1>16, <1>17 DEF once, t, n, m, L

-----------------------------------------------------------------------------
\* What the target and an apply of it do, whatever the list.

LEMMA SaneSet ==
  ASSUME NEW list, Sane(list)
  PROVE  /\ ToSet(list) = {list[i] : i \in 1..Len(list)} /\ Len(list) \in Nat
         /\ DOMAIN list = 1..Len(list)
         /\ ToSet(list) \subseteq Change
         /\ \A c, d \in ToSet(list) : c.robot = d.robot => c = d
<1>1. /\ ToSet(list) = {list[i] : i \in 1..Len(list)} /\ Len(list) \in Nat
      /\ DOMAIN list = 1..Len(list) /\ ToSet(list) \subseteq Change
  BY DEF Sane, ToSet
<1>2. ASSUME NEW c \in ToSet(list), NEW d \in ToSet(list), c.robot = d.robot PROVE c = d
  <2>1. PICK i \in 1..Len(list), j \in 1..Len(list) : c = list[i] /\ d = list[j]
    BY <1>1
  <2> QED
    BY <1>1, <1>2, <2>1 DEF Sane, OnePerRobot
<1> QED
  BY <1>1, <1>2

LEMMA TargetDoes ==
  ASSUME active \in Stations, AtMostOne(active), NEW list, Sane(list)
  PROVE  LET t == Target(list)
         IN  /\ t.at \in Stations /\ AtMostOne(t.at)
             /\ Sane(t.line) /\ t.line \in Seq(EnableChange)
             /\ ToSet(t.line) \subseteq ToSet(list) \cap EnableChange
             /\ \A c \in ToSet(t.line) : Nowhere(t.at, c.robot)
             /\ \A s \in Slot : active[s] # Empty /\ Release(active[s].robot) \notin ToSet(list)
                                  => t.at[s].robot = active[s].robot
             /\ \A r \in Robot : Release(r) \in ToSet(list) => Nowhere(t.at, r)
             /\ \A c \in ToSet(list) \cap EnableChange : c \in ToSet(t.line) \/ HasCfg(t.at, c)
             /\ Len(t.line) <= Len(list)
             /\ Len(t.line) = Len(list) => ToSet(list) \subseteq EnableChange
             /\ ToSet(t.line) # {} => FreeAt(t.at) = {}
<1> DEFINE t == Target(list)
           n == Len(list)
<1>1. /\ t \in Acc /\ Turned(list, n, t)
      /\ Len(t.line) > 0 => FreeAt(t.at) = {}
  BY TargetFits
<1>2. /\ ToSet(list) = {list[i] : i \in 1..n} /\ n \in Nat /\ ToSet(list) \subseteq Change
  BY SaneSet
<1> HIDE DEF t, n
<1>3. t.at \in Stations /\ t.line \in Seq(EnableChange)
  BY <1>1 DEF Acc
<1>4. Sane(t.line)
  <2>1. t.line \in Seq(Change)
    BY <1>3 DEF Change
  <2> QED
    BY <1>1, <2>1 DEF Sane, Turned, LineFits
<1>5. ToSet(t.line) = {t.line[p] : p \in 1..Len(t.line)}
  BY <1>4, SaneSet
<1>6. ToSet(t.line) \subseteq ToSet(list) \cap EnableChange
  <2>1. \A p \in 1..Len(t.line) : t.line[p] \in EnableChange
    BY <1>3
  <2>2. \A p \in 1..Len(t.line) : \E i \in 1..n : t.line[p] = list[i]
    BY <1>1 DEF Turned
  <2> QED
    BY <1>2, <1>5, <2>1, <2>2
<1>7. \A c \in ToSet(t.line) : Nowhere(t.at, c.robot)
  BY <1>1, <1>5 DEF Turned, LineFits
<1>8. \A s \in Slot : active[s] # Empty /\ Release(active[s].robot) \notin ToSet(list)
                        => t.at[s].robot = active[s].robot
  BY <1>1, <1>2 DEF Turned, StaysOn
<1>9. \A r \in Robot : Release(r) \in ToSet(list) => Nowhere(t.at, r)
  <2> SUFFICES ASSUME NEW r \in Robot, Release(r) \in ToSet(list)
               PROVE  Nowhere(t.at, r)
    OBVIOUS
  <2>1. PICK i \in 1..n : list[i] = Release(r)
    BY <1>2
  <2>2. list[i] \in ReleaseChange /\ list[i].robot = r
    BY <2>1 DEF Release, ReleaseChange
  <2> QED
    BY <1>1, <2>2 DEF Turned, IsGone
<1>10. \A c \in ToSet(list) \cap EnableChange : c \in ToSet(t.line) \/ HasCfg(t.at, c)
  <2> SUFFICES ASSUME NEW i \in 1..n, list[i] \in EnableChange
               PROVE  list[i] \in ToSet(t.line) \/ HasCfg(t.at, list[i])
    BY <1>2
  <2> QED
    BY <1>1, <1>5 DEF Turned, IsServed, InLine
<1>11. Len(t.line) <= n /\ (Len(t.line) = n => ToSet(list) \subseteq EnableChange)
  BY <1>1, <1>2 DEF Turned, IsCounted, Enables
<1>12. AtMostOne(t.at)
  BY <1>1 DEF Turned
<1>13. ToSet(t.line) # {} => FreeAt(t.at) = {}
  <2>1. Len(t.line) \in Nat
    BY <1>3
  <2>2. ToSet(t.line) # {} => Len(t.line) > 0
    BY <1>5, <2>1
  <2> QED
    BY <1>1, <2>2
<1> QED
  BY <1>3, <1>4, <1>6, <1>7, <1>8, <1>9, <1>10, <1>11, <1>12, <1>13 DEF t, n

\* The part of a list whose kind is among kinds.
Selected(list, kinds) == {c \in ToSet(list) : c.kind \in kinds}

\* An apply is made of the list: the rest of the list waits on, as do those in line;
\* who was on the field is there yet unless released, and who was released is not.
Applied(list, kinds) ==
  /\ active' \in Stations /\ AtMostOne(active')
  /\ Sane(changes') /\ ToSet(changes') \subseteq ToSet(list)
  /\ \A c \in ToSet(list) : c.kind \notin kinds => c \in ToSet(changes')
  /\ \A c \in ToSet(changes') : c.kind \in kinds => c \in EnableChange /\ Nowhere(active', c.robot)
  /\ \A s \in Slot :
       active[s] # Empty /\ Release(active[s].robot) \notin Selected(list, kinds)
         => active'[s].robot = active[s].robot
  /\ \A r \in Robot : Release(r) \in Selected(list, kinds) => Nowhere(active', r)
  /\ \A c \in Selected(list, kinds) \cap EnableChange : c \in ToSet(changes') \/ HasCfg(active', c)
  /\ \A c \in ToSet(changes') : c.kind \in kinds => FreeAt(active') = {}

LEMMA ApplyDoes ==
  ASSUME active \in Stations, AtMostOne(active), NEW list, Sane(list), NEW kinds,
         Apply(list, kinds)
  PROVE  Applied(list, kinds)
<1> DEFINE selected == Selected(list, kinds)
           part == Only(list, selected)
           t == Target(part)
           kept == (ToSet(list) \ selected) \cup ToSet(t.line)
<1>1. active' = t.at /\ changes' = Only(list, kept)
  BY DEF Apply, Selected
<1>2. Sane(part) /\ ToSet(part) = selected
  BY OnlySane DEF Selected
<1> HIDE DEF part
<1>3. /\ t.at \in Stations /\ AtMostOne(t.at)
      /\ ToSet(t.line) \subseteq selected \cap EnableChange
      /\ \A c \in ToSet(t.line) : Nowhere(t.at, c.robot)
      /\ \A s \in Slot : active[s] # Empty /\ Release(active[s].robot) \notin selected
                           => t.at[s].robot = active[s].robot
      /\ \A r \in Robot : Release(r) \in selected => Nowhere(t.at, r)
      /\ \A c \in selected \cap EnableChange : c \in ToSet(t.line) \/ HasCfg(t.at, c)
  BY <1>2, TargetDoes
<1>9. ToSet(t.line) # {} => FreeAt(t.at) = {}
  BY <1>2, TargetDoes
<1> HIDE DEF t
<1>4. selected \subseteq ToSet(list) /\ \A c \in ToSet(list) : c \in selected <=> c.kind \in kinds
  BY DEF Selected
<1> HIDE DEF selected
<1>5. kept \subseteq ToSet(list)
  BY <1>3, <1>4
<1>6. Sane(changes') /\ ToSet(changes') = kept
  <2>1. Sane(Only(list, kept)) /\ ToSet(Only(list, kept)) = ToSet(list) \cap kept
    BY OnlySane
  <2> HIDE DEF kept
  <2> QED
    BY <1>1, <1>5, <2>1
<1>7. \A c \in ToSet(list) : c.kind \notin kinds => c \in ToSet(changes')
  BY <1>4, <1>6
<1>8. \A c \in ToSet(changes') : c.kind \in kinds => c \in ToSet(t.line)
  BY <1>4, <1>6
<1>10. \A c \in ToSet(changes') : c.kind \in kinds => FreeAt(active') = {}
  BY <1>1, <1>8, <1>9
<1> QED
  BY <1>1, <1>3, <1>4, <1>5, <1>6, <1>7, <1>8, <1>10 DEF Applied, selected

-----------------------------------------------------------------------------
\* What is added to lists.

\* Two sane lists about different robots, one after the other.
LEMMA ConcatSane ==
  ASSUME NEW a, Sane(a), NEW b, Sane(b),
         \A c \in ToSet(a), d \in ToSet(b) : c.robot # d.robot
  PROVE  Sane(a \o b) /\ ToSet(a \o b) = ToSet(a) \cup ToSet(b)
<1> DEFINE m == Len(a)
           n == Len(b)
           ab == a \o b
<1>1. a \in Seq(Change) /\ b \in Seq(Change) /\ m \in Nat /\ n \in Nat
  BY DEF Sane
<1>2. /\ ab \in Seq(Change) /\ Len(ab) = m + n
      /\ \A i \in 1..(m + n) : ab[i] = IF i <= m THEN a[i] ELSE b[i - m]
  BY <1>1
<1>3. /\ ToSet(a) = {a[i] : i \in 1..m} /\ DOMAIN a = 1..m
      /\ ToSet(b) = {b[i] : i \in 1..n} /\ DOMAIN b = 1..n
  BY SaneSet
<1>4. DOMAIN ab = 1..(m + n) /\ ToSet(ab) = {ab[i] : i \in 1..(m + n)}
  BY <1>1, <1>2 DEF ToSet
<1> HIDE DEF m, n, ab
<1>5. \A i \in 1..(m + n) : \/ i \in 1..m /\ ab[i] = a[i]
                            \/ i - m \in 1..n /\ i \notin 1..m /\ ab[i] = b[i - m]
  BY <1>1, <1>2
<1>6. \A i \in 1..m : i \in 1..(m + n) /\ ab[i] = a[i]
  BY <1>1, <1>2
<1>7. \A i \in 1..n : i + m \in 1..(m + n) /\ ab[i + m] = b[i]
  BY <1>1, <1>2
<1>8. ToSet(ab) = ToSet(a) \cup ToSet(b)
  <2>1. ToSet(ab) \subseteq ToSet(a) \cup ToSet(b)
    BY <1>3, <1>4, <1>5
  <2>2. ToSet(a) \subseteq ToSet(ab)
    BY <1>3, <1>4, <1>6
  <2>3. ToSet(b) \subseteq ToSet(ab)
    BY <1>3, <1>4, <1>7
  <2> QED
    BY <2>1, <2>2, <2>3
<1>9. ASSUME NEW i \in 1..(m + n), NEW j \in 1..(m + n), ab[i].robot = ab[j].robot
      PROVE  i = j
  <2>1. CASE i \in 1..m /\ j \in 1..m
    BY <1>3, <1>6, <1>9, <2>1 DEF Sane, OnePerRobot
  <2>2. CASE i - m \in 1..n /\ j - m \in 1..n /\ ab[i] = b[i - m] /\ ab[j] = b[j - m]
    <3>1. i - m = j - m
      BY <1>3, <1>9, <2>2 DEF Sane, OnePerRobot
    <3> QED
      BY <1>1, <3>1
  <2>3. CASE i \in 1..m /\ j - m \in 1..n /\ ab[j] = b[j - m]
    <3>1. ab[i] \in ToSet(a) /\ ab[j] \in ToSet(b)
      BY <1>3, <1>6, <2>3
    <3> QED
      BY <1>9, <3>1
  <2>4. CASE j \in 1..m /\ i - m \in 1..n /\ ab[i] = b[i - m]
    <3>1. ab[j] \in ToSet(a) /\ ab[i] \in ToSet(b)
      BY <1>3, <1>6, <2>4
    <3> QED
      BY <1>9, <3>1
  <2> QED
    BY <1>5, <2>1, <2>2, <2>3, <2>4
<1>10. Sane(ab)
  BY <1>2, <1>4, <1>9 DEF Sane, OnePerRobot
<1> QED
  BY <1>8, <1>10 DEF ab

\* Releases of different robots.
LEMMA ReleasesSane ==
  ASSUME NEW n \in Nat, NEW f, \A i \in 1..n : f[i] \in Robot,
         \A i, j \in 1..n : f[i] = f[j] => i = j
  PROVE  LET b == [i \in 1..n |-> Release(f[i])]
         IN  Sane(b) /\ ToSet(b) = {Release(f[i]) : i \in 1..n} /\ Len(b) = n
<1> DEFINE b == [i \in 1..n |-> Release(f[i])]
<1>1. \A i \in 1..n : Release(f[i]) \in Change /\ Release(f[i]).robot = f[i]
  BY DEF Release, Change, ReleaseChange
<1>2. b \in Seq(Change) /\ Len(b) = n
  BY <1>1
<1>3. DOMAIN b = 1..n /\ \A i \in 1..n : b[i] = Release(f[i])
  OBVIOUS
<1> HIDE DEF b
<1>4. OnePerRobot(b)
  BY <1>1, <1>3 DEF OnePerRobot
<1>5. ToSet(b) = {Release(f[i]) : i \in 1..n}
  BY <1>3 DEF ToSet
<1> QED
  BY <1>2, <1>4, <1>5 DEF Sane, b

\* The list without what waits for a robot.
LEMMA WithoutSane ==
  ASSUME NEW list, Sane(list), NEW r
  PROVE  Sane(Without(list, r)) /\ ToSet(Without(list, r)) = {c \in ToSet(list) : c.robot # r}
<1>1. /\ Sane(Without(list, r))
      /\ ToSet(Without(list, r)) = ToSet(list) \cap {c \in ToSet(list) : c.robot # r}
  BY OnlySane DEF Without
<1> QED
  BY <1>1

\* One more change.
LEMMA AppendSane ==
  ASSUME NEW list, Sane(list), NEW d \in Change, \A c \in ToSet(list) : c.robot # d.robot
  PROVE  Sane(Append(list, d)) /\ ToSet(Append(list, d)) = ToSet(list) \cup {d}
<1> DEFINE one == <<d>>
<1>1. one \in Seq(Change) /\ DOMAIN one = 1..1 /\ one[1] = d
  OBVIOUS
<1>2. Sane(one) /\ ToSet(one) = {d}
  BY <1>1 DEF Sane, OnePerRobot, ToSet
<1>3. Append(list, d) = list \o one
  BY DEF Sane
<1> HIDE DEF one
<1> QED
  BY <1>2, <1>3, ConcatSane

\* What addChange() adds, if anything: the change, or the same enable at the
\* station where its robot is.
IsAdded(c, d) ==
  /\ d \in Change /\ d.robot = c.robot /\ d.kind = c.kind
  /\ c.kind = "release" => d = c
  /\ c.kind = "enable" => /\ d.key = c.key
                          /\ At(active, c.robot) # {} => d.slot \in At(active, c.robot)
LEMMA AddDoes ==
  ASSUME NEW list, Sane(list), NEW c \in Change
  PROVE  \/ ~Adds(c) /\ AddChange(list, c) = Without(list, c.robot)
         \/ /\ Adds(c)
            /\ \E d : IsAdded(c, d) /\ AddChange(list, c) = Append(Without(list, c.robot), d)
<1> DEFINE here == At(active, c.robot)
<1>1. CASE ~Adds(c)
  BY <1>1 DEF AddChange
<1>2. CASE Adds(c) /\ c.kind = "enable" /\ here # {}
  <2> DEFINE s == First(here)
             d == [c EXCEPT !.slot = s]
  <2>1. here \subseteq Slot
    BY DEF At
  <2>2. s \in here
    <3> HIDE DEF here
    <3> QED
      BY <1>2, <2>1, FirstIn
  <2>3. AddChange(list, c) = Append(Without(list, c.robot), d)
    BY <1>2 DEF AddChange
  <2>4. c \in EnableChange
    BY <1>2, Kinds
  <2>5. IsAdded(c, d)
    <3> HIDE DEF s, here
    <3>1. d = [kind |-> c.kind, robot |-> c.robot, key |-> c.key, slot |-> s]
      BY <2>4 DEF EnableChange
    <3>2. d \in EnableChange /\ d.slot = s
      BY <2>1, <2>2, <2>4, <3>1 DEF EnableChange
    <3> QED
      BY <1>2, <2>2, <3>1, <3>2 DEF IsAdded, Change, here
  <2> QED
    BY <1>2, <2>3, <2>5
<1>3. CASE Adds(c) /\ ~(c.kind = "enable" /\ here # {})
  <2>1. AddChange(list, c) = Append(Without(list, c.robot), c)
    BY <1>3 DEF AddChange
  <2>2. IsAdded(c, c)
    BY <1>3 DEF IsAdded
  <2> QED
    BY <1>3, <2>1, <2>2
<1> QED
  BY <1>1, <1>2, <1>3

LEMMA AddSane ==
  ASSUME NEW list, Sane(list), NEW c \in Change
  PROVE  /\ Sane(AddChange(list, c))
         /\ \A x \in ToSet(AddChange(list, c)) :
              \/ x \in ToSet(list) /\ x.robot # c.robot
              \/ Adds(c) /\ IsAdded(c, x)
<1>1. Sane(Without(list, c.robot)) /\ ToSet(Without(list, c.robot)) = {x \in ToSet(list) : x.robot # c.robot}
  BY WithoutSane
<1>2. ASSUME NEW d, Adds(c), IsAdded(c, d), AddChange(list, c) = Append(Without(list, c.robot), d)
      PROVE  /\ Sane(AddChange(list, c))
             /\ ToSet(AddChange(list, c)) = {x \in ToSet(list) : x.robot # c.robot} \cup {d}
  <2>1. d \in Change /\ d.robot = c.robot
    BY <1>2 DEF IsAdded
  <2> QED
    BY <1>1, <1>2, <2>1, AppendSane
<1> QED
  BY <1>1, <1>2, AddDoes

-----------------------------------------------------------------------------
\* The idle robots that give way.

\* Robots on the field can be counted: each has a station.
LEMMA OnFieldFinite ==
  ASSUME active \in Stations, NEW idle, idle \subseteq OnField
  PROVE  /\ IsFiniteSet(idle) /\ Cardinality(idle) \in Nat
         /\ SetToSeq(idle) \in [1..Cardinality(idle) -> idle]
         /\ \A i, j \in 1..Cardinality(idle) : SetToSeq(idle)[i] = SetToSeq(idle)[j] => i = j
<1>1. IsFiniteSet(idle)
  <2> DEFINE f == [r \in idle |-> First(At(active, r))]
  <2>1. ASSUME NEW r \in idle PROVE f[r] \in Slot /\ active[f[r]].robot = r
    <3>1. At(active, r) \subseteq Slot /\ At(active, r) # {}
      BY DEF OnField, At
    <3>2. First(At(active, r)) \in At(active, r)
      BY <3>1, FirstIn
    <3> QED
      BY <3>2 DEF At
  <2> HIDE DEF f
  <2>2. f \in [idle -> Slot]
    BY <2>1 DEF f
  <2>3. f \in Injection(idle, Slot)
    BY <2>1, <2>2 DEF Injection, IsInjective
  <2>4. IsFiniteSet(Slot)
    BY SlotsFinite
  <2> QED
    BY <2>3, <2>4, FS_Injection
<1>2. Cardinality(idle) \in Nat /\ ExistsBijection(1..Cardinality(idle), idle)
  BY <1>1, FS_CardinalityType
<1> DEFINE n == Cardinality(idle)
           Orders(f) == f \in [1..n -> idle] /\ IsInjective(f)
<1>3. PICK g : Orders(g)
  BY <1>2 DEF ExistsBijection, Bijection, Injection
<1>4. SetToSeq(idle) = CHOOSE f \in [1..n -> idle] : IsInjective(f)
  BY DEF SetToSeq
<1>5. SetToSeq(idle) \in [1..n -> idle] /\ IsInjective(SetToSeq(idle))
  <2> HIDE DEF n
  <2> QED
    BY <1>3, <1>4
<1> QED
  BY <1>1, <1>2, <1>5 DEF IsInjective

\* Their releases are a sane list.
LEMMA ReleasedIs ==
  ASSUME active \in Stations, NEW idle, idle \subseteq OnField
  PROVE  /\ Sane(Released(idle)) /\ Len(Released(idle)) = Cardinality(idle)
         /\ \A c \in ToSet(Released(idle)) : c.robot \in idle /\ c = Release(c.robot)
<1> DEFINE n == Cardinality(idle)
           f == SetToSeq(idle)
           b == [i \in 1..n |-> Release(f[i])]
<1>1. n \in Nat /\ \A i, j \in 1..n : f[i] = f[j] => i = j
  BY OnFieldFinite
<1>2. \A i \in 1..n : f[i] \in idle /\ f[i] \in Robot
  BY OnFieldFinite DEF OnField
<1>3. Released(idle) = b
  BY DEF Released
<1> HIDE DEF n, f
<1>4. Sane(b) /\ ToSet(b) = {Release(f[i]) : i \in 1..n} /\ Len(b) = n
  BY <1>1, <1>2, ReleasesSane
<1> HIDE DEF b
<1>5. \A c \in ToSet(b) : c.robot \in idle /\ c = Release(c.robot)
  BY <1>2, <1>4 DEF Release
<1> QED
  BY <1>3, <1>4, <1>5 DEF n

\* A list with the releases of idle robots it says nothing about.
LEMMA GivesWaySane ==
  ASSUME active \in Stations, NEW list, Sane(list), NEW idle, idle \subseteq OnField,
         idle \cap Robots(list) = {}
  PROVE  /\ Sane(list \o Released(idle))
         /\ ToSet(list \o Released(idle)) = ToSet(list) \cup ToSet(Released(idle))
<1>1. Sane(Released(idle)) /\ \A c \in ToSet(Released(idle)) : c.robot \in idle
  BY ReleasedIs
<1>2. \A c \in ToSet(list) : c.robot \notin idle
  BY DEF Robots
<1> QED
  BY <1>1, <1>2, ConcatSane

\* When robots in line are as many as the idle ones that are released for
\* them, they take every station that comes free.
LEMMA NoneFree ==
  ASSUME active \in Stations, AtMostOne(active), NEW list, Sane(list),
         ToSet(list) \subseteq EnableChange, NEW idle, idle # {}, idle \subseteq OnField,
         idle \cap Robots(list) = {}, Cardinality(idle) <= Len(Target(list).line)
  PROVE  FreeAt(Target(list \o Released(idle)).at) = {}
<1> DEFINE n == Len(list)
           k == Cardinality(idle)
           b == Released(idle)
           full == list \o b
           once == Considered(list)
           twice == Considered(full)
           t == Target(full)
<1>1. /\ Sane(b) /\ Len(b) = k /\ Sane(full) /\ n \in Nat /\ k \in Nat /\ k > 0
      /\ list \in Seq(Change) /\ b \in Seq(Change)
  <2>1. IsFiniteSet(idle) /\ k \in Nat /\ k # 0
    BY OnFieldFinite, FS_EmptySet
  <2> QED
    BY <2>1, ReleasedIs, GivesWaySane DEF Sane
<1>2. /\ Len(full) = n + k
      /\ \A i \in 1..n : full[i] = list[i]
      /\ \A i \in 1..k : full[n + i] = b[i]
  BY <1>1
<1>3. \A i \in 1..k : b[i] \in ReleaseChange /\ b[i].robot \in idle /\ b[i].robot \in Robot
  <2>1. ToSet(b) = {b[i] : i \in 1..k}
    BY <1>1, SaneSet
  <2>2. \A c \in ToSet(b) : c.robot \in idle /\ c = Release(c.robot)
    BY ReleasedIs
  <2>3. \A i \in 1..k : b[i].robot \in idle /\ b[i] = Release(b[i].robot)
    BY <2>1, <2>2
  <2>4. \A r \in idle : r \in Robot /\ Release(r) \in ReleaseChange
    BY DEF OnField, Release, ReleaseChange
  <2> HIDE DEF b, k
  <2> QED
    BY <2>3, <2>4
<1>4. PICK acc : IsTurn(list, acc)
  BY <1>1, ConsideredTurns
<1>5. PICK big : IsTurn(full, big)
  BY <1>1, ConsideredTurns DEF Sane
<1> HIDE DEF b, full, n, k
\* The list is considered as it would be alone,
<1>6. big[n] = once
  <2> DEFINE Alike == {i \in 0..n : big[i] = acc[i]}
  <2>1. 0 \in Alike
    BY <1>1, <1>4, <1>5 DEF IsTurn
  <2>2. ASSUME NEW i \in 1..n, i - 1 \in Alike PROVE i \in Alike
    <3>1. i \in 1..Len(full) /\ i \in 1..Len(list) /\ i \in 0..n
      BY <1>1, <1>2 DEF n
    <3>2. big[i] = Consider(big[i - 1], full[i]) /\ acc[i] = Consider(acc[i - 1], list[i])
      BY <1>4, <1>5, <3>1 DEF IsTurn
    <3> QED
      BY <1>2, <2>2, <3>1, <3>2
  <2>3. n \in 0..n
    BY <1>1
  <2>4. n \in Alike
    <3>1. \A i \in 1..n : i - 1 \in Alike => i \in Alike
      BY <2>2
    <3> HIDE DEF Alike
    <3> QED
      BY <1>1, <2>1, <2>3, <3>1, Induction
  <2> QED
    BY <1>4, <2>4 DEF IsTurn, n
\* with every station taken,
<1>7. once \in Acc /\ Turned(list, n, once) /\ k <= Len(once.line) /\ Len(once.line) \in Nat
  <2>1. /\ once \in Acc /\ Turned(list, n, once) /\ Target(list) \in Acc
        /\ FreeCount(once, Len(once.line), Target(list))
    BY TargetFits DEF n
  <2>2. Len(Target(list).line) <= Len(once.line)
    BY <2>1 DEF FreeCount
  <2>3. Len(Target(list).line) \in Nat /\ Len(once.line) \in Nat
    <3>1. Target(list).line \in Seq(EnableChange) /\ once.line \in Seq(EnableChange)
      BY <2>1 DEF Acc
    <3> QED
      BY <3>1
  <2>4. k <= Len(Target(list).line)
    BY DEF k
  <2> QED
    BY <1>1, <2>1, <2>2, <2>3, <2>4
<1>8. FreeAt(once.at) = {} /\ AtMostOne(once.at) /\ once.at \in Stations
  <2>1. Enables(list, n)
    BY SaneSet DEF Enables, n
  <2>2. Len(once.line) > 0
    BY <1>1, <1>7
  <2> QED
    BY <1>7, <2>1, <2>2 DEF Turned, IsFull, Acc
\* and the releases free the idle robots' stations only.
<1> DEFINE Idle == {s \in Slot : once.at[s].robot \in idle}
<1> HIDE DEF once
<1>9. twice.line = once.line /\ FreeAt(twice.at) \subseteq Idle
  <2> DEFINE Like(x) == x.line = once.line /\ \A s \in Slot : x.at[s] = once.at[s] \/ s \in Idle
             Freed == {i \in 0..k : Like(big[n + i])}
  <2>1. 0 \in Freed
    BY <1>1, <1>6
  <2>2. ASSUME NEW i \in 1..k, i - 1 \in Freed PROVE i \in Freed
    <3> DEFINE x == big[n + (i - 1)]
    <3>1. n + i \in 1..Len(full) /\ (n + i) - 1 = n + (i - 1) /\ n + (i - 1) \in 0..Len(full)
      BY <1>1, <1>2
    <3>2. big[n + i] = Consider(x, b[i]) /\ x \in Acc
      BY <1>2, <1>5, <3>1 DEF IsTurn
    <3>3. Like(x)
      BY <2>2
    <3> HIDE DEF x
    <3>4. b[i] \in ReleaseChange /\ b[i] \in Change /\ b[i] \notin EnableChange /\ b[i].robot \in idle
      BY <1>3 DEF ReleaseChange, EnableChange, Change
    <3>5. big[n + i] = Frees(x, b[i].robot)
      BY <3>2, <3>4, ConsiderDoes
    <3>6. Like(Frees(x, b[i].robot))
      BY <3>3, <3>4 DEF Frees
    <3> HIDE DEF Like
    <3> QED
      BY <3>5, <3>6
  <2>3. k \in Freed
    <3>1. \A i \in 1..k : i - 1 \in Freed => i \in Freed
      BY <2>2
    <3>2. k \in 0..k
      BY <1>1
    <3> HIDE DEF Freed
    <3> QED
      BY <1>1, <2>1, <3>1, <3>2, Induction
  <2>4. twice = big[n + k]
    BY <1>2, <1>5 DEF IsTurn
  <2>5. Like(twice)
    BY <2>3, <2>4
  <2> HIDE DEF twice, Idle
  <2> QED
    BY <1>8, <2>5 DEF FreeAt
<1>10. Cardinality(FreeAt(twice.at)) <= k /\ Cardinality(FreeAt(twice.at)) \in Nat
  <2> DEFINE F == FreeAt(twice.at)
             f == [s \in F |-> once.at[s].robot]
  <2>1. F \subseteq Slot /\ \A s \in F : once.at[s].robot \in idle
    BY <1>9 DEF FreeAt
  <2>2. \A s \in F : once.at[s] # Empty
    BY <1>8, <2>1 DEF FreeAt
  <2> HIDE DEF F
  <2>3. f \in [F -> idle]
    BY <2>1
  <2>4. \A s, u \in F : f[s] = f[u] => s = u
    BY <1>8, <2>1, <2>2 DEF AtMostOne
  <2> HIDE DEF f
  <2>5. f \in Injection(F, idle)
    BY <2>3, <2>4 DEF Injection, IsInjective
  <2>6. IsFiniteSet(idle)
    BY OnFieldFinite
  <2>7. Cardinality(F) <= k
    BY <2>5, <2>6, FS_Injection DEF k
  <2>8. Cardinality(F) \in Nat
    BY <2>1, SlotsFinite
  <2> QED
    BY <2>7, <2>8 DEF F
<1>11. /\ FreeCount(twice, Len(twice.line), t) /\ t \in Acc
       /\ Len(t.line) > 0 => FreeAt(t.at) = {}
  BY <1>1, TargetFits
<1>12. Len(t.line) \in Nat
  BY <1>11 DEF Acc
<1>13. /\ Cardinality(FreeAt(t.at)) + Len(twice.line) = Cardinality(FreeAt(twice.at)) + Len(t.line)
       /\ Len(twice.line) = Len(once.line)
  BY <1>9, <1>11 DEF FreeCount
<1>14. IsFiniteSet(FreeAt(t.at)) /\ Cardinality(FreeAt(t.at)) \in Nat
  <2>1. FreeAt(t.at) \subseteq Slot
    BY DEF FreeAt
  <2> QED
    BY <2>1, SlotsFinite
<1> HIDE DEF t, twice
<1>15. CASE Len(t.line) = 0
  <2>1. Cardinality(FreeAt(t.at)) = 0
    BY <1>1, <1>7, <1>10, <1>13, <1>14, <1>15
  <2>2. FreeAt(t.at) = {}
    BY <1>14, <2>1, FS_EmptySet
  <2> QED
    BY <2>2 DEF t, full, b
<1>16. CASE Len(t.line) > 0
  BY <1>11, <1>16 DEF t, full, b
<1> QED
  BY <1>12, <1>15, <1>16

-----------------------------------------------------------------------------
\* The invariant.

\* A change would do something.
Sensible(c, at) ==
  /\ c.kind = "release" => ~Nowhere(at, c.robot)
  /\ c.kind = "enable" => /\ ~Nowhere(at, c.robot) => at[c.slot].robot = c.robot
                          /\ at[c.slot] # Cfg(c)
FieldOK == active \in Stations /\ AtMostOne(active)
ListOK(list) == Sane(list) /\ \A c \in ToSet(list) : Sensible(c, active)
MatchOK ==
  /\ phase \in {"idle", "created", "countdown", "running", "over"} /\ joined \in BOOLEAN
  /\ holdForMatch \in BOOLEAN /\ holdAdmin \in BOOLEAN
IInv == FieldOK /\ ListOK(changes) /\ MatchOK

\* At most one station is one by one the same.
LEMMA AtMostOneIs ==
  ASSUME NEW S, S \subseteq Slot
  PROVE  Cardinality(S) <= 1 <=> \A s, t \in S : s = t
<1>1. IsFiniteSet(S) /\ Cardinality(S) \in Nat
  BY SlotsFinite
<1>2. ASSUME Cardinality(S) <= 1, NEW s \in S, NEW t \in S PROVE s = t
  <2>1. Cardinality(S) # 0
    BY <1>1, FS_EmptySet
  <2>2. Cardinality(S) = 1
    BY <1>1, <1>2, <2>1
  <2>3. \E x : S = {x}
    BY <1>1, <2>2, FS_Singleton
  <2> QED
    BY <2>3
<1>3. ASSUME \A s, t \in S : s = t PROVE Cardinality(S) <= 1
  <2>1. CASE S = {}
    BY <2>1, FS_EmptySet
  <2>2. CASE S # {}
    <3>1. \E x : S = {x}
      BY <1>3, <2>2
    <3>2. Cardinality(S) = 1
      BY <1>1, <3>1, FS_Singleton
    <3> QED
      BY <3>2
  <2> QED
    BY <2>1, <2>2
<1> QED
  BY <1>2, <1>3

\* Who is on the field.
LEMMA OnFieldIs ==
  /\ \A r \in Robot : r \in OnField <=> ~Nowhere(active, r)
  /\ \A r \in Robot : r \in OnField' <=> ~Nowhere(active', r)
  /\ OnField \subseteq Robot
BY DEF OnField, At, Nowhere

\* The properties that TLC checks are inductive as they are.
LEMMA InvariantIs == IInv <=> TypeOK /\ WaitingMakesSense
<1>1. TypeOK <=> active \in Stations /\ changes \in Seq(Change) /\ MatchOK
  BY DEF TypeOK, Stations, Change, MatchOK
<1> SUFFICES ASSUME active \in Stations, changes \in Seq(Change)
             PROVE  /\ AtMostOne(active) /\ OnePerRobot(changes)
                    /\ \A c \in ToSet(changes) : Sensible(c, active)
                    <=> WaitingMakesSense
  BY <1>1 DEF IInv, FieldOK, ListOK, Sane
<1>2. OneStationPerRobot <=> AtMostOne(active)
  <2>1. \A r : At(active, r) \subseteq Slot
    BY DEF At
  <2>2. OneStationPerRobot <=> \A r \in Robot : \A s, t \in At(active, r) : s = t
    BY <2>1, AtMostOneIs DEF OneStationPerRobot
  <2>3. \A s \in Slot : active[s] # Empty <=> active[s].robot \in Robot
    BY StationFacts
  <2> QED
    BY <2>2, <2>3 DEF At, AtMostOne
<1>3. /\ DOMAIN changes = 1..Len(changes)
      /\ ToSet(changes) = {changes[i] : i \in DOMAIN changes}
      /\ \A i \in DOMAIN changes : changes[i] \in Change
  BY DEF ToSet
<1>4. OnePerRobot(changes) <=>
        \A i \in DOMAIN changes : \A j \in DOMAIN changes :
          changes[j].robot = changes[i].robot => j = i
  BY DEF OnePerRobot
<1>5. ASSUME NEW c \in Change
      PROVE  Sensible(c, active) <=>
               /\ c.kind = "release" => c.robot \in OnField
               /\ c.kind = "enable" =>
                    /\ c.robot \in OnField => c.slot \in At(active, c.robot)
                    /\ active[c.slot] # [robot |-> c.robot, key |-> c.key]
  <2>1. c.robot \in Robot /\ (c.kind = "enable" => c \in EnableChange)
    BY Kinds
  <2>2. c.kind = "enable" => c.slot \in Slot
    BY <2>1 DEF EnableChange
  <2>3. c.robot \in OnField <=> ~Nowhere(active, c.robot)
    BY <2>1, OnFieldIs
  <2> QED
    BY <2>2, <2>3 DEF Sensible, At, Cfg
<1>6. (\A c \in ToSet(changes) : Sensible(c, active)) <=>
        \A i \in DOMAIN changes :
          /\ changes[i].kind = "release" => changes[i].robot \in OnField
          /\ changes[i].kind = "enable" =>
               /\ changes[i].robot \in OnField => changes[i].slot \in At(active, changes[i].robot)
               /\ active[changes[i].slot] # [robot |-> changes[i].robot, key |-> changes[i].key]
  BY <1>3, <1>5
<1>7. WaitingMakesSense <=>
        /\ OneStationPerRobot
        /\ \A i \in DOMAIN changes : \A j \in DOMAIN changes :
             changes[j].robot = changes[i].robot => j = i
        /\ \A i \in DOMAIN changes :
          /\ changes[i].kind = "release" => changes[i].robot \in OnField
          /\ changes[i].kind = "enable" =>
               /\ changes[i].robot \in OnField => changes[i].slot \in At(active, changes[i].robot)
               /\ active[changes[i].slot] # [robot |-> changes[i].robot, key |-> changes[i].key]
  BY DEF WaitingMakesSense
<1> QED
  BY <1>2, <1>4, <1>6, <1>7

\* An apply keeps it.
LEMMA AppliedInv ==
  ASSUME active \in Stations, NEW list, Sane(list), NEW kinds, "enable" \in kinds,
         Applied(list, kinds), MatchOK',
         \A c \in ToSet(list) : c.kind \notin kinds => ~Nowhere(active, c.robot)
  PROVE  IInv'
<1>1. active' \in Stations /\ AtMostOne(active') /\ Sane(changes')
  BY DEF Applied
<1>2. ASSUME NEW c \in ToSet(changes') PROVE Sensible(c, active')
  <2>1. c \in ToSet(list) /\ c \in Change
    BY SaneSet DEF Applied
  <2>2. CASE c.kind \in kinds
    <3>1. c \in EnableChange /\ Nowhere(active', c.robot)
      BY <2>2 DEF Applied
    <3>2. c.slot \in Slot /\ c.kind = "enable"
      BY <3>1 DEF EnableChange
    <3>3. active'[c.slot].robot # c.robot
      BY <3>1, <3>2 DEF Nowhere
    <3> QED
      BY <3>1, <3>2, <3>3 DEF Sensible, Cfg
  <2>3. CASE c.kind \notin kinds
    <3>1. c \in ReleaseChange /\ c = Release(c.robot) /\ c.kind = "release" /\ c.robot \in Robot
      BY <2>1, <2>3, Kinds
    <3>2. PICK s \in Slot : active[s].robot = c.robot
      BY <2>1, <2>3 DEF Nowhere
    <3>3. active[s] # Empty
      BY <3>1, <3>2, RobotAssumption DEF Empty
    <3>4. Release(active[s].robot) \notin Selected(list, kinds)
      BY <2>3, <3>1, <3>2 DEF Selected
    <3>5. active'[s].robot = c.robot
      BY <3>2, <3>3, <3>4 DEF Applied
    <3> QED
      BY <3>1, <3>5 DEF Sensible, Nowhere
  <2> QED
    BY <2>2, <2>3
<1> QED
  BY <1>1, <1>2 DEF IInv, FieldOK, ListOK

\* So does a list that loses some changes.
LEMMA OnlyOK ==
  ASSUME NEW list, ListOK(list), NEW S
  PROVE  ListOK(Only(list, S))
<1>1. Sane(Only(list, S)) /\ ToSet(Only(list, S)) = ToSet(list) \cap S
  BY OnlySane DEF ListOK
<1> QED
  BY <1>1 DEF ListOK
LEMMA OnlyInv ==
  ASSUME IInv, NEW S, changes' = Only(changes, S), active' = active, MatchOK'
  PROVE  IInv'
<1>1. ListOK(Only(changes, S))
  BY OnlyOK DEF IInv
<1> QED
  BY <1>1 DEF IInv, FieldOK, ListOK
LEMMA StutterInv ==
  ASSUME IInv, changes' = changes, active' = active, MatchOK'
  PROVE  IInv'
BY DEF IInv, FieldOK, ListOK

\* And a change added to it.
LEMMA AddOK ==
  ASSUME active \in Stations, NEW list, ListOK(list), NEW c \in Change
  PROVE  ListOK(AddChange(list, c))
<1>1. Sane(AddChange(list, c))
  BY AddSane DEF ListOK
<1>2. ASSUME NEW x \in ToSet(AddChange(list, c)) PROVE Sensible(x, active)
  <2>1. CASE x \in ToSet(list)
    BY <2>1 DEF ListOK
  <2>2. CASE Adds(c) /\ IsAdded(c, x)
    <3>1. x \in Change /\ x.robot = c.robot /\ x.kind = c.kind
      BY <2>2 DEF IsAdded
    <3>2. CASE c.kind = "release"
      <4>1. c.robot \in OnField
        BY <2>2, <3>2 DEF Adds
      <4> QED
        BY <3>1, <3>2, <4>1, OnFieldIs DEF Sensible
    <3>3. CASE c.kind = "enable"
      <4>1. ~\E s \in Slot : active[s] = [robot |-> c.robot, key |-> c.key]
        BY <2>2, <3>3 DEF Adds
      <4>2. x.key = c.key /\ x.slot \in Slot
        <5>1. x \in EnableChange
          BY <3>1, <3>3, Kinds
        <5> QED
          BY <2>2, <3>3, <5>1 DEF IsAdded, EnableChange
      <4>3. active[x.slot] # Cfg(x)
        BY <3>1, <4>1, <4>2 DEF Cfg
      <4>4. ~Nowhere(active, x.robot) => active[x.slot].robot = x.robot
        BY <2>2, <3>1, <3>3 DEF IsAdded, At, Nowhere
      <4> QED
        BY <3>1, <3>3, <4>3, <4>4 DEF Sensible
    <3>4. c.kind \in {"release", "enable"}
      BY DEF Change, EnableChange, ReleaseChange
    <3> QED
      BY <3>2, <3>3, <3>4
  <2> QED
    BY <2>1, <2>2, AddSane DEF ListOK
<1> QED
  BY <1>1, <1>2 DEF ListOK

-----------------------------------------------------------------------------
\* The steps, one by one.

\* Who gives way is on the field, and the list says nothing about them.
LEMMA GivesWayIs ==
  ASSUME NEW list, NEW idle \in SUBSET OnField, GivesWay(list, idle)
  PROVE  idle \subseteq OnField /\ idle \cap Robots(list) = {}
BY DEF GivesWay

LEMMA RequestDoes ==
  ASSUME IInv, NEW c \in Change, NEW idle \in SUBSET OnField, Request(c, idle)
  PROVE  LET list == AddChange(changes, c)
         IN  /\ ListOK(list) /\ MatchOK'
             /\ \/ idle = {} /\ changes' = list /\ active' = active
                \/ /\ Adds(c) /\ ~MustWait(list, c.robot) /\ GivesWay(list, idle)
                   /\ Sane(list \o Released(idle))
                   /\ ToSet(list \o Released(idle)) = ToSet(list) \cup ToSet(Released(idle))
                   /\ Applied(list \o Released(idle), Everything)
<1> DEFINE list == AddChange(changes, c)
           full == list \o Released(idle)
<1>1. active \in Stations /\ AtMostOne(active) /\ ListOK(changes)
  BY DEF IInv, FieldOK
<1>2. ListOK(list) /\ Sane(list)
  BY <1>1, AddOK DEF ListOK
<1>3. MatchOK'
  BY DEF IInv, MatchOK, Request, matchVars, holdVars
<1>4. CASE Adds(c) /\ ~MustWait(list, c.robot)
  <2>1. GivesWay(list, idle) /\ Apply(full, Everything)
    BY <1>4 DEF Request
  <2> HIDE DEF list
  <2>2. idle \subseteq OnField /\ idle \cap Robots(list) = {}
    BY <2>1, GivesWayIs
  <2>3. Sane(full) /\ ToSet(full) = ToSet(list) \cup ToSet(Released(idle))
    BY <1>1, <1>2, <2>2, GivesWaySane
  <2>4. Applied(full, Everything)
    BY <1>1, <2>1, <2>3, ApplyDoes
  <2> QED
    BY <1>2, <1>3, <1>4, <2>1, <2>3, <2>4 DEF list
<1>5. CASE ~(Adds(c) /\ ~MustWait(list, c.robot))
  <2>1. idle = {} /\ changes' = list /\ active' = active
    BY <1>5 DEF Request
  <2> QED
    BY <1>2, <1>3, <2>1
<1> QED
  BY <1>4, <1>5

\* Every kind of change is among Everything.
LEMMA AllKinds ==
  ASSUME NEW list, Sane(list)
  PROVE  /\ \A c \in ToSet(list) : c.kind \in Everything
         /\ Selected(list, Everything) = ToSet(list)
<1>1. \A c \in ToSet(list) : c.kind \in Everything
  BY SaneSet DEF Change, EnableChange, ReleaseChange, Everything
<1> QED
  BY <1>1 DEF Selected

LEMMA AppliedAllInv ==
  ASSUME active \in Stations, NEW list, Sane(list), Applied(list, Everything), MatchOK'
  PROVE  IInv'
<1>1. "enable" \in Everything
  BY DEF Everything
<1> QED
  BY <1>1, AllKinds, AppliedInv

LEMMA RequestInv ==
  ASSUME IInv, NEW c \in Change, NEW idle \in SUBSET OnField, Request(c, idle)
  PROVE  IInv'
<1> DEFINE list == AddChange(changes, c)
           full == list \o Released(idle)
<1>1. ListOK(list) /\ MatchOK'
  BY RequestDoes
<1>2. active \in Stations
  BY DEF IInv, FieldOK
<1>3. CASE changes' = list /\ active' = active
  BY <1>1, <1>3 DEF IInv, FieldOK, ListOK
<1>4. CASE Sane(full) /\ Applied(full, Everything)
  BY <1>1, <1>2, <1>4, AppliedAllInv
<1> QED
  BY <1>3, <1>4, RequestDoes

LEMMA TeamEnablesInv ==
  ASSUME IInv, NEW r \in Robot, NEW k \in Key, NEW s \in Slot, NEW idle \in SUBSET OnField,
         TeamEnables(r, k, s, idle)
  PROVE  IInv'
<1>1. Enable(r, k, s) \in Change
  BY DEF Enable, Change, EnableChange
<1> QED
  BY <1>1, RequestInv DEF TeamEnables

LEMMA ReleaseIsChange ==
  ASSUME NEW r \in Robot
  PROVE  Release(r) \in Change /\ Release(r).robot = r /\ Release(r).kind = "release"
BY DEF Release, Change, ReleaseChange

LEMMA TeamReleasesInv ==
  ASSUME IInv, NEW s \in Slot, TeamReleases(s)
  PROVE  IInv'
<1>1. active[s].robot \in Robot
  BY StationFacts DEF IInv, FieldOK, TeamReleases
<1> QED
  BY <1>1, RequestInv, ReleaseIsChange DEF TeamReleases

LEMMA RemoveSavedTeamInv ==
  ASSUME IInv, NEW r \in Robot, RemoveSavedTeam(r)
  PROVE  IInv'
BY RequestInv, ReleaseIsChange DEF RemoveSavedTeam

LEMMA WithdrawInv ==
  ASSUME IInv, NEW dropped, Withdraw(dropped)
  PROVE  IInv'
<1>1. MatchOK' /\ active' = active
  BY DEF IInv, MatchOK, Withdraw, matchVars, holdVars
<1> QED
  BY <1>1, OnlyInv DEF Withdraw

LEMMA ApplyNowDoes ==
  ASSUME IInv, ApplyNow
  PROVE  Sane(changes) /\ Applied(changes, Everything) /\ MatchOK'
<1>1. active \in Stations /\ AtMostOne(active) /\ Sane(changes)
  BY DEF IInv, FieldOK, ListOK
<1>2. Applied(changes, Everything)
  BY <1>1, ApplyDoes DEF ApplyNow
<1> QED
  BY <1>1, <1>2 DEF IInv, MatchOK, ApplyNow, matchVars, holdVars

LEMMA StagedSane ==
  ASSUME active \in Stations, NEW list, Sane(list), NEW r \in Robot, NEW k \in Key
  PROVE  Sane(Staged(list, r, k))
<1> DEFINE at == Target(list).at
           there == At(at, r)
           slot == CASE there # {} -> First(there)
                     [] there = {} /\ FreeAt(at) # {} -> First(FreeAt(at))
                     [] OTHER -> 1
<1>1. there \subseteq Slot /\ FreeAt(at) \subseteq Slot /\ 1 \in Slot
  BY SlotsAssumption DEF At, FreeAt, Slot
<1> HIDE DEF at, there
<1>2. slot \in Slot
  <2>1. CASE there # {}
    <3>1. First(there) \in Slot
      BY <1>1, <2>1, FirstIn
    <3> QED
      BY <2>1, <3>1
  <2>2. CASE there = {} /\ FreeAt(at) # {}
    <3>1. First(FreeAt(at)) \in Slot
      BY <1>1, <2>2, FirstIn
    <3> QED
      BY <2>2, <3>1
  <2>3. CASE there = {} /\ FreeAt(at) = {}
    BY <1>1, <2>3
  <2> QED
    BY <2>1, <2>2, <2>3
<1>3. Staged(list, r, k) = AddChange(list, Enable(r, k, slot))
  BY DEF Staged, at, there
<1>4. Enable(r, k, slot) \in Change
  <2> HIDE DEF slot
  <2> QED
    BY <1>2 DEF Enable, Change, EnableChange
<1> HIDE DEF slot
<1> QED
  BY <1>3, <1>4, AddSane

LEMMA SetUpNextDoes ==
  ASSUME IInv, NEW red \in Robot, NEW blue \in Robot, SetUpNext(red, blue)
  PROVE  \E list : Sane(list) /\ Applied(list, Everything) /\ MatchOK'
<1> DEFINE list == Staged(Staged(changes, red, SavedKey), blue, SavedKey)
<1>1. active \in Stations /\ AtMostOne(active) /\ Sane(changes)
  BY DEF IInv, FieldOK, ListOK
<1>2. Sane(list)
  <2>1. SavedKey \in Key
    BY RobotAssumption
  <2>2. Sane(Staged(changes, red, SavedKey))
    BY <1>1, <2>1, StagedSane
  <2> QED
    BY <1>1, <2>1, <2>2, StagedSane
<1>3. Apply(list, Everything) /\ MatchOK'
  BY DEF SetUpNext, IInv, MatchOK, matchVars, holdVars
<1> HIDE DEF list
<1>4. Applied(list, Everything)
  BY <1>1, <1>2, <1>3, ApplyDoes
<1> QED
  BY <1>2, <1>3, <1>4

LEMMA SetUpNextInv ==
  ASSUME IInv, NEW red \in Robot, NEW blue \in Robot, SetUpNext(red, blue)
  PROVE  IInv'
<1>1. active \in Stations /\ AtMostOne(active) /\ Sane(changes)
  BY DEF IInv, FieldOK, ListOK
<1>2. PICK list : Sane(list) /\ Applied(list, Everything) /\ MatchOK'
  BY SetUpNextDoes
<1> QED
  BY <1>1, <1>2, AppliedAllInv

LEMMA ClearFieldInv ==
  ASSUME IInv, NEW stays, ClearField(stays)
  PROVE  IInv'
<1> DEFINE S == {c \in ToSet(changes) : c.robot \in stays}
<1>1. active \in Stations /\ AtMostOne(active) /\ Sane(changes)
      /\ \A c \in ToSet(changes) : Sensible(c, active)
  BY DEF IInv, FieldOK, ListOK
<1>2. /\ active' = [s \in Slot |-> IF active[s].robot \in stays THEN active[s] ELSE Empty]
      /\ changes' = Only(changes, S) /\ MatchOK'
  BY DEF ClearField, IInv, MatchOK, matchVars, holdVars
<1>3. Sane(changes') /\ ToSet(changes') = S
  <2>1. Sane(Only(changes, S)) /\ ToSet(Only(changes, S)) = ToSet(changes) \cap S
    BY <1>1, OnlySane
  <2> QED
    BY <1>2, <2>1
<1>4. \A s \in Slot : active'[s] = IF active[s].robot \in stays THEN active[s] ELSE Empty
  BY <1>2
<1>5. active' \in Stations /\ AtMostOne(active')
  <2>1. active' \in Stations
    BY <1>1, <1>2 DEF Stations
  <2>2. \A s \in Slot : active[s] # Empty <=> active[s].robot \in Robot
    BY <1>1, StationFacts
  <2>3. Empty.robot \notin Robot
    BY RobotAssumption DEF Empty
  <2> QED
    BY <1>1, <1>4, <2>1, <2>2, <2>3 DEF AtMostOne
<1>6. ASSUME NEW c \in ToSet(changes') PROVE Sensible(c, active')
  <2>1. c \in ToSet(changes) /\ c.robot \in stays /\ Sensible(c, active) /\ c \in Change
    BY <1>1, <1>3, SaneSet
  <2>2. c.robot \in Robot /\ (c.kind = "enable" => c.slot \in Slot) /\ c.kind \in {"enable", "release"}
    BY <2>1 DEF Change, EnableChange, ReleaseChange
  <2>3. \A s \in Slot : active'[s].robot = c.robot <=> active[s].robot = c.robot
    BY <1>4, <2>1, <2>2, RobotAssumption DEF Empty
  <2>4. \A s \in Slot : active[s] # Cfg(c) => active'[s] # Cfg(c)
    BY <1>4, <2>2, RobotAssumption DEF Empty, Cfg
  <2> QED
    BY <2>1, <2>2, <2>3, <2>4 DEF Sensible, Nowhere
<1> QED
  BY <1>2, <1>3, <1>5, <1>6 DEF IInv, FieldOK, ListOK

LEMMA ReleaseIdleDoes ==
  ASSUME IInv, NEW idle \in SUBSET OnField, ReleaseIdleForWaiting(idle)
  PROVE  LET full == changes \o Released(idle)
         IN  /\ Sane(changes) /\ Sane(full) /\ Applied(full, Everything) /\ MatchOK'
             /\ ToSet(full) = ToSet(changes) \cup ToSet(Released(idle))
<1>1. active \in Stations /\ AtMostOne(active) /\ Sane(changes)
  BY DEF IInv, FieldOK, ListOK
<1> DEFINE full == changes \o Released(idle)
<1>2. GivesWay(changes, idle) /\ Apply(full, Everything)
  BY DEF ReleaseIdleForWaiting
<1>3. idle \subseteq OnField /\ idle \cap Robots(changes) = {}
  BY <1>2, GivesWayIs
<1>4. Sane(full) /\ ToSet(full) = ToSet(changes) \cup ToSet(Released(idle))
  BY <1>1, <1>3, GivesWaySane
<1> HIDE DEF full
<1>5. Applied(full, Everything)
  BY <1>1, <1>2, <1>4, ApplyDoes
<1>6. MatchOK'
  BY DEF IInv, MatchOK, ReleaseIdleForWaiting, matchVars, holdVars
<1> QED
  BY <1>1, <1>4, <1>5, <1>6 DEF full

LEMMA CrashInApplyInv ==
  ASSUME IInv, CrashInApply
  PROVE  IInv'
<1>1. active \in Stations /\ AtMostOne(active) /\ Sane(changes)
      /\ \A c \in ToSet(changes) : Sensible(c, active)
  BY DEF IInv, FieldOK, ListOK
<1>2. Sane(Target(changes).line) /\ ToSet(Target(changes).line) \subseteq ToSet(changes)
  BY <1>1, TargetDoes
<1>3. changes' = Target(changes).line /\ active' = active /\ MatchOK'
  BY DEF CrashInApply, M!Restart, holdVars, IInv, MatchOK
<1> QED
  BY <1>1, <1>2, <1>3 DEF IInv, FieldOK, ListOK

\* What is staged at the end of a match: releases of robots on the field, of
\* which nothing was said yet.
LEMMA StageReleaseAllOK ==
  ASSUME IInv, NEW stays
  PROVE  ListOK(StageReleaseAll(stays))
<1> DEFINE all == [s \in Slot |-> s]
           S == {s \in Slot : /\ active[s] # Empty
                              /\ active[s].robot \notin stays \cup Robots(changes)}
           slots == Only(all, S)
           n == Len(slots)
           f == [i \in 1..n |-> active[slots[i]].robot]
           b == [i \in 1..n |-> Release(f[i])]
<1>1. active \in Stations /\ AtMostOne(active) /\ Sane(changes)
      /\ \A c \in ToSet(changes) : Sensible(c, active)
  BY DEF IInv, FieldOK, ListOK
<1>2. all \in Seq(Slot) /\ Len(all) = Slots /\ \A i \in 1..Len(all) : all[i] = i
  BY SlotsAssumption DEF Slot
<1> HIDE DEF all, S
<1>3. slots \in Seq(Slot) /\ \E h : IsPick(all, S, slots, h)
  BY <1>2, OnlyPicks
<1>4. n \in Nat /\ DOMAIN slots = 1..n /\ \A i \in 1..n : slots[i] \in Slot
  BY <1>3
<1>5. PICK h : IsPick(all, S, slots, h)
  BY <1>3
<1> HIDE DEF slots, n
<1>6. \A i, j \in 1..n : slots[i] \in S /\ (slots[i] = slots[j] => i = j)
  <2>1. \A i \in 1..n : slots[i] \in S /\ slots[i] = h[i] /\ h[i] \in 1..Len(all)
    BY <1>2, <1>5 DEF IsPick, n
  <2> QED
    BY <1>5, <2>1 DEF IsPick, n
<1>7. \A s \in S : /\ s \in Slot /\ active[s] # Empty /\ active[s].robot \in Robot
                   /\ active[s].robot \notin Robots(changes)
  BY <1>1, StationFacts DEF S
<1>8. \A i \in 1..n : f[i] = active[slots[i]].robot
  OBVIOUS
<1> HIDE DEF f
<1>9. /\ \A i \in 1..n : f[i] \in Robot
      /\ \A i, j \in 1..n : f[i] = f[j] => i = j
  <2>1. \A i \in 1..n : f[i] \in Robot
    BY <1>6, <1>7, <1>8
  <2>2. \A i, j \in 1..n : f[i] = f[j] => slots[i] = slots[j]
    BY <1>1, <1>6, <1>7, <1>8 DEF AtMostOne
  <2> QED
    BY <1>6, <2>1, <2>2
<1>10. Sane(b) /\ ToSet(b) = {Release(f[i]) : i \in 1..n}
  BY <1>4, <1>9, ReleasesSane
<1>11. StageReleaseAll(stays) = changes \o b
  <2>1. StageReleaseAll(stays) = changes \o [i \in DOMAIN slots |-> Release(active[slots[i]].robot)]
    BY DEF StageReleaseAll, slots, all, S
  <2>2. [i \in DOMAIN slots |-> Release(active[slots[i]].robot)] = b
    BY <1>4, <1>8
  <2> QED
    BY <2>1, <2>2
<1> HIDE DEF b
<1>12. ASSUME NEW d \in ToSet(b)
       PROVE  /\ d.kind = "release" /\ ~Nowhere(active, d.robot)
              /\ \A c \in ToSet(changes) : c.robot # d.robot
  <2>1. PICK i \in 1..n : d = Release(f[i])
    BY <1>10
  <2>2. d.robot = active[slots[i]].robot /\ slots[i] \in S /\ d.kind = "release"
    BY <1>6, <1>8, <2>1 DEF Release
  <2>3. slots[i] \in Slot /\ d.robot \notin Robots(changes)
    BY <1>7, <2>2
  <2> QED
    BY <2>2, <2>3 DEF Nowhere, Robots
<1>13. Sane(changes \o b) /\ ToSet(changes \o b) = ToSet(changes) \cup ToSet(b)
  BY <1>1, <1>10, <1>12, ConcatSane
<1>14. \A c \in ToSet(changes \o b) : Sensible(c, active)
  BY <1>1, <1>12, <1>13 DEF Sensible
<1> QED
  BY <1>11, <1>13, <1>14 DEF ListOK

LEMMA EndMatchInv ==
  ASSUME IInv, EndMatch
  PROVE  IInv'
<1>1. active' = active /\ MatchOK'
  BY DEF EndMatch, M!MatchEnds, holdVars, IInv, MatchOK
<1>2. ListOK(changes')
  BY StageReleaseAllOK DEF EndMatch, IInv
<1> QED
  BY <1>1, <1>2 DEF IInv, FieldOK, ListOK

LEMMA CancelSetupDoes ==
  ASSUME IInv, CancelSetup
  PROVE  /\ MatchOK' /\ Sane(changes)
         /\ \/ holdAdmin /\ changes' = changes /\ active' = active
            \/ ~holdAdmin /\ Applied(changes, Joins)
<1>1. active \in Stations /\ AtMostOne(active) /\ Sane(changes)
  BY DEF IInv, FieldOK, ListOK
<1>2. MatchOK'
  BY DEF CancelSetup, M!CancelMatch, holdVars, IInv, MatchOK
<1>3. CASE holdAdmin
  BY <1>1, <1>2, <1>3 DEF CancelSetup
<1>4. CASE ~holdAdmin
  <2>1. Apply(changes, Joins)
    BY <1>4 DEF CancelSetup
  <2>2. Applied(changes, Joins)
    BY <1>1, <2>1, ApplyDoes
  <2> QED
    BY <1>1, <1>2, <1>4, <2>2
<1> QED
  BY <1>3, <1>4

LEMMA CancelSetupInv ==
  ASSUME IInv, CancelSetup
  PROVE  IInv'
<1>1. active \in Stations /\ Sane(changes) /\ \A c \in ToSet(changes) : Sensible(c, active)
  BY DEF IInv, FieldOK, ListOK
<1>2. "enable" \in Joins /\ \A c \in ToSet(changes) : c.kind \notin Joins => ~Nowhere(active, c.robot)
  <2>1. \A c \in ToSet(changes) : c.kind \in {"enable", "release"}
    BY <1>1, SaneSet DEF Change, EnableChange, ReleaseChange
  <2> QED
    BY <1>1, <2>1 DEF Joins, Sensible
<1>3. CASE changes' = changes /\ active' = active /\ MatchOK'
  BY <1>3, StutterInv
<1>4. CASE Applied(changes, Joins) /\ MatchOK'
  BY <1>1, <1>2, <1>4, AppliedInv
<1> QED
  BY <1>3, <1>4, CancelSetupDoes

LEMMA StepInv ==
  ASSUME IInv, [Next]_vars
  PROVE  IInv'
<1>1. ASSUME NEW r \in Robot, NEW k \in Key, NEW s \in Slot, NEW idle \in SUBSET OnField,
             TeamEnables(r, k, s, idle)
      PROVE  IInv'
  BY <1>1, TeamEnablesInv
<1>2. ASSUME NEW s \in Slot, TeamReleases(s) \/ CancelStagedChange(s) PROVE IInv'
  BY <1>2, TeamReleasesInv, WithdrawInv DEF CancelStagedChange
<1>3. ASSUME NEW r \in Robot, RemoveSavedTeam(r) \/ LeaveLine(r) \/ KeepRobot(r) PROVE IInv'
  BY <1>3, RemoveSavedTeamInv, WithdrawInv DEF LeaveLine, KeepRobot
<1>4. ASSUME ApplyNow PROVE IInv'
  BY <1>4, ApplyNowDoes, AppliedAllInv DEF IInv, FieldOK
<1>5. ASSUME NEW i \in DOMAIN changes, CancelPendingChange(i) PROVE IInv'
  BY <1>5, WithdrawInv DEF CancelPendingChange
<1>6. ASSUME NEW red \in Robot, NEW blue \in Robot, SetUpNext(red, blue) PROVE IInv'
  BY <1>6, SetUpNextInv
<1>7. ASSUME NEW stays, ClearField(stays) PROVE IInv'
  BY <1>7, ClearFieldInv
<1>8. ASSUME ToggleHolds PROVE IInv'
  <2>1. changes' = changes /\ active' = active /\ MatchOK'
    BY <1>8 DEF ToggleHolds, IInv, MatchOK
  <2> QED
    BY <2>1, StutterInv
<1>9. ASSUME Unnoticed PROVE IInv'
  <2>1. changes' = changes /\ active' = active /\ MatchOK'
    BY <1>9 DEF Unnoticed, M!CreateMatch, M!JoinsOrLeaves, M!StartMatch, M!AbortCountdown,
                M!RobotsGo, M!ClearMatch, holdVars, IInv, MatchOK
  <2> QED
    BY <2>1, StutterInv
<1>10. ASSUME EndMatch \/ CancelSetup PROVE IInv'
  BY <1>10, EndMatchInv, CancelSetupInv
<1>11. ASSUME NEW idle \in SUBSET OnField, ReleaseIdleForWaiting(idle) PROVE IInv'
  <2>1. active \in Stations
    BY DEF IInv, FieldOK
  <2>2. /\ Sane(changes \o Released(idle)) /\ MatchOK'
        /\ Applied(changes \o Released(idle), Everything)
    BY <1>11, ReleaseIdleDoes
  <2> QED
    BY <2>1, <2>2, AppliedAllInv
<1>12. ASSUME Restart PROVE IInv'
  <2>1. changes' = changes /\ active' = active /\ MatchOK'
    BY <1>12 DEF Restart, M!Restart, holdVars, IInv, MatchOK
  <2> QED
    BY <2>1, StutterInv
<1>13. ASSUME CrashInApply PROVE IInv'
  BY <1>13, CrashInApplyInv
<1>14. CASE UNCHANGED vars
  <2>1. changes' = changes /\ active' = active /\ MatchOK'
    BY <1>14 DEF vars, holdVars, IInv, MatchOK
  <2> QED
    BY <2>1, StutterInv
<1> QED
  BY <1>1, <1>2, <1>3, <1>4, <1>5, <1>6, <1>7, <1>8, <1>9, <1>10, <1>11, <1>12, <1>13, <1>14
     DEF Next, Team, Staff, Match, Itself

LEMMA InitInv == Init => IInv
<1> SUFFICES ASSUME Init PROVE IInv
  OBVIOUS
<1>1. active \in Stations /\ AtMostOne(active) /\ MatchOK
  BY DEF Init, M!Init, Stations, AtMostOne, MatchOK
<1>2. changes = <<>>
  BY DEF Init
<1>3. Sane(changes) /\ ToSet(changes) = {}
  BY <1>2 DEF Sane, OnePerRobot, ToSet
<1> QED
  BY <1>1, <1>3 DEF IInv, FieldOK, ListOK

\* The invariant holds: on a field without robots on two stations, a list
\* with one change per robot, each of which would do something.
THEOREM PendingInvariant == Spec => []IInv
<1>1. IInv /\ [Next]_vars => IInv'
  BY StepInv
<1> QED
  BY <1>1, InitInv, PTL DEF Spec

\* Stations hold robots or nothing, and the list is of changes about robots.
THEOREM TypeCorrect == Spec => []TypeOK
<1>1. IInv => TypeOK
  BY InvariantIs
<1> QED
  BY <1>1, PendingInvariant, PTL

\* The field and the list make sense, whoever asked for what in whatever order,
\* through applies, clears, cancelled matches, restarts and crashes.
THEOREM ListMakesSense == Spec => []WaitingMakesSense
<1>1. IInv => WaitingMakesSense
  BY InvariantIs
<1> QED
  BY <1>1, PendingInvariant, PTL

-----------------------------------------------------------------------------
\* What a step may never do.

\* After an apply, who is on the field yet is where it was, and who is not was
\* released.
LEMMA AppliedStays ==
  ASSUME IInv, NEW list, Sane(list), NEW kinds, Applied(list, kinds)
  PROVE  /\ \A s \in Slot : active[s] # Empty /\ active[s].robot \in OnField'
                              => active'[s].robot = active[s].robot
         /\ \A r \in Robot : Leaves(r) => Release(r) \in Selected(list, kinds)
<1>1. \A s \in Slot : active[s] # Empty <=> active[s].robot \in Robot
  BY StationFacts DEF IInv, FieldOK
<1>2. ASSUME NEW s \in Slot, active[s] # Empty, active[s].robot \in OnField'
      PROVE  active'[s].robot = active[s].robot
  <2>1. active[s].robot \in Robot /\ ~Nowhere(active', active[s].robot)
    BY <1>1, <1>2, OnFieldIs
  <2>2. Release(active[s].robot) \notin Selected(list, kinds)
    BY <2>1 DEF Applied
  <2> QED
    BY <1>2, <2>2 DEF Applied
<1>3. ASSUME NEW r \in Robot, Leaves(r), Release(r) \notin Selected(list, kinds) PROVE FALSE
  <2>1. ~Nowhere(active, r) /\ Nowhere(active', r)
    BY <1>3, OnFieldIs DEF Leaves
  <2>2. PICK s \in Slot : active[s].robot = r
    BY <2>1 DEF Nowhere
  <2>3. active'[s].robot = r
    BY <1>1, <1>3, <2>2 DEF Applied
  <2> QED
    BY <2>1, <2>3 DEF Nowhere
<1> QED
  BY <1>2, <1>3

\* Every step applies a list, clears the field, or leaves the stations alone:
\* who applies, and what.
Sources(list, kinds) ==
  \/ ByStaff
  \/ /\ kinds = Everything /\ ~Held
     /\ \/ \E c \in Change, idle \in SUBSET OnField :
             /\ Request(c, idle) /\ Adds(c) /\ ~MustWait(AddChange(changes, c), c.robot)
             /\ GivesWay(AddChange(changes, c), idle)
             /\ list = AddChange(changes, c) \o Released(idle)
             /\ c.kind = "release" =>
                  /\ idle = {}
                  /\ RemoveSavedTeam(c.robot) \/ \E s \in At(active, c.robot) : TeamReleases(s)
        \/ \E idle \in SUBSET OnField :
             /\ GivesWay(changes, idle) /\ ReleaseIdleForWaiting(idle)
             /\ list = changes \o Released(idle)
  \/ kinds = Joins /\ CancelSetup /\ ~holdAdmin /\ list = changes
AppliesAList == \E list, kinds : Sane(list) /\ Applied(list, kinds) /\ Sources(list, kinds)
Clears == \E stays \in {{}, Host} : ClearField(stays)

LEMMA RequestSource ==
  ASSUME IInv, NEW c \in Change, NEW idle \in SUBSET OnField, Request(c, idle),
         c.kind = "release" =>
           /\ idle = {}
           /\ RemoveSavedTeam(c.robot) \/ \E s \in At(active, c.robot) : TeamReleases(s)
  PROVE  AppliesAList \/ active' = active
<1> DEFINE list == AddChange(changes, c)
           full == list \o Released(idle)
<1>1. CASE active' = active
  BY <1>1
<1>2. CASE /\ Adds(c) /\ ~MustWait(list, c.robot) /\ GivesWay(list, idle)
           /\ Sane(full) /\ Applied(full, Everything)
  <2>1. ~Held
    BY <1>2 DEF MustWait
  <2>2. Sources(full, Everything)
    BY <1>2, <2>1 DEF Sources
  <2> HIDE DEF full
  <2> QED
    BY <1>2, <2>2 DEF AppliesAList
<1> QED
  BY <1>1, <1>2, RequestDoes

LEMMA StepSource ==
  ASSUME IInv, [Next]_vars
  PROVE  AppliesAList \/ (Clears /\ ByStaff) \/ active' = active
<1>0. active \in Stations /\ AtMostOne(active) /\ Sane(changes)
  BY DEF IInv, FieldOK, ListOK
<1>1. ASSUME NEW r \in Robot, NEW k \in Key, NEW s \in Slot, NEW idle \in SUBSET OnField,
             TeamEnables(r, k, s, idle)
      PROVE  AppliesAList \/ active' = active
  <2>1. Enable(r, k, s) \in Change /\ Enable(r, k, s).kind # "release"
    BY DEF Enable, Change, EnableChange
  <2> QED
    BY <1>1, <2>1, RequestSource DEF TeamEnables
<1>2. ASSUME NEW s \in Slot, TeamReleases(s) PROVE AppliesAList \/ active' = active
  <2> DEFINE r == active[s].robot
  <2>1. r \in Robot /\ s \in At(active, r)
    BY <1>0, <1>2, StationFacts DEF TeamReleases, At
  <2>2. Request(Release(r), {})
    BY <1>2 DEF TeamReleases
  <2>3. Release(r) \in Change /\ Release(r).robot = r
    BY <2>1, ReleaseIsChange
  <2> HIDE DEF r
  <2> QED
    BY <1>2, <2>1, <2>2, <2>3, RequestSource
<1>3. ASSUME NEW r \in Robot, RemoveSavedTeam(r) PROVE AppliesAList \/ active' = active
  <2>1. Request(Release(r), {})
    BY <1>3 DEF RemoveSavedTeam
  <2>2. Release(r) \in Change /\ Release(r).robot = r
    BY ReleaseIsChange
  <2> QED
    BY <1>3, <2>1, <2>2, RequestSource
<1>4. ASSUME ApplyNow PROVE AppliesAList
  <2>1. Sane(changes) /\ Applied(changes, Everything)
    BY <1>4, ApplyNowDoes
  <2>2. Sources(changes, Everything)
    BY <1>4 DEF Sources, ByStaff
  <2> QED
    BY <2>1, <2>2 DEF AppliesAList
<1>5. ASSUME NEW red \in Robot, NEW blue \in Robot, SetUpNext(red, blue) PROVE AppliesAList
  <2> DEFINE list == Staged(Staged(changes, red, SavedKey), blue, SavedKey)
  <2>1. Sane(list)
    BY <1>0, RobotAssumption, StagedSane
  <2>2. Apply(list, Everything)
    BY <1>5 DEF SetUpNext
  <2>3. ByStaff
    BY <1>5 DEF ByStaff
  <2> HIDE DEF list
  <2>4. Applied(list, Everything) /\ Sources(list, Everything)
    BY <1>0, <2>1, <2>2, <2>3, ApplyDoes DEF Sources
  <2> QED
    BY <2>1, <2>4 DEF AppliesAList
<1>6. ASSUME NEW stays \in {{}, Host}, ClearField(stays) PROVE Clears /\ ByStaff
  BY <1>6 DEF Clears, ByStaff
<1>7. ASSUME NEW idle \in SUBSET OnField, ReleaseIdleForWaiting(idle) PROVE AppliesAList
  <2> DEFINE full == changes \o Released(idle)
  <2>1. Sane(full) /\ Applied(full, Everything)
    BY <1>7, ReleaseIdleDoes
  <2>2. GivesWay(changes, idle) /\ idle # {}
    BY <1>7 DEF ReleaseIdleForWaiting
  <2>3. ~Held
    BY <2>2 DEF GivesWay, MustWait
  <2>4. Sources(full, Everything)
    BY <1>7, <2>2, <2>3 DEF Sources
  <2> HIDE DEF full
  <2> QED
    BY <2>1, <2>4 DEF AppliesAList
<1>8. ASSUME CancelSetup PROVE AppliesAList \/ active' = active
  <2>1. CASE ~holdAdmin /\ Sane(changes) /\ Applied(changes, Joins)
    <3>1. Sources(changes, Joins)
      BY <1>8, <2>1 DEF Sources
    <3> QED
      BY <2>1, <3>1 DEF AppliesAList
  <2> QED
    BY <1>8, <2>1, CancelSetupDoes
<1>9. ASSUME \/ \E s \in Slot : CancelStagedChange(s)
             \/ \E r \in Robot : LeaveLine(r) \/ KeepRobot(r)
             \/ \E i \in DOMAIN changes : CancelPendingChange(i)
             \/ ToggleHolds \/ Unnoticed \/ EndMatch
             \/ Restart \/ CrashInApply \/ UNCHANGED vars
      PROVE  active' = active
  BY <1>9 DEF CancelStagedChange, LeaveLine, KeepRobot, CancelPendingChange, Withdraw, ToggleHolds,
     Unnoticed, EndMatch, Restart, CrashInApply, vars
<1> QED
  BY <1>1, <1>2, <1>3, <1>4, <1>5, <1>6, <1>7, <1>8, <1>9 DEF Next, Team, Staff, Match, Itself

\* A robot that stays on the field stays on its station: no apply, whatever
\* the list, moves a robot that nobody released.
THEOREM StaysPut == Spec => RobotsDontMove
<1>1. ASSUME IInv, [Next]_vars
      PROVE  [\A s \in Slot : active[s] # Empty /\ active[s].robot \in OnField'
                => active'[s].robot = active[s].robot]_vars
  <2> SUFFICES ASSUME NEW s \in Slot, active[s] # Empty, active[s].robot \in OnField'
               PROVE  active'[s].robot = active[s].robot
    OBVIOUS
  <2>1. CASE active' = active
    BY <2>1
  <2>2. CASE AppliesAList
    BY <1>1, <2>2, AppliedStays DEF AppliesAList
  <2>3. ASSUME NEW stays, ClearField(stays) PROVE active'[s].robot = active[s].robot
    <3>1. active' = [u \in Slot |-> IF active[u].robot \in stays THEN active[u] ELSE Empty]
      BY <2>3 DEF ClearField
    <3>2. PICK u \in Slot : active'[u].robot = active[s].robot
      BY OnFieldIs DEF Nowhere, OnField, At
    <3>3. active[s].robot \in Robot
      BY StationFacts, <1>1 DEF IInv, FieldOK
    <3>4. active[u].robot \in stays /\ active'[u] = active[u]
      BY <3>1, <3>2, <3>3, RobotAssumption DEF Empty
    <3> QED
      BY <3>1, <3>2, <3>4
  <2> QED
    BY <1>1, <2>1, <2>2, <2>3, StepSource DEF Clears
<1> QED
  BY <1>1, PendingInvariant, PTL DEF Spec, RobotsDontMove

\* While a match or the admin holds changes, only staff change the field, and
\* a match cancelled before it starts makes none leave.
THEOREM HoldsAreKept == Spec => HoldsHold
<1>1. ASSUME IInv, [Next]_vars
      PROVE  [active' # active
                => \/ ~M!Active /\ ~holdAdmin /\ (phase = "idle" \/ ~holdForMatch)
                   \/ ByStaff
                   \/ /\ phase = "created" /\ phase' = "idle" /\ ~holdAdmin
                      /\ \A r \in Robot : ~Leaves(r)]_vars
  <2>1. ASSUME NEW list, NEW kinds, Sane(list), Applied(list, kinds), Sources(list, kinds), ~ByStaff
        PROVE  \/ ~M!Active /\ ~holdAdmin /\ (phase = "idle" \/ ~holdForMatch)
               \/ /\ phase = "created" /\ phase' = "idle" /\ ~holdAdmin
                  /\ \A r \in Robot : ~Leaves(r)
    <3>1. CASE ~Held
      BY <3>1 DEF Held
    <3>2. CASE kinds = Joins /\ CancelSetup /\ ~holdAdmin
      <4>1. phase = "created" /\ phase' = "idle"
        BY <3>2 DEF CancelSetup, M!CancelMatch
      <4>2. \A r \in Robot : ~Leaves(r)
        <5> SUFFICES ASSUME NEW r \in Robot, Leaves(r) PROVE FALSE
          OBVIOUS
        <5>1. Release(r) \in Selected(list, kinds)
          BY <1>1, <2>1, AppliedStays
        <5> QED
          BY <3>2, <5>1 DEF Selected, Joins, Release
      <4> QED
        BY <3>2, <4>1, <4>2
    <3> QED
      BY <2>1, <3>1, <3>2 DEF Sources
  <2> QED
    BY <1>1, <2>1, StepSource DEF AppliesAList
<1> QED
  BY <1>1, PendingInvariant, PTL DEF Spec, HoldsHold

\* After an apply, whoever waits to join does so for want of a station.
LEMMA NoneFreeAfter ==
  ASSUME NEW list, NEW kinds, Applied(list, kinds), "enable" \in kinds, FreeAt(active') # {}
  PROVE  \A c \in ToSet(changes') : c.kind # "enable"
BY DEF Applied

\* The steps that apply the joins of the list.
LEMMA NobodyWaitsBeforeAStation ==
  ASSUME IInv, FreeAt(active') # {}, NEW c \in ToSet(changes'), c.kind = "enable"
  PROVE  ~(ApplyNow \/ (CancelSetup /\ ~holdAdmin)
             \/ (\E red \in Robot, blue \in Robot : SetUpNext(red, blue))
             \/ \E idle \in SUBSET OnField : ReleaseIdleForWaiting(idle))
<1> USE DEF Everything, Joins
<1>1. ASSUME ApplyNow PROVE FALSE
  BY <1>1, ApplyNowDoes, NoneFreeAfter
<1>2. ASSUME CancelSetup, ~holdAdmin PROVE FALSE
  BY <1>2, CancelSetupDoes, NoneFreeAfter
<1>3. ASSUME NEW red \in Robot, NEW blue \in Robot, SetUpNext(red, blue) PROVE FALSE
  BY <1>3, SetUpNextDoes, NoneFreeAfter
<1>4. ASSUME NEW idle \in SUBSET OnField, ReleaseIdleForWaiting(idle) PROVE FALSE
  BY <1>4, ReleaseIdleDoes, NoneFreeAfter
<1> QED
  BY <1>1, <1>2, <1>3, <1>4

\* No apply loses a robot: one that waited to join is on the field as asked, or
\* waits on, and then no station is free.
THEOREM NobodyIsLost == Spec => AppliesLoseNobody
<1>1. ASSUME IInv, [Next]_vars
      PROVE  [/\ \A i \in DOMAIN changes : changes[i].kind = "enable" =>
                   \/ changes[i] \in ToSet(changes')
                   \/ \E s \in Slot : active'[s] = [robot |-> changes[i].robot, key |-> changes[i].key]
                   \/ ~(ApplyNow \/ CancelSetup
                          \/ \E idle \in SUBSET OnField : ReleaseIdleForWaiting(idle))
              /\ FreeAt(active') # {} /\ (\E c \in ToSet(changes') : c.kind = "enable") =>
                   ~(ApplyNow \/ (CancelSetup /\ ~holdAdmin)
                       \/ \E idle \in SUBSET OnField : ReleaseIdleForWaiting(idle))]_vars
  <2>0. FreeAt(active') # {} /\ (\E c \in ToSet(changes') : c.kind = "enable") =>
          ~(ApplyNow \/ (CancelSetup /\ ~holdAdmin)
              \/ \E idle \in SUBSET OnField : ReleaseIdleForWaiting(idle))
    <3> SUFFICES ASSUME FreeAt(active') # {}, NEW c \in ToSet(changes'), c.kind = "enable"
                 PROVE  ~(ApplyNow \/ (CancelSetup /\ ~holdAdmin)
                            \/ \E idle \in SUBSET OnField : ReleaseIdleForWaiting(idle))
      OBVIOUS
    <3> QED
      BY <1>1, NobodyWaitsBeforeAStation
  <2> SUFFICES ASSUME NEW i \in DOMAIN changes, changes[i].kind = "enable",
                      ApplyNow \/ CancelSetup
                        \/ \E idle \in SUBSET OnField : ReleaseIdleForWaiting(idle)
               PROVE  \/ changes[i] \in ToSet(changes')
                      \/ \E s \in Slot : active'[s] = [robot |-> changes[i].robot,
                                                       key   |-> changes[i].key]
    BY <2>0
  <2> DEFINE c == changes[i]
  <2>1. Sane(changes)
    BY <1>1 DEF IInv, ListOK
  <2>2. c \in ToSet(changes) /\ c \in Change
    BY <2>1, SaneSet DEF ToSet
  <2>3. c \in EnableChange
    BY <2>2, Kinds
  <2>4. ASSUME NEW list, NEW kinds, Applied(list, kinds), ToSet(changes) \subseteq ToSet(list),
               "enable" \in kinds
        PROVE  c \in ToSet(changes') \/ HasCfg(active', c)
    BY <2>2, <2>3, <2>4 DEF Applied, Selected
  <2>5. CASE ApplyNow
    BY <1>1, <2>4, <2>5, ApplyNowDoes DEF HasCfg, Cfg, Everything
  <2>6. CASE CancelSetup
    <3>1. CASE changes' = changes
      BY <2>2, <3>1
    <3>2. CASE Applied(changes, Joins)
      BY <2>4, <3>2 DEF HasCfg, Cfg, Joins
    <3> QED
      BY <1>1, <2>6, <3>1, <3>2, CancelSetupDoes
  <2>7. ASSUME NEW idle \in SUBSET OnField, ReleaseIdleForWaiting(idle)
        PROVE  c \in ToSet(changes') \/ HasCfg(active', c)
    <3>1. /\ Applied(changes \o Released(idle), Everything)
          /\ ToSet(changes) \subseteq ToSet(changes \o Released(idle))
      BY <1>1, <2>7, ReleaseIdleDoes
    <3> QED
      BY <2>4, <3>1 DEF Everything
  <2> QED
    BY <2>5, <2>6, <2>7 DEF HasCfg, Cfg
<1> QED
  BY <1>1, PendingInvariant, PTL DEF Spec, AppliesLoseNobody

-----------------------------------------------------------------------------
\* Who leaves.

\* What need not wait for staff is of one robot, or joins.
LEMMA NeedNotWait ==
  ASSUME FieldOK, NEW list, Sane(list), NEW r, ~MustWait(list, r)
  PROVE  \A c \in ToSet(list) : c.robot # r => c \in EnableChange
<1> DEFINE rest == Without(list, r)
<1>1. Sane(rest) /\ ToSet(rest) = {c \in ToSet(list) : c.robot # r}
  BY WithoutSane
<1> HIDE DEF rest
<1>2. /\ Len(Target(rest).line) <= Len(rest)
      /\ Len(Target(rest).line) = Len(rest) => ToSet(rest) \subseteq EnableChange
      /\ Target(rest).line \in Seq(EnableChange) /\ Len(rest) \in Nat
  BY <1>1, TargetDoes DEF FieldOK, Sane
<1>3. ~(Len(Target(rest).line) < Len(rest))
  BY DEF MustWait, rest
<1>4. Len(Target(rest).line) = Len(rest)
  <2>1. Len(Target(rest).line) \in Nat
    BY <1>2
  <2> QED
    BY <1>2, <1>3, <2>1
<1> QED
  BY <1>1, <1>2, <1>4

\* An idle robot leaves for one in line, and its station is taken.
IdleLeaves(r) ==
  /\ phase = "idle" /\ ~holdAdmin
  /\ r \notin Host
  /\ \A s \in At(active, r) : active'[s] # Empty

LEMMA IdleReason ==
  ASSUME IInv, NEW list, Sane(list), ToSet(list) \subseteq EnableChange,
         NEW idle \in SUBSET OnField, GivesWay(list, idle),
         Apply(list \o Released(idle), Everything),
         NEW r \in idle
  PROVE  IdleLeaves(r)
<1> DEFINE full == list \o Released(idle)
<1>1. active \in Stations /\ AtMostOne(active)
  BY DEF IInv, FieldOK
<1>2. /\ idle # {} /\ idle \subseteq OnField /\ idle \cap Robots(list) = {} /\ r \notin Host
      /\ phase = "idle" /\ ~MustWait(list, "none") /\ Cardinality(idle) <= Len(Target(list).line)
  BY DEF GivesWay
<1>3. FreeAt(Target(full).at) = {}
  BY <1>1, <1>2, NoneFree
<1>4. Sane(full)
  BY <1>1, <1>2, GivesWaySane
<1> HIDE DEF full
<1>5. active' = Target(full).at
  <2>1. Selected(full, Everything) = ToSet(full) /\ full \in Seq(Change)
    BY <1>4, AllKinds DEF Sane
  <2>2. Only(full, ToSet(full)) = full
    BY <2>1, OnlyAll
  <2>3. active' = Target(Only(full, Selected(full, Everything))).at
    BY DEF Apply, Selected, full
  <2> QED
    BY <2>1, <2>2, <2>3
<1>6. ~holdAdmin
  BY <1>2 DEF MustWait, Held
<1>7. \A s \in At(active, r) : active'[s] # Empty
  BY <1>3, <1>5 DEF FreeAt, At
<1> QED
  BY <1>2, <1>6, <1>7 DEF IdleLeaves

LEMMA LeavesForAReason ==
  ASSUME IInv, NEW list, NEW kinds, Sane(list), Applied(list, kinds), Sources(list, kinds),
         ~ByStaff, NEW r \in Robot, Leaves(r)
  PROVE  \/ RemoveSavedTeam(r) \/ \E s \in At(active, r) : TeamReleases(s)
         \/ IdleLeaves(r)
<1>1. Release(r) \in Selected(list, kinds)
  BY AppliedStays
<1>2. FieldOK /\ active \in Stations /\ Sane(changes) /\ Release(r).robot = r
  BY DEF IInv, FieldOK, ListOK, Release
<1>3. Release(r) \in ToSet(list) /\ Release(r) \notin EnableChange
  BY <1>1 DEF Selected, Release, EnableChange
<1>4. ASSUME NEW c \in Change, NEW idle \in SUBSET OnField, Request(c, idle), Adds(c),
             ~MustWait(AddChange(changes, c), c.robot), GivesWay(AddChange(changes, c), idle),
             list = AddChange(changes, c) \o Released(idle),
             c.kind = "release" =>
               /\ idle = {}
               /\ RemoveSavedTeam(c.robot) \/ \E s \in At(active, c.robot) : TeamReleases(s)
      PROVE  \/ RemoveSavedTeam(r) \/ \E s \in At(active, r) : TeamReleases(s)
             \/ IdleLeaves(r)
  <2> DEFINE some == AddChange(changes, c)
  <2>1. Sane(some)
    BY <1>2, AddSane
  <2>2. idle \subseteq OnField /\ idle \cap Robots(some) = {}
    BY <1>4, GivesWayIs
  <2>3. ToSet(list) = ToSet(some) \cup ToSet(Released(idle))
    BY <1>2, <1>4, <2>1, <2>2, GivesWaySane
  <2>4. \A x \in ToSet(some) : x.robot # c.robot => x \in EnableChange
    BY <1>2, <1>4, <2>1, NeedNotWait
  <2>5. \A x \in ToSet(some) : x.robot = c.robot => x.kind = c.kind
    BY <1>2, AddSane DEF IsAdded
  <2>6. \A x \in ToSet(Released(idle)) : x.robot \in idle
    BY <1>2, ReleasedIs
  <2>7. CASE c.kind = "release"
    <3>1. Release(r) \in ToSet(some)
      BY <1>3, <2>3, <2>6, <2>7, <1>4
    <3>2. r = c.robot
      BY <1>2, <1>3, <2>4, <3>1
    <3> QED
      BY <1>4, <2>7, <3>2
  <2>8. CASE c.kind # "release"
    <3>1. ToSet(some) \subseteq EnableChange
      <4>1. \A x \in ToSet(some) : x \in Change
        BY <2>1, SaneSet
      <4>2. c.kind = "enable"
        BY <2>8 DEF Change, EnableChange, ReleaseChange
      <4> QED
        BY <2>4, <2>5, <4>1, <4>2, Kinds
    <3>2. r \in idle
      BY <1>2, <1>3, <2>3, <2>6, <3>1
    <3>3. Apply(some \o Released(idle), Everything)
      BY <1>4 DEF Request
    <3> HIDE DEF some
    <3> QED
      BY <1>4, <2>1, <3>1, <3>2, <3>3, IdleReason DEF some
  <2> QED
    BY <2>7, <2>8
<1>5. ASSUME NEW idle \in SUBSET OnField, GivesWay(changes, idle), ReleaseIdleForWaiting(idle),
             list = changes \o Released(idle)
      PROVE  IdleLeaves(r)
  <2>1. ~MustWait(changes, "none") /\ Apply(changes \o Released(idle), Everything)
    BY <1>5 DEF ReleaseIdleForWaiting, GivesWay
  <2>2. ToSet(changes) \subseteq EnableChange
    <3>1. \A x \in ToSet(changes) : x.robot # "none"
      BY <1>2, SaneSet, Kinds, RobotAssumption
    <3> QED
      BY <1>2, <2>1, <3>1, NeedNotWait
  <2>3. ToSet(list) = ToSet(changes) \cup ToSet(Released(idle))
    BY <1>5, ReleaseIdleDoes
  <2>4. \A x \in ToSet(Released(idle)) : x.robot \in idle
    BY <1>2, ReleasedIs
  <2>5. r \in idle
    BY <1>2, <1>3, <2>2, <2>3, <2>4
  <2> QED
    BY <1>2, <1>5, <2>1, <2>2, <2>5, IdleReason
<1>6. CASE kinds = Joins
  BY <1>1, <1>6 DEF Selected, Joins, Release
<1> QED
  BY <1>4, <1>5, <1>6 DEF Sources

\* A robot leaves the field because staff applied or cleared, because its own
\* team released it, or, idle, to make room: then another takes its station.
THEOREM LeavingHasAReason == Spec => RobotsLeaveForAReason
<1>1. ASSUME IInv, [Next]_vars
      PROVE  [\A r \in Robot : Leaves(r) =>
                \/ ByStaff
                \/ RemoveSavedTeam(r) \/ \E s \in At(active, r) : TeamReleases(s)
                \/ /\ phase = "idle" /\ ~holdAdmin
                   /\ r \notin Host
                   /\ \A s \in At(active, r) : active'[s] # Empty]_vars
  <2> SUFFICES ASSUME NEW r \in Robot, Leaves(r), ~ByStaff
               PROVE  \/ RemoveSavedTeam(r) \/ \E s \in At(active, r) : TeamReleases(s)
                      \/ IdleLeaves(r)
    BY DEF IdleLeaves
  <2>1. active' # active
    BY OnFieldIs DEF Leaves
  <2>2. AppliesAList
    BY <1>1, <2>1, StepSource
  <2> QED
    BY <1>1, <2>2, LeavesForAReason DEF AppliesAList
<1> QED
  BY <1>1, PendingInvariant, PTL DEF Spec, RobotsLeaveForAReason
=============================================================================
