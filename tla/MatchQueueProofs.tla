--------------------------- MODULE MatchQueueProofs ---------------------------
(***************************************************************************)
(* Theorems about the match queue, for any number of entries, teams,       *)
(* shapes and setups.                                                      *)
(*                                                                         *)
(* Lists first: what Only keeps of one, and what putting in, leaving out   *)
(* and rearranging does, by induction along it.  Then a match formed from  *)
(* the line: AfterWishes and AfterForming say what its two passes have     *)
(* come to after so many teams, and FormedFairly follows from where they   *)
(* end.  Then one invariant of the steps: every variable keeps to its      *)
(* values, the queue lists each of its entries once, and an entry that is  *)
(* playing is the only one and has its match on the field, unless a        *)
(* countdown was aborted.                                                  *)
(***************************************************************************)
EXTENDS MatchQueue, FiniteSetTheorems, SequenceTheorems, TLAPS

-----------------------------------------------------------------------------
\* Lists.

\* Some number in a set is its least.
LEMMA LeastOf ==
  ASSUME NEW S, S \subseteq Nat, S # {}
  PROVE  \E x \in S : \A y \in S : x <= y
<1>1. PICK x \in S : \A y \in S : ~ (<<y, x>> \in OpToRel(<, Nat))
  <2>1. IsWellFoundedOn(OpToRel(<, Nat), Nat)
    BY NatLessThanWellFounded
  <2> HIDE DEF OpToRel
  <2> QED
    BY <2>1, WFMin
<1>2. \A y \in S : ~(y < x)
  BY <1>1 DEF OpToRel
<1> QED
  BY <1>2

\* Induction along a list: what holds before it and survives each entry holds throughout.
LEMMA Induction ==
  ASSUME NEW n \in Nat, NEW S, 0 \in S, \A i \in 1..n : i - 1 \in S => i \in S
  PROVE  0..n \subseteq S
<1> DEFINE T == {i \in 0..n : i \notin S}
<1> SUFFICES ASSUME T # {} PROVE FALSE
  OBVIOUS
<1>1. PICK x \in T : \A y \in T : x <= y
  <2>1. T \subseteq Nat
    OBVIOUS
  <2> HIDE DEF T
  <2> QED
    BY <2>1, LeastOf
<1>2. x \in 1..n /\ x - 1 \in 0..n /\ ~(x <= x - 1)
  OBVIOUS
<1> QED
  BY <1>1, <1>2

\* What starts in a set, and whose every entry keeps to it, is a function to it.
LEMMA Carried ==
  ASSUME NEW n \in Nat, NEW A, NEW g, g = [i \in 0..n |-> g[i]], g[0] \in A,
         \A i \in 1..n : g[i - 1] \in A => g[i] \in A
  PROVE  g \in [0..n -> A]
<1> DEFINE Typed == {i \in 0..n : g[i] \in A}
<1>1. 0 \in Typed /\ \A i \in 1..n : i - 1 \in Typed => i \in Typed
  OBVIOUS
<1>2. 0..n \subseteq Typed
  <2> HIDE DEF Typed
  <2> QED
    BY <1>1, Induction
<1>3. \A i \in 0..n : g[i] \in A
  BY <1>2
<1> QED
  BY <1>3

\* What is carried along a list has a value at every entry.
IsStep(n, A, step) == step \in [1..n -> [A -> A]]
HasRun(n, A, base, step) ==
  \E f \in [0..n -> A] : f[0] = base /\ \A i \in 1..n : f[i] = step[i][f[i - 1]]
LEMMA Iteration ==
  ASSUME NEW n \in Nat, NEW A, NEW base \in A, NEW step, IsStep(n, A, step)
  PROVE  HasRun(n, A, base, step)
<1> USE DEF IsStep, HasRun
<1> DEFINE Upto(k, f) == f[0] = base /\ \A i \in 1..k : f[i] = step[i][f[i - 1]]
           Done == {k \in 0..n : \E f \in [0..k -> A] : Upto(k, f)}
<1>1. 0 \in Done
  <2> DEFINE f == [i \in 0..0 |-> base]
  <2>1. f \in [0..0 -> A] /\ f[0] = base /\ \A i \in 1..0 : f[i] = step[i][f[i - 1]]
    OBVIOUS
  <2> HIDE DEF f
  <2> QED
    BY <2>1
<1>2. ASSUME NEW k \in 1..n, k - 1 \in Done PROVE k \in Done
  <2>1. PICK g \in [0..(k - 1) -> A] : Upto(k - 1, g)
    BY <1>2
  <2> DEFINE f == [i \in 0..k |-> IF i = k THEN step[k][g[k - 1]] ELSE g[i]]
  <2>2. k - 1 \in 0..(k - 1) /\ step[k][g[k - 1]] \in A
    OBVIOUS
  <2>3. f \in [0..k -> A] /\ f[0] = base
    BY <2>1, <2>2
  <2>4. ASSUME NEW i \in 1..k PROVE f[i] = step[i][f[i - 1]]
    <3>1. f[i - 1] = g[i - 1]
      OBVIOUS
    <3>2. CASE i = k
      BY <3>1, <3>2
    <3>3. CASE i # k
      BY <2>1, <3>1, <3>3
    <3> QED
      BY <3>2, <3>3
  <2>5. k \in 0..n
    OBVIOUS
  <2> HIDE DEF f
  <2>6. Upto(k, f)
    BY <2>3, <2>4
  <2> HIDE DEF Upto
  <2> QED
    BY <2>3, <2>5, <2>6
<1>3. 0..n \subseteq Done
  <2>1. \A i \in 1..n : i - 1 \in Done => i \in Done
    BY <1>2
  <2> HIDE DEF Done
  <2> QED
    BY <1>1, <2>1, Induction
<1> QED
  BY <1>3

\* Only, entry by entry.
RunsOnly(X, list, S) ==
  \E kept \in [0..Len(list) -> Seq(X)] :
    /\ kept[0] = <<>>
    /\ \A i \in 1..Len(list) :
         kept[i] = IF list[i] \in S THEN Append(kept[i - 1], list[i]) ELSE kept[i - 1]
    /\ Only(list, S) = kept[Len(list)]
LEMMA OnlyUnfolds ==
  ASSUME NEW X, NEW list \in Seq(X), NEW S
  PROVE  RunsOnly(X, list, S)
<1> DEFINE n == Len(list)
           Grown(i, s) == IF list[i] \in S THEN Append(s, list[i]) ELSE s
           Solves(f) == f = [i \in 0..n |-> IF i = 0 THEN <<>>
                     ELSE IF list[i] \in S THEN Append(f[i - 1], list[i]) ELSE f[i - 1]]
           kept == CHOOSE f : Solves(f)
           step == [i \in 1..n |-> [s \in Seq(X) |-> Grown(i, s)]]
<1>1. n \in Nat /\ <<>> \in Seq(X) /\ step \in [1..n -> [Seq(X) -> Seq(X)]]
  OBVIOUS
<1>2. PICK f \in [0..n -> Seq(X)] : f[0] = <<>> /\ \A i \in 1..n : f[i] = step[i][f[i - 1]]
  <2> DEFINE A == Seq(X)
             none == <<>>
  <2>1. \E f \in [0..n -> A] : f[0] = none /\ \A i \in 1..n : f[i] = step[i][f[i - 1]]
    <3>1. n \in Nat /\ none \in A /\ IsStep(n, A, step)
      BY <1>1 DEF IsStep
    <3> HIDE DEF n, step, A, none
    <3>2. HasRun(n, A, none, step)
      BY <3>1, Iteration
    <3> QED
      BY <3>2 DEF HasRun
  <2> QED
    BY <2>1
<1>3. Solves(f)
  <2>1. ASSUME NEW i \in 1..n PROVE f[i] = Grown(i, f[i - 1])
    <3>1. f[i - 1] \in Seq(X) /\ step[i] = [s \in Seq(X) |-> Grown(i, s)]
      OBVIOUS
    <3> HIDE DEF Grown, step
    <3> QED
      BY <3>1, <1>2
  <2>2. \A i \in 0..n : i = 0 \/ i \in 1..n
    BY <1>1
  <2>3. f = [i \in 0..n |-> f[i]]
    OBVIOUS
  <2> HIDE DEF n, step
  <2> QED
    BY <2>1, <2>2, <2>3, <1>2
<1>4. Solves(kept)
  <2> HIDE DEF Solves
  <2> QED
    BY <1>3
<1>5. Only(list, S) = kept[n]
  BY DEF Only
<1> HIDE DEF kept
<1>6. /\ kept[0] = <<>> /\ DOMAIN kept = 0..n
      /\ \A i \in 1..n : kept[i] = Grown(i, kept[i - 1])
  <2>1. \A i \in 1..n : i \in 0..n /\ i # 0
    BY <1>1
  <2>2. 0 \in 0..n
    BY <1>1
  <2> HIDE DEF n
  <2> QED
    BY <1>4, <2>1, <2>2
<1>7. kept \in [0..n -> Seq(X)]
  <2>1. kept[0] \in Seq(X)
    BY <1>6
  <2>2. ASSUME NEW i \in 1..n, kept[i - 1] \in Seq(X) PROVE kept[i] \in Seq(X)
    <3>1. kept[i] = Grown(i, kept[i - 1]) /\ list[i] \in X
      BY <1>6
    <3> HIDE DEF n
    <3> QED
      BY <3>1, <2>2
  <2>3. kept = [i \in 0..n |-> kept[i]]
    <3> HIDE DEF n
    <3> QED
      BY <1>4
  <2> HIDE DEF n
  <2> QED
    BY <1>1, <2>1, <2>2, <2>3, Carried
<1> QED
  BY <1>5, <1>6, <1>7 DEF RunsOnly

\* What Only keeps: what is in S, as often as the list has it.
Listed(list) == {list[i] : i \in 1..Len(list)}
Once(list) == \A i, j \in 1..Len(list) : list[i] = list[j] => i = j

LEMMA AppendLists ==
  ASSUME NEW X, NEW s \in Seq(X), NEW x \in X
  PROVE  /\ Append(s, x) \in Seq(X) /\ Listed(Append(s, x)) = Listed(s) \cup {x}
         /\ Once(s) /\ x \notin Listed(s) => Once(Append(s, x))
<1> DEFINE t == Append(s, x)
           m == Len(s)
<1>1. m \in Nat /\ t \in Seq(X) /\ Len(t) = m + 1
  OBVIOUS
<1>2. \A p \in 1..m : t[p] = s[p] /\ p \in 1..(m + 1)
  OBVIOUS
<1>3. t[m + 1] = x /\ m + 1 \in 1..(m + 1)
  OBVIOUS
<1>4. \A p \in 1..(m + 1) : p = m + 1 \/ p \in 1..m
  BY <1>1
<1> HIDE DEF t
<1>5. Listed(t) = Listed(s) \cup {x}
  BY <1>1, <1>2, <1>3, <1>4 DEF Listed
<1>6. ASSUME Once(s), x \notin Listed(s) PROVE Once(t)
  <2>1. \A p \in 1..m : s[p] # x
    BY <1>6 DEF Listed
  <2> SUFFICES ASSUME NEW p \in 1..(m + 1), NEW q \in 1..(m + 1), t[p] = t[q] PROVE p = q
    BY <1>1 DEF Once
  <2>2. CASE p \in 1..m /\ q \in 1..m
    BY <1>2, <1>6, <2>2 DEF Once
  <2> QED
    BY <1>2, <1>3, <1>4, <2>1, <2>2
<1> QED
  BY <1>1, <1>5, <1>6 DEF t

LEMMA OnlyHolds ==
  ASSUME NEW X, NEW list \in Seq(X), NEW S
  PROVE  /\ Only(list, S) \in Seq(X) /\ Listed(Only(list, S)) = Listed(list) \cap S
         /\ Once(list) => Once(Only(list, S))
<1> DEFINE n == Len(list)
           upTo(i) == {list[j] : j \in 1..i}
           Kept(i, s) == Listed(s) = upTo(i) \cap S /\ (Once(list) => Once(s))
<1>1. PICK kept \in [0..n -> Seq(X)] :
           /\ kept[0] = <<>>
           /\ \A i \in 1..n :
                kept[i] = IF list[i] \in S THEN Append(kept[i - 1], list[i]) ELSE kept[i - 1]
           /\ Only(list, S) = kept[n]
  <2>1. RunsOnly(X, list, S)
    BY OnlyUnfolds
  <2> QED
    BY <2>1 DEF RunsOnly
<1> DEFINE Done == {i \in 0..n : Kept(i, kept[i])}
<1>2. n \in Nat /\ n \in 0..n /\ \A i \in 0..n : kept[i] \in Seq(X)
  OBVIOUS
<1>3. 0 \in Done
  BY <1>1, <1>2 DEF Listed, Once
<1>4. ASSUME NEW i \in 1..n, i - 1 \in Done PROVE i \in Done
  <2> DEFINE s == kept[i - 1]
             x == list[i]
  <2>1. s \in Seq(X) /\ x \in X /\ Kept(i - 1, s) /\ i \in 0..n
    BY <1>2, <1>4
  <2>2. \A j \in 1..i : j = i \/ j \in 1..(i - 1)
    BY <1>2
  <2>3. i \in 1..i /\ 1..(i - 1) \subseteq 1..i /\ 1..i \subseteq 1..n
    BY <1>2
  <2>4. upTo(i) = upTo(i - 1) \cup {x}
    BY <2>2, <2>3
  <2>5. CASE x \notin S
    <3>1. kept[i] = s
      BY <1>1, <2>5
    <3> QED
      BY <2>1, <2>4, <2>5, <3>1
  <2>6. CASE x \in S
    <3>1. kept[i] = Append(s, x)
      BY <1>1, <2>6
    <3>2. Once(list) => x \notin upTo(i - 1)
      <4> SUFFICES ASSUME Once(list), NEW j \in 1..(i - 1), list[j] = x PROVE FALSE
        OBVIOUS
      <4> QED
        BY <2>3 DEF Once
    <3> HIDE DEF s, x
    <3>3. Listed(Append(s, x)) = Listed(s) \cup {x}
      BY <2>1, AppendLists
    <3>4. Once(s) /\ x \notin Listed(s) => Once(Append(s, x))
      BY <2>1, AppendLists
    <3> HIDE DEF upTo
    <3>5. Kept(i, kept[i])
      BY <2>1, <2>4, <2>6, <3>1, <3>2, <3>3, <3>4
    <3> QED
      BY <2>1, <3>5
  <2> QED
    BY <2>5, <2>6
<1>5. 0..n \subseteq Done
  <2>1. \A i \in 1..n : i - 1 \in Done => i \in Done
    BY <1>4
  <2> HIDE DEF Done, n
  <2> QED
    BY <1>2, <1>3, <2>1, Induction
<1>6. Kept(n, kept[n]) /\ upTo(n) = Listed(list)
  BY <1>2, <1>5 DEF Listed
<1> QED
  BY <1>1, <1>2, <1>6

\* One list after another.
LEMMA JoinedLists ==
  ASSUME NEW X, NEW s \in Seq(X), NEW t \in Seq(X)
  PROVE  /\ s \o t \in Seq(X) /\ Listed(s \o t) = Listed(s) \cup Listed(t)
         /\ Once(s) /\ Once(t) /\ Listed(s) \cap Listed(t) = {} => Once(s \o t)
<1> DEFINE u == s \o t
           m == Len(s)
           n == Len(t)
<1>1. m \in Nat /\ n \in Nat /\ u \in Seq(X) /\ Len(u) = m + n
  OBVIOUS
<1>2. /\ \A i \in 1..m : u[i] = s[i] /\ i \in 1..(m + n)
      /\ \A i \in 1..n : u[m + i] = t[i] /\ m + i \in 1..(m + n)
  OBVIOUS
<1>3. ASSUME NEW i \in 1..(m + n)
      PROVE  \/ i \in 1..m /\ u[i] = s[i]
             \/ i - m \in 1..n /\ u[i] = t[i - m] /\ i = m + (i - m)
  <2>1. i \in 1..m \/ (i - m \in 1..n /\ i = m + (i - m))
    BY <1>1
  <2> HIDE DEF m, n, u
  <2> QED
    BY <1>2, <2>1
<1> HIDE DEF u
<1>4. Listed(u) = Listed(s) \cup Listed(t)
  <2>1. \A i \in 1..(m + n) : u[i] \in Listed(s) \cup Listed(t)
    BY <1>3 DEF Listed
  <2>2. Listed(s) \subseteq Listed(u) /\ Listed(t) \subseteq Listed(u)
    BY <1>1, <1>2 DEF Listed
  <2> QED
    BY <1>1, <2>1, <2>2 DEF Listed
<1>5. ASSUME Once(s), Once(t), Listed(s) \cap Listed(t) = {} PROVE Once(u)
  <2>1. \A i \in 1..m, j \in 1..n : s[i] # t[j]
    BY <1>5 DEF Listed
  <2>2. (\A i, j \in 1..m : s[i] = s[j] => i = j) /\ \A i, j \in 1..n : t[i] = t[j] => i = j
    BY <1>5 DEF Once
  <2>3. ASSUME NEW i \in 1..(m + n), NEW j \in 1..(m + n), u[i] = u[j] PROVE i = j
    <3> HIDE DEF m, n
    <3> QED
      BY <1>3, <2>1, <2>2, <2>3
  <2> QED
    BY <1>1, <2>3 DEF Once
<1> QED
  BY <1>1, <1>4, <1>5 DEF u

\* The numbers from one up, counted.
LEMMA UpTo == ASSUME NEW n \in Nat PROVE IsFiniteSet(1..n) /\ Cardinality(1..n) = n
<1>1. 1 \in Int /\ n \in Int
  OBVIOUS
<1>2. IsFiniteSet(1..n) /\ Cardinality(1..n) = IF 1 > n THEN 0 ELSE n - 1 + 1
  BY <1>1, FS_Interval
<1> QED
  BY <1>2

\* A list and what is left of it around some place.
LEMMA Parts ==
  ASSUME NEW X, NEW s \in Seq(X), NEW k \in 0..Len(s), NEW h \in Nat, k <= h
  PROVE  LET a == SubSeq(s, 1, k)
             c == SubSeq(s, h + 1, Len(s))
         IN  /\ a \in Seq(X) /\ c \in Seq(X) /\ Listed(a) \cup Listed(c) \subseteq Listed(s)
             /\ k = h => Listed(a) \cup Listed(c) = Listed(s)
             /\ Once(s) => Once(a) /\ Once(c) /\ Listed(a) \cap Listed(c) = {}
<1> DEFINE n == Len(s)
           a == SubSeq(s, 1, k)
           c == SubSeq(s, h + 1, n)
<1>1. n \in Nat /\ k \in Nat /\ k <= n /\ 1..k \subseteq 1..n
  OBVIOUS
<1>2. a \in Seq(X) /\ Len(a) = k /\ \A i \in 1..k : a[i] = s[i]
  BY <1>1
<1>3. /\ c \in Seq(X)
      /\ \A i \in 1..Len(c) : c[i] = s[h + i] /\ h + i \in 1..n /\ h + i \notin 1..k
      /\ \A i \in 1..n : i > h => i - h \in 1..Len(c) /\ c[i - h] = s[i]
  <2>1. CASE h <= n
    <3>1. c \in Seq(X) /\ Len(c) = n - h /\ \A i \in 1..(n - h) : c[i] = s[h + i]
      BY <1>1, <2>1
    <3> HIDE DEF c, n
    <3>2. \A i \in 1..n : i > h => i - h \in 1..(n - h) /\ h + (i - h) = i
      BY <1>1, <2>1
    <3>3. \A i \in 1..(n - h) : h + i \in 1..n /\ h + i \notin 1..k
      BY <1>1, <2>1
    <3>4. \A i \in 1..n : i > h => i - h \in 1..Len(c) /\ c[i - h] = s[i]
      BY <3>1, <3>2
    <3> QED
      BY <3>1, <3>3, <3>4
  <2>2. CASE h > n
    <3>1. c = <<>>
      BY <1>1, <2>2
    <3> HIDE DEF c, n
    <3> QED
      BY <1>1, <2>2, <3>1
  <2> QED
    BY <1>1, <2>1, <2>2
<1> HIDE DEF a, c, n
<1>4. Listed(a) \cup Listed(c) \subseteq Listed(s)
  <2>1. \A i \in 1..k : a[i] \in Listed(s)
    BY <1>1, <1>2 DEF Listed, n
  <2>2. \A i \in 1..Len(c) : c[i] \in Listed(s)
    BY <1>3 DEF Listed, n
  <2> QED
    BY <1>2, <2>1, <2>2 DEF Listed
<1>5. ASSUME k = h, NEW i \in 1..n PROVE s[i] \in Listed(a) \cup Listed(c)
  <2>1. CASE i <= k
    BY <1>1, <1>2, <2>1 DEF Listed
  <2>2. CASE i > k
    BY <1>3, <1>5, <2>2 DEF Listed
  <2> QED
    BY <1>1, <2>1, <2>2
<1>6. ASSUME Once(s) PROVE Once(a) /\ Once(c) /\ Listed(a) \cap Listed(c) = {}
  <2>1. \A i, j \in 1..n : s[i] = s[j] => i = j
    BY <1>6 DEF Once, n
  <2>2. Once(a)
    BY <1>1, <1>2, <2>1 DEF Once
  <2>3. Once(c)
    <3> SUFFICES ASSUME NEW i \in 1..Len(c), NEW j \in 1..Len(c), c[i] = c[j] PROVE i = j
      BY DEF Once
    <3>1. h + i = h + j
      BY <1>3, <2>1
    <3>2. Len(c) \in Nat
      BY <1>3
    <3> QED
      BY <3>1, <3>2
  <2>4. \A i \in 1..k, j \in 1..Len(c) : a[i] # c[j]
    BY <1>1, <1>2, <1>3, <2>1
  <2> QED
    BY <1>2, <2>2, <2>3, <2>4 DEF Listed
<1>7. k = h => Listed(s) \subseteq Listed(a) \cup Listed(c)
  BY <1>5 DEF Listed, n
<1> QED
  BY <1>2, <1>3, <1>4, <1>6, <1>7 DEF a, c, n

\* What is put in at some place.
LEMMA PutIn ==
  ASSUME NEW X, NEW s \in Seq(X), NEW x \in X, NEW k \in 0..Len(s)
  PROVE  LET t == SubSeq(s, 1, k) \o <<x>> \o SubSeq(s, k + 1, Len(s))
         IN  /\ t \in Seq(X) /\ Listed(t) = Listed(s) \cup {x}
             /\ Once(s) /\ x \notin Listed(s) => Once(t)
<1> DEFINE a == SubSeq(s, 1, k)
           b == <<x>>
           c == SubSeq(s, k + 1, Len(s))
<1>1. /\ a \in Seq(X) /\ c \in Seq(X) /\ Listed(a) \cup Listed(c) = Listed(s)
      /\ Once(s) => Once(a) /\ Once(c) /\ Listed(a) \cap Listed(c) = {}
  BY Parts
<1>2. b \in Seq(X) /\ Listed(b) = {x} /\ Once(b)
  BY DEF Listed, Once
<1> HIDE DEF a, b, c
<1>3. /\ a \o b \in Seq(X) /\ Listed(a \o b) = Listed(a) \cup {x}
      /\ Once(a) /\ x \notin Listed(a) => Once(a \o b)
  <2>1. Listed(a \o b) = Listed(a) \cup Listed(b) /\ a \o b \in Seq(X)
    BY <1>1, <1>2, JoinedLists
  <2>2. Once(a) /\ Listed(a) \cap Listed(b) = {} => Once(a \o b)
    BY <1>1, <1>2, JoinedLists
  <2> QED
    BY <1>2, <2>1, <2>2
<1> DEFINE d == a \o b
<1> HIDE DEF d
<1>4. /\ d \o c \in Seq(X) /\ Listed(d \o c) = Listed(d) \cup Listed(c)
      /\ Once(d) /\ Once(c) /\ Listed(d) \cap Listed(c) = {} => Once(d \o c)
  BY <1>1, <1>3, JoinedLists DEF d
<1>5. Listed(d \o c) = Listed(s) \cup {x}
  BY <1>1, <1>3, <1>4 DEF d
<1>6. Once(s) /\ x \notin Listed(s) => Once(d \o c)
  BY <1>1, <1>3, <1>4 DEF d
<1> QED
  BY <1>4, <1>5, <1>6 DEF a, b, c, d

\* What is on a list once can be counted along it.
LEMMA OnceCounts ==
  ASSUME NEW X, NEW s \in Seq(X), Once(s)
  PROVE  IsFiniteSet(Listed(s)) /\ Cardinality(Listed(s)) = Len(s)
<1> DEFINE n == Len(s)
<1>1. n \in Nat /\ s \in [1..n -> Listed(s)]
  BY DEF Listed
<1>2. IsFiniteSet(1..n) /\ Cardinality(1..n) = n
  <2> HIDE DEF n
  <2> QED
    BY <1>1, UpTo
<1>3. s \in Surjection(1..n, Listed(s)) /\ s \in Injection(1..n, Listed(s))
  <2>1. \A i, j \in 1..n : s[i] = s[j] => i = j
    BY DEF Once
  <2>2. \A x \in Listed(s) : \E i \in 1..n : s[i] = x
    BY DEF Listed
  <2> HIDE DEF n
  <2> QED
    BY <1>1, <2>1, <2>2 DEF Surjection, Injection, IsInjective
<1> HIDE DEF n
<1>4. /\ IsFiniteSet(Listed(s))
      /\ Cardinality(Listed(s)) = Cardinality(1..n) <=> s \in Injection(1..n, Listed(s))
  BY <1>2, <1>3, FS_Surjection
<1> QED
  BY <1>2, <1>3, <1>4 DEF n

\* As many entries as there are, of which none is left out: each is listed once.
LEMMA Arranged ==
  ASSUME NEW S, IsFiniteSet(S), NEW p \in [1..Cardinality(S) -> S],
         \A e \in S : \E i \in DOMAIN p : p[i] = e
  PROVE  p \in Seq(S) /\ Len(p) = Cardinality(S) /\ Listed(p) = S /\ Once(p)
<1> DEFINE n == Cardinality(S)
<1>1. n \in Nat
  BY FS_CardinalityType
<1>2. p \in Seq(S) /\ Len(p) = n
  <2>1. p = [i \in 1..n |-> p[i]] /\ \A i \in 1..n : p[i] \in S
    OBVIOUS
  <2> HIDE DEF n
  <2> QED
    BY <1>1, <2>1
<1>3. IsFiniteSet(1..n) /\ Cardinality(1..n) = n
  <2> HIDE DEF n
  <2> QED
    BY <1>1, UpTo
<1>4. p \in Surjection(1..n, S)
  BY DEF Surjection
<1>5. p \in Injection(1..n, S)
  <2> HIDE DEF n
  <2> QED
    BY <1>3, <1>4, FS_SurjSameCardinalityImpliesInj DEF n
<1>6. Once(p)
  BY <1>2, <1>5 DEF Injection, IsInjective, Once
<1>7. Listed(p) = S
  BY <1>2 DEF Listed
<1> QED
  BY <1>2, <1>6, <1>7

-----------------------------------------------------------------------------
\* A match formed from the line.

Place == [team : Team, wish : Wish \cup {"none"}]
Side == {"red", "blue"}
Sides == {m \in [red : SUBSET Team, blue : SUBSET Team] : IsFiniteSet(m.red) /\ IsFiniteSet(m.blue)}
LineOK == line \in Seq(Place)

LEMMA WishesAreSides == \A l \in Place : l.team \in Team /\ (l.wish # "none" => l.wish \in Side)
  BY QueueAssumption DEF Place, Side

LEMMA PutDoes ==
  ASSUME NEW m \in Sides, NEW side \in Side, NEW t \in Team
  PROVE  /\ Put(m, side, t) \in Sides
         /\ Put(m, side, t).red = IF side = "red" THEN m.red \cup {t} ELSE m.red
         /\ Put(m, side, t).blue = IF side = "blue" THEN m.blue \cup {t} ELSE m.blue
<1>1. IsFiniteSet(m.red \cup {t}) /\ IsFiniteSet(m.blue \cup {t})
  BY FS_AddElement DEF Sides
<1>2. m \in [red : SUBSET Team, blue : SUBSET Team]
  BY DEF Sides
<1>3. CASE side = "red"
  <2>1. Put(m, side, t) = [red |-> m.red \cup {t}, blue |-> m.blue]
    BY <1>2, <1>3 DEF Put
  <2> QED
    BY <1>1, <1>3, <2>1 DEF Sides
<1>4. CASE side = "blue"
  <2>1. Put(m, side, t) = [red |-> m.red, blue |-> m.blue \cup {t}]
    BY <1>2, <1>4 DEF Put
  <2> QED
    BY <1>1, <1>4, <2>1 DEF Sides
<1> QED
  BY <1>3, <1>4 DEF Side

LEMMA NobodyFits == Nobody \in Sides /\ Cardinality(Nobody.red) = 0 /\ Cardinality(Nobody.blue) = 0
  BY FS_EmptySet DEF Nobody, Sides

\* What a pass does with the i-th in line.
Wishing(shape, i, m) ==
  IF line[i].wish # "none" /\ HasRoom(m, shape, line[i].wish)
  THEN Put(m, line[i].wish, line[i].team) ELSE m
Fuller(shape, m) ==
  IF shape.red + Cardinality(m.blue) >= shape.blue + Cardinality(m.red) THEN "red" ELSE "blue"
Forming(shape, i, m) ==
  IF line[i].team \notin Teams(m) /\ HasRoom(m, shape, Fuller(shape, m))
  THEN Put(m, Fuller(shape, m), line[i].team) ELSE m

LEMMA PassesKeep ==
  ASSUME LineOK, NEW shape, NEW i \in 1..Len(line), NEW m \in Sides
  PROVE  Wishing(shape, i, m) \in Sides /\ Forming(shape, i, m) \in Sides
<1>1. line[i] \in Place
  BY DEF LineOK
<1>2. Fuller(shape, m) \in Side
  BY DEF Fuller, Side
<1> QED
  BY <1>1, <1>2, WishesAreSides, PutDoes DEF Wishing, Forming

\* The first pass, turn by turn.
LEMMA WishedUnfolds ==
  ASSUME LineOK, NEW shape
  PROVE  \E w \in [0..Len(line) -> Sides] :
           /\ w[0] = Nobody
           /\ \A i \in 1..Len(line) : w[i] = Wishing(shape, i, w[i - 1])
           /\ Wished(shape) = w[Len(line)]
<1> DEFINE n == Len(line)
           base == Nobody
           Solves(v) == v = [i \in 0..n |-> IF i = 0 THEN base ELSE Wishing(shape, i, v[i - 1])]
           found == CHOOSE v : Solves(v)
           turn == [i \in 1..n |-> [m \in Sides |-> Wishing(shape, i, m)]]
<1>1. n \in Nat /\ base \in Sides
  BY NobodyFits DEF LineOK
<1>2. \A i \in 1..n, m \in Sides : Wishing(shape, i, m) \in Sides
  BY PassesKeep
<1>3. Wished(shape) = found[n]
  BY DEF Wished, Wishing
<1> HIDE DEF base
<1>4. PICK w \in [0..n -> Sides] : w[0] = base /\ \A i \in 1..n : w[i] = turn[i][w[i - 1]]
  <2>1. IsStep(n, Sides, turn)
    BY <1>2 DEF IsStep
  <2> HIDE DEF n, turn
  <2>2. HasRun(n, Sides, base, turn)
    BY <1>1, <2>1, Iteration
  <2> QED
    BY <2>2 DEF HasRun
<1>5. Solves(w)
  <2>1. ASSUME NEW i \in 1..n PROVE w[i] = Wishing(shape, i, w[i - 1])
    <3>1. w[i - 1] \in Sides /\ turn[i] = [m \in Sides |-> Wishing(shape, i, m)]
      BY <1>1
    <3> HIDE DEF turn
    <3> QED
      BY <1>4, <3>1
  <2>2. \A i \in 0..n : i = 0 \/ i \in 1..n
    BY <1>1
  <2>3. w = [i \in 0..n |-> w[i]]
    OBVIOUS
  <2> HIDE DEF n, turn
  <2> QED
    BY <1>4, <2>1, <2>2, <2>3
<1>6. Solves(found)
  <2> HIDE DEF Solves
  <2> QED
    BY <1>5
<1> HIDE DEF found
<1>7. /\ found[0] = base /\ found = [i \in 0..n |-> found[i]]
      /\ \A i \in 1..n : found[i] = Wishing(shape, i, found[i - 1])
  <2>1. 0 \in 0..n /\ \A i \in 1..n : i \in 0..n /\ i # 0
    BY <1>1
  <2> HIDE DEF n
  <2> QED
    BY <1>6, <2>1
<1>8. found \in [0..n -> Sides]
  <2>1. \A i \in 1..n : found[i - 1] \in Sides => found[i] \in Sides
    BY <1>2, <1>7
  <2> HIDE DEF n
  <2> QED
    BY <1>1, <1>7, <2>1, Carried
<1> QED
  BY <1>3, <1>7, <1>8 DEF base

LEMMA WishedFits == ASSUME LineOK, NEW shape PROVE Wished(shape) \in Sides
<1>1. Len(line) \in 0..Len(line)
  BY DEF LineOK
<1> QED
  BY <1>1, WishedUnfolds

\* The second, likewise.
LEMMA FormedUnfolds ==
  ASSUME LineOK, NEW shape
  PROVE  \E w \in [0..Len(line) -> Sides] :
           /\ w[0] = Wished(shape)
           /\ \A i \in 1..Len(line) : w[i] = Forming(shape, i, w[i - 1])
           /\ Formed(shape) = w[Len(line)]
<1> DEFINE n == Len(line)
           base == Wished(shape)
           Solves(v) == v = [i \in 0..n |-> IF i = 0 THEN base ELSE Forming(shape, i, v[i - 1])]
           found == CHOOSE v : Solves(v)
           turn == [i \in 1..n |-> [m \in Sides |-> Forming(shape, i, m)]]
<1>1. n \in Nat /\ base \in Sides
  BY WishedFits DEF LineOK
<1>2. \A i \in 1..n, m \in Sides : Forming(shape, i, m) \in Sides
  BY PassesKeep
<1>3. Formed(shape) = found[n]
  BY DEF Formed, Forming, Fuller
<1> HIDE DEF base
<1>4. PICK w \in [0..n -> Sides] : w[0] = base /\ \A i \in 1..n : w[i] = turn[i][w[i - 1]]
  <2>1. IsStep(n, Sides, turn)
    BY <1>2 DEF IsStep
  <2> HIDE DEF n, turn
  <2>2. HasRun(n, Sides, base, turn)
    BY <1>1, <2>1, Iteration
  <2> QED
    BY <2>2 DEF HasRun
<1>5. Solves(w)
  <2>1. ASSUME NEW i \in 1..n PROVE w[i] = Forming(shape, i, w[i - 1])
    <3>1. w[i - 1] \in Sides /\ turn[i] = [m \in Sides |-> Forming(shape, i, m)]
      BY <1>1
    <3> HIDE DEF turn
    <3> QED
      BY <1>4, <3>1
  <2>2. \A i \in 0..n : i = 0 \/ i \in 1..n
    BY <1>1
  <2>3. w = [i \in 0..n |-> w[i]]
    OBVIOUS
  <2> HIDE DEF n, turn
  <2> QED
    BY <1>4, <2>1, <2>2, <2>3
<1>6. Solves(found)
  <2> HIDE DEF Solves
  <2> QED
    BY <1>5
<1> HIDE DEF found
<1>7. /\ found[0] = base /\ found = [i \in 0..n |-> found[i]]
      /\ \A i \in 1..n : found[i] = Forming(shape, i, found[i - 1])
  <2>1. 0 \in 0..n /\ \A i \in 1..n : i \in 0..n /\ i # 0
    BY <1>1
  <2> HIDE DEF n
  <2> QED
    BY <1>6, <2>1
<1>8. found \in [0..n -> Sides]
  <2>1. \A i \in 1..n : found[i - 1] \in Sides => found[i] \in Sides
    BY <1>2, <1>7
  <2> HIDE DEF n
  <2> QED
    BY <1>1, <1>7, <2>1, Carried
<1> QED
  BY <1>3, <1>7, <1>8 DEF base

\* Each team has one place, as far as the line goes.
Distinct == \A i, j \in 1..Len(line) : line[i].team = line[j].team => i = j

Fits(m, shape) ==
  /\ Cardinality(m.red) <= shape.red /\ Cardinality(m.blue) <= shape.blue
  /\ m.red \cap m.blue = {}
Full(m, shape) == Cardinality(m.red) = shape.red /\ Cardinality(m.blue) = shape.blue

LEMMA SidesCount ==
  ASSUME NEW m \in Sides
  PROVE  /\ Cardinality(m.red) \in Nat /\ Cardinality(m.blue) \in Nat
         /\ m.red \in SUBSET Team /\ m.blue \in SUBSET Team /\ Teams(m) = m.red \cup m.blue
  BY FS_CardinalityType DEF Sides, Teams

LEMMA PutFits ==
  ASSUME NEW shape \in Shape, NEW m \in Sides, Fits(m, shape), NEW side \in Side,
         HasRoom(m, shape, side), NEW t \in Team, t \notin Teams(m)
  PROVE  Fits(Put(m, side, t), shape) /\ Teams(Put(m, side, t)) = Teams(m) \cup {t}
<1> DEFINE p == Put(m, side, t)
<1>1. /\ shape \in [red : 0..3, blue : 0..3]
      /\ Cardinality(m.red) \in Nat /\ Cardinality(m.blue) \in Nat
      /\ t \notin m.red /\ t \notin m.blue
  BY QueueAssumption, SidesCount DEF Teams
<1>2. /\ Cardinality(m.red \cup {t}) = Cardinality(m.red) + 1
      /\ Cardinality(m.blue \cup {t}) = Cardinality(m.blue) + 1
  BY <1>1, FS_AddElement DEF Sides
<1>3. /\ p.red = IF side = "red" THEN m.red \cup {t} ELSE m.red
      /\ p.blue = IF side = "blue" THEN m.blue \cup {t} ELSE m.blue
  BY PutDoes
<1> HIDE DEF p
<1>4. CASE side = "red"
  <2>1. Cardinality(m.red) < shape.red
    BY <1>4 DEF HasRoom
  <2>2. p.red = m.red \cup {t} /\ p.blue = m.blue
    BY <1>3, <1>4
  <2> QED
    BY <1>1, <1>2, <2>1, <2>2 DEF Fits, Teams, p
<1>5. CASE side = "blue"
  <2>1. Cardinality(m.blue) < shape.blue
    BY <1>5 DEF HasRoom
  <2>2. p.red = m.red /\ p.blue = m.blue \cup {t}
    BY <1>3, <1>5
  <2> QED
    BY <1>1, <1>2, <2>1, <2>2 DEF Fits, Teams, p
<1> QED
  BY <1>4, <1>5 DEF Side

\* After the wishes of the first i: whoever plays does so as it wished.
AsWished(m, j) == line[j].wish \in Side /\ line[j].team \in m[line[j].wish]
AfterWishes(shape, i, m) ==
  /\ Fits(m, shape)
  /\ \A u \in Teams(m) : \E j \in 1..i : line[j].team = u /\ AsWished(m, j)

LEMMA WishingKeeps ==
  ASSUME LineOK, Distinct, NEW shape \in Shape, NEW i \in 1..Len(line), NEW m \in Sides,
         AfterWishes(shape, i - 1, m)
  PROVE  AfterWishes(shape, i, Wishing(shape, i, m))
<1> DEFINE l == line[i]
           p == Put(m, l.wish, l.team)
<1>1. Len(line) \in Nat /\ l \in Place /\ 1..(i - 1) \subseteq 1..i
  BY DEF LineOK
<1>2. l.team \in Team /\ (l.wish # "none" => l.wish \in Side)
  BY <1>1, WishesAreSides
<1>3. l.team \notin Teams(m)
  <2> SUFFICES ASSUME NEW j \in 1..(i - 1), line[j].team = l.team PROVE FALSE
    BY DEF AfterWishes
  <2> QED
    BY <1>1 DEF Distinct
<1>4. CASE Wishing(shape, i, m) = m
  BY <1>1, <1>4 DEF AfterWishes
<1>5. CASE l.wish # "none" /\ HasRoom(m, shape, l.wish) /\ Wishing(shape, i, m) = p
  <2>1. Fits(p, shape) /\ Teams(p) = Teams(m) \cup {l.team}
    BY <1>2, <1>3, <1>5, PutFits DEF AfterWishes
  <2>2. /\ p.red = IF l.wish = "red" THEN m.red \cup {l.team} ELSE m.red
        /\ p.blue = IF l.wish = "blue" THEN m.blue \cup {l.team} ELSE m.blue
    BY <1>2, <1>5, PutDoes
  <2> HIDE DEF p
  <2>3. l.team \in p[l.wish] /\ m["red"] \subseteq p["red"] /\ m["blue"] \subseteq p["blue"]
    BY <1>2, <1>5, <2>2 DEF Side
  <2>4. ASSUME NEW u \in Teams(p) PROVE \E j \in 1..i : line[j].team = u /\ AsWished(p, j)
    <3>1. CASE u = l.team
      BY <1>2, <1>5, <2>3, <3>1 DEF AsWished
    <3>2. CASE u \in Teams(m)
      <4>1. PICK j \in 1..(i - 1) : line[j].team = u /\ AsWished(m, j)
        BY <3>2 DEF AfterWishes
      <4>2. AsWished(p, j)
        BY <4>1, <2>3 DEF AsWished, Side
      <4> QED
        BY <1>1, <4>1, <4>2
    <3> QED
      BY <2>1, <3>1, <3>2
  <2> QED
    BY <1>5, <2>1, <2>4 DEF AfterWishes
<1> QED
  BY <1>4, <1>5 DEF Wishing

LEMMA WishedIs ==
  ASSUME LineOK, Distinct, NEW shape \in Shape
  PROVE  AfterWishes(shape, Len(line), Wished(shape))
<1> DEFINE n == Len(line)
<1>1. n \in Nat
  BY DEF LineOK
<1>2. PICK w \in [0..n -> Sides] :
           /\ w[0] = Nobody
           /\ \A i \in 1..n : w[i] = Wishing(shape, i, w[i - 1])
           /\ Wished(shape) = w[n]
  BY WishedUnfolds
<1> DEFINE Done == {i \in 0..n : AfterWishes(shape, i, w[i])}
<1>3. 0 \in Done
  <2>1. Fits(Nobody, shape) /\ Teams(Nobody) = {}
    BY NobodyFits, QueueAssumption DEF Fits, Nobody, Teams
  <2>2. AfterWishes(shape, 0, Nobody)
    BY <2>1 DEF AfterWishes
  <2> QED
    BY <1>1, <1>2, <2>2
<1>4. ASSUME NEW i \in 1..n, i - 1 \in Done PROVE i \in Done
  <2>1. i \in 0..n /\ w[i - 1] \in Sides /\ AfterWishes(shape, i - 1, w[i - 1])
    BY <1>1, <1>4
  <2>2. AfterWishes(shape, i, w[i])
    BY <1>2, <2>1, WishingKeeps
  <2> QED
    BY <2>1, <2>2
<1>5. n \in 0..n
  BY <1>1
<1>6. 0..n \subseteq Done
  <2>1. \A i \in 1..n : i - 1 \in Done => i \in Done
    BY <1>4
  <2> HIDE DEF Done, n
  <2> QED
    BY <1>1, <1>3, <2>1, Induction
<1> QED
  BY <1>2, <1>5, <1>6

\* After the first i of the second pass: all of them play, or there is no room.
AfterForming(shape, i, m) ==
  /\ Fits(m, shape)
  /\ Wished(shape).red \subseteq m.red /\ Wished(shape).blue \subseteq m.blue
  /\ Teams(m) \subseteq {line[j].team : j \in 1..Len(line)}
  /\ Full(m, shape) \/ \A j \in 1..i : line[j].team \in Teams(m)
  /\ \A u \in Teams(m) \ Teams(Wished(shape)) :
       \E j \in 1..i : line[j].team = u /\ \A k \in 1..j : line[k].team \in Teams(m)

\* The side with more room has room unless neither has.
LEMMA NoRoomIsFull ==
  ASSUME NEW shape \in Shape, NEW m \in Sides, Fits(m, shape)
  PROVE  HasRoom(m, shape, Fuller(shape, m)) <=> ~Full(m, shape)
<1>1. /\ shape \in [red : 0..3, blue : 0..3]
      /\ Cardinality(m.red) \in Nat /\ Cardinality(m.blue) \in Nat
  BY QueueAssumption, SidesCount
<1>2. CASE Fuller(shape, m) = "red"
  <2>1. shape.red + Cardinality(m.blue) >= shape.blue + Cardinality(m.red)
    BY <1>2 DEF Fuller
  <2>2. HasRoom(m, shape, Fuller(shape, m)) <=> Cardinality(m.red) < shape.red
    BY <1>2 DEF HasRoom
  <2> QED
    BY <1>1, <2>1, <2>2 DEF Fits, Full
<1>3. CASE Fuller(shape, m) = "blue"
  <2>1. ~(shape.red + Cardinality(m.blue) >= shape.blue + Cardinality(m.red))
    BY <1>3 DEF Fuller
  <2>2. HasRoom(m, shape, Fuller(shape, m)) <=> Cardinality(m.blue) < shape.blue
    BY <1>3 DEF HasRoom
  <2> QED
    BY <1>1, <2>1, <2>2 DEF Fits, Full
<1> QED
  BY <1>2, <1>3 DEF Fuller

LEMMA FormingKeeps ==
  ASSUME LineOK, NEW shape \in Shape, NEW i \in 1..Len(line), NEW m \in Sides,
         AfterForming(shape, i - 1, m)
  PROVE  AfterForming(shape, i, Forming(shape, i, m))
<1> DEFINE t == line[i].team
           side == Fuller(shape, m)
           p == Put(m, side, t)
<1>1. Len(line) \in Nat /\ t \in Team /\ side \in Side
  BY WishesAreSides DEF LineOK, Fuller, Side
<1>2. Fits(m, shape) /\ \A j \in 1..i : j = i \/ j \in 1..(i - 1)
  BY <1>1 DEF AfterForming
<1>3. 1..(i - 1) \subseteq 1..i
  BY <1>1
<1>4. CASE Forming(shape, i, m) = m /\ (t \in Teams(m) \/ ~HasRoom(m, shape, side))
  <2>1. Full(m, shape) \/ \A j \in 1..i : line[j].team \in Teams(m)
    BY <1>2, <1>4, NoRoomIsFull DEF AfterForming
  <2>2. \A u \in Teams(m) \ Teams(Wished(shape)) :
          \E j \in 1..i : line[j].team = u /\ \A k \in 1..j : line[k].team \in Teams(m)
    BY <1>3 DEF AfterForming
  <2> QED
    BY <1>4, <2>1, <2>2 DEF AfterForming
<1>5. CASE t \notin Teams(m) /\ HasRoom(m, shape, side) /\ Forming(shape, i, m) = p
  <2>1. Fits(p, shape) /\ Teams(p) = Teams(m) \cup {t}
    BY <1>1, <1>2, <1>5, PutFits
  <2>2. m.red \subseteq p.red /\ m.blue \subseteq p.blue
    <3> HIDE DEF t, side
    <3>1. /\ p.red = IF side = "red" THEN m.red \cup {t} ELSE m.red
          /\ p.blue = IF side = "blue" THEN m.blue \cup {t} ELSE m.blue
      BY <1>1, PutDoes
    <3> HIDE DEF p
    <3> QED
      BY <3>1
  <2>3. \A j \in 1..(i - 1) : line[j].team \in Teams(m)
    BY <1>2, <1>5, NoRoomIsFull DEF AfterForming
  <2> HIDE DEF p
  <2>4. \A j \in 1..i : line[j].team \in Teams(p)
    BY <1>2, <2>1, <2>3
  <2>5. ASSUME NEW u \in Teams(p) \ Teams(Wished(shape))
        PROVE  \E j \in 1..i : line[j].team = u /\ \A k \in 1..j : line[k].team \in Teams(p)
    <3>1. CASE u = t
      BY <2>4, <3>1
    <3>2. CASE u \in Teams(m)
      <4>1. PICK j \in 1..(i - 1) : line[j].team = u /\ \A k \in 1..j : line[k].team \in Teams(m)
        BY <2>5, <3>2 DEF AfterForming
      <4> QED
        BY <1>3, <2>1, <4>1
    <3> QED
      BY <2>1, <3>1, <3>2
  <2>6. Teams(p) \subseteq {line[j].team : j \in 1..Len(line)}
    BY <2>1 DEF AfterForming
  <2>7. Wished(shape).red \subseteq p.red /\ Wished(shape).blue \subseteq p.blue
    BY <2>2 DEF AfterForming
  <2> QED
    BY <1>5, <2>1, <2>4, <2>5, <2>6, <2>7 DEF AfterForming
<1> QED
  BY <1>4, <1>5 DEF Forming

LEMMA FormedIs ==
  ASSUME LineOK, Distinct, NEW shape \in Shape
  PROVE  AfterForming(shape, Len(line), Formed(shape)) /\ Formed(shape) \in Sides
<1> DEFINE n == Len(line)
<1>1. n \in Nat
  BY DEF LineOK
<1>2. PICK w \in [0..n -> Sides] :
           /\ w[0] = Wished(shape)
           /\ \A i \in 1..n : w[i] = Forming(shape, i, w[i - 1])
           /\ Formed(shape) = w[n]
  BY FormedUnfolds
<1> DEFINE Done == {i \in 0..n : AfterForming(shape, i, w[i])}
<1>3. 0 \in Done
  <2> DEFINE m == Wished(shape)
  <2>1. AfterWishes(shape, n, m)
    BY WishedIs
  <2> HIDE DEF m
  <2>2. Teams(m) \subseteq {line[j].team : j \in 1..n}
    BY <2>1 DEF AfterWishes
  <2>3. AfterForming(shape, 0, m)
    BY <2>1, <2>2 DEF AfterForming, AfterWishes, m
  <2> QED
    BY <1>1, <1>2, <2>3 DEF m
<1>4. ASSUME NEW i \in 1..n, i - 1 \in Done PROVE i \in Done
  <2>1. i \in 0..n /\ w[i - 1] \in Sides /\ AfterForming(shape, i - 1, w[i - 1])
    BY <1>1, <1>4
  <2>2. AfterForming(shape, i, w[i])
    BY <1>2, <2>1, FormingKeeps
  <2> QED
    BY <2>1, <2>2
<1>5. n \in 0..n
  BY <1>1
<1>6. 0..n \subseteq Done
  <2>1. \A i \in 1..n : i - 1 \in Done => i \in Done
    BY <1>4
  <2> HIDE DEF Done, n
  <2> QED
    BY <1>1, <1>3, <2>1, Induction
<1>7. w[n] \in Sides
  BY <1>2, <1>5
<1> QED
  BY <1>2, <1>5, <1>6, <1>7

LEMMA OutsideIs ==
  ASSUME LineOK, NEW S
  PROVE  Outside(S) \in Seq(Place) /\ Listed(Outside(S)) = {l \in Listed(line) : l.team \notin S}
<1> DEFINE kept == [team : Team \ S, wish : Wish \cup {"none"}]
<1>1. Listed(line) \subseteq Place
  BY DEF LineOK, Listed
<1>2. Place \cap kept = {l \in Place : l.team \notin S}
  BY DEF Place
<1>3. Outside(S) = Only(line, kept)
  BY DEF Outside
<1> HIDE DEF kept
<1>4. Outside(S) \in Seq(Place) /\ Listed(Outside(S)) = Listed(line) \cap kept
  BY <1>3, OnlyHolds DEF LineOK
<1> QED
  BY <1>1, <1>2, <1>4

LEMMA OnePlaceEach ==
  ASSUME LineOK, \A t \in Team : Cardinality(Places(t)) <= 1
  PROVE  Distinct /\ \A i \in 1..Len(line) : FirstPlace(line[i].team) = i
<1>1. /\ Len(line) \in Nat /\ DOMAIN line = 1..Len(line)
      /\ \A i \in 1..Len(line) : line[i].team \in Team
  BY WishesAreSides DEF LineOK
<1>2. ASSUME NEW i \in 1..Len(line), NEW j \in 1..Len(line), line[i].team = line[j].team
      PROVE  i = j
  <2> DEFINE S == Places(line[i].team)
  <2>1. i \in S /\ j \in S /\ S \subseteq 1..Len(line)
    BY <1>1, <1>2 DEF Places
  <2>2. Cardinality(S) <= 1
    BY <1>1
  <2> HIDE DEF S
  <2>3. IsFiniteSet(S) /\ Cardinality(S) \in Nat
    <3>1. IsFiniteSet(1..Len(line))
      BY <1>1, UpTo
    <3> QED
      BY <2>1, <3>1, FS_Subset, FS_CardinalityType
  <2>4. Cardinality(S \ {i}) = Cardinality(S) - 1 /\ IsFiniteSet(S \ {i})
    BY <2>1, <2>3, FS_RemoveElement
  <2>5. Cardinality(S \ {i}) \in Nat
    BY <2>4, FS_CardinalityType
  <2>6. Cardinality(S \ {i}) = 0
    BY <2>2, <2>3, <2>4, <2>5
  <2>7. S \ {i} = {}
    BY <2>4, <2>6, FS_EmptySet
  <2> QED
    BY <2>1, <2>7
<1>3. ASSUME NEW i \in 1..Len(line) PROVE FirstPlace(line[i].team) = i
  <2>1. Places(line[i].team) = {i}
    BY <1>1, <1>2 DEF Places
  <2> QED
    BY <2>1 DEF FirstPlace
<1> QED
  BY <1>2, <1>3 DEF Distinct

\* The promises of formFromLine(), for the match m that it makes.
LEMMA FormsFairly ==
  ASSUME LineOK, NEW shape \in Shape, \A t \in Team : Cardinality(Places(t)) <= 1
  PROVE  LET m == Formed(shape)
             waiting == {line[i].team : i \in DOMAIN line}
         IN  /\ Cardinality(m.red) <= shape.red /\ Cardinality(m.blue) <= shape.blue
             /\ Cardinality(Teams(m)) = shape.red + shape.blue \/ Teams(m) = waiting
             /\ \A t \in waiting \ Teams(m), u \in Teams(m) :
                  FirstPlace(t) < FirstPlace(u) =>
                    /\ line[FirstPlace(u)].wish # "none"
                    /\ u \in m[line[FirstPlace(u)].wish]
<1> DEFINE m == Formed(shape)
           won == Wished(shape)
           n == Len(line)
           waiting == {line[i].team : i \in DOMAIN line}
<1>1. Distinct /\ \A i \in 1..n : FirstPlace(line[i].team) = i
  BY OnePlaceEach
<1>2. AfterForming(shape, n, m) /\ AfterWishes(shape, n, won) /\ m \in Sides
  BY <1>1, FormedIs, WishedIs
<1>3. n \in Nat /\ waiting = {line[i].team : i \in 1..n}
  BY DEF LineOK
<1> HIDE DEF m, won, waiting
<1>4. Fits(m, shape) /\ won.red \subseteq m.red /\ won.blue \subseteq m.blue
  BY <1>2 DEF AfterForming, won
<1>5. ASSUME Full(m, shape) PROVE Cardinality(Teams(m)) = shape.red + shape.blue
  <2>1. /\ IsFiniteSet(m.red) /\ IsFiniteSet(m.blue) /\ m.red \cap m.blue = {}
        /\ Cardinality(m.red) \in Nat /\ Cardinality(m.blue) \in Nat
    BY <1>2, <1>4, SidesCount DEF Sides, Fits
  <2>2. Cardinality(m.red \cup m.blue) = Cardinality(m.red) + Cardinality(m.blue)
    <3>1. Cardinality(m.red \cup m.blue) =
            Cardinality(m.red) + Cardinality(m.blue) - Cardinality(m.red \cap m.blue)
      BY <2>1, FS_Union
    <3> QED
      BY <2>1, <3>1, FS_EmptySet
  <2> QED
    BY <1>5, <2>2 DEF Full, Teams
<1>6. ASSUME ~Full(m, shape) PROVE Teams(m) = waiting
  <2>1. Teams(m) \subseteq waiting /\ \A i \in 1..n : line[i].team \in Teams(m)
    BY <1>2, <1>3, <1>6 DEF AfterForming
  <2> QED
    BY <1>3, <2>1
<1>7. ASSUME NEW t \in waiting \ Teams(m), NEW u \in Teams(m), FirstPlace(t) < FirstPlace(u)
      PROVE  line[FirstPlace(u)].wish # "none" /\ u \in m[line[FirstPlace(u)].wish]
  <2>1. PICK i \in 1..n : t = line[i].team
    BY <1>3
  <2>2. FirstPlace(t) = i
    BY <1>1, <2>1
  <2>3. u \in Teams(won)
    <3> SUFFICES ASSUME u \notin Teams(won) PROVE FALSE
      OBVIOUS
    <3>1. PICK j \in 1..n : line[j].team = u /\ \A k \in 1..j : line[k].team \in Teams(m)
      BY <1>2 DEF AfterForming, won
    <3>2. i \in 1..j
      BY <1>1, <1>3, <1>7, <2>2, <3>1
    <3> QED
      BY <2>1, <3>1, <3>2
  <2>4. PICK j \in 1..n : line[j].team = u /\ AsWished(won, j)
    BY <1>2, <2>3 DEF AfterWishes
  <2>5. FirstPlace(u) = j
    BY <1>1, <2>4
  <2>6. won["red"] \subseteq m["red"] /\ won["blue"] \subseteq m["blue"]
    BY <1>4
  <2> QED
    BY <2>4, <2>5, <2>6 DEF AsWished, Side
<1> QED
  BY <1>4, <1>5, <1>6, <1>7 DEF Fits, m, waiting

\* What FormedFairly asks of the match that is entered as e.
Fair(e, shape) ==
  LET m == lists'[e]
      waiting == {line[i].team : i \in DOMAIN line}
      size == Cardinality(Teams(m))
  IN  (\A t \in Team : Cardinality(Places(t)) <= 1) =>
      /\ Cardinality(m.red) <= shape.red /\ Cardinality(m.blue) <= shape.blue
      /\ size = shape.red + shape.blue \/ Teams(m) = waiting
      /\ {line'[i].team : i \in DOMAIN line'} = waiting \ Teams(m)
      /\ \A t \in waiting \ Teams(m), u \in Teams(m) :
           FirstPlace(t) < FirstPlace(u) =>
             line[FirstPlace(u)].wish # "none" /\ u \in m[line[FirstPlace(u)].wish]

LEMMA FormingIsFair ==
  ASSUME LineOK, NEW e \in Entry, NEW shape \in Shape, NEW allowShort \in BOOLEAN,
         FormFromLine(e, shape, allowShort)
  PROVE  Fair(e, shape)
<1> DEFINE m == Formed(shape)
<1>1. lists'[e] = m /\ line' = Outside(Teams(m))
  BY DEF FormFromLine, Insert
<1>2. line' \in Seq(Place) /\ Listed(line') = {l \in Listed(line) : l.team \notin Teams(m)}
  BY <1>1, OutsideIs
<1>3. /\ {line'[i].team : i \in DOMAIN line'} = {l.team : l \in Listed(line')}
      /\ {line[i].team : i \in DOMAIN line} = {l.team : l \in Listed(line)}
  BY <1>2 DEF LineOK, Listed
<1>4. {line'[i].team : i \in DOMAIN line'} = {line[i].team : i \in DOMAIN line} \ Teams(m)
  BY <1>2, <1>3
<1> SUFFICES ASSUME \A t \in Team : Cardinality(Places(t)) <= 1
             PROVE  LET waiting == {line[i].team : i \in DOMAIN line}
                    IN  /\ Cardinality(m.red) <= shape.red /\ Cardinality(m.blue) <= shape.blue
                        /\ Cardinality(Teams(m)) = shape.red + shape.blue \/ Teams(m) = waiting
                        /\ \A t \in waiting \ Teams(m), u \in Teams(m) :
                             FirstPlace(t) < FirstPlace(u) =>
                               /\ line[FirstPlace(u)].wish # "none"
                               /\ u \in m[line[FirstPlace(u)].wish]
  BY <1>1, <1>4 DEF Fair
<1> QED
  BY FormsFairly

-----------------------------------------------------------------------------
\* Every entry has one status.

Status == {"none", "queued", "onDeck", "playing", "played", "skipped"}
StatusOK == status \in [Entry -> Status]

-----------------------------------------------------------------------------
\* Every variable keeps to its values: the entries, listed once each, the line,
\* and the rest.

SideSets == [red : SUBSET Team, blue : SUBSET Team]
OrderOK ==
  /\ order \in Seq(Entry) /\ Once(order)
  /\ \A e \in Entry : status[e] # "none" <=> e \in Listed(order)
RestOK ==
  /\ lists \in [Entry -> SideSets] /\ fromLine \subseteq Entry /\ lineOpen \in BOOLEAN
  /\ setups \subseteq [entry : Entry, create : BOOLEAN]
  /\ phase \in {"idle", "created", "countdown", "running", "over"}
  /\ joined \in BOOLEAN /\ aborted \in BOOLEAN
Typed == StatusOK /\ OrderOK /\ LineOK /\ RestOK
KeepsTyped == OrderOK' /\ LineOK' /\ RestOK'

LEMMA TypedIs == Typed <=> TypeOK /\ Once(order)
<1>1. ASSUME order \in Seq(Entry), NEW e \in Entry
      PROVE  e \in Listed(order) <=> \E i \in DOMAIN order : order[i] = e
  BY <1>1 DEF Listed
<1> QED
  BY <1>1 DEF Typed, TypeOK, StatusOK, Status, OrderOK, LineOK, Place, RestOK, SideSets

LEMMA SideSetsAre == Nobody \in SideSets /\ Sheet \subseteq SideSets /\ Sides \subseteq SideSets
  BY QueueAssumption DEF SideSets, Nobody, Sides

\* Nothing is listed anew or taken off.
LEMMA OrderKeeps ==
  ASSUME OrderOK, order' = order, \A e \in Entry : status'[e] = "none" <=> status[e] = "none"
  PROVE  OrderOK'
  BY DEF OrderOK

LEMMA InsertTypes ==
  ASSUME Typed, NEW e \in Entry, NEW dropped, NEW k \in 0..Len(Only(order, Entry \ dropped)),
         NEW l \in SideSets, NEW b \in BOOLEAN, Insert(e, k, l, b, dropped),
         UNCHANGED <<lineOpen, setups, matchVars, aborted>>
  PROVE  KeepsTyped
<1> DEFINE others == Only(order, Entry \ dropped)
<1>1. /\ others \in Seq(Entry) /\ Once(others)
      /\ Listed(others) = Listed(order) \cap (Entry \ dropped)
  BY OnlyHolds DEF Typed, OrderOK
<1>2. status[e] = "none" /\ e \notin Listed(order)
  BY DEF Insert, Typed, OrderOK
<1>3. /\ order' = SubSeq(others, 1, k) \o <<e>> \o SubSeq(others, k + 1, Len(others))
      /\ status' = [f \in Entry |-> IF f = e THEN "queued"
                                    ELSE IF f \in dropped THEN "none" ELSE status[f]]
  BY DEF Insert
<1> HIDE DEF others
<1>4. k \in 0..Len(others)
  BY DEF others
<1>5. order' \in Seq(Entry) /\ Listed(order') = Listed(others) \cup {e} /\ Once(order')
  BY <1>1, <1>2, <1>3, <1>4, PutIn
<1>6. OrderOK'
  BY <1>1, <1>2, <1>3, <1>5 DEF OrderOK, Typed
<1>7. LineOK'
  BY OutsideIs DEF Insert, LineOK, Typed
<1>8. lists' \in [Entry -> SideSets] /\ fromLine' \subseteq Entry
  BY SideSetsAre DEF Insert, RestOK, Typed
<1> QED
  BY <1>6, <1>7, <1>8 DEF KeepsTyped, Typed, RestOK, matchVars

LEMMA DropTypes == ASSUME Typed, NEW S, Drop(S) PROVE KeepsTyped
<1>1. /\ order' \in Seq(Entry) /\ Once(order')
      /\ Listed(order') = Listed(order) \cap (Entry \ S)
  BY OnlyHolds DEF Drop, Typed, OrderOK
<1>2. status' = [f \in Entry |-> IF f \in S THEN "none" ELSE status[f]]
  BY DEF Drop
<1>3. OrderOK'
  BY <1>1, <1>2 DEF OrderOK, Typed
<1>4. lists' \in [Entry -> SideSets] /\ fromLine' \subseteq Entry
  BY SideSetsAre DEF Drop, RestOK, Typed
<1> QED
  BY <1>3, <1>4 DEF Drop, KeepsTyped, Typed, LineOK, RestOK, lineVars, matchVars

\* Where add() may put an entry.
LEMMA FrontIsWithin == ASSUME OrderOK PROVE FrontIndex \in 0..Len(order)
<1> DEFINE S == {i \in DOMAIN order : \A j \in 1..i : status[order[j]] # "queued"}
           n == Len(order)
<1>1. n \in Nat /\ S \subseteq 1..n
  BY DEF OrderOK
<1>2. IsFiniteSet(1..n) /\ Cardinality(1..n) = n
  <2> HIDE DEF S, n
  <2> QED
    BY <1>1, UpTo
<1>3. FrontIndex = Cardinality(S)
  BY DEF FrontIndex
<1> HIDE DEF S, n
<1>4. IsFiniteSet(S) /\ Cardinality(S) <= Cardinality(1..n)
  BY <1>1, <1>2, FS_Subset
<1>5. Cardinality(S) \in Nat
  BY <1>4, FS_CardinalityType
<1> QED
  BY <1>1, <1>2, <1>3, <1>4, <1>5 DEF n

LEMMA AllAreOthers == ASSUME OrderOK PROVE Len(Only(order, Entry \ {})) = Len(order)
<1>1. /\ Only(order, Entry \ {}) \in Seq(Entry) /\ Once(Only(order, Entry \ {}))
      /\ Listed(Only(order, Entry \ {})) = Listed(order) \cap (Entry \ {})
  BY OnlyHolds DEF OrderOK
<1>2. Listed(order) \cap (Entry \ {}) = Listed(order)
  BY DEF OrderOK, Listed
<1>3. Cardinality(Listed(order)) = Len(order)
  BY OnceCounts DEF OrderOK
<1> QED
  BY <1>1, <1>2, <1>3, OnceCounts

LEMMA OthersAreLeft ==
  ASSUME OrderOK, NEW dropped, dropped \subseteq {e \in Entry : status[e] # "none"}
  PROVE  Len(order) - Cardinality(dropped) = Len(Only(order, Entry \ dropped))
<1> DEFINE others == Only(order, Entry \ dropped)
<1>1. others \in Seq(Entry) /\ Once(others) /\ Listed(others) = Listed(order) \cap (Entry \ dropped)
  BY OnlyHolds DEF OrderOK
<1> HIDE DEF others
<1>2. /\ Listed(order) \cap (Entry \ dropped) = Listed(order) \ dropped
      /\ Listed(order) \cap dropped = dropped
  BY DEF OrderOK, Listed
<1>3. IsFiniteSet(Listed(order)) /\ Cardinality(Listed(order)) = Len(order)
  BY OnceCounts DEF OrderOK
<1>4. Cardinality(Listed(others)) = Len(others)
  BY <1>1, OnceCounts
<1>5. Cardinality(Listed(order) \ dropped) = Cardinality(Listed(order)) - Cardinality(dropped)
  <2>1. Cardinality(Listed(order) \ dropped)
          = Cardinality(Listed(order)) - Cardinality(Listed(order) \cap dropped)
    BY <1>3, FS_Difference
  <2> QED
    BY <1>2, <2>1
<1> QED
  BY <1>1, <1>2, <1>3, <1>4, <1>5 DEF others

LEMMA FirstPlaceIs ==
  ASSUME LineOK, NEW t, Places(t) # {}
  PROVE  FirstPlace(t) \in 1..Len(line)
<1>1. Places(t) \subseteq 1..Len(line) /\ Places(t) \subseteq Nat
  BY DEF Places, LineOK
<1>2. \E i \in Places(t) : \A j \in Places(t) : i <= j
  BY <1>1, LeastOf
<1>3. FirstPlace(t) \in Places(t)
  BY <1>2 DEF FirstPlace
<1> QED
  BY <1>1, <1>3

LEMMA FormedFits == ASSUME LineOK, NEW shape PROVE Formed(shape) \in SideSets
<1>1. Len(line) \in 0..Len(line)
  BY DEF LineOK
<1>2. Formed(shape) \in Sides
  BY <1>1, FormedUnfolds
<1> QED
  BY <1>2, SideSetsAre

LEMMA ReplaceTypes ==
  ASSUME Typed, NEW e \in Entry, NEW t \in Team, ReplaceTeam(e, t)
  PROVE  KeepsTyped
<1> DEFINE l == lists[e]
           side == IF t \in l.red THEN "red" ELSE "blue"
           next == {i \in DOMAIN line : line[i].team \notin Teams(l)}
           in == IF next = {} THEN {}
                 ELSE {line[CHOOSE i \in next : \A j \in next : i <= j].team}
           back == IF e \in fromLine THEN <<[team |-> t, wish |-> "none"]>> ELSE <<>>
<1>1. in \subseteq Team
  <2>1. CASE next # {}
    <3> DEFINE i == CHOOSE i \in next : \A j \in next : i <= j
    <3>1. next \subseteq Nat /\ next \subseteq 1..Len(line)
      BY DEF Typed, LineOK
    <3>2. \E k \in next : \A j \in next : k <= j
      <4> HIDE DEF next
      <4> QED
        BY <2>1, <3>1, LeastOf
    <3>3. i \in 1..Len(line)
      <4> HIDE DEF next
      <4> QED
        BY <3>1, <3>2
    <3>4. in = {line[i].team}
      BY <2>1
    <3> HIDE DEF i, in
    <3> QED
      BY <3>3, <3>4, WishesAreSides DEF Typed, LineOK
  <2> QED
    BY <2>1
<1>2. /\ lists' = [lists EXCEPT ![e][side] = (@ \ {t}) \cup in]
      /\ line' = Outside(in) \o back
  BY DEF ReplaceTeam
<1>3. side \in Side
  BY DEF Side
<1> HIDE DEF side, in
<1>4. lists' \in [Entry -> SideSets]
  <2>1. l \in SideSets
    BY DEF Typed, RestOK
  <2> HIDE DEF l
  <2>2. l[side] \subseteq Team
    BY <1>3, <2>1 DEF SideSets, Side
  <2>3. [l EXCEPT ![side] = (l[side] \ {t}) \cup in] \in SideSets
    BY <1>1, <1>3, <2>1, <2>2 DEF SideSets, Side
  <2>4. lists' = [lists EXCEPT ![e] = [l EXCEPT ![side] = (l[side] \ {t}) \cup in]]
    BY <1>2 DEF Typed, RestOK, l
  <2> QED
    BY <2>3, <2>4 DEF Typed, RestOK
<1>5. back \in Seq(Place)
  <2>1. [team |-> t, wish |-> "none"] \in Place
    BY DEF Place
  <2> QED
    BY <2>1
<1> HIDE DEF back
<1>6. LineOK'
  <2>1. Outside(in) \in Seq(Place)
    BY OutsideIs DEF Typed
  <2> QED
    BY <1>2, <1>5, <2>1 DEF LineOK
<1>7. OrderOK'
  BY OrderKeeps DEF ReplaceTeam, Typed
<1> QED
  BY <1>4, <1>6, <1>7 DEF ReplaceTeam, KeepsTyped, Typed, RestOK, matchVars

LEMMA ReorderTypes == ASSUME Typed, Reorder PROVE KeepsTyped
<1> DEFINE over == {e \in Entry : status[e] \in {"played", "playing"}}
           fixed == Only(order, over)
           movable == {e \in Entry \ over : status[e] # "none"}
<1>1. PICK p \in [1..Cardinality(movable) -> movable] :
           /\ \A e \in movable : \E i \in DOMAIN p : p[i] = e
           /\ order' = fixed \o p
  BY DEF Reorder
<1>2. IsFiniteSet(movable)
  <2>1. movable \subseteq Listed(order) /\ IsFiniteSet(Listed(order))
    BY OnceCounts DEF Typed, OrderOK
  <2> QED
    BY <2>1, FS_Subset
<1>3. fixed \in Seq(Entry) /\ Once(fixed) /\ Listed(fixed) = Listed(order) \cap over
  BY OnlyHolds DEF Typed, OrderOK
<1>4. \A e \in over : status[e] # "none"
  OBVIOUS
<1>5. over \subseteq Entry /\ movable \subseteq Entry /\ over \cap movable = {}
  OBVIOUS
<1>6. \A e \in Entry : status[e] # "none" <=> e \in over \cup movable
  OBVIOUS
<1> HIDE DEF fixed, movable, over
<1>7. p \in Seq(movable) /\ Listed(p) = movable /\ Once(p)
  BY <1>1, <1>2, Arranged
<1>8. p \in Seq(Entry)
  BY <1>5, <1>7
<1>9. Listed(fixed) = over
  BY <1>3, <1>4, <1>5 DEF Typed, OrderOK
<1>10. /\ order' \in Seq(Entry) /\ Once(order') /\ Listed(order') = over \cup movable
  BY <1>1, <1>3, <1>5, <1>7, <1>8, <1>9, JoinedLists
<1>11. OrderOK'
  BY <1>6, <1>10 DEF Reorder, OrderOK
<1> QED
  BY <1>11 DEF Reorder, KeepsTyped, Typed, LineOK, RestOK, lineVars, matchVars

LEMMA QueueTypes == ASSUME Typed, QueuePresses PROVE KeepsTyped
<1> USE DEF KeepsTyped, Typed, LineOK, RestOK, matchVars, lineVars, entryVars
<1>0. OrderOK /\ Len(order) \in Nat
  BY DEF OrderOK
<1>1. ASSUME NEW e \in Entry, NEW l \in Sheet, NEW b \in BOOLEAN, Add(e, l, b)
      PROVE  KeepsTyped
  <2> DEFINE k == IF b THEN FrontIndex ELSE Len(order)
  <2>1. k \in 0..Len(Only(order, Entry \ {})) /\ l \in SideSets
    BY <1>0, FrontIsWithin, AllAreOthers, SideSetsAre
  <2>2. Insert(e, k, l, FALSE, {}) /\ UNCHANGED <<lineOpen, setups, matchVars, aborted>>
    BY <1>1 DEF Add
  <2> HIDE DEF k
  <2> QED
    BY <2>1, <2>2, InsertTypes
<1>2. ASSUME NEW e \in Entry, NEW l \in Sheet, NEW b \in BOOLEAN, AddMany(e, l, b)
      PROVE  KeepsTyped
  <2> DEFINE dropped == IF b THEN {f \in Entry : status[f] \in {"queued", "skipped"}} ELSE {}
             k == Len(order) - Cardinality(dropped)
  <2>1. Insert(e, k, l, FALSE, dropped) /\ UNCHANGED <<lineOpen, setups, matchVars, aborted>>
    BY <1>2 DEF AddMany
  <2>2. dropped \subseteq {f \in Entry : status[f] # "none"}
    OBVIOUS
  <2> HIDE DEF dropped
  <2>3. k = Len(Only(order, Entry \ dropped))
    BY <1>0, <2>2, OthersAreLeft
  <2>4. Only(order, Entry \ dropped) \in Seq(Entry)
    BY <1>0, OnlyHolds DEF OrderOK
  <2>5. k \in 0..Len(Only(order, Entry \ dropped)) /\ l \in SideSets
    BY <2>3, <2>4, SideSetsAre
  <2> HIDE DEF k
  <2> QED
    BY <2>1, <2>5, InsertTypes
<1>3. ASSUME NEW e \in Entry, NEW l \in Sheet, Update(e, l) PROVE KeepsTyped
  BY <1>0, <1>3, OrderKeeps, SideSetsAre DEF Update
<1>4. ASSUME NEW e \in Entry, NEW shape \in Shape, NEW b \in BOOLEAN, FormFromLine(e, shape, b)
      PROVE  KeepsTyped
  <2>1. FrontIndex \in 0..Len(Only(order, Entry \ {})) /\ Formed(shape) \in SideSets
    BY <1>0, FrontIsWithin, AllAreOthers, FormedFits
  <2>2. /\ Insert(e, FrontIndex, Formed(shape), TRUE, {})
        /\ UNCHANGED <<lineOpen, setups, matchVars, aborted>>
    BY <1>4 DEF FormFromLine
  <2> QED
    BY <2>1, <2>2, InsertTypes
<1>5. ASSUME NEW e \in Entry, NEW t \in Team, ReplaceTeam(e, t) PROVE KeepsTyped
  BY <1>5, ReplaceTypes
<1>6. ASSUME NEW e \in Entry, Remove(e) PROVE KeepsTyped
  BY <1>6, DropTypes DEF Remove
<1>7. ASSUME NEW e \in Entry, Skip(e) PROVE KeepsTyped
  BY <1>0, <1>7, OrderKeeps DEF Skip, StatusOK
<1>8. ASSUME NEW e \in Entry, Requeue(e) PROVE KeepsTyped
  BY <1>0, <1>8, OrderKeeps DEF Requeue, StatusOK
<1>9. ASSUME NEW b \in BOOLEAN, Clear(b) PROVE KeepsTyped
  BY <1>9, DropTypes DEF Clear
<1>10. CASE Reorder
  BY <1>10, ReorderTypes
<1>11. CASE OpenLine
  BY <1>0, <1>11, OrderKeeps DEF OpenLine
<1> QED
  BY <1>1, <1>2, <1>3, <1>4, <1>5, <1>6, <1>7, <1>8, <1>9, <1>10, <1>11 DEF QueuePresses

LEMMA MovesTypes ==
  ASSUME LineOK, NEW t \in Team, NEW index \in 0..(Len(line) - 1), MoveInLine(t, index)
  PROVE  LineOK'
<1> DEFINE i == FirstPlace(t)
           rest == SubSeq(line, 1, i - 1) \o SubSeq(line, i + 1, Len(line))
           k == IF index < Len(rest) THEN index ELSE Len(rest)
<1>1. line' = SubSeq(rest, 1, k) \o <<line[i]>> \o SubSeq(rest, k + 1, Len(rest))
  BY DEF MoveInLine
<1>2. i \in 1..Len(line) /\ Len(line) \in Nat /\ line[i] \in Place
  <2> HIDE DEF rest, k
  <2>1. Places(t) # {}
    BY DEF MoveInLine
  <2>2. i \in 1..Len(line)
    BY <2>1, FirstPlaceIs
  <2> HIDE DEF i
  <2>3. line \in Seq(Place)
    BY DEF LineOK
  <2> QED
    BY <2>2, <2>3
<1> HIDE DEF i
<1>3. SubSeq(line, 1, i - 1) \in Seq(Place) /\ SubSeq(line, i + 1, Len(line)) \in Seq(Place)
  <2>1. i - 1 \in 0..Len(line) /\ i \in Nat /\ i - 1 <= i /\ line \in Seq(Place)
    BY <1>2 DEF LineOK
  <2> QED
    BY <2>1, Parts
<1>4. rest \in Seq(Place)
  BY <1>3
<1> HIDE DEF rest
<1>5. k \in 0..Len(rest)
  BY <1>4
<1> HIDE DEF k
<1>6. line' \in Seq(Place)
  BY <1>1, <1>2, <1>4, <1>5, PutIn
<1> QED
  BY <1>6 DEF LineOK

LEMMA LineTypes == ASSUME Typed, LinePresses PROVE KeepsTyped
<1>1. LineOK /\ LineChanges
  BY DEF Typed, LinePresses, JoinLine, LeaveLine, MoveInLine
<1>2. LineOK'
  <2> PICK t \in Team :
        \/ \E wish \in Wish \cup {"none"} : JoinLine(t, wish)
        \/ LeaveLine(t)
        \/ \E i \in 0..(Len(line) - 1) : MoveInLine(t, i)
    BY DEF LinePresses
  <2>1. ASSUME NEW wish \in Wish \cup {"none"}, JoinLine(t, wish) PROVE LineOK'
    <3>1. CASE Places(t) # {}
      <4> DEFINE i == FirstPlace(t)
      <4>1. i \in 1..Len(line) /\ line[i] \in Place
        BY <1>1, <3>1, FirstPlaceIs DEF LineOK
      <4>2. line' = [line EXCEPT ![i] = [line[i] EXCEPT !.wish = wish]]
        BY <1>1, <2>1, <3>1 DEF JoinLine, LineOK
      <4> HIDE DEF i
      <4>3. [line[i] EXCEPT !.wish = wish] \in Place
        BY <4>1 DEF Place
      <4> DEFINE l == [line[i] EXCEPT !.wish = wish]
      <4> HIDE DEF l
      <4>4. line' = [line EXCEPT ![i] = l] /\ l \in Place
        BY <4>2, <4>3 DEF l
      <4> QED
        BY <1>1, <4>1, <4>4 DEF LineOK
    <3>2. CASE Places(t) = {}
      <4>1. [team |-> t, wish |-> wish] \in Place
        BY DEF Place
      <4>2. line' = Append(line, [team |-> t, wish |-> wish])
        BY <2>1, <3>2 DEF JoinLine
      <4> QED
        BY <1>1, <4>1, <4>2 DEF LineOK
    <3> QED
      BY <3>1, <3>2
  <2>2. CASE LeaveLine(t)
    BY <1>1, <2>2, OutsideIs DEF LeaveLine, LineOK
  <2>3. ASSUME NEW i \in 0..(Len(line) - 1), MoveInLine(t, i) PROVE LineOK'
    BY <1>1, <2>3, MovesTypes
  <2> QED
    BY <2>1, <2>2, <2>3
<1>3. OrderOK' /\ RestOK'
  BY <1>1, OrderKeeps DEF LineChanges, entryVars, matchVars, Typed, RestOK
<1> QED
  BY <1>2, <1>3 DEF KeepsTyped

\* On deck comes only what is listed.
LEMMA MarkOnDeckLists ==
  ASSUME StatusOK, NEW e, MarkOnDeck(e)
  PROVE  \A f \in Entry : status'[f] = "none" <=> status[f] = "none"
<1>1. CASE status[e] \in {"none", "playing", "played"}
  BY <1>1 DEF MarkOnDeck
<1>2. CASE status[e] \notin {"none", "playing", "played"}
  BY <1>2 DEF MarkOnDeck, StatusOK
<1> QED
  BY <1>1, <1>2

LEMMA SetupsType == ASSUME Typed, Setups PROVE KeepsTyped
<1> USE DEF Typed, KeepsTyped, LineOK, RestOK, matchVars, lineVars, entryVars, Creates
<1>1. ASSUME NEW e \in Entry, CreateOnly(e) PROVE KeepsTyped
  BY <1>1, MarkOnDeckLists, OrderKeeps DEF CreateOnly
<1>2. ASSUME NEW e \in Entry, NEW b \in BOOLEAN, SetUp(e, b) PROVE KeepsTyped
  BY <1>2, OrderKeeps DEF SetUp
<1>3. ASSUME NEW p \in setups, SetUpGoesOn(p) PROVE KeepsTyped
  BY <1>3, MarkOnDeckLists, OrderKeeps DEF SetUpGoesOn
<1>4. ASSUME NEW p \in setups, SetUpFails(p) PROVE KeepsTyped
  BY <1>4, OrderKeeps DEF SetUpFails
<1> QED
  BY <1>1, <1>2, <1>3, <1>4 DEF Setups

LEMMA MatchTypes == ASSUME Typed, Match PROVE KeepsTyped
<1> USE DEF Typed, KeepsTyped, LineOK, RestOK, EngineStep, lineVars
<1>1. ASSUME NEW k \in Status \ {"none"}, NEW next \in Status \ {"none"}, Becomes(k, next)
      PROVE  \A f \in Entry : status'[f] = "none" <=> status[f] = "none"
  BY <1>1 DEF Becomes, IsFirst, StatusOK, Status
<1>2. \A f \in Entry : status'[f] = "none" <=> status[f] = "none"
  <2>1. CASE StartMatch
    BY <1>1, <2>1 DEF StartMatch, Status
  <2>2. CASE MatchEnds
    BY <1>1, <2>2 DEF MatchEnds, Status
  <2> QED
    BY <2>1, <2>2 DEF Match, CreateMatch, JoinsOrLeaves, CancelMatch, AbortCountdown, RobotsGo,
                      ClearMatch, Unnoticed
<1>3. UNCHANGED <<order, lists, fromLine, line, lineOpen, setups>>
  BY DEF Match, CreateMatch, JoinsOrLeaves, CancelMatch, StartMatch, AbortCountdown, RobotsGo,
         MatchEnds, ClearMatch, Unnoticed
<1>4. /\ phase' \in {"idle", "created", "countdown", "running", "over"}
      /\ joined' \in BOOLEAN
  BY DEF Match, CreateMatch, JoinsOrLeaves, CancelMatch, StartMatch, AbortCountdown, RobotsGo,
         MatchEnds, ClearMatch, M!CreateMatch, M!JoinsOrLeaves, M!CancelMatch, M!StartMatch,
         M!AbortCountdown, M!RobotsGo, M!MatchEnds, M!ClearMatch
<1>5. aborted' \in BOOLEAN
  BY DEF Match, CreateMatch, JoinsOrLeaves, CancelMatch, StartMatch, AbortCountdown, RobotsGo,
         MatchEnds, ClearMatch, Unnoticed
<1> QED
  BY <1>2, <1>3, <1>4, <1>5, OrderKeeps

LEMMA RestartTypes == ASSUME Typed, Restart PROVE KeepsTyped
<1>1. OrderOK'
  BY OrderKeeps DEF Restart, Typed, StatusOK
<1> QED
  BY <1>1 DEF Restart, M!Restart, Typed, KeepsTyped, LineOK, RestOK, lineVars

-----------------------------------------------------------------------------
\* An entry that plays does so while its match is on the field.

Follows == StatusOK /\ PlayingIsUnderWay

\* What every step does to an entry that plays or has played.
KeepsPlayed ==
  \A e \in Entry :
    /\ status[e] = "playing" => status'[e] \in {"playing", "played"}
    /\ status[e] = "played" => status'[e] \in {"played", "none"}

\* The queue's own presses neither start nor end an entry, nor touch the match,
\* nor put a second entry on deck.
Spares ==
  /\ StatusOK' /\ KeepsPlayed /\ (OneOnDeck => OneOnDeck')
  /\ \A e \in Entry : status[e] = "playing" <=> status'[e] = "playing"

LEMMA UnchangedSpares == ASSUME StatusOK, UNCHANGED status PROVE Spares
  BY DEF StatusOK, Spares, KeepsPlayed, OneOnDeck

\* An entry comes in as queued, at most in place of some queued and skipped.
LEMMA InsertSpares ==
  ASSUME StatusOK, NEW e \in Entry, NEW i, NEW l, NEW b, NEW dropped,
         Insert(e, i, l, b, dropped),
         \A f \in dropped \cap Entry : status[f] \in {"queued", "skipped"}
  PROVE  Spares
<1>1. /\ status' = [f \in Entry |-> IF f = e THEN "queued"
                                    ELSE IF f \in dropped THEN "none" ELSE status[f]]
      /\ status[e] = "none"
  BY DEF Insert
<1> QED  BY <1>1 DEF StatusOK, Status, Spares, KeepsPlayed, OneOnDeck

\* Whatever entry is taken away does not play.
LEMMA DropSpares ==
  ASSUME StatusOK, NEW S, Drop(S), \A e \in S \cap Entry : status[e] # "playing"
  PROVE  Spares
  BY DEF Drop, StatusOK, Status, Spares, KeepsPlayed, OneOnDeck

\* A setup may be late: the entry it puts on deck is looked at anew.
LEMMA MarkOnDeckSpares ==
  ASSUME StatusOK, NEW e, MarkOnDeck(e)
  PROVE  Spares
<1>1. CASE status[e] \in {"none", "playing", "played"}
  BY <1>1, UnchangedSpares DEF MarkOnDeck
<1>2. CASE status[e] \notin {"none", "playing", "played"}
  <2>1. status' = [f \in Entry |-> IF f = e THEN "onDeck"
                                   ELSE IF status[f] = "onDeck" THEN "queued" ELSE status[f]]
    BY <1>2 DEF MarkOnDeck
  <2> QED  BY <1>2, <2>1 DEF StatusOK, Status, Spares, KeepsPlayed, OneOnDeck
<1> QED  BY <1>1, <1>2

LEMMA QueueSpares ==
  ASSUME StatusOK, QueuePresses
  PROVE  Spares /\ UNCHANGED <<phase, aborted>>
<1> USE DEF matchVars, entryVars, lineVars
<1> DEFINE Goal == Spares /\ UNCHANGED <<phase, aborted>>
<1>0. \A f \in {} \cap Entry : status[f] \in {"queued", "skipped"}
  OBVIOUS
<1>1. ASSUME NEW e \in Entry, NEW l \in Sheet, NEW b \in BOOLEAN, Add(e, l, b)  PROVE Goal
  <2>1. PICK i : Insert(e, i, l, FALSE, {})
    BY <1>1 DEF Add
  <2>2. Spares
    BY <1>0, <2>1, InsertSpares
  <2> QED  BY <1>1, <2>2 DEF Add
<1>2. ASSUME NEW e \in Entry, NEW l \in Sheet, NEW b \in BOOLEAN, AddMany(e, l, b)  PROVE Goal
  <2> DEFINE dropped == IF b THEN {f \in Entry : status[f] \in {"queued", "skipped"}} ELSE {}
  <2>1. /\ Insert(e, Len(order) - Cardinality(dropped), l, FALSE, dropped)
        /\ UNCHANGED <<phase, aborted>>
    BY <1>2 DEF AddMany
  <2>2. \A f \in dropped \cap Entry : status[f] \in {"queued", "skipped"}
    OBVIOUS
  <2> HIDE DEF dropped
  <2> QED  BY <2>1, <2>2, InsertSpares
<1>3. ASSUME NEW e \in Entry, NEW l \in Sheet, Update(e, l)  PROVE Goal
  BY <1>3, UnchangedSpares DEF Update
<1>4. ASSUME NEW e \in Entry, NEW shape \in Shape, NEW b \in BOOLEAN, FormFromLine(e, shape, b)
      PROVE Goal
  <2>1. Insert(e, FrontIndex, Formed(shape), TRUE, {}) /\ UNCHANGED <<phase, aborted>>
    BY <1>4 DEF FormFromLine
  <2>2. Spares
    BY <1>0, <2>1, InsertSpares
  <2> QED  BY <2>1, <2>2
<1>5. ASSUME NEW e \in Entry, NEW t \in Team, ReplaceTeam(e, t)  PROVE Goal
  BY <1>5, UnchangedSpares DEF ReplaceTeam
<1>6. ASSUME NEW e \in Entry, Remove(e)  PROVE Goal
  <2>1. Drop({e}) /\ status[e] # "playing"
    BY <1>6 DEF Remove
  <2>2. \A f \in {e} \cap Entry : status[f] # "playing"
    BY <2>1
  <2> QED  BY <2>1, <2>2, DropSpares DEF Drop
<1>7. ASSUME NEW e \in Entry, Skip(e)  PROVE Goal
  BY <1>7 DEF Skip, StatusOK, Status, Spares, KeepsPlayed, OneOnDeck
<1>8. ASSUME NEW e \in Entry, Requeue(e)  PROVE Goal
  BY <1>8 DEF Requeue, StatusOK, Status, Spares, KeepsPlayed, OneOnDeck
<1>9. ASSUME NEW b \in BOOLEAN, Clear(b)  PROVE Goal
  <2> DEFINE S == {e \in Entry : IF b THEN status[e] \in {"played", "skipped"}
                                 ELSE status[e] # "playing"}
  <2>1. Drop(S)
    BY <1>9 DEF Clear
  <2>2. \A e \in S \cap Entry : status[e] # "playing"
    OBVIOUS
  <2> HIDE DEF S
  <2> QED  BY <2>1, <2>2, DropSpares DEF Drop
<1>10. CASE Reorder
  BY <1>10, UnchangedSpares DEF Reorder
<1>11. CASE OpenLine
  BY <1>11, UnchangedSpares DEF OpenLine
<1> QED
  BY <1>1, <1>2, <1>3, <1>4, <1>5, <1>6, <1>7, <1>8, <1>9, <1>10, <1>11 DEF QueuePresses

LEMMA LineSpares ==
  ASSUME StatusOK, LinePresses
  PROVE  Spares /\ UNCHANGED <<phase, aborted>>
<1>1. UNCHANGED <<status, phase, aborted>>
  BY DEF LinePresses, JoinLine, LeaveLine, MoveInLine, LineChanges, entryVars, matchVars
<1> QED  BY <1>1, UnchangedSpares

\* A setup creates a match at most where none is under way.
LEMMA SetupsSpare ==
  ASSUME StatusOK, Setups
  PROVE  Spares /\ aborted' = aborted /\ (M!Active => phase' = phase)
<1> USE DEF matchVars, entryVars, lineVars
<1> DEFINE Goal == Spares /\ aborted' = aborted /\ (M!Active => phase' = phase)
<1>0. Creates => ~M!Active
  BY DEF Creates, M!Active
<1>1. ASSUME NEW e \in Entry, CreateOnly(e)  PROVE Goal
  BY <1>0, <1>1, MarkOnDeckSpares DEF CreateOnly
<1>2. ASSUME NEW e \in Entry, NEW b \in BOOLEAN, SetUp(e, b)  PROVE Goal
  BY <1>2, UnchangedSpares DEF SetUp
<1>3. ASSUME NEW p \in setups, SetUpGoesOn(p)  PROVE Goal
  BY <1>0, <1>3, MarkOnDeckSpares DEF SetUpGoesOn
<1>4. ASSUME NEW p \in setups, SetUpFails(p)  PROVE Goal
  BY <1>4, UnchangedSpares DEF SetUpFails
<1> QED  BY <1>1, <1>2, <1>3, <1>4 DEF Setups

\* What neither starts nor ends an entry keeps the invariant, as long as it
\* leaves a match that is under way alone.
LEMMA SparingKeeps ==
  ASSUME Follows, Spares, aborted' = aborted, M!Active => phase' = phase
  PROVE  Follows' /\ KeepsPlayed
<1>1. \A e \in Entry : status'[e] = "playing" <=> status[e] = "playing"
  BY DEF Spares
<1>2. M!Active => M!Active'
  BY DEF M!Active
<1>3. OneOnDeck'
  BY DEF Follows, PlayingIsUnderWay, Spares
<1>4. PlayingIsUnderWay'
  BY <1>1, <1>2, <1>3 DEF Follows, PlayingIsUnderWay
<1> QED  BY <1>4 DEF Follows, Spares

-----------------------------------------------------------------------------
\* The match starts an entry, or ends it.

LEMMA StartKeeps == ASSUME Follows, StartMatch PROVE Follows' /\ KeepsPlayed
<1>1. phase = "created" /\ phase' = "countdown" /\ aborted' = aborted
  BY DEF StartMatch, M!StartMatch
<1>2. ~aborted => \A e \in Entry : status[e] # "playing"
  BY <1>1 DEF Follows, PlayingIsUnderWay, M!Active
<1>3. CASE UNCHANGED status
  BY <1>1, <1>2, <1>3 DEF Follows, StatusOK, KeepsPlayed, PlayingIsUnderWay, OneOnDeck
<1>4. ASSUME NEW e \in Entry, IsFirst(e, "onDeck"), status' = [status EXCEPT ![e] = "playing"]
      PROVE  Follows' /\ KeepsPlayed
  <2>1. status[e] = "onDeck"
    BY <1>4 DEF IsFirst
  <2>2. StatusOK' /\ KeepsPlayed
    BY <1>4, <2>1 DEF Follows, StatusOK, Status, KeepsPlayed
  <2>3. \A f \in Entry : status'[f] = "playing" => f = e \/ status[f] = "playing"
    BY <1>4 DEF Follows, StatusOK
  <2>4. OneOnDeck'
    BY <1>4 DEF Follows, StatusOK, PlayingIsUnderWay, OneOnDeck
  <2>5. PlayingIsUnderWay'
    BY <1>1, <1>2, <2>3, <2>4 DEF PlayingIsUnderWay, M!Active
  <2> QED  BY <2>2, <2>5 DEF Follows
<1> QED  BY <1>3, <1>4 DEF StartMatch, Becomes

LEMMA EndKeeps == ASSUME Follows, MatchEnds PROVE Follows' /\ KeepsPlayed
<1>1. M!Active /\ aborted' = aborted
  BY DEF MatchEnds, M!MatchEnds
<1>2. CASE (\A e \in Entry : status[e] # "playing") /\ UNCHANGED status
  BY <1>1, <1>2 DEF Follows, StatusOK, KeepsPlayed, PlayingIsUnderWay, OneOnDeck
<1>3. ASSUME NEW e \in Entry, IsFirst(e, "playing"), status' = [status EXCEPT ![e] = "played"]
      PROVE  Follows' /\ KeepsPlayed
  <2>1. status[e] = "playing"
    BY <1>3 DEF IsFirst
  <2>2. StatusOK' /\ KeepsPlayed
    BY <1>3, <2>1 DEF Follows, StatusOK, Status, KeepsPlayed
  <2>3. \A f \in Entry : status'[f] = "playing" => f # e /\ status[f] = "playing"
    BY <1>3 DEF Follows, StatusOK, Status
  <2>4. OneOnDeck'
    BY <1>3 DEF Follows, StatusOK, PlayingIsUnderWay, OneOnDeck
  <2>5. PlayingIsUnderWay'
    BY <1>1, <2>1, <2>3, <2>4 DEF Follows, PlayingIsUnderWay
  <2> QED  BY <2>2, <2>5 DEF Follows
<1> QED  BY <1>2, <1>3 DEF MatchEnds, Becomes

LEMMA MatchKeeps == ASSUME Follows, Match PROVE Follows' /\ KeepsPlayed
<1> USE DEF Follows
<1>1. CASE UNCHANGED <<status, aborted>> /\ (M!Active => M!Active')
  BY <1>1 DEF StatusOK, KeepsPlayed, PlayingIsUnderWay, OneOnDeck
<1>2. CASE CreateMatch \/ JoinsOrLeaves \/ CancelMatch \/ RobotsGo \/ ClearMatch
  <2>1. UNCHANGED <<status, aborted>>
    BY <1>2 DEF CreateMatch, JoinsOrLeaves, CancelMatch, RobotsGo, ClearMatch, Unnoticed
  <2>2. M!Active => M!Active'
    BY <1>2 DEF CreateMatch, JoinsOrLeaves, CancelMatch, RobotsGo, ClearMatch, M!CreateMatch,
                M!JoinsOrLeaves, M!CancelMatch, M!RobotsGo, M!ClearMatch, M!Active
  <2> QED
    BY <1>1, <2>1, <2>2
<1>3. CASE AbortCountdown
  <2>1. UNCHANGED status /\ aborted' = (aborted \/ \E e \in Entry : status[e] = "playing")
    BY <1>3 DEF AbortCountdown
  <2> QED  BY <2>1 DEF StatusOK, KeepsPlayed, PlayingIsUnderWay, OneOnDeck
<1> QED  BY <1>2, <1>3, StartKeeps, EndKeeps DEF Match

LEMMA RestartKeeps == ASSUME Follows, Restart PROVE Follows' /\ KeepsPlayed
<1>1. status' = [e \in Entry |-> IF status[e] = "playing" THEN "played" ELSE status[e]]
  BY DEF Restart
<1> QED  BY <1>1 DEF Follows, StatusOK, Status, KeepsPlayed, PlayingIsUnderWay, OneOnDeck

LEMMA StepKeeps == ASSUME Follows, [Next]_vars PROVE Follows' /\ KeepsPlayed
<1>0. StatusOK
  BY DEF Follows
<1>1. CASE QueuePresses
  BY <1>0, <1>1, QueueSpares, SparingKeeps
<1>2. CASE LinePresses
  BY <1>0, <1>2, LineSpares, SparingKeeps
<1>3. CASE Setups
  BY <1>0, <1>3, SetupsSpare, SparingKeeps
<1>4. CASE Match
  BY <1>4, MatchKeeps
<1>5. CASE Restart
  BY <1>5, RestartKeeps
<1>6. CASE UNCHANGED vars
  BY <1>0, <1>6, UnchangedSpares, SparingKeeps DEF vars, entryVars, matchVars
<1> QED  BY <1>1, <1>2, <1>3, <1>4, <1>5, <1>6 DEF Next

\* The queue, the line and the match keep to their values.
LEMMA StepTypes == ASSUME Typed, [Next]_vars, StatusOK' PROVE Typed'
<1>1. CASE QueuePresses
  BY <1>1, QueueTypes DEF Typed, KeepsTyped
<1>2. CASE LinePresses
  BY <1>2, LineTypes DEF Typed, KeepsTyped
<1>3. CASE Setups
  BY <1>3, SetupsType DEF Typed, KeepsTyped
<1>4. CASE Match
  BY <1>4, MatchTypes DEF Typed, KeepsTyped
<1>5. CASE Restart
  BY <1>5, RestartTypes DEF Typed, KeepsTyped
<1>6. CASE UNCHANGED vars
  BY <1>6, OrderKeeps DEF Typed, LineOK, RestOK, vars, entryVars, lineVars, matchVars
<1> QED  BY <1>1, <1>2, <1>3, <1>4, <1>5, <1>6 DEF Next

IInv == Typed /\ PlayingIsUnderWay

LEMMA QueueInvariant == Spec => []IInv
<1>1. Init => IInv
  <2> SUFFICES ASSUME Init PROVE IInv
    OBVIOUS
  <2>1. order = <<>> /\ line = <<>>
    BY DEF Init
  <2>2. order \in Seq(Entry) /\ Once(order) /\ Listed(order) = {} /\ line \in Seq(Place)
    BY <2>1 DEF Once, Listed
  <2> QED
    BY <2>2, SideSetsAre DEF Init, M!Init, IInv, Typed, StatusOK, Status, OrderOK, LineOK, RestOK,
                             PlayingIsUnderWay, OneOnDeck
<1>2. IInv /\ [Next]_vars => IInv'
  <2> SUFFICES ASSUME IInv, [Next]_vars PROVE IInv'
    OBVIOUS
  <2>1. Follows
    BY DEF IInv, Typed, Follows
  <2>2. Follows'
    BY <2>1, StepKeeps
  <2>3. Typed'
    BY <2>2, StepTypes DEF IInv, Follows
  <2> QED
    BY <2>2, <2>3 DEF IInv, Follows
<1> QED  BY <1>1, <1>2, PTL DEF Spec

LEMMA InvariantFollows == IInv => Follows
  BY DEF IInv, Typed, Follows

-----------------------------------------------------------------------------
(* Every variable keeps to its values, and the queue lists exactly the     *)
(* entries that have a status, each of them once, whatever is dropped,     *)
(* put in front or rearranged (add(), addMany(), clear(), reorder()).      *)
THEOREM TypeCorrect == Spec => [](TypeOK /\ Once(order))
<1>1. IInv => TypeOK /\ Once(order)
  BY TypedIs DEF IInv
<1> QED  BY <1>1, QueueInvariant, PTL

(* A match formed from the line fits its shape, is short only when the     *)
(* line is, leaves nobody else out of the line, and lets a team overtake   *)
(* one that stays only by its wish (formFromLine()), however long the line *)
(* is and whatever the shape.                                              *)
THEOREM LineIsFair == Spec => FormedFairly
<1>1. IInv => LineOK
  BY DEF IInv, Typed
<1> DEFINE Fairly == \A e \in Entry, shape \in Shape, allowShort \in BOOLEAN :
                        FormFromLine(e, shape, allowShort) => Fair(e, shape)
<1>2. LineOK => Fairly
  BY FormingIsFair
<1>3. FormedFairly <=> [][Fairly]_vars
  BY DEF FormedFairly, Fair
<1> HIDE DEF Fairly
<1>4. IInv => [Fairly]_vars
  BY <1>1, <1>2
<1> QED  BY <1>3, <1>4, QueueInvariant, PTL

(* One entry plays at a time, and only while its match is on the field,    *)
(* unless a countdown was aborted: the queue follows the engine's phases   *)
(* alone, so this rests on no press and no setup starting or ending one.   *)
(* At most one entry is on deck, through setups that end in any order:     *)
(* markOnDeck() sends back the one that was, and nothing else adds one.    *)
THEOREM PlayingAlwaysUnderWay == Spec => []PlayingIsUnderWay
<1>1. IInv => PlayingIsUnderWay
  BY DEF IInv
<1> QED  BY <1>1, QueueInvariant, PTL

(* What plays or has played does not come back into the queue: a setup     *)
(* that waited for the radio looks at its entry anew (markOnDeck()).       *)
THEOREM PlayedForGood == Spec => PlayedStaysPlayed
<1>1. IInv /\ [Next]_vars => [KeepsPlayed]_vars
  BY InvariantFollows, StepKeeps
<1> QED  BY <1>1, QueueInvariant, PTL DEF Spec, PlayedStaysPlayed, KeepsPlayed
=============================================================================
