-------------------------- MODULE StopDeliveryProofs --------------------------
(***************************************************************************)
(* What holds of StopDelivery for any stops and any bounds.  A press that   *)
(* nothing at hand showed done is kept because no state on its way can show *)
(* it done before the field has it: states arrive in the order they were    *)
(* sent in, and each socket starts anew.                                    *)
(***************************************************************************)
EXTENDS StopDelivery, FiniteSetTheorems, SequenceTheorems, TLAPS

PageType ==
  /\ stage \in [Press -> Waiting \cup {"none", "dropped"}]
  /\ retried \subseteq Press /\ view \subseteq Press
  /\ presses \in 0..MaxPresses /\ owed \subseteq Press /\ plain \subseteq Press

WireType ==
  /\ open \in BOOLEAN /\ alive \in BOOLEAN /\ (alive => open)
  /\ toField \in Seq(Press) /\ toPage \in Seq(SUBSET Press) /\ strays \subseteq Press
  /\ (~alive => toField = <<>> /\ toPage = <<>>)
  /\ troubles \in 0..MaxTroubles /\ latched \subseteq Press

LEMMA TypeParts == TypeOK <=> PageType /\ WireType
BY DEF TypeOK, PageType, WireType

LEMMA TypePartsAfter == PageType' /\ WireType' => TypeOK'
BY DEF TypeOK, PageType, WireType

\* Nothing the page will hear shows a press that it has to keep.
Unseen == \A k \in owed \cap plain : \A state \in ToSet(toPage) : k \notin state

IInv ==
  /\ TypeOK
  /\ owed \cap latched = {}
  /\ Unseen
  /\ KeptOnPage

-----------------------------------------------------------------------------
\* What sequences carry.
LEMMA Carries ==
  ASSUME NEW S, NEW q \in Seq(S)
  PROVE  /\ ToSet(q) \subseteq S
         /\ \A e \in S : Append(q, e) \in Seq(S) /\ ToSet(Append(q, e)) = ToSet(q) \cup {e}
         /\ q # <<>> => /\ Head(q) \in S /\ Head(q) \in ToSet(q)
                        /\ Tail(q) \in Seq(S) /\ ToSet(Tail(q)) \subseteq ToSet(q)
<1>1. Len(q) \in Nat /\ DOMAIN q = 1..Len(q) /\ \A i \in 1..Len(q) : q[i] \in S
  BY LenProperties, ElementOfSeq
<1>2. ToSet(q) \subseteq S
  BY <1>1 DEF ToSet
<1>3. ASSUME NEW e \in S PROVE Append(q, e) \in Seq(S) /\ ToSet(Append(q, e)) = ToSet(q) \cup {e}
  <2>1. /\ Append(q, e) \in Seq(S) /\ Len(Append(q, e)) = Len(q) + 1
        /\ \A i \in 1..Len(q) : Append(q, e)[i] = q[i]
        /\ Append(q, e)[Len(q) + 1] = e
    BY AppendProperties
  <2>2. DOMAIN Append(q, e) = 1..Len(q) + 1
    BY <2>1, LenProperties
  <2>3. 1..Len(q) + 1 = 1..Len(q) \cup {Len(q) + 1}
    BY <1>1
  <2> QED
    BY <1>1, <2>1, <2>2, <2>3 DEF ToSet
<1>4. ASSUME q # <<>>
      PROVE  Head(q) \in S /\ Head(q) \in ToSet(q) /\ Tail(q) \in Seq(S) /\ ToSet(Tail(q)) \subseteq ToSet(q)
  <2>1. /\ Head(q) \in S /\ Tail(q) \in Seq(S) /\ Len(Tail(q)) = Len(q) - 1
        /\ \A i \in 1..Len(Tail(q)) : Tail(q)[i] = q[i + 1]
    BY <1>4, HeadTailProperties
  <2>2. Len(q) \in Nat \ {0} /\ Head(q) = q[1]
    BY <1>4, EmptySeq
  <2>3. DOMAIN Tail(q) = 1..Len(q) - 1
    BY <2>1, LenProperties
  <2>4. 1 \in DOMAIN q /\ \A i \in DOMAIN Tail(q) : i + 1 \in DOMAIN q /\ Tail(q)[i] = q[i + 1]
    BY <1>1, <2>1, <2>2, <2>3
  <2> QED
    BY <2>1, <2>2, <2>4 DEF ToSet
<1> QED
  BY <1>2, <1>3, <1>4

LEMMA EmptyCarries == ToSet(<<>>) = {}
BY DEF ToSet

LEMMA OneCarries == \A e : ToSet(<<e>>) = {e}
BY DEF ToSet

LEMMA InSomeOrder ==
  ASSUME NEW S, IsFiniteSet(S)
  PROVE  SetToSeq(S) \in Seq(S)
<1>1. Cardinality(S) \in Nat /\ ExistsBijection(1..Cardinality(S), S)
  BY FS_CardinalityType
<1>2. \E f \in [1..Cardinality(S) -> S] : IsInjective(f)
  BY <1>1 DEF ExistsBijection, Bijection, Injection
<1>3. SetToSeq(S) \in [1..Cardinality(S) -> S]
  BY <1>2 DEF SetToSeq
<1> QED
  BY <1>1, <1>3

-----------------------------------------------------------------------------
\* The page's own steps that take nothing off its list.
LEMMA Presses == ASSUME IInv, NEW k \in Press, PressStop(k) PROVE IInv'
<1>1. PageType /\ WireType
  BY TypeParts DEF IInv
<1>2. /\ retried' = retried \ {k}
      /\ stage' = [stage EXCEPT ![k] = IF ~open THEN "queued" ELSE IF Shown(k) THEN "none" ELSE "sent"]
      /\ toField' = IF alive THEN Append(toField, k) ELSE toField
      /\ owed' = owed \cup ({k} \ latched)
      /\ UNCHANGED <<view, open, alive, toPage, strays, latched, troubles>>
  BY DEF PressStop
<1>3. plain' \in {plain \ {k}, plain \cup {k}}
      /\ (k \in plain' => k \notin view /\ \A state \in ToSet(toPage) : k \notin state)
  BY DEF PressStop
<1>4. presses' \in 0..MaxPresses
  BY <1>1, BoundAssumption DEF PageType, PressStop
<1>5. PageType'
  BY <1>1, <1>2, <1>3, <1>4 DEF PageType, Waiting
<1>6. WireType'
  <2>1. Append(toField, k) \in Seq(Press)
    BY <1>1, Carries DEF WireType
  <2> QED
    BY <1>1, <1>2, <2>1 DEF WireType
<1>7. owed' \cap latched' = {}
  BY <1>2 DEF IInv
<1>8. Unseen'
  BY <1>2, <1>3 DEF IInv, Unseen
<1>9. KeptOnPage'
  <2> SUFFICES ASSUME NEW j \in owed' \cap plain' PROVE stage'[j] \in Waiting
    BY DEF KeptOnPage
  <2>1. CASE j = k
    BY <1>1, <1>2, <1>3, <2>1 DEF PageType, Shown, Waiting
  <2>2. CASE j # k
    <3>1. j \in owed \cap plain /\ stage'[j] = stage[j]
      BY <1>1, <1>2, <1>3, <2>2 DEF PageType
    <3> QED
      BY <3>1 DEF IInv, KeptOnPage
  <2> QED
    BY <2>1, <2>2
<1> QED
  BY <1>5, <1>6, <1>7, <1>8, <1>9, TypePartsAfter DEF IInv

\* A state that arrives ends only the presses it shows.
LEMMA Hears == IInv /\ PageHears => IInv'
<1> SUFFICES ASSUME IInv, PageHears PROVE IInv'
  OBVIOUS
<1>1. PageType /\ WireType
  BY TypeParts DEF IInv
<1>2. /\ toPage # <<>> /\ view' = Head(toPage) /\ toPage' = Tail(toPage)
      /\ stage' = [k \in Press |-> IF k \in view' THEN "none" ELSE stage[k]]
      /\ UNCHANGED <<retried, open, alive, toField, strays, latched, presses, troubles, owed, plain>>
  BY DEF PageHears
<1>3. /\ Head(toPage) \in SUBSET Press /\ Head(toPage) \in ToSet(toPage)
      /\ Tail(toPage) \in Seq(SUBSET Press) /\ ToSet(Tail(toPage)) \subseteq ToSet(toPage)
  BY <1>1, <1>2, Carries DEF WireType
<1>4. PageType'
  BY <1>1, <1>2, <1>3 DEF PageType
<1>5. WireType'
  BY <1>1, <1>2, <1>3 DEF WireType
<1>6. Unseen' /\ owed' \cap latched' = {}
  BY <1>2, <1>3 DEF IInv, Unseen
<1>7. KeptOnPage'
  BY <1>1, <1>2, <1>3 DEF IInv, Unseen, KeptOnPage, PageType
<1> QED
  BY <1>4, <1>5, <1>6, <1>7, TypePartsAfter DEF IInv

-----------------------------------------------------------------------------
\* A socket that is given up takes nothing off the list.
GivesUp ==
  /\ stage' = Requeued /\ open' \in BOOLEAN /\ alive' = FALSE /\ Drains
  /\ retried' \subseteq Press /\ troubles' \in 0..MaxTroubles
  /\ UNCHANGED <<view, latched, presses, owed, plain>>

LEMMA GivingUp == IInv /\ GivesUp => IInv'
<1> SUFFICES ASSUME IInv, GivesUp PROVE IInv'
  OBVIOUS
<1>1. PageType /\ WireType
  BY TypeParts DEF IInv
<1>2. /\ stage' = Requeued /\ open' \in BOOLEAN /\ alive' = FALSE
      /\ toField' = <<>> /\ toPage' = <<>> /\ strays' = strays \cup ToSet(toField)
      /\ retried' \subseteq Press /\ troubles' \in 0..MaxTroubles
      /\ UNCHANGED <<view, latched, presses, owed, plain>>
  BY DEF GivesUp, Drains
<1>3. PageType'
  BY <1>1, <1>2 DEF PageType, Requeued, Waiting
<1>4. WireType'
  <2>1. ToSet(toField) \subseteq Press /\ <<>> \in Seq(Press) /\ <<>> \in Seq(SUBSET Press)
    BY <1>1, Carries DEF WireType
  <2> QED
    BY <1>1, <1>2, <2>1 DEF WireType
<1>5. Unseen' /\ owed' \cap latched' = {}
  BY <1>2, EmptyCarries DEF IInv, Unseen
<1>6. KeptOnPage'
  BY <1>1, <1>2 DEF IInv, KeptOnPage, Requeued, PageType, Waiting
<1> QED
  BY <1>3, <1>4, <1>5, <1>6, TypePartsAfter DEF IInv

\* The socket's steps.
LEMMA SocketSteps ==
  ASSUME IInv, SocketOpens \/ SocketBreaks \/ Watchdog \/ HalfDies
  PROVE  IInv'
<1>1. PageType /\ WireType
  BY TypeParts DEF IInv
<1>2. CASE SocketOpens
  <2>1. /\ open' = TRUE /\ alive' = TRUE
        /\ stage' = [k \in Press |-> IF k \in Resent THEN "sent" ELSE stage[k]]
        /\ toField' = SetToSeq(Resent) /\ toPage' = <<latched>>
        /\ UNCHANGED <<retried, view, strays, latched, presses, troubles, owed, plain>>
    BY <1>2 DEF SocketOpens
  <2>2. PageType'
    BY <1>1, <2>1 DEF PageType, Waiting
  <2>3. WireType'
    <3>1. SetToSeq(Resent) \in Seq(Press)
      <4>1. Resent \subseteq Press /\ IsFiniteSet(Resent)
        BY PressAssumption, FS_Subset DEF Resent
      <4>2. SetToSeq(Resent) \in Seq(Resent)
        BY <4>1, InSomeOrder
      <4> QED
        BY <4>1, <4>2, SeqMonotonic
    <3>2. <<latched>> \in Seq(SUBSET Press)
      BY <1>1 DEF WireType
    <3> QED
      BY <1>1, <2>1, <3>1, <3>2 DEF WireType
  <2>4. Unseen' /\ owed' \cap latched' = {}
    BY <2>1, OneCarries DEF IInv, Unseen
  <2>5. KeptOnPage'
    BY <1>1, <2>1 DEF IInv, KeptOnPage, PageType, Waiting
  <2> QED
    BY <2>2, <2>3, <2>4, <2>5, TypePartsAfter DEF IInv
<1>3. CASE SocketBreaks \/ Watchdog
  <2>1. GivesUp
    <3>1. CASE SocketBreaks
      <4>1. troubles' \in 0..MaxTroubles
        BY <1>1, <3>1, BoundAssumption DEF SocketBreaks, WireType
      <4> QED
        BY <1>1, <3>1, <4>1 DEF SocketBreaks, Reconnect, GivesUp, PageType
    <3>2. CASE Watchdog
      <4>1. troubles' \in 0..MaxTroubles
        BY <1>1, <3>2 DEF Watchdog, WireType
      <4> QED
        BY <1>1, <3>2, <4>1 DEF Watchdog, Reconnect, GivesUp, PageType
    <3> QED
      BY <1>3, <3>1, <3>2
  <2> QED
    BY <2>1, GivingUp
<1>4. CASE HalfDies
  <2>1. /\ alive' = FALSE /\ toField' = <<>> /\ toPage' = <<>>
        /\ strays' = strays \cup ToSet(toField)
        /\ UNCHANGED <<stage, retried, view, open, latched, presses, owed, plain>>
    BY <1>4 DEF HalfDies, Drains, pageVars
  <2>2. troubles' \in 0..MaxTroubles
    BY <1>1, <1>4, BoundAssumption DEF HalfDies, WireType
  <2>3. PageType'
    BY <1>1, <2>1 DEF PageType
  <2>4. WireType'
    <3>1. ToSet(toField) \subseteq Press /\ <<>> \in Seq(Press) /\ <<>> \in Seq(SUBSET Press)
      BY <1>1, Carries DEF WireType
    <3> QED
      BY <1>1, <2>1, <2>2, <3>1 DEF WireType
  <2>5. Unseen' /\ owed' \cap latched' = {} /\ KeptOnPage'
    BY <2>1, EmptyCarries DEF IInv, Unseen, KeptOnPage
  <2> QED
    BY <2>3, <2>4, <2>5, TypePartsAfter DEF IInv
<1> QED
  BY <1>2, <1>3, <1>4

\* A press that is not confirmed in time, given up on, or dismissed.
LEMMA Reviews ==
  ASSUME IInv, NEW k \in Press, Unconfirmed(k) \/ Drop(k) \/ Dismiss(k)
  PROVE  IInv'
<1>1. PageType /\ WireType
  BY TypeParts DEF IInv
<1>2. CASE Unconfirmed(k)
  <2>1. CASE k \notin retried /\ open
    <3>1. GivesUp
      BY <1>1, <1>2, <2>1 DEF Unconfirmed, Reconnect, GivesUp, PageType, WireType
    <3> QED
      BY <3>1, GivingUp
  <2>2. CASE ~(k \notin retried /\ open)
    <3>1. /\ stage' = [stage EXCEPT ![k] = "unconfirmed"]
          /\ UNCHANGED <<retried, wireVars, view, latched, presses, troubles, owed, plain>>
      BY <1>2, <2>2 DEF Unconfirmed
    <3>2. PageType' /\ WireType'
      BY <1>1, <3>1 DEF PageType, WireType, wireVars, Waiting
    <3>3. Unseen' /\ owed' \cap latched' = {} /\ KeptOnPage'
      BY <1>1, <3>1 DEF IInv, Unseen, KeptOnPage, PageType, wireVars, Waiting
    <3> QED
      BY <3>2, <3>3, TypePartsAfter DEF IInv
  <2> QED
    BY <2>1, <2>2
<1>3. CASE Drop(k) \/ Dismiss(k)
  <2>1. /\ stage' \in {[stage EXCEPT ![k] = "dropped"], [stage EXCEPT ![k] = "none"]}
        /\ owed' \subseteq owed /\ (k \notin owed' \/ stage[k] = "dropped")
        /\ UNCHANGED <<retried, view, wireVars, latched, presses, troubles, plain>>
    BY <1>3 DEF Drop, Dismiss
  <2>2. PageType' /\ WireType'
    BY <1>1, <2>1 DEF PageType, WireType, wireVars
  <2>3. Unseen' /\ owed' \cap latched' = {}
    BY <2>1 DEF IInv, Unseen, wireVars
  <2>4. KeptOnPage'
    BY <1>1, <2>1 DEF IInv, KeptOnPage, PageType, Waiting
  <2> QED
    BY <2>2, <2>3, <2>4, TypePartsAfter DEF IInv
<1> QED
  BY <1>2, <1>3

-----------------------------------------------------------------------------
\* What the field has now is owed no more, and is on its way if anything is.
LEMMA FieldSends ==
  ASSUME IInv, NEW stops \in SUBSET Press, FieldIs(stops),
         UNCHANGED <<pageVars, open, alive, presses, troubles, plain>>,
         toField' \in Seq(Press), alive \/ toField' = <<>>, strays' \subseteq Press
  PROVE  IInv'
<1>1. PageType /\ WireType
  BY TypeParts DEF IInv
<1>2. /\ latched' = stops /\ owed' = owed \ stops
      /\ toPage' = IF alive THEN Append(toPage, stops) ELSE toPage
      /\ UNCHANGED <<stage, retried, view, open, alive, presses, troubles, plain>>
  BY DEF FieldIs, pageVars
<1>3. Append(toPage, stops) \in Seq(SUBSET Press) /\ ToSet(Append(toPage, stops)) = ToSet(toPage) \cup {stops}
  BY <1>1, Carries DEF WireType
<1>4. PageType'
  BY <1>1, <1>2 DEF PageType
<1>5. WireType'
  BY <1>1, <1>2, <1>3 DEF WireType
<1>6. Unseen' /\ owed' \cap latched' = {} /\ KeptOnPage'
  BY <1>2, <1>3 DEF IInv, Unseen, KeptOnPage
<1> QED
  BY <1>4, <1>5, <1>6, TypePartsAfter DEF IInv

\* A press that is refused, or lost, leaves the socket and changes nothing.
LEMMA FieldIgnores ==
  ASSUME IInv, UNCHANGED <<pageVars, open, alive, presses, troubles, plain, latched, owed, toPage>>,
         toField' \in Seq(Press), alive \/ toField' = <<>>, strays' \subseteq Press
  PROVE  IInv'
<1>1. PageType /\ WireType
  BY TypeParts DEF IInv
<1>2. PageType' /\ WireType'
  BY <1>1 DEF PageType, WireType, pageVars
<1>3. Unseen' /\ owed' \cap latched' = {} /\ KeptOnPage'
  BY DEF IInv, Unseen, KeptOnPage, pageVars
<1> QED
  BY <1>2, <1>3, TypePartsAfter DEF IInv

LEMMA FieldSteps ==
  ASSUME IInv, FieldTakes \/ \E k \in Press : StrayEnds(k) \/ OthersChange(k)
  PROVE  IInv'
<1>1. WireType
  BY TypeParts DEF IInv
<1>2. CASE FieldTakes
  <2>1. Head(toField) \in Press /\ Tail(toField) \in Seq(Press) /\ toField' = Tail(toField) /\ alive
    BY <1>1, <1>2, Carries DEF FieldTakes, WireType
  <2>2. latched \cup {Head(toField)} \in SUBSET Press /\ strays' \subseteq Press
    BY <1>1, <1>2, <2>1 DEF WireType, FieldTakes
  <2>3. CASE FieldIs(latched \cup {Head(toField)})
    BY <1>2, <2>1, <2>2, <2>3, FieldSends DEF FieldTakes
  <2>4. CASE UNCHANGED <<latched, owed, toPage>>
    BY <1>2, <2>1, <2>2, <2>4, FieldIgnores DEF FieldTakes
  <2> QED
    BY <1>2, <2>3, <2>4 DEF FieldTakes
<1>3. ASSUME NEW k \in Press, StrayEnds(k) PROVE IInv'
  <2>1. /\ toField' \in Seq(Press) /\ (alive \/ toField' = <<>>) /\ strays' \subseteq Press
        /\ latched \cup {k} \in SUBSET Press
    BY <1>1, <1>3 DEF StrayEnds, WireType
  <2>2. CASE FieldIs(latched \cup {k})
    BY <1>3, <2>1, <2>2, FieldSends DEF StrayEnds
  <2>3. CASE UNCHANGED <<latched, owed, toPage>>
    BY <1>3, <2>1, <2>3, FieldIgnores DEF StrayEnds
  <2> QED
    BY <1>3, <2>2, <2>3 DEF StrayEnds
<1>4. ASSUME NEW k \in Press, OthersChange(k) PROVE IInv'
  <2> DEFINE stops == IF k \in latched THEN latched \ {k} ELSE latched \cup {k}
  <2>1. /\ toField' \in Seq(Press) /\ (alive \/ toField' = <<>>) /\ strays' \subseteq Press
        /\ stops \in SUBSET Press /\ FieldIs(stops)
    BY <1>1, <1>4 DEF OthersChange, WireType
  <2> HIDE DEF stops
  <2> QED
    BY <1>4, <2>1, FieldSends DEF OthersChange
<1> QED
  BY <1>2, <1>3, <1>4

-----------------------------------------------------------------------------
LEMMA InitIInv == Init => IInv
<1> SUFFICES ASSUME Init PROVE IInv
  OBVIOUS
<1> USE DEF Init
<1>1. PageType
  BY BoundAssumption DEF PageType
<1>2. WireType
  <2>1. troubles \in 0..MaxTroubles
    BY BoundAssumption
  <2>2. <<>> \in Seq(Press) /\ <<>> \in Seq(SUBSET Press)
    OBVIOUS
  <2> QED
    BY <2>1, <2>2 DEF WireType
<1>3. owed \cap latched = {} /\ Unseen /\ KeptOnPage
  BY DEF Unseen, KeptOnPage
<1> QED
  BY <1>1, <1>2, <1>3, TypeParts DEF IInv

LEMMA NextIInv == IInv /\ [Next]_vars => IInv'
<1> SUFFICES ASSUME IInv, [Next]_vars PROVE IInv'
  OBVIOUS
<1>1. CASE \E k \in Press : PressStop(k)
  BY <1>1, Presses
<1>2. CASE \E k \in Press : Unconfirmed(k) \/ Drop(k) \/ Dismiss(k)
  BY <1>2, Reviews
<1>3. CASE FieldTakes \/ \E k \in Press : StrayEnds(k) \/ OthersChange(k)
  BY <1>3, FieldSteps
<1>4. CASE PageHears
  BY <1>4, Hears
<1>5. CASE SocketOpens \/ SocketBreaks \/ Watchdog \/ HalfDies
  BY <1>5, SocketSteps
<1>6. CASE UNCHANGED vars
  <2>1. PageType /\ WireType
    BY TypeParts DEF IInv
  <2>2. PageType' /\ WireType'
    BY <1>6, <2>1 DEF PageType, WireType, vars, pageVars, wireVars
  <2>3. Unseen' /\ owed' \cap latched' = {} /\ KeptOnPage'
    BY <1>6 DEF IInv, Unseen, KeptOnPage, vars, pageVars, wireVars
  <2> QED
    BY <2>2, <2>3, TypePartsAfter DEF IInv
<1> QED
  BY <1>1, <1>2, <1>3, <1>4, <1>5, <1>6 DEF Next

LEMMA Invariance == Spec => []IInv
BY InitIInv, NextIInv, PTL DEF Spec

-----------------------------------------------------------------------------
\* A set of presses, put on a socket, is on it.
LEMMA AllInSomeOrder ==
  ASSUME NEW S, IsFiniteSet(S)
  PROVE  S \subseteq ToSet(SetToSeq(S))
<1> DEFINE n == Cardinality(S)
           q == SetToSeq(S)
<1>1. n \in Nat /\ ExistsBijection(1..n, S)
  BY FS_CardinalityType
<1>2. \E f \in [1..n -> S] : IsInjective(f)
  BY <1>1 DEF ExistsBijection, Bijection, Injection
<1>3. q \in Injection(1..n, S)
  BY <1>2 DEF SetToSeq, Injection
<1> HIDE DEF n, q
<1>4. Cardinality(1..n) = n
  <2>1. 1 \in Int /\ n \in Int
    BY <1>1
  <2>2. Cardinality(1..n) = IF 1 > n THEN 0 ELSE n - 1 + 1
    BY <2>1, FS_Interval
  <2> QED
    BY <1>1, <2>2
<1>5. q \in Surjection(1..n, S)
  <2>1. Cardinality(1..n) = Cardinality(S)
    BY <1>4 DEF n
  <2> QED
    BY <1>3, <2>1, FS_Injection
<1>6. DOMAIN q = 1..n /\ \A e \in S : \E i \in 1..n : q[i] = e
  BY <1>5 DEF Surjection
<1>7. S \subseteq ToSet(q)
  BY <1>6 DEF ToSet
<1> QED
  BY <1>7 DEF q

\* Taking the first off a socket leaves the others on it.
LEMMA RestStays ==
  ASSUME NEW S, NEW q \in Seq(S), q # <<>>
  PROVE  ToSet(q) \subseteq {Head(q)} \cup ToSet(Tail(q))
<1>1. /\ Len(q) \in Nat \ {0} /\ Head(q) = q[1] /\ DOMAIN q = 1..Len(q)
      /\ Len(Tail(q)) = Len(q) - 1 /\ DOMAIN Tail(q) = 1..Len(q) - 1
      /\ \A i \in 1..Len(Tail(q)) : Tail(q)[i] = q[i + 1]
  BY HeadTailProperties, LenProperties, EmptySeq
<1>2. ASSUME NEW i \in 1..Len(q), i # 1 PROVE q[i] \in ToSet(Tail(q))
  <2>1. i - 1 \in 1..Len(q) - 1 /\ (i - 1) + 1 = i
    BY <1>1, <1>2
  <2>2. i - 1 \in DOMAIN Tail(q) /\ Tail(q)[i - 1] = q[i]
    BY <1>1, <2>1
  <2> QED
    BY <2>2 DEF ToSet
<1> QED
  BY <1>1, <1>2 DEF ToSet

\* A press is put on a socket that works, everything kept is put on a new one,
\* and what the field takes off, it has.
LEMMA NextOnTheSocket == IInv /\ OnTheSocket /\ [Next]_vars => OnTheSocket'
<1> SUFFICES ASSUME IInv, OnTheSocket, [Next]_vars, alive',
                    NEW k \in (owed' \cap plain') \ Refusable
             PROVE  k \in ToSet(toField')
  BY DEF OnTheSocket
<1>1. PageType /\ WireType
  BY TypeParts DEF IInv
<1>2. CASE alive /\ owed' \subseteq owed /\ plain' \subseteq plain /\ toField' = toField
  BY <1>2 DEF OnTheSocket
<1>3. ASSUME NEW j \in Press, PressStop(j) PROVE k \in ToSet(toField')
  <2>1. alive /\ toField' = Append(toField, j)
    BY <1>3 DEF PressStop
  <2>2. ToSet(toField') = ToSet(toField) \cup {j}
    BY <1>1, <2>1, Carries DEF WireType
  <2>3. k = j \/ k \in owed \cap plain
    BY <1>3 DEF PressStop
  <2> QED
    BY <2>1, <2>2, <2>3 DEF OnTheSocket
<1>4. CASE FieldTakes
  <2>1. /\ toField # <<>> /\ toField' = Tail(toField) /\ plain' = plain /\ alive' = alive
        /\ owed' \subseteq owed
        /\ Head(toField) \notin owed' \/ Head(toField) \in Refusable
    BY <1>4 DEF FieldTakes, FieldIs
  <2>2. k \in ToSet(toField) /\ k # Head(toField)
    <3>1. owed' \subseteq owed
      BY <1>4 DEF FieldTakes, FieldIs
    <3> QED
      BY <2>1, <3>1 DEF OnTheSocket
  <2> QED
    BY <1>1, <2>1, <2>2, RestStays DEF WireType
<1>5. CASE SocketOpens
  <2>1. stage[k] \in Waiting /\ k \in Press
    BY <1>1, <1>5 DEF SocketOpens, IInv, KeptOnPage, PageType
  <2>2. k \in Resent /\ IsFiniteSet(Resent) /\ toField' = SetToSeq(Resent)
    BY <1>5, <2>1, PressAssumption, FS_Subset DEF SocketOpens, Resent
  <2> QED
    BY <2>2, AllInSomeOrder
<1>6. CASE \E j \in Press : Unconfirmed(j)
  BY <1>2, <1>6 DEF Unconfirmed, Reconnect, wireVars
<1>7. CASE \E j \in Press : Drop(j) \/ Dismiss(j)
  BY <1>2, <1>7 DEF Drop, Dismiss, wireVars
<1>8. CASE \E j \in Press : StrayEnds(j) \/ OthersChange(j)
  BY <1>2, <1>8 DEF StrayEnds, OthersChange, FieldIs
<1>9. CASE PageHears
  BY <1>2, <1>9 DEF PageHears
<1>10. CASE SocketBreaks \/ Watchdog \/ HalfDies
  BY <1>10 DEF SocketBreaks, Watchdog, HalfDies, Reconnect
<1>11. CASE UNCHANGED vars
  BY <1>2, <1>11 DEF vars, wireVars
<1> QED
  BY <1>3, <1>4, <1>5, <1>6, <1>7, <1>8, <1>9, <1>10, <1>11 DEF Next

\* Every variable keeps to the values the code can give it.
THEOREM DeliveryTypes == Spec => []TypeOK
<1>1. IInv => TypeOK
  BY DEF IInv
<1> QED
  BY <1>1, Invariance, PTL

\* A press nothing showed done stays on the page until the field has it, or it
\* is given up on screen, over any number of sockets that break or go half dead;
\* and as long as a socket works, the press is on it.
THEOREM PressesAreKept == Spec => []KeptUntilShown
<1>1. IInv /\ OnTheSocket => KeptUntilShown
  BY DEF IInv, KeptUntilShown
<1>2. Init => OnTheSocket
  BY DEF Init, OnTheSocket
<1> QED
  BY <1>1, <1>2, Invariance, NextOnTheSocket, PTL DEF Spec
=============================================================================
