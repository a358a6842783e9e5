---------------------------- MODULE StopHoldProofs ----------------------------
(***************************************************************************)
(* What holds of StopHold for any set of stations and any bounds.  Of one   *)
(* change three things are known: who waits follows from what was heard     *)
(* (Hearing), the file has the stops unless a save failed (Saved), and what *)
(* is queued for the kernel ends in what is asked of it (Cutting).          *)
(***************************************************************************)
EXTENDS StopHold, SequenceTheorems, TLAPS

\* The variables whoever presses a button changes himself.
PressType ==
  /\ fieldEStop \in BOOLEAN /\ eStop \subseteq Station /\ teamStopped \subseteq Station
  /\ match \in {"idle", "created", "countdown", "running", "over"}
  /\ joined \subseteq Station /\ robot \subseteq Station

WaitType ==
  /\ watched \subseteq Station /\ waits \subseteq watched /\ quiet \subseteq watched
  /\ word \in [Station -> Word]

CutType ==
  /\ asked \subseteq Station /\ chain \in [Station -> Seq(BOOLEAN)] /\ late \subseteq Station

KernelType ==
  /\ cut \subseteq Station /\ trunk \in {"up", "going", "down", "coming"} /\ botched \subseteq Station

FileType ==
  /\ disk \in [field : BOOLEAN, own : SUBSET Station, team : SUBSET Station]
  /\ troubles \in 0..MaxTroubles /\ lost \in BOOLEAN

LEMMA TypeParts ==
  TypeOK <=> PressType /\ WaitType /\ CutType /\ KernelType /\ FileType
BY DEF TypeOK, PressType, WaitType, CutType, KernelType, FileType

LEMMA TypePartsAfter ==
  PressType' /\ WaitType' /\ CutType' /\ KernelType' /\ FileType' => TypeOK'
BY DEF TypeOK, PressType, WaitType, CutType, KernelType, FileType

\* A Driver Station that commands Enabled is waited for.
Hearing ==
  /\ watched = Held
  /\ \A s \in watched \ quiet : word[s] = "enabled" => s \in waits

Saved == lost \/ disk = Stops

\* The last command of a queue is what is wanted of the kernel, and without one
\* the kernel has it: on a trunk that stays, for all that is wanted or not; on one
\* that is rebuilt, for what is not wanted, as the rest is asked for again.
QueuesLead(wanted, queue, there, net, failed, spared) ==
  \A s \in Station \ spared :
    /\ queue[s] # <<>> /\ (net \in {"up", "going"} \/ s \notin wanted)
         => (queue[s][Len(queue[s])] = TRUE <=> s \in wanted)
    /\ queue[s] = <<>> /\ s \notin failed /\ net = "up" => (s \in there <=> s \in wanted)
    /\ queue[s] = <<>> /\ s \notin failed /\ net = "coming" /\ s \notin wanted => s \notin there

Cutting == asked = StopCut /\ QueuesLead(asked, chain, cut, trunk, botched, late)

IInv == TypeOK /\ Hearing /\ Saved /\ Cutting

-----------------------------------------------------------------------------
\* A review of the waits leaves everybody waited for who commands Enabled.
LEMMA Reviewed ==
  ASSUME PressType', NEW before, NEW waiting, NEW said \in [Station -> Word], NEW silent,
         ReviewFrom(before, waiting, said, silent),
         \A s \in before \ silent : said[s] = "enabled" => s \in waiting
  PROVE  WaitType' /\ Hearing'
<1> DEFINE begun == Held' \ before
           candidates == (waiting \cap Held') \cup (begun \cap robot')
<1>1. PICK aged \in SUBSET {s \in begun : said[s] = "disabled"}, attached \in SUBSET candidates :
        /\ watched' = Held'
        /\ word' = [s \in Station |->
             CASE s \in begun /\ said[s] = "enabled" -> "wasEnabled"
               [] s \in aged -> "unclear"
               [] OTHER -> said[s]]
        /\ quiet' = silent \cap (Held' \ begun)
        /\ waits' = candidates \ Still(attached)
  BY DEF ReviewFrom
<1>2. Held' \subseteq Station
  BY DEF Held, EStopped, PressType
<1>3. WaitType'
  BY <1>1, <1>2 DEF WaitType, Word
<1>4. ASSUME NEW s \in watched', s \notin quiet', word'[s] = "enabled" PROVE s \in waits'
  <2>1. s \in Station /\ s \in Held'
    BY <1>1, <1>2
  <2>2. s \notin begun /\ said[s] = "enabled"
    BY <1>1, <1>4, <2>1
  <2>3. s \in before /\ s \notin silent
    BY <1>1, <1>4, <2>1, <2>2
  <2>4. s \in candidates
    BY <2>1, <2>2, <2>3
  <2>5. s \notin Still(attached)
    BY <1>4 DEF Still
  <2> QED
    BY <1>1, <2>4, <2>5
<1> QED
  BY <1>1, <1>3, <1>4 DEF Hearing

\* The listener keeps the queues leading to what is wanted.
LEMMA Followed ==
  ASSUME PressType', WaitType', NEW before \in SUBSET Station,
         NEW queue \in [Station -> Seq(BOOLEAN)], NEW has \in BOOLEAN,
         CutFrom(before, queue, has), late \subseteq Station,
         has <=> trunk' \in {"up", "going"},
         has \/ cut' = cut,
         QueuesLead(before, queue, cut', trunk', botched', late)
  PROVE  CutType' /\ Cutting'
<1> DEFINE changed == {s \in Station : (s \in before) # (s \in StopCut')}
<1>1. /\ asked' = StopCut'
      /\ chain' = [s \in Station |->
           IF has /\ s \in changed THEN Append(queue[s], s \in StopCut') ELSE queue[s]]
      /\ late' = IF has THEN late \ changed
                 ELSE late \cup {s \in changed \cap before : queue[s] # <<>> \/ s \in cut}
  BY DEF CutFrom
<1>2. StopCut' \subseteq Station
  BY DEF StopCut, PressType, WaitType
<1>3. CutType'
  <2>1. \A s \in Station : (s \in StopCut') \in BOOLEAN
    OBVIOUS
  <2>2. \A s \in Station : Append(queue[s], s \in StopCut') \in Seq(BOOLEAN)
    BY <2>1
  <2> QED
    BY <1>1, <1>2, <2>2 DEF CutType
<1>4. ASSUME NEW s \in Station, s \notin late'
      PROVE  /\ chain'[s] # <<>> /\ (trunk' \in {"up", "going"} \/ s \notin asked')
                  => (chain'[s][Len(chain'[s])] = TRUE <=> s \in asked')
             /\ chain'[s] = <<>> /\ s \notin botched' /\ trunk' = "up" => (s \in cut' <=> s \in asked')
             /\ chain'[s] = <<>> /\ s \notin botched' /\ trunk' = "coming" /\ s \notin asked' => s \notin cut'
  <2>1. CASE has /\ s \in changed
    <3>1. chain'[s] = Append(queue[s], s \in StopCut') /\ queue[s] \in Seq(BOOLEAN)
      BY <1>1, <2>1
    <3>2. chain'[s] # <<>> /\ chain'[s][Len(chain'[s])] = (s \in StopCut')
      BY <3>1
    <3> QED
      BY <1>1, <3>2
  <2>2. CASE has /\ s \notin changed
    <3>1. chain'[s] = queue[s] /\ s \notin late /\ (s \in asked' <=> s \in before)
      BY <1>1, <1>4, <2>2
    <3> QED
      BY <3>1 DEF QueuesLead
  <2>3. CASE ~has /\ s \notin asked'
    <3>1. chain'[s] = queue[s] /\ s \notin late
      BY <1>1, <1>4, <2>3
    <3>2. CASE s \in before
      <4>1. queue[s] = <<>> /\ s \notin cut
        BY <1>1, <1>4, <2>3, <3>2
      <4> QED
        BY <2>3, <3>1, <4>1
    <3>3. CASE s \notin before
      BY <2>3, <3>1, <3>3 DEF QueuesLead
    <3> QED
      BY <3>2, <3>3
  <2>4. CASE ~has /\ s \in asked'
    BY <2>4
  <2> QED
    BY <2>1, <2>2, <2>3, <2>4
<1> QED
  BY <1>1, <1>3, <1>4 DEF Cutting, QueuesLead

-----------------------------------------------------------------------------
\* Every button, and every step of a match, is one change and a broadcast.
LEMMA Pressed ==
  PressType /\ (Buttons \/ MatchGoesOn \/ Poll) => PressType' /\ Broadcast
<1> SUFFICES ASSUME PressType, Buttons \/ MatchGoesOn \/ Poll PROVE PressType' /\ Broadcast
  OBVIOUS
<1> USE DEF PressType, stopVars, matchVars, M!CreateMatch, M!CancelMatch, M!StartMatch,
        M!AbortCountdown, M!RobotsGo, M!MatchEnds, M!ClearMatch
<1>1. CASE Buttons
  BY <1>1 DEF Buttons, FieldEStop, ClearFieldEStop, ClearAll, StationEStop, ClearEStop, TeamStop
<1>2. CASE MatchGoesOn
  BY <1>2 DEF MatchGoesOn, CreateMatch, ClearMatch, CancelMatch, StationsReleased, MatchMoves,
     Join, Leave, Released
<1>3. CASE Poll
  BY <1>3 DEF Poll
<1> QED
  BY <1>1, <1>2, <1>3

LEMMA Saves == FileType /\ Saved /\ PressType' /\ Save => FileType' /\ Saved'
<1> SUFFICES ASSUME FileType, Saved, PressType', Save PROVE FileType' /\ Saved'
  OBVIOUS
<1>1. Stops' \in [field : BOOLEAN, own : SUBSET Station, team : SUBSET Station]
  BY DEF PressType, Stops
<1>2. CASE Stops' = Stops /\ UNCHANGED <<disk, lost, troubles>>
  BY <1>2 DEF FileType, Saved
<1>3. CASE disk' = Stops' /\ lost' = FALSE /\ UNCHANGED troubles
  BY <1>1, <1>3 DEF FileType, Saved
<1>4. CASE troubles < MaxTroubles /\ troubles' = troubles + 1 /\ lost' = TRUE /\ UNCHANGED disk
  BY <1>4, BoundAssumption DEF FileType, Saved
<1> QED
  BY <1>2, <1>3, <1>4 DEF Save

LEMMA Broadcasts == IInv /\ PressType' /\ Broadcast => IInv'
<1> SUFFICES ASSUME IInv, PressType', Broadcast PROVE IInv'
  OBVIOUS
<1>1. PressType /\ WaitType /\ CutType /\ KernelType /\ FileType
  BY TypeParts DEF IInv
<1>2. WaitType' /\ Hearing'
  <2>1. word \in [Station -> Word] /\ ReviewFrom(watched, waits, word, quiet)
    BY <1>1 DEF Broadcast, WaitType
  <2>2. \A s \in watched \ quiet : word[s] = "enabled" => s \in waits
    BY DEF IInv, Hearing
  <2> QED
    BY <2>1, <2>2, Reviewed
<1>3. FileType' /\ Saved'
  BY <1>1, Saves DEF Broadcast, IInv
<1>4. KernelType' /\ cut' = cut /\ trunk' = trunk /\ botched' = botched
  BY <1>1 DEF Broadcast, KernelType
<1>5. CutType' /\ Cutting'
  <2>1. CutFrom(asked, chain, HasTrunk)
    BY DEF Broadcast
  <2>2. QueuesLead(asked, chain, cut', trunk', botched', late)
    BY <1>4 DEF IInv, Cutting
  <2> QED
    <3>1. HasTrunk \in BOOLEAN /\ (HasTrunk <=> trunk' \in {"up", "going"})
      BY <1>4 DEF HasTrunk
    <3>2. asked \in SUBSET Station /\ chain \in [Station -> Seq(BOOLEAN)] /\ late \subseteq Station
      BY <1>1 DEF CutType
    <3>3. CASE HasTrunk
      <4>1. CutFrom(asked, chain, TRUE)
        BY <2>1, <3>3 DEF CutFrom
      <4> QED
        BY <1>2, <1>4, <2>2, <3>1, <3>2, <3>3, <4>1, Followed
    <3>4. CASE ~HasTrunk
      <4>1. CutFrom(asked, chain, FALSE)
        BY <2>1, <3>4 DEF CutFrom
      <4> QED
        BY <1>2, <1>4, <2>2, <3>1, <3>2, <3>4, <4>1, Followed
    <3> QED
      BY <3>3, <3>4
<1>6. TypeOK'
  BY <1>2, <1>3, <1>4, <1>5, TypePartsAfter
<1> QED
  BY <1>2, <1>3, <1>5, <1>6 DEF IInv

\* What the Driver Station is heard to say starts a review, or only changes
\* what is known of a station that is not waited for.
LEMMA Notes ==
  ASSUME IInv, NEW s \in Station, NEW w \in {"enabled", "disabled", "unclear"}, Note(s, w)
  PROVE  IInv'
<1>1. PressType /\ WaitType /\ CutType /\ KernelType /\ FileType
  BY TypeParts DEF IInv
<1>2. PressType' /\ UNCHANGED <<stopVars, matchVars, robot>>
  BY <1>1 DEF PressType, Note, stopVars, matchVars
<1>3. Held' = Held /\ Stops' = Stops
  BY <1>2 DEF Held, EStopped, Stops, stopVars, matchVars
<1>4. Hears(s, w) \in [Station -> Word] /\ Hears(s, w)[s] = w
      /\ \A t \in Station : t # s => Hears(s, w)[t] = word[t]
  BY <1>1 DEF Hears, WaitType, Word
<1>5. CASE Rewaits(s, w) \/ (w = "disabled" /\ s \in waits)
  <2> DEFINE waiting == IF Rewaits(s, w) THEN waits \cup {s} ELSE waits
  <2>1. /\ ReviewFrom(watched, waiting, Hears(s, w), quiet \ {s})
        /\ CutFrom(asked, chain, HasTrunk)
        /\ UNCHANGED <<cut, trunk, botched, disk, troubles, lost>>
    BY <1>5 DEF Note
  <2>2. \A t \in watched \ (quiet \ {s}) : Hears(s, w)[t] = "enabled" => t \in waiting
    BY <1>1, <1>4, <1>5 DEF IInv, Hearing, WaitType, Rewaits
  <2>3. WaitType' /\ Hearing'
    BY <1>2, <1>4, <2>1, <2>2, Reviewed
  <2>4. KernelType' /\ FileType' /\ Saved'
    BY <1>1, <1>3, <2>1 DEF KernelType, FileType, IInv, Saved
  <2>5. CutType' /\ Cutting'
    <3>1. HasTrunk \in BOOLEAN /\ (HasTrunk <=> trunk' \in {"up", "going"})
      BY <2>1 DEF HasTrunk
    <3>2. asked \in SUBSET Station /\ chain \in [Station -> Seq(BOOLEAN)] /\ late \subseteq Station
      BY <1>1 DEF CutType
    <3>3. QueuesLead(asked, chain, cut', trunk', botched', late)
      BY <2>1 DEF IInv, Cutting
    <3>4. CASE HasTrunk
      <4>1. CutFrom(asked, chain, TRUE)
        BY <2>1, <3>4 DEF CutFrom
      <4> QED
        BY <1>2, <2>1, <2>3, <3>1, <3>2, <3>3, <3>4, <4>1, Followed
    <3>5. CASE ~HasTrunk
      <4>1. CutFrom(asked, chain, FALSE)
        BY <2>1, <3>5 DEF CutFrom
      <4> QED
        BY <1>2, <2>1, <2>3, <3>1, <3>2, <3>3, <3>5, <4>1, Followed
    <3> QED
      BY <3>4, <3>5
  <2> QED
    BY <1>2, <2>3, <2>4, <2>5, TypePartsAfter DEF IInv
<1>6. CASE ~(Rewaits(s, w) \/ (w = "disabled" /\ s \in waits))
  <2>1. /\ word' = Hears(s, w) /\ quiet' = quiet \ {s}
        /\ UNCHANGED <<watched, waits, cutVars, disk, troubles, lost>>
    BY <1>6 DEF Note
  <2>2. WaitType'
    BY <1>1, <1>4, <2>1 DEF WaitType
  <2>3. ASSUME NEW t \in watched', t \notin quiet', word'[t] = "enabled" PROVE t \in waits'
    BY <1>1, <1>4, <1>6, <2>1, <2>3 DEF IInv, Hearing, WaitType, Rewaits
  <2>4. Hearing'
    BY <1>3, <2>1, <2>3 DEF IInv, Hearing
  <2>5. CutType' /\ KernelType' /\ FileType' /\ Saved'
    BY <1>1, <1>3, <2>1 DEF CutType, KernelType, FileType, IInv, Saved, cutVars
  <2>6. Cutting'
    BY <1>2, <2>1 DEF IInv, Cutting, StopCut, cutVars, stopVars, matchVars
  <2> QED
    BY <1>2, <2>2, <2>4, <2>5, <2>6, TypePartsAfter DEF IInv
<1> QED
  BY <1>5, <1>6

\* What is left of a queue ends as it did, and an only command was its first.
LEMMA TailEnds ==
  ASSUME NEW q \in Seq(BOOLEAN), q # <<>>
  PROVE  /\ Head(q) \in BOOLEAN /\ Tail(q) \in Seq(BOOLEAN)
         /\ Tail(q) = <<>> => q[Len(q)] = Head(q)
         /\ Tail(q) # <<>> => Tail(q)[Len(Tail(q))] = q[Len(q)]
<1>1. /\ Head(q) \in BOOLEAN /\ Tail(q) \in Seq(BOOLEAN) /\ Len(Tail(q)) = Len(q) - 1
      /\ \A i \in 1..Len(Tail(q)) : Tail(q)[i] = q[i + 1]
  BY HeadTailProperties
<1>2. Len(q) \in Nat \ {0} /\ Head(q) = q[1]
  BY EmptySeq
<1>3. CASE Tail(q) = <<>>
  <2>1. Len(q) = 1
    BY <1>1, <1>2, <1>3, EmptySeq
  <2> QED
    BY <1>1, <1>2, <1>3, <2>1
<1>4. CASE Tail(q) # <<>>
  <2>1. Len(Tail(q)) \in Nat \ {0}
    BY <1>1, <1>4, EmptySeq
  <2>2. Len(Tail(q)) \in 1..Len(Tail(q)) /\ Len(Tail(q)) + 1 = Len(q)
    BY <1>1, <1>2, <2>1
  <2>3. Tail(q)[Len(Tail(q))] = q[Len(Tail(q)) + 1]
    BY <1>1, <2>2
  <2> QED
    BY <1>1, <1>4, <2>2, <2>3
<1> QED
  BY <1>3, <1>4

\* A command that runs, or fails, leaves the queue that follows it.
LEMMA Applies ==
  ASSUME IInv, NEW s \in Station, NEW ok \in BOOLEAN, Apply(s, ok)
  PROVE  IInv'
<1>1. PressType /\ WaitType /\ CutType /\ KernelType /\ FileType
  BY TypeParts DEF IInv
<1>2. /\ chain[s] \in Seq(BOOLEAN) /\ chain[s] # <<>>
      /\ chain' = [chain EXCEPT ![s] = Tail(@)]
      /\ UNCHANGED <<stopVars, matchVars, robot, waitVars, asked, trunk, late, disk, lost>>
  BY <1>1 DEF Apply, CutType
<1>3. PressType' /\ WaitType' /\ Hearing' /\ Saved'
  BY <1>1, <1>2 DEF PressType, WaitType, Hearing, Saved, IInv, Held, EStopped, Stops, stopVars,
     matchVars, waitVars
<1>4. CutType'
  BY <1>1, <1>2 DEF CutType
<1>5. KernelType' /\ FileType'
  <2>1. cut' \in {cut, cut \cup {s}, cut \ {s}} /\ botched' \in {botched \cup {s}, botched \ {s}}
    BY DEF Apply
  <2>2. troubles' = troubles \/ (troubles < MaxTroubles /\ troubles' = troubles + 1)
    BY DEF Apply
  <2>3. KernelType'
    BY <1>1, <1>2, <2>1 DEF KernelType
  <2>4. FileType'
    BY <1>1, <1>2, <2>2, BoundAssumption DEF FileType
  <2> QED
    BY <2>3, <2>4
<1>6. asked' = StopCut' /\ asked' = asked /\ trunk' = trunk /\ late' = late
  BY <1>2 DEF IInv, Cutting, StopCut, stopVars, matchVars, waitVars
<1>7. ASSUME NEW t \in Station, t \notin late
      PROVE  /\ chain'[t] # <<>> /\ (trunk \in {"up", "going"} \/ t \notin asked)
                  => (chain'[t][Len(chain'[t])] = TRUE <=> t \in asked)
             /\ chain'[t] = <<>> /\ t \notin botched' /\ trunk = "up" => (t \in cut' <=> t \in asked)
             /\ chain'[t] = <<>> /\ t \notin botched' /\ trunk = "coming" /\ t \notin asked => t \notin cut'
  <2>1. /\ chain[t] # <<>> /\ (trunk \in {"up", "going"} \/ t \notin asked)
             => (chain[t][Len(chain[t])] = TRUE <=> t \in asked)
        /\ chain[t] = <<>> /\ t \notin botched /\ trunk = "up" => (t \in cut <=> t \in asked)
        /\ chain[t] = <<>> /\ t \notin botched /\ trunk = "coming" /\ t \notin asked => t \notin cut
    BY <1>7 DEF IInv, Cutting, QueuesLead
  <2>2. CASE t # s
    <3>1. chain'[t] = chain[t] /\ (t \in cut' <=> t \in cut) /\ (t \in botched' <=> t \in botched)
      BY <1>1, <1>2, <2>2 DEF Apply, CutType
    <3> QED
      BY <2>1, <3>1
  <2>3. CASE t = s
    <3>1. chain'[s] = Tail(chain[s])
      BY <1>1, <1>2 DEF CutType
    <3>2. CASE Tail(chain[s]) # <<>>
      <4>1. chain'[s] # <<>> /\ chain'[s][Len(chain'[s])] = chain[s][Len(chain[s])]
        BY <1>2, <3>1, <3>2, TailEnds
      <4> QED
        BY <1>2, <2>1, <2>3, <4>1
    <3>3. CASE Tail(chain[s]) = <<>>
      <4>1. chain'[s] = <<>> /\ chain[s][Len(chain[s])] = Head(chain[s])
        BY <1>2, <3>1, <3>3, TailEnds
      <4>2. CASE ok
        <5>1. s \in cut' <=> Head(chain[s]) = TRUE
          <6>1. Head(chain[s]) \in BOOLEAN
            BY <1>2
          <6>2. cut' = IF Head(chain[s]) THEN cut \cup {s} ELSE cut \ {s}
            BY <4>2 DEF Apply
          <6> QED
            BY <6>1, <6>2
        <5> QED
          BY <1>2, <2>1, <2>3, <4>1, <5>1
      <4>3. CASE ~ok
        BY <2>3, <4>1, <4>3 DEF Apply
      <4> QED
        BY <4>2, <4>3
    <3> QED
      BY <3>2, <3>3
  <2> QED
    BY <2>2, <2>3
<1>8. Cutting'
  BY <1>6, <1>7 DEF Cutting, QueuesLead
<1> QED
  BY <1>3, <1>4, <1>5, <1>8, TypePartsAfter DEF IInv

\* A command put on a queue is its last.
LEMMA AppendEnds ==
  ASSUME NEW q \in Seq(BOOLEAN)
  PROVE  /\ Append(q, TRUE) \in Seq(BOOLEAN) /\ Append(q, TRUE) # <<>>
         /\ Append(q, TRUE)[Len(Append(q, TRUE))] = TRUE
<1> DEFINE longer == Append(q, TRUE)
<1>1. longer \in Seq(BOOLEAN)
  OBVIOUS
<1>2. Len(longer) = Len(q) + 1 /\ longer[Len(q) + 1] = TRUE
  OBVIOUS
<1>3. Len(q) \in Nat
  OBVIOUS
<1> HIDE DEF longer
<1>4. longer # <<>> /\ longer[Len(longer)] = TRUE
  BY <1>2, <1>3
<1> QED
  BY <1>1, <1>4 DEF longer

\* A rebuild takes the trunk down with its cuts, and asks for those wanted again.
LEMMA Rebuilds ==
  ASSUME IInv, TrunkGoes \/ TrunkGone \/ TrunkComes \/ TrunkBack
  PROVE  IInv'
<1>1. PressType /\ WaitType /\ CutType /\ KernelType /\ FileType
  BY TypeParts DEF IInv
<1>2. UNCHANGED <<stopVars, matchVars, robot, waitVars, asked, botched, late, disk, lost>>
  BY DEF TrunkGoes, TrunkGone, TrunkComes, TrunkBack
<1>3. PressType' /\ WaitType' /\ Hearing' /\ Saved' /\ asked' = StopCut'
  BY <1>1, <1>2 DEF PressType, WaitType, Hearing, Saved, IInv, Held, EStopped, Stops, Cutting,
     StopCut, stopVars, matchVars, waitVars
<1>4. FileType'
  <2>1. troubles' = troubles \/ (troubles < MaxTroubles /\ troubles' = troubles + 1)
    BY DEF TrunkGoes, TrunkGone, TrunkComes, TrunkBack
  <2> QED
    BY <1>1, <1>2, <2>1, BoundAssumption DEF FileType
<1>5. KernelType'
  BY <1>1, <1>2 DEF KernelType, TrunkGoes, TrunkGone, TrunkComes, TrunkBack
<1>6. QueuesLead(asked, chain, cut, trunk, botched, late)
  BY DEF IInv, Cutting
<1>7. CASE TrunkGoes \/ TrunkGone \/ TrunkComes
  <2>1. chain' = chain
    BY <1>7 DEF TrunkGoes, TrunkGone, TrunkComes
  <2>2. CutType'
    BY <1>1, <1>2, <2>1 DEF CutType
  <2>3. QueuesLead(asked', chain', cut', trunk', botched', late')
    BY <1>2, <1>6, <1>7, <2>1 DEF QueuesLead, TrunkGoes, TrunkGone, TrunkComes
  <2> QED
    BY <1>3, <1>4, <1>5, <2>2, <2>3, TypePartsAfter DEF IInv, Cutting
<1>8. CASE TrunkBack
  <2>1. /\ trunk = "coming" /\ trunk' = "up" /\ cut' = cut
        /\ chain' = [s \in Station |-> IF s \in asked THEN Append(chain[s], TRUE) ELSE chain[s]]
    BY <1>8 DEF TrunkBack
  <2>2. \A s \in Station : /\ chain[s] \in Seq(BOOLEAN) /\ Append(chain[s], TRUE) \in Seq(BOOLEAN)
                           /\ Append(chain[s], TRUE) # <<>>
                           /\ Append(chain[s], TRUE)[Len(Append(chain[s], TRUE))] = TRUE
    BY <1>1, AppendEnds DEF CutType
  <2>3. CutType'
    BY <1>1, <1>2, <2>1, <2>2 DEF CutType
  <2>4. ASSUME NEW s \in Station, s \notin late
        PROVE  /\ chain'[s] # <<>> => (chain'[s][Len(chain'[s])] = TRUE <=> s \in asked)
               /\ chain'[s] = <<>> /\ s \notin botched => (s \in cut <=> s \in asked)
    <3>1. CASE s \in asked
      BY <2>1, <2>2, <3>1
    <3>2. CASE s \notin asked
      <4>1. chain'[s] = chain[s]
        BY <2>1, <3>2
      <4> QED
        BY <1>6, <2>1, <2>4, <3>2, <4>1 DEF QueuesLead
    <3> QED
      BY <3>1, <3>2
  <2>5. QueuesLead(asked', chain', cut', trunk', botched', late')
    BY <1>2, <2>1, <2>4 DEF QueuesLead
  <2> QED
    BY <1>3, <1>4, <1>5, <2>3, <2>5, TypePartsAfter DEF IInv, Cutting
<1> QED
  BY <1>7, <1>8

\* A restart takes up what it found, as fresh stops, and the cuts of before.
LEMMA Restarts ==
  ASSUME IInv, NEW found \in {disk, NoStops}, RestartWith(found)
  PROVE  IInv'
<1> DEFINE none == [s \in Station |-> <<>>]
           fresh == [s \in Station |-> "unclear"]
<1>1. PressType /\ WaitType /\ CutType /\ KernelType /\ FileType
  BY TypeParts DEF IInv
<1>0. found \in [field : BOOLEAN, own : SUBSET Station, team : SUBSET Station]
  <2>1. NoStops \in [field : BOOLEAN, own : SUBSET Station, team : SUBSET Station]
    BY Zenon DEF NoStops
  <2> QED
    BY <1>1, <2>1 DEF FileType
<1>2. /\ troubles < MaxTroubles /\ troubles' = troubles + 1
      /\ fieldEStop' = found.field /\ eStop' = found.own /\ teamStopped' = found.team
      /\ match' = "idle" /\ joined' = {} /\ robot' = robot
      /\ botched' = {} /\ lost' = (found # disk) /\ disk' = disk
  BY DEF RestartWith, M!Restart
<1>3. PressType'
  BY <1>0, <1>1, <1>2 DEF PressType
<1>4. FileType' /\ Saved'
  <2>1. lost' \/ disk' = Stops'
    BY <1>0, <1>1, <1>2 DEF FileType, Stops
  <2>2. troubles' \in 0..MaxTroubles
    BY <1>1, <1>2, BoundAssumption DEF FileType
  <2>3. FileType'
    BY <1>1, <1>2, <2>2 DEF FileType
  <2> QED
    BY <2>1, <2>3 DEF Saved
<1>5. WaitType' /\ Hearing'
  <2>1. ReviewFrom({}, {}, fresh, {}) /\ fresh \in [Station -> Word]
    BY DEF RestartWith, Word
  <2> HIDE DEF fresh
  <2> QED
    BY <1>3, <2>1, Reviewed
<1>6. CutAtStart(found) \subseteq Station /\ none \in [Station -> Seq(BOOLEAN)]
  BY <1>0 DEF CutAtStart
<1>7. CutFrom(CutAtStart(found), none, trunk' = "up")
  BY DEF RestartWith
<1>8. CutType' /\ Cutting' /\ KernelType'
  <2>1. CASE trunk' = "up" /\ cut' = CutAtStart(found)
    <3>1. CutFrom(CutAtStart(found), none, TRUE)
      BY <1>7, <2>1 DEF CutFrom
    <3>2. QueuesLead(CutAtStart(found), none, cut', trunk', botched', late)
      BY <2>1 DEF QueuesLead
    <3> HIDE DEF none
    <3>3. CutType' /\ Cutting'
      BY <1>1, <1>3, <1>5, <1>6, <2>1, <3>1, <3>2, Followed DEF CutType
    <3> QED
      BY <1>2, <1>6, <2>1, <3>3 DEF KernelType
  <2>2. CASE trunk' = "down" /\ cut' = cut
    <3>1. CutFrom(CutAtStart(found), none, FALSE)
      BY <1>7, <2>2 DEF CutFrom
    <3>2. QueuesLead(CutAtStart(found), none, cut', trunk', botched', late)
      BY <2>2 DEF QueuesLead
    <3> HIDE DEF none
    <3>3. CutType' /\ Cutting'
      BY <1>1, <1>3, <1>5, <1>6, <2>2, <3>1, <3>2, Followed DEF CutType
    <3> QED
      BY <1>1, <1>2, <2>2, <3>3 DEF KernelType
  <2> QED
    BY <2>1, <2>2 DEF RestartWith
<1> QED
  BY <1>3, <1>4, <1>5, <1>8, TypePartsAfter DEF IInv

LEMMA InitIInv == Init => IInv
<1> SUFFICES ASSUME Init PROVE IInv
  OBVIOUS
<1> USE DEF Init
<1>1. PressType /\ WaitType /\ CutType /\ KernelType
  <2>1. PressType /\ KernelType
    BY DEF PressType, KernelType
  <2>2. WaitType
    BY DEF WaitType, Word
  <2>3. CutType
    BY DEF CutType
  <2> QED
    BY <2>1, <2>2, <2>3
<1>2. FileType /\ Saved
  <2>1. troubles \in 0..MaxTroubles
    BY BoundAssumption
  <2>2. disk \in [field : BOOLEAN, own : SUBSET Station, team : SUBSET Station]
    BY DEF Stops
  <2> QED
    BY <2>1, <2>2 DEF FileType, Saved
<1>3. Hearing /\ Cutting
  BY DEF Hearing, Held, EStopped, Cutting, StopCut, QueuesLead
<1> QED
  BY <1>1, <1>2, <1>3, TypeParts DEF IInv

LEMMA NextIInv == IInv /\ [Next]_vars => IInv'
<1> SUFFICES ASSUME IInv, [Next]_vars PROVE IInv'
  OBVIOUS
<1>1. PressType /\ WaitType /\ CutType /\ KernelType /\ FileType
  BY TypeParts DEF IInv
<1>2. CASE Buttons \/ MatchGoesOn \/ Poll
  BY <1>1, <1>2, Pressed, Broadcasts
<1>3. CASE Kernel
  BY <1>3, Applies, Rebuilds DEF Kernel
<1>4. CASE Restart
  BY <1>4, Restarts DEF Restart
<1>5. CASE \E s \in Station, w \in {"enabled", "disabled", "unclear"} : Note(s, w)
  BY <1>5, Notes
<1>6. ASSUME NEW s \in Station, RobotMoves(s) PROVE IInv'
  <2>1. robot' \subseteq Station
        /\ UNCHANGED <<stopVars, matchVars, waitVars, cutVars, disk, troubles, lost>>
    BY <1>1, <1>6 DEF RobotMoves, PressType
  <2>2. PressType' /\ WaitType' /\ CutType' /\ KernelType' /\ FileType'
    BY <1>1, <2>1 DEF PressType, WaitType, CutType, KernelType, FileType, stopVars, matchVars,
       waitVars, cutVars
  <2>3. Hearing' /\ Saved' /\ Cutting'
    BY <2>1 DEF IInv, Hearing, Held, EStopped, Saved, Stops, Cutting, StopCut, stopVars, matchVars,
       waitVars, cutVars
  <2> QED
    BY <2>2, <2>3, TypePartsAfter DEF IInv
<1>7. ASSUME NEW s \in Station, Silent(s) PROVE IInv'
  <2>1. quiet' = quiet \cup {s} /\ s \in watched
        /\ UNCHANGED <<stopVars, matchVars, robot, watched, waits, word, cutVars, disk, troubles, lost>>
    BY <1>7 DEF Silent
  <2>2. PressType' /\ WaitType' /\ CutType' /\ KernelType' /\ FileType'
    BY <1>1, <2>1 DEF PressType, WaitType, CutType, KernelType, FileType, stopVars, matchVars, cutVars
  <2>3. Hearing' /\ Saved' /\ Cutting'
    BY <2>1 DEF IInv, Hearing, Held, EStopped, Saved, Stops, Cutting, StopCut, stopVars, matchVars,
       cutVars
  <2> QED
    BY <2>2, <2>3, TypePartsAfter DEF IInv
<1>8. CASE UNCHANGED vars
  <2>1. PressType' /\ WaitType' /\ CutType' /\ KernelType' /\ FileType'
    BY <1>1, <1>8 DEF PressType, WaitType, CutType, KernelType, FileType, vars, stopVars, matchVars,
       waitVars, cutVars
  <2>2. Hearing' /\ Saved' /\ Cutting'
    BY <1>8 DEF IInv, Hearing, Held, EStopped, Saved, Stops, Cutting, StopCut, vars, stopVars,
       matchVars, waitVars, cutVars
  <2> QED
    BY <2>1, <2>2, TypePartsAfter DEF IInv
<1> QED
  BY <1>2, <1>3, <1>4, <1>5, <1>6, <1>7, <1>8 DEF Next

LEMMA Invariance == Spec => []IInv
BY InitIInv, NextIInv, PTL DEF Spec

-----------------------------------------------------------------------------
\* Every variable keeps to the values the code can give it.
THEOREM StopTypes == Spec => []TypeOK
<1>1. IInv => TypeOK
  BY DEF IInv
<1> QED
  BY <1>1, Invariance, PTL

\* The kernel cuts exactly the robots whose stop asks for it, of any number.
THEOREM CutsFollow == Spec => []CutsFollowStops
<1>1. IInv => CutsFollowStops
  BY DEF IInv, Cutting, QueuesLead, CutsFollowStops
<1> QED
  BY <1>1, Invariance, PTL

\* Nobody frees a robot to a Driver Station that commands Enabled: no press of
\* staff, and no restart that has the stops on file.
THEOREM OnlyTheStill == Spec => ClearsOnlyTheStill
<1> DEFINE Excused == CreateMatch \/ ClearMatch \/ (Restart /\ (lost \/ lost'))
<1>1. IInv /\ [Next]_vars => [Excused \/ FreedToEnabled = {}]_vars
  <2> SUFFICES ASSUME IInv, Next, ~Excused, NEW t \in watched \ quiet, word[t] = "enabled"
               PROVE  t \in EStopped'
    BY DEF FreedToEnabled
  <2>1. t \in Station /\ t \in waits /\ t \in EStopped
    BY TypeParts DEF IInv, Hearing, Held, WaitType
  <2>2. CASE UNCHANGED <<fieldEStop, eStop>>
    BY <2>1, <2>2 DEF EStopped
  <2>3. CASE Buttons
    <3>1. CASE FieldEStop
      BY <2>1, <3>1 DEF FieldEStop, EStopped
    <3>2. CASE ClearFieldEStop
      BY <2>1, <3>2 DEF ClearFieldEStop, EStopped
    <3>3. CASE ClearAll
      BY <2>1, <3>3 DEF ClearAll
    <3>4. ASSUME NEW s \in Station, StationEStop(s) PROVE t \in EStopped'
      BY <2>1, <3>4 DEF StationEStop, EStopped
    <3>5. ASSUME NEW s \in Station, ClearEStop(s) PROVE t \in EStopped'
      BY <2>1, <3>5 DEF ClearEStop, MayClear, EStopped
    <3>6. ASSUME NEW s \in Station, NEW stop \in BOOLEAN, TeamStop(s, stop) PROVE t \in EStopped'
      BY <2>2, <3>6 DEF TeamStop
    <3> QED
      BY <2>3, <3>1, <3>2, <3>3, <3>4, <3>5, <3>6 DEF Buttons
  <2>4. CASE MatchGoesOn
    BY <2>2, <2>4 DEF MatchGoesOn, CancelMatch, StationsReleased, MatchMoves, Join, Leave, stopVars
  <2>5. CASE Restart
    <3>1. ~lost /\ ~lost' /\ disk = Stops
      BY <2>5 DEF IInv, Saved
    <3>2. RestartWith(disk)
      BY <2>5, <3>1 DEF Restart, RestartWith
    <3> QED
      BY <2>2, <3>1, <3>2 DEF RestartWith, Stops
  <2>6. CASE Poll \/ Kernel
    BY <2>2, <2>6 DEF Poll, Kernel, Apply, TrunkGoes, TrunkGone, TrunkComes, TrunkBack, stopVars
  <2>7. CASE \/ \E s \in Station, w \in {"enabled", "disabled", "unclear"} : Note(s, w)
             \/ \E s \in Station : RobotMoves(s) \/ Silent(s)
    BY <2>2, <2>7 DEF Note, RobotMoves, Silent, stopVars
  <2> QED
    BY <2>3, <2>4, <2>5, <2>6, <2>7 DEF Next
<1> QED
  BY <1>1, Invariance, PTL DEF Spec, ClearsOnlyTheStill

\* A restart lifts no stop, and leaves no stopped robot without its cut.
THEOREM StopsOutliveRestarts == Spec => RestartsKeepStops
<1> DEFINE Kept == \/ lost \/ lost'
                   \/ /\ Stops' = Stops
                      /\ trunk' = "up" => EStopped \cup teamStopped \subseteq cut'
<1>1. IInv /\ [Next]_vars => [Restart => Kept]_vars
  <2> SUFFICES ASSUME IInv, Restart, ~lost, ~lost' PROVE Kept
    OBVIOUS
  <2>1. disk = Stops
    BY DEF IInv, Saved
  <2>2. RestartWith(disk)
    BY DEF Restart, RestartWith
  <2>3. Stops' = Stops
    BY <2>1, <2>2 DEF RestartWith, Stops
  <2>4. CutAtStart(disk) = EStopped \cup teamStopped
    <3>1. teamStopped \subseteq Station
      BY DEF IInv, TypeOK
    <3> QED
      BY <2>1, <3>1 DEF CutAtStart, EStopped, Stops
  <2> QED
    BY <2>2, <2>3, <2>4 DEF RestartWith
<1> QED
  BY <1>1, Invariance, PTL DEF Spec, RestartsKeepStops

-----------------------------------------------------------------------------
(* The match the stops are pressed around is the one the engine plays.      *)

\* docs/match-system.md: while the field E-Stop is latched no match goes on: it
\* ends the one that does, none starts until it is cleared, and one that comes
\* back with a restart finds none.
NoMatchUnderLatch == fieldEStop => ~M!Active

\* And without a match, nobody is in one.
MatchSafe == NoMatchUnderLatch /\ (match = "idle" => joined = {})

LEMMA MatchInvariance == Spec => []MatchSafe
<1>1. Init => MatchSafe
  BY DEF Init, MatchSafe, NoMatchUnderLatch, M!Active
<1>2. ASSUME IInv, MatchSafe, [Next]_vars PROVE MatchSafe'
  <2> USE DEF MatchSafe, NoMatchUnderLatch, M!Active, stopVars, matchVars
  <2>1. CASE Buttons
    <3>1. CASE FieldEStop
      BY <1>2, <3>1 DEF FieldEStop, M!MatchEnds
    <3> QED
      BY <1>2, <2>1, <3>1 DEF Buttons, ClearFieldEStop, ClearAll, StationEStop, ClearEStop, TeamStop
  <2>2. CASE MatchGoesOn
    <3>1. CASE CreateMatch \/ ClearMatch \/ CancelMatch \/ StationsReleased
      BY <1>2, <3>1 DEF CreateMatch, ClearMatch, CancelMatch, StationsReleased, Released,
         M!CreateMatch, M!ClearMatch, M!CancelMatch
    <3>2. CASE MatchMoves
      BY <1>2, <3>2 DEF MatchMoves, M!StartMatch, M!AbortCountdown, M!RobotsGo, M!MatchEnds
    <3>3. ASSUME NEW s \in Station, Join(s) PROVE MatchSafe'
      BY <1>2, <3>3 DEF Join
    <3>4. ASSUME NEW s \in Station, Leave(s) PROVE MatchSafe'
      BY <1>2, <3>4 DEF Leave, M!MatchEnds
    <3> QED
      BY <2>2, <3>1, <3>2, <3>3, <3>4 DEF MatchGoesOn
  <2>3. CASE Poll
    BY <1>2, <2>3 DEF Poll
  <2>4. CASE Kernel
    <3>1. UNCHANGED <<stopVars, matchVars>>
      BY <2>4 DEF Kernel, Apply, TrunkGoes, TrunkGone, TrunkComes, TrunkBack
    <3> QED
      BY <1>2, <3>1
  <2>5. CASE Restart
    BY <2>5 DEF Restart, RestartWith, NoStops, M!Restart
  <2>6. CASE \E s \in Station, w \in {"enabled", "disabled", "unclear"} : Note(s, w)
    BY <1>2, <2>6 DEF Note
  <2>7. CASE \E s \in Station : RobotMoves(s) \/ Silent(s)
    BY <1>2, <2>7 DEF RobotMoves, Silent
  <2>8. CASE UNCHANGED vars
    BY <1>2, <2>8 DEF vars
  <2> QED
    BY <1>2, <2>1, <2>2, <2>3, <2>4, <2>5, <2>6, <2>7, <2>8 DEF Next
<1> QED
  BY <1>1, <1>2, Invariance, PTL DEF Spec

\* No match goes on under the field E-Stop.
THEOREM LatchHoldsMatches == Spec => []NoMatchUnderLatch
<1>1. MatchSafe => NoMatchUnderLatch
  BY DEF MatchSafe
<1> QED
  BY <1>1, MatchInvariance, PTL

\* What a press, a clear or a restart makes of the match is a step of it.
LEMMA MatchStep ==
  ASSUME PressType, MatchSafe, Next
  PROVE  M!Next \/ M!Restart \/ UNCHANGED M!vars
<1> USE DEF M!Next, M!vars, matchVars
<1>1. CASE Buttons
  <2>1. CASE FieldEStop
    BY <2>1 DEF FieldEStop
  <2> QED
    BY <1>1, <2>1 DEF Buttons, ClearFieldEStop, ClearAll, StationEStop, ClearEStop, TeamStop
<1>2. CASE MatchGoesOn
  <2>1. CASE CreateMatch \/ ClearMatch \/ CancelMatch
    BY <2>1 DEF CreateMatch, ClearMatch, CancelMatch
  <2>2. CASE StationsReleased
    BY <2>2 DEF StationsReleased
  <2>3. CASE MatchMoves
    BY <2>3 DEF MatchMoves
  <2>4. ASSUME NEW s \in Station, Join(s) PROVE M!Next \/ UNCHANGED M!vars
    BY <2>4 DEF Join, M!JoinsOrLeaves
  <2>5. ASSUME NEW s \in Station, Leave(s) PROVE M!Next \/ UNCHANGED M!vars
    <3>1. s \in joined /\ joined' = joined \ {s} /\ (M!MatchEnds \/ UNCHANGED match)
      BY <2>5 DEF Leave
    <3>2. CASE M!Active
      BY <2>5, <3>1, <3>2 DEF Leave
    <3>3. CASE ~M!Active
      <4>1. match' = match /\ match \in {"idle", "created", "over"}
        BY <2>5, <3>3 DEF Leave, M!Active, PressType
      <4>2. CASE match = "created" /\ joined' = {}
        <5>1. M!JoinsOrLeaves
          BY <3>1, <4>1, <4>2 DEF M!JoinsOrLeaves
        <5> QED
          BY <5>1
      <4>3. CASE match = "over" \/ joined' # {}
        BY <3>1, <4>1, <4>3
      <4>4. match # "idle"
        BY <3>1 DEF MatchSafe
      <4> QED
        BY <4>1, <4>2, <4>3, <4>4
    <3> QED
      BY <3>2, <3>3
  <2> QED
    BY <1>2, <2>1, <2>2, <2>3, <2>4, <2>5 DEF MatchGoesOn
<1>3. CASE Poll
  BY <1>3 DEF Poll
<1>4. CASE Kernel
  BY <1>4 DEF Kernel, Apply, TrunkGoes, TrunkGone, TrunkComes, TrunkBack
<1>5. CASE Restart
  BY <1>5 DEF Restart, RestartWith
<1>6. CASE \E s \in Station, w \in {"enabled", "disabled", "unclear"} : Note(s, w)
  BY <1>6 DEF Note
<1>7. CASE \E s \in Station : RobotMoves(s) \/ Silent(s)
  BY <1>7 DEF RobotMoves, Silent
<1> QED
  BY <1>1, <1>2, <1>3, <1>4, <1>5, <1>6, <1>7 DEF Next

\* Stops are pressed around a match as MatchPhases has it, the one the queue and
\* the Wi-Fi follow, over any number of restarts.
THEOREM StopsFollowTheMatch == Spec => M!Init /\ [][M!Next \/ M!Restart]_(M!vars)
<1>1. Init => M!Init
  BY DEF Init, M!Init
<1>2. IInv /\ MatchSafe /\ [Next]_vars => [M!Next \/ M!Restart]_(M!vars)
  <2>1. ASSUME UNCHANGED vars PROVE UNCHANGED M!vars
    BY <2>1 DEF vars, matchVars, M!vars
  <2> QED
    BY <2>1, MatchStep, TypeParts DEF IInv
<1> QED
  BY <1>1, <1>2, Invariance, MatchInvariance, PTL DEF Spec
=============================================================================
