-------------------------- MODULE MatchEngineProofs --------------------------
(***************************************************************************)
(* Proofs about MatchEngine and MatchAudit, for every set of stations,     *)
(* every set of configurations and every duration.                         *)
(***************************************************************************)
EXTENDS MatchAudit, FiniteSetTheorems, TLAPS

\* A pause knows which period it interrupted.
PauseKnows == phase = "paused" => prePausePhase \in RobotPhase

\* The type invariant apart from the flags, with what keeps it inductive: a
\* resume sets the phase to what the pause recorded.
DataType ==
  /\ ClockType /\ PauseKnows /\ MatchType /\ RosterType
  /\ CheckType /\ RobotType /\ StopType /\ RelayType

Reason == {"none", "normal", "stopped", "estop", "abandoned"}
Source == {"none", "admin", "self", "ds", "estop", "relay"}

-----------------------------------------------------------------------------
\* Types.

\* The number of stations that come before one is a number: the slots and the
\* relay legs are counted off a finite set.
LEMMA PlaceType ==
  ASSUME NEW s, NEW S \in SUBSET Station
  PROVE  Place(s, S) \in Nat
<1>1. IsFiniteSet(S)
  BY StationAssumption, FS_Subset
<1>2. IsFiniteSet({t \in S : t <= s})
  BY <1>1, FS_Subset
<1> QED
  BY <1>2, FS_CardinalityType DEF Place

\* The place a joining team takes in its alliance is a number.
LEMMA SlotType ==
  ASSUME RosterType, NEW s \in joined
  PROVE  JoinedSlot(s) \in (Alliance \cup {"none"}) \X Nat
<1>1. AllianceStations(alliance[s]) \in SUBSET Station
  BY DEF AllianceStations, RosterType
<1> QED
  BY <1>1, PlaceType DEF JoinedSlot, RosterType

\* Starting a match, by hand or because everyone is ready, keeps the types.
LEMMA StartType == DataType /\ StartMatch => DataType'
<1> SUFFICES ASSUME DataType, StartMatch PROVE DataType'
  OBVIOUS
<1> USE DEF DataType, StartMatch
<1>1. RosterType'
  BY SlotType DEF RosterType, NoSlot
<1>2. ClockType' /\ MatchType' /\ CheckType' /\ RobotType' /\ StopType' /\ PauseKnows'
  BY TimingAssumption DEF RosterType, ClockType, MatchType, CheckType, RobotType, StopType,
     PauseKnows, Set, Phase, checkVars, fieldVars
<1>3. RelayType'
  BY DEF RosterType, RelayType, Set, AllianceStations
<1> QED
  BY <1>1, <1>2, <1>3

\* Enabling everyone who takes part leaves commands, and A-Stops, in their types.
LEMMA EnableType ==
  ASSUME RobotType, RosterType, StopType,
         NEW m \in {"auto", "teleOp"}, EnableParticipating(m)
  PROVE  RobotType' /\ aStop' \subseteq Station
BY DEF RobotType, RosterType, StopType, EnableParticipating, Set

\* So does enabling one robot.
LEMMA EnableOneType ==
  ASSUME RobotType, NEW s \in Station, EnableOne(s)
  PROVE  RobotType'
BY DEF RobotType, EnableOne

\* The winner of auto is an alliance, or still nobody if the host is to pick.
LEMMA WinnerType == MatchType /\ ComputeAutoWinner => autoWinner' \in Alliance \cup {"none"}
<1> SUFFICES ASSUME MatchType, ComputeAutoWinner PROVE autoWinner' \in Alliance \cup {"none"}
  OBVIOUS
<1>1. config.autoWinner \in {"scores", "pause", "red", "blue"}
  BY ConfigAssumption DEF MatchType, WellFormedConfig, ConfigShape, OfficialConfig, NoConfig
<1> QED
  BY <1>1 DEF MatchType, ComputeAutoWinner, Alliance

\* Stopping an alliance's clock keeps the types, whichever branch it takes.
LEMMA FinishType ==
  ASSUME DataType, NEW a \in Alliance, NEW on \in SUBSET Station,
         NEW by \in [Station -> Source], NEW who \in {"admin", "relay"},
         RecordFinish(a, on, by, who)
  PROVE  /\ ClockType' /\ PauseKnows' /\ endReason' \in Reason /\ finished' \subseteq Alliance
         /\ RobotType'
BY TimingAssumption DEF DataType, RosterType, ClockType, MatchType, RobotType, RelayType,
   PauseKnows, RecordFinish, EndMatch, Set, AllianceStations, Phase, Reason, Source

\* So does a hand-off.
LEMMA AdvanceType ==
  ASSUME DataType, NEW a \in Alliance, NEW on \in SUBSET Station,
         NEW by \in [Station -> Source], Advance(a, on, by)
  PROVE  /\ ClockType' /\ PauseKnows' /\ endReason' \in Reason /\ finished' \subseteq Alliance
         /\ RobotType' /\ legs' \in [Alliance -> Nat]
<1> DEFINE down == [x \in Station |-> IF x \in Runner(a) THEN "relay" ELSE by[x]]
           left == on \ Runner(a)
           next == Leg(a, legs[a] + 1)
<1>1. legs' \in [Alliance -> Nat]
  BY DEF Advance, DataType, RelayType
<1>2. down \in [Station -> Source] /\ left \in SUBSET Station
  BY DEF Source
<1>3. CASE next = {}
  <2>1. RecordFinish(a, left, down, "relay")
    BY <1>3 DEF Advance
  <2> HIDE DEF down, left
  <2> QED
    BY <1>1, <1>2, <2>1, FinishType
<1>4. CASE next # {}
  <2>1. next \subseteq Station
    BY DEF Leg, DataType, RelayType
  <2> QED
    BY <1>1, <1>4, <2>1 DEF Advance, DataType, ClockType, RobotType, MatchType, RelayType,
       PauseKnows, Set, clockVars, Reason, Source
<1> QED
  BY <1>3, <1>4

\* And so does a team's own disable, hand-off or not.
LEMMA HandOffType ==
  ASSUME DataType, NEW s \in Station, NEW who \in {"self", "ds"}, DisableMaybeHandOff(s, who)
  PROVE  /\ ClockType' /\ PauseKnows' /\ endReason' \in Reason /\ finished' \subseteq Alliance
         /\ RobotType' /\ legs' \in [Alliance -> Nat]
<1> DEFINE on == enabled \ {s}
           by == [disabledBy EXCEPT ![s] = who]
<1>1. on \in SUBSET Station /\ by \in [Station -> Source]
  BY DEF DataType, RobotType, Source
<1>2. CASE alliance[s] \in Alliance /\ Advance(alliance[s], on, by)
  <2> HIDE DEF on, by
  <2> QED
    BY <1>1, <1>2, AdvanceType
<1>3. CASE /\ enabled' = on /\ disabledBy' = by
           /\ UNCHANGED <<clockVars, endReason, legs, finished, mode>>
  BY <1>1, <1>3 DEF DataType, ClockType, PauseKnows, MatchType, RelayType, RobotType, Source,
     Reason, clockVars
<1> QED
  BY <1>2, <1>3 DEF DisableMaybeHandOff

\* The constructor leaves every variable in its type.
LEMMA TypeInit == Init => DataType /\ FlagType
<1> SUFFICES ASSUME Init PROVE DataType /\ FlagType
  OBVIOUS
<1>1. ClockType /\ PauseKnows
  BY DEF Init, ClockType, PauseKnows, Phase, RobotPhase
<1>2. FlagType
  BY DEF Init, FlagType
<1>3. MatchType
  BY DEF Init, MatchType, Alliance
<1>4. RosterType
  BY DEF Init, RosterType, NoSlot
<1>5. CheckType
  BY DEF Init, CheckType
<1>6. RobotType
  BY DEF Init, RobotType
<1>7. StopType
  BY DEF Init, StopType
<1>8. RelayType
  BY DEF Init, RelayType
<1> QED
  BY <1>1, <1>2, <1>3, <1>4, <1>5, <1>6, <1>7, <1>8 DEF DataType

\* Clearing one E-Stop, the field's or all of them is one handler's work.
LEMMA StopsCases ==
  ASSUME StopType, FlagType, Stops
  PROVE  \/ FieldEStop
         \/ \E field \in BOOLEAN, own \in SUBSET Station : ClearEStops(field, own)
         \/ \E s \in Station : StationEStop(s) \/ StationAStop(s) \/ StationClearAStop(s)
         \/ \E s \in Station, source \in {"admin", "self"} : StationDisable(s, source)
BY DEF StopType, FlagType, Stops, ClearFieldEStop, ClearEStop, ClearAllEStops

\* The flags only ever become true, false or what they were.
LEMMA FlagStep == StopType /\ FlagType /\ Next => FlagType'
<1> SUFFICES ASSUME StopType, FlagType, Next PROVE FlagType'
  OBVIOUS
<1>0. StopType /\ DsStation \subseteq Station /\ PolicyStation \subseteq Station
  BY StationAssumption
<1> USE DEF FlagType, clockVars, checkVars, stopVars
<1>1. CASE Setup
  <2>1. CASE CreateMatch
    BY <2>1 DEF CreateMatch, CloseReadyCheck
  <2>2. CASE CancelMatch
    BY <2>2 DEF CancelMatch, CloseReadyCheck
  <2>3. ASSUME NEW s \in Station, NEW a \in Alliance, Join(s, a) PROVE FlagType'
    BY <2>3 DEF Join, CloseReadyCheck
  <2>4. ASSUME NEW S \in SUBSET Station, Evict(S) PROVE FlagType'
    BY <2>4 DEF Evict, CloseReadyCheck
  <2>5. ASSUME NEW s \in Station, LeaveStation(s) PROVE FlagType'
    BY <2>5 DEF LeaveStation, CloseReadyCheck, CutShort, EndMatch, StopTick
  <2>6. ASSUME NEW c \in Config, UpdateMatchConfig(c) PROVE FlagType'
    BY <2>6 DEF UpdateMatchConfig, CloseReadyCheck
  <2>7. CASE RequestReady
    BY <2>7 DEF RequestReady
  <2>8. CASE RetractReady
    BY <2>8 DEF RetractReady, CloseReadyCheck
  <2>9. CASE UnreadySweep
    BY <2>9 DEF UnreadySweep
  <2>10. CASE GetReady
    BY <2>10 DEF GetReady
  <2>11. ASSUME NEW s \in Station, NEW r \in BOOLEAN, NEW forced \in BOOLEAN, SetReady(s, r, forced)
       PROVE FlagType'
    BY <2>11 DEF SetReady
  <2>12. ASSUME NEW role \in Role, NEW b \in BOOLEAN, SetStaffReady(role, b) PROVE FlagType'
    BY <2>12 DEF SetStaffReady
  <2>13. ASSUME NEW role \in Role, NEW b \in BOOLEAN, SetStaffIgnored(role, b) PROVE FlagType'
    BY <2>13 DEF SetStaffIgnored
  <2>14. ASSUME NEW h \in StartHold, StartHoldOver(h) PROVE FlagType'
    BY <2>14 DEF StartHoldOver
  <2> QED
    BY <1>1, <2>1, <2>2, <2>3, <2>4, <2>5, <2>6, <2>7, <2>8, <2>9, <2>10, <2>11, <2>12,
       <2>13, <2>14 DEF Setup, CancelEmptySetup, SwapStationAlliance, KickStation
<1>2. CASE Play
  <2>1. CASE StartMatch
    BY <2>1 DEF StartMatch, StartTick
  <2>2. CASE StopMatch
    BY <2>2 DEF StopMatch, CutShort, EndMatch, StopTick
  <2>3. CASE PauseMatch
    BY <2>3 DEF PauseMatch, StopTick
  <2>4. CASE ResumeMatch
    BY <2>4 DEF ResumeMatch
  <2>5. CASE CompleteResume
    BY <2>5 DEF CompleteResume, StartTick
  <2>6. ASSUME NEW S \in SUBSET Station, AbortCountdown(S) PROVE FlagType'
    BY <2>6 DEF AbortCountdown, StopTick
  <2>7. ASSUME NEW w \in Alliance, SetAutoWinner(w) PROVE FlagType'
    BY <2>7 DEF SetAutoWinner, StartTick
  <2>8. CASE ClearMatch
    BY <2>8 DEF ClearMatch, CloseReadyCheck, StopTick
  <2>9. ASSUME NEW a \in Alliance, ChallengeFinish(a) PROVE FlagType'
    BY <2>9 DEF ChallengeFinish, RecordFinish, EndMatch
  <2>10. ASSUME NEW a \in Alliance, RelayAdvance(a) PROVE FlagType'
    BY <2>10 DEF RelayAdvance, Advance, RecordFinish, EndMatch
  <2>11. CASE Tick
    <3>1. PICK e \in 1..MaxElapsed :
            \/ RunsOn(Drained(e)) \/ EndgameStarts(Drained(e)) \/ CountdownOver
            \/ AutoOver \/ AutoPauseOver \/ TeleopOver \/ CountOver
      BY <2>11 DEF Tick
    <3> DEFINE r == Drained(e)
    <3>2. CASE RunsOn(r)
      BY <2>11, <3>2 DEF Tick, RunsOn
    <3>3. CASE EndgameStarts(r)
      BY <2>11, <3>3 DEF Tick, EndgameStarts
    <3>4. CASE CountdownOver
      BY <2>11, <3>4 DEF Tick, CountdownOver, PeriodBegins
    <3>5. CASE AutoOver
      BY <2>11, <3>5 DEF Tick, AutoOver, StopTick
    <3>6. CASE AutoPauseOver
      BY <2>11, <3>6 DEF Tick, AutoPauseOver, PeriodBegins
    <3>7. CASE TeleopOver
      BY <2>11, <3>7 DEF Tick, TeleopOver, EndMatch
    <3>8. CASE CountOver
      BY <2>11, <3>8 DEF Tick, CountOver, StopTick
    <3> QED
      BY <3>1, <3>2, <3>3, <3>4, <3>5, <3>6, <3>7, <3>8
  <2> QED
    BY <1>2, <2>1, <2>2, <2>3, <2>4, <2>5, <2>6, <2>7, <2>8, <2>9, <2>10, <2>11 DEF Play,
       AutoClearFires
<1>3. CASE Stops
  <2>1. CASE FieldEStop
    BY <2>1 DEF FieldEStop, CutShort, EndMatch, StopTick
  <2>2. ASSUME NEW field \in BOOLEAN, NEW own \in SUBSET Station, ClearEStops(field, own)
       PROVE FlagType'
    BY <2>2 DEF ClearEStops
  <2>3. ASSUME NEW s \in Station, StationEStop(s) PROVE FlagType'
    BY <2>3 DEF StationEStop
  <2>4. ASSUME NEW s \in Station, StationAStop(s) PROVE FlagType'
    BY <2>4 DEF StationAStop
  <2>5. ASSUME NEW s \in Station, StationClearAStop(s) PROVE FlagType'
    BY <2>5 DEF StationClearAStop
  <2>6. ASSUME NEW s \in Station, NEW source \in {"admin", "self"}, StationDisable(s, source)
       PROVE FlagType'
    BY <2>6 DEF StationDisable, DisableMaybeHandOff, Advance, RecordFinish, EndMatch
  <2> QED
    BY <1>3, <2>1, <2>2, <2>3, <2>4, <2>5, <2>6, <1>0, StopsCases
<1>4. CASE Reports
  <2>1. ASSUME NEW s \in Station, DsReportsStatus(s) PROVE FlagType'
    BY <2>1 DEF DsReportsStatus
  <2>2. ASSUME NEW s \in Station, DsReportsDisabled(s) PROVE FlagType'
    BY <2>2 DEF DsReportsDisabled, DisableMaybeHandOff, Advance, RecordFinish, EndMatch
  <2>3. ASSUME NEW s \in Station, DsQuiet(s) PROVE FlagType'
    BY <2>3 DEF DsQuiet
  <2>4. ASSUME NEW s \in Station, NEW bit \in {"eStop", "aStop"}, DsReportsStop(s, bit)
       PROVE FlagType'
    BY <2>4 DEF DsReportsStop
  <2>5. ASSUME NEW s \in Station, PolicyChanges(s) PROVE FlagType'
    BY <2>5 DEF PolicyChanges
  <2> QED
    BY <1>4, <2>1, <2>2, <2>3, <2>4, <2>5, <1>0 DEF Reports
<1>5. CASE Enables
  <2>1. ASSUME NEW s \in Station, NEW byAdmin \in BOOLEAN, Undisable(s, byAdmin) PROVE FlagType'
    BY <2>1 DEF Undisable
  <2> QED
    BY <1>5, <2>1 DEF Enables
<1> QED
  BY <1>1, <1>2, <1>3, <1>4, <1>5 DEF Next, NextButEnable

\* Every other variable keeps its type too.
LEMMA DataStep == DataType /\ FlagType /\ Next => DataType'
<1> SUFFICES ASSUME DataType, FlagType, Next PROVE DataType'
  OBVIOUS
<1>0. StopType /\ DsStation \subseteq Station /\ PolicyStation \subseteq Station
  BY StationAssumption DEF DataType
<1> USE DEF DataType, ClockType, PauseKnows, MatchType, RosterType, CheckType, RobotType,
            StopType, RelayType, Phase, RobotPhase, Alliance, clockVars, matchVars,
            rosterVars, checkVars, robotVars, stopVars, relayVars, fieldVars, Set, NoSlot
<1>1. CASE Setup
  <2>1. CASE CreateMatch
    BY <2>1 DEF CreateMatch, CloseReadyCheck, ReadyBecomes
  <2>2. CASE CancelMatch
    BY <2>2 DEF CancelMatch, CloseReadyCheck, ReadyBecomes, Unjoin
  <2>3. ASSUME NEW s \in Station, NEW a \in Alliance, Join(s, a) PROVE DataType'
    BY <2>3 DEF Join, CloseReadyCheck, ReadyBecomes
  <2>4. ASSUME NEW S \in SUBSET Station, Evict(S) PROVE DataType'
    BY <2>4 DEF Evict, CloseReadyCheck, ReadyBecomes, Unjoin
  <2>5. ASSUME NEW s \in Station, LeaveStation(s) PROVE DataType'
    BY <2>5, TimingAssumption DEF LeaveStation, CloseReadyCheck, ReadyBecomes, Unjoin,
       CutShort, EndMatch,
       StopTick
  <2>6. ASSUME NEW c \in Config, UpdateMatchConfig(c) PROVE DataType'
    BY <2>6 DEF UpdateMatchConfig, CloseReadyCheck, ReadyBecomes
  <2>7. CASE RequestReady
    BY <2>7 DEF RequestReady, ReadyBecomes
  <2>8. CASE RetractReady
    BY <2>8 DEF RetractReady, CloseReadyCheck, ReadyBecomes
  <2>9. CASE UnreadySweep
    BY <2>9 DEF UnreadySweep
  <2>10. CASE GetReady
    BY <2>10 DEF GetReady, ReadyBecomes
  <2>11. ASSUME NEW s \in Station, NEW r \in BOOLEAN, NEW forced \in BOOLEAN, SetReady(s, r, forced)
       PROVE DataType'
    BY <2>11 DEF SetReady
  <2>12. ASSUME NEW role \in Role, NEW b \in BOOLEAN, SetStaffReady(role, b) PROVE DataType'
    BY <2>12 DEF SetStaffReady
  <2>13. ASSUME NEW role \in Role, NEW b \in BOOLEAN, SetStaffIgnored(role, b) PROVE DataType'
    BY <2>13 DEF SetStaffIgnored
  <2>14. ASSUME NEW h \in StartHold, StartHoldOver(h) PROVE DataType'
    BY <2>14 DEF StartHoldOver
  <2> HIDE DEF DataType, StopType
  <2> QED
    BY <1>1, <2>1, <2>2, <2>3, <2>4, <2>5, <2>6, <2>7, <2>8, <2>9, <2>10, <2>11, <2>12,
       <2>13, <2>14 DEF Setup, CancelEmptySetup, SwapStationAlliance, KickStation
<1>2. CASE Play
  <2>1. CASE StartMatch
    BY <2>1, StartType DEF StartMatch
  <2>2. CASE StopMatch
    BY <2>2 DEF StopMatch, CutShort, EndMatch, StopTick
  <2>3. CASE PauseMatch
    BY <2>3 DEF PauseMatch, Running, StopTick
  <2>4. CASE ResumeMatch
    BY <2>4 DEF ResumeMatch
  <2>5. CASE CompleteResume
    <3>1. CASE phase = "paused"
      BY <2>5, <3>1, EnableType DEF CompleteResume
    <3>2. CASE phase # "paused"
      BY <2>5, <3>2 DEF CompleteResume
    <3> QED
      BY <3>1, <3>2
  <2>6. ASSUME NEW S \in SUBSET Station, AbortCountdown(S) PROVE DataType'
    BY <2>6 DEF AbortCountdown, ReadyBecomes, StopTick
  <2>7. ASSUME NEW w \in Alliance, SetAutoWinner(w) PROVE DataType'
    BY <2>7 DEF SetAutoWinner, StartTick
  <2>8. CASE ClearMatch
    BY <2>8 DEF ClearMatch, CloseReadyCheck, ReadyBecomes, StopTick
  <2>9. ASSUME NEW a \in Alliance, ChallengeFinish(a) PROVE DataType'
    BY <2>9, TimingAssumption DEF ChallengeFinish, RecordFinish, EndMatch
  <2>10. ASSUME NEW a \in Alliance, RelayAdvance(a) PROVE DataType'
    BY <2>10, AdvanceType DEF RelayAdvance, Reason, Source
  <2>11. CASE Tick
    <3>1. PICK e \in 1..MaxElapsed :
            \/ RunsOn(Drained(e)) \/ EndgameStarts(Drained(e)) \/ CountdownOver
            \/ AutoOver \/ AutoPauseOver \/ TeleopOver \/ CountOver
      BY <2>11 DEF Tick
    <3> DEFINE r == Drained(e)
    <3> r \in Nat
      BY DEF Drained
    <3>2. CASE RunsOn(r)
      BY <2>11, <3>2 DEF Tick, RunsOn
    <3>3. CASE EndgameStarts(r)
      BY <2>11, <3>3 DEF Tick, EndgameStarts
    <3>4. CASE CountdownOver
      BY <2>11, <3>4, EnableType, TimingAssumption DEF Tick, CountdownOver, PeriodBegins
    <3>5. CASE AutoOver
      BY <2>11, <3>5, TimingAssumption DEF Tick, AutoOver, StopTick
    <3>6. CASE AutoPauseOver
      BY <2>11, <3>6, EnableType, WinnerType, TimingAssumption DEF Tick, AutoPauseOver,
         PeriodBegins
    <3>7. CASE TeleopOver
      BY <2>11, <3>7, TimingAssumption DEF Tick, TeleopOver, EndMatch
    <3>8. CASE CountOver
      BY <2>11, <3>8 DEF Tick, CountOver, StopTick, ReadyBecomes
    <3> QED
      BY <3>1, <3>2, <3>3, <3>4, <3>5, <3>6, <3>7, <3>8
  <2> HIDE DEF DataType, StopType
  <2> QED
    BY <1>2, <2>1, <2>2, <2>3, <2>4, <2>5, <2>6, <2>7, <2>8, <2>9, <2>10, <2>11 DEF Play,
       AutoClearFires
<1>3. CASE Stops
  <2>1. CASE FieldEStop
    BY <2>1 DEF FieldEStop, CutShort, EndMatch, StopTick
  <2>2. ASSUME NEW field \in BOOLEAN, NEW own \in SUBSET Station, ClearEStops(field, own)
       PROVE DataType'
    BY <2>2 DEF ClearEStops, CameOutOfEStop
  <2>3. ASSUME NEW s \in Station, StationEStop(s) PROVE DataType'
    BY <2>3 DEF StationEStop
  <2>4. ASSUME NEW s \in Station, StationAStop(s) PROVE DataType'
    BY <2>4 DEF StationAStop
  <2>5. ASSUME NEW s \in Station, StationClearAStop(s) PROVE DataType'
    BY <2>5 DEF StationClearAStop
  <2>6. ASSUME NEW s \in Station, NEW source \in {"admin", "self"}, StationDisable(s, source)
       PROVE DataType'
    <3>1. CASE source = "self" /\ s \in enabled
      BY <2>6, <3>1, HandOffType DEF StationDisable, Reason
    <3>2. CASE /\ enabled' = enabled \ {s} /\ disabledBy' = [disabledBy EXCEPT ![s] = source]
               /\ UNCHANGED <<clockVars, endReason, legs, finished, mode>>
      BY <2>6, <3>2 DEF StationDisable
    <3> QED
      BY <2>6, <3>1, <3>2 DEF StationDisable
  <2> HIDE DEF DataType, StopType
  <2> QED
    BY <1>3, <2>1, <2>2, <2>3, <2>4, <2>5, <2>6, <1>0, StopsCases
<1>4. CASE Reports
  <2>1. ASSUME NEW s \in Station, DsReportsStatus(s) PROVE DataType'
    <3>1. RobotType'
      <4>1. CASE DsBack(s)
        BY <2>1, <4>1, EnableOneType DEF DsReportsStatus
      <4>2. CASE ~DsBack(s)
        BY <2>1, <4>2 DEF DsReportsStatus
      <4> QED
        BY <4>1, <4>2
    <3>2. attached' \subseteq Station
      BY <2>1, <1>0 DEF DsReportsStatus
    <3> QED
      BY <2>1, <3>1, <3>2 DEF DsReportsStatus
  <2>2. ASSUME NEW s \in Station, DsReportsDisabled(s) PROVE DataType'
    BY <2>2, HandOffType DEF DsReportsDisabled, Reason
  <2>3. ASSUME NEW s \in Station, DsQuiet(s) PROVE DataType'
    BY <2>3 DEF DsQuiet
  <2>4. ASSUME NEW s \in Station, NEW bit \in {"eStop", "aStop"}, DsReportsStop(s, bit)
       PROVE DataType'
    BY <2>4 DEF DsReportsStop
  <2>5. ASSUME NEW s \in Station, PolicyChanges(s) PROVE DataType'
    BY <2>5 DEF PolicyChanges
  <2> HIDE DEF DataType, StopType
  <2> QED
    BY <1>4, <2>1, <2>2, <2>3, <2>4, <2>5, <1>0 DEF Reports
<1>5. CASE Enables
  <2>1. ASSUME NEW s \in Station, NEW byAdmin \in BOOLEAN, Undisable(s, byAdmin) PROVE DataType'
    BY <2>1 DEF Undisable, EnableOne
  <2> HIDE DEF DataType, StopType
  <2> QED
    BY <1>5, <2>1 DEF Enables
<1> QED
  BY <1>1, <1>2, <1>3, <1>4, <1>5 DEF Next, NextButEnable

\* What the steps do is done by stuttering as well.
LEMMA TypeStutter == DataType /\ FlagType /\ UNCHANGED vars => DataType' /\ FlagType'
<1> SUFFICES ASSUME DataType, FlagType, UNCHANGED vars PROVE DataType' /\ FlagType'
  OBVIOUS
<1> USE DEF vars, clockVars, matchVars, rosterVars, checkVars, robotVars, stopVars, relayVars,
            fieldVars
<1>1. FlagType'
  BY DEF FlagType
<1>2. DataType'
  BY DEF DataType, ClockType, PauseKnows, MatchType, RosterType, CheckType, RobotType,
     StopType, RelayType
<1> QED
  BY <1>1, <1>2

\* So the types hold in every state of every behaviour.
LEMMA TypeInvariant == Spec => [](DataType /\ FlagType)
<1>1. Init => DataType /\ FlagType
  BY TypeInit
<1>2. DataType /\ FlagType /\ [Next]_vars => (DataType /\ FlagType)'
  BY DataStep, FlagStep, TypeStutter DEF DataType
<1> QED
  BY <1>1, <1>2, PTL DEF Spec

\* Type correctness: every value a variable takes is one the code can give it,
\* with any number of stations, any configurations and any durations.
THEOREM TypeCorrect == Spec => []TypeOK
<1>1. DataType /\ FlagType => TypeOK
  BY DEF DataType, TypeOK
<1> QED
  BY <1>1, TypeInvariant, PTL

-----------------------------------------------------------------------------
\* Safety.

\* A robot that is enabled has no disable written against it: what took it down
\* is always gone before, or with, what brings it back.
EnabledIsUnmarked == \A s \in enabled : disabledBy[s] = "none"

ClockSafe ==
  /\ ResumeOnlyWhilePaused /\ AutoClearOnlyAfterMatch
  /\ FieldEStopEndsMatch /\ AStopEndsWithAuto
RobotSafe == OnlyLiveRobotsEnabled /\ StopsHold /\ EnabledIsUnmarked

\* Enabling everyone who takes part is safe in whatever phase comes next.
LEMMA EnableSafe ==
  ASSUME RobotType, RosterType, RobotSafe, NEW m, EnableParticipating(m),
         UNCHANGED <<joined, eStop, fieldEStop>>, phase' \in RobotPhase
  PROVE  RobotSafe'
<1> USE DEF EnableParticipating, CanEnable, RobotSafe, OnlyLiveRobotsEnabled, StopsHold,
            EnabledIsUnmarked, IsEStopped, Running
<1>1. OnlyLiveRobotsEnabled'
  BY DEF RobotType
<1>2. StopsHold'
  BY DEF RobotType
<1>3. EnabledIsUnmarked'
  BY DEF RobotType, RosterType, Set
<1> QED
  BY <1>1, <1>2, <1>3

\* No handler and no timer leaves a resume or an auto-clear behind for the wrong
\* match, lets a match run on under a field E-Stop, or an A-Stop into teleop.
LEMMA ClockStep == DataType /\ FlagType /\ ClockSafe /\ Next => ClockSafe'
<1> SUFFICES ASSUME DataType, FlagType, ClockSafe, Next PROVE ClockSafe'
  OBVIOUS
<1>0. StopType /\ DsStation \subseteq Station /\ PolicyStation \subseteq Station
  BY StationAssumption DEF DataType
<1>a. /\ resuming \in BOOLEAN /\ autoClear \in BOOLEAN /\ fieldEStop \in BOOLEAN
      /\ phase \in Phase
  BY DEF FlagType, DataType, ClockType
<1> USE <1>a DEF ClockSafe, ResumeOnlyWhilePaused, AutoClearOnlyAfterMatch, FieldEStopEndsMatch,
            AStopEndsWithAuto, Phase, RobotPhase, MatchActive, Running, clockVars, stopVars
<1>1. CASE Setup
  <2>1. CASE CreateMatch
    BY <2>1 DEF CreateMatch, CloseReadyCheck, ReadyBecomes
  <2>2. CASE CancelMatch
    BY <2>2 DEF CancelMatch, CloseReadyCheck, ReadyBecomes, Unjoin
  <2>3. ASSUME NEW s \in Station, NEW a \in Alliance, Join(s, a) PROVE ClockSafe'
    BY <2>3 DEF Join, CloseReadyCheck, ReadyBecomes
  <2>4. ASSUME NEW S \in SUBSET Station, Evict(S) PROVE ClockSafe'
    BY <2>4 DEF Evict, CloseReadyCheck, ReadyBecomes, Unjoin
  <2>5. ASSUME NEW s \in Station, LeaveStation(s) PROVE ClockSafe'
    BY <2>5 DEF LeaveStation, CloseReadyCheck, ReadyBecomes, Unjoin, CutShort, EndMatch,
       StopTick
  <2>6. ASSUME NEW c \in Config, UpdateMatchConfig(c) PROVE ClockSafe'
    BY <2>6 DEF UpdateMatchConfig, CloseReadyCheck, ReadyBecomes
  <2>7. CASE RequestReady
    BY <2>7 DEF RequestReady, ReadyBecomes
  <2>8. CASE RetractReady
    BY <2>8 DEF RetractReady, CloseReadyCheck, ReadyBecomes
  <2>9. CASE UnreadySweep
    BY <2>9 DEF UnreadySweep
  <2>10. CASE GetReady
    BY <2>10 DEF GetReady, ReadyBecomes
  <2>11. ASSUME NEW s \in Station, NEW r \in BOOLEAN, NEW forced \in BOOLEAN, SetReady(s, r, forced)
       PROVE ClockSafe'
    BY <2>11 DEF SetReady
  <2>12. ASSUME NEW role \in Role, NEW b \in BOOLEAN, SetStaffReady(role, b) PROVE ClockSafe'
    BY <2>12 DEF SetStaffReady
  <2>13. ASSUME NEW role \in Role, NEW b \in BOOLEAN, SetStaffIgnored(role, b) PROVE ClockSafe'
    BY <2>13 DEF SetStaffIgnored
  <2>14. ASSUME NEW h \in StartHold, StartHoldOver(h) PROVE ClockSafe'
    BY <2>14 DEF StartHoldOver
  <2> QED
    BY <1>1, <2>1, <2>2, <2>3, <2>4, <2>5, <2>6, <2>7, <2>8, <2>9, <2>10, <2>11, <2>12,
       <2>13, <2>14 DEF Setup, CancelEmptySetup, SwapStationAlliance, KickStation
<1>2. CASE Play
  <2>1. CASE StartMatch
    BY <2>1 DEF StartMatch, CanStart
  <2>2. CASE StopMatch
    BY <2>2 DEF StopMatch, CutShort, EndMatch, StopTick
  <2>3. CASE PauseMatch
    BY <2>3 DEF PauseMatch, Running, StopTick
  <2>4. CASE ResumeMatch
    BY <2>4 DEF ResumeMatch, DataType, PauseKnows
  <2>5. CASE CompleteResume
    BY <2>5 DEF CompleteResume, EnableParticipating, DataType, PauseKnows
  <2>6. ASSUME NEW S \in SUBSET Station, AbortCountdown(S) PROVE ClockSafe'
    BY <2>6 DEF AbortCountdown, ReadyBecomes, StopTick
  <2>7. ASSUME NEW w \in Alliance, SetAutoWinner(w) PROVE ClockSafe'
    BY <2>7 DEF SetAutoWinner, StartTick
  <2>8. CASE ClearMatch
    BY <2>8 DEF ClearMatch, CloseReadyCheck, ReadyBecomes, StopTick
  <2>9. ASSUME NEW a \in Alliance, ChallengeFinish(a) PROVE ClockSafe'
    BY <2>9 DEF ChallengeFinish, CanFinish, RecordFinish, EndMatch
  <2>10. ASSUME NEW a \in Alliance, RelayAdvance(a) PROVE ClockSafe'
    BY <2>10 DEF RelayAdvance, CanFinish, Advance, RecordFinish, EndMatch
  <2>11. CASE Tick
    <3>1. PICK e \in 1..MaxElapsed :
            \/ RunsOn(Drained(e)) \/ EndgameStarts(Drained(e)) \/ CountdownOver
            \/ AutoOver \/ AutoPauseOver \/ TeleopOver \/ CountOver
      BY <2>11 DEF Tick
    <3> DEFINE r == Drained(e)
    <3>2. CASE RunsOn(r)
      BY <2>11, <3>2 DEF Tick, RunsOn
    <3>3. CASE EndgameStarts(r)
      BY <2>11, <3>3 DEF Tick, EndgameStarts
    <3>4. CASE CountdownOver
      BY <2>11, <3>4 DEF Tick, CountdownOver, PeriodBegins, EnableParticipating
    <3>5. CASE AutoOver
      BY <2>11, <3>5 DEF Tick, AutoOver, StopTick
    <3>6. CASE AutoPauseOver
      BY <2>11, <3>6 DEF Tick, AutoPauseOver, PeriodBegins, EnableParticipating
    <3>7. CASE TeleopOver
      BY <2>11, <3>7 DEF Tick, TeleopOver, EndMatch
    <3>8. CASE CountOver
      BY <2>11, <3>8 DEF Tick, CountOver, StopTick, ReadyBecomes
    <3> QED
      BY <3>1, <3>2, <3>3, <3>4, <3>5, <3>6, <3>7, <3>8
  <2> QED
    BY <1>2, <2>1, <2>2, <2>3, <2>4, <2>5, <2>6, <2>7, <2>8, <2>9, <2>10, <2>11 DEF Play,
       AutoClearFires
<1>3. CASE Stops
  <2>1. CASE FieldEStop
    BY <2>1 DEF FieldEStop, CutShort, EndMatch, StopTick
  <2>2. ASSUME NEW field \in BOOLEAN, NEW own \in SUBSET Station, ClearEStops(field, own)
       PROVE ClockSafe'
    BY <2>2 DEF ClearEStops, CameOutOfEStop
  <2>3. ASSUME NEW s \in Station, StationEStop(s) PROVE ClockSafe'
    BY <2>3 DEF StationEStop
  <2>4. ASSUME NEW s \in Station, StationAStop(s) PROVE ClockSafe'
    BY <2>4 DEF StationAStop, CanAStop
  <2>5. ASSUME NEW s \in Station, StationClearAStop(s) PROVE ClockSafe'
    BY <2>5 DEF StationClearAStop
  <2>6. ASSUME NEW s \in Station, NEW source \in {"admin", "self"}, StationDisable(s, source)
       PROVE ClockSafe'
    BY <2>6 DEF StationDisable, DisableMaybeHandOff, CanFinish, Advance, RecordFinish,
       EndMatch
  <2> QED
    BY <1>3, <2>1, <2>2, <2>3, <2>4, <2>5, <2>6, <1>0, StopsCases
<1>4. CASE Reports
  <2>1. ASSUME NEW s \in Station, DsReportsStatus(s) PROVE ClockSafe'
    BY <2>1 DEF DsReportsStatus, EnableOne
  <2>2. ASSUME NEW s \in Station, DsReportsDisabled(s) PROVE ClockSafe'
    BY <2>2 DEF DsReportsDisabled, DisableMaybeHandOff, CanFinish, Advance, RecordFinish,
       EndMatch
  <2>3. ASSUME NEW s \in Station, DsQuiet(s) PROVE ClockSafe'
    BY <2>3 DEF DsQuiet
  <2>4. ASSUME NEW s \in Station, NEW bit \in {"eStop", "aStop"}, DsReportsStop(s, bit)
       PROVE ClockSafe'
    BY <2>4 DEF DsReportsStop, CanAStop
  <2>5. ASSUME NEW s \in Station, PolicyChanges(s) PROVE ClockSafe'
    BY <2>5 DEF PolicyChanges
  <2> QED
    BY <1>4, <2>1, <2>2, <2>3, <2>4, <2>5, <1>0 DEF Reports
<1>5. CASE Enables
  <2>1. ASSUME NEW s \in Station, NEW byAdmin \in BOOLEAN, Undisable(s, byAdmin)
       PROVE ClockSafe'
    BY <2>1 DEF Undisable, EnableOne
  <2> QED
    BY <1>5, <2>1 DEF Enables
<1> QED
  BY <1>1, <1>2, <1>3, <1>4, <1>5 DEF Next, NextButEnable

\* No handler and no timer loses the clock of a match that is on, or of a finished
\* one whose stations are still to be released.
LEMMA TickStep == DataType /\ FlagType /\ ClockRuns /\ Next => ClockRuns'
<1> SUFFICES ASSUME DataType, FlagType, ClockRuns, Next PROVE ClockRuns'
  OBVIOUS
<1>0. StopType /\ DsStation \subseteq Station /\ PolicyStation \subseteq Station
  BY StationAssumption DEF DataType
<1>a. /\ tickTimer \in BOOLEAN /\ leaked \in BOOLEAN
      /\ phase \in Phase /\ joined \subseteq Station /\ PauseKnows
  BY DEF FlagType, DataType, ClockType, RosterType
<1> USE <1>a DEF ClockRuns, Ticking, AwaitingWinner, Phase, RobotPhase, MatchActive, Running,
            clockVars, matchVars, rosterVars
<1>1. CASE Setup
  <2>1. CASE CreateMatch
    BY <2>1 DEF CreateMatch, CloseReadyCheck, ReadyBecomes
  <2>2. CASE CancelMatch
    BY <2>2 DEF CancelMatch, CloseReadyCheck, ReadyBecomes, Unjoin
  <2>3. ASSUME NEW s \in Station, NEW a \in Alliance, Join(s, a) PROVE ClockRuns'
    BY <2>3 DEF Join, CloseReadyCheck, ReadyBecomes
  <2>4. ASSUME NEW S \in SUBSET Station, Evict(S) PROVE ClockRuns'
    BY <2>4 DEF Evict, CloseReadyCheck, ReadyBecomes, Unjoin
  <2>5. ASSUME NEW s \in Station, LeaveStation(s) PROVE ClockRuns'
    BY <2>5 DEF LeaveStation, CloseReadyCheck, ReadyBecomes, Unjoin, CutShort, EndMatch,
       StopTick
  <2>6. ASSUME NEW c \in Config, UpdateMatchConfig(c) PROVE ClockRuns'
    BY <2>6 DEF UpdateMatchConfig, CloseReadyCheck, ReadyBecomes
  <2>7. CASE RequestReady
    BY <2>7 DEF RequestReady, ReadyBecomes
  <2>8. CASE RetractReady
    BY <2>8 DEF RetractReady, CloseReadyCheck, ReadyBecomes
  <2>9. CASE UnreadySweep
    BY <2>9 DEF UnreadySweep
  <2>10. CASE GetReady
    BY <2>10 DEF GetReady, ReadyBecomes
  <2>11. ASSUME NEW s \in Station, NEW r \in BOOLEAN, NEW forced \in BOOLEAN, SetReady(s, r, forced)
       PROVE ClockRuns'
    BY <2>11 DEF SetReady
  <2>12. ASSUME NEW role \in Role, NEW b \in BOOLEAN, SetStaffReady(role, b) PROVE ClockRuns'
    BY <2>12 DEF SetStaffReady
  <2>13. ASSUME NEW role \in Role, NEW b \in BOOLEAN, SetStaffIgnored(role, b) PROVE ClockRuns'
    BY <2>13 DEF SetStaffIgnored
  <2>14. ASSUME NEW h \in StartHold, StartHoldOver(h) PROVE ClockRuns'
    BY <2>14 DEF StartHoldOver
  <2> QED
    BY <1>1, <2>1, <2>2, <2>3, <2>4, <2>5, <2>6, <2>7, <2>8, <2>9, <2>10, <2>11, <2>12,
       <2>13, <2>14 DEF Setup, CancelEmptySetup, SwapStationAlliance, KickStation
<1>2. CASE Play
  <2>1. CASE StartMatch
    BY <2>1 DEF StartMatch, CanStart, StartTick
  <2>2. CASE StopMatch
    BY <2>2 DEF StopMatch, CutShort, EndMatch, StopTick
  <2>3. CASE PauseMatch
    BY <2>3 DEF PauseMatch, Running, StopTick
  <2>4. CASE ResumeMatch
    BY <2>4 DEF ResumeMatch
  <2>5. CASE CompleteResume
    BY <2>5 DEF CompleteResume, EnableParticipating, PauseKnows, StartTick
  <2>6. ASSUME NEW S \in SUBSET Station, AbortCountdown(S) PROVE ClockRuns'
    BY <2>6 DEF AbortCountdown, ReadyBecomes, StopTick
  <2>7. ASSUME NEW w \in Alliance, SetAutoWinner(w) PROVE ClockRuns'
    BY <2>7 DEF SetAutoWinner, StartTick, Alliance
  <2>8. CASE ClearMatch
    BY <2>8 DEF ClearMatch, CloseReadyCheck, ReadyBecomes, StopTick
  <2>9. ASSUME NEW a \in Alliance, ChallengeFinish(a) PROVE ClockRuns'
    BY <2>9 DEF ChallengeFinish, CanFinish, RecordFinish, EndMatch
  <2>10. ASSUME NEW a \in Alliance, RelayAdvance(a) PROVE ClockRuns'
    BY <2>10 DEF RelayAdvance, CanFinish, Advance, RecordFinish, EndMatch
  <2>11. CASE Tick
    <3>1. PICK e \in 1..MaxElapsed :
            \/ RunsOn(Drained(e)) \/ EndgameStarts(Drained(e)) \/ CountdownOver
            \/ AutoOver \/ AutoPauseOver \/ TeleopOver \/ CountOver
      BY <2>11 DEF Tick
    <3> DEFINE r == Drained(e)
    <3>2. CASE RunsOn(r)
      BY <2>11, <3>2 DEF Tick, RunsOn
    <3>3. CASE EndgameStarts(r)
      BY <2>11, <3>3 DEF Tick, EndgameStarts
    <3>4. CASE CountdownOver
      BY <2>11, <3>4 DEF Tick, CountdownOver, PeriodBegins, EnableParticipating
    <3>5. CASE AutoOver
      BY <2>11, <3>5 DEF Tick, AutoOver, StopTick
    <3>6. CASE AutoPauseOver
      BY <2>11, <3>6 DEF Tick, AutoPauseOver, PeriodBegins, EnableParticipating
    <3>7. CASE TeleopOver
      BY <2>11, <3>7 DEF Tick, TeleopOver, EndMatch
    <3>8. CASE CountOver
      BY <2>11, <3>8 DEF Tick, CountOver, StopTick, ReadyBecomes
    <3> QED
      BY <3>1, <3>2, <3>3, <3>4, <3>5, <3>6, <3>7, <3>8
  <2> QED
    BY <1>2, <2>1, <2>2, <2>3, <2>4, <2>5, <2>6, <2>7, <2>8, <2>9, <2>10, <2>11 DEF Play,
       AutoClearFires
<1>3. CASE Stops
  <2>1. CASE FieldEStop
    BY <2>1 DEF FieldEStop, CutShort, EndMatch, StopTick
  <2>2. ASSUME NEW field \in BOOLEAN, NEW own \in SUBSET Station, ClearEStops(field, own)
       PROVE ClockRuns'
    BY <2>2 DEF ClearEStops, CameOutOfEStop
  <2>3. ASSUME NEW s \in Station, StationEStop(s) PROVE ClockRuns'
    BY <2>3 DEF StationEStop
  <2>4. ASSUME NEW s \in Station, StationAStop(s) PROVE ClockRuns'
    BY <2>4 DEF StationAStop, CanAStop
  <2>5. ASSUME NEW s \in Station, StationClearAStop(s) PROVE ClockRuns'
    BY <2>5 DEF StationClearAStop
  <2>6. ASSUME NEW s \in Station, NEW source \in {"admin", "self"}, StationDisable(s, source)
       PROVE ClockRuns'
    BY <2>6 DEF StationDisable, DisableMaybeHandOff, CanFinish, Advance, RecordFinish,
       EndMatch
  <2> QED
    BY <1>3, <2>1, <2>2, <2>3, <2>4, <2>5, <2>6, <1>0, StopsCases
<1>4. CASE Reports
  <2>1. ASSUME NEW s \in Station, DsReportsStatus(s) PROVE ClockRuns'
    BY <2>1 DEF DsReportsStatus, EnableOne
  <2>2. ASSUME NEW s \in Station, DsReportsDisabled(s) PROVE ClockRuns'
    BY <2>2 DEF DsReportsDisabled, DisableMaybeHandOff, CanFinish, Advance, RecordFinish,
       EndMatch
  <2>3. ASSUME NEW s \in Station, DsQuiet(s) PROVE ClockRuns'
    BY <2>3 DEF DsQuiet
  <2>4. ASSUME NEW s \in Station, NEW bit \in {"eStop", "aStop"}, DsReportsStop(s, bit)
       PROVE ClockRuns'
    BY <2>4 DEF DsReportsStop, CanAStop
  <2>5. ASSUME NEW s \in Station, PolicyChanges(s) PROVE ClockRuns'
    BY <2>5 DEF PolicyChanges
  <2> QED
    BY <1>4, <2>1, <2>2, <2>3, <2>4, <2>5, <1>0 DEF Reports
<1>5. CASE Enables
  <2>1. ASSUME NEW s \in Station, NEW byAdmin \in BOOLEAN, Undisable(s, byAdmin)
       PROVE ClockRuns'
    BY <2>1 DEF Undisable, EnableOne
  <2> QED
    BY <1>5, <2>1 DEF Enables
<1> QED
  BY <1>1, <1>2, <1>3, <1>4, <1>5 DEF Next, NextButEnable

\* No handler and no timer enables a robot outside its match's periods, through a
\* latched stop, or with a disable still written against it.
LEMMA RobotStep == DataType /\ FlagType /\ ClockSafe /\ RobotSafe /\ Next => RobotSafe'
<1> SUFFICES ASSUME DataType, FlagType, ClockSafe, RobotSafe, Next PROVE RobotSafe'
  OBVIOUS
<1>0. /\ StopType /\ RobotType /\ RosterType
      /\ DsStation \subseteq Station /\ PolicyStation \subseteq Station
  BY StationAssumption DEF DataType
<1> USE DEF RobotSafe, OnlyLiveRobotsEnabled, StopsHold, EnabledIsUnmarked, IsEStopped, Running,
            RobotPhase, clockVars, rosterVars, robotVars, stopVars, Set
<1>1. CASE Setup
  <2>1. CASE CreateMatch
    BY <2>1 DEF CreateMatch, CloseReadyCheck, ReadyBecomes
  <2>2. CASE CancelMatch
    BY <2>2 DEF CancelMatch, CloseReadyCheck, ReadyBecomes, Unjoin
  <2>3. ASSUME NEW s \in Station, NEW a \in Alliance, Join(s, a) PROVE RobotSafe'
    BY <2>3 DEF Join, CloseReadyCheck, ReadyBecomes
  <2>4. ASSUME NEW S \in SUBSET Station, Evict(S) PROVE RobotSafe'
    BY <2>4 DEF Evict, CloseReadyCheck, ReadyBecomes, Unjoin
  <2>5. ASSUME NEW s \in Station, LeaveStation(s) PROVE RobotSafe'
    BY <2>5, <1>0 DEF LeaveStation, Unjoin, MatchActive, CutShort, EndMatch
  <2>6. ASSUME NEW c \in Config, UpdateMatchConfig(c) PROVE RobotSafe'
    BY <2>6 DEF UpdateMatchConfig, CloseReadyCheck, ReadyBecomes
  <2>7. CASE RequestReady
    BY <2>7 DEF RequestReady, ReadyBecomes
  <2>8. CASE RetractReady
    BY <2>8 DEF RetractReady, CloseReadyCheck, ReadyBecomes
  <2>9. CASE UnreadySweep
    BY <2>9 DEF UnreadySweep
  <2>10. CASE GetReady
    BY <2>10 DEF GetReady, ReadyBecomes
  <2>11. ASSUME NEW s \in Station, NEW r \in BOOLEAN, NEW forced \in BOOLEAN, SetReady(s, r, forced)
       PROVE RobotSafe'
    BY <2>11 DEF SetReady
  <2>12. ASSUME NEW role \in Role, NEW b \in BOOLEAN, SetStaffReady(role, b) PROVE RobotSafe'
    BY <2>12 DEF SetStaffReady
  <2>13. ASSUME NEW role \in Role, NEW b \in BOOLEAN, SetStaffIgnored(role, b) PROVE RobotSafe'
    BY <2>13 DEF SetStaffIgnored
  <2>14. ASSUME NEW h \in StartHold, StartHoldOver(h) PROVE RobotSafe'
    BY <2>14 DEF StartHoldOver
  <2> QED
    BY <1>1, <2>1, <2>2, <2>3, <2>4, <2>5, <2>6, <2>7, <2>8, <2>9, <2>10, <2>11, <2>12,
       <2>13, <2>14 DEF Setup, CancelEmptySetup, SwapStationAlliance, KickStation
<1>2. CASE Play
  <2>1. CASE StartMatch
    BY <2>1 DEF StartMatch, StartTick
  <2>2. CASE StopMatch
    BY <2>2 DEF StopMatch, CutShort, EndMatch, StopTick
  <2>3. CASE PauseMatch
    BY <2>3 DEF PauseMatch, Running, StopTick
  <2>4. CASE ResumeMatch
    BY <2>4 DEF ResumeMatch
  <2>5. CASE CompleteResume
    <3>1. CASE phase = "paused"
      BY <2>5, <3>1, <1>0, EnableSafe DEF CompleteResume, DataType, PauseKnows
    <3>2. CASE phase # "paused"
      BY <2>5, <3>2 DEF CompleteResume
    <3> QED
      BY <3>1, <3>2
  <2>6. ASSUME NEW S \in SUBSET Station, AbortCountdown(S) PROVE RobotSafe'
    BY <2>6 DEF AbortCountdown, ReadyBecomes, StopTick
  <2>7. ASSUME NEW w \in Alliance, SetAutoWinner(w) PROVE RobotSafe'
    BY <2>7 DEF SetAutoWinner, StartTick
  <2>8. CASE ClearMatch
    BY <2>8 DEF ClearMatch, CloseReadyCheck, ReadyBecomes, StopTick
  <2>9. ASSUME NEW a \in Alliance, ChallengeFinish(a) PROVE RobotSafe'
    BY <2>9, <1>0 DEF ChallengeFinish, CanFinish, RecordFinish, EndMatch, RobotType,
       RosterType
  <2>10. ASSUME NEW a \in Alliance, RelayAdvance(a) PROVE RobotSafe'
    BY <2>10, <1>0 DEF RelayAdvance, CanFinish, Advance, RecordFinish, EndMatch, CanEnable,
       RobotType, RosterType
  <2>11. CASE Tick
    <3>1. PICK e \in 1..MaxElapsed :
            \/ RunsOn(Drained(e)) \/ EndgameStarts(Drained(e)) \/ CountdownOver
            \/ AutoOver \/ AutoPauseOver \/ TeleopOver \/ CountOver
      BY <2>11 DEF Tick
    <3> DEFINE r == Drained(e)
    <3>2. CASE RunsOn(r)
      BY <2>11, <3>2 DEF Tick, RunsOn
    <3>3. CASE EndgameStarts(r)
      BY <2>11, <3>3 DEF Tick, EndgameStarts
    <3>4. CASE CountdownOver
      BY <2>11, <3>4, <1>0, EnableSafe DEF Tick, CountdownOver, PeriodBegins
    <3>5. CASE AutoOver
      BY <2>11, <3>5 DEF Tick, AutoOver, StopTick
    <3>6. CASE AutoPauseOver
      BY <2>11, <3>6, <1>0, EnableSafe DEF Tick, AutoPauseOver, PeriodBegins
    <3>7. CASE TeleopOver
      BY <2>11, <3>7 DEF Tick, TeleopOver, EndMatch
    <3>8. CASE CountOver
      BY <2>11, <3>8 DEF Tick, CountOver, StopTick, ReadyBecomes
    <3> QED
      BY <3>1, <3>2, <3>3, <3>4, <3>5, <3>6, <3>7, <3>8
  <2> QED
    BY <1>2, <2>1, <2>2, <2>3, <2>4, <2>5, <2>6, <2>7, <2>8, <2>9, <2>10, <2>11 DEF Play,
       AutoClearFires
<1>3. CASE Stops
  <2>1. CASE FieldEStop
    BY <2>1 DEF FieldEStop, CutShort, EndMatch, StopTick
  <2>2. ASSUME NEW field \in BOOLEAN, NEW own \in SUBSET Station, ClearEStops(field, own)
       PROVE RobotSafe'
    BY <2>2, <1>0 DEF ClearEStops, CameOutOfEStop, RobotType
  <2>3. ASSUME NEW s \in Station, StationEStop(s) PROVE RobotSafe'
    BY <2>3 DEF StationEStop
  <2>4. ASSUME NEW s \in Station, StationAStop(s) PROVE RobotSafe'
    BY <2>4 DEF StationAStop
  <2>5. ASSUME NEW s \in Station, StationClearAStop(s) PROVE RobotSafe'
    BY <2>5 DEF StationClearAStop
  <2>6. ASSUME NEW s \in Station, NEW source \in {"admin", "self"}, StationDisable(s, source)
       PROVE RobotSafe'
    BY <2>6, <1>0 DEF StationDisable, DisableMaybeHandOff, CanFinish, Advance, RecordFinish,
       EndMatch, CanEnable, RobotType, RosterType, MatchActive
  <2> QED
    BY <1>3, <2>1, <2>2, <2>3, <2>4, <2>5, <2>6, <1>0, StopsCases
<1>4. CASE Reports
  <2>1. ASSUME NEW s \in Station, DsReportsStatus(s) PROVE RobotSafe'
    BY <2>1, <1>0 DEF DsReportsStatus, DsBack, CanUndisable, EnableOne, RobotType
  <2>2. ASSUME NEW s \in Station, DsReportsDisabled(s) PROVE RobotSafe'
    BY <2>2, <1>0 DEF DsReportsDisabled, DisableMaybeHandOff, CanFinish, Advance,
       RecordFinish, EndMatch, CanEnable, RobotType, RosterType
  <2>3. ASSUME NEW s \in Station, DsQuiet(s) PROVE RobotSafe'
    BY <2>3 DEF DsQuiet
  <2>4. ASSUME NEW s \in Station, NEW bit \in {"eStop", "aStop"}, DsReportsStop(s, bit)
       PROVE RobotSafe'
    BY <2>4, <1>0 DEF DsReportsStop, DsBack, CanUndisable, EnableOne, RobotType
  <2>5. ASSUME NEW s \in Station, PolicyChanges(s) PROVE RobotSafe'
    BY <2>5 DEF PolicyChanges
  <2> QED
    BY <1>4, <2>1, <2>2, <2>3, <2>4, <2>5, <1>0 DEF Reports
<1>5. CASE Enables
  <2>1. ASSUME NEW s \in Station, NEW byAdmin \in BOOLEAN, Undisable(s, byAdmin)
       PROVE RobotSafe'
    BY <2>1, <1>0 DEF Undisable, CanUndisable, EnableOne, RobotType
  <2> QED
    BY <1>5, <2>1 DEF Enables
<1> QED
  BY <1>1, <1>2, <1>3, <1>4, <1>5 DEF Next, NextButEnable

-----------------------------------------------------------------------------
\* Modes: no auto routine on the open field.

\* Auto is only ever played, or returned to, by a match that has one.
AutoIsPlayed ==
  (phase \in {"auto", "autoPause"} \/ (phase = "paused" /\ prePausePhase = "auto"))
    => ~config.skipAuto
ModeSafe == NoAutoRoutineInTeleop /\ AutoIsPlayed

\* A relay that is handed off has no auto (challengeConfig()).
LEMMA RelaysSkipAuto == MatchType /\ FmsHandoff(config) => config.skipAuto
BY ConfigAssumption DEF MatchType, WellFormedConfig, ConfigShape, OfficialConfig, NoConfig,
   FmsHandoff

\* A period begins with every robot that runs in the period's mode.
LEMMA ModesBegin ==
  ASSUME RobotType, RosterType, NEW m, EnableParticipating(m), enabled = {},
         phase' = "auto" => m = "auto", phase' # "auto" => m = "teleOp"
  PROVE  NoAutoRoutineInTeleop'
BY DEF RobotType, RosterType, EnableParticipating, CanEnable, Set, NoAutoRoutineInTeleop

\* So does a leg: the next robot is up for teleop, in a run that has no auto.
LEMMA HandOffMode ==
  ASSUME DataType, FmsHandoff(config), ModeSafe, NEW a \in Alliance, NEW on \in SUBSET enabled,
         NEW by, Advance(a, on, by)
  PROVE  NoAutoRoutineInTeleop' /\ (UNCHANGED <<phase, prePausePhase>> \/ phase' = "postMatch")
<1>1. phase # "auto"
  <2>1. config.skipAuto
    BY RelaysSkipAuto DEF DataType
  <2>2. phase = "auto" => ~config.skipAuto
    BY DEF ModeSafe, AutoIsPlayed
  <2> QED
    BY <2>1, <2>2
<1>2. CASE Leg(a, legs[a] + 1) = {}
  BY <1>1, <1>2 DEF Advance, RecordFinish, EndMatch, ModeSafe, NoAutoRoutineInTeleop
<1>3. CASE Leg(a, legs[a] + 1) # {}
  <2> DEFINE goes == {s \in Leg(a, legs[a] + 1) : CanEnable(s, aStop)}
  <2>1. /\ enabled' \subseteq on \cup goes /\ mode' = Set(mode, goes, "teleOp")
        /\ UNCHANGED clockVars
    BY <1>3 DEF Advance
  <2>2. goes \subseteq Station
    BY DEF Leg, DataType, RelayType
  <2> HIDE DEF goes
  <2> QED
    BY <1>1, <2>1, <2>2 DEF ModeSafe, NoAutoRoutineInTeleop, Set, clockVars, DataType, RobotType
<1> QED
  BY <1>2, <1>3

\* A team's own disable, hand-off or not, leaves every running robot its mode.
LEMMA OwnDisableMode ==
  ASSUME DataType, ModeSafe, NEW s \in Station, NEW who, DisableMaybeHandOff(s, who)
  PROVE  NoAutoRoutineInTeleop' /\ (UNCHANGED <<phase, prePausePhase>> \/ phase' = "postMatch")
<1> DEFINE on == enabled \ {s}
           by == [disabledBy EXCEPT ![s] = who]
<1>1. CASE FmsHandoff(config) /\ alliance[s] \in Alliance /\ Advance(alliance[s], on, by)
  <2>1. on \in SUBSET enabled
    OBVIOUS
  <2> HIDE DEF on, by
  <2> QED
    BY <1>1, <2>1, HandOffMode
<1>2. CASE enabled' = on /\ UNCHANGED <<clockVars, mode>>
  BY <1>2 DEF ModeSafe, NoAutoRoutineInTeleop, clockVars
<1> QED
  BY <1>1, <1>2 DEF DisableMaybeHandOff

\* No handler and no timer leaves a running robot in the mode of another period.
LEMMA ModeStep == DataType /\ FlagType /\ RobotSafe /\ ModeSafe /\ Next => ModeSafe'
<1> SUFFICES ASSUME DataType, FlagType, RobotSafe, ModeSafe, Next PROVE ModeSafe'
  OBVIOUS
<1>0. /\ StopType /\ RobotType /\ RosterType
      /\ DsStation \subseteq Station /\ PolicyStation \subseteq Station
  BY StationAssumption DEF DataType
<1>b. phase \notin RobotPhase => enabled = {}
  BY DEF RobotSafe, OnlyLiveRobotsEnabled, Running
<1>d. phase \in Phase
  BY DEF DataType, ClockType
<1>c. DataType /\ ModeSafe
  OBVIOUS
<1> USE DEF ModeSafe, NoAutoRoutineInTeleop, AutoIsPlayed, Running, RobotPhase, clockVars,
            matchVars, robotVars
<1>1. CASE Setup
  <2>1. CASE CreateMatch
    BY <2>1 DEF CreateMatch, CloseReadyCheck, ReadyBecomes
  <2>2. CASE CancelMatch
    BY <2>2 DEF CancelMatch, CloseReadyCheck, ReadyBecomes, Unjoin
  <2>3. ASSUME NEW s \in Station, NEW a \in Alliance, Join(s, a) PROVE ModeSafe'
    BY <2>3 DEF Join, CloseReadyCheck, ReadyBecomes
  <2>4. ASSUME NEW S \in SUBSET Station, Evict(S) PROVE ModeSafe'
    BY <2>4 DEF Evict, CloseReadyCheck, ReadyBecomes, Unjoin
  <2>5. ASSUME NEW s \in Station, LeaveStation(s) PROVE ModeSafe'
    BY <2>5 DEF LeaveStation, Unjoin, CutShort, EndMatch
  <2>6. ASSUME NEW c \in Config, UpdateMatchConfig(c) PROVE ModeSafe'
    BY <2>6 DEF UpdateMatchConfig, CloseReadyCheck, ReadyBecomes
  <2>7. CASE RequestReady
    BY <2>7 DEF RequestReady, ReadyBecomes
  <2>8. CASE RetractReady
    BY <2>8 DEF RetractReady, CloseReadyCheck, ReadyBecomes
  <2>9. CASE UnreadySweep
    BY <2>9 DEF UnreadySweep
  <2>10. CASE GetReady
    BY <2>10 DEF GetReady, ReadyBecomes
  <2>11. ASSUME NEW s \in Station, NEW r \in BOOLEAN, NEW forced \in BOOLEAN, SetReady(s, r, forced)
       PROVE ModeSafe'
    BY <2>11 DEF SetReady
  <2>12. ASSUME NEW role \in Role, NEW b \in BOOLEAN, SetStaffReady(role, b) PROVE ModeSafe'
    BY <2>12 DEF SetStaffReady
  <2>13. ASSUME NEW role \in Role, NEW b \in BOOLEAN, SetStaffIgnored(role, b) PROVE ModeSafe'
    BY <2>13 DEF SetStaffIgnored
  <2>14. ASSUME NEW h \in StartHold, StartHoldOver(h) PROVE ModeSafe'
    BY <2>14 DEF StartHoldOver
  <2> QED
    BY <1>1, <2>1, <2>2, <2>3, <2>4, <2>5, <2>6, <2>7, <2>8, <2>9, <2>10, <2>11, <2>12, <2>13,
       <2>14 DEF Setup, CancelEmptySetup, SwapStationAlliance, KickStation
<1>2. CASE Play
  <2>1. CASE StartMatch
    BY <2>1 DEF StartMatch, StartTick, CanStart
  <2>2. CASE StopMatch
    BY <2>2 DEF StopMatch, CutShort, EndMatch, StopTick
  <2>3. CASE PauseMatch
    BY <2>3, <1>d DEF PauseMatch, Running, StopTick
  <2>4. CASE ResumeMatch
    BY <2>4 DEF ResumeMatch
  <2>5. CASE CompleteResume
    <3>1. CASE phase = "paused"
      <4>1. enabled = {}
        BY <3>1 DEF RobotSafe, OnlyLiveRobotsEnabled, Running
      <4> QED
        BY <2>5, <3>1, <4>1, <1>0, ModesBegin DEF CompleteResume, DataType, PauseKnows
    <3>2. CASE phase # "paused"
      BY <2>5, <3>2 DEF CompleteResume
    <3> QED
      BY <3>1, <3>2
  <2>6. ASSUME NEW S \in SUBSET Station, AbortCountdown(S) PROVE ModeSafe'
    BY <2>6, <1>0, <1>b DEF AbortCountdown, ReadyBecomes, StopTick, Set
  <2>7. ASSUME NEW w \in Alliance, SetAutoWinner(w) PROVE ModeSafe'
    BY <2>7 DEF SetAutoWinner, StartTick
  <2>8. CASE ClearMatch
    BY <2>8 DEF ClearMatch, CloseReadyCheck, ReadyBecomes, StopTick
  <2>9. ASSUME NEW a \in Alliance, ChallengeFinish(a) PROVE ModeSafe'
    BY <2>9 DEF ChallengeFinish, RecordFinish, EndMatch
  <2>10. ASSUME NEW a \in Alliance, RelayAdvance(a) PROVE ModeSafe'
    BY <2>10, <1>0, <1>c, HandOffMode DEF RelayAdvance
  <2>11. CASE Tick
    <3>1. PICK e \in 1..MaxElapsed :
            \/ RunsOn(Drained(e)) \/ EndgameStarts(Drained(e)) \/ CountdownOver
            \/ AutoOver \/ AutoPauseOver \/ TeleopOver \/ CountOver
      BY <2>11 DEF Tick
    <3> DEFINE r == Drained(e)
    <3>2. CASE RunsOn(r)
      BY <2>11, <3>2 DEF Tick, RunsOn
    <3>3. CASE EndgameStarts(r)
      BY <2>11, <3>3 DEF Tick, EndgameStarts
    <3>4. CASE CountdownOver
      BY <2>11, <3>4, <1>0, <1>b, ModesBegin DEF Tick, CountdownOver, PeriodBegins
    <3>5. CASE AutoOver
      BY <2>11, <3>5 DEF Tick, AutoOver, StopTick
    <3>6. CASE AutoPauseOver
      BY <2>11, <3>6, <1>0, <1>b, ModesBegin DEF Tick, AutoPauseOver, PeriodBegins
    <3>7. CASE TeleopOver
      BY <2>11, <3>7 DEF Tick, TeleopOver, EndMatch
    <3>8. CASE CountOver
      BY <2>11, <3>8 DEF Tick, CountOver, StopTick, ReadyBecomes
    <3> QED
      BY <3>1, <3>2, <3>3, <3>4, <3>5, <3>6, <3>7, <3>8
  <2> QED
    BY <1>2, <2>1, <2>2, <2>3, <2>4, <2>5, <2>6, <2>7, <2>8, <2>9, <2>10, <2>11 DEF Play,
       AutoClearFires
<1>3. CASE Stops
  <2>1. CASE FieldEStop
    BY <2>1 DEF FieldEStop, CutShort, EndMatch, StopTick
  <2>2. ASSUME NEW field \in BOOLEAN, NEW own \in SUBSET Station, ClearEStops(field, own)
       PROVE ModeSafe'
    BY <2>2 DEF ClearEStops, CameOutOfEStop
  <2>3. ASSUME NEW s \in Station, StationEStop(s) PROVE ModeSafe'
    BY <2>3 DEF StationEStop
  <2>4. ASSUME NEW s \in Station, StationAStop(s) PROVE ModeSafe'
    BY <2>4 DEF StationAStop
  <2>5. ASSUME NEW s \in Station, StationClearAStop(s) PROVE ModeSafe'
    BY <2>5 DEF StationClearAStop
  <2>6. ASSUME NEW s \in Station, NEW source \in {"admin", "self"}, StationDisable(s, source)
       PROVE ModeSafe'
    <3>1. CASE source = "self" /\ s \in enabled
      BY <2>6, <3>1, <1>0, <1>c, OwnDisableMode DEF StationDisable
    <3>2. CASE ~(source = "self" /\ s \in enabled)
      BY <2>6, <3>2 DEF StationDisable
    <3> QED
      BY <3>1, <3>2
  <2> QED
    BY <1>3, <2>1, <2>2, <2>3, <2>4, <2>5, <2>6, <1>0, StopsCases
<1>4. CASE Reports
  <2>1. ASSUME NEW s \in Station, DsReportsStatus(s) PROVE ModeSafe'
    <3>1. CASE EnableOne(s)
      BY <2>1, <3>1, <1>0 DEF DsReportsStatus, EnableOne, RobotType
    <3>2. CASE UNCHANGED robotVars
      BY <2>1, <3>2 DEF DsReportsStatus
    <3> QED
      BY <2>1, <3>1, <3>2 DEF DsReportsStatus
  <2>2. ASSUME NEW s \in Station, DsReportsDisabled(s) PROVE ModeSafe'
    BY <2>2, <1>0, <1>c, OwnDisableMode DEF DsReportsDisabled
  <2>3. ASSUME NEW s \in Station, DsQuiet(s) PROVE ModeSafe'
    BY <2>3 DEF DsQuiet
  <2>4. ASSUME NEW s \in Station, NEW bit \in {"eStop", "aStop"}, DsReportsStop(s, bit)
       PROVE ModeSafe'
    BY <2>4, <1>0 DEF DsReportsStop, DsBack, RobotType
  <2>5. ASSUME NEW s \in Station, PolicyChanges(s) PROVE ModeSafe'
    BY <2>5 DEF PolicyChanges
  <2> QED
    BY <1>4, <2>1, <2>2, <2>3, <2>4, <2>5, <1>0 DEF Reports
<1>5. CASE Enables
  <2>1. ASSUME NEW s \in Station, NEW byAdmin \in BOOLEAN, Undisable(s, byAdmin) PROVE ModeSafe'
    BY <2>1, <1>0 DEF Undisable, CanUndisable, EnableOne, RobotType
  <2> QED
    BY <1>5, <2>1 DEF Enables
<1> QED
  BY <1>1, <1>2, <1>3, <1>4, <1>5 DEF Next, NextButEnable

-----------------------------------------------------------------------------
\* The roster: alliances, slots and the relay's legs.

\* The alliances hold what they may, everyone who joined is in one, and while a
\* match is on the relay order is that of the alliances.
SidesFit ==
  /\ \A s \in joined : alliance[s] \in Alliance
  /\ \A a \in Alliance : Cardinality(AllianceStations(a)) <= AllianceSize
OrderFits ==
  MatchActive => \A a \in Alliance : \A s \in joined \cap relayOrder[a] : alliance[s] = a
SlotSafe == SidesFit /\ OrderFits /\ SlotsAreDistinct

\* The alliances, and those of them that are finished, are finite sets of stations.
LEMMA AllianceFinite ==
  ASSUME RosterType, NEW a
  PROVE  AllianceStations(a) \in SUBSET Station /\ IsFiniteSet(AllianceStations(a))
<1>1. AllianceStations(a) \in SUBSET Station
  BY DEF AllianceStations, RosterType
<1> QED
  BY <1>1, StationAssumption, FS_Subset

\* The place of a member counts it, and no more than there are.
LEMMA PlaceInRange ==
  ASSUME NEW S \in SUBSET Station, NEW s \in S
  PROVE  Place(s, S) \in 1..Cardinality(S)
<1> DEFINE P == {t \in S : t <= s}
<1>1. IsFiniteSet(S) /\ Cardinality(S) \in Nat
  BY StationAssumption, FS_Subset, FS_CardinalityType
<1>2. IsFiniteSet(P) /\ Cardinality(P) <= Cardinality(S)
  BY <1>1, FS_Subset
<1>3. s \in P
  BY StationAssumption
<1>4. Cardinality(P) \in Nat /\ Cardinality(P) # 0
  BY <1>2, <1>3, FS_CardinalityType, FS_EmptySet
<1> QED
  BY <1>1, <1>2, <1>4 DEF Place

\* A lower number has a lower place.
LEMMA PlaceGrows ==
  ASSUME NEW S \in SUBSET Station, NEW s \in S, NEW t \in S, s < t
  PROVE  Place(s, S) # Place(t, S)
<1> DEFINE P == {x \in S : x <= s}
           Q == {x \in S : x <= t}
<1>1. S \subseteq Nat
  BY StationAssumption
<1>2. IsFiniteSet(Q)
  BY StationAssumption, FS_Subset
<1>3. P \in SUBSET Q /\ t \in Q /\ t \notin P
  <2>1. \A x \in S : x <= s => x <= t
    BY <1>1
  <2>2. t <= t /\ ~(t <= s)
    BY <1>1
  <2> QED
    BY <2>1, <2>2
<1>4. Cardinality(P) # Cardinality(Q)
  <2> HIDE DEF P, Q
  <2> QED
    BY <1>2, <1>3, FS_Subset
<1> QED
  BY <1>4 DEF Place

\* So no two members of a set of stations have the same place in it.
LEMMA PlaceIsDistinct ==
  ASSUME NEW S \in SUBSET Station, NEW s \in S, NEW t \in S, Place(s, S) = Place(t, S)
  PROVE  s = t
<1>1. s \in Nat /\ t \in Nat
  BY StationAssumption
<1>2. s < t \/ t < s \/ s = t
  BY <1>1
<1> QED
  BY <1>2, PlaceGrows

\* At most one station is up for a leg.
LEMMA LegIsOne ==
  ASSUME RelayType, NEW a \in Alliance, NEW k, NEW s \in Leg(a, k), NEW t \in Leg(a, k)
  PROVE  s = t
<1>1. relayOrder[a] \in SUBSET Station
  BY DEF RelayType
<1> QED
  BY <1>1, PlaceIsDistinct DEF Leg

\* Nobody joins or changes sides but in setup; elsewhere the roster only shrinks,
\* and during a match those who stay keep their alliance, slot and leg.
RosterMoves ==
  \/ StartMatch
  \/ \E s \in Station, a \in Alliance : Join(s, a)
  \/ \A s \in joined' :
       /\ s \in joined /\ alliance'[s] = alliance[s]
       /\ MatchActive' => MatchActive /\ portToSlot'[s] = portToSlot[s] /\ UNCHANGED relayOrder

LEMMA RosterStep == DataType /\ FlagType /\ Next => RosterMoves
<1> SUFFICES ASSUME DataType, FlagType, Next PROVE RosterMoves
  OBVIOUS
<1>0. /\ StopType /\ RosterType
      /\ DsStation \subseteq Station /\ PolicyStation \subseteq Station
  BY StationAssumption DEF DataType
<1> USE DEF RosterMoves, rosterVars, relayVars, clockVars, MatchActive
<1>1. CASE Setup
  <2>1. CASE CreateMatch
    BY <2>1 DEF CreateMatch, CloseReadyCheck, ReadyBecomes
  <2>2. CASE CancelMatch
    BY <2>2, <1>0 DEF CancelMatch, CloseReadyCheck, ReadyBecomes, Unjoin, RosterType
  <2>3. ASSUME NEW s \in Station, NEW a \in Alliance, Join(s, a) PROVE RosterMoves
    BY <2>3
  <2>4. ASSUME NEW S \in SUBSET Station, Evict(S) PROVE RosterMoves
    BY <2>4, <1>0 DEF Evict, CloseReadyCheck, ReadyBecomes, Unjoin, Set, RosterType
  <2>5. ASSUME NEW s \in Station, LeaveStation(s) PROVE RosterMoves
    BY <2>5, <1>0 DEF LeaveStation, Unjoin, CutShort, EndMatch, Set, RosterType, Running,
       RobotPhase
  <2>6. ASSUME NEW c \in Config, UpdateMatchConfig(c) PROVE RosterMoves
    BY <2>6 DEF UpdateMatchConfig, CloseReadyCheck, ReadyBecomes
  <2>7. CASE RequestReady
    BY <2>7 DEF RequestReady, ReadyBecomes
  <2>8. CASE RetractReady
    BY <2>8 DEF RetractReady, CloseReadyCheck, ReadyBecomes
  <2>9. CASE UnreadySweep
    BY <2>9 DEF UnreadySweep
  <2>10. CASE GetReady
    BY <2>10 DEF GetReady, ReadyBecomes
  <2>11. ASSUME NEW s \in Station, NEW r \in BOOLEAN, NEW forced \in BOOLEAN, SetReady(s, r, forced)
       PROVE RosterMoves
    BY <2>11 DEF SetReady
  <2>12. ASSUME NEW role \in Role, NEW b \in BOOLEAN, SetStaffReady(role, b) PROVE RosterMoves
    BY <2>12 DEF SetStaffReady
  <2>13. ASSUME NEW role \in Role, NEW b \in BOOLEAN, SetStaffIgnored(role, b) PROVE RosterMoves
    BY <2>13 DEF SetStaffIgnored
  <2>14. ASSUME NEW h \in StartHold, StartHoldOver(h) PROVE RosterMoves
    BY <2>14 DEF StartHoldOver
  <2> QED
    BY <1>1, <2>1, <2>2, <2>3, <2>4, <2>5, <2>6, <2>7, <2>8, <2>9, <2>10, <2>11, <2>12, <2>13,
       <2>14 DEF Setup, CancelEmptySetup, SwapStationAlliance, KickStation
<1>2. CASE Play
  <2>1. CASE StartMatch
    BY <2>1
  <2>2. CASE StopMatch
    BY <2>2 DEF StopMatch, CutShort, EndMatch, StopTick
  <2>3. CASE PauseMatch
    BY <2>3 DEF PauseMatch, Running, StopTick, RobotPhase
  <2>4. CASE ResumeMatch
    BY <2>4 DEF ResumeMatch
  <2>5. CASE CompleteResume
    BY <2>5 DEF CompleteResume, EnableParticipating
  <2>6. ASSUME NEW S \in SUBSET Station, AbortCountdown(S) PROVE RosterMoves
    BY <2>6 DEF AbortCountdown, ReadyBecomes, StopTick
  <2>7. ASSUME NEW w \in Alliance, SetAutoWinner(w) PROVE RosterMoves
    BY <2>7 DEF SetAutoWinner, StartTick
  <2>8. CASE ClearMatch
    BY <2>8 DEF ClearMatch, CloseReadyCheck, ReadyBecomes, StopTick
  <2>9. ASSUME NEW a \in Alliance, ChallengeFinish(a) PROVE RosterMoves
    BY <2>9 DEF ChallengeFinish, RecordFinish, EndMatch, CanFinish, Running
  <2>10. ASSUME NEW a \in Alliance, RelayAdvance(a) PROVE RosterMoves
    BY <2>10 DEF RelayAdvance, Advance, RecordFinish, EndMatch, CanFinish, Running
  <2>11. CASE Tick
    <3>1. PICK e \in 1..MaxElapsed :
            \/ RunsOn(Drained(e)) \/ EndgameStarts(Drained(e)) \/ CountdownOver
            \/ AutoOver \/ AutoPauseOver \/ TeleopOver \/ CountOver
      BY <2>11 DEF Tick
    <3> DEFINE r == Drained(e)
    <3>2. CASE RunsOn(r)
      BY <2>11, <3>2 DEF Tick, RunsOn
    <3>3. CASE EndgameStarts(r)
      BY <2>11, <3>3 DEF Tick, EndgameStarts
    <3>4. CASE CountdownOver
      BY <2>11, <3>4 DEF Tick, CountdownOver, PeriodBegins
    <3>5. CASE AutoOver
      BY <2>11, <3>5 DEF Tick, AutoOver, StopTick
    <3>6. CASE AutoPauseOver
      BY <2>11, <3>6 DEF Tick, AutoPauseOver, PeriodBegins
    <3>7. CASE TeleopOver
      BY <2>11, <3>7 DEF Tick, TeleopOver, EndMatch
    <3>8. CASE CountOver
      BY <2>11, <3>8 DEF Tick, CountOver, StopTick, ReadyBecomes
    <3> QED
      BY <3>1, <3>2, <3>3, <3>4, <3>5, <3>6, <3>7, <3>8
  <2> QED
    BY <1>2, <2>1, <2>2, <2>3, <2>4, <2>5, <2>6, <2>7, <2>8, <2>9, <2>10, <2>11 DEF Play,
       AutoClearFires
<1>3. CASE Stops
  <2>1. CASE FieldEStop
    BY <2>1 DEF FieldEStop, CutShort, EndMatch, StopTick
  <2>2. ASSUME NEW field \in BOOLEAN, NEW own \in SUBSET Station, ClearEStops(field, own)
       PROVE RosterMoves
    BY <2>2 DEF ClearEStops, CameOutOfEStop
  <2>3. ASSUME NEW s \in Station, StationEStop(s) PROVE RosterMoves
    BY <2>3 DEF StationEStop
  <2>4. ASSUME NEW s \in Station, StationAStop(s) PROVE RosterMoves
    BY <2>4 DEF StationAStop
  <2>5. ASSUME NEW s \in Station, StationClearAStop(s) PROVE RosterMoves
    BY <2>5 DEF StationClearAStop
  <2>6. ASSUME NEW s \in Station, NEW source \in {"admin", "self"}, StationDisable(s, source)
       PROVE RosterMoves
    BY <2>6 DEF StationDisable, DisableMaybeHandOff, CanFinish, Running, Advance, RecordFinish,
       EndMatch
  <2> QED
    BY <1>3, <2>1, <2>2, <2>3, <2>4, <2>5, <2>6, <1>0, StopsCases
<1>4. CASE Reports
  <2>1. ASSUME NEW s \in Station, DsReportsStatus(s) PROVE RosterMoves
    BY <2>1 DEF DsReportsStatus, DsBack, EnableOne
  <2>2. ASSUME NEW s \in Station, DsReportsDisabled(s) PROVE RosterMoves
    BY <2>2 DEF DsReportsDisabled, DisableMaybeHandOff, CanFinish, Running, Advance, RecordFinish,
       EndMatch
  <2>3. ASSUME NEW s \in Station, DsQuiet(s) PROVE RosterMoves
    BY <2>3 DEF DsQuiet
  <2>4. ASSUME NEW s \in Station, NEW bit \in {"eStop", "aStop"}, DsReportsStop(s, bit)
       PROVE RosterMoves
    BY <2>4 DEF DsReportsStop, DsBack
  <2>5. ASSUME NEW s \in Station, PolicyChanges(s) PROVE RosterMoves
    BY <2>5 DEF PolicyChanges
  <2> QED
    BY <1>4, <2>1, <2>2, <2>3, <2>4, <2>5, <1>0 DEF Reports
<1>5. CASE Enables
  <2>1. ASSUME NEW s \in Station, NEW byAdmin \in BOOLEAN, Undisable(s, byAdmin)
       PROVE RosterMoves
    BY <2>1 DEF Undisable, CanUndisable, EnableOne
  <2> QED
    BY <1>5, <2>1 DEF Enables
<1> QED
  BY <1>1, <1>2, <1>3, <1>4, <1>5 DEF Next, NextButEnable

\* What a change of the roster leaves of SlotSafe.
LEMMA SlotStep == DataType /\ FlagType /\ SlotSafe /\ Next => SlotSafe'
<1> SUFFICES ASSUME DataType, FlagType, SlotSafe, Next PROVE SlotSafe'
  OBVIOUS
<1>0. RosterType /\ RosterType' /\ RelayType /\ AllianceSize \in Nat
  BY DataStep, TimingAssumption DEF DataType
<1>1. CASE StartMatch
  <2>1. UNCHANGED <<joined, alliance>>
    BY <1>1 DEF StartMatch
  <2>2. SidesFit'
    BY <2>1 DEF SlotSafe, SidesFit, AllianceStations
  <2>3. OrderFits'
    BY <1>1 DEF StartMatch, OrderFits, AllianceStations
  <2>4. \A s \in joined : portToSlot'[s] = JoinedSlot(s)
    BY <1>0, <1>1 DEF StartMatch, RosterType
  <2>5. ASSUME NEW s \in joined
        PROVE  /\ s \in AllianceStations(alliance[s])
               /\ JoinedSlot(s)[1] = alliance[s] /\ JoinedSlot(s)[2] \in 1..AllianceSize
    <3>1. alliance[s] \in Alliance /\ s \in AllianceStations(alliance[s])
      BY DEF SlotSafe, SidesFit, AllianceStations
    <3>2. Cardinality(AllianceStations(alliance[s])) <= AllianceSize
      BY <3>1 DEF SlotSafe, SidesFit
    <3>3. Cardinality(AllianceStations(alliance[s])) \in Nat
      BY <1>0, AllianceFinite, FS_CardinalityType
    <3>4. Place(s, AllianceStations(alliance[s])) \in 1..Cardinality(AllianceStations(alliance[s]))
      BY <1>0, <3>1, AllianceFinite, PlaceInRange
    <3> QED
      BY <1>0, <3>1, <3>2, <3>3, <3>4 DEF JoinedSlot
  <2>6. ASSUME NEW s \in joined, NEW t \in joined, JoinedSlot(s) = JoinedSlot(t) PROVE s = t
    <3>1. /\ alliance[s] = alliance[t]
          /\ Place(s, AllianceStations(alliance[s])) = Place(t, AllianceStations(alliance[t]))
      BY <2>6 DEF JoinedSlot
    <3> QED
      BY <1>0, <2>5, <3>1, AllianceFinite, PlaceIsDistinct
  <2>7. SlotsAreDistinct'
    BY <2>1, <2>4, <2>5, <2>6 DEF SlotsAreDistinct
  <2> QED
    BY <2>2, <2>3, <2>7 DEF SlotSafe
<1>2. ASSUME NEW s \in Station, NEW a \in Alliance, Join(s, a) PROVE SlotSafe'
  <2>1. ~MatchActive'
    BY <1>2 DEF Join, MatchActive, clockVars
  <2>2. \A t \in joined' : alliance'[t] \in Alliance
    BY <1>0, <1>2 DEF Join, SlotSafe, SidesFit, RosterType
  <2>3. ASSUME NEW b \in Alliance PROVE Cardinality(AllianceStations(b)') <= AllianceSize
    <3>1. IsFiniteSet(AllianceStations(b)) /\ Cardinality(AllianceStations(b)) \in Nat
      BY <1>0, AllianceFinite, FS_CardinalityType
    <3>2. CASE b = a
      <4>1. AllianceStations(b)' = AllianceStations(b) \cup {s}
        BY <1>0, <1>2, <3>2 DEF Join, AllianceStations, RosterType
      <4>2. Cardinality(AllianceStations(b)) < AllianceSize
        BY <1>2, <3>2 DEF Join, HasRoom
      <4>3. Cardinality(AllianceStations(b) \cup {s}) <= Cardinality(AllianceStations(b)) + 1
        <5> DEFINE on == AllianceStations(b)
        <5> HIDE DEF on
        <5>1. Cardinality(on \cup {s}) = IF s \in on THEN Cardinality(on) ELSE Cardinality(on) + 1
          BY <3>1, FS_AddElement DEF on
        <5>2. Cardinality(on) \in Nat
          BY <3>1 DEF on
        <5> QED
          BY <5>1, <5>2 DEF on
      <4>4. Cardinality(AllianceStations(b) \cup {s}) \in Nat
        BY <3>1, FS_AddElement, FS_CardinalityType
      <4> QED
        BY <1>0, <3>1, <4>1, <4>2, <4>3, <4>4
    <3>3. CASE b # a
      <4>1. AllianceStations(b)' \in SUBSET AllianceStations(b)
        BY <1>0, <1>2, <3>3 DEF Join, AllianceStations, RosterType
      <4>2. /\ Cardinality(AllianceStations(b)') <= Cardinality(AllianceStations(b))
            /\ Cardinality(AllianceStations(b)') \in Nat
        BY <3>1, <4>1, FS_Subset, FS_CardinalityType
      <4> QED
        BY <1>0, <3>1, <4>2 DEF SlotSafe, SidesFit
    <3> QED
      BY <3>2, <3>3
  <2> QED
    BY <2>1, <2>2, <2>3 DEF SlotSafe, SidesFit, OrderFits, SlotsAreDistinct
<1>3. CASE \A s \in joined' :
             /\ s \in joined /\ alliance'[s] = alliance[s]
             /\ MatchActive' => /\ MatchActive /\ portToSlot'[s] = portToSlot[s]
                                /\ UNCHANGED relayOrder
  <2>1. ASSUME NEW a \in Alliance PROVE Cardinality(AllianceStations(a)') <= AllianceSize
    <3>1. IsFiniteSet(AllianceStations(a)) /\ Cardinality(AllianceStations(a)) \in Nat
      BY <1>0, AllianceFinite, FS_CardinalityType
    <3>2. AllianceStations(a)' \in SUBSET AllianceStations(a)
      BY <1>3 DEF AllianceStations
    <3>3. /\ Cardinality(AllianceStations(a)') <= Cardinality(AllianceStations(a))
          /\ Cardinality(AllianceStations(a)') \in Nat
      BY <3>1, <3>2, FS_Subset, FS_CardinalityType
    <3> QED
      BY <1>0, <3>1, <3>3 DEF SlotSafe, SidesFit
  <2>2. SidesFit'
    BY <1>3, <2>1 DEF SlotSafe, SidesFit
  <2>3. OrderFits'
    BY <1>3 DEF SlotSafe, OrderFits
  <2>4. SlotsAreDistinct'
    BY <1>3 DEF SlotSafe, SlotsAreDistinct
  <2> QED
    BY <2>2, <2>3, <2>4 DEF SlotSafe
<1> QED
  BY <1>1, <1>2, <1>3, RosterStep DEF RosterMoves

-----------------------------------------------------------------------------
\* Relays: who may run.

\* Whoever runs has not stopped the clock and, if the FMS hands off, is the runner.
RelaySafe ==
  \A s \in enabled :
    /\ alliance[s] \notin finished
    /\ FmsHandoff(config) => s \in Runner(alliance[s])

\* A step that enables nobody, and leaves the relay alone, leaves it safe.
LEMMA RelayKept ==
  ASSUME RelaySafe, enabled' \subseteq enabled, \A s \in enabled' : alliance'[s] = alliance[s],
         enabled' = {} \/ UNCHANGED <<config, relayVars>>
  PROVE  RelaySafe'
BY DEF RelaySafe, FmsHandoff, Runner, Leg, relayVars

\* A period begins with the runners, and only with them.
LEMMA RelayBegins ==
  ASSUME RosterType, NEW m, EnableParticipating(m), enabled = {},
         UNCHANGED <<config, relayVars, alliance>>
  PROVE  RelaySafe'
<1>1. \A s \in enabled' :
        alliance[s] \notin finished /\ (FmsHandoff(config) => s \in Runner(alliance[s]))
  BY DEF EnableParticipating
<1> QED
  BY <1>1 DEF RelaySafe, FmsHandoff, Runner, Leg, relayVars

\* A press of Enable passes the same two conditions.
LEMMA RelayEnables ==
  ASSUME RelaySafe, NEW s, NEW byAdmin, CanUndisable(s, byAdmin), EnableOne(s),
         UNCHANGED <<config, relayVars, alliance>>
  PROVE  RelaySafe'
<1>1. \A t \in enabled' :
        alliance[t] \notin finished /\ (FmsHandoff(config) => t \in Runner(alliance[t]))
  BY DEF RelaySafe, EnableOne, CanUndisable
<1> QED
  BY <1>1 DEF RelaySafe, FmsHandoff, Runner, Leg, relayVars

\* An alliance whose clock stops takes all of its robots down.
LEMMA RelayFinish ==
  ASSUME DataType, RobotSafe, RelaySafe, NEW a \in Alliance, NEW on \in SUBSET enabled,
         NEW by, NEW who, RecordFinish(a, on, by, who),
         UNCHANGED <<config, relayOrder, joined, alliance>>,
         \A b \in Alliance : b # a => legs'[b] = legs[b],
         \A s \in joined : alliance[s] \in Alliance
  PROVE  RelaySafe'
<1>1. enabled' \subseteq enabled \ AllianceStations(a) /\ finished' = finished \cup {a}
  BY DEF RecordFinish, EndMatch
<1>2. ASSUME NEW s \in enabled'
      PROVE  /\ s \in enabled /\ alliance[s] \in Alliance /\ alliance[s] # a
             /\ legs'[alliance[s]] = legs[alliance[s]] /\ alliance[s] \notin finished'
  BY <1>1 DEF RobotSafe, OnlyLiveRobotsEnabled, AllianceStations, RelaySafe
<1> QED
  BY <1>2, <1>1 DEF RelaySafe, FmsHandoff, Runner, Leg

\* A hand-off takes the runner down and brings up the next of the same alliance.
LEMMA RelayAdvances ==
  ASSUME DataType, RobotSafe, RelaySafe, SlotSafe, NEW a \in Alliance, NEW on \in SUBSET enabled,
         NEW by, FmsHandoff(config), CanFinish(a), Advance(a, on, by),
         UNCHANGED <<config, relayOrder, joined, alliance>>
  PROVE  RelaySafe'
<1> DEFINE down == [x \in Station |-> IF x \in Runner(a) THEN "relay" ELSE by[x]]
           left == on \ Runner(a)
           next == Leg(a, legs[a] + 1)
<1>1. legs' = [legs EXCEPT ![a] = @ + 1] /\ legs \in [Alliance -> Nat]
  BY DEF Advance, DataType, RelayType
<1>2. \A s \in joined : alliance[s] \in Alliance
  BY DEF SlotSafe, SidesFit
<1>3. CASE next = {}
  <2>1. RecordFinish(a, left, down, "relay") /\ left \in SUBSET enabled
    BY <1>3 DEF Advance
  <2> HIDE DEF down, left
  <2> QED
    BY <1>1, <1>2, <2>1, RelayFinish
<1>4. CASE next # {}
  <2>1. UNCHANGED finished /\ \A s \in enabled' : s \in left \/ (s \in next /\ s \in joined)
    BY <1>4 DEF Advance, CanEnable
  <2>2. ASSUME NEW s \in enabled', s \in left
        PROVE  alliance[s] \notin finished' /\ s \in Runner(alliance[s])'
    <3>1. s \in joined /\ alliance[s] \notin finished /\ s \in Runner(alliance[s])
      BY <2>2 DEF RobotSafe, OnlyLiveRobotsEnabled, RelaySafe
    <3>2. alliance[s] \in Alliance /\ alliance[s] # a
      BY <1>2, <2>2, <3>1
    <3>3. legs'[alliance[s]] = legs[alliance[s]]
      BY <1>1, <3>2
    <3> QED
      BY <2>1, <3>1, <3>3 DEF Runner, Leg
  <2>3. ASSUME NEW s \in enabled', s \in next /\ s \in joined
        PROVE  alliance[s] \notin finished' /\ s \in Runner(alliance[s])'
    <3>1. MatchActive /\ a \notin finished
      BY DEF CanFinish, Running, RobotPhase, MatchActive
    <3>2. s \in relayOrder[a]
      BY <2>3 DEF Leg
    <3>3. alliance[s] = a
      BY <2>3, <3>1, <3>2 DEF SlotSafe, OrderFits
    <3>4. legs'[a] = legs[a] + 1
      BY <1>1
    <3> QED
      BY <2>1, <2>3, <3>1, <3>3, <3>4 DEF Runner, Leg
  <2> QED
    BY <2>1, <2>2, <2>3 DEF RelaySafe
<1> QED
  BY <1>3, <1>4

\* A team's own disable is one or the other.
LEMMA RelayDisables ==
  ASSUME DataType, RobotSafe, RelaySafe, SlotSafe, NEW s \in Station, NEW who,
         DisableMaybeHandOff(s, who), UNCHANGED <<config, relayOrder, joined, alliance>>
  PROVE  RelaySafe'
<1> DEFINE on == enabled \ {s}
           by == [disabledBy EXCEPT ![s] = who]
<1>1. CASE /\ FmsHandoff(config) /\ alliance[s] \in Alliance /\ CanFinish(alliance[s])
           /\ Advance(alliance[s], on, by)
  <2>1. on \in SUBSET enabled
    OBVIOUS
  <2> HIDE DEF on, by
  <2> QED
    BY <1>1, <2>1, RelayAdvances
<1>2. CASE enabled' = on /\ UNCHANGED <<legs, finished>>
  BY <1>2, RelayKept DEF relayVars
<1> QED
  BY <1>1, <1>2 DEF DisableMaybeHandOff

\* No handler and no timer brings back a robot that is done, or one out of turn.
LEMMA RelayStep ==
  DataType /\ FlagType /\ RobotSafe /\ SlotSafe /\ RelaySafe /\ Next => RelaySafe'
<1> SUFFICES ASSUME DataType, FlagType, RobotSafe, SlotSafe, RelaySafe, Next PROVE RelaySafe'
  OBVIOUS
<1>0. /\ StopType /\ RobotType /\ RosterType
      /\ DsStation \subseteq Station /\ PolicyStation \subseteq Station
  BY StationAssumption DEF DataType
<1>b. phase \notin RobotPhase => enabled = {}
  BY DEF RobotSafe, OnlyLiveRobotsEnabled, Running
<1>c. /\ DataType /\ RobotSafe /\ SlotSafe /\ RelaySafe
      /\ \A s \in joined : alliance[s] \in Alliance
  BY DEF SlotSafe, SidesFit
<1> USE DEF clockVars, matchVars, rosterVars, robotVars, relayVars
<1>1. CASE Setup
  <2>1. CASE CreateMatch
    BY <1>b, <2>1, RelayKept DEF CreateMatch, RobotPhase
  <2>2. CASE CancelMatch
    BY <1>b, <2>2, RelayKept DEF CancelMatch, RobotPhase
  <2>3. ASSUME NEW s \in Station, NEW a \in Alliance, Join(s, a) PROVE RelaySafe'
    BY <1>b, <2>3, RelayKept DEF Join, RobotPhase
  <2>4. ASSUME NEW S \in SUBSET Station, Evict(S) PROVE RelaySafe'
    BY <1>b, <2>4, RelayKept DEF Evict, RobotPhase
  <2>5. ASSUME NEW s \in Station, LeaveStation(s) PROVE RelaySafe'
    <3>1. enabled' \subseteq enabled /\ UNCHANGED <<config, relayVars>>
      BY <2>5 DEF LeaveStation, CutShort, EndMatch
    <3>2. alliance' = Set(alliance, {s}, "none")
      BY <2>5 DEF LeaveStation, Unjoin
    <3>3. s \notin enabled'
      BY <1>b, <2>5 DEF LeaveStation, CutShort, EndMatch, MatchActive, RobotPhase
    <3>4. \A t \in enabled' : alliance'[t] = alliance[t]
      BY <1>0, <3>1, <3>2, <3>3 DEF RosterType, RobotType, Set
    <3> QED
      BY <3>1, <3>4, RelayKept
  <2>6. ASSUME NEW c \in Config, UpdateMatchConfig(c) PROVE RelaySafe'
    BY <2>6, RelayKept DEF UpdateMatchConfig, CloseReadyCheck, ReadyBecomes
  <2>7. CASE RequestReady
    BY <2>7, RelayKept DEF RequestReady, ReadyBecomes
  <2>8. CASE RetractReady
    BY <2>8, RelayKept DEF RetractReady, CloseReadyCheck, ReadyBecomes
  <2>9. CASE UnreadySweep
    BY <2>9, RelayKept DEF UnreadySweep
  <2>10. CASE GetReady
    BY <2>10, RelayKept DEF GetReady, ReadyBecomes
  <2>11. ASSUME NEW s \in Station, NEW r \in BOOLEAN, NEW forced \in BOOLEAN, SetReady(s, r, forced)
       PROVE RelaySafe'
    BY <2>11, RelayKept DEF SetReady
  <2>12. ASSUME NEW role \in Role, NEW b \in BOOLEAN, SetStaffReady(role, b) PROVE RelaySafe'
    BY <2>12, RelayKept DEF SetStaffReady
  <2>13. ASSUME NEW role \in Role, NEW b \in BOOLEAN, SetStaffIgnored(role, b) PROVE RelaySafe'
    BY <2>13, RelayKept DEF SetStaffIgnored
  <2>14. ASSUME NEW h \in StartHold, StartHoldOver(h) PROVE RelaySafe'
    BY <2>14, RelayKept DEF StartHoldOver
  <2> QED
    BY <1>1, <2>1, <2>2, <2>3, <2>4, <2>5, <2>6, <2>7, <2>8, <2>9, <2>10, <2>11, <2>12, <2>13,
       <2>14 DEF Setup, CancelEmptySetup, SwapStationAlliance, KickStation
<1>2. CASE Play
  <2>1. CASE StartMatch
    BY <2>1, RelayKept DEF StartMatch
  <2>2. CASE StopMatch
    BY <2>2, RelayKept DEF StopMatch, CutShort, EndMatch, StopTick
  <2>3. CASE PauseMatch
    BY <2>3, RelayKept DEF PauseMatch, Running, StopTick
  <2>4. CASE ResumeMatch
    BY <2>4, RelayKept DEF ResumeMatch
  <2>5. CASE CompleteResume
    <3>1. CASE phase = "paused"
      BY <1>b, <1>0, <2>5, <3>1, RelayBegins DEF CompleteResume, RobotPhase
    <3>2. CASE phase # "paused"
      BY <2>5, <3>2, RelayKept DEF CompleteResume
    <3> QED
      BY <3>1, <3>2
  <2>6. ASSUME NEW S \in SUBSET Station, AbortCountdown(S) PROVE RelaySafe'
    BY <2>6, <1>b, RelayKept DEF AbortCountdown, ReadyBecomes, StopTick, RobotPhase
  <2>7. ASSUME NEW w \in Alliance, SetAutoWinner(w) PROVE RelaySafe'
    BY <2>7, RelayKept DEF SetAutoWinner, StartTick
  <2>8. CASE ClearMatch
    BY <2>8, <1>b, RelayKept DEF ClearMatch, CloseReadyCheck, ReadyBecomes, StopTick, RobotPhase
  <2>9. ASSUME NEW a \in Alliance, ChallengeFinish(a) PROVE RelaySafe'
    BY <2>9, <1>c, RelayFinish DEF ChallengeFinish, CanFinish
  <2>10. ASSUME NEW a \in Alliance, RelayAdvance(a) PROVE RelaySafe'
    BY <2>10, <1>c, RelayAdvances DEF RelayAdvance
  <2>11. CASE Tick
    <3>1. PICK e \in 1..MaxElapsed :
            \/ RunsOn(Drained(e)) \/ EndgameStarts(Drained(e)) \/ CountdownOver
            \/ AutoOver \/ AutoPauseOver \/ TeleopOver \/ CountOver
      BY <2>11 DEF Tick
    <3> DEFINE r == Drained(e)
    <3>2. CASE RunsOn(r)
      BY <2>11, <3>2, RelayKept DEF Tick, RunsOn
    <3>3. CASE EndgameStarts(r)
      BY <2>11, <3>3, RelayKept DEF Tick, EndgameStarts
    <3>4. CASE CountdownOver
      BY <2>11, <3>4, <1>0, <1>b, RelayBegins DEF Tick, CountdownOver, PeriodBegins, RobotPhase
    <3>5. CASE AutoOver
      BY <2>11, <3>5, RelayKept DEF Tick, AutoOver, StopTick
    <3>6. CASE AutoPauseOver
      BY <2>11, <3>6, <1>0, <1>b, RelayBegins DEF Tick, AutoPauseOver, PeriodBegins, RobotPhase
    <3>7. CASE TeleopOver
      BY <2>11, <3>7, RelayKept DEF Tick, TeleopOver, EndMatch
    <3>8. CASE CountOver
      BY <2>11, <3>8, <1>b, RelayKept DEF Tick, CountOver, StopTick, ReadyBecomes, RobotPhase
    <3> QED
      BY <3>1, <3>2, <3>3, <3>4, <3>5, <3>6, <3>7, <3>8
  <2> QED
    BY <1>2, <2>1, <2>2, <2>3, <2>4, <2>5, <2>6, <2>7, <2>8, <2>9, <2>10, <2>11 DEF Play,
       AutoClearFires
<1>3. CASE Stops
  <2>1. CASE FieldEStop
    BY <2>1, RelayKept DEF FieldEStop, CutShort, EndMatch, StopTick
  <2>2. ASSUME NEW field \in BOOLEAN, NEW own \in SUBSET Station, ClearEStops(field, own)
       PROVE RelaySafe'
    BY <2>2, RelayKept DEF ClearEStops, CameOutOfEStop
  <2>3. ASSUME NEW s \in Station, StationEStop(s) PROVE RelaySafe'
    BY <2>3, RelayKept DEF StationEStop
  <2>4. ASSUME NEW s \in Station, StationAStop(s) PROVE RelaySafe'
    BY <2>4, RelayKept DEF StationAStop
  <2>5. ASSUME NEW s \in Station, StationClearAStop(s) PROVE RelaySafe'
    BY <2>5, RelayKept DEF StationClearAStop
  <2>6. ASSUME NEW s \in Station, NEW source \in {"admin", "self"}, StationDisable(s, source)
       PROVE RelaySafe'
    <3>1. CASE source = "self" /\ s \in enabled
      BY <1>c, <2>6, <3>1, RelayDisables DEF StationDisable
    <3>2. CASE ~(source = "self" /\ s \in enabled)
      BY <2>6, <3>2, RelayKept DEF StationDisable
    <3> QED
      BY <3>1, <3>2
  <2> QED
    BY <1>3, <2>1, <2>2, <2>3, <2>4, <2>5, <2>6, <1>0, StopsCases
<1>4. CASE Reports
  <2>1. ASSUME NEW s \in Station, DsReportsStatus(s) PROVE RelaySafe'
    <3>1. CASE DsBack(s) /\ EnableOne(s)
      BY <2>1, <3>1, RelayEnables DEF DsReportsStatus, DsBack
    <3>2. CASE UNCHANGED robotVars
      BY <2>1, <3>2, RelayKept DEF DsReportsStatus
    <3> QED
      BY <2>1, <3>1, <3>2 DEF DsReportsStatus
  <2>2. ASSUME NEW s \in Station, DsReportsDisabled(s) PROVE RelaySafe'
    BY <2>2, <1>c, RelayDisables DEF DsReportsDisabled
  <2>3. ASSUME NEW s \in Station, DsQuiet(s) PROVE RelaySafe'
    BY <2>3, RelayKept DEF DsQuiet
  <2>4. ASSUME NEW s \in Station, NEW bit \in {"eStop", "aStop"}, DsReportsStop(s, bit)
       PROVE RelaySafe'
    BY <2>4, RelayKept DEF DsReportsStop, DsBack
  <2>5. ASSUME NEW s \in Station, PolicyChanges(s) PROVE RelaySafe'
    BY <2>5, RelayKept DEF PolicyChanges
  <2> QED
    BY <1>4, <2>1, <2>2, <2>3, <2>4, <2>5, <1>0 DEF Reports
<1>5. CASE Enables
  <2>1. ASSUME NEW s \in Station, NEW byAdmin \in BOOLEAN, Undisable(s, byAdmin)
       PROVE RelaySafe'
    BY <2>1, RelayEnables DEF Undisable
  <2> QED
    BY <1>5, <2>1 DEF Enables
<1> QED
  BY <1>1, <1>2, <1>3, <1>4, <1>5 DEF Next, NextButEnable

-----------------------------------------------------------------------------
\* Relays: somebody's leg it always is.

\* As long as an alliance of a relay is on the clock, a station is up, whoever left.
RelayGoesOn ==
  FmsHandoff(config) /\ MatchActive =>
    \A a \in Alliance \ finished : relayOrder[a] # {} => Leg(a, legs[a]) # {}

\* The least of a set of stations is up for its first leg.
LEMMA FirstLeg ==
  ASSUME NEW S \in SUBSET Station, S # {}
  PROVE  \E s \in S : Place(s, S) = 1
<1>1. S \subseteq Nat
  BY StationAssumption
<1>2. PICK m \in S : \A y \in S : ~ (<<y, m>> \in OpToRel(<, Nat))
  <2>1. IsWellFoundedOn(OpToRel(<, Nat), Nat)
    BY NatLessThanWellFounded
  <2> HIDE DEF OpToRel
  <2> QED
    BY <1>1, <2>1, WFMin
<1>3. \A y \in S : y \in Nat /\ ~(y < m)
  BY <1>1, <1>2 DEF OpToRel
<1>4. m \in Nat /\ \A y \in S : y <= m <=> y = m
  BY <1>1, <1>3
<1>5. {t \in S : t <= m} = {m}
  BY <1>4
<1>6. Cardinality({m}) = 1
  BY FS_Singleton
<1> QED
  BY <1>5, <1>6 DEF Place

\* A step that leaves the relay alone, or the match off, keeps it going.
LEMMA GoesOnKept ==
  ASSUME RelayGoesOn, MatchActive' => MatchActive /\ UNCHANGED <<config, relayVars>>
  PROVE  RelayGoesOn'
BY DEF RelayGoesOn, FmsHandoff, Leg, relayVars

\* An alliance that finishes needs no runner.
LEMMA GoesOnFinish ==
  ASSUME RelayGoesOn, MatchActive, NEW a \in Alliance, NEW on, NEW by, NEW who,
         RecordFinish(a, on, by, who), UNCHANGED <<config, relayOrder>>,
         \A b \in Alliance : b # a => legs'[b] = legs[b]
  PROVE  RelayGoesOn'
<1>1. finished' = finished \cup {a}
  BY DEF RecordFinish
<1>2. ASSUME FmsHandoff(config), NEW b \in Alliance \ finished', relayOrder[b] # {}
      PROVE  Leg(b, legs[b])' # {}
  <2>1. b # a /\ b \notin finished
    BY <1>1, <1>2
  <2>2. Leg(b, legs[b]) # {} /\ legs'[b] = legs[b]
    BY <1>2, <2>1 DEF RelayGoesOn
  <2> QED
    BY <2>2 DEF Leg
<1> QED
  BY <1>2 DEF RelayGoesOn, FmsHandoff

\* A hand-off goes to the next leg, or finishes the alliance that has none.
LEMMA GoesOnAdvance ==
  ASSUME RelayType, RelayGoesOn, NEW a \in Alliance, NEW on, NEW by, CanFinish(a),
         Advance(a, on, by), UNCHANGED <<config, relayOrder>>
  PROVE  RelayGoesOn'
<1>1. legs' = [legs EXCEPT ![a] = @ + 1] /\ legs \in [Alliance -> Nat]
  BY DEF Advance, RelayType
<1>2. MatchActive
  BY DEF CanFinish, Running, RobotPhase, MatchActive
<1>3. CASE Leg(a, legs[a] + 1) = {}
  <2>1. \E left, down : RecordFinish(a, left, down, "relay")
    BY <1>3 DEF Advance
  <2> QED
    BY <1>1, <1>2, <2>1, GoesOnFinish
<1>4. CASE Leg(a, legs[a] + 1) # {}
  <2>1. UNCHANGED finished
    BY <1>4 DEF Advance
  <2>2. ASSUME FmsHandoff(config), NEW b \in Alliance \ finished, relayOrder[b] # {}
        PROVE  Leg(b, legs[b])' # {}
    <3>1. CASE b = a
      BY <1>1, <1>4, <3>1 DEF Leg
    <3>2. CASE b # a
      BY <1>1, <1>2, <2>2, <3>2 DEF Leg, RelayGoesOn
    <3> QED
      BY <3>1, <3>2
  <2> QED
    BY <2>1, <2>2 DEF RelayGoesOn, FmsHandoff
<1> QED
  BY <1>3, <1>4

\* A team's own disable is such a hand-off, or none at all.
LEMMA GoesOnDisables ==
  ASSUME RelayType, RelayGoesOn, NEW s, NEW who, DisableMaybeHandOff(s, who),
         UNCHANGED <<config, relayOrder>>
  PROVE  RelayGoesOn'
<1>1. CASE /\ FmsHandoff(config) /\ alliance[s] \in Alliance /\ CanFinish(alliance[s])
           /\ \E on, by : Advance(alliance[s], on, by)
  BY <1>1, GoesOnAdvance
<1>2. CASE UNCHANGED <<phase, legs, finished>>
  <2>1. MatchActive' <=> MatchActive
    BY <1>2 DEF MatchActive
  <2> QED
    BY <1>2, <2>1, GoesOnKept DEF RelayGoesOn, relayVars
<1> QED
  BY <1>1, <1>2 DEF DisableMaybeHandOff, clockVars

\* No handler and no timer leaves a relay with nobody up.
LEMMA GoesOnStep == DataType /\ FlagType /\ RelayGoesOn /\ Next => RelayGoesOn'
<1> SUFFICES ASSUME DataType, FlagType, RelayGoesOn, Next PROVE RelayGoesOn'
  OBVIOUS
<1>0. StopType /\ DsStation \subseteq Station /\ PolicyStation \subseteq Station
  BY StationAssumption DEF DataType
<1>a. RelayType /\ RelayGoesOn /\ phase \in Phase /\ PauseKnows
  BY DEF DataType, ClockType
<1>b. joined \subseteq Station
  BY DEF DataType, RosterType
<1> USE <1>a DEF Phase, RobotPhase, MatchActive, Running, clockVars, matchVars, relayVars
<1>1. CASE Setup
  <2>1. CASE CreateMatch
    BY <2>1, GoesOnKept DEF CreateMatch, CloseReadyCheck, ReadyBecomes
  <2>2. CASE CancelMatch
    BY <2>2, GoesOnKept DEF CancelMatch, CloseReadyCheck, ReadyBecomes, Unjoin
  <2>3. ASSUME NEW s \in Station, NEW a \in Alliance, Join(s, a) PROVE RelayGoesOn'
    BY <2>3, GoesOnKept DEF Join, CloseReadyCheck, ReadyBecomes
  <2>4. ASSUME NEW S \in SUBSET Station, Evict(S) PROVE RelayGoesOn'
    BY <2>4, GoesOnKept DEF Evict, CloseReadyCheck, ReadyBecomes, Unjoin
  <2>5. ASSUME NEW s \in Station, LeaveStation(s) PROVE RelayGoesOn'
    BY <2>5, GoesOnKept DEF LeaveStation, CloseReadyCheck, ReadyBecomes, Unjoin, CutShort, EndMatch,
       StopTick
  <2>6. ASSUME NEW c \in Config, UpdateMatchConfig(c) PROVE RelayGoesOn'
    BY <2>6, GoesOnKept DEF UpdateMatchConfig, CloseReadyCheck, ReadyBecomes
  <2>7. CASE RequestReady
    BY <2>7, GoesOnKept DEF RequestReady, ReadyBecomes
  <2>8. CASE RetractReady
    BY <2>8, GoesOnKept DEF RetractReady, CloseReadyCheck, ReadyBecomes
  <2>9. CASE UnreadySweep
    BY <2>9, GoesOnKept DEF UnreadySweep
  <2>10. CASE GetReady
    BY <2>10, GoesOnKept DEF GetReady, ReadyBecomes
  <2>11. ASSUME NEW s \in Station, NEW r \in BOOLEAN, NEW forced \in BOOLEAN, SetReady(s, r, forced)
       PROVE RelayGoesOn'
    BY <2>11, GoesOnKept DEF SetReady
  <2>12. ASSUME NEW role \in Role, NEW b \in BOOLEAN, SetStaffReady(role, b) PROVE RelayGoesOn'
    BY <2>12, GoesOnKept DEF SetStaffReady
  <2>13. ASSUME NEW role \in Role, NEW b \in BOOLEAN, SetStaffIgnored(role, b) PROVE RelayGoesOn'
    BY <2>13, GoesOnKept DEF SetStaffIgnored
  <2>14. ASSUME NEW h \in StartHold, StartHoldOver(h) PROVE RelayGoesOn'
    BY <2>14, GoesOnKept DEF StartHoldOver
  <2> QED
    BY <1>1, <2>1, <2>2, <2>3, <2>4, <2>5, <2>6, <2>7, <2>8, <2>9, <2>10, <2>11, <2>12,
       <2>13, <2>14 DEF Setup, CancelEmptySetup, SwapStationAlliance, KickStation
<1>2. CASE Play
  <2>1. CASE StartMatch
    <3>1. /\ finished' = {} /\ UNCHANGED <<joined, alliance>>
          /\ relayOrder' = [a \in Alliance |-> AllianceStations(a)]
          /\ legs' = [a \in Alliance |-> 0]
      BY <2>1 DEF StartMatch, Set, RelayType
    <3>2. ASSUME NEW a \in Alliance, relayOrder'[a] # {} PROVE Leg(a, legs[a])' # {}
      <4>1. relayOrder'[a] \in SUBSET Station
        BY <1>b, <3>1 DEF AllianceStations
      <4>2. PICK s \in relayOrder'[a] : Place(s, relayOrder'[a]) = 1
        BY <3>2, <4>1, FirstLeg
      <4>3. legs'[a] = 0
        BY <3>1
      <4> QED
        BY <4>2, <4>3 DEF Leg
    <3> QED
      BY <3>2 DEF RelayGoesOn
  <2>2. CASE StopMatch
    BY <2>2, GoesOnKept DEF StopMatch, CutShort, EndMatch, StopTick
  <2>3. CASE PauseMatch
    BY <2>3, GoesOnKept DEF PauseMatch, Running, StopTick
  <2>4. CASE ResumeMatch
    BY <2>4, GoesOnKept DEF ResumeMatch
  <2>5. CASE CompleteResume
    BY <2>5, GoesOnKept DEF CompleteResume, EnableParticipating, PauseKnows, StartTick
  <2>6. ASSUME NEW S \in SUBSET Station, AbortCountdown(S) PROVE RelayGoesOn'
    BY <2>6, GoesOnKept DEF AbortCountdown, ReadyBecomes, StopTick
  <2>7. ASSUME NEW w \in Alliance, SetAutoWinner(w) PROVE RelayGoesOn'
    BY <2>7, GoesOnKept DEF SetAutoWinner, StartTick, Alliance
  <2>8. CASE ClearMatch
    BY <2>8, GoesOnKept DEF ClearMatch, CloseReadyCheck, ReadyBecomes, StopTick
  <2>9. ASSUME NEW a \in Alliance, ChallengeFinish(a) PROVE RelayGoesOn'
    BY <2>9, GoesOnFinish DEF ChallengeFinish, CanFinish
  <2>10. ASSUME NEW a \in Alliance, RelayAdvance(a) PROVE RelayGoesOn'
    BY <2>10, GoesOnAdvance DEF RelayAdvance
  <2>11. CASE Tick
    <3>1. PICK e \in 1..MaxElapsed :
            \/ RunsOn(Drained(e)) \/ EndgameStarts(Drained(e)) \/ CountdownOver
            \/ AutoOver \/ AutoPauseOver \/ TeleopOver \/ CountOver
      BY <2>11, GoesOnKept DEF Tick
    <3> DEFINE r == Drained(e)
    <3>2. CASE RunsOn(r)
      BY <2>11, <3>2, GoesOnKept DEF Tick, RunsOn
    <3>3. CASE EndgameStarts(r)
      BY <2>11, <3>3, GoesOnKept DEF Tick, EndgameStarts
    <3>4. CASE CountdownOver
      BY <2>11, <3>4, GoesOnKept DEF Tick, CountdownOver, PeriodBegins, EnableParticipating
    <3>5. CASE AutoOver
      BY <2>11, <3>5, GoesOnKept DEF Tick, AutoOver, StopTick
    <3>6. CASE AutoPauseOver
      BY <2>11, <3>6, GoesOnKept DEF Tick, AutoPauseOver, PeriodBegins, EnableParticipating
    <3>7. CASE TeleopOver
      BY <2>11, <3>7, GoesOnKept DEF Tick, TeleopOver, EndMatch
    <3>8. CASE CountOver
      BY <2>11, <3>8, GoesOnKept DEF Tick, CountOver, StopTick, ReadyBecomes
    <3> QED
      BY <3>1, <3>2, <3>3, <3>4, <3>5, <3>6, <3>7, <3>8
  <2> QED
    BY <1>2, <2>1, <2>2, <2>3, <2>4, <2>5, <2>6, <2>7, <2>8, <2>9, <2>10, <2>11 DEF Play,
       AutoClearFires
<1>3. CASE Stops
  <2>1. CASE FieldEStop
    BY <2>1, GoesOnKept DEF FieldEStop, CutShort, EndMatch, StopTick
  <2>2. ASSUME NEW field \in BOOLEAN, NEW own \in SUBSET Station, ClearEStops(field, own)
       PROVE RelayGoesOn'
    BY <2>2, GoesOnKept DEF ClearEStops, CameOutOfEStop
  <2>3. ASSUME NEW s \in Station, StationEStop(s) PROVE RelayGoesOn'
    BY <2>3, GoesOnKept DEF StationEStop
  <2>4. ASSUME NEW s \in Station, StationAStop(s) PROVE RelayGoesOn'
    BY <2>4, GoesOnKept DEF StationAStop, CanAStop
  <2>5. ASSUME NEW s \in Station, StationClearAStop(s) PROVE RelayGoesOn'
    BY <2>5, GoesOnKept DEF StationClearAStop
  <2>6. ASSUME NEW s \in Station, NEW source \in {"admin", "self"}, StationDisable(s, source)
       PROVE RelayGoesOn'
    <3>1. CASE source = "self" /\ s \in enabled
      BY <2>6, <3>1, GoesOnDisables DEF StationDisable
    <3>2. CASE ~(source = "self" /\ s \in enabled)
      BY <2>6, <3>2, GoesOnKept DEF StationDisable
    <3> QED
      BY <3>1, <3>2
  <2> QED
    BY <1>3, <2>1, <2>2, <2>3, <2>4, <2>5, <2>6, <1>0, StopsCases
<1>4. CASE Reports
  <2>1. ASSUME NEW s \in Station, DsReportsStatus(s) PROVE RelayGoesOn'
    BY <2>1, GoesOnKept DEF DsReportsStatus, EnableOne
  <2>2. ASSUME NEW s \in Station, DsReportsDisabled(s) PROVE RelayGoesOn'
    BY <2>2, GoesOnDisables DEF DsReportsDisabled
  <2>3. ASSUME NEW s \in Station, DsQuiet(s) PROVE RelayGoesOn'
    BY <2>3, GoesOnKept DEF DsQuiet
  <2>4. ASSUME NEW s \in Station, NEW bit \in {"eStop", "aStop"}, DsReportsStop(s, bit)
       PROVE RelayGoesOn'
    BY <2>4, GoesOnKept DEF DsReportsStop, CanAStop
  <2>5. ASSUME NEW s \in Station, PolicyChanges(s) PROVE RelayGoesOn'
    BY <2>5, GoesOnKept DEF PolicyChanges
  <2> QED
    BY <1>4, <2>1, <2>2, <2>3, <2>4, <2>5, <1>0 DEF Reports
<1>5. CASE Enables
  <2>1. ASSUME NEW s \in Station, NEW byAdmin \in BOOLEAN, Undisable(s, byAdmin)
       PROVE RelayGoesOn'
    BY <2>1, GoesOnKept DEF Undisable, EnableOne
  <2> QED
    BY <1>5, <2>1 DEF Enables
<1> QED
  BY <1>1, <1>2, <1>3, <1>4, <1>5 DEF Next, NextButEnable

-----------------------------------------------------------------------------
\* The invariant.

\* An engine that has just started is safe: no match, no robot, no timer.
LEMMA SafeInit ==
  Init => ClockSafe /\ ClockRuns /\ RobotSafe /\ ModeSafe /\ SlotSafe /\ RelaySafe /\ RelayGoesOn
<1> SUFFICES ASSUME Init
             PROVE  /\ ClockSafe /\ ClockRuns /\ RobotSafe /\ ModeSafe
                    /\ SlotSafe /\ RelaySafe /\ RelayGoesOn
  OBVIOUS
<1>1. ClockSafe /\ RobotSafe
  BY DEF Init, ClockSafe, ResumeOnlyWhilePaused, AutoClearOnlyAfterMatch, FieldEStopEndsMatch,
     AStopEndsWithAuto, RobotSafe, OnlyLiveRobotsEnabled, StopsHold, EnabledIsUnmarked
<1>2. ModeSafe /\ RelaySafe
  BY DEF Init, ModeSafe, NoAutoRoutineInTeleop, AutoIsPlayed, RelaySafe
<1>3. \A a \in Alliance : AllianceStations(a) = {}
  BY DEF Init, AllianceStations
<1>4. SlotSafe
  BY <1>3, TimingAssumption, FS_EmptySet DEF Init, SlotSafe, SidesFit, OrderFits,
     SlotsAreDistinct, MatchActive
<1>5. ClockRuns /\ RelayGoesOn
  BY DEF Init, ClockRuns, RelayGoesOn, MatchActive
<1> QED
  BY <1>1, <1>2, <1>4, <1>5

\* Safety speaks of the engine's variables only.
LEMMA SafeStutter ==
  ASSUME ClockSafe, ClockRuns, RobotSafe, ModeSafe, SlotSafe, RelaySafe, RelayGoesOn,
         UNCHANGED vars
  PROVE  /\ ClockSafe' /\ ClockRuns' /\ RobotSafe' /\ ModeSafe'
         /\ SlotSafe' /\ RelaySafe' /\ RelayGoesOn'
<1> USE DEF vars, clockVars, matchVars, rosterVars, checkVars, robotVars, stopVars, relayVars,
            fieldVars
<1>1. ClockSafe'
  BY DEF ClockSafe, ResumeOnlyWhilePaused, AutoClearOnlyAfterMatch, FieldEStopEndsMatch,
     AStopEndsWithAuto, MatchActive
<1>2. RobotSafe'
  BY DEF RobotSafe, OnlyLiveRobotsEnabled, StopsHold, EnabledIsUnmarked, Running, IsEStopped
<1>3. ModeSafe'
  BY DEF ModeSafe, NoAutoRoutineInTeleop, AutoIsPlayed
<1>4. SlotSafe'
  BY DEF SlotSafe, SidesFit, OrderFits, SlotsAreDistinct, MatchActive, AllianceStations
<1>5. RelaySafe'
  BY RelayKept
<1>6. ClockRuns'
  BY DEF ClockRuns, Ticking, AwaitingWinner, MatchActive
<1>7. RelayGoesOn'
  BY GoesOnKept DEF MatchActive
<1> QED
  BY <1>1, <1>2, <1>3, <1>4, <1>5, <1>6, <1>7

\* The inductive invariant.
IInv ==
  /\ DataType /\ FlagType
  /\ ClockSafe /\ ClockRuns /\ RobotSafe /\ ModeSafe
  /\ SlotSafe /\ RelaySafe /\ RelayGoesOn

\* The inductive invariant holds in every state of every behaviour.
LEMMA SafetyInvariant == Spec => []IInv
<1>1. Init => IInv
  BY TypeInit, SafeInit DEF IInv
<1>2. IInv /\ [Next]_vars => IInv'
  BY DataStep, FlagStep, TypeStutter, ClockStep, TickStep, RobotStep, ModeStep, SlotStep,
     RelayStep, GoesOnStep, SafeStutter DEF IInv, DataType
<1> QED
  BY <1>1, <1>2, PTL DEF Spec

\* No robot is ever commanded enabled outside its own match's periods.
THEOREM OnlyLive == Spec => []OnlyLiveRobotsEnabled
<1>1. IInv => OnlyLiveRobotsEnabled
  BY DEF IInv, RobotSafe
<1> QED
  BY <1>1, SafetyInvariant, PTL

\* No order of events enables a robot through a latched stop, and no match runs
\* under a latched field E-Stop.
THEOREM StopsAlwaysStop == Spec => []StopsStop
<1>1. IInv => StopsStop
  BY DEF IInv, RobotSafe, ClockSafe, StopsStop
<1> QED
  BY <1>1, SafetyInvariant, PTL

\* A stopped match, and the next one, are safe from the resume timer, the
\* auto-clear timer never outlives the finished match it was set for, and no pick,
\* pause, resume or departure leaves a running match without its clock.
THEOREM TimersAlwaysBelong == Spec => []TimersBelong
<1>1. IInv => TimersBelong
  BY DEF IInv, ClockSafe, TimersBelong
<1> QED
  BY <1>1, SafetyInvariant, PTL

\* No A-Stop is left once teleop runs.
THEOREM AStopEnds == Spec => []AStopEndsWithAuto
<1>1. IInv => AStopEndsWithAuto
  BY DEF IInv, ClockSafe
<1> QED
  BY <1>1, SafetyInvariant, PTL

\* A robot that runs in teleop or endgame never carries the auto mode, and one
\* that runs in auto always does, whatever took it down and brought it back.
THEOREM ModesMatch == Spec => []NoAutoRoutineInTeleop
<1>1. IInv => NoAutoRoutineInTeleop
  BY DEF IInv, ModeSafe
<1> QED
  BY <1>1, SafetyInvariant, PTL

\* During a match everyone in it keeps a slot of its own in its own alliance.
THEOREM SlotsStayDistinct == Spec => []SlotsAreDistinct
<1>1. IInv => SlotsAreDistinct
  BY DEF IInv, SlotSafe
<1> QED
  BY <1>1, SafetyInvariant, PTL

\* A relay the FMS hands off runs the robot whose leg it is, and nobody else of
\* its alliance; and it is somebody's leg until the alliance's clock stops.
THEOREM OneRunnerPerRelay ==
  Spec => [](/\ RelayOneRunner
             /\ FmsHandoff(config) =>
                  \A s, t \in enabled : alliance[s] = alliance[t] => s = t)
<1> DEFINE Alone == FmsHandoff(config) =>
                      \A s, t \in enabled : alliance[s] = alliance[t] => s = t
<1>1. IInv => RelayOneRunner /\ Alone
  <2> SUFFICES ASSUME IInv PROVE RelayOneRunner /\ Alone
    OBVIOUS
  <2>1. RelayOneRunner
    <3>1. FmsHandoff(config) => \A s \in enabled : s \in Runner(alliance[s])
      BY DEF IInv, RelaySafe
    <3>2. Running => MatchActive
      BY DEF Running, RobotPhase, MatchActive
    <3>3. FmsHandoff(config) /\ Running =>
            \A a \in Alliance \ finished : relayOrder[a] # {} => Runner(a) # {}
      BY <3>2 DEF IInv, RelayGoesOn, Runner
    <3> QED
      BY <3>1, <3>3 DEF RelayOneRunner
  <2>2. ASSUME FmsHandoff(config), NEW s \in enabled, NEW t \in enabled, alliance[s] = alliance[t]
        PROVE  s = t
    <3>1. s \in Runner(alliance[s]) /\ t \in Runner(alliance[s])
      BY <2>2 DEF IInv, RelaySafe
    <3>2. alliance[s] \in Alliance
      BY DEF IInv, RobotSafe, OnlyLiveRobotsEnabled, SlotSafe, SidesFit
    <3> QED
      BY <3>1, <3>2, LegIsOne DEF Runner, IInv, DataType
  <2> QED
    BY <2>1, <2>2
<1> QED
  BY <1>1, SafetyInvariant, PTL

\* A robot whose alliance has stopped its clock stays down for the match.
THEOREM FinishedNeverReturn == Spec => []FinishedStaysDown
<1>1. IInv => FinishedStaysDown
  BY DEF IInv, RelaySafe, FinishedStaysDown
<1> QED
  BY <1>1, SafetyInvariant, PTL

-----------------------------------------------------------------------------
\* What no step may do.

\* Every way of bringing a robot up asks the controller policy, and every way but
\* a press of Enable refuses one that came out of an e-stop.
LEMMA EnableGate ==
  ASSUME StopType, FlagType, Next, NEW x \in Station, x \notin enabled, x \in enabled'
  PROVE  /\ x \notin blocked
         /\ disabledBy[x] # "estop" \/ \E byAdmin \in BOOLEAN : Undisable(x, byAdmin)
<1> DEFINE Asked == /\ x \notin blocked
                    /\ disabledBy[x] # "estop" \/ \E byAdmin \in BOOLEAN : Undisable(x, byAdmin)
<1> SUFFICES Asked
  OBVIOUS
<1>0. StopType /\ DsStation \subseteq Station /\ PolicyStation \subseteq Station
  BY StationAssumption
<1> USE DEF robotVars
<1>1. CASE Setup
  <2>1. CASE CreateMatch
    BY <2>1 DEF CreateMatch, CloseReadyCheck, ReadyBecomes
  <2>2. CASE CancelMatch
    BY <2>2 DEF CancelMatch, CloseReadyCheck, ReadyBecomes, Unjoin
  <2>3. ASSUME NEW s \in Station, NEW a \in Alliance, Join(s, a) PROVE Asked
    BY <2>3 DEF Join, CloseReadyCheck, ReadyBecomes
  <2>4. ASSUME NEW S \in SUBSET Station, Evict(S) PROVE Asked
    BY <2>4 DEF Evict, CloseReadyCheck, ReadyBecomes, Unjoin
  <2>5. ASSUME NEW s \in Station, LeaveStation(s) PROVE Asked
    BY <2>5 DEF LeaveStation, CloseReadyCheck, ReadyBecomes, Unjoin, CutShort, EndMatch,
       StopTick
  <2>6. ASSUME NEW c \in Config, UpdateMatchConfig(c) PROVE Asked
    BY <2>6 DEF UpdateMatchConfig, CloseReadyCheck, ReadyBecomes
  <2>7. CASE RequestReady
    BY <2>7 DEF RequestReady, ReadyBecomes
  <2>8. CASE RetractReady
    BY <2>8 DEF RetractReady, CloseReadyCheck, ReadyBecomes
  <2>9. CASE UnreadySweep
    BY <2>9 DEF UnreadySweep
  <2>10. CASE GetReady
    BY <2>10 DEF GetReady, ReadyBecomes
  <2>11. ASSUME NEW s \in Station, NEW r \in BOOLEAN, NEW forced \in BOOLEAN, SetReady(s, r, forced)
       PROVE Asked
    BY <2>11 DEF SetReady
  <2>12. ASSUME NEW role \in Role, NEW b \in BOOLEAN, SetStaffReady(role, b) PROVE Asked
    BY <2>12 DEF SetStaffReady
  <2>13. ASSUME NEW role \in Role, NEW b \in BOOLEAN, SetStaffIgnored(role, b) PROVE Asked
    BY <2>13 DEF SetStaffIgnored
  <2>14. ASSUME NEW h \in StartHold, StartHoldOver(h) PROVE Asked
    BY <2>14 DEF StartHoldOver
  <2> QED
    BY <1>1, <2>1, <2>2, <2>3, <2>4, <2>5, <2>6, <2>7, <2>8, <2>9, <2>10, <2>11, <2>12,
       <2>13, <2>14 DEF Setup, CancelEmptySetup, SwapStationAlliance, KickStation
<1>2. CASE Play
  <2>1. CASE StartMatch
    BY <2>1 DEF StartMatch, StartTick
  <2>2. CASE StopMatch
    BY <2>2 DEF StopMatch, CutShort, EndMatch, StopTick
  <2>3. CASE PauseMatch
    BY <2>3 DEF PauseMatch, Running, StopTick
  <2>4. CASE ResumeMatch
    BY <2>4 DEF ResumeMatch
  <2>5. CASE CompleteResume
    BY <2>5 DEF CompleteResume, EnableParticipating, CanEnable
  <2>6. ASSUME NEW S \in SUBSET Station, AbortCountdown(S) PROVE Asked
    BY <2>6 DEF AbortCountdown, ReadyBecomes, StopTick
  <2>7. ASSUME NEW w \in Alliance, SetAutoWinner(w) PROVE Asked
    BY <2>7 DEF SetAutoWinner, StartTick
  <2>8. CASE ClearMatch
    BY <2>8 DEF ClearMatch, CloseReadyCheck, ReadyBecomes, StopTick
  <2>9. ASSUME NEW a \in Alliance, ChallengeFinish(a) PROVE Asked
    BY <2>9 DEF ChallengeFinish, RecordFinish, EndMatch
  <2>10. ASSUME NEW a \in Alliance, RelayAdvance(a) PROVE Asked
    BY <2>10 DEF RelayAdvance, Advance, RecordFinish, EndMatch, CanEnable
  <2>11. CASE Tick
    <3>1. PICK e \in 1..MaxElapsed :
            \/ RunsOn(Drained(e)) \/ EndgameStarts(Drained(e)) \/ CountdownOver
            \/ AutoOver \/ AutoPauseOver \/ TeleopOver \/ CountOver
      BY <2>11 DEF Tick
    <3> DEFINE r == Drained(e)
    <3>2. CASE RunsOn(r)
      BY <2>11, <3>2 DEF Tick, RunsOn
    <3>3. CASE EndgameStarts(r)
      BY <2>11, <3>3 DEF Tick, EndgameStarts
    <3>4. CASE CountdownOver
      BY <2>11, <3>4 DEF Tick, CountdownOver, PeriodBegins, EnableParticipating, CanEnable
    <3>5. CASE AutoOver
      BY <2>11, <3>5 DEF Tick, AutoOver, StopTick
    <3>6. CASE AutoPauseOver
      BY <2>11, <3>6 DEF Tick, AutoPauseOver, PeriodBegins, EnableParticipating, CanEnable
    <3>7. CASE TeleopOver
      BY <2>11, <3>7 DEF Tick, TeleopOver, EndMatch
    <3>8. CASE CountOver
      BY <2>11, <3>8 DEF Tick, CountOver, StopTick, ReadyBecomes
    <3> QED
      BY <3>1, <3>2, <3>3, <3>4, <3>5, <3>6, <3>7, <3>8
  <2> QED
    BY <1>2, <2>1, <2>2, <2>3, <2>4, <2>5, <2>6, <2>7, <2>8, <2>9, <2>10, <2>11 DEF Play,
       AutoClearFires
<1>3. CASE Stops
  <2>1. CASE FieldEStop
    BY <2>1 DEF FieldEStop, CutShort, EndMatch, StopTick
  <2>2. ASSUME NEW field \in BOOLEAN, NEW own \in SUBSET Station, ClearEStops(field, own)
       PROVE Asked
    BY <2>2 DEF ClearEStops, CameOutOfEStop
  <2>3. ASSUME NEW s \in Station, StationEStop(s) PROVE Asked
    BY <2>3 DEF StationEStop
  <2>4. ASSUME NEW s \in Station, StationAStop(s) PROVE Asked
    BY <2>4 DEF StationAStop
  <2>5. ASSUME NEW s \in Station, StationClearAStop(s) PROVE Asked
    BY <2>5 DEF StationClearAStop
  <2>6. ASSUME NEW s \in Station, NEW source \in {"admin", "self"}, StationDisable(s, source)
       PROVE Asked
    BY <2>6 DEF StationDisable, DisableMaybeHandOff, Advance, RecordFinish, EndMatch,
       CanEnable
  <2> QED
    BY <1>3, <2>1, <2>2, <2>3, <2>4, <2>5, <2>6, <1>0, StopsCases
<1>4. CASE Reports
  <2>1. ASSUME NEW s \in Station, DsReportsStatus(s) PROVE Asked
    BY <2>1 DEF DsReportsStatus, DsBack, CanUndisable, EnableOne
  <2>2. ASSUME NEW s \in Station, DsReportsDisabled(s) PROVE Asked
    BY <2>2 DEF DsReportsDisabled, DisableMaybeHandOff, Advance, RecordFinish, EndMatch,
       CanEnable
  <2>3. ASSUME NEW s \in Station, DsQuiet(s) PROVE Asked
    BY <2>3 DEF DsQuiet
  <2>4. ASSUME NEW s \in Station, NEW bit \in {"eStop", "aStop"}, DsReportsStop(s, bit)
       PROVE Asked
    BY <2>4 DEF DsReportsStop
  <2>5. ASSUME NEW s \in Station, PolicyChanges(s) PROVE Asked
    BY <2>5 DEF PolicyChanges
  <2> QED
    BY <1>4, <2>1, <2>2, <2>3, <2>4, <2>5, <1>0 DEF Reports
<1>5. CASE Enables
  <2>1. ASSUME NEW s \in Station, NEW byAdmin \in BOOLEAN, Undisable(s, byAdmin) PROVE Asked
    BY <2>1 DEF Undisable, CanUndisable, EnableOne
  <2> QED
    BY <1>5, <2>1 DEF Enables
<1> QED
  BY <1>1, <1>2, <1>3, <1>4, <1>5 DEF Next, NextButEnable

\* A robot that came out of an e-stop during the match stays down until someone
\* presses Enable: no phase change, resume, hand-off or DS report brings it back.
THEOREM OnlyEnableBringsItBack == Spec => OnlyEnableEndsEStopDisable
<1> DEFINE Act == \A s \in Station : disabledBy[s] = "estop" /\ s \in enabled'
                    => \E byAdmin \in BOOLEAN : Undisable(s, byAdmin)
<1>1. IInv /\ [Next]_vars => [Act]_vars
  <2> SUFFICES ASSUME IInv, Next, NEW s \in Station, disabledBy[s] = "estop", s \in enabled'
               PROVE  \E byAdmin \in BOOLEAN : Undisable(s, byAdmin)
    OBVIOUS
  <2>1. s \notin enabled
    BY DEF IInv, RobotSafe, EnabledIsUnmarked
  <2> QED
    BY <2>1, EnableGate DEF IInv, DataType
<1> QED
  BY <1>1, SafetyInvariant, PTL DEF Spec, OnlyEnableEndsEStopDisable

\* No robot the controller policy forbids is ever brought up.
THEOREM PolicyAlwaysGates == Spec => PolicyGatesEveryEnable
<1> DEFINE Act == \A s \in blocked : s \notin enabled => s \notin enabled'
<1>1. IInv /\ [Next]_vars => [Act]_vars
  <2> SUFFICES ASSUME IInv, Next, NEW s \in blocked, s \notin enabled, s \in enabled'
               PROVE  FALSE
    OBVIOUS
  <2>1. s \in Station
    BY DEF IInv, DataType, StopType
  <2> QED
    BY <2>1, EnableGate DEF IInv, DataType
<1> QED
  BY <1>1, SafetyInvariant, PTL DEF Spec, PolicyGatesEveryEnable

-----------------------------------------------------------------------------
\* The phases, as the queue and the Wi-Fi follow them.

PlayedPhase == {"auto", "autoPause", "teleop", "endgame", "paused"}

\* What a step may do to the phase and the roster.
PhaseMoves ==
  \/ UNCHANGED <<phase, joined>>
  \/ ~MatchActive /\ phase' = phase
  \/ MatchActive /\ phase' = phase /\ joined # {} /\ joined' # {}
  \/ phase \in {"idle", "postMatch"} /\ phase' = "created" /\ joined' = {}
  \/ phase \in {"created", "postMatch"} /\ phase' = "idle"
  \/ phase = "created" /\ phase' = "countdown" /\ joined # {} /\ UNCHANGED joined
  \/ phase = "countdown" /\ phase' \in PlayedPhase \cup {"created"} /\ UNCHANGED joined
  \/ phase \in PlayedPhase /\ phase' \in PlayedPhase /\ UNCHANGED joined
  \/ MatchActive /\ phase' = "postMatch"

LEMMA PhaseStep == DataType /\ FlagType /\ Next => PhaseMoves
<1> SUFFICES ASSUME DataType, FlagType, Next PROVE PhaseMoves
  OBVIOUS
<1>0. /\ StopType /\ RosterType
      /\ DsStation \subseteq Station /\ PolicyStation \subseteq Station
      /\ phase \in Phase /\ PauseKnows
  BY StationAssumption DEF DataType, ClockType
<1> USE <1>0 DEF PhaseMoves, rosterVars, clockVars, MatchActive, PlayedPhase, RobotPhase
<1>1. CASE Setup
  <2>1. CASE CreateMatch
    BY <2>1 DEF CreateMatch, CloseReadyCheck, ReadyBecomes
  <2>2. CASE CancelMatch
    BY <2>2, <1>0 DEF CancelMatch, CloseReadyCheck, ReadyBecomes, Unjoin, RosterType
  <2>3. ASSUME NEW s \in Station, NEW a \in Alliance, Join(s, a) PROVE PhaseMoves
    BY <2>3 DEF Join
  <2>4. ASSUME NEW S \in SUBSET Station, Evict(S) PROVE PhaseMoves
    BY <2>4, <1>0 DEF Evict, CloseReadyCheck, ReadyBecomes, Unjoin, Set, RosterType
  <2>5. ASSUME NEW s \in Station, LeaveStation(s) PROVE PhaseMoves
    BY <2>5, <1>0 DEF LeaveStation, Unjoin, CutShort, EndMatch, Set, RosterType, Running,
       RobotPhase
  <2>6. ASSUME NEW c \in Config, UpdateMatchConfig(c) PROVE PhaseMoves
    BY <2>6 DEF UpdateMatchConfig, CloseReadyCheck, ReadyBecomes
  <2>7. CASE RequestReady
    BY <2>7 DEF RequestReady, ReadyBecomes
  <2>8. CASE RetractReady
    BY <2>8 DEF RetractReady, CloseReadyCheck, ReadyBecomes
  <2>9. CASE UnreadySweep
    BY <2>9 DEF UnreadySweep
  <2>10. CASE GetReady
    BY <2>10 DEF GetReady, ReadyBecomes
  <2>11. ASSUME NEW s \in Station, NEW r \in BOOLEAN, NEW forced \in BOOLEAN, SetReady(s, r, forced)
       PROVE PhaseMoves
    BY <2>11 DEF SetReady
  <2>12. ASSUME NEW role \in Role, NEW b \in BOOLEAN, SetStaffReady(role, b) PROVE PhaseMoves
    BY <2>12 DEF SetStaffReady
  <2>13. ASSUME NEW role \in Role, NEW b \in BOOLEAN, SetStaffIgnored(role, b) PROVE PhaseMoves
    BY <2>13 DEF SetStaffIgnored
  <2>14. ASSUME NEW h \in StartHold, StartHoldOver(h) PROVE PhaseMoves
    BY <2>14 DEF StartHoldOver
  <2> QED
    BY <1>1, <2>1, <2>2, <2>3, <2>4, <2>5, <2>6, <2>7, <2>8, <2>9, <2>10, <2>11, <2>12, <2>13,
       <2>14 DEF Setup, CancelEmptySetup, SwapStationAlliance, KickStation
<1>2. CASE Play
  <2>1. CASE StartMatch
    BY <2>1 DEF StartMatch, CanStart
  <2>2. CASE StopMatch
    BY <2>2 DEF StopMatch, CutShort, EndMatch, StopTick
  <2>3. CASE PauseMatch
    BY <2>3 DEF PauseMatch, Running, StopTick, RobotPhase
  <2>4. CASE ResumeMatch
    BY <2>4 DEF ResumeMatch
  <2>5. CASE CompleteResume
    BY <2>5 DEF CompleteResume, EnableParticipating, PauseKnows
  <2>6. ASSUME NEW S \in SUBSET Station, AbortCountdown(S) PROVE PhaseMoves
    BY <2>6 DEF AbortCountdown, ReadyBecomes, StopTick
  <2>7. ASSUME NEW w \in Alliance, SetAutoWinner(w) PROVE PhaseMoves
    BY <2>7 DEF SetAutoWinner, StartTick
  <2>8. CASE ClearMatch
    BY <2>8 DEF ClearMatch, CloseReadyCheck, ReadyBecomes, StopTick
  <2>9. ASSUME NEW a \in Alliance, ChallengeFinish(a) PROVE PhaseMoves
    BY <2>9 DEF ChallengeFinish, RecordFinish, EndMatch, CanFinish, Running
  <2>10. ASSUME NEW a \in Alliance, RelayAdvance(a) PROVE PhaseMoves
    BY <2>10 DEF RelayAdvance, Advance, RecordFinish, EndMatch, CanFinish, Running
  <2>11. CASE Tick
    <3>1. PICK e \in 1..MaxElapsed :
            \/ RunsOn(Drained(e)) \/ EndgameStarts(Drained(e)) \/ CountdownOver
            \/ AutoOver \/ AutoPauseOver \/ TeleopOver \/ CountOver
      BY <2>11 DEF Tick
    <3> DEFINE r == Drained(e)
    <3>2. CASE RunsOn(r)
      BY <2>11, <3>2 DEF Tick, RunsOn
    <3>3. CASE EndgameStarts(r)
      BY <2>11, <3>3 DEF Tick, EndgameStarts
    <3>4. CASE CountdownOver
      BY <2>11, <3>4 DEF Tick, CountdownOver, PeriodBegins
    <3>5. CASE AutoOver
      BY <2>11, <3>5 DEF Tick, AutoOver, StopTick
    <3>6. CASE AutoPauseOver
      BY <2>11, <3>6 DEF Tick, AutoPauseOver, PeriodBegins
    <3>7. CASE TeleopOver
      BY <2>11, <3>7 DEF Tick, TeleopOver, EndMatch
    <3>8. CASE CountOver
      BY <2>11, <3>8 DEF Tick, CountOver, StopTick, ReadyBecomes
    <3> QED
      BY <3>1, <3>2, <3>3, <3>4, <3>5, <3>6, <3>7, <3>8
  <2> QED
    BY <1>2, <2>1, <2>2, <2>3, <2>4, <2>5, <2>6, <2>7, <2>8, <2>9, <2>10, <2>11 DEF Play,
       AutoClearFires
<1>3. CASE Stops
  <2>1. CASE FieldEStop
    BY <2>1 DEF FieldEStop, CutShort, EndMatch, StopTick
  <2>2. ASSUME NEW field \in BOOLEAN, NEW own \in SUBSET Station, ClearEStops(field, own)
       PROVE PhaseMoves
    BY <2>2 DEF ClearEStops, CameOutOfEStop
  <2>3. ASSUME NEW s \in Station, StationEStop(s) PROVE PhaseMoves
    BY <2>3 DEF StationEStop
  <2>4. ASSUME NEW s \in Station, StationAStop(s) PROVE PhaseMoves
    BY <2>4 DEF StationAStop
  <2>5. ASSUME NEW s \in Station, StationClearAStop(s) PROVE PhaseMoves
    BY <2>5 DEF StationClearAStop
  <2>6. ASSUME NEW s \in Station, NEW source \in {"admin", "self"}, StationDisable(s, source)
       PROVE PhaseMoves
    BY <2>6 DEF StationDisable, DisableMaybeHandOff, CanFinish, Running, Advance, RecordFinish,
       EndMatch
  <2> QED
    BY <1>3, <2>1, <2>2, <2>3, <2>4, <2>5, <2>6, <1>0, StopsCases
<1>4. CASE Reports
  <2>1. ASSUME NEW s \in Station, DsReportsStatus(s) PROVE PhaseMoves
    BY <2>1 DEF DsReportsStatus, DsBack, EnableOne
  <2>2. ASSUME NEW s \in Station, DsReportsDisabled(s) PROVE PhaseMoves
    BY <2>2 DEF DsReportsDisabled, DisableMaybeHandOff, CanFinish, Running, Advance, RecordFinish,
       EndMatch
  <2>3. ASSUME NEW s \in Station, DsQuiet(s) PROVE PhaseMoves
    BY <2>3 DEF DsQuiet
  <2>4. ASSUME NEW s \in Station, NEW bit \in {"eStop", "aStop"}, DsReportsStop(s, bit)
       PROVE PhaseMoves
    BY <2>4 DEF DsReportsStop, DsBack
  <2>5. ASSUME NEW s \in Station, PolicyChanges(s) PROVE PhaseMoves
    BY <2>5 DEF PolicyChanges
  <2> QED
    BY <1>4, <2>1, <2>2, <2>3, <2>4, <2>5, <1>0 DEF Reports
<1>5. CASE Enables
  <2>1. ASSUME NEW s \in Station, NEW byAdmin \in BOOLEAN, Undisable(s, byAdmin)
       PROVE PhaseMoves
    BY <2>1 DEF Undisable, CanUndisable, EnableOne
  <2> QED
    BY <1>5, <2>1 DEF Enables
<1> QED
  BY <1>1, <1>2, <1>3, <1>4, <1>5 DEF Next, NextButEnable

\* Each of them is a step of the phases, or none.
LEMMA MovesFollow ==
  ASSUME phase \in Phase, phase' \in Phase, PhaseMoves
  PROVE  [Followed!Next]_(Followed!vars)
<1> USE DEF PhaseMoves, MatchActive, Playing, PlayedPhase, Phase, Followed!Next, Followed!vars,
            Followed!Active, Followed!CreateMatch, Followed!JoinsOrLeaves, Followed!CancelMatch,
            Followed!StartMatch, Followed!AbortCountdown, Followed!RobotsGo,
            Followed!MatchEnds, Followed!ClearMatch
<1> QED
  OBVIOUS

\* A match that is on has somebody in it, so nobody plays to an empty field.
THEOREM SomebodyPlays == Spec => [](MatchActive => joined # {})
<1>1. Init => (MatchActive => joined # {})
  BY DEF Init, MatchActive
<1>2. ASSUME IInv, MatchActive => joined # {}, [Next]_vars
      PROVE  (MatchActive => joined # {})'
  <2>1. CASE PhaseMoves
    BY <1>2, <2>1 DEF PhaseMoves, MatchActive, PlayedPhase
  <2>2. CASE UNCHANGED vars
    BY <1>2, <2>2 DEF vars, clockVars, rosterVars, MatchActive
  <2> QED
    BY <1>2, <2>1, <2>2, PhaseStep DEF IInv
<1> QED
  BY <1>1, <1>2, SafetyInvariant, PTL DEF Spec

\* The engine keeps what the queue and the Wi-Fi count on: whatever order presses,
\* timers, pauses and departures come in, what they see of a match is a step of
\* MatchPhases.
THEOREM PhasesAreFollowed == Spec => PhasesAreKept
<1>1. Init => Followed!Init
  BY DEF Init, Followed!Init, Playing, MatchActive
<1>2. ASSUME IInv, IInv', [Next]_vars
      PROVE  [Followed!Next]_(Followed!vars)
  <2>1. phase \in Phase /\ phase' \in Phase
    BY <1>2 DEF IInv, DataType, ClockType
  <2>2. CASE PhaseMoves
    BY <2>1, <2>2, MovesFollow
  <2>3. CASE UNCHANGED vars
    BY <2>3 DEF vars, clockVars, rosterVars, Followed!vars, Playing, MatchActive
  <2> QED
    BY <1>2, <2>2, <2>3, PhaseStep DEF IInv
<1> QED
  BY <1>1, <1>2, SafetyInvariant, PTL DEF Spec, PhasesAreKept, Followed!Spec

-----------------------------------------------------------------------------
\* The ready check: a match starts only with what it asked about (MatchAudit).

\* A check that is open has seen all there is.
Seen == readyRequested => ~altered

\* Whoever comes in, goes, changes sides or changes the match closes the check.
LEMMA ChangesClose ==
  ASSUME StopType, RosterType, FlagType, Next, Changed
  PROVE  ~readyRequested' \/ ~readyRequested \/ phase' \notin {"created", "countdown"}
<1> DEFINE Closed == ~readyRequested' \/ ~readyRequested \/ phase' \notin {"created", "countdown"}
<1> SUFFICES Closed
  OBVIOUS
<1> USE DEF Changed, matchVars, rosterVars, checkVars
<1>0. StopType /\ DsStation \subseteq Station /\ PolicyStation \subseteq Station
  BY StationAssumption
<1>1. CASE Setup
  <2>1. CASE CreateMatch
    BY <2>1 DEF CreateMatch, CloseReadyCheck, ReadyBecomes
  <2>2. CASE CancelMatch
    BY <2>2 DEF CancelMatch, CloseReadyCheck, ReadyBecomes, Unjoin
  <2>3. ASSUME NEW s \in Station, NEW a \in Alliance, Join(s, a) PROVE Closed
    BY <2>3 DEF Join, CloseReadyCheck
  <2>4. ASSUME NEW S \in SUBSET Station, Evict(S) PROVE Closed
    BY <2>4 DEF Evict, CloseReadyCheck, ReadyBecomes, Unjoin
  <2>5. ASSUME NEW s \in Station, LeaveStation(s) PROVE Closed
    <3>1. CASE phase = "created"
      BY <2>5, <3>1 DEF LeaveStation, CloseReadyCheck
    <3>2. CASE phase # "created"
      <4>1. /\ joined' = joined \ {s} /\ alliance' = Set(alliance, {s}, "none")
            /\ UNCHANGED pendingConfig
        BY <2>5 DEF LeaveStation, Unjoin
      <4>2. \A t \in joined' : alliance'[t] = alliance[t]
        BY <4>1 DEF RosterType, Set
      <4> QED
        BY <3>2, <4>1, <4>2
    <3> QED
      BY <3>1, <3>2
  <2>6. ASSUME NEW c \in Config, UpdateMatchConfig(c) PROVE Closed
    BY <2>6 DEF UpdateMatchConfig, CloseReadyCheck, ReadyBecomes
  <2>7. CASE RequestReady
    BY <2>7 DEF RequestReady, ReadyBecomes
  <2>8. CASE RetractReady
    BY <2>8 DEF RetractReady, CloseReadyCheck, ReadyBecomes
  <2>9. CASE UnreadySweep
    BY <2>9 DEF UnreadySweep
  <2>10. CASE GetReady
    BY <2>10 DEF GetReady, ReadyBecomes
  <2>11. ASSUME NEW s \in Station, NEW r \in BOOLEAN, NEW forced \in BOOLEAN, SetReady(s, r, forced)
       PROVE Closed
    BY <2>11 DEF SetReady
  <2>12. ASSUME NEW role \in Role, NEW b \in BOOLEAN, SetStaffReady(role, b) PROVE Closed
    BY <2>12 DEF SetStaffReady
  <2>13. ASSUME NEW role \in Role, NEW b \in BOOLEAN, SetStaffIgnored(role, b) PROVE Closed
    BY <2>13 DEF SetStaffIgnored
  <2>14. ASSUME NEW h \in StartHold, StartHoldOver(h) PROVE Closed
    BY <2>14 DEF StartHoldOver
  <2> QED
    BY <1>1, <2>1, <2>2, <2>3, <2>4, <2>5, <2>6, <2>7, <2>8, <2>9, <2>10, <2>11, <2>12,
       <2>13, <2>14 DEF Setup, CancelEmptySetup, SwapStationAlliance, KickStation
<1>2. CASE Play
  <2>1. CASE StartMatch
    BY <2>1 DEF StartMatch, StartTick
  <2>2. CASE StopMatch
    BY <2>2 DEF StopMatch, CutShort, EndMatch, StopTick
  <2>3. CASE PauseMatch
    BY <2>3 DEF PauseMatch, Running, StopTick
  <2>4. CASE ResumeMatch
    BY <2>4 DEF ResumeMatch
  <2>5. CASE CompleteResume
    BY <2>5 DEF CompleteResume
  <2>6. ASSUME NEW S \in SUBSET Station, AbortCountdown(S) PROVE Closed
    BY <2>6 DEF AbortCountdown, ReadyBecomes, StopTick
  <2>7. ASSUME NEW w \in Alliance, SetAutoWinner(w) PROVE Closed
    BY <2>7 DEF SetAutoWinner, StartTick
  <2>8. CASE ClearMatch
    BY <2>8 DEF ClearMatch, CloseReadyCheck, ReadyBecomes, StopTick
  <2>9. ASSUME NEW a \in Alliance, ChallengeFinish(a) PROVE Closed
    BY <2>9 DEF ChallengeFinish, RecordFinish, EndMatch
  <2>10. ASSUME NEW a \in Alliance, RelayAdvance(a) PROVE Closed
    BY <2>10 DEF RelayAdvance, Advance, RecordFinish, EndMatch
  <2>11. CASE Tick
    <3>1. PICK e \in 1..MaxElapsed :
            \/ RunsOn(Drained(e)) \/ EndgameStarts(Drained(e)) \/ CountdownOver
            \/ AutoOver \/ AutoPauseOver \/ TeleopOver \/ CountOver
      BY <2>11 DEF Tick
    <3> DEFINE r == Drained(e)
    <3>2. CASE RunsOn(r)
      BY <2>11, <3>2 DEF Tick, RunsOn
    <3>3. CASE EndgameStarts(r)
      BY <2>11, <3>3 DEF Tick, EndgameStarts
    <3>4. CASE CountdownOver
      BY <2>11, <3>4 DEF Tick, CountdownOver, PeriodBegins
    <3>5. CASE AutoOver
      BY <2>11, <3>5 DEF Tick, AutoOver, StopTick
    <3>6. CASE AutoPauseOver
      BY <2>11, <3>6 DEF Tick, AutoPauseOver, PeriodBegins
    <3>7. CASE TeleopOver
      BY <2>11, <3>7 DEF Tick, TeleopOver, EndMatch
    <3>8. CASE CountOver
      BY <2>11, <3>8 DEF Tick, CountOver, StopTick, ReadyBecomes
    <3> QED
      BY <3>1, <3>2, <3>3, <3>4, <3>5, <3>6, <3>7, <3>8
  <2> QED
    BY <1>2, <2>1, <2>2, <2>3, <2>4, <2>5, <2>6, <2>7, <2>8, <2>9, <2>10, <2>11 DEF Play,
       AutoClearFires
<1>3. CASE Stops
  <2>1. CASE FieldEStop
    BY <2>1 DEF FieldEStop, CutShort, EndMatch, StopTick
  <2>2. ASSUME NEW field \in BOOLEAN, NEW own \in SUBSET Station, ClearEStops(field, own)
       PROVE Closed
    BY <2>2 DEF ClearEStops
  <2>3. ASSUME NEW s \in Station, StationEStop(s) PROVE Closed
    BY <2>3 DEF StationEStop
  <2>4. ASSUME NEW s \in Station, StationAStop(s) PROVE Closed
    BY <2>4 DEF StationAStop
  <2>5. ASSUME NEW s \in Station, StationClearAStop(s) PROVE Closed
    BY <2>5 DEF StationClearAStop
  <2>6. ASSUME NEW s \in Station, NEW source \in {"admin", "self"}, StationDisable(s, source)
       PROVE Closed
    BY <2>6 DEF StationDisable, DisableMaybeHandOff, Advance, RecordFinish, EndMatch
  <2> QED
    BY <1>3, <2>1, <2>2, <2>3, <2>4, <2>5, <2>6, <1>0, StopsCases
<1>4. CASE Reports
  <2>1. ASSUME NEW s \in Station, DsReportsStatus(s) PROVE Closed
    BY <2>1 DEF DsReportsStatus, DsBack
  <2>2. ASSUME NEW s \in Station, DsReportsDisabled(s) PROVE Closed
    BY <2>2 DEF DsReportsDisabled, DisableMaybeHandOff, Advance, RecordFinish, EndMatch
  <2>3. ASSUME NEW s \in Station, DsQuiet(s) PROVE Closed
    BY <2>3 DEF DsQuiet
  <2>4. ASSUME NEW s \in Station, NEW bit \in {"eStop", "aStop"}, DsReportsStop(s, bit)
       PROVE Closed
    BY <2>4 DEF DsReportsStop
  <2>5. ASSUME NEW s \in Station, PolicyChanges(s) PROVE Closed
    BY <2>5 DEF PolicyChanges
  <2> QED
    BY <1>4, <2>1, <2>2, <2>3, <2>4, <2>5, <1>0 DEF Reports
<1>5. CASE Enables
  <2>1. ASSUME NEW s \in Station, NEW byAdmin \in BOOLEAN, Undisable(s, byAdmin) PROVE Closed
    BY <2>1 DEF Undisable
  <2> QED
    BY <1>5, <2>1 DEF Enables
<1> QED
  BY <1>1, <1>2, <1>3, <1>4, <1>5 DEF Next, NextButEnable

\* Its memories aside, the audited engine is the engine.
LEMMA EngineInvariant == CheckedSpec => []IInv
<1>1. AuditInit => Init
  BY DEF AuditInit
<1>2. [Next /\ RecordChange /\ owed' = {}]_auditVars => [Next]_vars
  BY DEF auditVars
<1> QED
  BY <1>1, <1>2, SafetyInvariant, PTL DEF CheckedSpec, Spec

\* An open check has seen everything, in every state of every behaviour.
LEMMA OpenChecksHaveSeen == CheckedSpec => []Seen
<1>1. AuditInit => Seen
  BY DEF AuditInit, Seen
<1>2. IInv /\ Seen /\ [Next /\ RecordChange /\ owed' = {}]_auditVars => Seen'
  <2> SUFFICES ASSUME IInv, Seen, [Next /\ RecordChange /\ owed' = {}]_auditVars PROVE Seen'
    OBVIOUS
  <2>1. CASE UNCHANGED auditVars
    BY <2>1 DEF auditVars, vars, checkVars, Seen
  <2>2. CASE Next /\ RecordChange
    BY <2>2, ChangesClose DEF RecordChange, Seen, IInv, DataType
  <2> QED
    BY <2>1, <2>2
<1> QED
  BY <1>1, <1>2, EngineInvariant, PTL DEF CheckedSpec

\* No team, alliance or configuration that came after the host opened the ready
\* check is in a match that starts.
THEOREM StartsAreChecked == CheckedSpec => StartsWhatWasChecked
<1>1. Seen => [StartMatch => ~altered]_auditVars
  BY DEF Seen, StartMatch, CanStart
<1> QED
  BY <1>1, OpenChecksHaveSeen, PTL DEF StartsWhatWasChecked
=============================================================================
