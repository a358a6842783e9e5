CONSTANTS
  Station = {1}
  Role = {}
  Config <- MatchConfigs
  StartHold = {"announcement"}
  DsStation = {1}
  PolicyStation = {}
  AllianceSize = 1
  CountdownTicks = 1
  AutoTicks = 1
  PauseTicks = 1
  TeleopTicks = 2
  EndgameTicks = 1
  CountTicks = 1
  MaxElapsed = 2
SPECIFICATION Spec
INVARIANTS
  OnlyLiveRobotsEnabled
  StopsStop
  NoAutoRoutineInTeleop
  AStopEndsWithAuto
  TimersBelong
PROPERTIES
  OnlyEnableEndsEStopDisable
  PhasesAreKept
ACTION_CONSTRAINT EnginePresses
