CONSTANTS
  Station = {1}
  Role = {}
  Config = {}
  StartHold = {}
  DsStation = {}
  PolicyStation = {}
  AllianceSize = 1
  CountdownTicks = 1
  AutoTicks = 1
  PauseTicks = 1
  TeleopTicks = 1
  EndgameTicks = 0
  CountTicks = 1
  MaxElapsed = 1
SPECIFICATION LiftedSpec
INVARIANTS
  NothingElseBringsItBack
ACTION_CONSTRAINT LiftPresses
