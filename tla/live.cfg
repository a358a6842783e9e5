CONSTANTS
  Station = {1}
  Role = {}
  Config <- LiveConfigs
  StartHold = {}
  DsStation = {}
  PolicyStation = {}
  AllianceSize = 1
  CountdownTicks = 1
  AutoTicks = 1
  PauseTicks = 1
  TeleopTicks = 2
  EndgameTicks = 1
  CountTicks = 1
  MaxElapsed = 2
SPECIFICATION FairSpec
PROPERTIES
  NothingLingers
  StartedMatchEnds
