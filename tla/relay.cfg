CONSTANTS
  Station = {1, 2}
  Role = {}
  Config <- RunConfigs
  StartHold = {}
  DsStation = {1}
  PolicyStation = {2}
  AllianceSize = 2
  CountdownTicks = 1
  AutoTicks = 1
  PauseTicks = 1
  TeleopTicks = 1
  EndgameTicks = 0
  CountTicks = 1
  MaxElapsed = 1
SPECIFICATION CheckedSpec
INVARIANTS
  RelayOneRunner
  FinishedStaysDown
  SlotsAreDistinct
PROPERTIES
  PolicyGatesEveryEnable
  StartsWhatWasChecked
ACTION_CONSTRAINT RelayPresses
