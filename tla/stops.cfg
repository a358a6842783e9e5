CONSTANTS
  Station = {1}
  MaxTroubles = 2
  MaxCommands = 2
SPECIFICATION FairSpec
INVARIANTS
  CutsFollowStops
PROPERTIES
  RestartsKeepStops
  ClearsOnlyTheStill
  WaitsEnd
