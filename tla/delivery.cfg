CONSTANTS
  Press = {"own", "aStop"}
  Refusable = {"aStop"}
  MaxPresses = 2
  MaxTroubles = 2
  MaxFlight = 2
SPECIFICATION FairSpec
INVARIANTS
  KeptUntilShown
PROPERTIES
  PressesLand
