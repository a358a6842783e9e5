CONSTANTS
  Dnat = {"a", "b"}
  Block = {"offA"}
  Route = {"toS1", "toS2"}
  Slot <- StationOf
  Owner <- LaptopOf
  Situations <- Asked
  MaxChanges = 2
  MaxTroubles = 2
SPECIFICATION FairSpec
INVARIANTS
  RestsInLine
  NoStrayRule
PROPERTIES
  LastRobotsRuleIsGone
  KeepsRules
  ComesInLine
