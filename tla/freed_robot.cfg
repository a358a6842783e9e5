CONSTANTS
  Station = {1}
  MaxTroubles = 0
  MaxCommands = 2
SPECIFICATION Spec
PROPERTY NobodyFreedToEnabled
