CONSTANTS
  Roster = {"nobody", "one"}
  Nobody = "nobody"
  Key = {"k1", "k2"}
  MaxQueue = 2
  MaxPasses = 2
  MaxDisturbances = 4
SPECIFICATION FairSpec
INVARIANTS
  JobIsRunning
  ChangesAreOwed
PROPERTIES
  RadioSettles
  BridgesSettle
CHECK_DEADLOCK FALSE
