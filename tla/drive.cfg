CONSTANTS
  x = x
  y = y
  r1 = r1
  r2 = r2
  s1 = s1
  s2 = s2
  None = None
  Laptop = {x, y}
  Robot = {r1, r2}
  Team = {"t", "u"}
  Station = {s1, s2}
  TeamOf <- TwoRobots
SPECIFICATION Spec
INVARIANTS
  BlockedAreDuplicates
  EngineShowsDrivers
PROPERTIES
  LiveDriversKeepTheirRobot
SYMMETRY Alike
