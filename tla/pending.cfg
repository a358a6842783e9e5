CONSTANTS
  a = a
  b = b
  h = h
  Robot = {a, b, h}
  Host = {h}
  Key = {"k1", "k2"}
  SavedKey = "k1"
  Slots = 2
SPECIFICATION Spec
INVARIANTS
  WaitingMakesSense
PROPERTIES
  RobotsDontMove
  RobotsLeaveForAReason
  HoldsHold
  AppliesLoseNobody
SYMMETRY Alike
