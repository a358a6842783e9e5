CONSTANTS
  Entry = {e1, e2}
  Team = {t1, t2}
  Sheet <- Sheets
  Shape <- Shapes
  Wish = {"red"}
  MaxSetups = 2
SPECIFICATION Spec
INVARIANTS
  PlayingIsUnderWay
PROPERTIES
  PlayedStaysPlayed
  FormedFairly
SYMMETRY Symmetry
CONSTRAINT Apart
