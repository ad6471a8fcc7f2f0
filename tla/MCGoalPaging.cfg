SPECIFICATION LSpec
CONSTANTS
  Goals = {g1, g2, g3, g4}
  None = None
  Limits = {1, 2}
  Phases = {1, 2}
  MaxClock = 3
INVARIANTS
  PagesDescend
  NothingMissed
