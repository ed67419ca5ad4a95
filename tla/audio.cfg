SPECIFICATION FairSpec
CHECK_DEADLOCK FALSE
CONSTANTS
  Headsets = {h1, h2}
  Profiles = {music, call, off}
  Off = off
  None = None
  MaxChanges = 4
  MaxPicks = 3
INVARIANTS
  CardFollows
PROPERTIES
  PicksAreTried
