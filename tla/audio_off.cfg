SPECIFICATION Spec
CHECK_DEADLOCK FALSE
CONSTANTS
  Headsets = {h1}
  Profiles = {music, off}
  Off = off
  None = None
  MaxChanges = 2
  MaxPicks = 1
INVARIANTS
  CardExact
