SPECIFICATION FairSpec
CONSTANTS
  Chains = {c1, c2}
  None = None
  Rows = {"eq_enabled"}
  MaxCommands = 1
  MaxFaults = 1
INVARIANTS
  NoOrphan
  PutBack
PROPERTIES
  GoneIsShutDown
  ComesBack
  DyingEnds
