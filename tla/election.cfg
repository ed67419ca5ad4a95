SPECIFICATION FairSpec
CHECK_DEADLOCK FALSE
CONSTANTS
  Helpers = {h1, h2, h3}
  None = None
  Leftover = Leftover
  Attempts = 2
  MaxFaults = 1
INVARIANTS
  OneOwner
  OwnerReachable
PROPERTIES
  StrangerReplaces
  WidgetServed
