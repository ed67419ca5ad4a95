SPECIFICATION Spec
CONSTANTS
  Helpers = {h1, h2, h3}
  None = None
  Leftover = Leftover
  Attempts = 2
  MaxFaults = 2
INVARIANTS
  StaleOwnerSpotted
