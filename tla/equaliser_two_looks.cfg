SPECIFICATION Spec
CONSTANTS
  Chains = {c1, c2}
  None = None
  Rows = {"eq_enabled"}
  MaxCommands = 2
  MaxFaults = 1
PROPERTIES
  StoppedOnSecondLook
