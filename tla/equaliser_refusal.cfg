SPECIFICATION Spec
CONSTANTS
  Chains = {c1, c2}
  None = None
  Rows = {"eq_enabled", "eq_preset_host"}
  MaxCommands = 2
  MaxFaults = 0
PROPERTIES
  RefusalsRetracted
