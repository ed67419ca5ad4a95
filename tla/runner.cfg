SPECIFICATION FairSpec
CHECK_DEADLOCK FALSE
CONSTANTS
  Pipes = {out, err}
  Program = program
  Kids = {k1, k2}
  Cap = 1
  Room = 2
  MaxSaid = 2
INVARIANTS
  CompleteAnswer
  GroupStopped
  NoOrphanProgram
PROPERTIES
  Returns
