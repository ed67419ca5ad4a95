SPECIFICATION Spec
CHECK_DEADLOCK FALSE
CONSTANTS
  MaxFrame = 24
  MaxData = 16
  MaxReports = 2
  MaxFaults = 1
  Truths <- MCTruths
  Wishes <- MCWishes
  News <- MCNews
  Garbage <- MCGarbage
  DamagedTo <- MCDamagedTo
INVARIANTS
  GoodFramesRead
  NothingInvented
  WritesChangeTheirOwn
  BufferBounded
