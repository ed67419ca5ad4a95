SPECIFICATION Spec
CHECK_DEADLOCK FALSE
CONSTANTS
  MaxFrame = 24
  MaxData = 16
  MaxReports = 1
  MaxFaults = 2
  Truths <- MCHeadphones
  Wishes <- MCWishes
  News <- MCNews
  Garbage <- MCGarbage
  DamagedTo <- MCDamagedTo
PROPERTIES
  LastFramesRead
