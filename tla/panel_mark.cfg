SPECIFICATION FairSpec
CONSTANTS
  Features = {noise}
  Values = {v1, v2, v3}
  None = None
  Converge = 1
  MaxReadings = 1
  MaxWrites = 2
PROPERTIES
  MarkCleared
