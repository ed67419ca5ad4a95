SPECIFICATION FairSpec
CONSTANTS
  Features = {noise}
  Values = {v1, v2, v3}
  None = None
  Converge = 1
  MaxReadings = 2
  MaxWrites = 3
INVARIANTS
  StaleOnlyTillCheck
  MessageCurrent
  ReadingsKept
PROPERTIES
  EchoChangesNothing
  WritesSettle
