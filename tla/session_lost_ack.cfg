SPECIFICATION FairSpec
CONSTANTS
  w1 = w1  w2 = w2  g1 = g1  g2 = g2
  NoRequest = NoRequest
  Requests = {w1, g1}
  key <- MCkey
  NoKey = ""
  expect <- MCexpect
  NoKind = ""
  Announced = {}
  MaxAttempts = 2
  ReadsPerTurn = 2
  SendSpace = 1
  MaxLosses = 1
PROPERTIES
  RequestsFinish
