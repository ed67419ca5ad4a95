SPECIFICATION Spec
CONSTANTS
  w1 = w1  w2 = w2  g1 = g1  g2 = g2
  NoRequest = NoRequest
  Requests = {g1, g2}
  key <- MCkey
  NoKey = ""
  expect <- SharedExpect
  NoKind = ""
  Announced = {"notify"}
  MaxAttempts = 2
  ReadsPerTurn = 2
  SendSpace = 1
  MaxLosses = 0
INVARIANTS
  RepliedOnlyIfAnswered
