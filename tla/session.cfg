SPECIFICATION Spec
CONSTANTS
  w1 = w1  w2 = w2  g1 = g1  g2 = g2
  NoRequest = NoRequest
  Requests = {w1, w2, g1}
  key <- MCkey
  NoKey = ""
  expect <- MCexpect
  NoKind = ""
  Announced = {}
  MaxAttempts = 2
  ReadsPerTurn = 1
  SendSpace = 1
  MaxLosses = 1
INVARIANTS
  OneOnTheWire
  RetransmissionRecognised
  TakenBeforeTold
  NoneDropped
  RepliedMeansAnswered
  AcknowledgementKept
PROPERTIES
  FinishedStaysOff
  ServiceSpec
