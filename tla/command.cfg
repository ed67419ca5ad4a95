SPECIFICATION ClientSpec
CHECK_DEADLOCK FALSE
CONSTANTS
  Clients = {c1, c2}
  MaxNews = 3
INVARIANTS
  AnswerIsMine
  ToggleFlips
