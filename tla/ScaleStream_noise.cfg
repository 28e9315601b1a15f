SPECIFICATION Spec
CONSTANTS
  Limit = 15
  FrameTokens = {"1", "2", "g", "-", "+", "N", "SP", "ST", "US", ":"}
  MaxFrame = 1
  Chars = {"1", "?", "CR"}
  MaxPending = 7
  MaxChunk = 2
  MaxSent = 6
INVARIANTS
  StreamStaysAlive
CHECK_DEADLOCK FALSE
