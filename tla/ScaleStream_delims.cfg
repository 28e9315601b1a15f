SPECIFICATION Spec
CONSTANTS
  Limit = 15
  FrameTokens = {"1", "2", "g", "-", "+", "N", "SP", "ST", "US", ":"}
  MaxFrame = 1
  Chars = {"1", "CR", "LF"}
  MaxPending = 4
  MaxChunk = 2
  MaxSent = 6
INVARIANTS
  DelimitersConsumedTogether
CHECK_DEADLOCK FALSE
