SPECIFICATION Spec
CONSTANTS
  Limit = 15
  FrameTokens = {"1", "2", "g", "-", "+", "N", "SP", "ST", "US", ":"}
  MaxFrame = 5
  Chars = {"1", "g", "-", "SP", "CR", "LF"}
  MaxPending = 4
  MaxChunk = 2
  MaxSent = 7
INVARIANTS
  FramesSurvive
  ZeroNeedsValue
  NoNumberIsLost
  UnitDecides
  MinusIsSeen
CHECK_DEADLOCK FALSE
