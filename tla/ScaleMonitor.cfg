SPECIFICATION FairSpec
CONSTANTS
  Clients = {c1}
  Weights = {w1}
  MaxConns = 2
  MaxFrames = 1
  Pty = FALSE
  None = None
INVARIANTS
  NoStaleWeight
  OneConnectionPerReading
PROPERTIES
  GoneIsReported
  Reconnects
  StreamConverges
  StreamEnds
