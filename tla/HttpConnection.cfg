CONSTANTS
  None = None
  Conns = {c1, c2}
  Messages <- AllMessages
  Traffic <- MCTraffic
  Word = 16
SPECIFICATION Spec
CHECK_DEADLOCK FALSE
INVARIANTS
  PrintsWhatWasSent
  WholeBodyIsRead
  RoutesMatchTable
PROPERTY EveryConnectionEnds
