\* Two overlapping requests of up to two copies, every executor configuration,
\* fair threads.
CONSTANTS
  Requests = {r1, r2}
  MaxCopies = 2
  None = None
  Torn = Torn
SPECIFICATION FairSpec
INVARIANTS
  TypeOK
  GuardMatchesOwner
  LockNeverBlocks
  LabelIntegrity
  StatusMatchesPaper
PROPERTIES
  ContiguousCopies
  Refines
  EveryRequestEnds
\* The set of requests is finite: once all are answered nothing is left to do.
CHECK_DEADLOCK FALSE
