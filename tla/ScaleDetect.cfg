SPECIFICATION Spec
CONSTANTS
  Hosts <- DevDirs
  BaudLists <- Bauds
  Explicit <- Settings
  Ends <- FarEnds
  Busy <- Shared
  Deadline = 2
  MaxChanges = 1
  None = None
INVARIANTS VerdictIsJustified
PROPERTY DetectionEnds
CHECK_DEADLOCK FALSE
