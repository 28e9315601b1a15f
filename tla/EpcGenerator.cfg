SPECIFICATION EpcSpec
CONSTANTS
  Threads = {t1, t2, t3}
  Salts = {{}, {0, 2}}
  Bits = 3
  NsSpan = 8
  RotNs = 2
  RotSeq = 1
  Micro = 2
  Start = 6
  MaxClock = 8
  MaxCalls = 6
  MaxBack = 1
  NoTime = NoTime
INVARIANT UniqueInOrder
CHECK_DEADLOCK FALSE
