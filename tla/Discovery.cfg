SPECIFICATION FairDiscoverySpec
CONSTANTS
  Networks <- Hosts
  Limited <- Everyone
  Apps = {a1}
  MaxQueue = 2
  Absent = Absent
INVARIANTS TargetsAreTheNetworks
PROPERTIES EveryProbeAnswered ReachableIsTold
CHECK_DEADLOCK FALSE
