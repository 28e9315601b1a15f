CONSTANTS
  None = None
  Requests <- AllRequests
  Defaults = {"zebra", "godex"}
SPECIFICATION Spec
CHECK_DEADLOCK FALSE
INVARIANTS
  ModePolicy
  RfidMeansTag
  WeightsAddUp
  LabelMatchesResponse
  SameLabelOnBothPrinters
