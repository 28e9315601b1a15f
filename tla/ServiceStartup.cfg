SPECIFICATION FairSpec
CONSTANTS
  Services = {s1, s2}
  Envs <- MCEnvs
  UsbOrders <- Orders
  DefaultPorts <- Ports
  Ephemeral <- AnyPort
  MaxFaults = 1
  Foreign = Foreign
  Malformed = Malformed
  None = None
INVARIANTS
  RefsAreDistinct
  AdvertisesItsPort
PROPERTIES
  SerialDecidesDevice
  EveryServiceComesUp
CHECK_DEADLOCK FALSE
