CONSTANTS
  DeviceClients = {d1, d2}
  HostClients = {h1}
  d1 = d1
  d2 = d2
  h1 = h1
  Capacity = 2
  GpuExclusive = FALSE
  MaxRequests = 3
  MayTimeOut = FALSE
  MayCrash = TRUE
SPECIFICATION FairSpec
PROPERTIES
  FailAllFinishes
  EveryRequestReturns
CHECK_DEADLOCK FALSE
