CONSTANTS
  DeviceClients = {d1, d2}
  HostClients = {}
  d1 = d1
  d2 = d2
  h1 = h1
  Capacity = 2
  GpuExclusive = TRUE
  MaxRequests = 4
  MayTimeOut = FALSE
  MayCrash = FALSE
SPECIFICATION Spec
SYMMETRY ClientSymmetry
INVARIANTS
  FaultObserverFindsAnswer
CHECK_DEADLOCK FALSE
