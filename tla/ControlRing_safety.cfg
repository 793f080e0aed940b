CONSTANTS
  DeviceClients = {d1, d2}
  HostClients = {h1}
  d1 = d1
  d2 = d2
  h1 = h1
  Capacity = 2
  GpuExclusive = FALSE
  MaxRequests = 5
  MayTimeOut = TRUE
  MayCrash = TRUE
SPECIFICATION Spec
SYMMETRY ClientSymmetry
INVARIANTS
  FaultObserverFindsAnswer
  TicketHasOneHome
  AnswerIsMine
  SlotsHaveOneOwner
  DrainIsQuiet
CHECK_DEADLOCK FALSE
