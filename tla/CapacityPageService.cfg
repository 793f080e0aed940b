SPECIFICATION Spec
CONSTANTS
  Pages = {p1, p2, p3}
  NoPage = NoPage
  NoTicket = NoTicket
  FrameCounts = {1, 2, 3}
  MaxRequests = 3
  MaxFlushes = 2
  MayFail = TRUE
  StoreStale = FALSE
SYMMETRY PageSymmetry
INVARIANTS
  TypeOK
  MapsAgree
  ClockScanAgrees
  ResidentBytesAreNewest
  NewestBytesKept
  FlushIsDurable
  NoWaitingCycle
CHECK_DEADLOCK FALSE
