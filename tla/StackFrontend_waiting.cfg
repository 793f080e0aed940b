SPECIFICATION Spec
CONSTANTS
  page1 = page1  page2 = page2  page3 = page3  page4 = page4
  Keys = {page1, page2, page3}
  BankOf <- OneBank
  MaxGroups = 3
  MaxToken = 4
  BufferCache = TRUE
  Coalescing = TRUE
  EmptyWait = TRUE
  Reads = {1, 2, 3}
  ModuleOf <- OneModule
  AxiOf <- OwnIds
  PageOf <- Pages
  MaxAccepted = 3
  Window = 2
  MayCancel = {1, 2}
  HasDeadline = {}
  MediaFails = FALSE
CHECK_DEADLOCK FALSE
INVARIANT NoMissStranded
