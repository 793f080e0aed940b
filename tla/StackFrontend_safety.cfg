SPECIFICATION Spec
CONSTANTS
  page1 = page1  page2 = page2  page3 = page3  page4 = page4
  Keys = {page1, page2, page3}
  BankOf <- OneBank
  MaxGroups = 3
  MaxToken = 4
  BufferCache = TRUE
  Coalescing = TRUE
  EmptyWait = TRUE
  Reads = {1, 2, 3, 4}
  ModuleOf <- OneModule
  AxiOf <- PairedIds
  PageOf <- Pages
  MaxAccepted = 3
  Window = 2
  MayCancel = {2, 3, 4}
  HasDeadline = {1}
  MediaFails = TRUE
INVARIANTS TypeOK NeverFails OneReadPerPage PagePinned AnswersInOrder NothingLeftBehind
CHECK_DEADLOCK FALSE
