SPECIFICATION FairSpec
CONSTANTS
  page1 = page1  page2 = page2  page3 = page3  page4 = page4
  Keys = {page1, page2, page3, page4}
  BankOf <- TwoBanks
  MaxGroups = 6
  MaxToken = 4
  BufferCache = FALSE
  Coalescing = TRUE
  EmptyWait = TRUE
  Reads = {1, 2, 3, 4}
  ModuleOf <- TwoModules
  AxiOf <- PairedIds
  PageOf <- PagesApart
  MaxAccepted = 3
  Window = 1
  MayCancel = {2}
  HasDeadline = {}
  MediaFails = FALSE
CHECK_DEADLOCK FALSE
PROPERTY EveryReadRetires
