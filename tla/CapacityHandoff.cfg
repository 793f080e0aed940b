\* Two slots and six tickets, with a caller that goes on after a timeout:
\* every slot can be reused twice while the worker still holds an old ticket.
CONSTANTS
  PageCapacity = 2
  MaxTicket = 6
  MayTimeOut = TRUE
  FailsForGood = FALSE
SPECIFICATION FairSpec
INVARIANTS AnswerIsExact CopyIsConsistent OneCompleter
PROPERTIES HandoffEnds
CHECK_DEADLOCK FALSE
