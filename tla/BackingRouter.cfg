SPECIFICATION FairSpec
CONSTANTS
  c1 = c1  c2 = c2  a1 = a1  a2 = a2
  Capacity = 2
  RangeIds = {1, 2}
  Spans <- MCSpans
  MaxToken = 3
  Clients = {c1, c2}
  Admins = {a1, a2}
INVARIANTS AdmittedStays AdmissionsExact OneRoute
PROPERTY DeactivationEnds
CHECK_DEADLOCK FALSE
