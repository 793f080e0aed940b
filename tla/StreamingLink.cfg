SPECIFICATION FairSpec
CONSTANTS
  m1 = m1  m2 = m2  m3 = m3  m4 = m4
  Ids = {m1, m2}
  Traffic <- BothWays
  Initial <- Narrow
  MaxAccepted = 2
  Serialization = 2
  Propagation = 1
  MaxDelay = 0
INVARIANT CreditsConserved
PROPERTIES ImplementsChannel EveryMessagePasses
