SPECIFICATION Spec
CONSTANTS
  m1 = m1  m2 = m2  m3 = m3  m4 = m4
  Ids = {m1, m2, m3, m4}
  Traffic <- OnlyReturns
  Initial <- Wide
  MaxAccepted = 4
  Serialization = 1
  Propagation = 0
  MaxDelay = 1
SYMMETRY Symmetric
INVARIANT NeverFails
PROPERTY ImplementsChannel
