SPECIFICATION FairSpec
CONSTANTS
  d1 = d1  d2 = d2  m1 = m1  m2 = m2  o1 = o1  o2 = o2  l1 = l1  l2 = l2
  None = None
  Owners = {o1}
  Domains = {d1, d2}
  Modules = {m1, m2}
  Future = {m2}
  Home <- MCHomeApart
  MaxGeneration = 2
  Launchers = {l1}
  TimingRanges = {"t"}
  CapacityRanges = {"c"}
  StrictTiming = FALSE
INVARIANTS GenerationsAreFresh ControlOutlivesKernels NoStaleAlias CapacityNeverNative
PROPERTIES RemovedWhenQuiet LifecycleReleased
