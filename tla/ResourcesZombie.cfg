SPECIFICATION Spec
CONSTANTS
  Procs = {root, p1}
  Root = root
  ProcMayFail = FALSE
  MaxTicks = 0
  MaxRss = 2
  TicksPerSecond = 2
  NanosPerSecond = 6
  NanosPerMilli = 2
  MaxU64 = 9
  None = none
INVARIANTS PeakCoversTrees
