SPECIFICATION Spec
CONSTANTS
  Procs = {root, p1}
  Root = root
  ProcMayFail = TRUE
  MaxTicks = 3
  MaxRss = 2
  TicksPerSecond = 2
  NanosPerSecond = 3
  NanosPerMilli = 2
  MaxU64 = 3
  None = none
INVARIANTS TypeOK ReadingsAreBracketed CpuIsBracketed UnreadableIsLabelled PeakCoversLiveTrees
CONSTRAINT OneKind
