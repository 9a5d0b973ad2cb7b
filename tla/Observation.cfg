SPECIFICATION Spec
CONSTANTS
  Pids = {root, p1, p2, p3}
  Root = root
  Outside = outside
  LastPid = outside
  MaxLives = 1
  Platforms = {"linux", "subreaper", "macos"}
  ProcMayFail = TRUE
SYMMETRY Others
CONSTRAINT ThreeOnMacOS
INVARIANTS TypeOK SteadyTreeIsSeen
