SPECIFICATION Spec
CONSTANTS
  Pids = {root, p1, p2}
  Root = root
  Outside = outside
  LastPid = outside
  MaxLives = 1
  Platforms = {"linux"}
  ProcMayFail = FALSE
INVARIANTS KnownAreFollowed
