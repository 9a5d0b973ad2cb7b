SPECIFICATION Spec
CONSTANTS
  Pids = {root, p1, p2}
  Root = root
  Outside = outside
  LastPid = p2
  MaxLives = 2
  Platforms = {"linux", "subreaper", "macos"}
  ProcMayFail = TRUE
CONSTRAINT FewLives
INVARIANTS RecordsAreOfTheCommand NoKnownSurvivorLost WalkFindsTheTree
PROPERTIES ReportEventually
