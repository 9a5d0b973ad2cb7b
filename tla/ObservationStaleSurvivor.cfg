SPECIFICATION Spec
CONSTANTS
  Pids = {root, p1}
  Root = root
  Outside = outside
  LastPid = outside
  MaxLives = 2
  Platforms = {"linux"}
  ProcMayFail = FALSE
INVARIANTS SurvivorsAreOurs
