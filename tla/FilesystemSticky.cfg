SPECIFICATION Spec
CONSTANTS
  Procs = {root}
  Root = root
  ProcMayFail = FALSE
  Directions = {"read"}
  Listings <- FilesOrNothing
  MaxBytes = 1
  Privileged = TRUE
  None = none
INVARIANTS LimitedOnlyIfUnavailable
