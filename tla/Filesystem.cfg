SPECIFICATION Spec
CONSTANTS
  Procs = {root, p1}
  Root = root
  ProcMayFail = FALSE
  Directions = {"read"}
  Listings <- FilesOrNothing
  MaxBytes = 1
  Privileged = FALSE
  None = none
INVARIANTS TypeOK WindowsAreBracketed BytesAreBracketed UnreadableIsLabelled
