SPECIFICATION Spec
CONSTANTS
  Fds = {0, 1, 2}
  Files = {"file", "directory", "socket"}
  NameOf <- NamesOfThree
  KindOf <- KindsOfThree
  Modes <- SomeModes
  MAX_FDS = 3
  Spare = 1
  MaxOpens = 3
  NoFile = noFile
INVARIANTS TypeOK HeldIsReported ReportedWasOpen
