SPECIFICATION MCSpec
CONSTANTS
  Procs = {root, p1}
  Root = root
  ProcMayFail = FALSE
  Numbers = {n1, n2}
  Connections = {"a"}
  Tables <- TwoTables
  TableOf <- OneEach
  Hidden = {}
  Closed = closed
  Other = other
  NoOne = noOne
  SomeSockets <- AllKindsOfSockets
SYMMETRY Renumbered
INVARIANTS TypeOK SteadyConnectionIsSeen EndpointsAreTheSockets BackendsAgree
