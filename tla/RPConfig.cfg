SPECIFICATION Spec
CONSTANTS
  Callers = {c1, c2}
  Metadata <- MCMetadata
  Discovered <- MCDiscovered
  Servers <- MCServers
  MaxOptions = 4
SYMMETRY CallerSymmetry
INVARIANTS
  TypeOK
  FAPIRequests
  RequestsFit
  SenderConstrained
PROPERTY ExplicitKept
CHECK_DEADLOCK FALSE
