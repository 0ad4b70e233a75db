SPECIFICATION Spec
CONSTANTS
  n1 = n1
  n2 = n2
  n3 = n3
  Nodes = {n1, n2, n3}
  None = None
  role <- AllRouters
  addr <- Seniority
  Lossy = FALSE
  PgFails = FALSE
  MaxStops = 1
INVARIANTS
  TypeOK
  SplitBrainHeals
PROPERTIES
  NoSelfClaimLoop
