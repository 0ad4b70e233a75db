SPECIFICATION FairSpec
CONSTANTS
  n1 = n1
  n2 = n2
  n3 = n3
  Nodes = {n1, n2}
  None = None
  role <- AllRouters
  addr <- Seniority
  Lossy = TRUE
  PgFails = TRUE
  MaxStops = 2
PROPERTIES
  SeniorFindsLeader
