CONSTANTS
  n1 = n1
  n2 = n2
  Nodes = {n1, n2, n3}
  Msgs = {m1}
  from <- MCfrom
  Recipients = {n2, All}
  Arrivals = {n2}
  All = All
  None = None
  MaxTries = 2
  MaxCrashes = 1
SPECIFICATION FairSpec
INVARIANTS TypeOK DeliveredIsTaken
PROPERTIES AtMostOnce StoredIsAccepted
CHECK_DEADLOCK FALSE
