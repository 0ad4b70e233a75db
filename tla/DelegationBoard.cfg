SPECIFICATION Spec
CONSTANTS
  n1 = n1
  n2 = n2
  t1 = t1
  t2 = t2
  t3 = t3
  t4 = t4
  s1 = s1
  s2 = s2
  Nodes = {n1, n2}
  Tasks = {t1}
  Slots = {s1, s2}
  AnyAgent = AnyAgent
  None = None
  Idle = Idle
  from <- OneFrom
  target <- ToAny
  offered <- Offered
  subject <- OwnSubject
  parent <- NoParent
  reviews <- NoReview
  maxRetries <- OneRetry
  carded = {}
  eligible <- AllEligible
  Commands = {}
  MaxWip = 1
  MaxConcurrent = 1
  MaxAttempts = 2
  MaxCrashes = 0
  MaxFaults = 2
SYMMETRY SlotSymmetry
CONSTRAINT
  FaultsAlone
INVARIANTS
  RetryWithinBudget
  BoardClaimsExclusive
  ResultsVisible
  NoWipLeak
