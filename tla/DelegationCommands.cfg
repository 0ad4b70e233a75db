SPECIFICATION Spec
CONSTANTS
  n1 = n1
  n2 = n2
  t1 = t1
  t2 = t2
  t3 = t3
  t4 = t4
  s1 = s1
  s2 = s2
  Nodes = {n1, n2}
  Tasks = {t1}
  Slots = {s1}
  AnyAgent = AnyAgent
  None = None
  Idle = Idle
  from <- OneFrom
  target <- ToSecond
  offered <- NotOffered
  subject <- OwnSubject
  parent <- NoParent
  reviews <- NoReview
  maxRetries <- OneRetry
  carded = {}
  eligible <- AllEligible
  Commands = {"claim", "cancel", "reassign"}
  MaxWip = 1
  MaxConcurrent = 2
  MaxAttempts = 2
  MaxCrashes = 0
  MaxFaults = 0
PROPERTIES
  EndedRowsReopenedOnlyByStaleWrites
  BoardKept
