SPECIFICATION FairSpec
CONSTANTS
  Tasks = {1, 2, 3}
  Graphs <- SomeGraphs
  Modes = {"all", "any"}
  copies <- TwoOfSecond
  maxRetries <- RetryFirst
  conditional = {3}
  cost <- SomeCost
  Budgets = {2, 4}
  Timed = TRUE
INVARIANTS
  TypeOK
  DependenciesFirst
  VerdictHonest
  AttemptsCounted
PROPERTIES
  StopsWhenTold
  OutcomeFinal
  RunsAsPlanned
  WorkflowEnds
CHECK_DEADLOCK FALSE
