SPECIFICATION Spec
CONSTANTS
  n1 = n1
  n2 = n2
  n3 = n3
  f1 = f1
  f2 = f2
  Nodes = {n1, n2}
  Files = {f1}
  sender <- FromFirst
  to <- ToSecond
  name <- SameName
  chunks <- OneChunk
  packed <- OnePacked
  MaxCrashes = 0
CHECK_DEADLOCK FALSE
INVARIANTS
  ChunksReassembled
