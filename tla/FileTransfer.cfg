SPECIFICATION DisturbedOnce
CONSTANTS
  n1 = n1
  n2 = n2
  n3 = n3
  f1 = f1
  f2 = f2
  Nodes = {n1, n2, n3}
  Files = {f1, f2}
  sender <- FromFirst
  to <- ToSecond
  name <- SameName
  chunks <- OneChunk
  packed <- NonePacked
  MaxCrashes = 1
CHECK_DEADLOCK FALSE
INVARIANTS
  TypeOK
  ReceivedIsWhole
  ConfirmedIsKept
PROPERTIES
  OfferAnswered
  HandedOver
