SPECIFICATION FairSpec
CONSTANTS
  Conns = {1, 2}
  Dialers = {"reconnect"}
  Msgs = {m1, m2}
  urgent = {m1}
  None = None
INVARIANTS
  TypeOK
  EntryWatched
PROPERTIES
  LossNeedsFailure
  DeadPeerRemoved
  RetriedWhenConnected
CHECK_DEADLOCK FALSE
