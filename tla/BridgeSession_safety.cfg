SPECIFICATION Spec
CONSTANTS
  NodeId = 1
  MaxOpens = 3
  MaxDrops = 1
  MaxAborts = 1
  MaxRestarts = 1
  MaxOutages = 1
  MaxLines = 0
  Commands = {c1}
INVARIANTS
  TypeOK
  OneSessionInUse
  PutsOnCompleteSessions
  SessionLeakBound
  HandledBound
CHECK_DEADLOCK FALSE
