SPECIFICATION Spec
CONSTANTS
  NodeId = 3
  MaxOpens = 2
  MaxDrops = 1
  MaxAborts = 0
  MaxRestarts = 0
  MaxOutages = 0
  MaxLines = 0
  Commands = {c1}
INVARIANT HandledOnce
CHECK_DEADLOCK FALSE
