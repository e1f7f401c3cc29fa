SPECIFICATION FairSpec
CONSTANTS
  NodeId = 3
  MaxOpens = 2
  MaxDrops = 0
  MaxAborts = 0
  MaxRestarts = 1
  MaxOutages = 0
  MaxLines = 0
  Commands = {}
PROPERTY HealsByItself
CHECK_DEADLOCK FALSE
