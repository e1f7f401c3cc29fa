SPECIFICATION FairSpec
CONSTANTS
  NodeId = 3
  MaxOpens = 3
  MaxDrops = 1
  MaxAborts = 1
  MaxRestarts = 0
  MaxOutages = 1
  MaxLines = 1
  Commands = {}
PROPERTIES
  BackInService
  SerialServedAfterBoot
  LinkLossNoticed
CHECK_DEADLOCK FALSE
