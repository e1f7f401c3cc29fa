SPECIFICATION FairSpec
CONSTANTS
  Tasks = {rx, tx}
  NoTask = NoTask
  Size = 4
  Offsets = {1, 5, 14}
  MaxCalls = 3
INVARIANTS
  TypeOK
  LockHeld
  OwnData
  FailuresAccounted
PROPERTIES
  ImplementsBus
  CallEnds
CHECK_DEADLOCK FALSE
