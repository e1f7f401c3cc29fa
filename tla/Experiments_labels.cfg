SPECIFICATION Spec
CONSTANTS
  Queues = 3
  MaxRuns = 2
INVARIANTS
  TypeOK
  QosLabels
  CongestionLabels
  SuccessRestores
CHECK_DEADLOCK FALSE
