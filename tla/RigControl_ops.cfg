SPECIFICATION FairSpec
CONSTANTS
  BoardPorts = {"Gi 1/3"}
  Workers = {w1}
  Offered <- SomeRequests
  MaxRequests = 2
  Tests = {t1}
  MaxTests = 1
  PollOrder <- OnePollOrder
INVARIANTS
  TypeOK
  CutOffByPage
  RestoredWhenDone
  ViewFresh
PROPERTY ViewConverges
CHECK_DEADLOCK FALSE
