SPECIFICATION Spec
CONSTANTS
  Tasks = {t1}
  Rtts <- TwoRtts
  Int64Max = 9
  InOrder = TRUE
  MaxPongs = 2
INVARIANT ReportConsistent
CHECK_DEADLOCK FALSE
