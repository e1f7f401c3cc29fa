SPECIFICATION Spec
CONSTANTS
  Tasks = {t1}
  Rtts <- TwoRtts
  Int64Max = 9
  InOrder = TRUE
  MaxPongs = 2
INVARIANTS
  TypeOK
  ReportHasSamples
  CleanReportConsistent
  CleanLineExact
PROPERTY
  ImplementsWindow
CHECK_DEADLOCK FALSE
