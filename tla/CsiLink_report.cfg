SPECIFICATION Spec
CONSTANTS
  Macs = {m1, m2, m3, m4}
  NoMac = NoMac
  MaxPeers = 3
  ReportPeers = 2
  MaxFrames = 3
INVARIANTS
  TypeOK
  OneSlotPerPeer
  EntriesMeasured
  QuietReportExact
CHECK_DEADLOCK FALSE
SYMMETRY Symmetry
