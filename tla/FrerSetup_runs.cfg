SPECIFICATION Spec
CONSTANTS
  BOARDS <- TwoBoards
  Port <- TwoPorts
  UpVlan <- TwoVlans
  Leftovers <- FirstAttempt
  DOWN_VLAN = 200
  Scripts = {r1, r2}
  MaxRuns = 3
  MaxRefused = 1
INVARIANTS
  TypeOK
  UnabsorbedBound
  SuccessMeansConfigured
PROPERTY ServiceKept
CHECK_DEADLOCK FALSE
