SPECIFICATION FairSpec
CONSTANTS
  Boards = {"esp32-1", "esp32-2"}
  Subscribers <- TwoSubscribers
  Carries <- SomeSamples
  NoReport = NoReport
  MAX_RECENT = 2
  Window = 2
  Delay = 1
  MaxLosses = 1
INVARIANTS
  TypeOK
  AliveIsHonest
  LinksCurrent
PROPERTY HeardAgain
CHECK_DEADLOCK FALSE
