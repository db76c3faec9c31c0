CONSTANTS
  Clients = 2
SPECIFICATION FairSpec
CHECK_DEADLOCK FALSE
INVARIANTS
  LaunchNotCut
  NobodyCutOff
PROPERTIES
  InterruptEnds
  EndsByItself
