SPECIFICATION FairSpec
CHECK_DEADLOCK FALSE
INVARIANTS
  RunLeavesNothing
PROPERTY KeepsPromise
