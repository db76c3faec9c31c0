SPECIFICATION FairSpec
CHECK_DEADLOCK FALSE
CONSTANT
  Tracks = {"video"}
INVARIANTS
  NotClosedInUse
  FailureFails
PROPERTY TestEnds
