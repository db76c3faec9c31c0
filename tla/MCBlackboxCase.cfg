CONSTANTS
  MaxTries = 2
  Service <- MCService
  Context <- MCContext
  CtxOf <- MCCtxOf
  Below <- MCBelow
SPECIFICATION FairSpec
CHECK_DEADLOCK FALSE
INVARIANTS
  CrashReported
  RecordedBeforeProbed
PROPERTY CaseEnds
