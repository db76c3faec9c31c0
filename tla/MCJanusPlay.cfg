CONSTANTS
  hAttach = hAttach
  hJoin = hJoin
  hDetach = hDetach
  mAttach = mAttach
  mJoin = mJoin
  mStart = mStart
  h1 = h1
  h2 = h2
  NoTid = NoTid
  Tid <- MCTid
  OpOf <- MCOpOf
  HandleOf <- MCHandleOf
  Handle <- MCHandle
  Notices = {"publishers"}
  MaxNotices = 1
SPECIFICATION PlayFairSpec
CHECK_DEADLOCK FALSE
INVARIANTS
  ToldIsFound
  ReturnLeavesNothing
PROPERTIES
  PlayEnds
