CONSTANTS
  attach = attach
  publish = publish
  unpublish = unpublish
  h1 = h1
  NoTid = NoTid
  Tid <- MCTid
  OpOf <- MCOpOf
  HandleOf <- MCHandleOf
  Handle <- MCHandle
  Notices = {"webrtcup"}
  MaxNotices = 1
SPECIFICATION FairSpec
CHECK_DEADLOCK FALSE
INVARIANTS
  AnswerNotLost
  PollerNotBlocked
PROPERTIES
  KeepsPromise
  CallsReturn
