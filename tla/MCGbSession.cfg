CONSTANTS
  register = register
  bye = bye
  d1 = d1
  d2 = d2
  NoDialog = NoDialog
  Beats = 2
  LeaveBy = "heartbeat"
  Dialog = {d1}
  Call <- MCCall
  Method <- MCMethod
SPECIFICATION GbFairSpec
CHECK_DEADLOCK FALSE
INVARIANTS
  RequestIsOwn
  AnswerNotLost
  MediaIsInvited
PROPERTIES
  QuietAfterClose
  InterruptEnds
