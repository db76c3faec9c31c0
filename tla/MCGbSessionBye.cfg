CONSTANTS
  register = register
  bye = bye
  d1 = d1
  d2 = d2
  NoDialog = NoDialog
  Beats = 1
  LeaveBy = "media"
  Dialog = {d1}
  Call <- MCCall
  Method <- MCMethod
SPECIFICATION GbSpec
CHECK_DEADLOCK FALSE
INVARIANT AnswerNotLost
