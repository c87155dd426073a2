CONSTANTS
  MaxRequests = 1
  Ops <- GetMuteOps
SPECIFICATION Spec
INVARIANT ReplyRecognised
CHECK_DEADLOCK FALSE
