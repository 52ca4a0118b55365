SPECIFICATION Spec
CONSTANTS
  Msg <- MCMsg
  MsgLen <- MCMsgLen
  NMAX = 8
  HDR = 2
INVARIANT AcknowledgedIsPending
