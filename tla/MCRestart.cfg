SPECIFICATION Spec
CONSTANTS
  Msg <- MCMsg
  MsgLen <- MCMsgLen
  NMAX = 9
  HDR = 2
  Granule = 2
  MaxRestarts = 1
  Quiet = FALSE
INVARIANT NonEmptyIsReadable
