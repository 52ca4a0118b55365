SPECIFICATION Spec
CONSTANTS
  Msg <- MCMsg
  MsgLen <- MCMsgLen
  NMAX = 11
  HDR = 2
  Granule = 2
INVARIANTS QueueInv EmptyMeansDrained NonEmptyReadable
PROPERTY IsFifo
