SPECIFICATION Spec
CONSTANTS
  a = a
  b = b
  Msg <- MCMsg
  MsgLen <- MCMsgLen
  HDR = 2
  Clock <- MCClock
  Intervals <- MCIntervals
  Interval = 1
  MaxCount = 2
  EPOLL_SIZE = 2
  SHM_SIZE = 11
  QSize = 2
SYMMETRY MsgSymmetry
INVARIANTS ObjectsIntact CursorsInRange CountsCalls
PROPERTY ChannelsAreQueues
