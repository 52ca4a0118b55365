SPECIFICATION FairSpec
CONSTANTS
  c1 = c1
  c2 = c2
  c3 = c3
  Listen = Listen
  FirstFd = 2
  EPOLL_SIZE = 2
  Conns <- TwoConns
  MaxReq = 2
  HDR = 2
  ReqLen = 3
  RspLen = 2
  CtlLen = 1
  SinqCap = 20
  ChanCap = 8
  SockBuf = 2
  Patient = TRUE
  MaxOpen = 2
  CtlFails = FALSE
  InsrvKills = 0
  MidsrvKills = 1
INVARIANTS PipelineInOrder MapFollowsSlots
PROPERTY ServesLogins
