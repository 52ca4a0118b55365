SPECIFICATION FairSpec
CONSTANTS
  c1 = c1
  c2 = c2
  c3 = c3
  Listen = Listen
  FirstFd = 2
  EPOLL_SIZE = 2
  Conns <- TwoConns
  MaxReq = 1
  HDR = 1
  ReqLen = 2
  RspLen = 2
  CtlLen = 1
  SinqCap = 3
  ChanCap = 2
  SockBuf = 2
  Patient = TRUE
  MaxOpen = 2
  CtlFails = FALSE
  InsrvKills = 0
  MidsrvKills = 0
PROPERTY RetainedIsTaken
