SPECIFICATION Spec
CONSTANTS
  c1 = c1
  c2 = c2
  c3 = c3
  Listen = Listen
  FirstFd = 2
  EPOLL_SIZE = 2
  Conns <- TwoConns
  MaxReq = 2
  HDR = 1
  ReqLen = 2
  RspLen = 2
  CtlLen = 1
  SinqCap = 20
  ChanCap = 8
  SockBuf = 2
  Patient = FALSE
  MaxOpen = 2
  CtlFails = FALSE
  InsrvKills = 0
  MidsrvKills = 0
INVARIANT AnswersGoHome
