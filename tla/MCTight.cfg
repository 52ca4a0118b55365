SPECIFICATION CrowdedSpec
CONSTANTS
  c1 = c1
  c2 = c2
  c3 = c3
  Listen = Listen
  FirstFd = 2
  EPOLL_SIZE = 1
  Conns <- TwoConns
  MaxReq = 2
  HDR = 1
  ReqLen = 2
  RspLen = 1
  CtlLen = 1
  SinqCap = 3
  ChanCap = 1
  SockBuf = 1
  Patient = FALSE
  MaxOpen = 2
  CtlFails = TRUE
  InsrvKills = 1
  MidsrvKills = 0
INVARIANTS TypeOK AnsweredOnce DispatchInRange
PROPERTY GoneIsReleased
