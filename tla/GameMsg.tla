------------------------------ MODULE GameMsg ------------------------------
(***************************************************************************)
(* The parameters of a deployment and the messages of msg/ and             *)
(* common/msgcommon.cpp.  A login request or response is abstracted to the *)
(* request it belongs to, <<c, k>>: the k-th login of connection c, which  *)
(* the user name carries there and back.  Lengths are in units of data     *)
(* that a socket may deliver apart.                                        *)
(***************************************************************************)
EXTENDS Integers, Sequences, SequencesExt, FiniteSets

CONSTANTS
  EPOLL_SIZE,  \* GLOBAL_EPOLL_SIZE: slots for connections, and channels
  Conns,       \* the client connections, each used once
  FirstFd,     \* the lowest descriptor that a connection may get
  MaxReq,      \* bound: login requests per connection
  HDR,         \* units that carry the length of a message
  ReqLen,      \* units of a login request, HDR included
  RspLen,      \* units of a login response
  CtlLen,      \* units of a NEW_CONNECT or CLO_CONNECT message
  SinqCap,     \* capacity in units of the queue from insrv to midsrv
  ChanCap,     \* capacity in units of one channel from midsrv to insrv
  SockBuf      \* units a socket holds that its client has not read

(* Descriptors 0 to 2 are taken; indexes and descriptors fit in uint16_t.  *)
ASSUME GameAssumption ==
  /\ EPOLL_SIZE \in Nat \ {0}
  /\ {MaxReq, HDR, ReqLen, RspLen, CtlLen, SockBuf} \subseteq Nat \ {0}
  /\ {FirstFd, SinqCap, ChanCap} \subseteq Nat
  /\ HDR < ReqLen
  /\ IsFiniteSet(Conns) /\ FirstFd > 0
  /\ EPOLL_SIZE < 65535 /\ FirstFd + Cardinality(Conns) <= 65536

Slots == 1 .. EPOLL_SIZE
Requests == Conns \X (1 .. MaxReq)
NoRequest == <<>>

(* srcid and dstid are uint16_t. *)
U16(x) == x % 65536

NewConnect(index, fd) == [id |-> "NEW_CONNECT", len |-> CtlLen,
                          srcid |-> U16(index), dstid |-> U16(fd), req |-> NoRequest]
CloConnect(index, fd) == [NewConnect(index, fd) EXCEPT !.id = "CLO_CONNECT"]

(* A client's login after read: insrv overwrites dstid with the socket. *)
Login(fd, req) == [id |-> "LOGIN", len |-> ReqLen,
                   srcid |-> 0, dstid |-> U16(fd), req |-> req]

(* pushmsg of CShmQueueSingle: a queue of whole messages that refuses what *)
(* does not fit (MsgFifo, which CQueue implements).                        *)
Used(s) == FoldLeft(LAMBDA n, m : n + m.len, 0, s)

(* Mutant: some room is taken for enough. *)
SinqTakesAnyRoom(s, m) == Used(s) < SinqCap
SinqTakes(s, m) == Used(s) + m.len <= SinqCap
Pushed(s, m) == IF SinqTakes(s, m) THEN Append(s, m) ELSE s
=============================================================================
