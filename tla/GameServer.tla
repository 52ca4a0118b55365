----------------------------- MODULE GameServer -----------------------------
(***************************************************************************)
(* The running system: insrv and midsrv, which share two queues, and the   *)
(* clients.  Each process takes one step at a time, in any interleaving.   *)
(***************************************************************************)
EXTENDS GameMsg, FiniteSets

CONSTANTS
  Listen, CtlFails,
  Patient,     \* a client closes only when its last answer has been read
  MaxOpen,     \* connections that are open or wait for accept at one time
  InsrvKills,  \* bound: how often insrv is killed
  MidsrvKills  \* bound: how often midsrv is killed

VARIABLES
  val, pc, chan, events, sock, interest, reset,   \* insrv
  map, inmsg,                                 \* midsrv
  sinq, mulq,                                 \* shared memory
  cli, sent, rcv, up, inbox, backlog,         \* clients and their sockets
  ended,     \* how often each server has ended
  orphans    \* history: the connections that midsrv was started again under

In  == INSTANCE CSocketSrvEpoll
Mid == INSTANCE CMidHandle
Cli == INSTANCE SimClient

(* The listening socket is not one of a connection. *)
ASSUME ServerAssumption == Listen \notin In!Fds /\ In!Closed \notin Conns

insrvVars == <<val, pc, chan, events, sock, interest, reset>>
midsrvVars == <<map, inmsg>>
clientVars == <<cli, sent, rcv, up, inbox, backlog>>
histVars == <<ended, orphans>>
vars == <<insrvVars, midsrvVars, sinq, mulq, clientVars, histVars>>

(* Both processes clear the queues when they start, before any traffic. *)
Init ==
  /\ In!InInit /\ Mid!MidInit /\ Cli!CliInit
  /\ sinq = <<>>
  /\ mulq = [i \in Slots |-> <<>>]
  /\ ended = [insrv |-> 0, midsrv |-> 0] /\ orphans = {}

InStep == In!InNext /\ UNCHANGED <<midsrvVars, cli, sent, rcv, histVars>>
MidStep == Mid!MidNext /\ UNCHANGED <<insrvVars, clientVars, histVars>>

Accepted == Range(sock) \cap Conns
Opened == Accepted \cup Range(backlog)

Connect(c) == pc # "down" /\ Cardinality(Opened) < MaxOpen /\ Cli!Connect(c)
Leave(c) == (Patient => Cli!AllRead(c)) /\ Cli!Leave(c)

ClientStep(c) ==
  /\ Connect(c) \/ Cli!CliProgress(c) \/ Leave(c)
  /\ UNCHANGED <<insrvVars, midsrvVars, sinq, mulq, histVars>>

InsrvEnded ==
  /\ ended' = [ended EXCEPT !.insrv = @ + 1]
  /\ UNCHANGED <<midsrvVars, sent, rcv, orphans>>

(* insrv ends by a signal of its own making, or is killed. *)
InsrvDies == In!SigPipe /\ InsrvEnded
InsrvKilled == ended.insrv < InsrvKills /\ pc # "down" /\ In!Ends /\ InsrvEnded

InsrvStarts == In!Starts /\ UNCHANGED <<midsrvVars, cli, sent, rcv, histVars>>

MidsrvEnds ==
  /\ ended.midsrv < MidsrvKills
  /\ Mid!MidEnds
  /\ ended' = [ended EXCEPT !.midsrv = @ + 1]
  /\ UNCHANGED <<insrvVars, clientVars, orphans>>

(* The new midsrv never hears of the connections that insrv has already.   *)
MidsrvStarts ==
  /\ Mid!MidStarts
  /\ orphans' = orphans \cup Accepted
  /\ UNCHANGED <<insrvVars, clientVars, ended>>

Next ==
  \/ InStep \/ MidStep \/ \E c \in Conns : ClientStep(c)
  \/ InsrvDies \/ InsrvKilled \/ InsrvStarts \/ MidsrvEnds \/ MidsrvStarts

Spec == Init /\ [][Next]_vars

(* Both servers loop for ever, and so does a client until it is killed.  A *)
(* server that has ended is started again.                                 *)
Fairness ==
  /\ WF_vars(InStep \/ InsrvDies) /\ WF_vars(InsrvStarts)
  /\ WF_vars(MidStep) /\ WF_vars(MidsrvStarts)
  /\ \A c \in Conns :
       WF_vars(Cli!CliProgress(c)
               /\ UNCHANGED <<insrvVars, midsrvVars, sinq, mulq, histVars>>)

FairSpec == Spec /\ Fairness

(* When more descriptors are ready than epoll_wait may return, successive  *)
(* calls go round among them.                                              *)
RoundRobin ==
  \A e \in In!Fds \cup {Listen} : SF_vars(InStep /\ pc = "wait" /\ e \in events')

CrowdedSpec == FairSpec /\ RoundRobin

-----------------------------------------------------------------------------
(* Every variable has its type, and every queue stays within its capacity. *)
CtlMsgs == [id : {"NEW_CONNECT", "CLO_CONNECT"}, len : {CtlLen},
            srcid : Slots \cup {65535}, dstid : In!Fds, req : {NoRequest}]
LoginMsgs == [id : {"LOGIN"}, len : {ReqLen}, srcid : {0}, dstid : In!Fds, req : Requests]
Msgs == CtlMsgs \cup LoginMsgs
Buffers(len) == [n : 0 .. len, req : Requests \cup {NoRequest}]
SocketInfo == [srvfd : In!Fds \cup {-1}, recvflag : {0, 1}, sendflag : {0, 1},
               recvmsg : Buffers(ReqLen), sendmsg : Buffers(RspLen)]

TypeOK ==
  /\ val \in [Slots -> SocketInfo]
  /\ pc \in {"pop", "wait", "events", "down"} /\ chan \in Slots
  /\ events \subseteq In!Fds \cup {Listen}
  /\ sock \in [In!Fds -> Conns \cup {In!Closed}]
  /\ interest \in [In!Fds -> {"IN", "OUT", In!Closed}]
  /\ reset \cup orphans \subseteq Conns
  /\ inmsg \in Msgs \cup {Mid!NoMsg, Mid!Down}
  /\ \A j \in 1 .. Len(sinq) : sinq[j] \in Msgs
  /\ Used(sinq) <= SinqCap
  /\ \A i \in Slots : Len(mulq[i]) * RspLen <= ChanCap
  /\ cli \in [Conns -> Cli!Phases]

Open(fd) == sock[fd] # In!Closed
Live(i) == val[i].srvfd # -1
ConnOf(i) == sock[val[i].srvfd]

(* Slots and descriptors agree: a slot in use has an open descriptor, no   *)
(* two slots have the same, so find() returns the slot of an event's socket*)
SlotsMatchSockets ==
  /\ \A i \in Slots : Live(i) => Open(val[i].srvfd)
  /\ \A i, j \in Slots : Live(i) /\ val[i].srvfd = val[j].srvfd => i = j
  /\ \A fd \in In!Fds : Open(fd) => In!Find(fd) # -1

(* EPOLLOUT is asked for only while a slot has an answer to send: the      *)
(* branch "sendflag == 0 but act EPOLLOUT" (CSocketSrvEpoll.cpp:206), which*)
(* the model leaves out, is never taken.                                   *)
OutMeansPending ==
  \A i \in Slots : Live(i) /\ interest[val[i].srvfd] = "OUT" => val[i].sendflag = 1

(* An answer that waits in the slot of its own client is asked EPOLLOUT    *)
(* for until its last unit is sent: no client blocks its own channel, which*)
(* popmsg_complex passes over while sendflag is 1 (CShmQueueMulti.cpp:137),*)
(* by requests, partial sends and errors in whatever order.                *)
OwnAnswerLeaves ==
  \A i \in Slots : Live(i) /\ val[i].sendflag = 1 /\ val[i].sendmsg.req[1] = ConnOf(i)
                   => interest[val[i].srvfd] = "OUT"

(* The messages midsrv has not handled, oldest first. *)
Unhandled == (IF inmsg \in {Mid!NoMsg, Mid!Down} THEN <<>> ELSE <<inmsg>>) \o sinq

(* midsrv's map, once it has handled what is pending, registers the slots  *)
(* in use with their sockets, except the orphans: NEW_CONNECT and          *)
(* CLO_CONNECT come in an order that keeps the two processes' tables in    *)
(* step, however slots and descriptors are reused.  It registers nothing   *)
(* else unless insrv has ended with slots in use.                          *)
Applied(m, msg) ==
  CASE msg.id = "NEW_CONNECT" -> Mid!Map!Reg(m, msg.srcid, msg.dstid)
    [] msg.id = "CLO_CONNECT" -> Mid!Map!Del(m, msg.srcid)
    [] OTHER -> m

MapFollowsSlots ==
  inmsg # Mid!Down =>
    LET registered == Mid!Map!Registered(FoldLeft(Applied, map, Unhandled))
        known == {<<i, val[i].srvfd>> : i \in {j \in Slots : Live(j) /\ ConnOf(j) \notin orphans}}
    IN /\ known \subseteq registered
       /\ ended.insrv = 0 => registered \subseteq known

(* midsrv never pushes outside the channels: a login's socket is unknown or*)
(* registered under the number of a slot, neither under 0 (a free entry of *)
(* the map) nor under 65535 (the index -1 of a full list).                 *)
DispatchInRange == inmsg.id = "LOGIN" => Mid!Channel \in Slots \cup {-1}

(* A slot's index and its descriptor go together for ever: slots are taken *)
(* lowest first, as descriptors are, and each is freed with the other, so  *)
(* descriptors without a slot lie above those of the slots.  This is why a *)
(* map that is left over from an insrv that has ended is not wrong.        *)
IndexIsDescriptor == \A i \in Slots : Live(i) => val[i].srvfd = FirstFd + i - 1

(* A request is in one place at a time, and the requests of a connection   *)
(* stay in the order of the client: those answered, then sendmsg, the      *)
(* channel, the queue to midsrv and recvmsg hold, together and in this     *)
(* order, exactly the requests the server has read.  (A midsrv that ends   *)
(* loses what is at it and in the queues, all of it of orphans.)           *)
Sending(i) == IF val[i].sendflag = 1 THEN <<val[i].sendmsg.req>> ELSE <<>>
Retained(i) == IF val[i].recvflag = 1 THEN <<val[i].recvmsg.req>> ELSE <<>>
Logins(fd, s) ==
  FoldLeft(LAMBDA t, m : IF m.id = "LOGIN" /\ m.dstid = fd THEN Append(t, m.req) ELSE t,
           <<>>, s)
LoginsOf(fd) == Logins(fd, Unhandled)
FirstRequests(c, n) == [k \in 1 .. n |-> <<c, k>>]
RequestsRead(c) == (sent[c] - Len(up[c])) \div ReqLen

PipelineInOrder ==
  \A i \in Slots : Live(i) /\ ConnOf(i) \notin orphans /\ inmsg # Mid!Down =>
    LET c == ConnOf(i) IN
    FirstRequests(c, Cli!Answered(c)) \o Sending(i) \o mulq[i]
      \o LoginsOf(val[i].srvfd) \o Retained(i) = FirstRequests(c, RequestsRead(c))

(* Every answer that reaches a client answers a request that was made, and *)
(* no answer is sent twice, to whatever client it goes.                    *)
UnitsOf(req) ==
  Cardinality(UNION {{c} \X {j \in 1 .. Len(inbox[c]) : inbox[c][j] = req} : c \in Conns})
AnsweredOnce ==
  /\ \A c \in Conns : \A j \in 1 .. Len(inbox[c]) :
       inbox[c][j][2] <= Cli!Asked(inbox[c][j][1])
  /\ \A req \in Requests : UnitsOf(req) <= RspLen

(* An answer goes to the connection whose request it answers ("here it is  *)
(* assumed that they correspond one to one", CShmQueueMulti.cpp:124).      *)
AnswersGoHome == \A i \in Slots : Live(i) /\ val[i].sendflag = 1
                                    => val[i].sendmsg.req[1] = ConnOf(i)

(* The servers are a LoginService: each request of a client that stays is  *)
(* answered once and in order, also when midsrv is killed and started, but *)
(* for the clients that were connected then.  A response is the request    *)
(* all its units are about.                                                *)
Response(c, k) ==
  LET units == {inbox[c][j] : j \in (k - 1) * RspLen + 1 .. k * RspLen} IN
  IF Cardinality(units) = 1 THEN CHOOSE u \in units : TRUE ELSE NoRequest
Service == INSTANCE LoginService WITH
             asked <- [c \in Conns |-> Cli!Asked(c)],
             answers <- [c \in Conns |->
                           [k \in 1 .. Cli!Answered(c) |-> Response(c, k)]],
             restarts <- ended.midsrv - IF inmsg = Mid!Down THEN 1 ELSE 0
ServesLogins == Service!Spec

(* A connection whose client is gone loses its descriptor in the end,      *)
(* whatever its slot holds.  (Without a slot, or when epoll_ctl has refused*)
(* it, insrv never hears of the end.)                                      *)
Held(c) == \E i \in Slots : Live(i) /\ ConnOf(i) = c /\ interest[val[i].srvfd] # In!Closed
GoneIsReleased == \A c \in Conns : cli[c] = "gone" /\ Held(c) ~> c \notin Opened

(* A client that closes costs insrv that connection only: an error of      *)
(* send() clears the slot and closes the socket (CSocketSrvEpoll.cpp:224). *)
EndsOnlyWhenKilled == ended.insrv <= InsrvKills

(* A message that the full queue made insrv keep in recvmsg is taken from  *)
(* there in the end ("one msg is received and not yet taken away",         *)
(* CSocketSrvEpoll.cpp:264, and the comments at lines 362 and 363).        *)
RetainedIsTaken == \A i \in Slots : val[i].recvflag = 1 ~> val[i].recvflag = 0
=============================================================================
