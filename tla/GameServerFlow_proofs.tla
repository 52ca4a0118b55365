----------------------- MODULE GameServerFlow_proofs -----------------------
(***************************************************************************)
(* What passes through the servers.  Every step is one of a few effects on *)
(* the slots, the queues and the bytes (FlowStep).  From these follow, in  *)
(* this order and for every value of the constants: the types of the state *)
(* and that no queue is overrun (TypeInv); that each slot is in step with  *)
(* the bytes of its connection (StreamInv); and that a request, once read, *)
(* is at one place at a time until all of its answer is sent (FlowInv), so *)
(* that no answer is sent twice, whichever server is killed or started.    *)
(* Last, midsrv's map keeps up with the slots (MapInv).                    *)
(***************************************************************************)
EXTENDS GameServer_proofs

-----------------------------------------------------------------------------
(* Slots as records. *)
LEMMA TakenByRecord ==
  ASSUME NEW s, IsSlot(s), NEW fd
  PROVE  In!TakenBy(s, fd) =
              [srvfd |-> fd, recvflag |-> s.recvflag, sendflag |-> s.sendflag,
               recvmsg |-> s.recvmsg, sendmsg |-> s.sendmsg]
BY DEF IsSlot, In!TakenBy

LEMMA WithAnswerRecord ==
  ASSUME NEW s, IsSlot(s), NEW req
  PROVE  In!WithAnswer(s, req) =
              [srvfd |-> s.srvfd, recvflag |-> s.recvflag, sendflag |-> 1,
               recvmsg |-> s.recvmsg, sendmsg |-> [n |-> 0, req |-> req]]
<1>. DEFINE u == [s EXCEPT !.sendmsg = [n |-> 0, req |-> req]]
<1>1. u = [srvfd |-> s.srvfd, recvflag |-> s.recvflag, sendflag |-> s.sendflag,
           recvmsg |-> s.recvmsg, sendmsg |-> [n |-> 0, req |-> req]]
  BY DEF IsSlot
<1>2. In!WithAnswer(s, req) = [u EXCEPT !.sendflag = 1]
  BY DEF In!WithAnswer
<1>. HIDE DEF u
<1>. QED BY <1>1, <1>2

LEMMA AllSentRecord ==
  ASSUME NEW s, IsSlot(s)
  PROVE  In!AllSent(s) =
              [srvfd |-> s.srvfd, recvflag |-> s.recvflag, sendflag |-> 0,
               recvmsg |-> s.recvmsg, sendmsg |-> [n |-> 0, req |-> NoRequest]]
<1>. DEFINE u == [s EXCEPT !.sendmsg = [n |-> 0, req |-> NoRequest]]
<1>1. u = [srvfd |-> s.srvfd, recvflag |-> s.recvflag, sendflag |-> s.sendflag,
           recvmsg |-> s.recvmsg, sendmsg |-> [n |-> 0, req |-> NoRequest]]
  BY DEF IsSlot
<1>2. In!AllSent(s) = [u EXCEPT !.sendflag = 0]
  BY DEF In!AllSent, In!Erased, In!NoRequest, NoRequest
<1>. HIDE DEF u
<1>. QED BY <1>1, <1>2

LEMMA WithRequestRecord ==
  ASSUME NEW s, IsSlot(s), NEW n, NEW req, NEW f
  PROVE  In!WithRequest(s, n, req, f) =
              [srvfd |-> s.srvfd, recvflag |-> f, sendflag |-> s.sendflag,
               recvmsg |-> [n |-> n, req |-> req], sendmsg |-> s.sendmsg]
<1>. DEFINE u == [s EXCEPT !.recvmsg = [n |-> n, req |-> req]]
<1>1. u = [srvfd |-> s.srvfd, recvflag |-> s.recvflag, sendflag |-> s.sendflag,
           recvmsg |-> [n |-> n, req |-> req], sendmsg |-> s.sendmsg]
  BY DEF IsSlot
<1>2. In!WithRequest(s, n, req, f) = [u EXCEPT !.recvflag = f]
  BY DEF In!WithRequest
<1>. HIDE DEF u
<1>. QED BY <1>1, <1>2

LEMMA PartSentRecord ==
  ASSUME NEW s, IsSlot(s), s.sendmsg = [n |-> s.sendmsg.n, req |-> s.sendmsg.req], NEW n
  PROVE  In!PartSent(s, n) =
              [srvfd |-> s.srvfd, recvflag |-> s.recvflag, sendflag |-> s.sendflag,
               recvmsg |-> s.recvmsg, sendmsg |-> [n |-> n, req |-> s.sendmsg.req]]
  BY DEF IsSlot, In!PartSent

(* The three modules' names for the same operators *)
LEMMA Names ==
  /\ In!Requests = Requests /\ In!NoRequest = NoRequest /\ Mid!NoRequest = NoRequest
  /\ Mid!Slots = Slots
  /\ \A s, m : In!Pushed(s, m) = Pushed(s, m)
  /\ \A s, m : In!SinqTakes(s, m) = SinqTakes(s, m)
  /\ \A i, fd : In!NewConnect(i, fd) = NewConnect(i, fd)
  /\ \A i, fd : In!CloConnect(i, fd) = CloConnect(i, fd)
  /\ \A fd, req : In!Login(fd, req) = Login(fd, req)
<1>1. In!Requests = Requests /\ In!NoRequest = NoRequest /\ Mid!NoRequest = NoRequest
  BY DEF In!Requests, Requests, In!NoRequest, NoRequest, Mid!NoRequest
<1>2. Mid!Slots = Slots
  BY DEF Mid!Slots, Slots
<1>3. \A s : In!Used(s) = Used(s)
  BY DEF In!Used, Used, In!FoldLeft, FoldLeft, In!MapThenFoldSet, MapThenFoldSet, In!Max, Max
<1>4. \A s, m : In!SinqTakes(s, m) = SinqTakes(s, m)
  BY <1>3 DEF In!SinqTakes, SinqTakes
<1>5. \A s, m : In!Pushed(s, m) = Pushed(s, m)
  BY <1>4 DEF In!Pushed, Pushed
<1>6. \A i, fd : In!NewConnect(i, fd) = NewConnect(i, fd)
  BY <1>1 DEF In!NewConnect, NewConnect, In!U16, U16
<1>7. \A i, fd : In!CloConnect(i, fd) = CloConnect(i, fd)
  BY <1>6 DEF In!CloConnect, CloConnect
<1>8. \A fd, req : In!Login(fd, req) = Login(fd, req)
  BY DEF In!Login, Login, In!U16, U16
<1>. QED BY <1>1, <1>2, <1>4, <1>5, <1>6, <1>7, <1>8

-----------------------------------------------------------------------------
(* Types *)

(* A slot's recvmsg is complete exactly while it is kept for the queue, and*)
(* its sendmsg is incomplete while an answer is sent from it.              *)
RightSlot(s) ==
  /\ s \in SocketInfo
  /\ s.recvflag = 1 <=> s.recvmsg.n = ReqLen
  /\ s.recvflag = 1 => s.recvmsg.req \in Requests
  /\ s.sendflag = 1 => s.sendmsg.req \in Requests /\ s.sendmsg.n < RspLen
SlotTypes == val \in [Slots -> SocketInfo] /\ \A i \in Slots : RightSlot(val[i])
LoopTypes ==
  /\ pc \in {"pop", "wait", "events", "down"} /\ chan \in Slots
  /\ events \subseteq In!Fds \cup {Listen}
  /\ interest \in [In!Fds -> {"IN", "OUT", In!Closed}]
SocketTypes ==
  /\ sock \in [In!Fds -> Conns \cup {In!Closed}]
  /\ backlog \in Seq(Conns)
  /\ reset \cup orphans \subseteq Conns
QueueTypes ==
  /\ inmsg \in Msgs \cup {Mid!NoMsg, Mid!Down}
  /\ sinq \in Seq(Msgs) /\ Used(sinq) <= SinqCap
  /\ mulq \in [Slots -> Seq(Requests)]
  /\ \A i \in Slots : Len(mulq[i]) * RspLen <= ChanCap
ClientTypes ==
  /\ cli \in [Conns -> Cli!Phases]
  /\ sent \in [Conns -> Nat]
  /\ up \in [Conns -> Seq(1 .. MaxReq)]
  /\ inbox \in [Conns -> Seq(Requests)]
  /\ \A c \in Conns : /\ cli[c] = "idle" => sent[c] = 0
                      /\ cli[c] = "send" => sent[c] < ReqLen * MaxReq

TypeInv == SlotTypes /\ LoopTypes /\ SocketTypes /\ QueueTypes /\ ClientTypes

-----------------------------------------------------------------------------
(* What a step does to the messages and the bytes, and to their owners. *)

owners == <<sock, backlog, cli>>
bytes == <<up, sent, inbox>>
messages == <<sinq, inmsg, mulq>>

Idles == UNCHANGED <<val, owners, bytes, messages>>

TakesAnswer(i) ==
  /\ mulq[i] # <<>> /\ val[i].sendflag = 0
  /\ mulq' = [mulq EXCEPT ![i] = Tail(@)]
  /\ val' = [val EXCEPT ![i] = In!WithAnswer(@, Head(mulq[i]))]
  /\ UNCHANGED <<owners, bytes, sinq, inmsg>>

AcceptsOne ==
  /\ Accepts
  /\ sinq' \in {sinq, Pushed(sinq, NewConnect(In!Idle, In!NewFd))}
  /\ UNCHANGED <<cli, bytes, inmsg, mulq>>

SendsUnits(i, k) ==
  /\ Live(i) /\ val[i].sendflag = 1
  /\ k \in 1 .. RspLen /\ k <= RspLen - val[i].sendmsg.n
  /\ inbox' = [inbox EXCEPT ![ConnOf(i)] = @ \o [j \in 1 .. k |-> val[i].sendmsg.req]]
  /\ val' = [val EXCEPT ![i] = IF val[i].sendmsg.n + k = RspLen THEN In!AllSent(@)
                               ELSE In!PartSent(@, val[i].sendmsg.n + k)]
  /\ UNCHANGED <<owners, up, sent, messages>>

ClosesOne(fd, i) ==
  /\ Closes(fd, i)
  /\ cli[sock[fd]] = "gone"
  /\ sinq' = Pushed(sinq, CloConnect(i, fd))
  /\ UNCHANGED <<backlog, cli, sent, inbox, inmsg, mulq>>

HandsOver(i, req) ==
  LET m == Login(val[i].srvfd, req) IN
  /\ sinq' = Pushed(sinq, m)
  /\ val' = [val EXCEPT ![i] = IF SinqTakes(sinq, m)
                               THEN In!WithRequest(@, 0, NoRequest, 0)
                               ELSE In!WithRequest(@, ReqLen, req, 1)]

Retries(i) ==
  /\ Live(i) /\ val[i].recvflag = 1
  /\ HandsOver(i, val[i].recvmsg.req)
  /\ UNCHANGED <<owners, bytes, inmsg, mulq>>

ReadsUnits(i, t) ==
  /\ Live(i) /\ val[i].recvflag = 0
  /\ t \in 1 .. Len(up[ConnOf(i)]) /\ t <= ReqLen - val[i].recvmsg.n
  /\ LET n == val[i].recvmsg.n + t
         req == <<ConnOf(i), up[ConnOf(i)][t]>>
     IN IF n = ReqLen THEN HandsOver(i, req)
        ELSE val' = [val EXCEPT ![i] = In!WithRequest(@, n, req, 0)] /\ sinq' = sinq
  /\ up' = [up EXCEPT ![ConnOf(i)] = SubSeq(@, t + 1, Len(@))]
  /\ UNCHANGED <<owners, sent, inbox, inmsg, mulq>>

EndsAll == In!Ends /\ UNCHANGED <<sent, inmsg>>

Clears ==
  /\ sinq' = <<>> /\ mulq' = [i \in Slots |-> <<>>]
  /\ inmsg' \in {inmsg, Mid!NoMsg}
  /\ UNCHANGED <<val, owners, bytes>>

Pops ==
  /\ inmsg = Mid!NoMsg /\ sinq # <<>>
  /\ inmsg' = Head(sinq) /\ sinq' = Tail(sinq)
  /\ UNCHANGED <<val, owners, bytes, mulq>>

(* midsrv is done with a message, or ends with it. *)
Drops ==
  /\ inmsg' \in {Mid!NoMsg, Mid!Down}
  /\ UNCHANGED <<val, owners, bytes, sinq, mulq>>

PutsAnswer(i) ==
  /\ inmsg.id = "LOGIN" /\ (Len(mulq[i]) + 1) * RspLen <= ChanCap
  /\ mulq' = [mulq EXCEPT ![i] = Append(@, inmsg.req)]
  /\ inmsg' = Mid!NoMsg
  /\ UNCHANGED <<val, owners, bytes, sinq>>

Begins(c) ==
  /\ Connect(c)
  /\ UNCHANGED <<val, sock, bytes, messages>>

Asks(c) ==
  /\ Cli!SendUnit(c)
  /\ UNCHANGED <<val, sock, backlog, inbox, messages>>

(* The client has read, or is gone. *)
GoesOn(c) ==
  /\ cli[c] # "idle"
  /\ \/ cli' = [cli EXCEPT ![c] = IF Cli!Asked(c) < MaxReq THEN "send" ELSE "done"]
     \/ cli' = [cli EXCEPT ![c] = "gone"]
  /\ UNCHANGED <<val, sock, backlog, bytes, messages>>

(* Of these, the effects of a step of insrv's loop. *)
InFlow ==
  \/ Idles \/ AcceptsOne
  \/ \E i \in Slots :
       \/ TakesAnswer(i) \/ Retries(i)
       \/ \E k \in Nat : SendsUnits(i, k) \/ ReadsUnits(i, k)
       \/ \E fd \in In!Fds : ClosesOne(fd, i)

FlowStep ==
  \/ InFlow \/ EndsAll \/ Clears \/ Pops \/ Drops
  \/ \E i \in Slots : PutsAnswer(i)
  \/ \E c \in Conns : Begins(c) \/ Asks(c) \/ GoesOn(c)

(* Every step of insrv's loop has one of these effects. *)
LEMMA InsrvFlow ==
  ASSUME PairInv, TypeInv, InStep
  PROVE  InFlow
<1>. Table /\ chan \in Slots
  BY DEF PairInv, TypeInv, LoopTypes
<1>10. ASSUME NEW fd \in In!Fds, NEW flag, NEW i, In!On(fd, flag, i)
      PROVE  i \in Slots /\ val[i].srvfd = fd /\ Live(i) /\ events' \subseteq events
  <2>1. i \in Slots /\ val[i].srvfd = fd /\ events' \subseteq events
    BY <1>10, FoundSlot DEF In!On, In!At, In!Done
  <2>. QED BY <2>1, Numbers DEF Live
<1>. sent' = sent /\ cli' = cli /\ inmsg' = inmsg
  BY DEF InStep, midsrvVars
<1>1. CASE In!PopSkips \/ In!EpollWait
  BY <1>1 DEF In!PopSkips, In!EpollWait, InFlow, Idles, owners, bytes, messages
<1>2. CASE In!PopToSocket \/ In!PopToClosed
  <2>1. In!TakeAnswer /\ sock' = sock
    BY <1>2 DEF In!PopToSocket, In!PopToClosed, In!TakeAnswer
  <2>2. TakesAnswer(chan)
    BY <2>1 DEF In!TakeAnswer, TakesAnswer, owners, bytes
  <2>. QED BY <2>2 DEF InFlow
<1>3. CASE In!Accept \/ In!AcceptUnwatched
  <2>1. Accepts /\ UNCHANGED <<bytes, mulq>>
    BY <1>3 DEF In!Accept, In!AcceptUnwatched, Accepts, In!Accepted, In!Done, bytes
  <2>2. sinq' \in {sinq, Pushed(sinq, NewConnect(In!Idle, In!NewFd))}
    BY <1>3, Names DEF In!Accept, In!AcceptUnwatched
  <2>3. AcceptsOne
    BY <2>1, <2>2 DEF AcceptsOne
  <2>. QED BY <2>3 DEF InFlow
<1>4. ASSUME NEW fd \in In!Fds, In!SkipEvent(fd)
      PROVE  InFlow
  BY <1>4 DEF In!SkipEvent, In!Done, InFlow, Idles, owners, bytes, messages
<1>5. ASSUME NEW fd \in In!Fds, In!Send(fd)
      PROVE  InFlow
  <2>1. PICK i \in In!Slots, k \in 1 .. RspLen :
          /\ In!On(fd, "OUT", i)
          /\ val[i].sendflag = 1 /\ k <= RspLen - val[i].sendmsg.n
          /\ inbox' = [inbox EXCEPT ![sock[fd]] = @ \o [j \in 1 .. k |-> val[i].sendmsg.req]]
          /\ IF val[i].sendmsg.n + k = RspLen
             THEN In!SendDone(fd, i)
             ELSE val' = [val EXCEPT ![i] = In!PartSent(@, val[i].sendmsg.n + k)]
          /\ UNCHANGED <<sock, sinq, up, backlog>>
    BY <1>5 DEF In!Send
  <2>2. i \in Slots /\ val[i].srvfd = fd /\ Live(i)
    BY <1>10, <2>1
  <2>3. mulq' = mulq
    BY <2>1 DEF In!On, In!Done
  <2>4. val' = [val EXCEPT ![i] = IF val[i].sendmsg.n + k = RspLen THEN In!AllSent(@)
                             ELSE In!PartSent(@, val[i].sendmsg.n + k)]
    BY <2>1 DEF In!SendDone
  <2>5. SendsUnits(i, k)
    BY <2>1, <2>2, <2>3, <2>4 DEF SendsUnits, ConnOf, owners, messages
  <2>6. k \in Nat
    BY GameAssumption DEF GameAssumption
  <2>. QED BY <2>2, <2>5, <2>6 DEF InFlow
<1>6. ASSUME NEW fd \in In!Fds, In!SendError(fd) \/ In!ReceiveEnd(fd)
      PROVE  InFlow
  <2>1. PICK i \in In!Slots, flag \in {"IN", "OUT"} :
          In!On(fd, flag, i) /\ In!CloseSlot(fd, i) /\ cli[sock[fd]] = "gone"
    BY <1>6 DEF In!SendError, In!ReceiveEnd
  <2>2. i \in Slots /\ Closes(fd, i)
    BY <1>10, <2>1 DEF Closes
  <2>3. sinq' = Pushed(sinq, CloConnect(i, fd)) /\ UNCHANGED <<inbox, backlog>>
    BY <2>1, Names DEF In!CloseSlot
  <2>4. mulq' = mulq
    BY <2>1 DEF In!On, In!Done
  <2>5. ClosesOne(fd, i)
    BY <2>1, <2>2, <2>3, <2>4 DEF ClosesOne
  <2>. QED BY <2>2, <2>5 DEF InFlow
<1>7. ASSUME NEW fd \in In!Fds, NEW i, NEW req, In!HandOver(fd, i, req), val[i].srvfd = fd
      PROVE  HandsOver(i, req)
  BY <1>7, Names DEF In!HandOver, HandsOver
<1>8. ASSUME NEW fd \in In!Fds, In!RetryRetained(fd)
      PROVE  InFlow
  <2>1. PICK i \in In!Slots :
          /\ In!On(fd, "IN", i) /\ val[i].recvflag = 1
          /\ In!HandOver(fd, i, val[i].recvmsg.req)
          /\ UNCHANGED <<sock, up, inbox, backlog>>
    BY <1>8 DEF In!RetryRetained
  <2>2. i \in Slots /\ val[i].srvfd = fd /\ Live(i)
    BY <1>10, <2>1
  <2>3. mulq' = mulq
    BY <2>1 DEF In!On, In!Done
  <2>4. Retries(i)
    BY <1>7, <2>1, <2>2, <2>3 DEF Retries, owners, bytes
  <2>. QED BY <2>2, <2>4 DEF InFlow
<1>9. ASSUME NEW fd \in In!Fds, In!Receive(fd)
      PROVE  InFlow
  <2>1. PICK i \in In!Slots :
          /\ In!On(fd, "IN", i) /\ val[i].recvflag = 0
          /\ In!Taken(fd, i) > 0
          /\ LET n == val[i].recvmsg.n + In!Taken(fd, i)
                 req == <<sock[fd], up[sock[fd]][In!Taken(fd, i)]>>
             IN  IF n = ReqLen THEN In!HandOver(fd, i, req)
                 ELSE val' = [val EXCEPT ![i] = In!WithRequest(@, n, req, 0)] /\ sinq' = sinq
          /\ up' = [up EXCEPT ![sock[fd]] = SubSeq(@, In!Taken(fd, i) + 1, Len(@))]
          /\ UNCHANGED <<sock, inbox, backlog>>
    BY <1>9 DEF In!Receive
  <2>2. i \in Slots /\ val[i].srvfd = fd /\ Live(i)
    BY <1>10, <2>1
  <2>3. mulq' = mulq
    BY <2>1 DEF In!On, In!Done
  <2>. DEFINE t == In!Taken(fd, i)
  <2>4. t \in 1 .. Len(up[ConnOf(i)]) /\ t <= ReqLen - val[i].recvmsg.n
    <3>1. ConnOf(i) = sock[fd] /\ sock[fd] \in Conns
      BY <2>2, LiveFd DEF ConnOf, Open, TypeInv, SocketTypes
    <3>2. Len(up[sock[fd]]) \in Nat
      BY <3>1 DEF TypeInv, ClientTypes
    <3>3. val[i].recvmsg.n \in 0 .. ReqLen /\ ReqLen \in Nat
      BY <2>2, GameAssumption DEF TypeInv, SlotTypes, RightSlot, SocketInfo, Buffers, GameAssumption
    <3>. DEFINE S == {Len(up[sock[fd]]), ReqLen - val[i].recvmsg.n}
    <3>4. S \subseteq Nat /\ S # {}
      BY <3>2, <3>3
    <3>5. t = In!Min(S)
      BY DEF In!Taken
    <3>6. t \in S /\ \A y \in S : t <= y
      <4>. HIDE DEF S, t
      <4>. QED BY <3>4, <3>5, InMin
    <3>. HIDE DEF t
    <3>. QED BY <2>1, <3>1, <3>2, <3>3, <3>6 DEF t
  <2>5. ReadsUnits(i, t)
    <3>. HIDE DEF t
    <3>1. /\ val[i].recvflag = 0
          /\ LET n == val[i].recvmsg.n + t
                 req == <<sock[fd], up[sock[fd]][t]>>
             IN  IF n = ReqLen THEN In!HandOver(fd, i, req)
                 ELSE val' = [val EXCEPT ![i] = In!WithRequest(@, n, req, 0)] /\ sinq' = sinq
          /\ up' = [up EXCEPT ![sock[fd]] = SubSeq(@, t + 1, Len(@))]
          /\ UNCHANGED <<sock, inbox, backlog>>
      BY <2>1 DEF t
    <3>2. sock[fd] = ConnOf(i)
      BY <2>2 DEF ConnOf
    <3>. QED BY <1>7, <2>2, <2>3, <2>4, <3>1, <3>2 DEF ReadsUnits, owners
  <2>6. t \in Nat
    <3>. HIDE DEF t
    <3>. QED BY <2>4
  <2>. HIDE DEF t
  <2>. QED BY <2>2, <2>5, <2>6 DEF InFlow
<1>. QED
  BY <1>1, <1>2, <1>3, <1>4, <1>5, <1>6, <1>8, <1>9 DEF InStep, In!InNext

(* Every step of the specification has one of these effects. *)
LEMMA FlowSteps ==
  ASSUME PairInv, TypeInv, [Next]_vars
  PROVE  FlowStep
<1>. Table /\ chan \in Slots
  BY DEF PairInv, TypeInv, LoopTypes
<1>2. CASE InStep
  BY <1>2, InsrvFlow DEF FlowStep
<1>3. CASE MidStep
  <2>. UNCHANGED <<val, owners, bytes>>
    BY <1>3 DEF MidStep, insrvVars, clientVars, owners, bytes
  <2>1. CASE Mid!PopMsg
    BY <2>1 DEF Mid!PopMsg, FlowStep, Pops
  <2>2. CASE Mid!HandleNewConnect \/ Mid!HandleCloConnect
    BY <2>2 DEF Mid!HandleNewConnect, Mid!HandleCloConnect, Mid!Handled, FlowStep, Drops
  <2>3. CASE Mid!HandleLogin
    <3>. DEFINE i == Mid!Channel
    <3>1. CASE i \in Mid!Slots /\ Mid!ChannelTakes(i)
      <4>1. PutsAnswer(i) /\ i \in Slots
        BY <2>3, <3>1, Names DEF Mid!HandleLogin, Mid!Handled, Mid!ChannelTakes, PutsAnswer
      <4>. QED BY <4>1 DEF FlowStep
    <3>2. CASE ~(i \in Mid!Slots /\ Mid!ChannelTakes(i))
      BY <2>3, <3>2 DEF Mid!HandleLogin, Mid!Handled, FlowStep, Drops
    <3>. QED BY <3>1, <3>2
  <2>. QED BY <1>3, <2>1, <2>2, <2>3 DEF MidStep, Mid!MidNext
<1>4. CASE \E c \in Conns : ClientStep(c)
  <2>1. PICK c \in Conns : ClientStep(c)
    BY <1>4
  <2>. UNCHANGED <<val, sock, messages>>
    BY <2>1 DEF ClientStep, insrvVars, midsrvVars, messages
  <2>2. CASE Connect(c)
    <3>1. Begins(c)
      BY <2>2 DEF Connect, Cli!Connect, Begins, bytes
    <3>. QED BY <3>1 DEF FlowStep
  <2>3. CASE Cli!SendUnit(c)
    <3>1. Asks(c)
      BY <2>3 DEF Cli!SendUnit, Asks
    <3>. QED BY <3>1 DEF FlowStep
  <2>4. CASE Cli!Recv(c) \/ Leave(c)
    <3>1. GoesOn(c)
      BY <2>4 DEF Cli!Recv, Leave, Cli!Leave, GoesOn, bytes
    <3>. QED BY <3>1 DEF FlowStep
  <2>. QED BY <2>1, <2>2, <2>3, <2>4 DEF ClientStep, Cli!CliProgress
<1>5. CASE InsrvDies \/ InsrvKilled
  BY <1>5 DEF InsrvDies, InsrvKilled, In!SigPipe, InsrvEnded, midsrvVars, FlowStep, EndsAll
<1>6. CASE InsrvStarts
  BY <1>6, Names, Numbers DEF InsrvStarts, In!Starts, midsrvVars, FlowStep, Clears, owners, bytes
<1>7. CASE MidsrvStarts
  BY <1>7, Names, Numbers DEF MidsrvStarts, Mid!MidStarts, insrvVars, clientVars, FlowStep, Clears, owners, bytes
<1>8. CASE MidsrvEnds
  BY <1>8 DEF MidsrvEnds, Mid!MidEnds, insrvVars, clientVars, FlowStep, Drops, owners, bytes
<1>9. CASE UNCHANGED vars
  BY <1>9 DEF vars, insrvVars, midsrvVars, clientVars, FlowStep, InFlow, Idles, owners, bytes, messages
<1>. QED BY <1>2, <1>3, <1>4, <1>5, <1>6, <1>7, <1>8, <1>9 DEF Next

-----------------------------------------------------------------------------
(* The queue to midsrv and its messages *)

LEMMA Lengths ==
  /\ MaxReq \in Nat \ {0} /\ ReqLen \in Nat \ {0} /\ RspLen \in Nat \ {0}
  /\ CtlLen \in Nat \ {0} /\ SinqCap \in Nat /\ ChanCap \in Nat
BY GameAssumption DEF GameAssumption

LEMMA MsgFields ==
  ASSUME NEW m \in Msgs
  PROVE  /\ m.len \in Nat
         /\ m.id = "LOGIN" => m.req \in Requests
BY Lengths DEF Msgs, CtlMsgs, LoginMsgs

UsedStep == [p \in Nat \X Msgs |-> p[1] + p[2].len]

LEMMA UsedFolds ==
  ASSUME NEW s \in Seq(Msgs)
  PROVE  Used(s) = Folded(s, 0, UsedStep) /\ Foldable(s, 0, UsedStep, Nat, Msgs)
<1>. DEFINE step == UsedStep
            iter == CHOOSE g : g = [u \in SUBSET DOMAIN s |->
                      IF u = {} THEN 0 ELSE g[u \ {Max(u)}] + s[Max(u)].len]
<1>1. Used(s) = iter[DOMAIN s]
  BY DEF Used, FoldLeft, MapThenFoldSet
<1>2. Foldable(s, 0, step, Nat, Msgs)
  BY MsgFields DEF Foldable, UsedStep
<1>3. PICK g \in [SUBSET DOMAIN s -> Nat] : Folding(g, s, 0, step)
  BY <1>2, FoldExists
<1>4. iter = [u \in SUBSET DOMAIN s |->
                IF u = {} THEN 0 ELSE iter[u \ {Max(u)}] + s[Max(u)].len]
  <2>1. ASSUME NEW u \in SUBSET DOMAIN s, u # {}
        PROVE  step[<<g[u \ {Max(u)}], s[Max(u)]>>] = g[u \ {Max(u)}] + s[Max(u)].len
    <3>1. Max(u) \in DOMAIN s
      BY <2>1, MaxInDomain
    <3>2. s[Max(u)] \in Msgs /\ g[u \ {Max(u)}] \in Nat
      BY <3>1
    <3>. QED BY <3>2 DEF UsedStep
  <2>2. g = [u \in SUBSET DOMAIN s |->
               IF u = {} THEN 0 ELSE g[u \ {Max(u)}] + s[Max(u)].len]
    BY <1>3, <2>1 DEF Folding
  <2>. QED BY <2>2
<1>. HIDE DEF iter
<1>5. iter[{}] = 0
  BY <1>4
<1>6. ASSUME NEW k \in 1 .. Len(s), iter[1 .. k - 1] \in Nat
      PROVE  iter[1 .. k] = step[<<iter[1 .. k - 1], s[k]>>]
  <2>1. Max(1 .. k) = k /\ (1 .. k) \ {k} = 1 .. k - 1 /\ 1 .. k # {}
    BY PrefixMax
  <2>2. 1 .. k \in SUBSET DOMAIN s
    OBVIOUS
  <2>3. iter[1 .. k] = iter[1 .. k - 1] + s[k].len
    BY <1>4, <2>1, <2>2
  <2>4. s[k] \in Msgs
    OBVIOUS
  <2>. QED BY <1>6, <2>3, <2>4 DEF UsedStep
<1>7. iter[DOMAIN s] = Folded(s, 0, step)
  <2>. HIDE DEF step
  <2>. QED BY <1>2, <1>5, <1>6, FoldedUnique
<1>. QED BY <1>1, <1>2, <1>7

LEMMA UsedEmpty ==
  Used(<<>>) = 0
<1>. DEFINE s == <<>>
<1>1. s \in Seq(Msgs)
  OBVIOUS
<1>. HIDE DEF s
<1>2. Used(s) = Folded(s, 0, UsedStep) /\ Foldable(s, 0, UsedStep, Nat, Msgs)
  BY <1>1, UsedFolds
<1>3. Folded(<<>>, 0, UsedStep) = 0
  BY <1>2, FoldedEmpty
<1>. QED BY <1>2, <1>3 DEF s

LEMMA UsedAppend ==
  ASSUME NEW s \in Seq(Msgs), NEW m \in Msgs
  PROVE  Used(s) \in Nat /\ Used(Append(s, m)) = Used(s) + m.len
<1>. DEFINE u == Folded(s, 0, UsedStep)
<1>1. Used(s) = u /\ Foldable(s, 0, UsedStep, Nat, Msgs)
  BY UsedFolds
<1>2. Append(s, m) \in Seq(Msgs)
  OBVIOUS
<1>3. Used(Append(s, m)) = Folded(Append(s, m), 0, UsedStep)
  BY <1>2, UsedFolds
<1>4. Folded(Append(s, m), 0, UsedStep) = UsedStep[<<u, m>>]
  BY <1>1, FoldedAppend
<1>5. u \in Nat
  BY <1>1, FoldedType
<1>. HIDE DEF u
<1>. QED BY <1>1, <1>3, <1>4, <1>5 DEF UsedStep

LEMMA UsedTail ==
  ASSUME NEW s \in Seq(Msgs), s # <<>>
  PROVE  Used(Tail(s)) \in Nat /\ Used(s) = Head(s).len + Used(Tail(s))
<1>. DEFINE t == Tail(s)
            b == Head(s).len
<1>1. t \in Seq(Msgs) /\ Head(s) \in Msgs /\ b \in Nat
  BY MsgFields
<1>. HIDE DEF t
<1>2. Used(s) = Folded(s, 0, UsedStep) /\ Foldable(s, 0, UsedStep, Nat, Msgs)
  BY UsedFolds
<1>3. Folded(s, 0, UsedStep) = Folded(t, UsedStep[<<0, Head(s)>>], UsedStep)
  BY <1>2, FoldedHead DEF t
<1>4. UsedStep[<<0, Head(s)>>] = b
  BY <1>1 DEF UsedStep
<1>. HIDE DEF b
<1>5. Used(t) = Folded(t, 0, UsedStep) /\ Foldable(t, 0, UsedStep, Nat, Msgs)
  BY <1>1, UsedFolds
<1>6. Foldable(t, b, UsedStep, Nat, Msgs)
  BY <1>1, <1>5 DEF Foldable
<1>7. PICK f : Partial(f, t, Nat, 0, UsedStep) /\ Folded(t, 0, UsedStep) = f[Len(t)]
  BY <1>5, FoldedPartial
<1>8. PICK g : Partial(g, t, Nat, b, UsedStep) /\ Folded(t, b, UsedStep) = g[Len(t)]
  BY <1>6, FoldedPartial
<1>9. Len(t) \in Nat /\ \A k \in 1 .. Len(t) : t[k] \in Msgs /\ t[k].len \in Nat
  BY <1>1, MsgFields
<1>. DEFINE h == [k \in 0 .. Len(t) |-> b + f[k]]
<1>10. h[0] = g[0]
  BY <1>1, <1>7, <1>8, <1>9 DEF Partial
<1>11. ASSUME NEW k \in 1 .. Len(t), h[k - 1] = g[k - 1]
       PROVE  h[k] = g[k]
  <2>1. k - 1 \in 0 .. Len(t) /\ k \in 0 .. Len(t)
    BY <1>9
  <2>2. f[k - 1] \in Nat /\ g[k - 1] \in Nat
    BY <1>7, <1>8, <2>1 DEF Partial
  <2>3. f[k] = UsedStep[<<f[k - 1], t[k]>>] /\ g[k] = UsedStep[<<g[k - 1], t[k]>>]
    BY <1>7, <1>8 DEF Partial
  <2>4. f[k] = f[k - 1] + t[k].len /\ g[k] = g[k - 1] + t[k].len
    BY <1>9, <2>2, <2>3 DEF UsedStep
  <2>. QED BY <1>1, <1>9, <1>11, <2>1, <2>2, <2>4
<1>12. h[Len(t)] = g[Len(t)]
  <2>. HIDE DEF h
  <2>. QED BY <1>9, <1>10, <1>11, SameSteps
<1>13. f[Len(t)] \in Nat
  BY <1>7, <1>9 DEF Partial
<1>. QED BY <1>2, <1>3, <1>4, <1>5, <1>7, <1>8, <1>9, <1>12, <1>13 DEF t, b

FitsQueue(s) == s \in Seq(Msgs) /\ Used(s) <= SinqCap

LEMMA PushFits ==
  ASSUME NEW s, FitsQueue(s), NEW m \in Msgs
  PROVE  FitsQueue(Pushed(s, m))
<1>1. s \in Seq(Msgs) /\ Append(s, m) \in Seq(Msgs)
  BY DEF FitsQueue
<1>2. Used(Append(s, m)) = Used(s) + m.len
  BY <1>1, UsedAppend
<1>. QED BY <1>1, <1>2 DEF FitsQueue, Pushed, SinqTakes

LEMMA PopFits ==
  ASSUME NEW s, FitsQueue(s), s # <<>>
  PROVE  FitsQueue(Tail(s)) /\ Head(s) \in Msgs
<1>1. s \in Seq(Msgs) /\ Tail(s) \in Seq(Msgs) /\ Head(s) \in Msgs
  BY DEF FitsQueue
<1>2. Used(Tail(s)) \in Nat /\ Used(s) = Head(s).len + Used(Tail(s)) /\ Head(s).len \in Nat
  BY <1>1, UsedTail, MsgFields
<1>3. SinqCap \in Nat
  BY Lengths
<1>. QED BY <1>1, <1>2, <1>3 DEF FitsQueue

LEMMA EmptyFits ==
  FitsQueue(<<>>)
<1>1. <<>> \in Seq(Msgs)
  OBVIOUS
<1>. QED BY <1>1, UsedEmpty, Lengths DEF FitsQueue

LEMMA SmallNumbers ==
  /\ \A fd \in In!Fds : U16(fd) = fd
  /\ \A i \in Slots : U16(i) = i
  /\ U16(-1) = 65535
BY FdRange, IndexRange DEF In!U16, U16

LEMMA MsgKinds ==
  /\ \A i \in Slots \cup {-1}, fd \in In!Fds :
       /\ NewConnect(i, fd) \in Msgs /\ CloConnect(i, fd) \in Msgs
       /\ NewConnect(i, fd).id = "NEW_CONNECT" /\ CloConnect(i, fd).id = "CLO_CONNECT"
       /\ NewConnect(i, fd).req = NoRequest /\ CloConnect(i, fd).req = NoRequest
  /\ \A fd \in In!Fds, req \in Requests :
       Login(fd, req) \in Msgs /\ Login(fd, req).id = "LOGIN" /\ Login(fd, req).req = req
<1>1. ASSUME NEW i \in Slots \cup {-1}, NEW fd \in In!Fds
      PROVE  /\ NewConnect(i, fd) \in CtlMsgs /\ CloConnect(i, fd) \in CtlMsgs
             /\ NewConnect(i, fd).id = "NEW_CONNECT" /\ CloConnect(i, fd).id = "CLO_CONNECT"
             /\ NewConnect(i, fd).req = NoRequest /\ CloConnect(i, fd).req = NoRequest
  <2>1. U16(i) \in Slots \cup {65535} /\ U16(fd) = fd
    BY SmallNumbers
  <2>2. CloConnect(i, fd) = [id |-> "CLO_CONNECT", len |-> CtlLen,
                             srcid |-> U16(i), dstid |-> U16(fd), req |-> NoRequest]
    BY DEF CloConnect, NewConnect
  <2>. QED BY <2>1, <2>2 DEF NewConnect, CtlMsgs
<1>2. ASSUME NEW fd \in In!Fds, NEW req \in Requests
      PROVE  Login(fd, req) \in LoginMsgs /\ Login(fd, req).id = "LOGIN" /\ Login(fd, req).req = req
  BY SmallNumbers DEF Login, LoginMsgs
<1>. QED BY <1>1, <1>2 DEF Msgs

-----------------------------------------------------------------------------
(* Types are kept *)

LEMMA Rest ==
  ASSUME NEW M, NEW s \in Seq(M), NEW t \in 1 .. Len(s)
  PROVE  /\ s[t] \in M
         /\ SubSeq(s, t + 1, Len(s)) \in Seq(M)
         /\ Len(SubSeq(s, t + 1, Len(s))) = Len(s) - t
         /\ \A j \in 1 .. Len(s) - t : SubSeq(s, t + 1, Len(s))[j] = s[t + j]
OBVIOUS

LEMMA RightShape ==
  ASSUME NEW s, RightSlot(s)
  PROVE  /\ IsSlot(s)
         /\ s.srvfd \in In!Fds \cup {-1} /\ s.recvflag \in {0, 1} /\ s.sendflag \in {0, 1}
         /\ s.recvmsg \in Buffers(ReqLen) /\ s.sendmsg \in Buffers(RspLen)
         /\ s.sendmsg = [n |-> s.sendmsg.n, req |-> s.sendmsg.req]
         /\ s.recvmsg.n \in 0 .. ReqLen /\ s.sendmsg.n \in 0 .. RspLen
BY DEF RightSlot, SocketInfo, IsSlot, Buffers

LEMMA RightErased ==
  RightSlot(In!Erased)
BY Lengths DEF RightSlot, SocketInfo, Buffers, In!Erased, In!NoRequest, NoRequest

LEMMA RightTakenBy ==
  ASSUME NEW s, RightSlot(s), NEW fd \in In!Fds
  PROVE  RightSlot(In!TakenBy(s, fd))
<1>1. In!TakenBy(s, fd) =
        [srvfd |-> fd, recvflag |-> s.recvflag, sendflag |-> s.sendflag,
         recvmsg |-> s.recvmsg, sendmsg |-> s.sendmsg]
  BY RightShape, TakenByRecord
<1>. QED BY <1>1, RightShape DEF RightSlot, SocketInfo

LEMMA RightWithAnswer ==
  ASSUME NEW s, RightSlot(s), NEW req \in Requests
  PROVE  RightSlot(In!WithAnswer(s, req))
<1>1. In!WithAnswer(s, req) =
        [srvfd |-> s.srvfd, recvflag |-> s.recvflag, sendflag |-> 1,
         recvmsg |-> s.recvmsg, sendmsg |-> [n |-> 0, req |-> req]]
  BY RightShape, WithAnswerRecord
<1>2. [n |-> 0, req |-> req] \in Buffers(RspLen)
  BY Lengths DEF Buffers
<1>. QED BY <1>1, <1>2, RightShape, Lengths DEF RightSlot, SocketInfo

LEMMA RightPartSent ==
  ASSUME NEW s, RightSlot(s), NEW n \in 0 .. RspLen, n < RspLen
  PROVE  RightSlot(In!PartSent(s, n))
<1>1. In!PartSent(s, n) =
        [srvfd |-> s.srvfd, recvflag |-> s.recvflag, sendflag |-> s.sendflag,
         recvmsg |-> s.recvmsg, sendmsg |-> [n |-> n, req |-> s.sendmsg.req]]
  BY RightShape, PartSentRecord
<1>2. [n |-> n, req |-> s.sendmsg.req] \in Buffers(RspLen)
  BY RightShape DEF Buffers
<1>. QED BY <1>1, <1>2, RightShape DEF RightSlot, SocketInfo

LEMMA RightAllSent ==
  ASSUME NEW s, RightSlot(s)
  PROVE  RightSlot(In!AllSent(s))
<1>1. In!AllSent(s) =
        [srvfd |-> s.srvfd, recvflag |-> s.recvflag, sendflag |-> 0,
         recvmsg |-> s.recvmsg, sendmsg |-> [n |-> 0, req |-> NoRequest]]
  BY RightShape, AllSentRecord
<1>2. [n |-> 0, req |-> NoRequest] \in Buffers(RspLen)
  BY Lengths DEF Buffers
<1>. QED BY <1>1, <1>2, RightShape DEF RightSlot, SocketInfo

LEMMA RightWithRequest ==
  ASSUME NEW s, RightSlot(s), NEW n \in 0 .. ReqLen, NEW req \in Requests \cup {NoRequest},
         NEW f \in {0, 1}, f = 1 <=> n = ReqLen, f = 1 => req \in Requests
  PROVE  RightSlot(In!WithRequest(s, n, req, f))
<1>1. In!WithRequest(s, n, req, f) =
        [srvfd |-> s.srvfd, recvflag |-> f, sendflag |-> s.sendflag,
         recvmsg |-> [n |-> n, req |-> req], sendmsg |-> s.sendmsg]
  <2>1. IsSlot(s)
    BY RightShape
  <2>. QED BY <2>1, WithRequestRecord
<1>2. [n |-> n, req |-> req] \in Buffers(ReqLen)
  BY DEF Buffers
<1>. QED BY <1>1, <1>2, RightShape DEF RightSlot, SocketInfo

LEMMA RightUpdate ==
  ASSUME SlotTypes, NEW i \in Slots, NEW s, RightSlot(s), val' = [val EXCEPT ![i] = s]
  PROVE  SlotTypes'
BY DEF SlotTypes, RightSlot

(* A request that is handed over, and one that is read. *)
LEMMA HandsTypes ==
  ASSUME SlotTypes, FitsQueue(sinq), NEW i \in Slots, Live(i), NEW req \in Requests,
         HandsOver(i, req)
  PROVE  SlotTypes' /\ FitsQueue(sinq')
<1>. DEFINE m == Login(val[i].srvfd, req)
            s == IF SinqTakes(sinq, m) THEN In!WithRequest(val[i], 0, NoRequest, 0)
                 ELSE In!WithRequest(val[i], ReqLen, req, 1)
<1>1. val[i].srvfd \in In!Fds /\ RightSlot(val[i])
  BY RightShape DEF SlotTypes, Live
<1>2. FitsQueue(sinq')
  BY <1>1, MsgKinds, PushFits DEF HandsOver
<1>3. RightSlot(s)
  BY <1>1, RightWithRequest, Lengths
<1>4. val' = [val EXCEPT ![i] = s]
  BY DEF HandsOver
<1>. HIDE DEF s
<1>. QED BY <1>2, <1>3, <1>4, RightUpdate

LEMMA ConnOfSlot ==
  ASSUME PairInv, SocketTypes, NEW i \in Slots, Live(i)
  PROVE  ConnOf(i) \in Conns /\ val[i].srvfd \in In!Fds /\ Open(val[i].srvfd)
BY LiveFd DEF ConnOf, Open, SocketTypes

LEMMA ReadsTypes ==
  ASSUME PairInv, TypeInv, NEW i \in Slots, NEW t \in Nat, ReadsUnits(i, t)
  PROVE  /\ SlotTypes' /\ FitsQueue(sinq')
         /\ up' \in [Conns -> Seq(1 .. MaxReq)]
<1>. DEFINE c == ConnOf(i)
            n == val[i].recvmsg.n + t
            req == <<c, up[c][t]>>
<1>1. c \in Conns /\ up \in [Conns -> Seq(1 .. MaxReq)] /\ up[c] \in Seq(1 .. MaxReq)
  BY ConnOfSlot DEF TypeInv, ReadsUnits, ClientTypes
<1>2. RightSlot(val[i]) /\ FitsQueue(sinq) /\ SlotTypes
  BY DEF TypeInv, SlotTypes, QueueTypes, FitsQueue
<1>3. t \in 1 .. Len(up[c]) /\ t <= ReqLen - val[i].recvmsg.n
  BY DEF ReadsUnits
<1>4. req \in Requests
  <2>. HIDE DEF c
  <2>1. up[c][t] \in 1 .. MaxReq
    BY <1>1, <1>3, Rest
  <2>. QED BY <1>1, <2>1 DEF Requests
<1>5. n \in 0 .. ReqLen
  <2>1. val[i].recvmsg.n \in 0 .. ReqLen
    BY <1>2, RightShape
  <2>. QED BY <1>3, <2>1, Lengths
<1>6. SubSeq(up[c], t + 1, Len(up[c])) \in Seq(1 .. MaxReq)
  <2>. HIDE DEF c
  <2>. QED BY <1>1, <1>3, Rest
<1>7. up' \in [Conns -> Seq(1 .. MaxReq)]
  BY <1>1, <1>6 DEF ReadsUnits
<1>8. IF n = ReqLen THEN HandsOver(i, req)
      ELSE val' = [val EXCEPT ![i] = In!WithRequest(@, n, req, 0)] /\ sinq' = sinq
  BY DEF ReadsUnits
<1>. HIDE DEF n, req, c
<1>9. CASE n = ReqLen
  BY <1>2, <1>4, <1>7, <1>8, <1>9, HandsTypes DEF ReadsUnits
<1>10. CASE n # ReqLen
  <2>1. RightSlot(In!WithRequest(val[i], n, req, 0))
    BY <1>2, <1>4, <1>5, <1>10, RightWithRequest
  <2>2. SlotTypes'
    BY <1>2, <1>8, <1>10, <2>1, RightUpdate
  <2>. QED BY <1>2, <1>7, <1>8, <1>10, <2>2
<1>. QED BY <1>9, <1>10

LEMMA QueueStep ==
  ASSUME QueueTypes, sinq' = sinq \/ FitsQueue(sinq'), inmsg' = inmsg, mulq' = mulq
  PROVE  QueueTypes'
BY DEF QueueTypes, FitsQueue

LEMMA TakesTypes ==
  ASSUME SlotTypes, QueueTypes, NEW i \in Slots, TakesAnswer(i)
  PROVE  SlotTypes' /\ QueueTypes'
<1>1. mulq[i] \in Seq(Requests) /\ mulq[i] # <<>> /\ RightSlot(val[i])
  BY DEF QueueTypes, SlotTypes, TakesAnswer
<1>. DEFINE q == mulq[i]
<1>2. /\ Tail(q) \in Seq(Requests) /\ Head(q) \in Requests
      /\ Len(Tail(q)) = Len(q) - 1 /\ Len(q) \in Nat /\ Len(q) - 1 \in Nat
  <2>. q \in Seq(Requests) /\ q # <<>>
    BY <1>1
  <2>. HIDE DEF q
  <2>. QED OBVIOUS
<1>3. SlotTypes'
  BY <1>1, <1>2, RightWithAnswer, RightUpdate DEF TakesAnswer
<1>4. Len(Tail(q)) * RspLen <= ChanCap
  <2>1. Len(q) * RspLen <= ChanCap
    BY DEF QueueTypes
  <2>2. Len(q) * RspLen = (Len(q) - 1) * RspLen + RspLen /\ (Len(q) - 1) * RspLen \in Nat
    BY <1>2, Lengths
  <2>. QED BY <1>2, <2>1, <2>2, Lengths
<1>5. QueueTypes'
  BY <1>1, <1>2, <1>4 DEF QueueTypes, TakesAnswer
<1>. QED BY <1>3, <1>5

LEMMA AcceptTypes ==
  ASSUME PairInv, SlotTypes, QueueTypes, AcceptsOne
  PROVE  SlotTypes' /\ QueueTypes'
<1>1. \E fd \in In!Fds : sock[fd] = In!Closed
  BY DEF AcceptsOne, Accepts, In!Accepted
<1>2. In!NewFd \in In!Fds
  BY <1>1, LowestFd
<1>3. In!Idle \in Slots \cup {-1}
  BY <1>1, NewPair DEF PairInv
<1>4. In!SlotTaken
  BY DEF AcceptsOne, Accepts
<1>5. ASSUME In!Idle # -1
      PROVE  SlotTypes'
  <2>1. In!Idle \in Slots /\ RightSlot(val[In!Idle])
    BY <1>3, <1>5 DEF SlotTypes
  <2>2. val' = [val EXCEPT ![In!Idle] = In!TakenBy(val[In!Idle], In!NewFd)]
    BY <1>4, <1>5 DEF In!SlotTaken
  <2>3. RightSlot(In!TakenBy(val[In!Idle], In!NewFd))
    BY <1>2, <2>1, RightTakenBy
  <2>. QED BY <2>1, <2>2, <2>3, RightUpdate
<1>6. SlotTypes'
  BY <1>4, <1>5 DEF In!SlotTaken, SlotTypes
<1>7. sinq' = sinq \/ FitsQueue(sinq')
  <2>1. NewConnect(In!Idle, In!NewFd) \in Msgs
    BY <1>2, <1>3, MsgKinds
  <2>2. FitsQueue(Pushed(sinq, NewConnect(In!Idle, In!NewFd)))
    BY <2>1, PushFits DEF QueueTypes, FitsQueue
  <2>. QED BY <2>2 DEF AcceptsOne
<1>. QED BY <1>6, <1>7, QueueStep DEF AcceptsOne

LEMMA SendsTypes ==
  ASSUME SlotTypes, ClientTypes, NEW i \in Slots, ConnOf(i) \in Conns,
         NEW k \in Nat, SendsUnits(i, k)
  PROVE  SlotTypes' /\ ClientTypes'
<1>. DEFINE n == val[i].sendmsg.n + k
            req == val[i].sendmsg.req
            s == IF n = RspLen THEN In!AllSent(val[i]) ELSE In!PartSent(val[i], n)
<1>1. RightSlot(val[i]) /\ req \in Requests
  BY DEF SlotTypes, RightSlot, SendsUnits
<1>2. n \in 0 .. RspLen
  <2>1. val[i].sendmsg.n \in 0 .. RspLen
    BY <1>1, RightShape
  <2>. QED BY <2>1, Lengths DEF SendsUnits
<1>3. RightSlot(s)
  <2>. HIDE DEF n
  <2>1. CASE n = RspLen
    BY <1>1, <2>1, RightAllSent
  <2>2. CASE n # RspLen
    BY <1>1, <1>2, <2>2, Lengths, RightPartSent
  <2>. QED BY <2>1, <2>2
<1>4. val' = [val EXCEPT ![i] = s]
  BY DEF SendsUnits
<1>5. SlotTypes'
  <2>. HIDE DEF s
  <2>. QED BY <1>3, <1>4, RightUpdate
<1>6. inbox' \in [Conns -> Seq(Requests)]
  <2>. HIDE DEF req
  <2>1. [j \in 1 .. k |-> req] \in Seq(Requests)
    BY <1>1
  <2>2. inbox' = [inbox EXCEPT ![ConnOf(i)] = @ \o [j \in 1 .. k |-> req]]
    BY DEF SendsUnits, req
  <2>3. inbox[ConnOf(i)] \o [j \in 1 .. k |-> req] \in Seq(Requests)
    BY <2>1 DEF ClientTypes
  <2>. QED BY <2>2, <2>3 DEF ClientTypes
<1>. QED BY <1>5, <1>6 DEF ClientTypes, SendsUnits, owners

LEMMA CloseTypes ==
  ASSUME PairInv, SlotTypes, SocketTypes, QueueTypes, ClientTypes,
         NEW i \in Slots, NEW fd \in In!Fds, ClosesOne(fd, i)
  PROVE  SlotTypes' /\ QueueTypes' /\ ClientTypes'
<1>1. SlotTypes'
  BY RightErased, RightUpdate DEF ClosesOne, Closes, In!CloseSlot
<1>2. FitsQueue(sinq')
  BY MsgKinds, PushFits DEF ClosesOne, QueueTypes, FitsQueue
<1>3. QueueTypes'
  BY <1>2, QueueStep DEF ClosesOne
<1>4. up' \in [Conns -> Seq(1 .. MaxReq)]
  <2>1. up' = [up EXCEPT ![sock[fd]] = <<>>]
    BY DEF ClosesOne, Closes, In!CloseSlot
  <2>2. <<>> \in Seq(1 .. MaxReq)
    OBVIOUS
  <2>. QED BY <2>1, <2>2 DEF ClientTypes
<1>. QED BY <1>1, <1>3, <1>4 DEF ClientTypes, ClosesOne

LEMMA EndsTypes ==
  ASSUME ClientTypes, EndsAll
  PROVE  SlotTypes' /\ ClientTypes'
<1>1. val' = [i \in Slots |-> In!Erased]
  BY Numbers DEF EndsAll, In!Ends, In!AllErased
<1>2. SlotTypes'
  BY <1>1, RightErased DEF SlotTypes, RightSlot
<1>3. inbox' = inbox /\ sent' = sent
  BY DEF EndsAll, In!Ends
<1>4. PICK S : /\ up' = [c \in Conns |-> IF c \in S THEN <<>> ELSE up[c]]
               /\ cli' = [c \in Conns |-> IF c \in S THEN "gone" ELSE cli[c]]
  BY DEF EndsAll, In!Ends
<1>5. up' \in [Conns -> Seq(1 .. MaxReq)]
  <2>1. <<>> \in Seq(1 .. MaxReq)
    OBVIOUS
  <2>. QED BY <1>4, <2>1 DEF ClientTypes
<1>6. cli' \in [Conns -> Cli!Phases]
  BY <1>4 DEF ClientTypes, Cli!Phases
<1>. QED BY <1>2, <1>3, <1>4, <1>5, <1>6 DEF ClientTypes

LEMMA ClearsTypes ==
  ASSUME QueueTypes, Clears
  PROVE  QueueTypes'
<1>1. FitsQueue(sinq')
  BY EmptyFits DEF Clears
<1>2. mulq' = [i \in Slots |-> <<>>]
  BY DEF Clears
<1>3. mulq' \in [Slots -> Seq(Requests)]
  <2>1. <<>> \in Seq(Requests)
    OBVIOUS
  <2>. QED BY <1>2, <2>1
<1>4. \A i \in Slots : Len(mulq'[i]) * RspLen <= ChanCap
  <2>1. Len(<<>>) = 0 /\ 0 * RspLen = 0
    BY Lengths
  <2>. QED BY <1>2, <2>1, Lengths
<1>. QED BY <1>1, <1>3, <1>4 DEF QueueTypes, FitsQueue, Clears

LEMMA MidTypes ==
  ASSUME QueueTypes, Pops \/ Drops
  PROVE  QueueTypes'
<1>1. CASE Pops
  BY <1>1, PopFits DEF Pops, QueueTypes, FitsQueue
<1>. QED BY <1>1 DEF Drops, QueueTypes

LEMMA MidLogin ==
  ASSUME inmsg \in Msgs \cup {Mid!NoMsg, Mid!Down}, inmsg.id = "LOGIN"
  PROVE  inmsg \in Msgs /\ inmsg.req \in Requests
<1>1. Mid!NoMsg.id # "LOGIN" /\ Mid!Down.id # "LOGIN"
  BY DEF Mid!NoMsg, Mid!Down
<1>. QED BY <1>1, MsgFields

LEMMA AnswerTypes ==
  ASSUME QueueTypes, NEW i \in Slots, PutsAnswer(i)
  PROVE  QueueTypes'
<1>1. inmsg.req \in Requests /\ mulq[i] \in Seq(Requests)
  BY MidLogin DEF QueueTypes, PutsAnswer
<1>. DEFINE q == Append(mulq[i], inmsg.req)
<1>2. q \in Seq(Requests) /\ Len(q) = Len(mulq[i]) + 1
  BY <1>1
<1>3. mulq' = [mulq EXCEPT ![i] = q]
  BY DEF PutsAnswer
<1>4. Len(q) * RspLen <= ChanCap
  BY <1>2 DEF PutsAnswer
<1>. HIDE DEF q
<1>. QED BY <1>2, <1>3, <1>4 DEF QueueTypes, PutsAnswer

LEMMA AskTypes ==
  ASSUME ClientTypes, NEW c \in Conns, Asks(c)
  PROVE  ClientTypes'
<1>. DEFINE n == sent[c]
            k == n \div ReqLen
<1>1. n \in Nat /\ n < ReqLen * MaxReq /\ ReqLen \in Nat \ {0} /\ MaxReq \in Nat \ {0}
  BY Lengths DEF ClientTypes, Asks, Cli!SendUnit
<1>. HIDE DEF n
<1>2. k \in Nat /\ k < MaxReq
  BY <1>1, Division, QuotientBound
<1>3. n + 1 < ReqLen * MaxReq \/ (n + 1) % ReqLen = 0
  <2>1. SUFFICES ASSUME n + 1 = ReqLen * MaxReq PROVE (n + 1) % ReqLen = 0
    <3>1. ReqLen * MaxReq \in Nat
      BY <1>1
    <3>. QED BY <1>1, <3>1
  <2>2. (ReqLen * MaxReq + 0) % ReqLen = 0
    BY <1>1, Quotient
  <2>3. ReqLen * MaxReq + 0 = ReqLen * MaxReq
    BY <1>1
  <2>. QED BY <2>1, <2>2, <2>3
<1>4. /\ sent' = [sent EXCEPT ![c] = n + 1]
      /\ up' = [up EXCEPT ![c] = Append(@, k + 1)]
      /\ cli' = [cli EXCEPT ![c] = IF sent'[c] % ReqLen = 0 THEN "recv" ELSE "send"]
      /\ inbox' = inbox
  BY DEF Asks, Cli!SendUnit, n
<1>. HIDE DEF k
<1>5. sent' \in [Conns -> Nat] /\ sent'[c] = n + 1
  BY <1>1, <1>4 DEF ClientTypes
<1>6. up' \in [Conns -> Seq(1 .. MaxReq)]
  <2>1. k + 1 \in 1 .. MaxReq
    BY <1>1, <1>2
  <2>2. up[c] \in Seq(1 .. MaxReq)
    BY DEF ClientTypes
  <2>3. Append(up[c], k + 1) \in Seq(1 .. MaxReq)
    BY <2>1, <2>2
  <2>. QED BY <1>4, <2>3 DEF ClientTypes
<1>7. cli' \in [Conns -> Cli!Phases]
  BY <1>4 DEF ClientTypes, Cli!Phases
<1>8. ASSUME NEW d \in Conns
      PROVE  /\ cli'[d] = "idle" => sent'[d] = 0
             /\ cli'[d] = "send" => sent'[d] < ReqLen * MaxReq
  BY <1>3, <1>4, <1>5 DEF ClientTypes
<1>. QED BY <1>4, <1>5, <1>6, <1>7, <1>8 DEF ClientTypes

LEMMA BeginTypes ==
  ASSUME ClientTypes, NEW c \in Conns, Begins(c)
  PROVE  ClientTypes'
<1>1. cli[c] = "idle" /\ cli' = [cli EXCEPT ![c] = "send"] /\ UNCHANGED <<up, sent, inbox>>
  BY DEF Begins, Connect, Cli!Connect, bytes
<1>2. 0 < ReqLen * MaxReq
  <2>1. ReqLen * 0 + ReqLen <= ReqLen * MaxReq
    BY Lengths, Product
  <2>2. ReqLen * 0 = 0 /\ ReqLen * MaxReq \in Nat
    BY Lengths
  <2>. QED BY <2>1, <2>2, Lengths
<1>. QED BY <1>1, <1>2 DEF ClientTypes, Cli!Phases

LEMMA GoesOnTypes ==
  ASSUME ClientTypes, NEW c \in Conns, GoesOn(c)
  PROVE  ClientTypes'
<1>1. UNCHANGED <<up, sent, inbox>>
  BY DEF GoesOn, bytes
<1>2. Cli!Asked(c) < MaxReq => sent[c] < ReqLen * MaxReq
  BY Lengths, QuotientBound DEF Cli!Asked, ClientTypes
<1>. QED BY <1>1, <1>2 DEF GoesOn, ClientTypes, Cli!Phases

LEMMA TypeRest ==
  ASSUME PairInv, TypeInv, FlowStep
  PROVE  SlotTypes' /\ QueueTypes' /\ ClientTypes'
<1>. SlotTypes /\ SocketTypes /\ QueueTypes /\ ClientTypes
  BY DEF TypeInv
<1>. FitsQueue(sinq)
  BY DEF QueueTypes, FitsQueue
<1>1. val' = val => SlotTypes'
  BY DEF SlotTypes, RightSlot
<1>2. UNCHANGED messages => QueueTypes'
  BY DEF messages, QueueTypes
<1>3. UNCHANGED bytes /\ cli' = cli => ClientTypes'
  BY DEF bytes, ClientTypes
<1>4. CASE Idles \/ Clears \/ Pops \/ Drops
  BY <1>1, <1>2, <1>3, <1>4, ClearsTypes, MidTypes DEF Idles, Clears, Pops, Drops, owners
<1>5. CASE AcceptsOne
  BY <1>3, <1>5, AcceptTypes DEF AcceptsOne
<1>6. CASE EndsAll
  <2>1. UNCHANGED messages
    BY <1>6 DEF EndsAll, In!Ends, messages
  <2>. QED BY <1>2, <1>6, <2>1, EndsTypes
<1>7. ASSUME NEW i \in Slots, TakesAnswer(i) \/ Retries(i) \/ PutsAnswer(i)
      PROVE  SlotTypes' /\ QueueTypes' /\ ClientTypes'
  <2>1. ClientTypes'
    BY <1>3, <1>7 DEF TakesAnswer, Retries, PutsAnswer, owners
  <2>2. CASE TakesAnswer(i)
    BY <2>1, <2>2, TakesTypes
  <2>3. CASE Retries(i)
    <3>1. val[i].recvmsg.req \in Requests
      BY <2>3 DEF Retries, SlotTypes, RightSlot
    <3>. QED BY <2>1, <2>3, <3>1, HandsTypes, QueueStep DEF Retries
  <2>4. CASE PutsAnswer(i)
    BY <1>1, <2>1, <2>4, AnswerTypes DEF PutsAnswer
  <2>. QED BY <1>7, <2>2, <2>3, <2>4
<1>8. ASSUME NEW i \in Slots, NEW k \in Nat, SendsUnits(i, k)
      PROVE  SlotTypes' /\ QueueTypes' /\ ClientTypes'
  BY <1>2, <1>8, ConnOfSlot, SendsTypes DEF SendsUnits
<1>9. ASSUME NEW i \in Slots, NEW k \in Nat, ReadsUnits(i, k)
      PROVE  SlotTypes' /\ QueueTypes' /\ ClientTypes'
  <2>1. SlotTypes' /\ FitsQueue(sinq') /\ up' \in [Conns -> Seq(1 .. MaxReq)]
    BY <1>9, ReadsTypes
  <2>2. UNCHANGED <<cli, sent, inbox, inmsg, mulq>>
    BY <1>9 DEF ReadsUnits, owners
  <2>. QED BY <2>1, <2>2, QueueStep DEF ClientTypes
<1>10. ASSUME NEW i \in Slots, NEW fd \in In!Fds, ClosesOne(fd, i)
       PROVE  SlotTypes' /\ QueueTypes' /\ ClientTypes'
  BY <1>10, CloseTypes
<1>11. ASSUME NEW c \in Conns, Begins(c) \/ Asks(c) \/ GoesOn(c)
       PROVE  SlotTypes' /\ QueueTypes' /\ ClientTypes'
  <2>1. SlotTypes' /\ QueueTypes'
    BY <1>1, <1>2, <1>11 DEF Begins, Asks, GoesOn
  <2>. QED BY <1>11, <2>1, BeginTypes, AskTypes, GoesOnTypes
<1>. QED BY <1>4, <1>5, <1>6, <1>7, <1>8, <1>9, <1>10, <1>11 DEF FlowStep, InFlow

LEMMA SocketStep ==
  ASSUME PairInv, TypeInv, PlaceInv, [Next]_vars
  PROVE  SocketTypes'
<1>. SocketTypes
  BY DEF TypeInv
<1>1. sock' \in [In!Fds -> Conns \cup {In!Closed}] /\ backlog' \in Seq(Conns)
  <2>1. PairInv' /\ PlaceInv'
    BY PairStep, PlaceStep DEF TypeInv, LoopTypes
  <2>. QED BY <2>1 DEF PairInv, Sockets, Waiting, PlaceInv, Typed
<1>2. orphans' \subseteq Conns
  BY DEF SocketTypes, Next, InStep, MidStep, ClientStep, InsrvDies, InsrvKilled, InsrvStarts,
         MidsrvEnds, MidsrvStarts, InsrvEnded, vars, histVars, Accepted
<1>3. reset' \subseteq Conns
  <2>1. CASE InStep
    <3>1. ASSUME NEW fd \in In!Fds, In!Send(fd)
          PROVE  reset' \subseteq Conns
      <4>1. PICK i \in In!Slots : In!On(fd, "OUT", i) /\ In!PeerAnswers(sock[fd])
        BY <3>1 DEF In!Send
      <4>2. i \in Slots /\ val[i].srvfd = fd /\ Live(i)
        BY <4>1, FoundSlot, FdRange DEF In!On, In!At, Live
      <4>3. sock[fd] \in Conns
        BY <4>2, ConnOfSlot DEF ConnOf
      <4>. QED BY <4>1, <4>3 DEF In!PeerAnswers, SocketTypes
    <3>2. ASSUME NEW fd \in In!Fds, NEW i, In!CloseSlot(fd, i)
          PROVE  reset' \subseteq Conns
      BY <3>2 DEF In!CloseSlot, SocketTypes
    <3>. QED
      BY <2>1, <3>1, <3>2
         DEF SocketTypes, InStep, In!InNext, In!PopSkips, In!PopToSocket, In!PopToClosed,
             In!TakeAnswer, In!EpollWait, In!Accept, In!AcceptUnwatched, In!Accepted,
             In!SkipEvent, In!SendError, In!RetryRetained, In!Receive, In!ReceiveEnd
  <2>2. CASE InsrvDies \/ InsrvKilled
    BY <2>2 DEF InsrvDies, InsrvKilled, In!SigPipe, In!Ends
  <2>3. CASE reset' = reset
    BY <2>3 DEF SocketTypes
  <2>. QED
    BY <2>1, <2>2, <2>3 DEF Next, MidStep, ClientStep, InsrvStarts, In!Starts,
       MidsrvEnds, MidsrvStarts, vars, insrvVars
<1>. QED BY <1>1, <1>2, <1>3 DEF SocketTypes

LEMMA LoopStep ==
  ASSUME PairInv, TypeInv, [Next]_vars
  PROVE  LoopTypes'
<1>. LoopTypes /\ Table
  BY DEF TypeInv, PairInv
<1>1. chan' \in Slots
  BY ChanStep DEF LoopTypes
<1>2. ASSUME NEW e, In!Done(e)
      PROVE  pc' \in {"pop", "events"} /\ events' \subseteq events
  BY <1>2 DEF In!Done
<1>3. CASE InStep
  <2>1. interest' \in [In!Fds -> {"IN", "OUT", In!Closed}]
    <3>1. ASSUME NEW fd \in In!Fds, NEW i, In!SendDone(fd, i) \/ In!CloseSlot(fd, i)
          PROVE  interest' \in [In!Fds -> {"IN", "OUT", In!Closed}]
      BY <3>1 DEF In!SendDone, In!CloseSlot, LoopTypes
    <3>2. ASSUME NEW fd \in In!Fds, In!Send(fd)
          PROVE  interest' \in [In!Fds -> {"IN", "OUT", In!Closed}]
      <4>1. PICK i : In!SendDone(fd, i) \/ interest' = interest
        BY <3>2 DEF In!Send
      <4>. QED BY <3>1, <4>1 DEF LoopTypes
    <3>3. CASE In!PopToSocket
      BY <3>3 DEF In!PopToSocket, LoopTypes
    <3>4. CASE In!Accept
      BY <3>4 DEF In!Accept, LoopTypes
    <3>5. CASE interest' = interest
      BY <3>5 DEF LoopTypes
    <3>. QED
      BY <1>3, <3>1, <3>2, <3>3, <3>4, <3>5
         DEF InStep, In!InNext, In!PopSkips, In!PopToClosed, In!EpollWait, In!AcceptUnwatched,
             In!SkipEvent, In!SendError, In!RetryRetained, In!Receive, In!ReceiveEnd
  <2>2. pc' \in {"pop", "wait", "events", "down"} /\ events' \subseteq In!Fds \cup {Listen}
    <3>1. CASE In!PopSkips \/ In!PopToSocket \/ In!PopToClosed
      BY <3>1 DEF In!PopSkips, In!PopToSocket, In!PopToClosed, In!TakeAnswer, In!ScanOn, LoopTypes
    <3>2. CASE In!EpollWait
      <4>1. events' \subseteq In!ReadyEvents
        BY <3>2 DEF In!EpollWait
      <4>2. In!ReadyEvents \subseteq In!Fds \cup {Listen}
        BY DEF In!ReadyEvents
      <4>. QED BY <3>2, <4>1, <4>2 DEF In!EpollWait
    <3>3. CASE \E e : In!Done(e)
      BY <1>2, <3>3 DEF LoopTypes
    <3>. QED
      BY <1>3, <3>1, <3>2, <3>3
         DEF InStep, In!InNext, In!Accept, In!AcceptUnwatched, In!Accepted, In!On,
             In!SkipEvent, In!Send, In!SendError, In!RetryRetained, In!Receive, In!ReceiveEnd
  <2>. QED BY <1>1, <2>1, <2>2 DEF LoopTypes
<1>4. CASE InsrvDies \/ InsrvKilled
  <2>1. pc' = "down" /\ events' = {} /\ interest' = In!AllClosed
    BY <1>4 DEF InsrvDies, InsrvKilled, In!SigPipe, In!Ends
  <2>. QED BY <1>1, <2>1 DEF LoopTypes, In!AllClosed
<1>5. CASE InsrvStarts
  BY <1>1, <1>5 DEF InsrvStarts, In!Starts, LoopTypes
<1>6. CASE UNCHANGED insrvVars
  BY <1>6 DEF insrvVars, LoopTypes
<1>. QED
  BY <1>3, <1>4, <1>5, <1>6 DEF Next, MidStep, ClientStep, MidsrvEnds, MidsrvStarts, vars

LEMMA TypeStep ==
  ASSUME PairInv, PlaceInv, TypeInv, [Next]_vars
  PROVE  TypeInv'
<1>1. FlowStep
  BY FlowSteps
<1>. QED BY <1>1, TypeRest, LoopStep, SocketStep DEF TypeInv

LEMMA TypeInit ==
  ASSUME Init
  PROVE  TypeInv
<1>1. SlotTypes
  <2>1. val = [i \in Slots |-> In!Erased]
    BY Numbers DEF Init, In!InInit, In!AllErased
  <2>. QED BY <2>1, RightErased DEF SlotTypes, RightSlot
<1>2. LoopTypes
  BY Numbers DEF Init, In!InInit, In!AllClosed, LoopTypes
<1>3. SocketTypes
  <2>1. sock = [fd \in In!Fds |-> In!Closed] /\ backlog = <<>> /\ reset = {} /\ orphans = {}
    BY DEF Init, In!InInit, In!AllClosed, Cli!CliInit
  <2>. QED BY <2>1 DEF SocketTypes
<1>4. QueueTypes
  <2>1. inmsg = Mid!NoMsg /\ sinq = <<>> /\ mulq = [i \in Slots |-> <<>>]
    BY DEF Init, Mid!MidInit
  <2>2. FitsQueue(sinq)
    BY <2>1, EmptyFits
  <2>3. mulq \in [Slots -> Seq(Requests)]
    <3>1. <<>> \in Seq(Requests)
      OBVIOUS
    <3>. QED BY <2>1, <3>1
  <2>4. \A i \in Slots : Len(mulq[i]) * RspLen <= ChanCap
    <3>1. Len(<<>>) = 0 /\ 0 * RspLen = 0
      BY Lengths
    <3>. QED BY <2>1, <3>1, Lengths
  <2>. QED BY <2>1, <2>2, <2>3, <2>4 DEF QueueTypes, FitsQueue
<1>5. ClientTypes
  <2>1. /\ cli = [c \in Conns |-> "idle"] /\ sent = [c \in Conns |-> 0]
        /\ up = [c \in Conns |-> <<>>] /\ inbox = [c \in Conns |-> <<>>]
    BY DEF Init, Cli!CliInit
  <2>2. <<>> \in Seq(1 .. MaxReq) /\ <<>> \in Seq(Requests)
    OBVIOUS
  <2>. QED BY <2>1, <2>2 DEF ClientTypes, Cli!Phases
<1>. QED BY <1>1, <1>2, <1>3, <1>4, <1>5 DEF TypeInv

(* The types are an invariant together with the pairs of slots and sockets.*)
LEMMA TypeInvariant == Spec => [](PairInv /\ PlaceInv /\ TypeInv)
<1>1. Init => TypeInv
  BY TypeInit
<1>2. PairInv /\ PlaceInv /\ TypeInv /\ [Next]_vars => TypeInv'
  BY TypeStep
<1>. QED BY <1>1, <1>2, PairInvariant, PlaceInvariant, PTL DEF Spec

(* Whatever the clients do and whichever server ends, no queue holds more  *)
(* than its capacity, no buffer of a slot more than its message, and every *)
(* message, event and flag is one the code knows (CShmQueueMulti.cpp       *)
(* pushmsg, CSocketInfo): TypeOK holds always.                             *)
THEOREM QueuesStayInBounds == Spec => []TypeOK
<1>1. TypeInv => TypeOK
  <2>. SUFFICES ASSUME TypeInv
                PROVE  TypeOK
    OBVIOUS
  <2>1. \A j \in 1 .. Len(sinq) : sinq[j] \in Msgs
    BY DEF TypeInv, QueueTypes
  <2>. QED BY <2>1 DEF TypeInv, SlotTypes, LoopTypes, SocketTypes, QueueTypes, ClientTypes, TypeOK
<1>. QED BY <1>1, TypeInvariant, PTL

-----------------------------------------------------------------------------
(* The bytes of a connection *)

Consumed(c) == sent[c] - Len(up[c])

(* The units that wait are of the requests after those that were read, and *)
(* what recvmsg holds is the part that was read of the next request.       *)
Streams ==
  /\ \A c \in Conns : Len(up[c]) <= sent[c]
  /\ \A c \in Conns, j \in Nat \ {0} :
       j <= Len(up[c]) => up[c][j] = (Consumed(c) + j - 1) \div ReqLen + 1
Unstarted ==
  /\ \A c \in Conns : cli[c] = "idle" => Consumed(c) = 0
  /\ \A j \in 1 .. Len(backlog) : Consumed(backlog[j]) = 0
  /\ \A i \in Slots : ~Live(i) => val[i].recvmsg.n = 0
Aligned(i) ==
  \E q \in Nat : Consumed(ConnOf(i)) = ReqLen * q + val[i].recvmsg.n
InStepWithBytes == \A i \in Slots : Live(i) => Aligned(i)

StreamInv == Streams /\ Unstarted /\ InStepWithBytes

LEMMA StreamNumbers ==
  ASSUME TypeInv, NEW c \in Conns
  PROVE  sent[c] \in Nat /\ up[c] \in Seq(1 .. MaxReq) /\ Len(up[c]) \in Nat /\ Consumed(c) \in Int
BY DEF TypeInv, ClientTypes, Consumed

LEMMA BufferNumbers ==
  ASSUME TypeInv, NEW i \in Slots
  PROVE  RightSlot(val[i]) /\ IsSlot(val[i]) /\ val[i].recvmsg.n \in 0 .. ReqLen
BY RightShape DEF TypeInv, SlotTypes

(* Connections and slots that a step leaves alone. *)
LEMMA StreamsOthers ==
  ASSUME TypeInv, Streams, NEW S,
         \A c \in Conns \ S : up'[c] = up[c] /\ sent'[c] = sent[c],
         \A c \in S \cap Conns : up'[c] = <<>> /\ sent'[c] \in Nat
  PROVE  Streams'
<1>1. ASSUME NEW c \in Conns
      PROVE  /\ Len(up'[c]) <= sent'[c]
             /\ \A j \in Nat \ {0} :
                  j <= Len(up'[c]) => up'[c][j] = (Consumed(c)' + j - 1) \div ReqLen + 1
  <2>1. CASE c \in S
    <3>1. up'[c] = <<>> /\ Len(up'[c]) = 0 /\ sent'[c] \in Nat
      BY <2>1
    <3>. QED BY <3>1
  <2>2. CASE c \notin S
    <3>1. up'[c] = up[c] /\ sent'[c] = sent[c]
      BY <2>2
    <3>. QED BY <3>1 DEF Streams, Consumed
  <2>. QED BY <2>1, <2>2
<1>. QED BY <1>1 DEF Streams

LEMMA StreamSame ==
  ASSUME PairInv, TypeInv, StreamInv, Streams', sock' = sock,
         \A c \in Conns : Consumed(c)' = Consumed(c),
         \A j \in 1 .. Len(backlog') : backlog'[j] \in Conns /\ Consumed(backlog'[j]) = 0,
         \A c \in Conns : cli'[c] = "idle" => cli[c] = "idle",
         \A i \in Slots : val'[i].srvfd = val[i].srvfd /\ val'[i].recvmsg.n = val[i].recvmsg.n
  PROVE  StreamInv'
<1>1. Unstarted'
  <2>1. (\A j \in 1 .. Len(backlog) : Consumed(backlog[j]) = 0)'
    BY DEF Consumed
  <2>. QED BY <2>1 DEF StreamInv, Unstarted, Live
<1>2. ASSUME NEW i \in Slots, Live(i)'
      PROVE  Aligned(i)'
  <2>1. Live(i)
    BY <1>2 DEF Live
  <2>2. PICK c \in Conns : c = ConnOf(i)
    BY <2>1, ConnOfSlot DEF TypeInv
  <2>3. ConnOf(i)' = c
    BY <2>2 DEF ConnOf
  <2>. QED BY <2>1, <2>2, <2>3 DEF StreamInv, InStepWithBytes, Aligned
<1>. QED BY <1>1, <1>2 DEF StreamInv, InStepWithBytes

(* recvmsg of one slot, and the bytes of its connection. *)
LEMMA StreamSlot ==
  ASSUME PairInv, PlaceInv, TypeInv, StreamInv, NEW i \in Slots, Live(i),
         UNCHANGED <<sock, backlog, cli>>, Streams',
         \A d \in Conns : d # ConnOf(i) => Consumed(d)' = Consumed(d),
         \A j \in Slots : j # i => val'[j] = val[j],
         val'[i].srvfd = val[i].srvfd, Aligned(i)'
  PROVE  StreamInv'
<1>. DEFINE c == ConnOf(i)
<1>1. c \in Conns /\ val[i].srvfd \in In!Fds /\ Open(val[i].srvfd)
  BY ConnOfSlot DEF TypeInv
<1>2. cli[c] # "idle" /\ \A j \in 1 .. Len(backlog) : backlog[j] # c
  BY <1>1 DEF PlaceInv, Distinct, Begun, ConnOf
<1>3. ASSUME NEW j \in Slots, Live(j), j # i
      PROVE  ConnOf(j) \in Conns /\ ConnOf(j) # c
  <2>1. ConnOf(j) \in Conns /\ val[j].srvfd \in In!Fds /\ Open(val[j].srvfd)
    BY <1>3, ConnOfSlot DEF TypeInv
  <2>2. val[j].srvfd # val[i].srvfd
    BY <1>3, LiveFd, OtherFd
  <2>. QED BY <1>1, <2>1, <2>2 DEF PlaceInv, Distinct, ConnOf
<1>. HIDE DEF c
<1>4. \A j \in 1 .. Len(backlog) : backlog[j] \in Conns
  BY DEF PairInv, Waiting
<1>5. Live(i)'
  BY DEF Live
<1>6. Unstarted'
  <2>1. \A d \in Conns : cli'[d] = "idle" => Consumed(d)' = 0
    BY <1>2 DEF StreamInv, Unstarted, c
  <2>2. (\A j \in 1 .. Len(backlog) : Consumed(backlog[j]) = 0)'
    BY <1>2, <1>4 DEF StreamInv, Unstarted, Consumed, c
  <2>3. \A j \in Slots : ~Live(j)' => val'[j].recvmsg.n = 0
    BY <1>5 DEF StreamInv, Unstarted, Live
  <2>. QED BY <2>1, <2>2, <2>3 DEF Unstarted
<1>7. ASSUME NEW j \in Slots, Live(j)'
      PROVE  Aligned(j)'
  <2>1. CASE j = i
    BY <2>1
  <2>2. CASE j # i
    <3>1. Live(j) /\ val'[j] = val[j] /\ ConnOf(j)' = ConnOf(j)
      BY <1>7, <2>2 DEF Live, ConnOf
    <3>2. Consumed(ConnOf(j))' = Consumed(ConnOf(j))
      BY <1>3, <2>2, <3>1 DEF Consumed, c
    <3>. QED BY <3>1, <3>2 DEF StreamInv, InStepWithBytes, Aligned
  <2>. QED BY <2>1, <2>2
<1>. QED BY <1>6, <1>7 DEF StreamInv, InStepWithBytes

(* Handing over a complete request leaves none of it, or all of it.        *)
LEMMA HandsSlot ==
  ASSUME TypeInv, NEW i \in Slots, NEW req, HandsOver(i, req)
  PROVE  /\ val'[i].srvfd = val[i].srvfd /\ val'[i].recvmsg.n \in {0, ReqLen}
         /\ val'[i].sendflag = val[i].sendflag /\ val'[i].sendmsg = val[i].sendmsg
         /\ \/ /\ sinq' = Append(sinq, Login(val[i].srvfd, req))
               /\ val'[i].recvflag = 0
            \/ sinq' = sinq /\ val'[i].recvflag = 1 /\ val'[i].recvmsg.req = req
         /\ \A j \in Slots : j # i => val'[j] = val[j]
<1>. DEFINE m == Login(val[i].srvfd, req)
<1>1. IsSlot(val[i]) /\ val \in [Slots -> SocketInfo]
  BY BufferNumbers DEF TypeInv, SlotTypes
<1>2. CASE SinqTakes(sinq, m)
  <2>1. val' = [val EXCEPT ![i] = In!WithRequest(@, 0, NoRequest, 0)] /\ sinq' = Append(sinq, m)
    BY <1>2 DEF HandsOver, Pushed
  <2>2. val'[i] = [srvfd |-> val[i].srvfd, recvflag |-> 0, sendflag |-> val[i].sendflag,
                   recvmsg |-> [n |-> 0, req |-> NoRequest], sendmsg |-> val[i].sendmsg]
    BY <1>1, <2>1, WithRequestRecord
  <2>. QED BY <1>1, <2>1, <2>2
<1>3. CASE ~SinqTakes(sinq, m)
  <2>1. val' = [val EXCEPT ![i] = In!WithRequest(@, ReqLen, req, 1)] /\ sinq' = sinq
    BY <1>3 DEF HandsOver, Pushed
  <2>2. val'[i] = [srvfd |-> val[i].srvfd, recvflag |-> 1, sendflag |-> val[i].sendflag,
                   recvmsg |-> [n |-> ReqLen, req |-> req], sendmsg |-> val[i].sendmsg]
    BY <1>1, <2>1, WithRequestRecord
  <2>. QED BY <1>1, <2>1, <2>2
<1>. QED BY <1>2, <1>3

LEMMA StreamRetries ==
  ASSUME PairInv, PlaceInv, TypeInv, StreamInv, NEW i \in Slots, Retries(i)
  PROVE  StreamInv'
<1>. DEFINE c == ConnOf(i)
<1>1. Live(i) /\ val[i].recvflag = 1 /\ UNCHANGED <<owners, bytes>>
  BY DEF Retries
<1>2. /\ val'[i].srvfd = val[i].srvfd /\ val'[i].recvmsg.n \in {0, ReqLen}
      /\ \A j \in Slots : j # i => val'[j] = val[j]
  BY HandsSlot DEF Retries
<1>3. val[i].recvmsg.n = ReqLen
  BY <1>1 DEF TypeInv, SlotTypes, RightSlot
<1>4. PICK q \in Nat : Consumed(c) = ReqLen * q + ReqLen
  BY <1>1, <1>3 DEF StreamInv, InStepWithBytes, Aligned
<1>5. ReqLen * q + ReqLen = ReqLen * (q + 1) + 0 /\ q + 1 \in Nat
  BY Lengths
<1>6. Consumed(c)' = Consumed(c) /\ ConnOf(i)' = c
  BY <1>1, <1>2 DEF Consumed, bytes, owners, ConnOf
<1>7. Aligned(i)'
  BY <1>2, <1>4, <1>5, <1>6 DEF Aligned
<1>8. Streams'
  BY <1>1 DEF StreamInv, Streams, Consumed, bytes
<1>. QED BY <1>1, <1>2, <1>7, <1>8, StreamSlot DEF owners, bytes, Consumed

(* What recv() takes, t units, goes from the head of the bytes that wait.  *)
LEMMA ReadsBytes ==
  ASSUME PairInv, TypeInv, StreamInv, NEW i \in Slots, NEW t \in Nat, ReadsUnits(i, t),
         NEW c \in Conns, c = ConnOf(i)
  PROVE  /\ t > 0 /\ t <= Len(up[c])
         /\ Consumed(c) \in Nat /\ Consumed(c)' = Consumed(c) + t
         /\ \A d \in Conns : d # c => up'[d] = up[d] /\ Consumed(d)' = Consumed(d)
         /\ Streams'
<1>1. t \in 1 .. Len(up[c])
  BY DEF ReadsUnits
<1>2. up \in [Conns -> Seq(1 .. MaxReq)] /\ up[c] \in Seq(1 .. MaxReq)
  BY <1>1 DEF TypeInv, ClientTypes
<1>3. up' = [up EXCEPT ![c] = SubSeq(up[c], t + 1, Len(up[c]))] /\ sent' = sent
  BY DEF ReadsUnits
<1>4. /\ up'[c] = SubSeq(up[c], t + 1, Len(up[c]))
      /\ \A d \in Conns : d # c => up'[d] = up[d]
  BY <1>1, <1>2, <1>3
<1>5. /\ Len(up'[c]) = Len(up[c]) - t
      /\ \A j \in 1 .. Len(up[c]) - t : up'[c][j] = up[c][t + j]
  BY <1>1, <1>2, <1>4, Rest
<1>6. sent[c] \in Nat /\ Len(up[c]) \in Nat /\ Len(up[c]) <= sent[c]
  BY <1>1, StreamNumbers DEF StreamInv, Streams
<1>7. Consumed(c) \in Nat /\ Consumed(c)' = Consumed(c) + t
  <2>1. Consumed(c)' = sent[c] - Len(up'[c])
    BY <1>3 DEF Consumed
  <2>. QED BY <1>1, <1>5, <1>6, <2>1 DEF Consumed
<1>8. \A d \in Conns : d # c => Consumed(d)' = Consumed(d)
  BY <1>3, <1>4 DEF Consumed
<1>9. ASSUME NEW d \in Conns
      PROVE  /\ Len(up'[d]) <= sent'[d]
             /\ \A j \in Nat \ {0} :
                  j <= Len(up'[d]) => up'[d][j] = (Consumed(d)' + j - 1) \div ReqLen + 1
  <2>1. CASE d = c
    <3>1. Len(up'[c]) <= sent'[c]
      BY <1>1, <1>3, <1>5, <1>6
    <3>2. ASSUME NEW j \in Nat \ {0}, j <= Len(up'[c])
          PROVE  up'[c][j] = (Consumed(c)' + j - 1) \div ReqLen + 1
      <4>1. t + j \in Nat \ {0} /\ t + j <= Len(up[c]) /\ j \in 1 .. Len(up[c]) - t
        BY <1>1, <1>5, <1>6, <3>2
      <4>2. up[c][t + j] = (Consumed(c) + (t + j) - 1) \div ReqLen + 1
        BY <1>1, <4>1 DEF StreamInv, Streams
      <4>3. Consumed(c) + (t + j) - 1 = Consumed(c)' + j - 1
        BY <1>7
      <4>. QED BY <1>5, <4>1, <4>2, <4>3
    <3>. QED BY <2>1, <3>1, <3>2
  <2>2. CASE d # c
    <3>1. up'[d] = up[d] /\ sent'[d] = sent[d] /\ Consumed(d)' = Consumed(d)
      BY <1>3, <1>4, <1>8, <2>2
    <3>. QED BY <3>1 DEF StreamInv, Streams
  <2>. QED BY <2>1, <2>2
<1>10. Streams'
  BY <1>9 DEF Streams
<1>. QED BY <1>1, <1>4, <1>7, <1>8, <1>10

LEMMA StreamReads ==
  ASSUME PairInv, PlaceInv, TypeInv, StreamInv, NEW i \in Slots, NEW t \in Nat, ReadsUnits(i, t)
  PROVE  StreamInv'
<1>. PICK c \in Conns : c = ConnOf(i) /\ Live(i)
  BY ConnOfSlot DEF ReadsUnits, TypeInv
<1>. DEFINE n == val[i].recvmsg.n + t
            req == <<c, up[c][t]>>
<1>1. /\ Streams' /\ Consumed(c)' = Consumed(c) + t
      /\ \A d \in Conns : d # c => Consumed(d)' = Consumed(d)
  BY ReadsBytes
<1>2. IF n = ReqLen THEN HandsOver(i, req)
      ELSE val' = [val EXCEPT ![i] = In!WithRequest(val[i], n, req, 0)]
  BY DEF ReadsUnits
<1>3. PICK q \in Nat : Consumed(c) = ReqLen * q + val[i].recvmsg.n
  BY DEF StreamInv, InStepWithBytes, Aligned
<1>4. val[i].recvmsg.n \in 0 .. ReqLen /\ IsSlot(val[i]) /\ ReqLen \in Nat \ {0}
  BY BufferNumbers, Lengths
<1>5. Consumed(c)' = ReqLen * q + n /\ ReqLen * q \in Nat
  BY <1>1, <1>3, <1>4
<1>. HIDE DEF n, req
<1>6. /\ val'[i].srvfd = val[i].srvfd
      /\ \A j \in Slots : j # i => val'[j] = val[j]
      /\ val'[i].recvmsg.n = n \/ (n = ReqLen /\ val'[i].recvmsg.n = 0)
  <2>1. CASE n = ReqLen
    BY <1>2, <2>1, HandsSlot
  <2>2. CASE n # ReqLen
    <3>1. In!WithRequest(val[i], n, req, 0).srvfd = val[i].srvfd
      BY <1>4, SlotWithRequest
    <3>2. In!WithRequest(val[i], n, req, 0).recvmsg.n = n
      BY <1>4, WithRequestRecord
    <3>. QED BY <1>2, <2>2, <3>1, <3>2 DEF TypeInv, SlotTypes
  <2>. QED BY <2>1, <2>2
<1>7. ConnOf(i)' = c
  BY <1>6 DEF ReadsUnits, owners, ConnOf
<1>8. Aligned(i)'
  <2>1. CASE val'[i].recvmsg.n = n
    BY <1>5, <1>7, <2>1 DEF Aligned
  <2>2. CASE n = ReqLen /\ val'[i].recvmsg.n = 0
    <3>1. ReqLen * q + n = ReqLen * (q + 1) + 0 /\ q + 1 \in Nat
      BY <1>4, <2>2
    <3>. QED BY <1>5, <1>7, <2>2, <3>1 DEF Aligned
  <2>. QED BY <1>6, <2>1, <2>2
<1>. QED BY <1>1, <1>6, <1>8, StreamSlot DEF ReadsUnits, owners

(* A request whose last unit is read is the one after those read before.   *)
LEMMA ReadsWhole ==
  ASSUME PairInv, TypeInv, StreamInv, NEW i \in Slots, NEW t \in Nat, ReadsUnits(i, t),
         val[i].recvmsg.n + t = ReqLen
  PROVE  up[ConnOf(i)][t] = RequestsRead(ConnOf(i)) + 1
<1>. PICK c \in Conns : c = ConnOf(i) /\ Live(i)
  BY ConnOfSlot DEF ReadsUnits, TypeInv
<1>. DEFINE n == val[i].recvmsg.n
<1>1. t > 0 /\ t <= Len(up[c])
  BY ReadsBytes
<1>2. PICK q \in Nat : Consumed(c) = ReqLen * q + n
  BY <1>1 DEF StreamInv, InStepWithBytes, Aligned
<1>3. n \in 0 .. ReqLen /\ ReqLen \in Nat \ {0}
  BY BufferNumbers, Lengths
<1>4. n \in 0 .. ReqLen - 1
  BY <1>1, <1>3
<1>5. up[c][t] = (Consumed(c) + t - 1) \div ReqLen + 1
  BY <1>1 DEF StreamInv, Streams
<1>. HIDE DEF n
<1>6. RequestsRead(c) = q
  <2>1. (ReqLen * q + n) \div ReqLen = q
    BY <1>3, <1>4, Quotient
  <2>2. RequestsRead(c) = Consumed(c) \div ReqLen
    BY DEF RequestsRead, Consumed
  <2>. QED BY <1>2, <2>1, <2>2
<1>7. Consumed(c) + t - 1 = ReqLen * q + (ReqLen - 1)
  <2>1. ReqLen * q \in Nat
    BY <1>3
  <2>. QED BY <1>2, <1>3, <2>1 DEF n
<1>8. (ReqLen * q + (ReqLen - 1)) \div ReqLen = q
  <2>1. ReqLen - 1 \in 0 .. ReqLen - 1
    BY <1>3
  <2>. QED BY <1>3, <2>1, Quotient
<1>. QED BY <1>5, <1>6, <1>7, <1>8

LEMMA StreamAccepts ==
  ASSUME PairInv, PlaceInv, TypeInv, StreamInv, AcceptsOne
  PROVE  StreamInv'
<1>. DEFINE fd == In!NewFd
<1>. PICK c : c = backlog[1]
  OBVIOUS
<1>1. Accepts /\ UNCHANGED <<cli, bytes>>
  BY DEF AcceptsOne
<1>2. /\ Len(backlog) \in Nat \ {0} /\ Len(backlog') = Len(backlog) - 1
      /\ \A j \in 1 .. Len(backlog') : backlog'[j] = backlog[j + 1]
      /\ c \in Conns /\ 1 \in 1 .. Len(backlog)
      /\ \E e \in In!Fds : sock[e] = In!Closed
      /\ fd \in In!Fds /\ ~Open(fd)
      /\ sock' = [e \in In!Fds |-> IF e = fd THEN c ELSE sock[e]]
  BY <1>1, AcceptForm
<1>3. In!Idle = -1 \/ (In!Idle \in Slots /\ fd = FdOf(In!Idle))
  BY <1>2, NewPair DEF PairInv
<1>. HIDE DEF fd
<1>4. ASSUME NEW j \in Slots
      PROVE  \/ j = In!Idle /\ ~Live(j) /\ val'[j].srvfd = fd /\ val'[j].recvmsg = val[j].recvmsg
             \/ val'[j] = val[j]
  <2>1. CASE In!Idle = -1
    BY <1>1, <2>1 DEF Accepts, In!SlotTaken
  <2>2. CASE In!Idle # -1
    <3>1. val' = [val EXCEPT ![In!Idle] = In!TakenBy(val[In!Idle], fd)]
      BY <1>1, <2>2 DEF Accepts, In!SlotTaken, fd
    <3>2. ~Live(In!Idle)
      BY <1>2, <1>3, <2>2 DEF PairInv, Paired
    <3>3. CASE j = In!Idle
      <4>1. In!TakenBy(val[j], fd).srvfd = fd /\ In!TakenBy(val[j], fd).recvmsg = val[j].recvmsg
        BY BufferNumbers, TakenByRecord
      <4>. QED BY <3>1, <3>2, <3>3, <4>1 DEF TypeInv, SlotTypes
    <3>4. CASE j # In!Idle
      BY <3>1, <3>4 DEF TypeInv, SlotTypes
    <3>. QED BY <3>3, <3>4
  <2>. QED BY <2>1, <2>2
<1>5. Streams'
  BY <1>1 DEF StreamInv, Streams, Consumed, bytes
<1>6. \A d : Consumed(d)' = Consumed(d)
  BY <1>1 DEF Consumed, bytes
<1>7. \A j \in 1 .. Len(backlog') : Consumed(backlog'[j]) = 0
  <2>1. \A j \in 1 .. Len(backlog') : j + 1 \in 1 .. Len(backlog)
    BY <1>2
  <2>. QED BY <1>2, <2>1 DEF StreamInv, Unstarted
<1>8. Unstarted'
  <2>1. (\A j \in 1 .. Len(backlog) : Consumed(backlog[j]) = 0)'
    BY <1>1, <1>7 DEF Consumed, bytes
  <2>2. \A d \in Conns : cli'[d] = "idle" => Consumed(d)' = 0
    BY <1>1, <1>6 DEF StreamInv, Unstarted
  <2>3. \A j \in Slots : ~Live(j)' => val'[j].recvmsg.n = 0
    BY <1>4 DEF StreamInv, Unstarted, Live
  <2>. QED BY <2>1, <2>2, <2>3 DEF Unstarted
<1>9. ASSUME NEW j \in Slots, Live(j)'
      PROVE  Aligned(j)'
  <2>1. CASE val'[j] = val[j]
    <3>1. Live(j) /\ val[j].srvfd \in In!Fds /\ Open(val[j].srvfd)
      BY <1>9, <2>1, ConnOfSlot DEF Live, TypeInv
    <3>2. ConnOf(j)' = ConnOf(j)
      BY <1>2, <2>1, <3>1 DEF ConnOf
    <3>. QED BY <1>6, <2>1, <3>1, <3>2 DEF StreamInv, InStepWithBytes, Aligned, Consumed
  <2>2. CASE ~Live(j) /\ val'[j].srvfd = fd /\ val'[j].recvmsg = val[j].recvmsg
    <3>1. ConnOf(j)' = c
      BY <1>2, <2>2 DEF ConnOf
    <3>2. Consumed(c)' = 0 /\ val'[j].recvmsg.n = 0
      BY <1>2, <1>6, <2>2 DEF StreamInv, Unstarted
    <3>3. 0 = ReqLen * 0 + 0
      BY Lengths
    <3>. QED BY <3>1, <3>2, <3>3 DEF Aligned
  <2>. QED BY <1>4, <2>1, <2>2
<1>. QED BY <1>5, <1>8, <1>9 DEF StreamInv, InStepWithBytes

LEMMA StreamCloses ==
  ASSUME PairInv, PlaceInv, TypeInv, StreamInv,
         NEW i \in Slots, NEW fd \in In!Fds, ClosesOne(fd, i)
  PROVE  StreamInv'
<1>1. /\ val[i].srvfd = fd /\ sock' = [sock EXCEPT ![fd] = In!Closed]
      /\ val' = [val EXCEPT ![i] = In!Erased]
      /\ up' = [up EXCEPT ![sock[fd]] = <<>>]
      /\ UNCHANGED <<backlog, cli, sent>>
  BY DEF ClosesOne, Closes, In!CloseSlot
<1>2. Live(i)
  BY <1>1, FdRange DEF Live
<1>3. PICK c \in Conns : c = ConnOf(i) /\ c = sock[fd] /\ Open(fd)
  BY <1>1, <1>2, ConnOfSlot DEF TypeInv, ConnOf
<1>4. /\ up'[c] = <<>> /\ sent' = sent
      /\ \A d \in Conns : d # c => up'[d] = up[d]
  BY <1>1, <1>3 DEF TypeInv, ClientTypes
<1>5. Streams'
  <2>. DEFINE S == {c}
  <2>1. \A d \in Conns \ S : up'[d] = up[d] /\ sent'[d] = sent[d]
    BY <1>4
  <2>2. \A d \in S \cap Conns : up'[d] = <<>> /\ sent'[d] \in Nat
    BY <1>4, StreamNumbers
  <2>. HIDE DEF S
  <2>. QED BY <2>1, <2>2, StreamsOthers DEF StreamInv
<1>6. \A d \in Conns : d # c => Consumed(d)' = Consumed(d)
  BY <1>4 DEF Consumed
<1>7. cli[c] # "idle" /\ \A j \in 1 .. Len(backlog) : backlog[j] \in Conns /\ backlog[j] # c
  BY <1>3 DEF PlaceInv, Distinct, Begun, PairInv, Waiting
<1>8. \A j \in Slots : val'[j] = IF j = i THEN In!Erased ELSE val[j]
  BY <1>1 DEF TypeInv, SlotTypes
<1>9. Unstarted'
  <2>1. (\A j \in 1 .. Len(backlog) : Consumed(backlog[j]) = 0)'
    BY <1>1, <1>6, <1>7 DEF StreamInv, Unstarted, Consumed
  <2>2. \A d \in Conns : cli'[d] = "idle" => Consumed(d)' = 0
    BY <1>1, <1>6, <1>7 DEF StreamInv, Unstarted
  <2>3. In!Erased.recvmsg.n = 0
    BY DEF In!Erased
  <2>4. \A j \in Slots : ~Live(j)' => val'[j].recvmsg.n = 0
    BY <1>8, <2>3 DEF StreamInv, Unstarted, Live
  <2>. QED BY <2>1, <2>2, <2>4 DEF Unstarted
<1>10. ASSUME NEW j \in Slots, Live(j)'
       PROVE  Aligned(j)'
  <2>1. j # i /\ val'[j] = val[j] /\ Live(j)
    BY <1>8, <1>10, ErasedSlot DEF Live
  <2>2. val[j].srvfd \in In!Fds /\ val[j].srvfd # fd /\ Open(val[j].srvfd)
    BY <1>1, <1>2, <2>1, LiveFd, OtherFd
  <2>3. PICK d \in Conns : d = ConnOf(j)
    BY <2>1, ConnOfSlot DEF TypeInv
  <2>4. d # c
    BY <1>3, <2>2, <2>3 DEF PlaceInv, Distinct, ConnOf
  <2>5. ConnOf(j)' = d
    BY <1>1, <2>1, <2>2, <2>3 DEF ConnOf, PairInv, Sockets
  <2>. QED BY <1>6, <2>1, <2>3, <2>4, <2>5 DEF StreamInv, InStepWithBytes, Aligned
<1>. QED BY <1>5, <1>9, <1>10 DEF StreamInv, InStepWithBytes

LEMMA StreamEnds ==
  ASSUME TypeInv, StreamInv, EndsAll
  PROVE  StreamInv'
<1>1. PICK S : /\ up' = [c \in Conns |-> IF c \in S THEN <<>> ELSE up[c]]
               /\ cli' = [c \in Conns |-> IF c \in S THEN "gone" ELSE cli[c]]
  BY DEF EndsAll, In!Ends
<1>2. /\ backlog' = <<>> /\ sent' = sent
      /\ val' = [i \in Slots |-> In!Erased]
  BY Numbers DEF EndsAll, In!Ends, In!AllErased
<1>3. Streams'
  <2>1. \A d \in Conns \ S : up'[d] = up[d] /\ sent'[d] = sent[d]
    BY <1>1, <1>2
  <2>2. \A d \in S \cap Conns : up'[d] = <<>> /\ sent'[d] \in Nat
    BY <1>1, <1>2, StreamNumbers
  <2>. QED BY <2>1, <2>2, StreamsOthers DEF StreamInv
<1>4. \A d \in Conns : cli'[d] = "idle" => Consumed(d)' = 0
  BY <1>1, <1>2 DEF StreamInv, Unstarted, Consumed
<1>5. In!Erased.recvmsg.n = 0 /\ In!Erased.srvfd = -1
  BY DEF In!Erased
<1>6. Unstarted' /\ InStepWithBytes'
  BY <1>2, <1>4, <1>5 DEF Unstarted, InStepWithBytes, Live
<1>. QED BY <1>3, <1>6 DEF StreamInv

LEMMA BacklogStays ==
  ASSUME PairInv, StreamInv
  PROVE  \A j \in 1 .. Len(backlog) : backlog[j] \in Conns /\ Consumed(backlog[j]) = 0
BY DEF PairInv, Waiting, StreamInv, Unstarted

LEMMA StreamAsks ==
  ASSUME PairInv, TypeInv, StreamInv, NEW c \in Conns, Asks(c)
  PROVE  StreamInv'
<1>1. /\ sent' = [sent EXCEPT ![c] = sent[c] + 1]
      /\ up' = [up EXCEPT ![c] = Append(up[c], sent[c] \div ReqLen + 1)]
      /\ cli' = [cli EXCEPT ![c] = IF sent'[c] % ReqLen = 0 THEN "recv" ELSE "send"]
      /\ UNCHANGED <<val, sock, backlog>>
  BY DEF Asks, Cli!SendUnit
<1>2. sent[c] \in Nat /\ up[c] \in Seq(1 .. MaxReq) /\ Len(up[c]) \in Nat
  BY StreamNumbers
<1>3. /\ sent'[c] = sent[c] + 1 /\ up'[c] = Append(up[c], sent[c] \div ReqLen + 1)
      /\ \A d \in Conns : d # c => sent'[d] = sent[d] /\ up'[d] = up[d] /\ cli'[d] = cli[d]
      /\ cli'[c] # "idle"
  BY <1>1 DEF TypeInv, ClientTypes
<1>4. /\ Len(up'[c]) = Len(up[c]) + 1
      /\ \A j \in 1 .. Len(up[c]) : up'[c][j] = up[c][j]
      /\ up'[c][Len(up[c]) + 1] = sent[c] \div ReqLen + 1
  BY <1>2, <1>3
<1>5. ASSUME NEW d \in Conns
      PROVE  Consumed(d)' = Consumed(d)
  <2>1. CASE d = c
    <3>1. Consumed(c)' = sent'[c] - Len(up'[c])
      BY DEF Consumed
    <3>2. sent'[c] - Len(up'[c]) = sent[c] - Len(up[c])
      BY <1>2, <1>3, <1>4
    <3>. QED BY <2>1, <3>1, <3>2 DEF Consumed
  <2>2. CASE d # c
    BY <1>3, <2>2 DEF Consumed
  <2>. QED BY <2>1, <2>2
<1>6. ASSUME NEW d \in Conns
      PROVE  /\ Len(up'[d]) <= sent'[d]
             /\ \A j \in Nat \ {0} :
                  j <= Len(up'[d]) => up'[d][j] = (Consumed(d)' + j - 1) \div ReqLen + 1
  <2>1. CASE d = c
    <3>1. Len(up'[c]) <= sent'[c]
      BY <1>2, <1>3, <1>4 DEF StreamInv, Streams
    <3>2. ASSUME NEW j \in Nat \ {0}, j <= Len(up'[c])
          PROVE  up'[c][j] = (Consumed(c)' + j - 1) \div ReqLen + 1
      <4>1. CASE j = Len(up[c]) + 1
        <5>1. Consumed(c)' + j - 1 = sent[c]
          BY <1>2, <1>5, <4>1 DEF Consumed
        <5>. QED BY <1>4, <4>1, <5>1
      <4>2. CASE j # Len(up[c]) + 1
        <5>1. j \in 1 .. Len(up[c])
          BY <1>2, <1>4, <3>2, <4>2
        <5>. QED BY <1>4, <1>5, <5>1 DEF StreamInv, Streams
      <4>. QED BY <4>1, <4>2
    <3>. QED BY <2>1, <3>1, <3>2
  <2>2. CASE d # c
    BY <1>3, <1>5, <2>2 DEF StreamInv, Streams
  <2>. QED BY <2>1, <2>2
<1>7. Streams'
  BY <1>6 DEF Streams
<1>8. \A j \in 1 .. Len(backlog') : backlog'[j] \in Conns /\ Consumed(backlog'[j]) = 0
  BY <1>1, BacklogStays
<1>. QED BY <1>1, <1>3, <1>5, <1>7, <1>8, StreamSame

LEMMA StreamKeeps ==
  ASSUME Streams, UNCHANGED <<up, sent>>
  PROVE  Streams' /\ \A c \in Conns : Consumed(c)' = Consumed(c)
BY DEF Streams, Consumed

LEMMA StreamBegins ==
  ASSUME PairInv, TypeInv, StreamInv, NEW c \in Conns, Begins(c)
  PROVE  StreamInv'
<1>1. /\ cli[c] = "idle" /\ cli' = [cli EXCEPT ![c] = "send"]
      /\ backlog' = Append(backlog, c)
      /\ UNCHANGED <<val, sock, up, sent>>
  BY DEF Begins, Connect, Cli!Connect, bytes
<1>2. backlog \in Seq(Conns)
  BY DEF PairInv, Waiting
<1>3. \A j \in 1 .. Len(backlog') : backlog'[j] = c \/ \E k \in 1 .. Len(backlog) : backlog'[j] = backlog[k]
  BY <1>1, <1>2
<1>4. Consumed(c) = 0
  BY <1>1 DEF StreamInv, Unstarted
<1>5. \A j \in 1 .. Len(backlog') : backlog'[j] \in Conns /\ Consumed(backlog'[j]) = 0
  BY <1>3, <1>4, BacklogStays
<1>6. \A d \in Conns : cli'[d] = "idle" => cli[d] = "idle"
  BY <1>1 DEF TypeInv, ClientTypes
<1>7. Streams' /\ \A d \in Conns : Consumed(d)' = Consumed(d)
  BY <1>1, StreamKeeps DEF StreamInv
<1>. QED BY <1>1, <1>5, <1>6, <1>7, StreamSame

(* A step that does not touch the bytes or recvmsg of any slot. *)
LEMMA StreamRests ==
  ASSUME PairInv, TypeInv, StreamInv, UNCHANGED <<up, sent, sock, backlog>>,
         \A c \in Conns : cli'[c] = "idle" => cli[c] = "idle",
         \A i \in Slots : val'[i].srvfd = val[i].srvfd /\ val'[i].recvmsg = val[i].recvmsg
  PROVE  StreamInv'
<1>1. Streams' /\ \A d \in Conns : Consumed(d)' = Consumed(d)
  BY StreamKeeps DEF StreamInv
<1>2. \A j \in 1 .. Len(backlog') : backlog'[j] \in Conns /\ Consumed(backlog'[j]) = 0
  BY BacklogStays
<1>. QED BY <1>1, <1>2, StreamSame

LEMMA SendSlot ==
  ASSUME TypeInv, NEW i \in Slots, NEW k \in Nat, SendsUnits(i, k)
  PROVE  /\ \A j \in Slots : /\ val'[j].srvfd = val[j].srvfd
                             /\ val'[j].recvmsg = val[j].recvmsg
                             /\ val'[j].recvflag = val[j].recvflag
                             /\ j # i => val'[j] = val[j]
         /\ LET n == val[i].sendmsg.n + k IN
            \/ n = RspLen /\ val'[i].sendflag = 0
            \/ /\ n < RspLen /\ val'[i].sendflag = 1
               /\ val'[i].sendmsg = [n |-> n, req |-> val[i].sendmsg.req]
<1>. DEFINE n == val[i].sendmsg.n + k
<1>1. val' = [val EXCEPT ![i] = IF n = RspLen THEN In!AllSent(val[i]) ELSE In!PartSent(val[i], n)]
  BY DEF SendsUnits
<1>2. RightSlot(val[i]) /\ IsSlot(val[i]) /\ val \in [Slots -> SocketInfo]
  BY BufferNumbers DEF TypeInv, SlotTypes
<1>3. /\ val[i].sendmsg = [n |-> val[i].sendmsg.n, req |-> val[i].sendmsg.req]
      /\ n \in 0 .. RspLen /\ RspLen \in Nat
  BY <1>2, RightShape, Lengths DEF SendsUnits
<1>. HIDE DEF n
<1>4. CASE n = RspLen
  <2>1. val'[i] = [srvfd |-> val[i].srvfd, recvflag |-> val[i].recvflag, sendflag |-> 0,
                   recvmsg |-> val[i].recvmsg, sendmsg |-> [n |-> 0, req |-> NoRequest]]
    BY <1>1, <1>2, <1>4, AllSentRecord
  <2>. QED BY <1>1, <1>2, <1>4, <2>1 DEF n
<1>5. CASE n # RspLen
  <2>1. val'[i] = [srvfd |-> val[i].srvfd, recvflag |-> val[i].recvflag,
                   sendflag |-> val[i].sendflag, recvmsg |-> val[i].recvmsg,
                   sendmsg |-> [n |-> n, req |-> val[i].sendmsg.req]]
    BY <1>1, <1>2, <1>3, <1>5, PartSentRecord
  <2>2. val[i].sendflag = 1 /\ n < RspLen
    BY <1>3, <1>5 DEF SendsUnits
  <2>. QED BY <1>1, <1>2, <2>1, <2>2 DEF n
<1>. QED BY <1>4, <1>5

LEMMA TakeSlot ==
  ASSUME TypeInv, NEW i \in Slots, TakesAnswer(i)
  PROVE  /\ \A j \in Slots : /\ val'[j].srvfd = val[j].srvfd
                             /\ val'[j].recvmsg = val[j].recvmsg
                             /\ val'[j].recvflag = val[j].recvflag
                             /\ j # i => val'[j] = val[j]
         /\ val'[i].sendflag = 1 /\ val'[i].sendmsg = [n |-> 0, req |-> Head(mulq[i])]
<1>. DEFINE req == Head(mulq[i])
<1>1. val' = [val EXCEPT ![i] = In!WithAnswer(val[i], req)]
  BY DEF TakesAnswer
<1>2. IsSlot(val[i]) /\ val \in [Slots -> SocketInfo]
  BY BufferNumbers DEF TypeInv, SlotTypes
<1>. HIDE DEF req
<1>3. val'[i] = [srvfd |-> val[i].srvfd, recvflag |-> val[i].recvflag, sendflag |-> 1,
                 recvmsg |-> val[i].recvmsg, sendmsg |-> [n |-> 0, req |-> req]]
  BY <1>1, <1>2, WithAnswerRecord
<1>. QED BY <1>1, <1>2, <1>3 DEF req

LEMMA StreamStep ==
  ASSUME PairInv, PlaceInv, TypeInv, StreamInv, FlowStep
  PROVE  StreamInv'
<1>1. CASE Idles \/ Clears \/ Pops \/ Drops
  BY <1>1, StreamRests DEF Idles, Clears, Pops, Drops, owners, bytes
<1>2. ASSUME NEW i \in Slots, TakesAnswer(i) \/ PutsAnswer(i)
      PROVE  StreamInv'
  <2>1. UNCHANGED <<up, sent, sock, backlog, cli>>
    BY <1>2 DEF TakesAnswer, PutsAnswer, owners, bytes
  <2>2. \A j \in Slots : val'[j].srvfd = val[j].srvfd /\ val'[j].recvmsg = val[j].recvmsg
    BY <1>2, TakeSlot DEF PutsAnswer
  <2>. QED BY <2>1, <2>2, StreamRests
<1>3. ASSUME NEW i \in Slots, NEW k \in Nat, SendsUnits(i, k)
      PROVE  StreamInv'
  <2>1. UNCHANGED <<up, sent, sock, backlog, cli>>
    BY <1>3 DEF SendsUnits, owners
  <2>. QED BY <1>3, <2>1, SendSlot, StreamRests
<1>4. ASSUME NEW c \in Conns, GoesOn(c)
      PROVE  StreamInv'
  <2>1. UNCHANGED <<up, sent, sock, backlog, val>>
    BY <1>4 DEF GoesOn, bytes
  <2>2. \A d \in Conns : cli'[d] = "idle" => cli[d] = "idle"
    BY <1>4 DEF GoesOn, TypeInv, ClientTypes
  <2>. QED BY <2>1, <2>2, StreamRests
<1>. QED
  BY <1>1, <1>2, <1>3, <1>4, StreamRetries, StreamReads, StreamAccepts, StreamCloses,
     StreamEnds, StreamAsks, StreamBegins DEF FlowStep, InFlow

LEMMA StreamInit ==
  ASSUME Init
  PROVE  StreamInv
<1>1. /\ cli = [c \in Conns |-> "idle"] /\ sent = [c \in Conns |-> 0]
      /\ up = [c \in Conns |-> <<>>] /\ backlog = <<>>
  BY DEF Init, Cli!CliInit
<1>2. val = [i \in Slots |-> In!Erased]
  BY Numbers DEF Init, In!InInit, In!AllErased
<1>3. In!Erased.recvmsg.n = 0 /\ In!Erased.srvfd = -1
  BY DEF In!Erased
<1>4. \A c \in Conns : Len(up[c]) = 0 /\ sent[c] = 0
  BY <1>1
<1>5. Streams
  BY <1>4 DEF Streams
<1>6. Unstarted
  BY <1>1, <1>2, <1>3, <1>4 DEF Unstarted, Consumed
<1>7. InStepWithBytes
  BY <1>2, <1>3 DEF InStepWithBytes, Live
<1>. QED BY <1>5, <1>6, <1>7 DEF StreamInv

-----------------------------------------------------------------------------
(* The units of an answer at the clients *)

UnitSet(req) == UNION {{c} \X {j \in 1 .. Len(inbox[c]) : inbox[c][j] = req} : c \in Conns}

LEMMA Units ==
  ASSUME NEW req
  PROVE  /\ UnitsOf(req) = Cardinality(UnitSet(req))
         /\ \A u : u \in UnitSet(req) <=>
              \E c \in Conns : \E j \in 1 .. Len(inbox[c]) : u = <<c, j>> /\ inbox[c][j] = req
<1>1. ASSUME NEW u
      PROVE  u \in UnitSet(req) <=>
               \E c \in Conns : u \in {c} \X {j \in 1 .. Len(inbox[c]) : inbox[c][j] = req}
  BY DEF UnitSet
<1>2. ASSUME NEW u, NEW c \in Conns
      PROVE  u \in {c} \X {j \in 1 .. Len(inbox[c]) : inbox[c][j] = req} <=>
               \E j \in 1 .. Len(inbox[c]) : u = <<c, j>> /\ inbox[c][j] = req
  OBVIOUS
<1>. QED BY <1>1, <1>2 DEF UnitsOf, UnitSet

LEMMA UnitsCount ==
  ASSUME TypeInv, NEW req
  PROVE  /\ IsFiniteSet(UnitSet(req)) /\ UnitsOf(req) \in Nat
         /\ UnitsOf(req) = 0 <=> UnitSet(req) = {}
<1>. DEFINE P(c) == {c} \X {j \in 1 .. Len(inbox[c]) : inbox[c][j] = req}
            S == {P(c) : c \in Conns}
            f == [c \in Conns |-> P(c)]
<1>1. IsFiniteSet(S)
  <2>1. f \in Surjection(Conns, S)
    BY DEF Surjection
  <2>2. IsFiniteSet(Conns)
    BY GameAssumption DEF GameAssumption
  <2>. HIDE DEF S, f
  <2>. QED BY <2>1, <2>2, FS_Surjection
<1>2. ASSUME NEW c \in Conns
      PROVE  IsFiniteSet(P(c))
  <2>1. Len(inbox[c]) \in Nat
    BY DEF TypeInv, ClientTypes
  <2>2. IsFiniteSet(1 .. Len(inbox[c]))
    BY <2>1, FS_Interval
  <2>. DEFINE T == {j \in 1 .. Len(inbox[c]) : inbox[c][j] = req}
  <2>3. IsFiniteSet(T)
    BY <2>2, FS_Subset
  <2>4. IsFiniteSet({c})
    BY FS_Singleton
  <2>. HIDE DEF T
  <2>5. IsFiniteSet({c} \X T)
    BY <2>3, <2>4, FS_Product
  <2>. QED BY <2>5 DEF T
<1>3. IsFiniteSet(UNION S)
  BY <1>1, <1>2, FS_UNION
<1>4. IsFiniteSet(UnitSet(req))
  BY <1>3 DEF UnitSet
<1>. HIDE DEF P, S, f
<1>. QED BY <1>4, Units, FS_CardinalityType, FS_EmptySet

LEMMA UnitsStay ==
  ASSUME inbox' = inbox, NEW req
  PROVE  UnitsOf(req)' = UnitsOf(req)
BY DEF UnitsOf

LEMMA Concat ==
  ASSUME NEW M, NEW s \in Seq(M), NEW t \in Seq(M), NEW l, l = Len(s), NEW k, k = Len(t)
  PROVE  /\ Len(s \o t) = l + k
         /\ \A j \in 1 .. l + k : (s \o t)[j] = IF j <= l THEN s[j] ELSE t[j - l]
OBVIOUS

(* A send() adds units to one connection, all of the same answer.          *)
LEMMA UnitsGrow ==
  ASSUME PairInv, TypeInv, NEW i \in Slots, NEW k \in Nat, SendsUnits(i, k),
         NEW r, r = val[i].sendmsg.req
  PROVE  /\ UnitsOf(r)' = UnitsOf(r) + k
         /\ \A req : req # r => UnitsOf(req)' = UnitsOf(req)
<1>. PICK c \in Conns : c = ConnOf(i)
  BY ConnOfSlot DEF SendsUnits, TypeInv
<1>. PICK L \in Nat : L = Len(inbox[c])
  BY DEF TypeInv, ClientTypes
<1>1. /\ inbox \in [Conns -> Seq(Requests)] /\ inbox[c] \in Seq(Requests) /\ r \in Requests
  BY DEF SendsUnits, TypeInv, ClientTypes, SlotTypes, RightSlot
<1>. DEFINE more == [j \in 1 .. k |-> r]
<1>2. inbox' = [inbox EXCEPT ![c] = inbox[c] \o more]
  BY DEF SendsUnits
<1>3. more \in Seq(Requests) /\ Len(more) = k /\ \A j \in 1 .. k : more[j] = r
  BY <1>1
<1>. HIDE DEF more
<1>4. /\ inbox'[c] = inbox[c] \o more
      /\ \A d \in Conns : d # c => inbox'[d] = inbox[d]
  BY <1>1, <1>2
<1>5. /\ Len(inbox'[c]) = L + k
      /\ \A j \in 1 .. L : inbox'[c][j] = inbox[c][j]
      /\ \A j \in L + 1 .. L + k : inbox'[c][j] = r
  <2>1. /\ Len(inbox'[c]) = L + k
        /\ \A j \in 1 .. L + k : inbox'[c][j] = IF j <= L THEN inbox[c][j] ELSE more[j - L]
    <3>. PICK s \in Seq(Requests), t \in Seq(Requests) : s = inbox[c] /\ t = more
      BY <1>1, <1>3
    <3>1. inbox'[c] = s \o t /\ L = Len(s) /\ k = Len(t)
      BY <1>3, <1>4
    <3>2. /\ Len(s \o t) = L + k
          /\ \A j \in 1 .. L + k : (s \o t)[j] = IF j <= L THEN s[j] ELSE t[j - L]
      BY <3>1, Concat
    <3>. QED BY <3>1, <3>2
  <2>2. ASSUME NEW j \in 1 .. L
        PROVE  inbox'[c][j] = inbox[c][j]
    <3>1. j \in 1 .. L + k /\ j <= L
      OBVIOUS
    <3>. QED BY <2>1, <3>1
  <2>3. ASSUME NEW j \in L + 1 .. L + k
        PROVE  inbox'[c][j] = r
    <3>1. j \in 1 .. L + k /\ ~(j <= L) /\ j - L \in 1 .. k
      OBVIOUS
    <3>. QED BY <1>3, <2>1, <3>1
  <2>. QED BY <2>1, <2>2, <2>3
<1>6. ASSUME NEW req, NEW u
      PROVE  u \in UnitSet(req)' <=>
               \/ u \in UnitSet(req)
               \/ req = r /\ \E j \in L + 1 .. L + k : u = <<c, j>>
  <2>1. u \in UnitSet(req)' <=>
          \E d \in Conns : \E j \in 1 .. Len(inbox'[d]) : u = <<d, j>> /\ inbox'[d][j] = req
    <3>1. ASSUME NEW d \in Conns
          PROVE  u \in {d} \X {j \in 1 .. Len(inbox'[d]) : inbox'[d][j] = req} <=>
                   \E j \in 1 .. Len(inbox'[d]) : u = <<d, j>> /\ inbox'[d][j] = req
      OBVIOUS
    <3>. QED BY <3>1 DEF UnitSet
  <2>2. ASSUME NEW d \in Conns, d # c
        PROVE  (\E j \in 1 .. Len(inbox'[d]) : u = <<d, j>> /\ inbox'[d][j] = req) <=>
               \E j \in 1 .. Len(inbox[d]) : u = <<d, j>> /\ inbox[d][j] = req
    BY <1>4, <2>2
  <2>3. (\E j \in 1 .. Len(inbox'[c]) : u = <<c, j>> /\ inbox'[c][j] = req) <=>
          \/ \E j \in 1 .. Len(inbox[c]) : u = <<c, j>> /\ inbox[c][j] = req
          \/ req = r /\ \E j \in L + 1 .. L + k : u = <<c, j>>
    <3>1. \A j : j \in 1 .. L + k <=> j \in 1 .. L \/ j \in L + 1 .. L + k
      OBVIOUS
    <3>. QED BY <1>5, <3>1
  <2>4. u \in UnitSet(req) <=>
          \E d \in Conns : \E j \in 1 .. Len(inbox[d]) : u = <<d, j>> /\ inbox[d][j] = req
    BY Units
  <2>. QED BY <2>1, <2>2, <2>3, <2>4
<1>7. ASSUME NEW req, req # r
      PROVE  UnitsOf(req)' = UnitsOf(req)
  <2>1. UnitSet(req)' = UnitSet(req)
    BY <1>6, <1>7
  <2>. QED BY <2>1 DEF UnitsOf, UnitSet
<1>8. UnitsOf(r)' = UnitsOf(r) + k
  <2>. DEFINE A == UnitSet(r)
              B == {c} \X (L + 1 .. L + k)
  <2>1. UnitSet(r)' = A \cup B
    <3>1. \A u : u \in B <=> \E j \in L + 1 .. L + k : u = <<c, j>>
      OBVIOUS
    <3>. HIDE DEF A, B
    <3>2. \A u : u \in UnitSet(r)' <=> u \in A \/ u \in B
      BY <1>6, <3>1 DEF A
    <3>. QED BY <3>2
  <2>2. A \cap B = {}
    <3>1. ASSUME NEW u \in A, u \in B
          PROVE  FALSE
      <4>1. PICK d \in Conns : \E j \in 1 .. Len(inbox[d]) : u = <<d, j>>
        BY <3>1, Units
      <4>2. PICK j \in 1 .. Len(inbox[d]) : u = <<d, j>>
        BY <4>1
      <4>3. d = c /\ j \in L + 1 .. L + k
        BY <3>1, <4>2
      <4>. QED BY <4>2, <4>3
    <3>. QED BY <3>1
  <2>3. IsFiniteSet(A) /\ UnitsOf(r) = Cardinality(A)
    BY UnitsCount, Units
  <2>4. IsFiniteSet(B) /\ Cardinality(B) = k
    <3>1. IsFiniteSet(L + 1 .. L + k) /\ Cardinality(L + 1 .. L + k) = k
      <4>1. /\ IsFiniteSet(L + 1 .. L + k)
            /\ Cardinality(L + 1 .. L + k) = IF L + 1 > L + k THEN 0 ELSE (L + k) - (L + 1) + 1
        <5>1. L + 1 \in Int /\ L + k \in Int
          OBVIOUS
        <5>. QED BY <5>1, FS_Interval
      <4>. QED BY <4>1
    <3>2. IsFiniteSet({c}) /\ Cardinality({c}) = 1
      BY FS_Singleton
    <3>3. IsFiniteSet(B) /\ Cardinality(B) = 1 * k
      <4>. DEFINE I == L + 1 .. L + k
      <4>1. IsFiniteSet(I) /\ Cardinality(I) = k
        BY <3>1
      <4>. HIDE DEF I
      <4>2. IsFiniteSet({c} \X I) /\ Cardinality({c} \X I) = Cardinality({c}) * Cardinality(I)
        BY <3>2, <4>1, FS_Product
      <4>. QED BY <3>2, <4>1, <4>2 DEF I
    <3>. QED BY <3>3
  <2>5. UnitsOf(r)' = Cardinality(UnitSet(r)')
    BY DEF UnitsOf, UnitSet
  <2>. HIDE DEF A, B
  <2>6. Cardinality(A \cup B) = Cardinality(A) + Cardinality(B) - Cardinality(A \cap B)
    BY <2>3, <2>4, FS_Union
  <2>7. Cardinality(A \cap B) = 0
    BY <2>2, FS_EmptySet
  <2>8. Cardinality(A) \in Nat
    BY <2>3, FS_CardinalityType
  <2>. QED BY <2>1, <2>3, <2>4, <2>5, <2>6, <2>7, <2>8
<1>. QED BY <1>7, <1>8

-----------------------------------------------------------------------------
(* The places where a request can be inside the servers, after it was read *)
(* and before all of its answer is sent: At(p, r, n) says that r is at p   *)
(* and that n units of its answer are sent.                                *)
Places == {"recv", "sinq", "mid", "chan", "send"} \X Nat \X Nat
At(p, r, n) ==
  \/ \E i \in Slots : /\ p = <<"recv", i, 0>> /\ val[i].recvflag = 1
                      /\ r = val[i].recvmsg.req /\ n = 0
  \/ \E j \in 1 .. Len(sinq) : p = <<"sinq", 0, j>> /\ r = sinq[j].req /\ n = 0
  \/ p = <<"mid", 0, 0>> /\ inmsg.id = "LOGIN" /\ r = inmsg.req /\ n = 0
  \/ \E i \in Slots : \E j \in 1 .. Len(mulq[i]) :
       p = <<"chan", i, j>> /\ r = mulq[i][j] /\ n = 0
  \/ \E i \in Slots : /\ p = <<"send", i, 0>> /\ val[i].sendflag = 1
                      /\ r = val[i].sendmsg.req /\ n = val[i].sendmsg.n

(* No request is at two places. *)
InOnePlace == \A r \in Requests : \A p, q, m, n : At(p, r, m) /\ At(q, r, n) => p = q
(* What is at a place was read, and only an answer in sendmsg is in part   *)
(* with a client.                                                          *)
ReadBefore ==
  \A r \in Requests : \A p, n : At(p, r, n) => r[2] <= RequestsRead(r[1]) /\ UnitsOf(r) = n
(* What a client has of an answer is a part of it, to a request that was   *)
(* read.                                                                   *)
Delivered ==
  \A r \in Requests : /\ UnitsOf(r) <= RspLen
                      /\ UnitsOf(r) > 0 => r[2] <= RequestsRead(r[1])

FlowInv == InOnePlace /\ ReadBefore /\ Delivered

LEMMA AtPlaces ==
  ASSUME NEW p, NEW r, NEW n, At(p, r, n)
  PROVE  p \in Places
<1>1. Slots \subseteq Nat
  BY DEF Slots
<1>2. \A j, k : j \in 1 .. k => j \in Nat
  OBVIOUS
<1>. QED BY <1>1, <1>2 DEF At, Places

(* The requests that were read only become more. *)
MoreRead == \A c \in Conns : /\ RequestsRead(c) \in Nat /\ RequestsRead(c)' \in Nat
                             /\ RequestsRead(c) <= RequestsRead(c)'

LEMMA ReadGrows ==
  ASSUME PairInv, TypeInv, StreamInv, FlowStep
  PROVE  MoreRead
<1>. SUFFICES ASSUME NEW c \in Conns
              PROVE  /\ RequestsRead(c) \in Nat /\ RequestsRead(c)' \in Nat
                     /\ RequestsRead(c) <= RequestsRead(c)'
  BY DEF MoreRead
<1>1. sent[c] \in Nat /\ Len(up[c]) \in Nat /\ Consumed(c) \in Nat
  BY StreamNumbers DEF StreamInv, Streams, Consumed
<1>2. Consumed(c)' \in Nat /\ Consumed(c) <= Consumed(c)'
  <2>1. CASE UNCHANGED <<up, sent>>
    BY <1>1, <2>1 DEF Consumed
  <2>2. ASSUME NEW i \in Slots, NEW t \in Nat, ReadsUnits(i, t)
        PROVE  Consumed(c)' \in Nat /\ Consumed(c) <= Consumed(c)'
    <3>. PICK d \in Conns : d = ConnOf(i)
      BY <2>2, ConnOfSlot DEF ReadsUnits, TypeInv
    <3>1. /\ Consumed(d)' = Consumed(d) + t
          /\ c # d => Consumed(c)' = Consumed(c)
      BY <2>2, ReadsBytes
    <3>. QED BY <1>1, <3>1
  <2>3. CASE up'[c] = <<>> /\ sent' = sent
    <3>1. Consumed(c)' = sent[c] - Len(<<>>) /\ Len(<<>>) = 0
      BY <2>3 DEF Consumed
    <3>. QED BY <1>1, <3>1 DEF Consumed
  <2>4. ASSUME NEW i \in Slots, NEW fd \in In!Fds, ClosesOne(fd, i)
        PROVE  Consumed(c)' \in Nat /\ Consumed(c) <= Consumed(c)'
    <3>1. up' = [up EXCEPT ![sock[fd]] = <<>>] /\ sent' = sent
      BY <2>4 DEF ClosesOne, Closes, In!CloseSlot
    <3>2. up'[c] = <<>> \/ up'[c] = up[c]
      BY <3>1 DEF TypeInv, ClientTypes
    <3>. QED BY <1>1, <2>3, <3>1, <3>2 DEF Consumed
  <2>5. CASE EndsAll
    <3>1. sent' = sent /\ (up'[c] = <<>> \/ up'[c] = up[c])
      BY <2>5 DEF EndsAll, In!Ends
    <3>. QED BY <1>1, <2>3, <3>1 DEF Consumed
  <2>6. ASSUME NEW d \in Conns, Asks(d)
        PROVE  Consumed(c)' \in Nat /\ Consumed(c) <= Consumed(c)'
    <3>1. /\ sent' = [sent EXCEPT ![d] = sent[d] + 1]
          /\ up' = [up EXCEPT ![d] = Append(up[d], sent[d] \div ReqLen + 1)]
      BY <2>6 DEF Asks, Cli!SendUnit
    <3>2. CASE c = d
      <4>1. sent'[c] = sent[c] + 1 /\ up'[c] = Append(up[c], sent[c] \div ReqLen + 1)
        BY <3>1, <3>2 DEF TypeInv, ClientTypes
      <4>2. up[c] \in Seq(1 .. MaxReq)
        BY StreamNumbers
      <4>3. Len(up'[c]) = Len(up[c]) + 1
        BY <4>1, <4>2
      <4>4. Consumed(c)' = sent'[c] - Len(up'[c])
        BY DEF Consumed
      <4>5. Consumed(c)' = Consumed(c)
        BY <1>1, <4>1, <4>3, <4>4 DEF Consumed
      <4>. QED BY <1>1, <4>5
    <3>3. CASE c # d
      <4>1. sent'[c] = sent[c] /\ up'[c] = up[c]
        BY <3>1, <3>3 DEF TypeInv, ClientTypes
      <4>. QED BY <1>1, <4>1 DEF Consumed
    <3>. QED BY <3>2, <3>3
  <2>7. CASE Idles \/ AcceptsOne \/ Clears \/ Pops \/ Drops
    BY <2>1, <2>7 DEF Idles, AcceptsOne, Clears, Pops, Drops, bytes
  <2>8. ASSUME NEW i \in Slots,
               TakesAnswer(i) \/ Retries(i) \/ PutsAnswer(i) \/ \E k \in Nat : SendsUnits(i, k)
        PROVE  UNCHANGED <<up, sent>>
    BY <2>8 DEF TakesAnswer, Retries, PutsAnswer, SendsUnits, bytes
  <2>9. ASSUME NEW d \in Conns, Begins(d) \/ GoesOn(d)
        PROVE  UNCHANGED <<up, sent>>
    BY <2>9 DEF Begins, GoesOn, bytes
  <2>. QED BY <2>1, <2>2, <2>4, <2>5, <2>6, <2>7, <2>8, <2>9 DEF FlowStep, InFlow
<1>3. RequestsRead(c) = Consumed(c) \div ReqLen /\ RequestsRead(c)' = Consumed(c)' \div ReqLen
  BY DEF RequestsRead, Consumed
<1>4. PICK a \in Nat, b \in Nat : a = Consumed(c) /\ b = Consumed(c)' /\ a <= b
  BY <1>1, <1>2
<1>5. a \div ReqLen \in Nat /\ b \div ReqLen \in Nat /\ a \div ReqLen <= b \div ReqLen
  BY <1>4, Lengths, Division, QuotientGrows
<1>. QED BY <1>3, <1>4, <1>5

(* Requests move, each to a place of its own, or are lost.                 *)
Moves(g) ==
  \A r \in Requests : \A p, n :
    At(p, r, n)' => \E q \in Places : At(q, r, n) /\ p = g[q]

LEMMA FlowMoves ==
  ASSUME TypeInv, FlowInv, MoreRead, inbox' = inbox, NEW g, Moves(g)
  PROVE  FlowInv'
<1>1. \A r \in Requests : /\ UnitsOf(r)' = UnitsOf(r) /\ r[1] \in Conns /\ r[2] \in Nat
                          /\ RequestsRead(r[1]) <= RequestsRead(r[1])'
                          /\ RequestsRead(r[1]) \in Nat /\ RequestsRead(r[1])' \in Nat
  BY UnitsStay DEF MoreRead, Requests
<1>2. InOnePlace'
  <2>. SUFFICES ASSUME NEW r \in Requests, NEW p, NEW q, NEW m, NEW n, At(p, r, m)', At(q, r, n)'
                PROVE  p = q
    BY DEF InOnePlace
  <2>1. PICK a \in Places : At(a, r, m) /\ p = g[a]
    BY DEF Moves
  <2>2. PICK b \in Places : At(b, r, n) /\ q = g[b]
    BY DEF Moves
  <2>3. a = b
    BY <2>1, <2>2 DEF FlowInv, InOnePlace
  <2>. QED BY <2>1, <2>2, <2>3
<1>3. ReadBefore'
  <2>. SUFFICES ASSUME NEW r \in Requests, NEW p, NEW n, At(p, r, n)'
                PROVE  r[2] <= RequestsRead(r[1])' /\ UnitsOf(r)' = n
    BY DEF ReadBefore
  <2>1. PICK a \in Places : At(a, r, n)
    BY DEF Moves
  <2>2. r[2] <= RequestsRead(r[1]) /\ UnitsOf(r) = n
    BY <2>1 DEF FlowInv, ReadBefore
  <2>. QED BY <1>1, <2>2
<1>4. Delivered'
  <2>. SUFFICES ASSUME NEW r \in Requests
                PROVE  /\ UnitsOf(r)' <= RspLen
                       /\ UnitsOf(r)' > 0 => r[2] <= RequestsRead(r[1])'
    BY DEF Delivered
  <2>1. UnitsOf(r) <= RspLen /\ (UnitsOf(r) > 0 => r[2] <= RequestsRead(r[1]))
    BY DEF FlowInv, Delivered
  <2>. QED BY <1>1, <2>1
<1>. QED BY <1>2, <1>3, <1>4 DEF FlowInv

(* A request that was not read before comes in at one place.               *)
LEMMA FlowEnters ==
  ASSUME TypeInv, FlowInv, MoreRead, inbox' = inbox, NEW new \in Requests, NEW place,
         new[2] = RequestsRead(new[1]) + 1, new[2] <= RequestsRead(new[1])',
         \A r \in Requests : \A p, n :
           At(p, r, n)' => At(p, r, n) \/ (r = new /\ p = place /\ n = 0)
  PROVE  FlowInv'
<1>1. \A r \in Requests : /\ UnitsOf(r)' = UnitsOf(r) /\ r[1] \in Conns /\ r[2] \in Nat
                          /\ RequestsRead(r[1]) <= RequestsRead(r[1])'
                          /\ RequestsRead(r[1]) \in Nat /\ RequestsRead(r[1])' \in Nat
                          /\ UnitsOf(r) \in Nat
  BY UnitsStay, UnitsCount DEF MoreRead, Requests
<1>2. ~(new[2] <= RequestsRead(new[1]))
  BY <1>1
<1>3. UnitsOf(new) = 0 /\ \A p, n : ~At(p, new, n)
  BY <1>1, <1>2 DEF FlowInv, ReadBefore, Delivered
<1>4. InOnePlace'
  BY <1>3 DEF FlowInv, InOnePlace
<1>5. ReadBefore'
  <2>. SUFFICES ASSUME NEW r \in Requests, NEW p, NEW n, At(p, r, n)'
                PROVE  r[2] <= RequestsRead(r[1])' /\ UnitsOf(r)' = n
    BY DEF ReadBefore
  <2>1. CASE At(p, r, n)
    <3>1. r[2] <= RequestsRead(r[1]) /\ UnitsOf(r) = n
      BY <2>1 DEF FlowInv, ReadBefore
    <3>. QED BY <1>1, <3>1
  <2>2. CASE r = new /\ n = 0
    BY <1>1, <1>3, <2>2
  <2>. QED BY <2>1, <2>2
<1>6. Delivered'
  <2>. SUFFICES ASSUME NEW r \in Requests
                PROVE  /\ UnitsOf(r)' <= RspLen
                       /\ UnitsOf(r)' > 0 => r[2] <= RequestsRead(r[1])'
    BY DEF Delivered
  <2>1. UnitsOf(r) <= RspLen /\ (UnitsOf(r) > 0 => r[2] <= RequestsRead(r[1]))
    BY DEF FlowInv, Delivered
  <2>. QED BY <1>1, <2>1
<1>. QED BY <1>4, <1>5, <1>6 DEF FlowInv

LEMMA AtSame ==
  ASSUME UNCHANGED messages,
         \A i \in Slots : /\ val'[i].recvflag = val[i].recvflag
                          /\ val'[i].recvflag = 1 => val'[i].recvmsg.req = val[i].recvmsg.req
                          /\ val'[i].sendflag = val[i].sendflag
                          /\ val'[i].sendmsg = val[i].sendmsg,
         NEW p, NEW r, NEW n
  PROVE  At(p, r, n)' => At(p, r, n)
BY DEF At, messages

(* Steps that leave requests where they are, or lose them. *)
Stays == \A r \in Requests : \A p, n : At(p, r, n)' => At(p, r, n)

LEMMA FlowStays ==
  ASSUME TypeInv, FlowInv, MoreRead, inbox' = inbox, Stays
  PROVE  FlowInv'
<1>. DEFINE g == [q \in Places |-> q]
<1>1. Moves(g)
  BY AtPlaces DEF Moves, Stays
<1>. HIDE DEF g
<1>. QED BY <1>1, FlowMoves

LEMMA ErasedHoldsNone ==
  In!Erased.recvflag = 0 /\ In!Erased.sendflag = 0
BY DEF In!Erased

LEMMA AtIdles ==
  ASSUME TypeInv, Idles
  PROVE  Stays
BY DEF Idles, messages, Stays, At

LEMMA AtDrops ==
  ASSUME TypeInv, Drops
  PROVE  Stays
<1>1. inmsg'.id # "LOGIN"
  BY DEF Drops, Mid!NoMsg, Mid!Down
<1>. QED BY <1>1 DEF Drops, Stays, At

LEMMA AtClears ==
  ASSUME TypeInv, Clears
  PROVE  Stays
<1>1. inmsg' = inmsg \/ inmsg'.id # "LOGIN"
  BY DEF Clears, Mid!NoMsg
<1>2. sinq' = <<>> /\ (\A i \in Slots : mulq'[i] = <<>>) /\ val' = val
  BY DEF Clears
<1>. QED BY <1>1, <1>2 DEF Stays, At

LEMMA AtEnds ==
  ASSUME TypeInv, EndsAll
  PROVE  Stays /\ inbox' = inbox
<1>1. val' = [i \in Slots |-> In!Erased] /\ UNCHANGED <<sinq, mulq, inmsg, inbox>>
  BY Numbers DEF EndsAll, In!Ends, In!AllErased
<1>. QED BY <1>1, ErasedHoldsNone DEF Stays, At

(* A control message carries no request. *)
LEMMA AtControl ==
  ASSUME UNCHANGED <<inmsg, mulq>>, NEW m, m.req = NoRequest, sinq \in Seq(Msgs),
         sinq' = sinq \/ sinq' = Pushed(sinq, m),
         \A i \in Slots : \/ val'[i].recvflag = 0 /\ val'[i].sendflag = 0
                          \/ /\ val'[i].recvflag = val[i].recvflag
                             /\ val'[i].sendflag = val[i].sendflag
                             /\ val'[i].recvmsg = val[i].recvmsg
                             /\ val'[i].sendmsg = val[i].sendmsg
  PROVE  Stays
<1>1. \A r \in Requests : r # NoRequest
  <2>1. ASSUME NEW c \in Conns, NEW k \in 1 .. MaxReq
        PROVE  <<c, k>> # <<>>
    <3>1. Len(<<c, k>>) = 2 /\ Len(<<>>) = 0
      OBVIOUS
    <3>. QED BY <3>1
  <2>2. ASSUME NEW r \in Requests
        PROVE  r # NoRequest
    <3>1. PICK c \in Conns, k \in 1 .. MaxReq : r = <<c, k>>
      BY DEF Requests
    <3>. QED BY <2>1, <3>1 DEF NoRequest
  <2>. QED BY <2>2
<1>2. ASSUME NEW j \in 1 .. Len(sinq'), sinq'[j].req # NoRequest
      PROVE  j \in 1 .. Len(sinq) /\ sinq'[j] = sinq[j]
  <2>1. CASE sinq' = Append(sinq, m)
    BY <1>2, <2>1
  <2>. QED BY <1>2, <2>1 DEF Pushed
<1>. SUFFICES ASSUME NEW r \in Requests, NEW p, NEW n, At(p, r, n)'
              PROVE  At(p, r, n)
  BY DEF Stays
<1>3. CASE \E j \in 1 .. Len(sinq') : p = <<"sinq", 0, j>> /\ r = sinq'[j].req /\ n = 0
  BY <1>1, <1>2, <1>3 DEF At
<1>4. CASE ~\E j \in 1 .. Len(sinq') : p = <<"sinq", 0, j>> /\ r = sinq'[j].req /\ n = 0
  BY <1>4 DEF At
<1>. QED BY <1>3, <1>4

LEMMA AtAccepts ==
  ASSUME PairInv, TypeInv, AcceptsOne
  PROVE  Stays /\ inbox' = inbox
<1>. DEFINE fd == In!NewFd
            m == NewConnect(In!Idle, fd)
<1>1. Accepts /\ sinq' \in {sinq, Pushed(sinq, m)} /\ UNCHANGED <<inmsg, mulq, inbox>>
  BY DEF AcceptsOne, bytes
<1>2. m.req = NoRequest
  BY DEF NewConnect
<1>3. ASSUME NEW j \in Slots
      PROVE  /\ val'[j].recvflag = val[j].recvflag
             /\ val'[j].sendflag = val[j].sendflag
             /\ val'[j].recvmsg = val[j].recvmsg
             /\ val'[j].sendmsg = val[j].sendmsg
  <2>1. CASE In!Idle = -1
    BY <1>1, <2>1 DEF Accepts, In!SlotTaken
  <2>2. CASE In!Idle # -1
    <3>1. val' = [val EXCEPT ![In!Idle] = In!TakenBy(val[In!Idle], fd)]
      BY <1>1, <2>2 DEF Accepts, In!SlotTaken
    <3>2. In!TakenBy(val[j], fd) = [srvfd |-> fd, recvflag |-> val[j].recvflag,
             sendflag |-> val[j].sendflag, recvmsg |-> val[j].recvmsg, sendmsg |-> val[j].sendmsg]
      BY BufferNumbers, TakenByRecord
    <3>. QED BY <3>1, <3>2 DEF TypeInv, SlotTypes
  <2>. QED BY <2>1, <2>2
<1>4. sinq \in Seq(Msgs)
  BY DEF TypeInv, QueueTypes
<1>. HIDE DEF m
<1>. QED BY <1>1, <1>2, <1>3, <1>4, AtControl

LEMMA AtCloses ==
  ASSUME PairInv, TypeInv, NEW i \in Slots, NEW fd \in In!Fds, ClosesOne(fd, i)
  PROVE  Stays /\ inbox' = inbox
<1>. DEFINE m == CloConnect(i, fd)
<1>1. /\ val' = [val EXCEPT ![i] = In!Erased]
      /\ sinq' = Pushed(sinq, m) /\ UNCHANGED <<inmsg, mulq, inbox>>
  BY DEF ClosesOne, Closes, In!CloseSlot
<1>2. m.req = NoRequest
  BY DEF CloConnect, NewConnect
<1>3. \A j \in Slots : val'[j] = In!Erased \/ val'[j] = val[j]
  BY <1>1 DEF TypeInv, SlotTypes
<1>4. sinq \in Seq(Msgs)
  BY DEF TypeInv, QueueTypes
<1>. HIDE DEF m
<1>. QED BY <1>1, <1>2, <1>3, <1>4, ErasedHoldsNone, AtControl

LEMMA AtPops ==
  ASSUME TypeInv, FlowInv, MoreRead, Pops
  PROVE  FlowInv'
<1>. DEFINE g == [q \in Places |-> IF q[1] # "sinq" THEN q
                                   ELSE IF q[3] = 1 THEN <<"mid", 0, 0>>
                                   ELSE <<"sinq", 0, q[3] - 1>>]
<1>1. /\ sinq \in Seq(Msgs) /\ Len(sinq) \in Nat \ {0} /\ inmsg' = sinq[1]
      /\ sinq' = Tail(sinq) /\ UNCHANGED <<val, mulq, inbox>> /\ inmsg = Mid!NoMsg
  BY DEF Pops, bytes, TypeInv, QueueTypes
<1>2. Len(sinq') = Len(sinq) - 1 /\ \A j \in 1 .. Len(sinq') : sinq'[j] = sinq[j + 1]
  BY <1>1
<1>3. ASSUME NEW r \in Requests, NEW p, NEW n, At(p, r, n)'
      PROVE  \E q \in Places : At(q, r, n) /\ p = g[q]
  <2>1. ASSUME NEW j \in 1 .. Len(sinq'), p = <<"sinq", 0, j>>, r = sinq'[j].req, n = 0
        PROVE  \E q \in Places : At(q, r, n) /\ p = g[q]
    <3>. DEFINE q == <<"sinq", 0, j + 1>>
    <3>1. j + 1 \in 1 .. Len(sinq) /\ r = sinq[j + 1].req
      BY <1>1, <1>2, <2>1
    <3>2. At(q, r, n) /\ q \in Places
      BY <2>1, <3>1 DEF At, Places
    <3>3. p = g[q]
      BY <2>1, <3>2
    <3>. QED BY <3>2, <3>3
  <2>2. ASSUME p = <<"mid", 0, 0>>, r = inmsg'.req, n = 0
        PROVE  \E q \in Places : At(q, r, n) /\ p = g[q]
    <3>. DEFINE q == <<"sinq", 0, 1>>
    <3>1. 1 \in 1 .. Len(sinq) /\ r = sinq[1].req
      BY <1>1, <2>2
    <3>2. At(q, r, n) /\ q \in Places
      BY <2>2, <3>1 DEF At, Places
    <3>3. p = g[q]
      BY <2>2, <3>2
    <3>. QED BY <3>2, <3>3
  <2>3. CASE At(p, r, n) /\ p[1] # "sinq"
    <3>1. p \in Places
      BY <2>3, AtPlaces
    <3>2. p = g[p]
      BY <2>3, <3>1
    <3>. QED BY <2>3, <3>1, <3>2
  <2>4. \/ \E j \in 1 .. Len(sinq') : p = <<"sinq", 0, j>> /\ r = sinq'[j].req /\ n = 0
        \/ p = <<"mid", 0, 0>> /\ r = inmsg'.req /\ n = 0
        \/ At(p, r, n) /\ p[1] # "sinq"
    BY <1>1, <1>3 DEF At
  <2>. HIDE DEF g
  <2>. QED BY <2>1, <2>2, <2>3, <2>4
<1>4. Moves(g)
  BY <1>3 DEF Moves
<1>. HIDE DEF g
<1>. QED BY <1>1, <1>4, FlowMoves

LEMMA AtPutsAnswer ==
  ASSUME TypeInv, FlowInv, MoreRead, NEW i \in Slots, PutsAnswer(i)
  PROVE  FlowInv'
<1>. PICK L \in Nat : L = Len(mulq[i])
  BY DEF TypeInv, QueueTypes
<1>. DEFINE last == <<"chan", i, L + 1>>
            g == [q \in Places |-> IF q = <<"mid", 0, 0>> THEN last ELSE q]
<1>1. /\ mulq[i] \in Seq(Requests) /\ mulq' = [mulq EXCEPT ![i] = Append(mulq[i], inmsg.req)]
      /\ mulq'[i] = Append(mulq[i], inmsg.req)
      /\ \A j \in Slots : j # i => mulq'[j] = mulq[j]
      /\ UNCHANGED <<val, sinq, inbox>> /\ inmsg.id = "LOGIN" /\ inmsg' = Mid!NoMsg
  BY DEF PutsAnswer, bytes, TypeInv, QueueTypes
<1>2. inmsg'.id # "LOGIN"
  BY <1>1 DEF Mid!NoMsg
<1>3. ASSUME NEW r \in Requests, NEW p, NEW n, At(p, r, n)'
      PROVE  \E q \in Places : At(q, r, n) /\ p = g[q]
  <2>1. ASSUME p = last, r = inmsg.req, n = 0
        PROVE  \E q \in Places : At(q, r, n) /\ p = g[q]
    <3>. DEFINE q == <<"mid", 0, 0>>
    <3>1. At(q, r, n) /\ q \in Places
      BY <1>1, <2>1 DEF At, Places
    <3>2. p = g[q]
      BY <2>1, <3>1
    <3>. QED BY <3>1, <3>2
  <2>2. CASE At(p, r, n) /\ p # <<"mid", 0, 0>>
    <3>1. p \in Places
      BY <2>2, AtPlaces
    <3>2. p = g[p]
      BY <2>2, <3>1
    <3>. QED BY <2>2, <3>1, <3>2
  <2>3. ASSUME NEW j \in Slots, NEW k \in 1 .. Len(mulq'[j]), p = <<"chan", j, k>>,
               r = mulq'[j][k], n = 0
        PROVE  (p = last /\ r = inmsg.req) \/ (At(p, r, n) /\ p # <<"mid", 0, 0>>)
    <3>1. CASE j = i /\ k = L + 1
      BY <1>1, <2>3, <3>1
    <3>2. CASE ~(j = i /\ k = L + 1)
      <4>1. k \in 1 .. Len(mulq[j]) /\ mulq'[j][k] = mulq[j][k]
        BY <1>1, <2>3, <3>2
      <4>. QED BY <2>3, <4>1 DEF At
    <3>. QED BY <3>1, <3>2
  <2>4. \/ \E j \in Slots : \E k \in 1 .. Len(mulq'[j]) :
             p = <<"chan", j, k>> /\ r = mulq'[j][k] /\ n = 0
        \/ At(p, r, n) /\ p # <<"mid", 0, 0>>
    BY <1>1, <1>2, <1>3 DEF At
  <2>5. n = 0 \/ (At(p, r, n) /\ p # <<"mid", 0, 0>>)
    BY <2>4
  <2>. HIDE DEF g, last
  <2>. QED BY <2>1, <2>2, <2>3, <2>4, <2>5
<1>4. Moves(g)
  BY <1>3 DEF Moves
<1>. HIDE DEF g
<1>. QED BY <1>1, <1>4, FlowMoves

LEMMA AtTakesAnswer ==
  ASSUME TypeInv, FlowInv, MoreRead, NEW i \in Slots, TakesAnswer(i)
  PROVE  FlowInv'
<1>. DEFINE first == <<"chan", i, 1>>
            g == [q \in Places |-> IF q[1] # "chan" \/ q[2] # i THEN q
                                   ELSE IF q[3] = 1 THEN <<"send", i, 0>>
                                   ELSE <<"chan", i, q[3] - 1>>]
<1>1. /\ mulq[i] \in Seq(Requests) /\ mulq[i] # <<>> /\ Len(mulq[i]) \in Nat \ {0}
      /\ mulq'[i] = Tail(mulq[i]) /\ Head(mulq[i]) = mulq[i][1]
      /\ \A j \in Slots : j # i => mulq'[j] = mulq[j]
      /\ UNCHANGED <<sinq, inmsg, inbox>> /\ val[i].sendflag = 0
  BY DEF TakesAnswer, bytes, TypeInv, QueueTypes
<1>2. /\ Len(mulq'[i]) = Len(mulq[i]) - 1
      /\ \A j \in 1 .. Len(mulq'[i]) : mulq'[i][j] = mulq[i][j + 1]
  BY <1>1
<1>3. /\ \A j \in Slots : /\ val'[j].recvmsg = val[j].recvmsg
                          /\ val'[j].recvflag = val[j].recvflag
                          /\ j # i => val'[j] = val[j]
      /\ val'[i].sendmsg = [n |-> 0, req |-> mulq[i][1]]
  BY <1>1, TakeSlot
<1>4. ASSUME NEW r \in Requests, NEW p, NEW n, At(p, r, n)'
      PROVE  \E q \in Places : At(q, r, n) /\ p = g[q]
  <2>. i \in Nat
    BY DEF Slots
  <2>1. ASSUME p = <<"send", i, 0>>, r = mulq[i][1], n = 0
        PROVE  \E q \in Places : At(q, r, n) /\ p = g[q]
    <3>1. At(first, r, n) /\ first \in Places
      BY <1>1, <2>1 DEF At, Places
    <3>2. p = g[first]
      BY <2>1, <3>1
    <3>. QED BY <3>1, <3>2
  <2>2. ASSUME NEW k \in 1 .. Len(mulq'[i]), p = <<"chan", i, k>>, r = mulq'[i][k], n = 0
        PROVE  \E q \in Places : At(q, r, n) /\ p = g[q]
    <3>. DEFINE q == <<"chan", i, k + 1>>
    <3>1. k + 1 \in 1 .. Len(mulq[i]) /\ r = mulq[i][k + 1]
      BY <1>1, <1>2, <2>2
    <3>2. At(q, r, n) /\ q \in Places
      BY <2>2, <3>1 DEF At, Places
    <3>3. p = g[q]
      BY <2>2, <3>2
    <3>. QED BY <3>2, <3>3
  <2>3. CASE At(p, r, n) /\ ~(p[1] = "chan" /\ p[2] = i)
    <3>1. p \in Places
      BY <2>3, AtPlaces
    <3>2. p = g[p]
      BY <2>3, <3>1
    <3>. QED BY <2>3, <3>1, <3>2
  <2>4. ASSUME NEW j \in Slots, p = <<"send", j, 0>>, val'[j].sendflag = 1,
               r = val'[j].sendmsg.req, n = val'[j].sendmsg.n
        PROVE  \E q \in Places : At(q, r, n) /\ p = g[q]
    <3>1. CASE j = i
      <4>1. r = mulq[i][1] /\ n = 0
        BY <1>3, <2>4, <3>1
      <4>. HIDE DEF g
      <4>. QED BY <2>1, <2>4, <3>1, <4>1
    <3>2. CASE j # i
      <4>1. At(p, r, n) /\ p[1] # "chan"
        BY <1>3, <2>4, <3>2 DEF At
      <4>. HIDE DEF g
      <4>. QED BY <2>3, <4>1
    <3>. QED BY <3>1, <3>2
  <2>5. ASSUME NEW j \in Slots, NEW k \in 1 .. Len(mulq'[j]), p = <<"chan", j, k>>,
               r = mulq'[j][k], n = 0
        PROVE  \E q \in Places : At(q, r, n) /\ p = g[q]
    <3>1. CASE j = i
      <4>. HIDE DEF g
      <4>. QED BY <2>2, <2>5, <3>1
    <3>2. CASE j # i
      <4>1. At(p, r, n) /\ p[2] # i
        BY <1>1, <2>5, <3>2 DEF At
      <4>. HIDE DEF g
      <4>. QED BY <2>3, <4>1
    <3>. QED BY <3>1, <3>2
  <2>6. \/ \E j \in Slots : \E k \in 1 .. Len(mulq'[j]) :
             p = <<"chan", j, k>> /\ r = mulq'[j][k] /\ n = 0
        \/ \E j \in Slots : /\ p = <<"send", j, 0>> /\ val'[j].sendflag = 1
                            /\ r = val'[j].sendmsg.req /\ n = val'[j].sendmsg.n
        \/ At(p, r, n) /\ p[1] # "chan"
    BY <1>1, <1>3, <1>4 DEF At
  <2>. HIDE DEF g
  <2>. QED BY <2>3, <2>4, <2>5, <2>6
<1>5. Moves(g)
  BY <1>4 DEF Moves
<1>. HIDE DEF g
<1>. QED BY <1>1, <1>5, FlowMoves

LEMMA LoginCarries ==
  ASSUME NEW fd, NEW req
  PROVE  Login(fd, req).req = req
BY DEF Login

(* The request that a slot hands over is at the end of the queue then, or  *)
(* in recvmsg.                                                             *)
LEMMA AtHandsOver ==
  ASSUME TypeInv, NEW i \in Slots, NEW req \in Requests, HandsOver(i, req),
         UNCHANGED <<inmsg, mulq>>, NEW place,
         place = IF sinq' = sinq THEN <<"recv", i, 0>> ELSE <<"sinq", 0, Len(sinq) + 1>>
  PROVE  \A r \in Requests : \A p, n :
           At(p, r, n)' => \/ At(p, r, n) /\ p # <<"recv", i, 0>>
                           \/ r = req /\ p = place /\ n = 0
<1>. SUFFICES ASSUME NEW r \in Requests, NEW p, NEW n, At(p, r, n)'
              PROVE  \/ At(p, r, n) /\ p # <<"recv", i, 0>>
                     \/ r = req /\ p = place /\ n = 0
  OBVIOUS
<1>. DEFINE m == Login(val[i].srvfd, req)
<1>1. /\ val'[i].sendflag = val[i].sendflag /\ val'[i].sendmsg = val[i].sendmsg
      /\ \/ sinq' = Append(sinq, m) /\ val'[i].recvflag = 0
         \/ sinq' = sinq /\ val'[i].recvflag = 1 /\ val'[i].recvmsg.req = req
      /\ \A j \in Slots : j # i => val'[j] = val[j]
  BY HandsSlot
<1>2. m.req = req
  BY LoginCarries
<1>3. sinq \in Seq(Msgs) /\ Len(sinq) \in Nat
  BY DEF TypeInv, QueueTypes
<1>. HIDE DEF m
<1>4. ASSUME NEW j \in Slots, p = <<"recv", j, 0>>, val'[j].recvflag = 1,
             r = val'[j].recvmsg.req, n = 0
      PROVE  \/ At(p, r, n) /\ p # <<"recv", i, 0>>
             \/ r = req /\ p = place /\ n = 0
  <2>1. CASE j = i
    BY <1>1, <1>4, <2>1
  <2>2. CASE j # i
    BY <1>1, <1>4, <2>2 DEF At
  <2>. QED BY <2>1, <2>2
<1>5. ASSUME NEW j \in 1 .. Len(sinq'), p = <<"sinq", 0, j>>, r = sinq'[j].req, n = 0
      PROVE  \/ At(p, r, n) /\ p # <<"recv", i, 0>>
             \/ r = req /\ p = place /\ n = 0
  <2>1. CASE sinq' = Append(sinq, m) /\ j = Len(sinq) + 1
    <3>1. sinq' # sinq
      <4>1. Len(sinq') = Len(sinq) + 1
        BY <1>3, <2>1
      <4>. QED BY <1>3, <4>1
    <3>2. sinq'[j] = m
      BY <1>3, <2>1
    <3>. QED BY <1>2, <1>5, <2>1, <3>1, <3>2
  <2>2. CASE ~(sinq' = Append(sinq, m) /\ j = Len(sinq) + 1)
    <3>1. j \in 1 .. Len(sinq) /\ sinq'[j] = sinq[j]
      BY <1>1, <1>3, <2>2
    <3>. QED BY <1>5, <3>1 DEF At
  <2>. QED BY <2>1, <2>2
<1>6. \A j \in Slots : val'[j].sendflag = val[j].sendflag /\ val'[j].sendmsg = val[j].sendmsg
  BY <1>1
<1>7. \/ \E j \in Slots : /\ p = <<"recv", j, 0>> /\ val'[j].recvflag = 1
                          /\ r = val'[j].recvmsg.req /\ n = 0
      \/ \E j \in 1 .. Len(sinq') : p = <<"sinq", 0, j>> /\ r = sinq'[j].req /\ n = 0
      \/ At(p, r, n) /\ p[1] # "recv"
  BY <1>6 DEF At
<1>. QED BY <1>4, <1>5, <1>7

LEMMA AtRetries ==
  ASSUME TypeInv, FlowInv, MoreRead, NEW i \in Slots, Retries(i)
  PROVE  FlowInv'
<1>. DEFINE req == val[i].recvmsg.req
            here == <<"recv", i, 0>>
            place == IF sinq' = sinq THEN here ELSE <<"sinq", 0, Len(sinq) + 1>>
            g == [q \in Places |-> IF q = here THEN place ELSE q]
<1>1. /\ HandsOver(i, req) /\ val[i].recvflag = 1 /\ req \in Requests
      /\ UNCHANGED <<inmsg, mulq, inbox>>
  BY DEF Retries, bytes, TypeInv, SlotTypes, RightSlot
<1>2. ASSUME NEW r \in Requests, NEW p, NEW n, At(p, r, n)'
      PROVE  \E q \in Places : At(q, r, n) /\ p = g[q]
  <2>1. CASE At(p, r, n) /\ p # here
    <3>1. p \in Places
      BY <2>1, AtPlaces
    <3>2. p = g[p]
      BY <2>1, <3>1
    <3>. QED BY <2>1, <3>1, <3>2
  <2>2. CASE r = req /\ p = place /\ n = 0
    <3>1. At(here, r, n)
      BY <1>1, <2>2 DEF At
    <3>2. here \in Places
      BY <3>1, AtPlaces
    <3>3. p = g[here]
      BY <2>2, <3>2
    <3>. QED BY <3>1, <3>2, <3>3
  <2>3. (At(p, r, n) /\ p # here) \/ (r = req /\ p = place /\ n = 0)
    <3>1. PICK place0 : place0 = place
      OBVIOUS
    <3>. HIDE DEF g
    <3>. QED BY <1>1, <1>2, <3>1, AtHandsOver
  <2>. HIDE DEF g, place, here, req
  <2>. QED BY <2>1, <2>2, <2>3
<1>3. Moves(g)
  BY <1>2 DEF Moves
<1>. HIDE DEF g
<1>. QED BY <1>1, <1>3, FlowMoves

LEMMA AtReads ==
  ASSUME PairInv, TypeInv, TypeInv', StreamInv, FlowInv, MoreRead,
         NEW i \in Slots, NEW t \in Nat, ReadsUnits(i, t)
  PROVE  FlowInv'
<1>. PICK c \in Conns : c = ConnOf(i)
  BY ConnOfSlot DEF ReadsUnits, TypeInv
<1>. PICK k, req : k = up[c][t] /\ req = <<c, k>>
  OBVIOUS
<1>. DEFINE n0 == val[i].recvmsg.n + t
<1>1. /\ IF n0 = ReqLen THEN HandsOver(i, req)
         ELSE val' = [val EXCEPT ![i] = In!WithRequest(val[i], n0, req, 0)] /\ sinq' = sinq
      /\ UNCHANGED <<inmsg, mulq, inbox>>
  BY DEF ReadsUnits
<1>2. CASE n0 = ReqLen
  <2>1. k = RequestsRead(c) + 1
    BY <1>2, ReadsWhole
  <2>2. req \in Requests
    <3>1. t \in 1 .. Len(up[c]) /\ up[c] \in Seq(1 .. MaxReq)
      BY StreamNumbers DEF ReadsUnits
    <3>2. k \in 1 .. MaxReq
      BY <3>1, Rest
    <3>. QED BY <3>2 DEF Requests
  <2>3. req[2] <= RequestsRead(req[1])'
    <3>. PICK a \in Nat, b \in Nat : a = Consumed(c) /\ b = val[i].recvmsg.n
      BY ReadsBytes, BufferNumbers, Lengths
    <3>1. Consumed(c)' = a + t
      BY ReadsBytes
    <3>2. PICK q \in Nat : a = ReqLen * q + b
      BY DEF StreamInv, InStepWithBytes, Aligned, ReadsUnits
    <3>3. t > 0 /\ b + t = ReqLen
      BY <1>2, ReadsBytes
    <3>4. b \in 0 .. ReqLen - 1 /\ ReqLen \in Nat \ {0}
      BY <3>3, Lengths
    <3>5. RequestsRead(c) = q
      <4>1. (ReqLen * q + b) \div ReqLen = q
        BY <3>4, Quotient
      <4>2. RequestsRead(c) = a \div ReqLen
        BY DEF RequestsRead, Consumed
      <4>. QED BY <3>2, <4>1, <4>2
    <3>6. Consumed(c)' = ReqLen * (q + 1) + 0
      BY <3>1, <3>2, <3>3, <3>4
    <3>7. RequestsRead(c)' = q + 1
      <4>1. 0 \in 0 .. ReqLen - 1 /\ q + 1 \in Nat
        BY <3>4
      <4>2. (ReqLen * (q + 1) + 0) \div ReqLen = q + 1
        BY <3>4, <4>1, Quotient
      <4>. QED BY <3>6, <4>2 DEF RequestsRead, Consumed
    <3>. QED BY <2>1, <3>5, <3>7
  <2>. DEFINE place == IF sinq' = sinq THEN <<"recv", i, 0>> ELSE <<"sinq", 0, Len(sinq) + 1>>
  <2>4. \A r \in Requests : \A p, n :
           At(p, r, n)' => At(p, r, n) \/ (r = req /\ p = place /\ n = 0)
    <3>1. PICK place0 : place0 = place
      OBVIOUS
    <3>2. HandsOver(i, req)
      BY <1>1, <1>2
    <3>. QED BY <1>1, <2>2, <3>1, <3>2, AtHandsOver
  <2>5. req[1] = c /\ req[2] = RequestsRead(req[1]) + 1
    BY <2>1
  <2>. HIDE DEF place
  <2>6. PICK place0 : place0 = place
    OBVIOUS
  <2>. QED BY <1>1, <2>2, <2>3, <2>4, <2>5, <2>6, FlowEnters
<1>3. CASE n0 # ReqLen
  <2>1. /\ val' = [val EXCEPT ![i] = In!WithRequest(val[i], n0, req, 0)] /\ sinq' = sinq
    BY <1>1, <1>3
  <2>2. In!WithRequest(val[i], n0, req, 0) =
          [srvfd |-> val[i].srvfd, recvflag |-> 0, sendflag |-> val[i].sendflag,
           recvmsg |-> [n |-> n0, req |-> req], sendmsg |-> val[i].sendmsg]
    BY BufferNumbers, WithRequestRecord
  <2>3. val[i].recvflag = 0
    BY DEF ReadsUnits
  <2>4. \A j \in Slots : \/ j = i /\ val'[j].recvflag = 0 /\ val'[j].sendflag = val[j].sendflag
                            /\ val'[j].sendmsg = val[j].sendmsg
                         \/ val'[j] = val[j]
    <3>. HIDE DEF n0
    <3>. QED BY <2>1, <2>2 DEF TypeInv, SlotTypes
  <2>5. sinq' = sinq /\ inmsg' = inmsg /\ mulq' = mulq
    BY <1>1, <2>1
  <2>6. Stays
    <3>. SUFFICES ASSUME NEW r \in Requests, NEW p, NEW l, At(p, r, l)'
                  PROVE  At(p, r, l)
      BY DEF Stays
    <3>. QED BY <2>4, <2>5, SMTT(30) DEF At
  <2>. QED BY <1>1, <2>6, FlowStays
<1>. QED BY <1>2, <1>3

LEMMA AtSends ==
  ASSUME PairInv, TypeInv, FlowInv, MoreRead, NEW i \in Slots, NEW k \in Nat, SendsUnits(i, k)
  PROVE  FlowInv'
<1>. PICK s : s = val[i].sendmsg.req
  OBVIOUS
<1>. PICK n0 \in Nat : n0 = val[i].sendmsg.n
  <2>1. val[i].sendmsg.n \in 0 .. RspLen /\ RspLen \in Nat
    BY BufferNumbers, RightShape, Lengths
  <2>. QED BY <2>1
<1>. DEFINE here == <<"send", i, 0>>
<1>1. /\ val[i].sendflag = 1 /\ s \in Requests /\ UNCHANGED messages /\ n0 + k <= RspLen
  <2>1. val[i].sendmsg.n \in 0 .. RspLen /\ k <= RspLen - n0 /\ RspLen \in Nat
    BY RightShape, Lengths DEF SendsUnits, TypeInv, SlotTypes
  <2>. QED BY <2>1 DEF SendsUnits, TypeInv, SlotTypes, RightSlot
<1>2. At(here, s, n0)
  BY <1>1 DEF At
<1>3. UnitsOf(s) = n0 /\ s[2] <= RequestsRead(s[1])
  BY <1>1, <1>2 DEF FlowInv, ReadBefore
<1>4. UnitsOf(s)' = n0 + k /\ \A r : r # s => UnitsOf(r)' = UnitsOf(r)
  BY <1>3, UnitsGrow
<1>5. /\ \A j \in Slots : /\ val'[j].recvmsg = val[j].recvmsg
                          /\ val'[j].recvflag = val[j].recvflag
                          /\ j # i => val'[j] = val[j]
      /\ val'[i].sendflag = 1 => val'[i].sendmsg = [n |-> n0 + k, req |-> s]
  BY SendSlot
<1>6. ASSUME NEW r, NEW p, NEW n, At(p, r, n)'
      PROVE  (At(p, r, n) /\ p # here) \/ (p = here /\ r = s /\ n = n0 + k)
  <2>1. ASSUME NEW j \in Slots, p = <<"send", j, 0>>, val'[j].sendflag = 1,
               r = val'[j].sendmsg.req, n = val'[j].sendmsg.n
        PROVE  (At(p, r, n) /\ p # here) \/ (p = here /\ r = s /\ n = n0 + k)
    <3>1. CASE j = i
      BY <1>5, <2>1, <3>1
    <3>2. CASE j # i
      BY <1>5, <2>1, <3>2 DEF At
    <3>. QED BY <3>1, <3>2
  <2>2. \/ \E j \in Slots : /\ p = <<"send", j, 0>> /\ val'[j].sendflag = 1
                            /\ r = val'[j].sendmsg.req /\ n = val'[j].sendmsg.n
        \/ At(p, r, n) /\ p[1] # "send"
    BY <1>1, <1>5, <1>6 DEF At, messages
  <2>. QED BY <2>1, <2>2
<1>7. ASSUME NEW r \in Requests, NEW p, NEW n, At(p, r, n), p # here
      PROVE  r # s
  BY <1>2, <1>7 DEF FlowInv, InOnePlace
<1>8. \A r \in Requests : /\ r[1] \in Conns /\ r[2] \in Nat
                          /\ RequestsRead(r[1]) <= RequestsRead(r[1])'
                          /\ RequestsRead(r[1]) \in Nat /\ RequestsRead(r[1])' \in Nat
  BY DEF MoreRead, Requests
<1>. HIDE DEF here
<1>9. InOnePlace'
  <2>. SUFFICES ASSUME NEW r \in Requests, NEW p, NEW q, NEW m, NEW n, At(p, r, m)', At(q, r, n)'
                PROVE  p = q
    BY DEF InOnePlace
  <2>1. (At(p, r, m) /\ p # here) \/ (p = here /\ r = s)
    BY <1>6
  <2>2. (At(q, r, n) /\ q # here) \/ (q = here /\ r = s)
    BY <1>6
  <2>. QED BY <1>7, <2>1, <2>2 DEF FlowInv, InOnePlace
<1>10. ReadBefore'
  <2>. SUFFICES ASSUME NEW r \in Requests, NEW p, NEW n, At(p, r, n)'
                PROVE  r[2] <= RequestsRead(r[1])' /\ UnitsOf(r)' = n
    BY DEF ReadBefore
  <2>1. CASE At(p, r, n) /\ p # here
    <3>1. r[2] <= RequestsRead(r[1]) /\ UnitsOf(r) = n /\ r # s
      BY <1>7, <2>1 DEF FlowInv, ReadBefore
    <3>. QED BY <1>4, <1>8, <3>1
  <2>2. CASE p = here /\ r = s /\ n = n0 + k
    BY <1>3, <1>4, <1>8, <2>2
  <2>. QED BY <1>6, <2>1, <2>2
<1>11. Delivered'
  <2>. SUFFICES ASSUME NEW r \in Requests
                PROVE  /\ UnitsOf(r)' <= RspLen
                       /\ UnitsOf(r)' > 0 => r[2] <= RequestsRead(r[1])'
    BY DEF Delivered
  <2>1. CASE r = s
    <3>1. UnitsOf(r)' <= RspLen
      BY <1>1, <1>4, <2>1
    <3>2. r[2] <= RequestsRead(r[1])'
      BY <1>3, <1>8, <2>1
    <3>. QED BY <3>1, <3>2
  <2>2. CASE r # s
    <3>1. UnitsOf(r) <= RspLen /\ (UnitsOf(r) > 0 => r[2] <= RequestsRead(r[1]))
      BY DEF FlowInv, Delivered
    <3>. QED BY <1>4, <1>8, <2>2, <3>1
  <2>. QED BY <2>1, <2>2
<1>. QED BY <1>9, <1>10, <1>11 DEF FlowInv

LEMMA FlowInvStep ==
  ASSUME PairInv, TypeInv, TypeInv', StreamInv, FlowInv, FlowStep
  PROVE  FlowInv'
<1>1. MoreRead
  BY ReadGrows
<1>2. CASE Idles \/ Clears \/ Drops
  <2>1. Stays /\ inbox' = inbox
    BY <1>2, AtIdles, AtClears, AtDrops DEF Idles, Clears, Drops, bytes
  <2>. QED BY <1>1, <2>1, FlowStays
<1>3. CASE AcceptsOne \/ EndsAll
  <2>1. Stays /\ inbox' = inbox
    BY <1>3, AtAccepts, AtEnds
  <2>. QED BY <1>1, <2>1, FlowStays
<1>4. ASSUME NEW i \in Slots, NEW fd \in In!Fds, ClosesOne(fd, i)
      PROVE  FlowInv'
  <2>1. Stays /\ inbox' = inbox
    BY <1>4, AtCloses
  <2>. QED BY <1>1, <2>1, FlowStays
<1>5. ASSUME NEW c \in Conns, Begins(c) \/ Asks(c) \/ GoesOn(c)
      PROVE  FlowInv'
  <2>1. inbox' = inbox /\ UNCHANGED <<val, messages>>
    BY <1>5 DEF Begins, Asks, GoesOn, bytes
  <2>2. Stays
    BY <2>1 DEF Stays, At, messages
  <2>. QED BY <1>1, <2>1, <2>2, FlowStays
<1>. QED
  BY <1>1, <1>2, <1>3, <1>4, <1>5, AtPops, AtPutsAnswer, AtTakesAnswer, AtRetries, AtReads, AtSends
     DEF FlowStep, InFlow

LEMMA FlowInit ==
  ASSUME Init
  PROVE  FlowInv
<1>1. /\ sinq = <<>> /\ inmsg.id # "LOGIN" /\ \A c \in Conns : inbox[c] = <<>>
      /\ \A i \in Slots : mulq[i] = <<>>
  BY DEF Init, Mid!MidInit, Mid!NoMsg, Cli!CliInit
<1>2. \A i \in Slots : val[i].recvflag = 0 /\ val[i].sendflag = 0
  BY Numbers, ErasedHoldsNone DEF Init, In!InInit, In!AllErased
<1>3. \A p, r, n : ~At(p, r, n)
  BY <1>1, <1>2 DEF At
<1>4. \A r : UnitsOf(r) = 0
  <2>1. \A r : UnitSet(r) = {}
    BY <1>1, Units
  <2>. QED BY <2>1, Units, FS_EmptySet
<1>. QED BY <1>3, <1>4, Lengths DEF FlowInv, InOnePlace, ReadBefore, Delivered

(* The requests keep their places. *)
LEMMA FlowInvariant == Spec => [](TypeInv /\ StreamInv /\ FlowInv)
<1>1. Init => TypeInv /\ StreamInv /\ FlowInv
  BY TypeInit, StreamInit, FlowInit
<1>2. /\ PairInv /\ PlaceInv /\ TypeInv /\ TypeInv' /\ StreamInv /\ FlowInv /\ [Next]_vars
      => StreamInv' /\ FlowInv'
  BY FlowSteps, StreamStep, FlowInvStep
<1>. QED BY <1>1, <1>2, TypeInvariant, PTL DEF Spec

(* No client is sent an answer to a request nobody made, and no request's  *)
(* answer is sent twice or more than whole, to any client, through every   *)
(* retry of a full queue, close of a socket and restart of a server.       *)
THEOREM EveryAnswerOnce == Spec => []AnsweredOnce
<1>1. TypeInv /\ StreamInv /\ FlowInv => AnsweredOnce
  <2>. SUFFICES ASSUME TypeInv, StreamInv, FlowInv
                PROVE  AnsweredOnce
    OBVIOUS
  <2>1. ASSUME NEW c \in Conns, NEW j \in 1 .. Len(inbox[c])
        PROVE  inbox[c][j][2] <= Cli!Asked(inbox[c][j][1])
    <3>1. inbox[c] \in Seq(Requests)
      BY DEF TypeInv, ClientTypes
    <3>2. PICK r \in Requests : r = inbox[c][j]
      BY <3>1
    <3>3. PICK d \in Conns, k \in Nat : d = r[1] /\ k = r[2]
      BY <3>2 DEF Requests
    <3>4. <<c, j>> \in UnitSet(r)
      BY <3>2, Units
    <3>5. UnitsOf(r) \in Nat /\ UnitsOf(r) > 0
      BY <3>4, UnitsCount
    <3>6. k <= RequestsRead(d)
      BY <3>3, <3>5 DEF FlowInv, Delivered
    <3>7. Consumed(d) \in Nat /\ sent[d] \in Nat /\ Consumed(d) <= sent[d]
      BY StreamNumbers DEF StreamInv, Streams, Consumed
    <3>8. RequestsRead(d) \in Nat /\ sent[d] \div ReqLen \in Nat
          /\ RequestsRead(d) <= sent[d] \div ReqLen
      <4>1. PICK a \in Nat, b \in Nat : a = Consumed(d) /\ b = sent[d] /\ a <= b
        BY <3>7
      <4>2. a \div ReqLen \in Nat /\ b \div ReqLen \in Nat /\ a \div ReqLen <= b \div ReqLen
        BY <4>1, Lengths, Division, QuotientGrows
      <4>. QED BY <4>1, <4>2 DEF RequestsRead, Consumed
    <3>. QED BY <3>2, <3>3, <3>6, <3>8 DEF Cli!Asked
  <2>. QED BY <2>1 DEF AnsweredOnce, FlowInv, Delivered
<1>. QED BY <1>1, FlowInvariant, PTL

-----------------------------------------------------------------------------
(* midsrv's map *)

(* A registration is a slot's index with the descriptor that goes with it, *)
(* and no index is registered twice.                                       *)
MapTables ==
  {m \in [pindex : [Slots -> Slots \cup {0}], psrvfd : [Slots -> Nat]] :
     /\ \A e \in Slots : m.pindex[e] # 0 => m.psrvfd[e] = FdOf(m.pindex[e])
     /\ \A e, f \in Slots : m.pindex[e] # 0 /\ m.pindex[e] = m.pindex[f] => e = f}

Indexes(m) == {m.pindex[e] : e \in Slots} \ {0}

LEMMA TableEntries ==
  /\ Mid!Map!Entries = Slots /\ Slots \subseteq Nat /\ 0 \notin Slots
  /\ \A m : \A x \in Nat : Mid!Map!EntriesWith(m.pindex, x) = {e \in Slots : m.pindex[e] = x}
  /\ \A i \in Slots : FdOf(i) \in Nat
BY Numbers DEF Mid!Map!EntriesWith, Mid!Map!Entries, FdOf

LEMMA TableFilled ==
  ASSUME NEW m \in MapTables, NEW e \in Slots, NEW i \in Slots \cup {0}, NEW fd \in Nat,
         i # 0 => fd = FdOf(i) /\ i \notin Indexes(m)
  PROVE  /\ Mid!Map!Filled(m, e, i, fd) \in MapTables
         /\ \A f \in Slots : Mid!Map!Filled(m, e, i, fd).pindex[f] =
                               IF f = e THEN i ELSE m.pindex[f]
<1>. DEFINE n == Mid!Map!Filled(m, e, i, fd)
<1>1. /\ m \in [pindex : [Slots -> Slots \cup {0}], psrvfd : [Slots -> Nat]]
      /\ \A a \in Slots : m.pindex[a] # 0 => m.psrvfd[a] = FdOf(m.pindex[a])
      /\ \A a, b \in Slots : m.pindex[a] # 0 /\ m.pindex[a] = m.pindex[b] => a = b
  BY DEF MapTables
<1>2. /\ n \in [pindex : [Slots -> Slots \cup {0}], psrvfd : [Slots -> Nat]]
      /\ \A f \in Slots : /\ n.pindex[f] = IF f = e THEN i ELSE m.pindex[f]
                          /\ n.psrvfd[f] = IF f = e THEN fd ELSE m.psrvfd[f]
  BY <1>1 DEF Mid!Map!Filled
<1>. HIDE DEF n
<1>3. i # 0 => \A f \in Slots : m.pindex[f] # i
  BY DEF Indexes
<1>4. \A f \in Slots : n.pindex[f] # 0 => n.psrvfd[f] = FdOf(n.pindex[f])
  BY <1>1, <1>2
<1>5. \A a, b \in Slots : n.pindex[a] # 0 /\ n.pindex[a] = n.pindex[b] => a = b
  BY <1>1, <1>2, <1>3
<1>6. n \in MapTables
  BY <1>2, <1>4, <1>5 DEF MapTables
<1>. QED BY <1>2, <1>6 DEF n

(* A table without a free entry holds every slot's index. *)
LEMMA TableFull ==
  ASSUME NEW m \in MapTables, \A e \in Slots : m.pindex[e] # 0, NEW i \in Slots
  PROVE  i \in Indexes(m)
<1>1. SUFFICES ASSUME i \notin Indexes(m)
               PROVE  FALSE
  OBVIOUS
<1>. DEFINE f == m.pindex
            T == Slots \ {i}
<1>2. \A e \in Slots : f[e] \in T
  BY <1>1, TableEntries DEF Indexes, MapTables
<1>3. f \in [Slots -> T]
  BY <1>2 DEF MapTables
<1>4. IsFiniteSet(Slots) /\ Cardinality(Slots) = EPOLL_SIZE
  <2>1. IsFiniteSet(1 .. EPOLL_SIZE)
        /\ Cardinality(1 .. EPOLL_SIZE) = IF 1 > EPOLL_SIZE THEN 0 ELSE EPOLL_SIZE - 1 + 1
    BY Numbers, FS_Interval
  <2>. QED BY <2>1, Numbers
<1>5. IsFiniteSet(T) /\ Cardinality(T) = EPOLL_SIZE - 1
  BY <1>4, FS_RemoveElement
<1>6. Cardinality(T) < Cardinality(Slots)
  BY <1>4, <1>5, Numbers
<1>7. \A a, b \in Slots : f[a] = f[b] => a = b
  BY DEF MapTables
<1>. HIDE DEF f, T
<1>8. \E a, b \in Slots : a # b /\ f[a] = f[b]
  BY <1>3, <1>4, <1>5, <1>6, FS_PigeonHole
<1>. QED BY <1>7, <1>8

LEMMA TableReg ==
  ASSUME NEW m \in MapTables, NEW i \in Slots
  PROVE  /\ Mid!Map!Reg(m, i, FdOf(i)) \in MapTables
         /\ Indexes(Mid!Map!Reg(m, i, FdOf(i))) = Indexes(m) \cup {i}
<1>. DEFINE free == Mid!Map!EntriesWith(m.pindex, 0)
            n == Mid!Map!Reg(m, i, FdOf(i))
<1>1. i # 0 /\ FdOf(i) \in Nat /\ i \in Nat
  BY TableEntries
<1>2. free = {e \in Slots : m.pindex[e] = 0}
  BY TableEntries
<1>3. Mid!Map!RegFails(m, i) <=> i \in Indexes(m) \/ free = {}
  <2>1. Mid!Map!EntriesWith(m.pindex, i) = {e \in Slots : m.pindex[e] = i}
    BY <1>1, TableEntries
  <2>2. Mid!Map!EntriesWith(m.pindex, i) # {} <=> i \in Indexes(m)
    BY <1>1, <2>1 DEF Indexes
  <2>. HIDE DEF free
  <2>3. Mid!Map!RegFails(m, i) <=> Mid!Map!EntriesWith(m.pindex, i) # {} \/ free = {}
    BY DEF Mid!Map!RegFails, free
  <2>. QED BY <2>2, <2>3
<1>. HIDE DEF free
<1>4. CASE Mid!Map!RegFails(m, i)
  <2>1. n = m
    BY <1>4 DEF Mid!Map!Reg
  <2>2. i \in Indexes(m)
    BY <1>2, <1>3, <1>4, TableFull
  <2>. QED BY <2>1, <2>2
<1>5. CASE ~Mid!Map!RegFails(m, i)
  <2>1. PICK e \in free : n = Mid!Map!Filled(m, e, i, FdOf(i))
    <3>1. free # {} /\ free \subseteq Nat
      BY <1>2, <1>3, <1>5, TableEntries
    <3>2. Mid!Map!Min(free) \in free
      BY <3>1, MapMin
    <3>. QED BY <1>5, <3>2 DEF Mid!Map!Reg, free
  <2>2. i \notin Indexes(m) /\ e \in Slots /\ m.pindex[e] = 0
    BY <1>2, <1>3, <1>5
  <2>3. n \in MapTables /\ \A f \in Slots : n.pindex[f] = IF f = e THEN i ELSE m.pindex[f]
    BY <1>1, <2>1, <2>2, TableFilled
  <2>. HIDE DEF n
  <2>4. Indexes(n) = Indexes(m) \cup {i}
    BY <1>1, <2>2, <2>3 DEF Indexes
  <2>. QED BY <2>3, <2>4 DEF n
<1>. QED BY <1>4, <1>5

LEMMA TableDel ==
  ASSUME NEW m \in MapTables, NEW i \in Nat \ {0}
  PROVE  /\ Mid!Map!Del(m, i) \in MapTables
         /\ Indexes(Mid!Map!Del(m, i)) = Indexes(m) \ {i}
<1>. DEFINE found == Mid!Map!EntriesWith(m.pindex, i)
            n == Mid!Map!Del(m, i)
<1>1. found = {e \in Slots : m.pindex[e] = i}
  BY TableEntries
<1>. HIDE DEF found
<1>2. CASE found = {}
  <2>1. n = m
    BY <1>2 DEF Mid!Map!Del, found
  <2>. QED BY <1>1, <1>2, <2>1 DEF Indexes
<1>3. CASE found # {}
  <2>1. PICK e \in found : n = Mid!Map!Filled(m, e, 0, 0)
    <3>1. found \subseteq Nat
      BY <1>1, TableEntries
    <3>2. Mid!Map!Min(found) \in found
      BY <1>3, <3>1, MapMin
    <3>. QED BY <1>3, <3>2 DEF Mid!Map!Del, found
  <2>2. e \in Slots /\ m.pindex[e] = i
    BY <1>1
  <2>3. n \in MapTables /\ \A f \in Slots : n.pindex[f] = IF f = e THEN 0 ELSE m.pindex[f]
    BY <2>1, <2>2, TableFilled
  <2>. HIDE DEF n
  <2>4. \A f \in Slots : m.pindex[f] = i => f = e
    BY <2>2 DEF MapTables
  <2>5. Indexes(n) = Indexes(m) \ {i}
    BY <2>2, <2>3, <2>4 DEF Indexes
  <2>. QED BY <2>3, <2>5 DEF n
<1>. QED BY <1>2, <1>3

LEMMA TableNone ==
  Mid!Map!Cleared \in MapTables /\ Indexes(Mid!Map!Cleared) = {}
<1>1. Mid!Map!Cleared = [pindex |-> [e \in Slots |-> 0], psrvfd |-> [e \in Slots |-> 0]]
  BY TableEntries DEF Mid!Map!Cleared
<1>. DEFINE n == Mid!Map!Cleared
<1>2. /\ n \in [pindex : [Slots -> Slots \cup {0}], psrvfd : [Slots -> Nat]]
      /\ \A e \in Slots : n.pindex[e] = 0
  BY <1>1
<1>. HIDE DEF n
<1>3. n \in MapTables /\ Indexes(n) = {}
  BY <1>2 DEF MapTables, Indexes
<1>. QED BY <1>3 DEF n

LEMMA TableRegistered ==
  ASSUME NEW m \in MapTables
  PROVE  Mid!Map!Registered(m) = {<<i, FdOf(i)>> : i \in Indexes(m)}
<1>1. Mid!Map!Registered(m) =
        {<<m.pindex[e], m.psrvfd[e]>> : e \in {f \in Slots : m.pindex[f] # 0}}
  BY TableEntries DEF Mid!Map!Registered
<1>2. \A e \in Slots : m.pindex[e] # 0 => m.psrvfd[e] = FdOf(m.pindex[e])
  BY DEF MapTables
<1>. QED BY <1>1, <1>2 DEF Indexes

(* What midsrv makes of its map by the messages of a queue.  With a slot   *)
(* for every connection a NEW_CONNECT is about a slot.                     *)
MapMsgs == {m \in Msgs : m.id = "NEW_CONNECT" => m.srcid \in Slots /\ m.dstid = FdOf(m.srcid)}

LEMMA CtlFields ==
  ASSUME NEW m \in MapMsgs
  PROVE  /\ m.id \in {"NEW_CONNECT", "CLO_CONNECT", "LOGIN"}
         /\ m.id = "NEW_CONNECT" => m.srcid \in Slots /\ m.dstid = FdOf(m.srcid)
         /\ m.id = "CLO_CONNECT" => m.srcid \in Nat \ {0}
<1>1. m \in CtlMsgs \/ m \in LoginMsgs
  BY DEF MapMsgs, Msgs
<1>2. m \in CtlMsgs => m.id \in {"NEW_CONNECT", "CLO_CONNECT"} /\ m.srcid \in Slots \cup {65535}
  BY DEF CtlMsgs
<1>3. m \in LoginMsgs => m.id = "LOGIN"
  BY DEF LoginMsgs
<1>4. Slots \cup {65535} \subseteq Nat \ {0}
  BY TableEntries
<1>. QED BY <1>1, <1>2, <1>3, <1>4 DEF MapMsgs

LEMMA AppliedTable ==
  ASSUME NEW t \in MapTables, NEW m \in MapMsgs
  PROVE  /\ Applied(t, m) \in MapTables
         /\ m.id = "NEW_CONNECT" => Indexes(Applied(t, m)) = Indexes(t) \cup {m.srcid}
         /\ m.id = "CLO_CONNECT" => Indexes(Applied(t, m)) = Indexes(t) \ {m.srcid}
         /\ m.id = "LOGIN" => Applied(t, m) = t
BY CtlFields, TableReg, TableDel DEF Applied

AppliedStep == [p \in MapTables \X MapMsgs |-> Applied(p[1], p[2])]

Fore(t, s) == FoldLeft(Applied, t, s)

LEMMA ForeFolds ==
  ASSUME NEW t \in MapTables, NEW s \in Seq(MapMsgs)
  PROVE  /\ Fore(t, s) = Folded(s, t, AppliedStep)
         /\ Foldable(s, t, AppliedStep, MapTables, MapMsgs)
<1>. DEFINE step == AppliedStep
            iter == CHOOSE g : g = [u \in SUBSET DOMAIN s |->
                      IF u = {} THEN t ELSE Applied(g[u \ {Max(u)}], s[Max(u)])]
<1>1. Fore(t, s) = iter[DOMAIN s]
  BY DEF Fore, FoldLeft, MapThenFoldSet
<1>2. Foldable(s, t, step, MapTables, MapMsgs)
  BY AppliedTable DEF Foldable, AppliedStep
<1>3. PICK g \in [SUBSET DOMAIN s -> MapTables] : Folding(g, s, t, step)
  BY <1>2, FoldExists
<1>. HIDE DEF step
<1>a. \A a \in MapTables : \A b \in MapMsgs : step[<<a, b>>] = Applied(a, b)
  BY DEF step, AppliedStep
<1>4. iter = [u \in SUBSET DOMAIN s |->
                IF u = {} THEN t ELSE Applied(iter[u \ {Max(u)}], s[Max(u)])]
  <2>1. ASSUME NEW u \in SUBSET DOMAIN s, u # {}
        PROVE  step[<<g[u \ {Max(u)}], s[Max(u)]>>] = Applied(g[u \ {Max(u)}], s[Max(u)])
    <3>1. Max(u) \in DOMAIN s
      BY <2>1, MaxInDomain
    <3>2. s[Max(u)] \in MapMsgs /\ g[u \ {Max(u)}] \in MapTables
      BY <3>1
    <3>. QED BY <1>a, <3>2
  <2>2. g = [u \in SUBSET DOMAIN s |->
               IF u = {} THEN t ELSE Applied(g[u \ {Max(u)}], s[Max(u)])]
    BY <1>3, <2>1 DEF Folding
  <2>. QED BY <2>2
<1>. HIDE DEF iter
<1>5. iter[{}] = t
  BY <1>4
<1>6. ASSUME NEW k \in 1 .. Len(s), iter[1 .. k - 1] \in MapTables
      PROVE  iter[1 .. k] = step[<<iter[1 .. k - 1], s[k]>>]
  <2>1. Max(1 .. k) = k /\ (1 .. k) \ {k} = 1 .. k - 1 /\ 1 .. k # {}
    BY PrefixMax
  <2>2. 1 .. k \in SUBSET DOMAIN s
    OBVIOUS
  <2>3. iter[1 .. k] = Applied(iter[1 .. k - 1], s[k])
    BY <1>4, <2>1, <2>2
  <2>4. s[k] \in MapMsgs
    OBVIOUS
  <2>. QED BY <1>a, <1>6, <2>3, <2>4
<1>7. iter[DOMAIN s] = Folded(s, t, step)
  BY <1>2, <1>5, <1>6, FoldedUnique
<1>. QED BY <1>1, <1>2, <1>7 DEF step

LEMMA ForeEmpty ==
  ASSUME NEW t \in MapTables
  PROVE  Fore(t, <<>>) = t
<1>. DEFINE s == <<>>
<1>1. s \in Seq(MapMsgs)
  OBVIOUS
<1>. HIDE DEF s
<1>2. /\ Fore(t, s) = Folded(s, t, AppliedStep)
      /\ Foldable(s, t, AppliedStep, MapTables, MapMsgs)
  BY <1>1, ForeFolds
<1>3. Folded(<<>>, t, AppliedStep) = t
  BY <1>2, FoldedEmpty
<1>. QED BY <1>2, <1>3 DEF s

LEMMA ForeAppend ==
  ASSUME NEW t \in MapTables, NEW s \in Seq(MapMsgs), NEW m \in MapMsgs
  PROVE  Fore(t, s) \in MapTables /\ Fore(t, Append(s, m)) = Applied(Fore(t, s), m)
<1>. DEFINE u == Folded(s, t, AppliedStep)
<1>1. Fore(t, s) = u /\ Foldable(s, t, AppliedStep, MapTables, MapMsgs)
  BY ForeFolds
<1>2. Append(s, m) \in Seq(MapMsgs)
  OBVIOUS
<1>3. Fore(t, Append(s, m)) = Folded(Append(s, m), t, AppliedStep)
  BY <1>2, ForeFolds
<1>4. Folded(Append(s, m), t, AppliedStep) = AppliedStep[<<u, m>>]
  BY <1>1, FoldedAppend
<1>5. u \in MapTables
  BY <1>1, FoldedType
<1>. HIDE DEF u
<1>. QED BY <1>1, <1>3, <1>4, <1>5 DEF AppliedStep

LEMMA ForeHead ==
  ASSUME NEW t \in MapTables, NEW s \in Seq(MapMsgs), NEW m \in MapMsgs
  PROVE  Fore(t, <<m>> \o s) = Fore(Applied(t, m), s)
<1>. DEFINE q == <<m>> \o s
<1>1. q \in Seq(MapMsgs) /\ q # <<>> /\ Head(q) = m /\ Tail(q) = s
  OBVIOUS
<1>. HIDE DEF q
<1>2. /\ Fore(t, q) = Folded(q, t, AppliedStep)
      /\ Foldable(q, t, AppliedStep, MapTables, MapMsgs)
  BY <1>1, ForeFolds
<1>3. Folded(q, t, AppliedStep) = Folded(s, AppliedStep[<<t, m>>], AppliedStep)
  <2>1. Folded(q, t, AppliedStep) = Folded(Tail(q), AppliedStep[<<t, Head(q)>>], AppliedStep)
    BY <1>1, <1>2, FoldedHead
  <2>. QED BY <1>1, <2>1
<1>4. AppliedStep[<<t, m>>] = Applied(t, m)
  BY DEF AppliedStep
<1>5. Applied(t, m) \in MapTables
  BY AppliedTable
<1>6. Fore(Applied(t, m), s) = Folded(s, Applied(t, m), AppliedStep)
  BY <1>5, ForeFolds
<1>. QED BY <1>2, <1>3, <1>4, <1>6 DEF q

(* The slots that midsrv is to know of. *)
Known == {i \in Slots : Live(i) /\ ConnOf(i) \notin orphans}

(* What a message makes of a set of indexes. *)
After(S, m) ==
  CASE m.id = "NEW_CONNECT" -> S \cup {m.srcid}
    [] m.id = "CLO_CONNECT" -> S \ {m.srcid}
    [] OTHER -> S

LEMMA AppliedIndexes ==
  ASSUME NEW t \in MapTables, NEW m \in MapMsgs
  PROVE  Applied(t, m) \in MapTables /\ Indexes(Applied(t, m)) = After(Indexes(t), m)
BY AppliedTable, CtlFields DEF After

(* The orphans are no longer waiting, nor idle: none is accepted again. *)
Outdated == \A c \in orphans : /\ cli[c] # "idle"
                               /\ \A j \in 1 .. Len(backlog) : backlog[j] # c

(* A control message is refused, or an epoll_ctl fails, when insrv opens or*)
(* closes a socket and the queue to midsrv stays as it is: insrv ignores   *)
(* both, and midsrv never hears of it.                                     *)
TellsMidsrv == sock' # sock /\ pc' # "down" => sinq' # sinq

LEMMA LoopGoesOn ==
  ASSUME InStep
  PROVE  pc' # "down"
<1>1. (\E e : In!Done(e)) => pc' # "down"
  BY DEF In!Done
<1>. QED
  BY <1>1 DEF InStep, In!InNext, In!PopSkips, In!PopToSocket, In!PopToClosed, In!ScanOn,
       In!EpollWait, In!Accept, In!AcceptUnwatched, In!Accepted, In!On, In!SkipEvent,
       In!Send, In!SendError, In!RetryRetained, In!Receive, In!ReceiveEnd

LEMMA KnownKept ==
  ASSUME Kept, orphans' = orphans
  PROVE  Known' = Known
BY DEF Kept, Known, Live, ConnOf

LEMMA KnownUpdate ==
  ASSUME PairInv, NEW i \in Slots, NEW s, IsSlot(s), s.srvfd = val[i].srvfd,
         val' = [val EXCEPT ![i] = s], sock' = sock, orphans' = orphans
  PROVE  Known' = Known
<1>1. Kept
  BY KeptUpdate DEF PairInv
<1>. QED BY <1>1, KnownKept

LEMMA PushedOrNot ==
  ASSUME NEW s, NEW m
  PROVE  Pushed(s, m) \in {s, Append(s, m)}
BY DEF Pushed

LEMMA LastOf ==
  ASSUME NEW M, NEW s \in Seq(M), NEW m, Append(s, m) \in Seq(M)
  PROVE  m \in M
<1>1. Len(Append(s, m)) = Len(s) + 1 /\ Append(s, m)[Len(s) + 1] = m /\ Len(s) \in Nat
  OBVIOUS
<1>2. Append(s, m)[Len(s) + 1] \in M
  BY <1>1
<1>. QED BY <1>1, <1>2

(* insrv hands over a login, or keeps it: nothing midsrv is to know of.    *)
LEMMA HandsTells ==
  ASSUME PairInv, TypeInv, TypeInv', NEW i \in Slots, Live(i), NEW req, HandsOver(i, req),
         sock' = sock, orphans' = orphans
  PROVE  \/ Known' = Known /\ sinq' = sinq
         \/ \E m \in MapMsgs : sinq' = Append(sinq, m) /\ Known' = After(Known, m)
<1>. DEFINE m == Login(val[i].srvfd, req)
            s == IF SinqTakes(sinq, m) THEN In!WithRequest(val[i], 0, NoRequest, 0)
                 ELSE In!WithRequest(val[i], ReqLen, req, 1)
<1>1. sinq' \in {sinq, Append(sinq, m)}
  <2>1. sinq' = Pushed(sinq, m)
    BY DEF HandsOver
  <2>. HIDE DEF m
  <2>. QED BY <2>1, PushedOrNot
<1>2. val' = [val EXCEPT ![i] = s]
  BY DEF HandsOver
<1>3. IsSlot(val[i])
  BY DEF PairInv, Table
<1>4. IsSlot(s) /\ s.srvfd = val[i].srvfd
  <2>. HIDE DEF m
  <2>. QED BY <1>3, SlotWithRequest
<1>5. m.id = "LOGIN"
  BY DEF Login
<1>. HIDE DEF m, s
<1>6. Known' = Known
  BY <1>2, <1>4, KnownUpdate
<1>7. CASE sinq' = Append(sinq, m)
  <2>1. sinq \in Seq(Msgs) /\ Append(sinq, m) \in Seq(Msgs)
    BY <1>7 DEF TypeInv, QueueTypes
  <2>2. m \in Msgs
    BY <2>1, LastOf
  <2>3. m \in MapMsgs
    BY <1>5, <2>2 DEF MapMsgs
  <2>4. After(Known, m) = Known
    BY <1>5 DEF After
  <2>. QED BY <1>6, <1>7, <2>3, <2>4
<1>. QED BY <1>1, <1>6, <1>7

(* A connection that is accepted gets a slot, and midsrv is told of it.     *)
LEMMA AcceptOpens ==
  ASSUME PairInv, OpenInv, MaxOpen \in Nat, MaxOpen <= EPOLL_SIZE, Outdated,
         AcceptsOne, TellsMidsrv, pc' # "down", orphans' = orphans
  PROVE  \E i \in Slots :
           /\ ~Live(i) /\ FdOf(i) \in In!Fds /\ ~Open(FdOf(i)) /\ FdOf(i) # -1
           /\ \A j \in Slots :
                val'[j] = IF j = i THEN In!TakenBy(val[i], FdOf(i)) ELSE val[j]
           /\ sock' = [e \in In!Fds |-> IF e = FdOf(i) THEN backlog[1] ELSE sock[e]]
           /\ \A j \in Slots : j # i /\ Live(j) => sock'[val[j].srvfd] = sock[val[j].srvfd]
           /\ sinq' = Append(sinq, NewConnect(i, FdOf(i))) /\ Known' = Known \cup {i}
<1>. DEFINE i == In!Idle
            fd == In!NewFd
            m == NewConnect(i, fd)
<1>1. /\ backlog # <<>> /\ backlog[1] \in Conns /\ 1 \in 1 .. Len(backlog)
      /\ \E e \in In!Fds : sock[e] = In!Closed
      /\ fd \in In!Fds /\ ~Open(fd)
      /\ sock' = [e \in In!Fds |-> IF e = fd THEN backlog[1] ELSE sock[e]]
  BY AcceptForm DEF AcceptsOne
<1>2. i \in Slots /\ fd = FdOf(i) /\ ~Live(i)
  <2>1. PICK j \in Slots : ~Live(j)
    BY <1>1, RoomForNext
  <2>2. i # -1
    <3>1. val[j].srvfd < 0
      BY <2>1 DEF Live, PairInv, Paired
    <3>. QED BY <2>1, <3>1, NoIdleSlot
  <2>3. i \in Slots /\ fd = FdOf(i)
    BY <1>1, <2>2, NewPair DEF PairInv
  <2>. QED BY <1>1, <2>3 DEF PairInv, Paired
<1>3. val' = [val EXCEPT ![i] = In!TakenBy(val[i], fd)]
  <2>1. In!SlotTaken /\ i # -1
    BY <1>2, Numbers DEF AcceptsOne, Accepts
  <2>. QED BY <2>1 DEF In!SlotTaken
<1>4. sinq' \in {sinq, Append(sinq, m)}
  <2>1. sinq' \in {sinq, Pushed(sinq, m)}
    BY DEF AcceptsOne
  <2>. HIDE DEF m
  <2>. QED BY <2>1, PushedOrNot
<1>6. IsSlot(val[i]) /\ val = [j \in Slots |-> val[j]]
  BY <1>2 DEF PairInv, Table
<1>7. /\ In!TakenBy(val[i], fd).srvfd = fd /\ fd # -1
      /\ \A j \in Slots : val'[j] = IF j = i THEN In!TakenBy(val[i], fd) ELSE val[j]
  BY <1>1, <1>2, <1>3, <1>6, SlotTakenBy, FdRange
<1>. HIDE DEF i, fd, m
<1>8. sock' # sock
  <2>1. sock'[fd] = backlog[1] /\ sock[fd] = In!Closed
    BY <1>1 DEF Open
  <2>. QED BY <1>1, <2>1, ClosedIsNoConn
<1>9. sinq' = Append(sinq, m)
  BY <1>4, <1>8 DEF TellsMidsrv
<1>10. \A j \in Slots : j # i /\ Live(j) =>
         val'[j] = val[j] /\ sock'[val[j].srvfd] = sock[val[j].srvfd]
  BY <1>1, <1>2, <1>7, LiveFd, OtherFd
<1>11. backlog[1] \notin orphans
  BY <1>1 DEF Outdated
<1>12. Known' = Known \cup {i}
  <2>1. ASSUME NEW j \in Slots, j # i
        PROVE  (j \in Known') <=> (j \in Known)
    BY <1>7, <1>10, <2>1 DEF Known, Live, ConnOf
  <2>2. i \in Known'
    BY <1>1, <1>2, <1>7, <1>11 DEF Known, Live, ConnOf
  <2>3. Known' \subseteq Slots /\ Known \subseteq Slots
    BY DEF Known
  <2>. QED BY <2>1, <2>2, <2>3
<1>14. m = NewConnect(i, FdOf(i))
  BY <1>2 DEF m
<1>. QED BY <1>1, <1>2, <1>7, <1>9, <1>10, <1>12, <1>14

LEMMA NewTells ==
  ASSUME NEW i \in Slots, FdOf(i) \in In!Fds
  PROVE  LET m == NewConnect(i, FdOf(i)) IN
         /\ m \in MapMsgs /\ m.id = "NEW_CONNECT" /\ m.srcid = i
         /\ \A S : After(S, m) = S \cup {i}
<1>. DEFINE m == NewConnect(i, FdOf(i))
<1>1. m \in Msgs /\ m.id = "NEW_CONNECT"
  BY MsgKinds
<1>2. m.srcid = U16(i) /\ m.dstid = U16(FdOf(i))
  BY DEF NewConnect
<1>3. m.srcid = i /\ m.dstid = FdOf(i)
  BY <1>2, SmallNumbers
<1>. HIDE DEF m
<1>4. m \in MapMsgs
  BY <1>1, <1>3 DEF MapMsgs
<1>5. \A S : After(S, m) = S \cup {i}
  BY <1>1, <1>3 DEF After
<1>. QED BY <1>1, <1>3, <1>4, <1>5 DEF m

LEMMA AcceptTells ==
  ASSUME PairInv, OpenInv, MaxOpen \in Nat, MaxOpen <= EPOLL_SIZE, Outdated,
         AcceptsOne, TellsMidsrv, pc' # "down", orphans' = orphans
  PROVE  \E m \in MapMsgs : sinq' = Append(sinq, m) /\ Known' = After(Known, m)
<1>1. PICK i \in Slots : /\ FdOf(i) \in In!Fds
                        /\ sinq' = Append(sinq, NewConnect(i, FdOf(i))) /\ Known' = Known \cup {i}
  BY AcceptOpens
<1>. QED BY <1>1, NewTells

(* A connection that is closed leaves its slot, and midsrv is told of it.  *)
LEMMA CloseEnds ==
  ASSUME PairInv, NEW i \in Slots, NEW fd \in In!Fds, ClosesOne(fd, i),
         TellsMidsrv, pc' # "down", orphans' = orphans
  PROVE  /\ Live(i) /\ fd = FdOf(i)
         /\ \A j \in Slots : val'[j] = IF j = i THEN In!Erased ELSE val[j]
         /\ \A j \in Slots : j # i /\ Live(j) => sock'[val[j].srvfd] = sock[val[j].srvfd]
         /\ sinq' = Append(sinq, CloConnect(i, fd)) /\ Known' = Known \ {i}
<1>. DEFINE m == CloConnect(i, fd)
<1>1. /\ val[i].srvfd = fd /\ val' = [val EXCEPT ![i] = In!Erased]
      /\ sock' = [sock EXCEPT ![fd] = In!Closed]
  BY DEF ClosesOne, Closes, In!CloseSlot
<1>2. Live(i) /\ fd = FdOf(i) /\ Open(fd)
  <2>1. Live(i)
    BY <1>1, FdRange DEF Live
  <2>. QED BY <1>1, <2>1, LiveFd
<1>3. sinq' \in {sinq, Append(sinq, m)}
  <2>1. sinq' = Pushed(sinq, m)
    BY DEF ClosesOne
  <2>. HIDE DEF m
  <2>. QED BY <2>1, PushedOrNot
<1>. HIDE DEF m
<1>5. sock = [e \in In!Fds |-> sock[e]] /\ val = [j \in Slots |-> val[j]]
  BY DEF PairInv, Sockets, Table
<1>6. sock' # sock
  BY <1>1, <1>2, <1>5 DEF Open
<1>7. sinq' = Append(sinq, m)
  BY <1>3, <1>6 DEF TellsMidsrv
<1>8. /\ \A j \in Slots : j # i => val'[j] = val[j]
      /\ val'[i] = In!Erased
      /\ \A e \in In!Fds : e # fd => sock'[e] = sock[e]
  BY <1>1, <1>5
<1>9. \A j \in Slots : j # i /\ Live(j) => sock'[val[j].srvfd] = sock[val[j].srvfd]
  BY <1>2, <1>8, LiveFd, OtherFd
<1>10. Known' = Known \ {i}
  <2>1. ASSUME NEW j \in Slots, j # i
        PROVE  (j \in Known') <=> (j \in Known)
    BY <1>8, <1>9, <2>1 DEF Known, Live, ConnOf
  <2>2. i \notin Known'
    BY <1>8, ErasedSlot DEF Known, Live
  <2>3. Known' \subseteq Slots /\ Known \subseteq Slots
    BY DEF Known
  <2>. QED BY <2>1, <2>2, <2>3
<1>. QED BY <1>2, <1>7, <1>8, <1>9, <1>10 DEF m

LEMMA CloTells ==
  ASSUME NEW i \in Slots, NEW fd \in In!Fds
  PROVE  LET m == CloConnect(i, fd) IN
         /\ m \in MapMsgs /\ m.id = "CLO_CONNECT" /\ m.srcid = i
         /\ \A S : After(S, m) = S \ {i}
<1>. DEFINE m == CloConnect(i, fd)
<1>1. m \in Msgs /\ m.id = "CLO_CONNECT"
  BY MsgKinds
<1>2. m.srcid = U16(i)
  BY DEF CloConnect, NewConnect
<1>3. m.srcid = i
  BY <1>2, SmallNumbers
<1>. HIDE DEF m
<1>4. m \in MapMsgs
  BY <1>1 DEF MapMsgs
<1>5. \A S : After(S, m) = S \ {i}
  BY <1>1, <1>3 DEF After
<1>. QED BY <1>1, <1>3, <1>4, <1>5 DEF m

LEMMA CloseTells ==
  ASSUME PairInv, NEW i \in Slots, NEW fd \in In!Fds, ClosesOne(fd, i),
         TellsMidsrv, pc' # "down", orphans' = orphans
  PROVE  \E m \in MapMsgs : sinq' = Append(sinq, m) /\ Known' = After(Known, m)
<1>1. sinq' = Append(sinq, CloConnect(i, fd)) /\ Known' = Known \ {i}
  BY CloseEnds
<1>. QED BY <1>1, CloTells

(* A step of insrv's loop leaves what midsrv is to know as it is, or tells *)
(* midsrv, behind all that it has told it before.                          *)
LEMMA InsrvTells ==
  ASSUME PairInv, TypeInv, TypeInv', OpenInv, MaxOpen \in Nat, MaxOpen <= EPOLL_SIZE,
         Outdated, InStep, TellsMidsrv
  PROVE  \/ Known' = Known /\ sinq' = sinq
         \/ \E m \in MapMsgs : sinq' = Append(sinq, m) /\ Known' = After(Known, m)
<1>1. InFlow /\ pc' # "down" /\ orphans' = orphans
  BY InsrvFlow, LoopGoesOn DEF InStep, histVars
<1>2. \A i \in Slots : IsSlot(val[i])
  BY DEF PairInv, Table
<1>3. CASE Idles
  <2>1. val' = val /\ sock' = sock /\ sinq' = sinq
    BY <1>3 DEF Idles, owners, messages
  <2>. QED BY <1>1, <2>1 DEF Known, Live, ConnOf
<1>4. ASSUME NEW i \in Slots, TakesAnswer(i)
      PROVE  Known' = Known /\ sinq' = sinq
  <2>. DEFINE s == In!WithAnswer(val[i], Head(mulq[i]))
  <2>1. val' = [val EXCEPT ![i] = s] /\ sock' = sock /\ sinq' = sinq
    BY <1>4 DEF TakesAnswer, owners
  <2>2. IsSlot(s) /\ s.srvfd = val[i].srvfd
    BY <1>2, SlotWithAnswer
  <2>. HIDE DEF s
  <2>. QED BY <1>1, <2>1, <2>2, KnownUpdate
<1>5. ASSUME NEW i \in Slots, NEW k \in Nat, SendsUnits(i, k)
      PROVE  Known' = Known /\ sinq' = sinq
  <2>. DEFINE s == IF val[i].sendmsg.n + k = RspLen THEN In!AllSent(val[i])
                   ELSE In!PartSent(val[i], val[i].sendmsg.n + k)
  <2>1. val' = [val EXCEPT ![i] = s] /\ sock' = sock /\ sinq' = sinq
    BY <1>5 DEF SendsUnits, owners, messages
  <2>2. IsSlot(s) /\ s.srvfd = val[i].srvfd
    BY <1>2, SlotAllSent, SlotPartSent
  <2>. HIDE DEF s
  <2>. QED BY <1>1, <2>1, <2>2, KnownUpdate
<1>6. ASSUME NEW i \in Slots, Retries(i)
      PROVE  \/ Known' = Known /\ sinq' = sinq
             \/ \E m \in MapMsgs : sinq' = Append(sinq, m) /\ Known' = After(Known, m)
  BY <1>1, <1>6, HandsTells DEF Retries, owners
<1>7. ASSUME NEW i \in Slots, NEW k \in Nat, ReadsUnits(i, k)
      PROVE  \/ Known' = Known /\ sinq' = sinq
             \/ \E m \in MapMsgs : sinq' = Append(sinq, m) /\ Known' = After(Known, m)
  <2>. DEFINE req == <<ConnOf(i), up[ConnOf(i)][k]>>
              n == val[i].recvmsg.n + k
              s == In!WithRequest(val[i], n, req, 0)
  <2>1. Live(i) /\ sock' = sock
        /\ (HandsOver(i, req) \/ (val' = [val EXCEPT ![i] = s] /\ sinq' = sinq))
    BY <1>7 DEF ReadsUnits, owners
  <2>2. IsSlot(s) /\ s.srvfd = val[i].srvfd
    BY <1>2, SlotWithRequest
  <2>. HIDE DEF req, s
  <2>3. CASE HandsOver(i, req)
    BY <1>1, <2>1, <2>3, HandsTells
  <2>4. CASE val' = [val EXCEPT ![i] = s] /\ sinq' = sinq
    BY <1>1, <2>1, <2>2, <2>4, KnownUpdate
  <2>. QED BY <2>1, <2>3, <2>4
<1>8. CASE AcceptsOne
  BY <1>1, <1>8, AcceptTells
<1>9. ASSUME NEW i \in Slots, NEW fd \in In!Fds, ClosesOne(fd, i)
      PROVE  \E m \in MapMsgs : sinq' = Append(sinq, m) /\ Known' = After(Known, m)
  BY <1>1, <1>9, CloseTells
<1>. QED BY <1>1, <1>3, <1>4, <1>5, <1>6, <1>7, <1>8, <1>9 DEF InFlow

Pending(x, s) == (IF x \in {Mid!NoMsg, Mid!Down} THEN <<>> ELSE <<x>>) \o s

LEMMA PendingForm ==
  ASSUME NEW s \in Seq(MapMsgs)
  PROVE  /\ \A x \in {Mid!NoMsg, Mid!Down} : Pending(x, s) = s /\ x \notin MapMsgs
         /\ \A x \in MapMsgs : Pending(x, s) = <<x>> \o s
         /\ \A x \in MapMsgs \cup {Mid!NoMsg, Mid!Down} : Pending(x, s) \in Seq(MapMsgs)
<1>1. ASSUME NEW x \in MapMsgs
      PROVE  x \notin {Mid!NoMsg, Mid!Down}
  BY CtlFields DEF Mid!NoMsg, Mid!Down
<1>2. <<>> \o s = s /\ \A x \in MapMsgs : <<x>> \o s \in Seq(MapMsgs)
  OBVIOUS
<1>3. \A x \in {Mid!NoMsg, Mid!Down} : Pending(x, s) = s /\ x \notin MapMsgs
  BY <1>1, <1>2 DEF Pending
<1>4. \A x \in MapMsgs : Pending(x, s) = <<x>> \o s
  BY <1>1 DEF Pending
<1>. QED BY <1>2, <1>3, <1>4

MapTypes ==
  /\ inmsg \in MapMsgs \cup {Mid!NoMsg, Mid!Down} /\ sinq \in Seq(MapMsgs)
  /\ map \in MapTables /\ (inmsg = Mid!Down => map = Mid!Map!Cleared)
  /\ ended \in [insrv : Nat, midsrv : Nat]

(* While insrv is down it has no slot in use. *)
DownBlank == pc = "down" => ended.insrv > 0 /\ \A i \in Slots : ~Live(i)

(* The indexes in midsrv's map once it has handled what is pending. *)
Told == Indexes(Fore(map, Unhandled))
Follows == inmsg # Mid!Down => Known \subseteq Told /\ (ended.insrv = 0 => Told \subseteq Known)

MapInv == MapTypes /\ DownBlank /\ Outdated /\ Follows

LEMMA ToldPending ==
  Unhandled = Pending(inmsg, sinq)
BY DEF Unhandled, Pending

LEMMA PendingAppend ==
  ASSUME MapTypes, NEW m \in MapMsgs, sinq' = Append(sinq, m), inmsg' = inmsg
  PROVE  /\ Unhandled \in Seq(MapMsgs) /\ Unhandled' = Append(Unhandled, m)
         /\ sinq' \in Seq(MapMsgs)
<1>. DEFINE u == Pending(inmsg, sinq)
<1>1. u \in Seq(MapMsgs) /\ sinq \in Seq(MapMsgs)
  BY PendingForm DEF MapTypes
<1>2. Append(sinq, m) \in Seq(MapMsgs)
  BY <1>1
<1>3. Pending(inmsg, Append(sinq, m)) = Append(u, m)
  <2>1. CASE inmsg \in MapMsgs
    <3>1. <<inmsg>> \o Append(sinq, m) = Append(<<inmsg>> \o sinq, m)
      BY <1>1, <2>1
    <3>. QED BY <1>1, <1>2, <2>1, <3>1, PendingForm
  <2>2. CASE inmsg \in {Mid!NoMsg, Mid!Down}
    BY <1>1, <1>2, <2>2, PendingForm
  <2>. QED BY <2>1, <2>2 DEF MapTypes
<1>4. Unhandled = u /\ Unhandled' = Append(u, m)
  <2>1. Unhandled' = Pending(inmsg', sinq')
    BY DEF Unhandled, Pending
  <2>. HIDE DEF u
  <2>. QED BY <1>3, <2>1, ToldPending DEF u
<1>. HIDE DEF u
<1>. QED BY <1>1, <1>2, <1>4

LEMMA ToldAppend ==
  ASSUME MapTypes, NEW m \in MapMsgs, sinq' = Append(sinq, m), inmsg' = inmsg, map' = map,
         inmsg # Mid!Down
  PROVE  Told' = After(Told, m) /\ sinq' \in Seq(MapMsgs)
<1>1. PICK u \in Seq(MapMsgs) : u = Unhandled /\ Unhandled' = Append(u, m)
  BY PendingAppend
<1>2. sinq' \in Seq(MapMsgs) /\ map \in MapTables
  BY PendingAppend DEF MapTypes
<1>5. Fore(map, u) \in MapTables /\ Fore(map, Append(u, m)) = Applied(Fore(map, u), m)
  BY <1>1, <1>2, ForeAppend
<1>6. Told' = Indexes(Applied(Fore(map, u), m)) /\ Told = Indexes(Fore(map, u))
  BY <1>1, <1>5 DEF Told, Fore
<1>7. Indexes(Applied(Fore(map, u), m)) = After(Indexes(Fore(map, u)), m)
  BY <1>5, AppliedIndexes
<1>. QED BY <1>2, <1>6, <1>7

LEMMA FollowsAfter ==
  ASSUME NEW K, NEW T, NEW m, K \subseteq T
  PROVE  After(K, m) \subseteq After(T, m)
BY DEF After

LEMMA PopTells ==
  ASSUME MapTypes, Mid!PopMsg
  PROVE  Told' = Told /\ Unhandled' = Unhandled /\ inmsg' \in MapMsgs /\ sinq' \in Seq(MapMsgs)
<1>1. sinq \in Seq(MapMsgs) /\ sinq # <<>>
      /\ inmsg = Mid!NoMsg /\ inmsg' = Head(sinq) /\ sinq' = Tail(sinq) /\ map' = map
  BY DEF MapTypes, Mid!PopMsg
<1>2. Head(sinq) \in MapMsgs /\ Tail(sinq) \in Seq(MapMsgs)
      /\ <<Head(sinq)>> \o Tail(sinq) = sinq
  BY <1>1
<1>3. Pending(Head(sinq), Tail(sinq)) = sinq /\ Pending(inmsg, sinq) = sinq
  BY <1>1, <1>2, PendingForm
<1>4. Unhandled = sinq /\ Unhandled' = sinq
  <2>1. Unhandled' = Pending(inmsg', sinq')
    BY DEF Unhandled, Pending
  <2>. QED BY <1>1, <1>3, <2>1, ToldPending
<1>. QED BY <1>1, <1>2, <1>4 DEF Told, Fore

(* midsrv handles a message: it was counted among the pending ones. *)
LEMMA PendingHandled ==
  ASSUME MapTypes, inmsg \in MapMsgs, inmsg' \in {Mid!NoMsg, Mid!Down}, sinq' = sinq
  PROVE  sinq \in Seq(MapMsgs) /\ Unhandled = <<inmsg>> \o sinq /\ Unhandled' = sinq
<1>1. sinq \in Seq(MapMsgs)
  BY DEF MapTypes
<1>2. Pending(inmsg, sinq) = <<inmsg>> \o sinq /\ Pending(inmsg', sinq) = sinq
  BY <1>1, PendingForm
<1>3. Unhandled' = Pending(inmsg', sinq')
  BY DEF Unhandled, Pending
<1>. QED BY <1>1, <1>2, <1>3, ToldPending

LEMMA HandleTells ==
  ASSUME MapTypes, inmsg \in MapMsgs, map' = Applied(map, inmsg),
         inmsg' = Mid!NoMsg, sinq' = sinq
  PROVE  Told' = Told /\ map' \in MapTables
<1>1. sinq \in Seq(MapMsgs) /\ map \in MapTables
  BY DEF MapTypes
<1>3. Unhandled = <<inmsg>> \o sinq /\ Unhandled' = sinq
  BY PendingHandled
<1>4. Fore(map, <<inmsg>> \o sinq) = Fore(Applied(map, inmsg), sinq)
  BY <1>1, ForeHead
<1>5. Told' = Indexes(Fore(Applied(map, inmsg), sinq))
  BY <1>3 DEF Told, Fore
<1>. QED BY <1>1, <1>3, <1>4, <1>5, AppliedTable DEF Told

LEMMA MidTells ==
  ASSUME MapTypes, MidStep
  PROVE  Told' = Told /\ inmsg' # Mid!Down /\ inmsg # Mid!Down /\ MapTypes'
<1>1. ended' = ended
  BY DEF MidStep, histVars
<1>2. Mid!NoMsg # Mid!Down /\ Mid!Down \notin MapMsgs /\ Mid!NoMsg.id = "none"
  BY CtlFields DEF Mid!NoMsg, Mid!Down
<1>3. CASE Mid!PopMsg
  <2>1. Told' = Told /\ inmsg' \in MapMsgs /\ sinq' \in Seq(MapMsgs)
    BY <1>3, PopTells
  <2>2. map' = map /\ inmsg = Mid!NoMsg
    BY <1>3 DEF Mid!PopMsg
  <2>. QED BY <1>1, <1>2, <2>1, <2>2 DEF MapTypes
<1>4. CASE Mid!HandleNewConnect \/ Mid!HandleCloConnect \/ Mid!HandleLogin
  <2>1. /\ inmsg.id \in {"NEW_CONNECT", "CLO_CONNECT", "LOGIN"}
        /\ map' = Applied(map, inmsg) /\ inmsg' = Mid!NoMsg /\ sinq' = sinq
    BY <1>4 DEF Mid!HandleNewConnect, Mid!HandleCloConnect, Mid!HandleLogin, Mid!Handled,
                Applied
  <2>2. inmsg # Mid!NoMsg /\ inmsg # Mid!Down
    BY <2>1 DEF Mid!NoMsg, Mid!Down
  <2>3. inmsg \in MapMsgs
    BY <2>2 DEF MapTypes
  <2>4. Told' = Told /\ map' \in MapTables
    BY <2>1, <2>3, HandleTells
  <2>. QED BY <1>1, <1>2, <2>1, <2>2, <2>4 DEF MapTypes
<1>. QED BY <1>3, <1>4 DEF MidStep, Mid!MidNext

LEMMA OutdatedStep ==
  ASSUME PairInv, PlaceInv, TypeInv, Outdated, [Next]_vars, orphans' = orphans
  PROVE  Outdated'
<1>. Table /\ Waiting /\ Typed /\ orphans \subseteq Conns /\ backlog \in Seq(Conns)
  BY DEF PairInv, PlaceInv, TypeInv, SocketTypes
<1>1. CASE backlog' = backlog /\ \A c \in Conns : cli[c] # "idle" => cli'[c] # "idle"
  BY <1>1 DEF Outdated
<1>2. ASSUME NEW c \in Conns, Connect(c)
      PROVE  Outdated'
  <2>1. cli[c] = "idle" /\ cli' = [cli EXCEPT ![c] = "send"] /\ backlog' = Append(backlog, c)
    BY <1>2 DEF Connect, Cli!Connect
  <2>2. c \notin orphans
    BY <2>1 DEF Outdated
  <2>3. \A d \in Conns : d # c => cli'[d] = cli[d]
    BY <2>1 DEF Typed
  <2>4. \A j \in 1 .. Len(backlog') :
          \/ backlog'[j] = c
          \/ j \in 1 .. Len(backlog) /\ backlog'[j] = backlog[j]
    BY <2>1
  <2>. QED BY <2>2, <2>3, <2>4 DEF Outdated
<1>3. CASE Accepts /\ cli' = cli
  <2>1. /\ Len(backlog) \in Nat /\ Len(backlog') = Len(backlog) - 1
        /\ \A j \in 1 .. Len(backlog') : backlog'[j] = backlog[j + 1]
    BY <1>3, AcceptForm
  <2>2. \A j \in 1 .. Len(backlog') : j + 1 \in 1 .. Len(backlog)
    BY <2>1
  <2>. QED BY <1>3, <2>1, <2>2 DEF Outdated
<1>4. CASE In!Ends
  <2>1. backlog' = <<>> /\ \A c \in Conns : cli'[c] \in {"gone", cli[c]}
    BY <1>4 DEF In!Ends
  <2>. QED BY <2>1 DEF Outdated
<1>5. CASE cli' = cli /\ backlog' = backlog
  BY <1>5 DEF Outdated
<1>. QED BY <1>1, <1>2, <1>3, <1>4, <1>5, PlaceForm

(* Nobody that insrv has accepted is known to a midsrv that starts. *)
LEMMA StartsOutdated ==
  ASSUME PairInv, PlaceInv, Outdated, MidsrvStarts
  PROVE  Known' = {} /\ Outdated'
<1>1. /\ orphans' = orphans \cup Accepted /\ val' = val /\ sock' = sock
      /\ cli' = cli /\ backlog' = backlog
  BY DEF MidsrvStarts, insrvVars, clientVars
<1>2. \A c : c \in Accepted <=> c \in Conns /\ \E fd \in In!Fds : sock[fd] = c
  BY DEF Accepted, Range, PairInv, Sockets
<1>3. ASSUME NEW i \in Slots, Live(i)
      PROVE  ConnOf(i) \in Accepted
  <2>1. ConnOf(i) = sock[FdOf(i)] /\ FdOf(i) \in In!Fds /\ Open(FdOf(i))
    BY <1>3, LiveFd DEF ConnOf
  <2>2. ConnOf(i) \in Conns
    BY <2>1 DEF PlaceInv, Typed, Open
  <2>. QED BY <1>2, <2>1, <2>2
<1>4. Known' = {}
  BY <1>1, <1>3 DEF Known, Live, ConnOf
<1>5. ASSUME NEW c \in Accepted
      PROVE  cli[c] # "idle" /\ \A j \in 1 .. Len(backlog) : backlog[j] # c
  BY <1>2, ClosedIsNoConn DEF PlaceInv, Begun, Distinct, Open
<1>6. Outdated'
  BY <1>1, <1>5 DEF Outdated
<1>. QED BY <1>4, <1>6

LEMMA FollowsKept ==
  ASSUME Follows, MapTypes,
         \/ Known' = Known /\ sinq' = sinq
         \/ \E m \in MapMsgs : sinq' = Append(sinq, m) /\ Known' = After(Known, m),
         UNCHANGED <<inmsg, map, ended>>
  PROVE  Follows' /\ MapTypes'
<1>1. CASE Known' = Known /\ sinq' = sinq
  <2>1. Told' = Told
    BY <1>1 DEF Told, Fore, Unhandled
  <2>. QED BY <1>1, <2>1 DEF Follows, MapTypes
<1>2. ASSUME NEW m \in MapMsgs, sinq' = Append(sinq, m), Known' = After(Known, m)
      PROVE  Follows' /\ MapTypes'
  <2>1. CASE inmsg = Mid!Down
    <3>1. sinq' \in Seq(MapMsgs)
      BY <1>2 DEF MapTypes
    <3>. QED BY <2>1, <3>1 DEF Follows, MapTypes
  <2>2. CASE inmsg # Mid!Down
    <3>1. Told' = After(Told, m) /\ sinq' \in Seq(MapMsgs)
      BY <1>2, <2>2, ToldAppend
    <3>2. Known \subseteq Told => Known' \subseteq Told'
      BY <1>2, <3>1, FollowsAfter
    <3>3. Told \subseteq Known => Told' \subseteq Known'
      BY <1>2, <3>1, FollowsAfter
    <3>. QED BY <2>2, <3>1, <3>2, <3>3 DEF Follows, MapTypes
  <2>. QED BY <2>1, <2>2
<1>. QED BY <1>1, <1>2

LEMMA BlankKept ==
  ASSUME DownBlank, UNCHANGED <<pc, val, ended>>
  PROVE  DownBlank'
BY DEF DownBlank, Live

LEMMA MapStep ==
  ASSUME PairInv, PlaceInv, TypeInv, TypeInv', OpenInv,
         MaxOpen \in Nat, MaxOpen <= EPOLL_SIZE,
         MapInv, [Next]_vars, [TellsMidsrv]_vars
  PROVE  MapInv'
<1>. MapTypes /\ DownBlank /\ Outdated /\ Follows
  BY DEF MapInv
<1>1. orphans' = orphans => Outdated'
  BY OutdatedStep
<1>2. TellsMidsrv
  BY DEF TellsMidsrv, vars, insrvVars
<1>3. CASE InStep
  <2>1. UNCHANGED <<inmsg, map, ended, orphans>> /\ pc' # "down"
    BY <1>3, LoopGoesOn DEF InStep, midsrvVars, histVars
  <2>2. Follows' /\ MapTypes'
    BY <1>2, <1>3, <2>1, InsrvTells, FollowsKept
  <2>. QED BY <1>1, <2>1, <2>2 DEF MapInv, DownBlank
<1>4. CASE MidStep
  <2>1. UNCHANGED <<pc, val, sock, ended, orphans>>
    BY <1>4 DEF MidStep, insrvVars, histVars
  <2>2. Told' = Told /\ inmsg # Mid!Down /\ MapTypes'
    BY <1>4, MidTells
  <2>3. Known' = Known
    BY <2>1 DEF Known, Live, ConnOf
  <2>. QED BY <1>1, <2>1, <2>2, <2>3, BlankKept DEF MapInv, Follows
<1>5. CASE (\E c \in Conns : ClientStep(c)) \/ UNCHANGED vars
  <2>1. UNCHANGED <<pc, val, sock, ended, orphans, inmsg, map, sinq>>
    BY <1>5 DEF ClientStep, vars, insrvVars, midsrvVars, histVars
  <2>2. Known' = Known
    BY <2>1 DEF Known, Live, ConnOf
  <2>3. Follows' /\ MapTypes'
    BY <2>1, <2>2, FollowsKept
  <2>. QED BY <1>1, <2>1, <2>3, BlankKept DEF MapInv
<1>6. CASE InsrvDies \/ InsrvKilled
  <2>1. /\ In!Ends /\ ended' = [ended EXCEPT !.insrv = @ + 1]
        /\ UNCHANGED <<inmsg, map, orphans>>
    BY <1>6 DEF InsrvDies, InsrvKilled, InsrvEnded, In!SigPipe, midsrvVars
  <2>2. val' = In!AllErased /\ sinq' = sinq
    BY <2>1 DEF In!Ends
  <2>3. \A i \in Slots : val'[i].srvfd = -1
    BY <2>2, ErasedSlot, Numbers DEF In!AllErased
  <2>4. Known' = {}
    BY <2>3 DEF Known, Live
  <2>5. ended' \in [insrv : Nat, midsrv : Nat] /\ ended'.insrv > 0
    BY <2>1 DEF MapTypes
  <2>6. MapTypes'
    BY <2>1, <2>2, <2>5 DEF MapTypes
  <2>7. Follows'
    BY <2>4, <2>5 DEF Follows
  <2>8. DownBlank'
    BY <2>3, <2>5 DEF DownBlank, Live
  <2>. QED BY <1>1, <2>1, <2>6, <2>7, <2>8 DEF MapInv
<1>7. CASE InsrvStarts
  <2>1. /\ pc = "down" /\ pc' = "pop" /\ sinq' = <<>>
        /\ UNCHANGED <<val, sock, inmsg, map, ended, orphans>>
    BY <1>7 DEF InsrvStarts, In!Starts, midsrvVars, histVars
  <2>2. Known' = {} /\ ended'.insrv # 0
    BY <2>1 DEF DownBlank, MapTypes, Known, Live
  <2>3. sinq' \in Seq(MapMsgs)
    BY <2>1
  <2>4. MapTypes' /\ Follows'
    BY <2>1, <2>2, <2>3 DEF MapTypes, Follows
  <2>. QED BY <1>1, <2>1, <2>4 DEF MapInv, DownBlank
<1>8. CASE MidsrvEnds
  <2>1. /\ inmsg' = Mid!Down /\ map' = Mid!Map!Cleared /\ sinq' = sinq
        /\ ended' = [ended EXCEPT !.midsrv = @ + 1]
        /\ UNCHANGED <<pc, val, orphans>>
    BY <1>8 DEF MidsrvEnds, Mid!MidEnds, insrvVars
  <2>2. ended' \in [insrv : Nat, midsrv : Nat] /\ ended'.insrv = ended.insrv
    BY <2>1 DEF MapTypes
  <2>3. MapTypes' /\ Follows'
    BY <2>1, <2>2, TableNone DEF MapTypes, Follows
  <2>4. DownBlank'
    BY <2>1, <2>2 DEF DownBlank, Live
  <2>. QED BY <1>1, <2>1, <2>3, <2>4 DEF MapInv
<1>9. CASE MidsrvStarts
  <2>1. /\ inmsg = Mid!Down /\ inmsg' = Mid!NoMsg /\ sinq' = <<>>
        /\ UNCHANGED <<pc, val, map, ended>>
    BY <1>9 DEF MidsrvStarts, Mid!MidStarts, insrvVars
  <2>2. Known' = {} /\ Outdated'
    BY <1>9, StartsOutdated
  <2>3. sinq' \in Seq(MapMsgs) /\ map \in MapTables /\ map = Mid!Map!Cleared
    BY <2>1 DEF MapTypes
  <2>4. Mid!NoMsg # Mid!Down
    BY DEF Mid!NoMsg, Mid!Down
  <2>5. MapTypes'
    BY <2>1, <2>3, <2>4 DEF MapTypes
  <2>6. Told' = {}
    <3>1. Unhandled' = <<>>
      BY <2>1 DEF Unhandled
    <3>2. Told' = Indexes(Fore(map, <<>>))
      BY <2>1, <3>1 DEF Told, Fore
    <3>. QED BY <2>3, <3>2, ForeEmpty, TableNone
  <2>7. Follows'
    BY <2>2, <2>6 DEF Follows
  <2>. QED BY <2>1, <2>2, <2>5, <2>7, BlankKept DEF MapInv
<1>. QED BY <1>3, <1>4, <1>5, <1>6, <1>7, <1>8, <1>9 DEF Next

LEMMA MapInit ==
  ASSUME Init
  PROVE  MapInv
<1>1. /\ pc = "pop" /\ orphans = {} /\ sinq = <<>>
      /\ inmsg = Mid!NoMsg /\ map = Mid!Map!Cleared
      /\ ended = [insrv |-> 0, midsrv |-> 0] /\ val = In!AllErased
  BY DEF Init, In!InInit, Mid!MidInit
<1>2. \A i \in Slots : val[i].srvfd = -1
  BY <1>1, ErasedSlot, Numbers DEF In!AllErased
<1>3. MapTypes
  BY <1>1, TableNone DEF MapTypes
<1>4. Told = {}
  <2>1. Unhandled = <<>>
    BY <1>1 DEF Unhandled
  <2>2. Told = Indexes(Fore(map, <<>>))
    BY <2>1 DEF Told, Fore
  <2>. QED BY <1>1, <2>2, ForeEmpty, TableNone
<1>5. Known = {}
  BY <1>2 DEF Known, Live
<1>. QED BY <1>1, <1>3, <1>4, <1>5 DEF MapInv, DownBlank, Outdated, Follows

LEMMA MapMatches ==
  ASSUME PairInv, MapInv
  PROVE  MapFollowsSlots
<1>. DEFINE known == {<<i, val[i].srvfd>> : i \in {j \in Slots : Live(j) /\ ConnOf(j) \notin orphans}}
<1>1. known = {<<i, FdOf(i)>> : i \in Known}
  <2>1. \A i \in Known : val[i].srvfd = FdOf(i)
    BY LiveFd DEF Known
  <2>2. known = {<<i, val[i].srvfd>> : i \in Known}
    BY DEF Known
  <2>. HIDE DEF known
  <2>. QED BY <2>1, <2>2
<1>2. ASSUME inmsg # Mid!Down
      PROVE  /\ Mid!Map!Registered(Fore(map, Unhandled)) = {<<i, FdOf(i)>> : i \in Told}
             /\ Known \subseteq Told /\ (ended.insrv = 0 => Told \subseteq Known)
  <2>1. Pending(inmsg, sinq) \in Seq(MapMsgs) /\ map \in MapTables
    BY PendingForm DEF MapInv, MapTypes
  <2>2. Fore(map, Unhandled) \in MapTables
    BY <2>1, ToldPending, ForeFolds, FoldedType
  <2>3. Mid!Map!Registered(Fore(map, Unhandled)) = {<<i, FdOf(i)>> : i \in Told}
    BY <2>2, TableRegistered DEF Told
  <2>. QED BY <1>2, <2>3 DEF MapInv, Follows
<1>. HIDE DEF known
<1>3. ASSUME inmsg # Mid!Down
      PROVE  LET r == Mid!Map!Registered(Fore(map, Unhandled)) IN
             known \subseteq r /\ (ended.insrv = 0 => r \subseteq known)
  BY <1>1, <1>2, <1>3
<1>. QED BY <1>3 DEF MapFollowsSlots, Fore, known

(* As long as insrv can tell midsrv of every connection it takes and of    *)
(* every one it closes, midsrv's map, once it has handled what is pending, *)
(* holds the slots that are in use with their sockets, however slots and   *)
(* descriptors are reused and whichever server is started again.           *)
THEOREM MapKeepsUp ==
  ASSUME MaxOpen \in Nat, MaxOpen <= EPOLL_SIZE
  PROVE  Spec /\ [][TellsMidsrv]_vars => []MapFollowsSlots
<1>1. Init => OpenInv /\ MapInv
  BY OpenNone, PlaceNone, MapInit DEF Init, In!InInit, Cli!CliInit, OpenInv
<1>2. /\ PairInv /\ PlaceInv /\ TypeInv /\ TypeInv' /\ OpenInv /\ MapInv
      /\ [Next]_vars /\ [TellsMidsrv]_vars
      => OpenInv' /\ MapInv'
  BY OpenStep, MapStep
<1>3. PairInv /\ MapInv => MapFollowsSlots
  BY MapMatches
<1>. QED BY <1>1, <1>2, <1>3, TypeInvariant, PTL DEF Spec
=============================================================================
