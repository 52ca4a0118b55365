--------------------------- MODULE CSocketSrvEpoll ---------------------------
(***************************************************************************)
(* insrv: its main loop (popmsg_complex over the channels, then            *)
(* my_epoll_wait) and the slots of CSocketList.  One action is one pass of *)
(* the loop over the channels or over the events.  The kernel's part       *)
(* (descriptors, the epoll set, the bytes of a socket) is modelled from    *)
(* the calls the code makes.                                               *)
(***************************************************************************)
EXTENDS GameMsg, FiniteSetsExt

CONSTANTS
  Listen,     \* the event of the listening socket
  CtlFails    \* whether epoll_ctl ADD may fail

VARIABLES
  val,        \* CSocketList::val, the slots 1 .. EPOLL_SIZE
  pc,         \* the part of the loop insrv is in: "pop", "wait", "events", or "down"
  chan,       \* the channel popmsg_complex looks at next
  events,     \* the events of the last epoll_wait not handled yet
  sock,       \* sock[fd]: the connection of an open descriptor, or Closed
  interest,   \* interest[fd]: "IN" or "OUT" when fd is in the epoll set
  reset,      \* closed peers that have answered a send with RST
  sinq, mulq,                        \* shared with midsrv
  backlog, up, inbox, cli, rcv       \* shared with the clients

insrvVars == <<val, pc, chan, events, sock, interest, reset>>

Closed == "closed"
Fds == FirstFd .. FirstFd + Cardinality(Conns) - 1

Erased == [srvfd |-> -1, recvflag |-> 0, sendflag |-> 0,
           recvmsg |-> [n |-> 0, req |-> NoRequest],
           sendmsg |-> [n |-> 0, req |-> NoRequest]]

(* What the loop does to a slot: a connection, an answer to send, a part   *)
(* of it sent, all of it sent, and a request read as far as n units.       *)
TakenBy(s, fd) == [s EXCEPT !.srvfd = fd]
WithAnswer(s, req) == [s EXCEPT !.sendmsg = [n |-> 0, req |-> req], !.sendflag = 1]
PartSent(s, n) == [s EXCEPT !.sendmsg.n = n]
AllSent(s) == [s EXCEPT !.sendmsg = Erased.sendmsg, !.sendflag = 0]
WithRequest(s, n, req, flag) ==
  [s EXCEPT !.recvmsg = [n |-> n, req |-> req], !.recvflag = flag]

AllErased == [i \in Slots |-> Erased]
AllClosed == [fd \in Fds |-> Closed]

InInit ==
  /\ val = AllErased
  /\ pc = "pop" /\ chan = 1 /\ events = {}
  /\ sock = AllClosed /\ interest = AllClosed
  /\ reset = {}

(* CSocketList::idle() and find(): the first such slot, or -1. *)
FirstSlot(S) == IF S = {} THEN -1 ELSE Min(S)

(* Mutant: the last free slot. *)
IdleLast == LET free == {i \in Slots : val[i].srvfd < 0} IN
            IF free = {} THEN -1 ELSE Max(free)
Idle == FirstSlot({i \in Slots : val[i].srvfd < 0})

Find(fd) == FirstSlot({i \in Slots : val[i].srvfd = fd})

-----------------------------------------------------------------------------
(* popmsg_complex: channel chan, then the next one or the end of the scan. *)

ScanOn ==
  /\ pc' = IF chan < EPOLL_SIZE THEN "pop" ELSE "wait"
  /\ chan' = IF chan < EPOLL_SIZE THEN chan + 1 ELSE 1

(* Nothing in the channel, or the last answer is not sent yet. *)
PopSkips ==
  /\ pc = "pop"
  /\ mulq[chan] = <<>> \/ val[chan].sendflag = 1
  /\ ScanOn
  /\ UNCHANGED <<val, events, sock, interest, reset, sinq, mulq, up, inbox, backlog>>

(* The answer moves to the slot's sendmsg, whatever connection it has. *)
TakeAnswer ==
  /\ pc = "pop"
  /\ mulq[chan] # <<>> /\ val[chan].sendflag = 0
  /\ mulq' = [mulq EXCEPT ![chan] = Tail(@)]
  /\ val' = [val EXCEPT ![chan] = WithAnswer(@, Head(mulq[chan]))]
  /\ UNCHANGED <<events, sock, reset, sinq, up, inbox, backlog>>

Watched(fd) == fd \in Fds /\ interest[fd] # Closed

(* Mutant: the socket is not set to EPOLLOUT. *)
PopToUnwatched ==
  /\ TakeAnswer
  /\ Watched(val[chan].srvfd)
  /\ UNCHANGED interest
  /\ ScanOn

PopToSocket ==
  /\ TakeAnswer
  /\ Watched(val[chan].srvfd)
  /\ interest' = [interest EXCEPT ![val[chan].srvfd] = "OUT"]
  /\ ScanOn

(* epoll_ctl fails: return -1, the rest of the scan is left out. *)
PopToClosed ==
  /\ TakeAnswer
  /\ ~Watched(val[chan].srvfd)
  /\ pc' = "wait" /\ chan' = 1
  /\ UNCHANGED interest

-----------------------------------------------------------------------------
(* my_epoll_wait *)

Room(c) == SockBuf - (Len(inbox[c]) - rcv[c])

Ready(fd) ==
  /\ sock[fd] # Closed
  /\ \/ interest[fd] = "IN" /\ (up[sock[fd]] # <<>> \/ cli[sock[fd]] = "gone")
     \/ interest[fd] = "OUT" /\ (Room(sock[fd]) > 0 \/ cli[sock[fd]] = "gone")

ReadyEvents == {fd \in Fds : Ready(fd)} \cup IF backlog # <<>> THEN {Listen} ELSE {}

(* epoll_wait(epfd, events, EPOLL_SIZE, timeout): level-triggered events.  *)
EpollWait ==
  /\ pc = "wait"
  /\ \E evs \in SUBSET ReadyEvents :
       /\ Cardinality(evs) = Min({Cardinality(ReadyEvents), EPOLL_SIZE})
       /\ events' = evs
       /\ pc' = IF evs = {} THEN "pop" ELSE "events"
  /\ UNCHANGED <<val, chan, sock, interest, reset, sinq, mulq, up, inbox, backlog>>

(* The event e is handled: the next of the batch, or the end of the call.  *)
Done(e) ==
  /\ pc = "events" /\ e \in events
  /\ events' = events \ {e}
  /\ pc' = IF events = {e} THEN "pop" ELSE "events"
  /\ UNCHANGED <<chan, mulq>>

(* accept() gives the lowest free descriptor; there is one (Fds). *)
NewFd == Min({fd \in Fds : sock[fd] = Closed})

Accepted ==
  /\ Done(Listen) /\ \E fd \in Fds : sock[fd] = Closed
  /\ backlog' = Tail(backlog)
  /\ sock' = [sock EXCEPT ![NewFd] = Head(backlog)]
  /\ UNCHANGED <<reset, up, inbox>>

(* A slot takes the connection: of the slot's fields only srvfd is set.    *)
(* When no slot is free, the code logs it and goes on with index -1: the   *)
(* store to val[-1] is undefined, and here hits nothing this model keeps.  *)
SlotTaken ==
  val' = IF Idle = -1 THEN val ELSE [val EXCEPT ![Idle] = TakenBy(@, NewFd)]

Accept ==
  /\ Accepted /\ SlotTaken
  /\ interest' = [interest EXCEPT ![NewFd] = "IN"]
  /\ sinq' = Pushed(sinq, NewConnect(Idle, NewFd))

(* epoll_ctl ADD fails: the slot is taken, midsrv is not told. *)
AcceptUnwatched ==
  /\ CtlFails
  /\ Accepted /\ SlotTaken
  /\ UNCHANGED <<interest, sinq>>

(* "cannot find socketfd=>socketlist.val[]": a descriptor without a slot.  *)
SkipEvent(fd) ==
  /\ Done(fd)
  /\ Find(fd) = -1
  /\ UNCHANGED <<val, sock, interest, reset, sinq, up, inbox, backlog>>

-----------------------------------------------------------------------------
(* Events of a connection: fd is its descriptor, i its slot. *)

At(fd, flag, i) ==
  /\ pc = "events" /\ fd \in events
  /\ interest[fd] = flag /\ i = Find(fd) /\ i # -1
On(fd, flag, i) == At(fd, flag, i) /\ Done(fd)

(* Mutant: the answer is out, and the socket stays set to EPOLLOUT. *)
SendDoneKeepsOut(fd, i) ==
  /\ val' = [val EXCEPT ![i] = AllSent(@)]
  /\ UNCHANGED interest

(* The last unit is out: the slot may take a new answer. *)
SendDone(fd, i) ==
  /\ val' = [val EXCEPT ![i] = AllSent(@)]
  /\ interest' = [interest EXCEPT ![fd] = "IN"]

(* A peer that is closed answers what it is sent with RST, which arrives   *)
(* before the next send() or after it.                                     *)
PeerAnswers(c) ==
  \/ UNCHANGED reset
  \/ cli[c] = "gone" /\ reset' = reset \cup {c}

(* send() takes a part of what is left, or all of it. *)
Send(fd) ==
  \E i \in Slots, k \in 1 .. RspLen :
    /\ On(fd, "OUT", i)
    /\ val[i].sendflag = 1 /\ sock[fd] \notin reset
    /\ k <= Room(sock[fd]) /\ k <= RspLen - val[i].sendmsg.n
    /\ LET msg == val[i].sendmsg IN
         /\ inbox' = [inbox EXCEPT ![sock[fd]] = @ \o [j \in 1 .. k |-> msg.req]]
         /\ IF msg.n + k = RspLen
            THEN SendDone(fd, i)
            ELSE /\ val' = [val EXCEPT ![i] = PartSent(@, msg.n + k)]
                 /\ UNCHANGED interest
    /\ PeerAnswers(sock[fd])
    /\ UNCHANGED <<sock, sinq, up, backlog>>

(* Mutant: the slot is not erased. *)
CloseSlotNoErase(fd, i) ==
  /\ sock' = [sock EXCEPT ![fd] = Closed]
  /\ interest' = [interest EXCEPT ![fd] = Closed]
  /\ sinq' = Pushed(sinq, CloConnect(i, fd))
  /\ up' = [up EXCEPT ![sock[fd]] = <<>>]
  /\ UNCHANGED <<val, reset, inbox, backlog>>

(* Mutant: the socket is not closed. *)
CloseSlotNoClose(fd, i) ==
  /\ val' = [val EXCEPT ![i] = Erased]
  /\ sinq' = Pushed(sinq, CloConnect(i, fd))
  /\ up' = [up EXCEPT ![sock[fd]] = <<>>]
  /\ UNCHANGED <<sock, interest, reset, inbox, backlog>>

(* erase, close and CLO_CONNECT, as the six error branches do. *)
CloseSlot(fd, i) ==
  /\ val' = [val EXCEPT ![i] = Erased]
  /\ sock' = [sock EXCEPT ![fd] = Closed]
  /\ interest' = [interest EXCEPT ![fd] = Closed]
  /\ sinq' = Pushed(sinq, CloConnect(i, fd))
  /\ up' = [up EXCEPT ![sock[fd]] = <<>>]
  /\ reset' = reset \ {sock[fd]}
  /\ UNCHANGED <<inbox, backlog>>

(* send() fails, with ECONNRESET for instance: the peer has closed. *)
SendError(fd) ==
  \E i \in Slots :
    /\ On(fd, "OUT", i)
    /\ cli[sock[fd]] = "gone" /\ sock[fd] \notin reset
    /\ CloseSlot(fd, i)

(* The process ends: the kernel closes its sockets, those that wait for    *)
(* accept as well, and their clients end when they use them.               *)
Ends ==
  LET open == (Range(sock) \cup Range(backlog)) \ {Closed} IN
  /\ pc' = "down" /\ chan' = 1 /\ events' = {}
  /\ val' = AllErased
  /\ sock' = AllClosed /\ interest' = AllClosed
  /\ reset' = {}
  /\ backlog' = <<>>
  /\ up' = [c \in Conns |-> IF c \in open THEN <<>> ELSE up[c]]
  /\ cli' = [c \in Conns |-> IF c \in open THEN "gone" ELSE cli[c]]
  /\ UNCHANGED <<sinq, mulq, inbox>>

(* send() to a peer that has answered with RST raises SIGPIPE, and nothing *)
(* in the program handles that signal.                                     *)
SigPipe ==
  \E fd \in Fds, i \in Slots :
    /\ At(fd, "OUT", i) /\ sock[fd] \in reset
    /\ Ends

(* Mutant: recvflag is not reset when the push succeeds. *)
HandOverKeeps(fd, i, req) ==
  /\ sinq' = Pushed(sinq, Login(fd, req))
  /\ val' = [val EXCEPT ![i] = WithRequest(@, ReqLen, req, 1)]

(* Push the complete message in recvmsg, or keep it there with recvflag 1. *)
HandOver(fd, i, req) ==
  LET m == Login(fd, req) IN
  /\ sinq' = Pushed(sinq, m)
  /\ val' = [val EXCEPT ![i] = IF SinqTakes(sinq, m)
                               THEN WithRequest(@, 0, NoRequest, 0)
                               ELSE WithRequest(@, ReqLen, req, 1)]

(* EPOLLIN with a message still there: try again, receive nothing. *)
RetryRetained(fd) ==
  \E i \in Slots :
    /\ On(fd, "IN", i)
    /\ val[i].recvflag = 1
    /\ HandOver(fd, i, val[i].recvmsg.req)
    /\ UNCHANGED <<sock, interest, reset, up, inbox, backlog>>

Taken(fd, i) == Min({Len(up[sock[fd]]), ReqLen - val[i].recvmsg.n})

(* recv() of the header and then of the body meets the end of the stream.  *)
AtEnd(fd, i) ==
  /\ cli[sock[fd]] = "gone"
  /\ \/ up[sock[fd]] = <<>>
     \/ val[i].recvmsg.n < HDR /\ val[i].recvmsg.n + Len(up[sock[fd]]) = HDR

(* recv() of the header, then of the body, as far as they have arrived. *)
Receive(fd) ==
  \E i \in Slots :
    /\ On(fd, "IN", i)
    /\ val[i].recvflag = 0
    /\ Taken(fd, i) > 0 /\ ~AtEnd(fd, i)
    /\ LET n == val[i].recvmsg.n + Taken(fd, i)
           req == <<sock[fd], up[sock[fd]][Taken(fd, i)]>> IN
         IF n = ReqLen
         THEN HandOver(fd, i, req)
         ELSE val' = [val EXCEPT ![i] = WithRequest(@, n, req, 0)] /\ UNCHANGED sinq
    /\ up' = [up EXCEPT ![sock[fd]] = SubSeq(@, Taken(fd, i) + 1, Len(@))]
    /\ UNCHANGED <<sock, interest, reset, inbox, backlog>>

(* recv() returns 0, or an error such as ECONNRESET, which may come before *)
(* the bytes that have arrived are read.                                   *)
ReceiveEnd(fd) ==
  \E i \in Slots :
    /\ On(fd, "IN", i)
    /\ val[i].recvflag = 0
    /\ cli[sock[fd]] = "gone"
    /\ CloseSlot(fd, i)

(* main() up to its loop: the slots are blank, the queues are cleared.     *)
Starts ==
  /\ pc = "down"
  /\ pc' = "pop"
  /\ sinq' = <<>>
  /\ mulq' = [i \in Slots |-> <<>>]
  /\ UNCHANGED <<val, chan, events, sock, interest, reset, up, inbox, backlog>>

InNext ==
  \/ PopSkips \/ PopToSocket \/ PopToClosed
  \/ EpollWait
  \/ Accept \/ AcceptUnwatched
  \/ \E fd \in Fds : SkipEvent(fd) \/ Send(fd) \/ SendError(fd)
                     \/ RetryRetained(fd) \/ Receive(fd) \/ ReceiveEnd(fd)
=============================================================================
