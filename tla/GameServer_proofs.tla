------------------------- MODULE GameServer_proofs -------------------------
(***************************************************************************)
(* Proofs about GameServer for every number of slots and of connections,   *)
(* every capacity and every number of kills of the two servers.  Last,     *)
(* what the limit on open connections gives insrv: when no more are open   *)
(* or wait for accept() at one time than there are slots, no connection is *)
(* left without one.                                                       *)
(***************************************************************************)
EXTENDS GameServer, FoldTheorems, FiniteSetTheorems, TLAPS

-----------------------------------------------------------------------------
(* Least elements *)

LEMMA InMin ==
  ASSUME NEW S, S \subseteq Nat, S # {}
  PROVE  In!Min(S) \in S /\ \A y \in S : In!Min(S) <= y
BY LeastElement DEF In!Min

LEMMA MapMin ==
  ASSUME NEW S, S \subseteq Nat, S # {}
  PROVE  Mid!Map!Min(S) \in S
BY LeastElement DEF Mid!Map!Min

-----------------------------------------------------------------------------
(* Slots *)

IsSlot(s) ==
  s = [srvfd |-> s.srvfd, recvflag |-> s.recvflag, sendflag |-> s.sendflag,
       recvmsg |-> s.recvmsg, sendmsg |-> s.sendmsg]

LEMMA ErasedSlot ==
  IsSlot(In!Erased) /\ In!Erased.srvfd = -1
BY DEF IsSlot, In!Erased

LEMMA SlotTakenBy ==
  ASSUME NEW s, IsSlot(s), NEW fd
  PROVE  /\ IsSlot(In!TakenBy(s, fd))
         /\ In!TakenBy(s, fd).srvfd = fd
         /\ In!TakenBy(s, fd).sendflag = s.sendflag
<1>1. IsSlot(In!TakenBy(s, fd))
  BY DEF IsSlot, In!TakenBy
<1>2. In!TakenBy(s, fd).srvfd = fd
  BY DEF IsSlot, In!TakenBy
<1>3. In!TakenBy(s, fd).sendflag = s.sendflag
  BY DEF IsSlot, In!TakenBy
<1>. QED BY <1>1, <1>2, <1>3

LEMMA SlotWithAnswer ==
  ASSUME NEW s, IsSlot(s), NEW req
  PROVE  /\ IsSlot(In!WithAnswer(s, req))
         /\ In!WithAnswer(s, req).srvfd = s.srvfd
         /\ In!WithAnswer(s, req).sendflag = 1
<1>1. IsSlot(In!WithAnswer(s, req))
  <2>. DEFINE u == [s EXCEPT !.sendmsg = [n |-> 0, req |-> req]]
  <2>1. IsSlot(u)
    BY DEF IsSlot
  <2>2. In!WithAnswer(s, req) = [u EXCEPT !.sendflag = 1]
    BY DEF In!WithAnswer
  <2>. HIDE DEF u
  <2>. QED BY <2>1, <2>2 DEF IsSlot
<1>2. In!WithAnswer(s, req).srvfd = s.srvfd
  BY DEF IsSlot, In!WithAnswer
<1>3. In!WithAnswer(s, req).sendflag = 1
  BY DEF IsSlot, In!WithAnswer
<1>. QED BY <1>1, <1>2, <1>3

LEMMA SlotPartSent ==
  ASSUME NEW s, IsSlot(s), NEW n
  PROVE  /\ IsSlot(In!PartSent(s, n))
         /\ In!PartSent(s, n).srvfd = s.srvfd
         /\ In!PartSent(s, n).sendflag = s.sendflag
<1>1. IsSlot(In!PartSent(s, n))
  BY DEF IsSlot, In!PartSent
<1>2. In!PartSent(s, n).srvfd = s.srvfd
  BY DEF IsSlot, In!PartSent
<1>3. In!PartSent(s, n).sendflag = s.sendflag
  BY DEF IsSlot, In!PartSent
<1>. QED BY <1>1, <1>2, <1>3

LEMMA SlotAllSent ==
  ASSUME NEW s, IsSlot(s)
  PROVE  /\ IsSlot(In!AllSent(s))
         /\ In!AllSent(s).srvfd = s.srvfd
         /\ In!AllSent(s).sendflag = 0
<1>1. IsSlot(In!AllSent(s))
  <2>. DEFINE u == [s EXCEPT !.sendmsg = In!Erased.sendmsg]
  <2>1. IsSlot(u)
    BY DEF IsSlot
  <2>2. In!AllSent(s) = [u EXCEPT !.sendflag = 0]
    BY DEF In!AllSent
  <2>. HIDE DEF u
  <2>. QED BY <2>1, <2>2 DEF IsSlot
<1>2. In!AllSent(s).srvfd = s.srvfd
  BY DEF IsSlot, In!AllSent, In!Erased
<1>3. In!AllSent(s).sendflag = 0
  BY DEF IsSlot, In!AllSent, In!Erased
<1>. QED BY <1>1, <1>2, <1>3

LEMMA SlotWithRequest ==
  ASSUME NEW s, IsSlot(s), NEW n, NEW req, NEW f
  PROVE  /\ IsSlot(In!WithRequest(s, n, req, f))
         /\ In!WithRequest(s, n, req, f).srvfd = s.srvfd
         /\ In!WithRequest(s, n, req, f).sendflag = s.sendflag
<1>1. IsSlot(In!WithRequest(s, n, req, f))
  <2>. DEFINE u == [s EXCEPT !.recvmsg = [n |-> n, req |-> req]]
  <2>1. IsSlot(u)
    BY DEF IsSlot
  <2>2. In!WithRequest(s, n, req, f) = [u EXCEPT !.recvflag = f]
    BY DEF In!WithRequest
  <2>. HIDE DEF u
  <2>. QED BY <2>1, <2>2 DEF IsSlot
<1>2. In!WithRequest(s, n, req, f).srvfd = s.srvfd
  BY DEF IsSlot, In!WithRequest
<1>3. In!WithRequest(s, n, req, f).sendflag = s.sendflag
  BY DEF IsSlot, In!WithRequest
<1>. QED BY <1>1, <1>2, <1>3

-----------------------------------------------------------------------------
(* Numbers *)

LEMMA Numbers ==
  /\ EPOLL_SIZE \in Nat \ {0} /\ EPOLL_SIZE < 65535
  /\ FirstFd \in Nat \ {0}
  /\ In!Slots = Slots /\ Slots = 1 .. EPOLL_SIZE
  /\ \E n \in Nat : In!Fds = FirstFd .. FirstFd + n - 1 /\ FirstFd + n <= 65536
<1>1. /\ EPOLL_SIZE \in Nat \ {0} /\ EPOLL_SIZE < 65535
      /\ FirstFd \in Nat \ {0} /\ FirstFd + Cardinality(Conns) <= 65536
  BY GameAssumption DEF GameAssumption
<1>2. Cardinality(Conns) \in Nat
  BY GameAssumption, FS_CardinalityType DEF GameAssumption
<1>3. In!Fds = FirstFd .. FirstFd + Cardinality(Conns) - 1
  BY DEF In!Fds, In!Cardinality, Cardinality, In!IsFiniteSet, IsFiniteSet
<1>4. In!Slots = Slots /\ Slots = 1 .. EPOLL_SIZE
  BY DEF In!Slots, Slots
<1>5. \E n \in Nat : In!Fds = FirstFd .. FirstFd + n - 1 /\ FirstFd + n <= 65536
  <2>. DEFINE n == Cardinality(Conns)
  <2>1. n \in Nat /\ In!Fds = FirstFd .. FirstFd + n - 1 /\ FirstFd + n <= 65536
    BY <1>1, <1>2, <1>3
  <2>. HIDE DEF n
  <2>. QED BY <2>1
<1>. QED BY <1>1, <1>4, <1>5

-----------------------------------------------------------------------------
(* Slots and descriptors *)

FdOf(i) == FirstFd + i - 1

Table ==
  /\ val = [i \in Slots |-> val[i]]
  /\ \A i \in Slots : IsSlot(val[i])
Sockets == sock = [fd \in In!Fds |-> sock[fd]]
Waiting == backlog \in Seq(Conns) /\ (Listen \in events => backlog # <<>>)

(* A slot is in use exactly when the descriptor that goes with it is open. *)
Paired ==
  \A i \in Slots :
    /\ val[i].srvfd \in {-1, FdOf(i)}
    /\ Live(i) <=> FdOf(i) \in In!Fds /\ Open(FdOf(i))

PairInv == Table /\ Sockets /\ Waiting /\ Paired

(* A step that changes neither a socket nor what slot has it. *)
Kept ==
  /\ sock' = sock
  /\ val' = [i \in Slots |-> val'[i]]
  /\ \A i \in Slots : IsSlot(val'[i]) /\ val'[i].srvfd = val[i].srvfd

(* Moreover no answer goes from sendmsg, and the epoll set is the same.    *)
Steady ==
  /\ Kept
  /\ interest' = interest
  /\ \A i \in Slots : val[i].sendflag = 1 => val'[i].sendflag = 1

LEMMA KeptUpdate ==
  ASSUME Table, NEW i \in Slots, NEW s, IsSlot(s), s.srvfd = val[i].srvfd,
         val' = [val EXCEPT ![i] = s], sock' = sock
  PROVE  Kept /\ \A j \in Slots : val'[j] = IF j = i THEN s ELSE val[j]
<1>1. val' = [j \in Slots |-> IF j = i THEN s ELSE val[j]]
  BY DEF Table
<1>. QED BY <1>1 DEF Table, Kept

LEMMA SteadySame ==
  ASSUME Table, val' = val, sock' = sock, interest' = interest
  PROVE  Steady
BY DEF Table, Kept, Steady

LEMMA SteadyUpdate ==
  ASSUME Table, NEW i \in Slots, NEW s, IsSlot(s), s.srvfd = val[i].srvfd,
         s.sendflag \in {val[i].sendflag, 1},
         val' = [val EXCEPT ![i] = s], sock' = sock, interest' = interest
  PROVE  Steady
<1>1. Kept /\ \A j \in Slots : val'[j] = IF j = i THEN s ELSE val[j]
  BY KeptUpdate
<1>. QED BY <1>1 DEF Steady

LEMMA KeptPairs ==
  ASSUME Table, Sockets, Paired, Kept
  PROVE  Table' /\ Sockets' /\ Paired'
<1>1. Table'
  BY DEF Kept, Table
<1>2. Sockets'
  BY DEF Kept, Sockets
<1>3. Paired'
  BY DEF Kept, Paired, Live, Open
<1>. QED BY <1>1, <1>2, <1>3

LEMMA FoundSlot ==
  ASSUME NEW fd, In!Find(fd) # -1
  PROVE  In!Find(fd) \in Slots /\ val[In!Find(fd)].srvfd = fd
<1>. DEFINE S == {i \in In!Slots : val[i].srvfd = fd}
<1>1. S \subseteq Nat
  BY Numbers
<1>2. In!Find(fd) = IF S = {} THEN -1 ELSE In!Min(S)
  BY DEF In!Find, In!FirstSlot
<1>3. S # {} /\ In!Find(fd) = In!Min(S)
  BY <1>2
<1>4. In!Min(S) \in S
  <2>. HIDE DEF S
  <2>. QED BY <1>1, <1>3, InMin
<1>. QED BY <1>3, <1>4, Numbers

LEMMA IdleSlot ==
  ASSUME In!Idle # -1, \A i \in Slots : val[i].srvfd \in Int
  PROVE  /\ In!Idle \in Slots /\ val[In!Idle].srvfd < 0
         /\ \A i \in Slots : i < In!Idle => ~(val[i].srvfd < 0)
<1>. DEFINE S == {i \in In!Slots : val[i].srvfd < 0}
<1>1. S \subseteq Nat
  BY Numbers
<1>2. In!Idle = IF S = {} THEN -1 ELSE In!Min(S)
  BY DEF In!Idle, In!FirstSlot
<1>3. S # {} /\ In!Idle = In!Min(S)
  BY <1>2
<1>4. In!Min(S) \in S /\ \A i \in S : In!Min(S) <= i
  <2>. HIDE DEF S
  <2>. QED BY <1>1, <1>3, InMin
<1>5. \A i \in Slots : i < In!Idle => ~(val[i].srvfd < 0)
  BY <1>3, <1>4, Numbers
<1>. QED BY <1>3, <1>4, <1>5, Numbers

LEMMA NoIdleSlot ==
  ASSUME In!Idle = -1
  PROVE  \A i \in Slots : ~(val[i].srvfd < 0)
<1>. DEFINE S == {i \in In!Slots : val[i].srvfd < 0}
<1>1. S \subseteq Nat
  BY Numbers
<1>2. In!Idle = IF S = {} THEN -1 ELSE In!Min(S)
  BY DEF In!Idle, In!FirstSlot
<1>3. S = {}
  <2>1. ASSUME S # {} PROVE In!Min(S) \in Nat
    <3>. HIDE DEF S
    <3>. QED BY <1>1, <2>1, InMin
  <2>. QED BY <1>2, <2>1
<1>. QED BY <1>3, Numbers

LEMMA LowestFd ==
  ASSUME \E fd \in In!Fds : sock[fd] = In!Closed
  PROVE  /\ In!NewFd \in In!Fds /\ ~Open(In!NewFd)
         /\ \A fd \in In!Fds : ~Open(fd) => In!NewFd <= fd
<1>. DEFINE S == {fd \in In!Fds : sock[fd] = In!Closed}
<1>1. S \subseteq Nat /\ S # {}
  BY Numbers
<1>2. In!NewFd = In!Min(S)
  BY DEF In!NewFd
<1>3. In!Min(S) \in S /\ \A fd \in S : In!Min(S) <= fd
  <2>. HIDE DEF S
  <2>. QED BY <1>1, InMin
<1>. QED BY <1>2, <1>3 DEF Open

(* The slot and the descriptor that accept() and idle() choose belong      *)
(* together; a descriptor without a slot lies above those of the slots.    *)
LEMMA NewPair ==
  ASSUME Paired, \E fd \in In!Fds : sock[fd] = In!Closed
  PROVE  IF In!Idle = -1 THEN In!NewFd >= FirstFd + EPOLL_SIZE
         ELSE In!Idle \in Slots /\ In!NewFd = FdOf(In!Idle)
<1>1. PICK n \in Nat : In!Fds = FirstFd .. FirstFd + n - 1
  BY Numbers
<1>2. EPOLL_SIZE \in Nat /\ FirstFd \in Nat /\ Slots = 1 .. EPOLL_SIZE
  BY Numbers
<1>3. In!NewFd \in FirstFd .. FirstFd + n - 1 /\ ~Open(In!NewFd)
  BY <1>1, LowestFd
<1>4. \A i \in Slots : val[i].srvfd \in Int /\ (Live(i) <=> ~(val[i].srvfd < 0))
  BY <1>2 DEF Paired, FdOf, Live
<1>5. CASE In!Idle = -1
  <2>1. \A i \in Slots : Open(FdOf(i))
    BY <1>4, <1>5, NoIdleSlot DEF Paired
  <2>2. ASSUME In!NewFd < FirstFd + EPOLL_SIZE PROVE FALSE
    <3>. DEFINE i == In!NewFd - FirstFd + 1
    <3>1. i \in Slots /\ In!NewFd = FdOf(i)
      BY <1>2, <1>3, <2>2 DEF FdOf
    <3>. QED BY <1>3, <2>1, <3>1
  <2>. QED BY <1>2, <1>3, <1>5, <2>2
<1>6. CASE In!Idle # -1
  <2>1. /\ In!Idle \in Slots /\ ~Live(In!Idle)
        /\ \A i \in Slots : i < In!Idle => Live(i)
    BY <1>4, <1>6, IdleSlot
  <2>2. \A i \in Slots : i < In!Idle => Open(FdOf(i))
    BY <2>1 DEF Paired
  <2>3. ASSUME In!NewFd < FdOf(In!Idle) PROVE FALSE
    <3>. DEFINE i == In!NewFd - FirstFd + 1
    <3>1. i \in Slots /\ In!NewFd = FdOf(i) /\ i < In!Idle
      BY <1>2, <1>3, <2>1, <2>3 DEF FdOf
    <3>. QED BY <1>3, <2>2, <3>1
  <2>4. FdOf(In!Idle) <= In!NewFd
    BY <1>2, <1>3, <2>1, <2>3 DEF FdOf
  <2>5. FdOf(In!Idle) \in In!Fds
    BY <1>1, <1>2, <1>3, <2>1, <2>4 DEF FdOf
  <2>6. ~Open(FdOf(In!Idle))
    BY <2>1, <2>5 DEF Paired
  <2>7. In!NewFd <= FdOf(In!Idle)
    BY <2>5, <2>6, LowestFd
  <2>. QED BY <1>2, <1>3, <1>6, <2>1, <2>4, <2>7 DEF FdOf
<1>. QED BY <1>5, <1>6

LEMMA AcceptPairs ==
  ASSUME PairInv, In!Accepted, In!SlotTaken
  PROVE  PairInv'
<1>1. \E fd \in In!Fds : sock[fd] = In!Closed
  BY DEF In!Accepted
<1>2. Listen \in events /\ events' = events \ {Listen}
  BY DEF In!Accepted, In!Done
<1>3. Head(backlog) \in Conns /\ Tail(backlog) \in Seq(Conns)
  BY <1>2 DEF PairInv, Waiting
<1>4. Waiting'
  BY <1>2, <1>3 DEF In!Accepted, Waiting
<1>5. In!NewFd \in In!Fds
  BY <1>1, LowestFd
<1>6. sock' = [fd \in In!Fds |-> IF fd = In!NewFd THEN Head(backlog) ELSE sock[fd]]
  BY DEF In!Accepted, PairInv, Sockets
<1>7. Sockets'
  BY <1>6 DEF Sockets
<1>8. Head(backlog) # In!Closed
  BY <1>3, ServerAssumption DEF ServerAssumption
<1>9. CASE In!Idle = -1
  <2>1. val' = val
    BY <1>9 DEF In!SlotTaken
  <2>2. Table'
    BY <2>1 DEF PairInv, Table
  <2>3. \A i \in Slots : FdOf(i) # In!NewFd
    BY <1>1, <1>9, NewPair, Numbers DEF PairInv, FdOf
  <2>4. Paired'
    BY <1>6, <2>1, <2>3 DEF PairInv, Paired, Live, Open, FdOf
  <2>. QED BY <1>4, <1>7, <2>2, <2>4 DEF PairInv
<1>10. CASE In!Idle # -1
  <2>. DEFINE s == In!TakenBy(val[In!Idle], In!NewFd)
  <2>1. In!Idle \in Slots /\ In!NewFd = FdOf(In!Idle)
    BY <1>1, <1>10, NewPair DEF PairInv
  <2>2. val' = [i \in Slots |-> IF i = In!Idle THEN s ELSE val[i]]
    BY <1>10 DEF In!SlotTaken, PairInv, Table
  <2>3. IsSlot(s) /\ s.srvfd = In!NewFd
    BY <2>1, SlotTakenBy DEF PairInv, Table
  <2>. HIDE DEF s
  <2>4. Table'
    BY <2>2, <2>3 DEF PairInv, Table
  <2>5. ASSUME NEW i \in Slots
        PROVE  /\ val'[i].srvfd \in {-1, FdOf(i)}
               /\ val'[i].srvfd # -1
                    <=> FdOf(i) \in In!Fds /\ sock'[FdOf(i)] # In!Closed
    <3>1. CASE i = In!Idle
      <4>1. FdOf(i) # -1
        BY Numbers DEF FdOf
      <4>. QED BY <1>5, <1>6, <1>8, <2>1, <2>2, <2>3, <3>1, <4>1
    <3>2. CASE i # In!Idle
      <4>1. FdOf(i) # In!NewFd
        BY <2>1, <3>2, Numbers DEF FdOf
      <4>. QED BY <1>6, <2>2, <3>2, <4>1 DEF PairInv, Paired, Live, Open
    <3>. QED BY <3>1, <3>2
  <2>6. Paired'
    BY <2>5 DEF Paired, Live, Open, FdOf
  <2>. QED BY <1>4, <1>7, <2>4, <2>6 DEF PairInv
<1>. QED BY <1>9, <1>10

LEMMA ClosePairs ==
  ASSUME PairInv, NEW fd \in In!Fds, NEW i \in Slots, val[i].srvfd = fd,
         In!CloseSlot(fd, i), events' \subseteq events
  PROVE  PairInv'
<1>1. fd = FdOf(i)
  BY Numbers DEF PairInv, Paired
<1>2. sock' = [e \in In!Fds |-> IF e = fd THEN In!Closed ELSE sock[e]]
  BY DEF In!CloseSlot, PairInv, Sockets
<1>3. val' = [j \in Slots |-> IF j = i THEN In!Erased ELSE val[j]]
  BY DEF In!CloseSlot, PairInv, Table
<1>4. Table'
  BY <1>3, ErasedSlot DEF PairInv, Table
<1>5. Sockets'
  BY <1>2 DEF Sockets
<1>6. Waiting'
  BY DEF In!CloseSlot, PairInv, Waiting
<1>7. ASSUME NEW j \in Slots
      PROVE  /\ val'[j].srvfd \in {-1, FdOf(j)}
             /\ val'[j].srvfd # -1
                  <=> FdOf(j) \in In!Fds /\ sock'[FdOf(j)] # In!Closed
  <2>1. CASE j = i
    BY <1>1, <1>2, <1>3, <2>1, ErasedSlot
  <2>2. CASE j # i
    <3>1. FdOf(j) # fd
      BY <1>1, <2>2, Numbers DEF FdOf
    <3>. QED BY <1>2, <1>3, <2>2, <3>1 DEF PairInv, Paired, Live, Open
  <2>. QED BY <2>1, <2>2
<1>8. Paired'
  BY <1>7 DEF Paired, Live, Open, FdOf
<1>. QED BY <1>4, <1>5, <1>6, <1>8 DEF PairInv

LEMMA BlankPairs ==
  ASSUME val = In!AllErased, sock = In!AllClosed, backlog = <<>>, events = {}
  PROVE  PairInv
<1>1. val = [i \in Slots |-> In!Erased] /\ sock = [fd \in In!Fds |-> In!Closed]
  BY Numbers DEF In!AllErased, In!AllClosed
<1>2. Table
  BY <1>1, ErasedSlot DEF Table
<1>3. Sockets
  BY <1>1 DEF Sockets
<1>4. Waiting
  BY DEF Waiting
<1>5. Paired
  BY <1>1, ErasedSlot DEF Paired, Live, Open
<1>. QED BY <1>2, <1>3, <1>4, <1>5 DEF PairInv

LEMMA BlankedPairs ==
  ASSUME val' = In!AllErased, sock' = In!AllClosed, backlog' = <<>>, events' = {}
  PROVE  PairInv'
<1>1. /\ val' = [i \in Slots |-> In!Erased]
      /\ sock' = [fd \in In!Fds |-> In!Closed]
  BY Numbers DEF In!AllErased, In!AllClosed
<1>2. Table'
  BY <1>1, ErasedSlot DEF Table
<1>3. Sockets'
  BY <1>1 DEF Sockets
<1>4. Waiting'
  BY DEF Waiting
<1>5. Paired'
  BY <1>1, ErasedSlot DEF Paired, Live, Open
<1>. QED BY <1>2, <1>3, <1>4, <1>5 DEF PairInv

LEMMA WaitingDone ==
  ASSUME Waiting, backlog' = backlog, events' \subseteq events
  PROVE  Waiting'
BY DEF Waiting

LEMMA KeptInv ==
  ASSUME PairInv, Kept, Waiting'
  PROVE  PairInv'
BY KeptPairs DEF PairInv

Answers == In!TakeAnswer /\ (In!PopToSocket \/ interest' = interest)
Sends(fd, i) == In!On(fd, "OUT", i) /\ In!SendDone(fd, i) /\ sock' = sock /\ backlog' = backlog
Accepts == In!Accepted /\ In!SlotTaken /\ (In!Accept \/ interest' = interest)
Closes(fd, i) == val[i].srvfd = fd /\ In!CloseSlot(fd, i) /\ events' \subseteq events

(* What a step does to the slots, the descriptors and the epoll set. *)
LEMMA StepForm ==
  ASSUME Table, Waiting, [Next]_vars
  PROVE  \/ Steady /\ Waiting'
         \/ Answers
         \/ \E fd \in In!Fds, i \in Slots : Sends(fd, i)
         \/ Accepts
         \/ \E fd \in In!Fds, i \in Slots : Closes(fd, i)
         \/ In!Ends
<1>1. CASE In!PopSkips
  BY <1>1, SteadySame, WaitingDone DEF In!PopSkips
<1>2. CASE In!PopToSocket \/ In!PopToClosed
  BY <1>2 DEF In!PopToSocket, In!PopToClosed, Answers
<1>3. CASE In!EpollWait
  <2>1. Steady
    BY <1>3, SteadySame DEF In!EpollWait
  <2>2. events' \subseteq In!ReadyEvents /\ backlog' = backlog
    BY <1>3 DEF In!EpollWait
  <2>3. Listen \in In!ReadyEvents => backlog # <<>>
    BY ServerAssumption DEF In!ReadyEvents, ServerAssumption
  <2>4. Waiting'
    BY <2>2, <2>3 DEF Waiting
  <2>. QED BY <2>1, <2>4
<1>4. CASE In!Accept \/ In!AcceptUnwatched
  BY <1>4 DEF In!Accept, In!AcceptUnwatched, Accepts
<1>5. ASSUME NEW fd \in In!Fds, In!SkipEvent(fd)
      PROVE  Steady /\ Waiting'
  BY <1>5, SteadySame, WaitingDone DEF In!SkipEvent, In!Done
<1>6. ASSUME NEW fd \in In!Fds, In!Send(fd)
      PROVE  (Steady /\ Waiting') \/ \E i \in Slots : Sends(fd, i)
  <2>1. PICK i \in In!Slots, k \in 1 .. RspLen :
          /\ In!On(fd, "OUT", i)
          /\ LET msg == val[i].sendmsg
             IN  IF msg.n + k = RspLen
                 THEN In!SendDone(fd, i)
                 ELSE /\ val' = [val EXCEPT ![i] = In!PartSent(@, msg.n + k)]
                      /\ UNCHANGED interest
    BY <1>6 DEF In!Send
  <2>2. i \in Slots /\ IsSlot(val[i])
    BY Numbers DEF Table
  <2>3. sock' = sock /\ backlog' = backlog
    BY <1>6 DEF In!Send
  <2>4. CASE val[i].sendmsg.n + k = RspLen
    BY <2>1, <2>2, <2>3, <2>4 DEF Sends
  <2>5. CASE val[i].sendmsg.n + k # RspLen
    <3>. DEFINE s == In!PartSent(val[i], val[i].sendmsg.n + k)
    <3>1. IsSlot(s) /\ s.srvfd = val[i].srvfd /\ s.sendflag = val[i].sendflag
      BY <2>2, SlotPartSent
    <3>2. val' = [val EXCEPT ![i] = s] /\ interest' = interest
      BY <2>1, <2>5
    <3>. HIDE DEF s
    <3>3. Steady
      BY <2>2, <2>3, <3>1, <3>2, SteadyUpdate
    <3>. QED BY <2>1, <2>3, <3>3, WaitingDone DEF In!On, In!Done
  <2>. QED BY <2>4, <2>5
<1>7. ASSUME NEW fd \in In!Fds, In!SendError(fd) \/ In!ReceiveEnd(fd)
      PROVE  \E i \in Slots : Closes(fd, i)
  <2>1. PICK i \in In!Slots, flag \in {"IN", "OUT"} :
          In!On(fd, flag, i) /\ In!CloseSlot(fd, i)
    BY <1>7 DEF In!SendError, In!ReceiveEnd
  <2>2. i \in Slots /\ val[i].srvfd = fd /\ events' \subseteq events
    BY <2>1, FoundSlot DEF In!On, In!At, In!Done
  <2>. QED BY <2>1, <2>2 DEF Closes
<1>8. ASSUME NEW i \in In!Slots, NEW fd, NEW req, In!HandOver(fd, i, req),
             sock' = sock, interest' = interest
      PROVE  Steady
  <2>. DEFINE s == IF In!SinqTakes(sinq, In!Login(fd, req))
                   THEN In!WithRequest(val[i], 0, In!NoRequest, 0)
                   ELSE In!WithRequest(val[i], ReqLen, req, 1)
  <2>1. i \in Slots /\ IsSlot(val[i])
    BY Numbers DEF Table
  <2>2. IsSlot(s) /\ s.srvfd = val[i].srvfd /\ s.sendflag = val[i].sendflag
    BY <2>1, SlotWithRequest
  <2>3. val' = [val EXCEPT ![i] = s]
    BY <1>8 DEF In!HandOver
  <2>. HIDE DEF s
  <2>. QED BY <1>8, <2>1, <2>2, <2>3, SteadyUpdate
<1>9. ASSUME NEW fd \in In!Fds, In!RetryRetained(fd)
      PROVE  Steady /\ Waiting'
  <2>1. PICK i \in In!Slots :
          In!On(fd, "IN", i) /\ In!HandOver(fd, i, val[i].recvmsg.req)
    BY <1>9 DEF In!RetryRetained
  <2>2. sock' = sock /\ interest' = interest /\ backlog' = backlog
    BY <1>9 DEF In!RetryRetained
  <2>3. Steady
    BY <1>8, <2>1, <2>2
  <2>. QED BY <2>1, <2>2, <2>3, WaitingDone DEF In!On, In!Done
<1>10. ASSUME NEW fd \in In!Fds, In!Receive(fd)
       PROVE  Steady /\ Waiting'
  <2>1. PICK i \in In!Slots :
          /\ In!On(fd, "IN", i)
          /\ LET n == val[i].recvmsg.n + In!Taken(fd, i)
                 req == <<sock[fd], up[sock[fd]][In!Taken(fd, i)]>>
             IN  IF n = ReqLen
                 THEN In!HandOver(fd, i, req)
                 ELSE val' = [val EXCEPT ![i] = In!WithRequest(@, n, req, 0)]
    BY <1>10 DEF In!Receive
  <2>2. sock' = sock /\ interest' = interest /\ backlog' = backlog
    BY <1>10 DEF In!Receive
  <2>. DEFINE n == val[i].recvmsg.n + In!Taken(fd, i)
              req == <<sock[fd], up[sock[fd]][In!Taken(fd, i)]>>
              s == In!WithRequest(val[i], n, req, 0)
  <2>3. ASSUME n = ReqLen PROVE Steady
    BY <1>8, <2>1, <2>2, <2>3
  <2>4. ASSUME n # ReqLen PROVE Steady
    <3>1. i \in Slots /\ IsSlot(val[i])
      BY Numbers DEF Table
    <3>2. val' = [val EXCEPT ![i] = s]
      BY <2>1, <2>4
    <3>. HIDE DEF n, req
    <3>3. IsSlot(s) /\ s.srvfd = val[i].srvfd /\ s.sendflag = val[i].sendflag
      BY <3>1, SlotWithRequest
    <3>. HIDE DEF s
    <3>. QED BY <2>2, <3>1, <3>2, <3>3, SteadyUpdate
  <2>5. Steady
    BY <2>3, <2>4
  <2>. QED BY <2>1, <2>2, <2>5, WaitingDone DEF In!On, In!Done
<1>11. CASE UNCHANGED insrvVars /\ backlog' = backlog
  BY <1>11, SteadySame, WaitingDone DEF insrvVars
<1>12. ASSUME NEW c \in Conns, Connect(c), UNCHANGED insrvVars
       PROVE  Steady /\ Waiting'
  <2>1. Steady
    BY <1>12, SteadySame DEF insrvVars
  <2>2. backlog' = Append(backlog, c) /\ events' = events
    BY <1>12 DEF Connect, Cli!Connect, insrvVars
  <2>3. Waiting'
    BY <2>2 DEF Waiting
  <2>. QED BY <2>1, <2>3
<1>13. CASE InStep
  BY <1>1, <1>2, <1>3, <1>4, <1>5, <1>6, <1>7, <1>9, <1>10, <1>13 DEF InStep, In!InNext
<1>14. CASE \E c \in Conns : ClientStep(c)
  <2>1. PICK c \in Conns : ClientStep(c)
    BY <1>14
  <2>2. UNCHANGED insrvVars
    BY <2>1 DEF ClientStep
  <2>3. CASE Connect(c)
    BY <1>12, <2>2, <2>3
  <2>4. CASE Cli!CliProgress(c)
    BY <1>11, <2>2, <2>4 DEF Cli!CliProgress, Cli!SendUnit, Cli!Recv
  <2>5. CASE Leave(c)
    BY <1>11, <2>2, <2>5 DEF Leave, Cli!Leave
  <2>. QED BY <2>1, <2>3, <2>4, <2>5 DEF ClientStep
<1>15. CASE InsrvDies \/ InsrvKilled
  BY <1>15 DEF InsrvDies, InsrvKilled, In!SigPipe
<1>16. CASE InsrvStarts
  BY <1>16, SteadySame, WaitingDone DEF InsrvStarts, In!Starts
<1>17. CASE MidStep \/ MidsrvEnds \/ MidsrvStarts \/ UNCHANGED vars
  BY <1>11, <1>17 DEF MidStep, MidsrvEnds, MidsrvStarts, vars, clientVars
<1>. QED BY <1>13, <1>14, <1>15, <1>16, <1>17 DEF Next

LEMMA AnswerKept ==
  ASSUME Table, chan \in Slots, In!TakeAnswer
  PROVE  /\ Kept /\ backlog' = backlog /\ events' = events
         /\ val'[chan].sendflag = 1
         /\ \A j \in Slots : j # chan => val'[j] = val[j]
<1>. DEFINE s == In!WithAnswer(val[chan], Head(mulq[chan]))
<1>1. IsSlot(s) /\ s.srvfd = val[chan].srvfd /\ s.sendflag = 1
  BY SlotWithAnswer DEF Table
<1>2. val' = [val EXCEPT ![chan] = s] /\ sock' = sock
  BY DEF In!TakeAnswer
<1>. HIDE DEF s
<1>3. Kept /\ \A j \in Slots : val'[j] = IF j = chan THEN s ELSE val[j]
  BY <1>1, <1>2, KeptUpdate
<1>. QED BY <1>1, <1>3 DEF In!TakeAnswer

LEMMA SendKept ==
  ASSUME Table, NEW fd \in In!Fds, NEW i \in Slots, Sends(fd, i)
  PROVE  /\ Kept /\ val[i].srvfd = fd /\ events' \subseteq events
         /\ \A j \in Slots : j # i => val'[j] = val[j]
<1>. DEFINE s == In!AllSent(val[i])
<1>1. IsSlot(s) /\ s.srvfd = val[i].srvfd
  BY SlotAllSent DEF Table
<1>2. val' = [val EXCEPT ![i] = s] /\ sock' = sock
  BY DEF Sends, In!SendDone
<1>. HIDE DEF s
<1>3. Kept /\ \A j \in Slots : val'[j] = IF j = i THEN s ELSE val[j]
  BY <1>1, <1>2, KeptUpdate
<1>. QED BY <1>3, FoundSlot DEF Sends, In!On, In!At, In!Done

LEMMA PairStep ==
  ASSUME PairInv, chan \in Slots, [Next]_vars
  PROVE  PairInv'
<1>. Table /\ Waiting
  BY DEF PairInv
<1>1. CASE Steady /\ Waiting'
  BY <1>1, KeptInv DEF Steady
<1>2. CASE Answers
  BY <1>2, AnswerKept, WaitingDone, KeptInv DEF Answers
<1>3. ASSUME NEW fd \in In!Fds, NEW i \in Slots, Sends(fd, i)
      PROVE  PairInv'
  BY <1>3, SendKept, WaitingDone, KeptInv DEF Sends
<1>4. CASE Accepts
  BY <1>4, AcceptPairs DEF Accepts
<1>5. ASSUME NEW fd \in In!Fds, NEW i \in Slots, Closes(fd, i)
      PROVE  PairInv'
  BY <1>5, ClosePairs DEF Closes
<1>6. CASE In!Ends
  BY <1>6, BlankedPairs DEF In!Ends
<1>. QED BY <1>1, <1>2, <1>3, <1>4, <1>5, <1>6, StepForm

LEMMA ChanStep ==
  ASSUME chan \in Slots, [Next]_vars
  PROVE  chan' \in Slots
<1>1. 1 \in Slots /\ (chan < EPOLL_SIZE => chan + 1 \in Slots)
  BY Numbers
<1>2. CASE In!ScanOn
  BY <1>1, <1>2 DEF In!ScanOn
<1>3. CASE chan' = 1
  BY <1>1, <1>3
<1>4. CASE chan' = chan
  BY <1>4
<1>5. ASSUME NEW fd, NEW i, NEW flag, In!On(fd, flag, i)
      PROVE  chan' = chan
  BY <1>5 DEF In!On, In!Done
<1>6. CASE InStep
  <2>1. CASE In!PopSkips \/ In!PopToSocket
    BY <1>2, <2>1 DEF In!PopSkips, In!PopToSocket
  <2>2. CASE In!PopToClosed
    BY <1>3, <2>2 DEF In!PopToClosed
  <2>3. CASE In!EpollWait
    BY <1>4, <2>3 DEF In!EpollWait
  <2>4. CASE In!Accept \/ In!AcceptUnwatched
    BY <1>4, <2>4 DEF In!Accept, In!AcceptUnwatched, In!Accepted, In!Done
  <2>5. ASSUME NEW fd \in In!Fds, In!SkipEvent(fd) \/ In!Send(fd) \/ In!SendError(fd)
        PROVE  chan' = chan
    BY <1>5, <2>5 DEF In!SkipEvent, In!Done, In!Send, In!SendError
  <2>6. ASSUME NEW fd \in In!Fds,
               In!RetryRetained(fd) \/ In!Receive(fd) \/ In!ReceiveEnd(fd)
        PROVE  chan' = chan
    BY <1>5, <2>6 DEF In!RetryRetained, In!Receive, In!ReceiveEnd
  <2>. QED BY <1>4, <1>6, <2>1, <2>2, <2>3, <2>4, <2>5, <2>6 DEF InStep, In!InNext
<1>7. CASE InsrvDies \/ InsrvKilled
  BY <1>3, <1>7 DEF InsrvDies, InsrvKilled, In!SigPipe, In!Ends
<1>8. CASE InsrvStarts \/ MidStep \/ MidsrvEnds \/ MidsrvStarts \/ UNCHANGED vars
  BY <1>4, <1>8
     DEF InsrvStarts, In!Starts, MidStep, MidsrvEnds, MidsrvStarts, vars, insrvVars
<1>9. CASE \E c \in Conns : ClientStep(c)
  BY <1>4, <1>9 DEF ClientStep, insrvVars
<1>. QED BY <1>6, <1>7, <1>8, <1>9 DEF Next

LEMMA PairInvariant == Spec => [](PairInv /\ chan \in Slots)
<1>1. Init => PairInv /\ chan \in Slots
  BY BlankPairs, Numbers DEF Init, In!InInit, Cli!CliInit
<1>2. PairInv /\ chan \in Slots /\ [Next]_vars => (PairInv /\ chan \in Slots)'
  BY PairStep, ChanStep
<1>. QED BY <1>1, <1>2, PTL DEF Spec

(* A slot's index and its descriptor always go together (CSocketList::idle *)
(* and accept(), CSocketSrvEpoll.cpp:153-201), also across restarts, for   *)
(* every number of slots and of connections.                               *)
THEOREM SlotsKeepDescriptors == Spec => []IndexIsDescriptor
<1>1. PairInv => IndexIsDescriptor
  BY DEF PairInv, Paired, IndexIsDescriptor, Live, FdOf
<1>. QED BY <1>1, PairInvariant, PTL

-----------------------------------------------------------------------------
(* The epoll set *)

Interests == interest = [fd \in In!Fds |-> interest[fd]]
Quiet == \A fd \in In!Fds : ~Open(fd) => interest[fd] = In!Closed
OutInv == Interests /\ Quiet /\ OutMeansPending

LEMMA LiveFd ==
  ASSUME PairInv, NEW i \in Slots, Live(i)
  PROVE  val[i].srvfd = FdOf(i) /\ FdOf(i) \in In!Fds /\ Open(FdOf(i))
BY DEF PairInv, Paired, Live

LEMMA OtherFd ==
  ASSUME NEW i \in Slots, NEW j \in Slots, i # j
  PROVE  FdOf(i) # FdOf(j)
BY Numbers DEF FdOf

LEMMA OutAnswers ==
  ASSUME PairInv, OutInv, chan \in Slots, Answers
  PROVE  OutInv'
<1>1. /\ Kept /\ val'[chan].sendflag = 1
      /\ \A j \in Slots : j # chan => val'[j] = val[j]
  BY AnswerKept DEF Answers, PairInv
<1>2. CASE In!PopToSocket
  <2>1. val[chan].srvfd \in In!Fds /\ interest[val[chan].srvfd] # In!Closed
    BY <1>2 DEF In!PopToSocket, In!Watched
  <2>2. Live(chan) /\ val[chan].srvfd = FdOf(chan)
    <3>1. -1 \notin In!Fds
      BY Numbers
    <3>2. Live(chan)
      BY <2>1, <3>1 DEF Live
    <3>. QED BY <3>2, LiveFd
  <2>3. interest' = [fd \in In!Fds |-> IF fd = FdOf(chan) THEN "OUT" ELSE interest[fd]]
    BY <1>2, <2>2 DEF In!PopToSocket, OutInv, Interests
  <2>4. Quiet'
    <3>1. Open(FdOf(chan))
      BY <2>2, LiveFd
    <3>. QED BY <1>1, <2>3, <3>1 DEF OutInv, Quiet, Open, Kept
  <2>5. ASSUME NEW i \in Slots, val'[i].srvfd # -1, interest'[val'[i].srvfd] = "OUT"
        PROVE  val'[i].sendflag = 1
    <3>1. CASE i = chan
      BY <1>1, <3>1
    <3>2. CASE i # chan
      <4>1. val'[i] = val[i] /\ Live(i)
        BY <1>1, <2>5, <3>2 DEF Live
      <4>2. interest[val[i].srvfd] = "OUT"
        BY <2>3, <2>5, <3>2, <4>1, LiveFd, OtherFd
      <4>. QED BY <4>1, <4>2 DEF OutInv, OutMeansPending
    <3>. QED BY <3>1, <3>2
  <2>6. OutMeansPending'
    BY <2>5 DEF OutMeansPending, Live
  <2>. QED BY <2>3, <2>4, <2>6 DEF OutInv, Interests
<1>3. CASE interest' = interest
  <2>1. ASSUME NEW i \in Slots, val'[i].srvfd # -1, interest'[val'[i].srvfd] = "OUT"
        PROVE  val'[i].sendflag = 1
    BY <1>1, <1>3, <2>1 DEF OutInv, OutMeansPending, Live
  <2>2. OutMeansPending'
    BY <2>1 DEF OutMeansPending, Live
  <2>. QED BY <1>1, <1>3, <2>2 DEF OutInv, Interests, Quiet, Open, Kept
<1>. QED BY <1>2, <1>3 DEF Answers

LEMMA OutSends ==
  ASSUME PairInv, OutInv, NEW fd \in In!Fds, NEW i \in Slots, Sends(fd, i)
  PROVE  OutInv'
<1>1. /\ Kept /\ val[i].srvfd = fd
      /\ \A j \in Slots : j # i => val'[j] = val[j]
  BY SendKept DEF PairInv
<1>2. interest' = [e \in In!Fds |-> IF e = fd THEN "IN" ELSE interest[e]]
  BY DEF Sends, In!SendDone, OutInv, Interests
<1>3. Live(i) /\ Open(fd)
  <2>1. -1 \notin In!Fds
    BY Numbers
  <2>2. Live(i)
    BY <1>1, <2>1 DEF Live
  <2>. QED BY <1>1, <2>2, LiveFd
<1>4. Quiet'
  BY <1>1, <1>2, <1>3 DEF OutInv, Quiet, Open, Kept
<1>5. ASSUME NEW j \in Slots, val'[j].srvfd # -1, interest'[val'[j].srvfd] = "OUT"
      PROVE  val'[j].sendflag = 1
  <2>1. j # i
    BY <1>1, <1>2, <1>5 DEF Kept
  <2>2. val'[j] = val[j] /\ Live(j)
    BY <1>1, <1>5, <2>1 DEF Live
  <2>3. interest[val[j].srvfd] = "OUT"
    BY <1>1, <1>2, <1>3, <1>5, <2>1, <2>2, LiveFd, OtherFd
  <2>. QED BY <2>2, <2>3 DEF OutInv, OutMeansPending
<1>6. OutMeansPending'
  BY <1>5 DEF OutMeansPending, Live
<1>. QED BY <1>2, <1>4, <1>6 DEF OutInv, Interests

LEMMA OutAccepts ==
  ASSUME PairInv, OutInv, Accepts
  PROVE  OutInv'
<1>1. \E fd \in In!Fds : sock[fd] = In!Closed
  BY DEF Accepts, In!Accepted
<1>2. In!NewFd \in In!Fds /\ ~Open(In!NewFd)
  BY <1>1, LowestFd
<1>3. interest[In!NewFd] = In!Closed
  BY <1>2 DEF OutInv, Quiet
<1>4. /\ interest' = [fd \in In!Fds |-> interest'[fd]]
      /\ \A fd \in In!Fds : fd # In!NewFd => interest'[fd] = interest[fd]
      /\ interest'[In!NewFd] \in {"IN", In!Closed}
  BY <1>2, <1>3 DEF Accepts, In!Accept, OutInv, Interests
<1>5. sock' = [fd \in In!Fds |-> IF fd = In!NewFd THEN Head(backlog) ELSE sock[fd]]
  BY DEF Accepts, In!Accepted, PairInv, Sockets
<1>6. Head(backlog) # In!Closed
  <2>1. Head(backlog) \in Conns
    BY DEF Accepts, In!Accepted, In!Done, PairInv, Waiting
  <2>. QED BY <2>1, ServerAssumption DEF ServerAssumption
<1>7. Quiet'
  BY <1>4, <1>5, <1>6 DEF OutInv, Quiet, Open
<1>8. ASSUME NEW i \in Slots, val'[i].srvfd # -1, interest'[val'[i].srvfd] = "OUT"
      PROVE  val'[i].sendflag = 1
  <2>1. "OUT" \notin {"IN", In!Closed}
    BY DEF In!Closed
  <2>2. val'[i].srvfd # In!NewFd
    BY <1>4, <1>8, <2>1
  <2>3. val'[i] = val[i]
    <3>1. CASE In!Idle = -1
      BY <3>1 DEF Accepts, In!SlotTaken
    <3>2. CASE In!Idle # -1
      <4>. DEFINE s == In!TakenBy(val[In!Idle], In!NewFd)
      <4>1. In!Idle \in Slots
        BY <1>1, <3>2, NewPair DEF PairInv
      <4>2. s.srvfd = In!NewFd
        BY <4>1, SlotTakenBy DEF PairInv, Table
      <4>3. val' = [val EXCEPT ![In!Idle] = s]
        BY <3>2 DEF Accepts, In!SlotTaken
      <4>. HIDE DEF s
      <4>. QED BY <2>2, <4>2, <4>3 DEF PairInv, Table
    <3>. QED BY <3>1, <3>2
  <2>4. Live(i) /\ val[i].srvfd \in In!Fds
    <3>1. Live(i)
      BY <1>8, <2>3 DEF Live
    <3>. QED BY <3>1, LiveFd
  <2>. QED BY <1>4, <1>8, <2>2, <2>3, <2>4 DEF OutInv, OutMeansPending
<1>9. OutMeansPending'
  BY <1>8 DEF OutMeansPending, Live
<1>. QED BY <1>4, <1>7, <1>9 DEF OutInv, Interests

LEMMA OutCloses ==
  ASSUME PairInv, OutInv, NEW fd \in In!Fds, NEW i \in Slots, Closes(fd, i)
  PROVE  OutInv'
<1>1. /\ sock' = [e \in In!Fds |-> IF e = fd THEN In!Closed ELSE sock[e]]
      /\ interest' = [e \in In!Fds |-> IF e = fd THEN In!Closed ELSE interest[e]]
      /\ \A j \in Slots : val'[j] = IF j = i THEN In!Erased ELSE val[j]
  BY DEF Closes, In!CloseSlot, PairInv, Table, Sockets, OutInv, Interests
<1>2. Quiet'
  BY <1>1 DEF OutInv, Quiet, Open
<1>3. ASSUME NEW j \in Slots, val'[j].srvfd # -1, interest'[val'[j].srvfd] = "OUT"
      PROVE  val'[j].sendflag = 1
  <2>1. val'[j] = val[j] /\ Live(j)
    BY <1>1, <1>3, ErasedSlot DEF Live
  <2>2. interest[val[j].srvfd] = "OUT"
    BY <1>1, <1>3, <2>1, LiveFd DEF In!Closed
  <2>. QED BY <2>1, <2>2 DEF OutInv, OutMeansPending
<1>4. OutMeansPending'
  BY <1>3 DEF OutMeansPending, Live
<1>. QED BY <1>1, <1>2, <1>4 DEF OutInv, Interests

LEMMA OutStep ==
  ASSUME PairInv, OutInv, chan \in Slots, [Next]_vars
  PROVE  OutInv'
<1>1. CASE Steady /\ Waiting'
  <2>1. ASSUME NEW i \in Slots, val'[i].srvfd # -1, interest'[val'[i].srvfd] = "OUT"
        PROVE  val'[i].sendflag = 1
    BY <1>1, <2>1 DEF Steady, Kept, OutInv, OutMeansPending, Live
  <2>2. OutMeansPending'
    BY <2>1 DEF OutMeansPending, Live
  <2>. QED BY <1>1, <2>2 DEF Steady, Kept, OutInv, Interests, Quiet, Open
<1>2. CASE In!Ends
  <2>1. /\ val' = [i \in Slots |-> In!Erased]
        /\ interest' = [fd \in In!Fds |-> In!Closed]
    BY <1>2, Numbers DEF In!Ends, In!AllErased, In!AllClosed
  <2>2. OutMeansPending'
    BY <2>1, ErasedSlot DEF OutMeansPending, Live
  <2>. QED BY <2>1, <2>2 DEF OutInv, Interests, Quiet
<1>. QED
  BY <1>1, <1>2, OutAnswers, OutSends, OutAccepts, OutCloses, StepForm DEF PairInv

(* The branch "sendflag == 0 but act EPOLLOUT" (CSocketSrvEpoll.cpp:206) is*)
(* never taken: EPOLLOUT is asked for by popmsg_complex only with an answer*)
(* in sendmsg, and given up with the last unit of it or with the socket.   *)
THEOREM NothingIsSentUnasked == Spec => []OutMeansPending
<1>1. Init => OutInv
  <2>1. Init => /\ val = [i \in Slots |-> In!Erased]
                /\ interest = [fd \in In!Fds |-> In!Closed]
    BY Numbers DEF Init, In!InInit, In!AllErased, In!AllClosed
  <2>2. Init => OutMeansPending
    BY <2>1, ErasedSlot DEF OutMeansPending, Live
  <2>. QED BY <2>1, <2>2 DEF OutInv, Interests, Quiet
<1>2. PairInv /\ chan \in Slots /\ OutInv /\ [Next]_vars => OutInv'
  BY OutStep
<1>3. OutInv => OutMeansPending
  BY DEF OutInv
<1>. QED BY <1>1, <1>2, <1>3, PairInvariant, PTL DEF Spec

-----------------------------------------------------------------------------
(* Messages and registrations *)

SlotFds == FirstFd .. FirstFd + EPOLL_SIZE - 1

(* An index and a descriptor that NEW_CONNECT may carry: those of a slot,  *)
(* or 65535, which is -1, with a descriptor above those of the slots.      *)
GoodPair(index, fd) ==
  \/ index \in Slots /\ fd = FdOf(index)
  \/ index = 65535 /\ fd \in Nat /\ fd >= FirstFd + EPOLL_SIZE

GoodMsg(m) ==
  /\ m.id = "NEW_CONNECT" => GoodPair(m.srcid, m.dstid)
  /\ m.id = "LOGIN" => m.dstid \in SlotFds

GoodQueue(s) == \E X : s \in Seq(X) /\ \A m \in X : GoodMsg(m)

GoodTable(m) ==
  /\ m = [pindex |-> m.pindex, psrvfd |-> m.psrvfd]
  /\ m.pindex = [e \in Mid!Map!Entries |-> m.pindex[e]]
  /\ m.psrvfd = [e \in Mid!Map!Entries |-> m.psrvfd[e]]
  /\ \A e \in Mid!Map!Entries :
       (m.pindex[e] = 0 /\ m.psrvfd[e] = 0) \/ GoodPair(m.pindex[e], m.psrvfd[e])

RouteInv == GoodQueue(sinq) /\ GoodMsg(inmsg) /\ GoodTable(map)

LEMMA GoodPush ==
  ASSUME NEW s, GoodQueue(s), NEW m, GoodMsg(m)
  PROVE  GoodQueue(In!Pushed(s, m))
<1>1. PICK X : s \in Seq(X) /\ \A x \in X : GoodMsg(x)
  BY DEF GoodQueue
<1>2. s \in Seq(X \cup {m}) /\ Append(s, m) \in Seq(X \cup {m})
  BY <1>1
<1>3. In!Pushed(s, m) \in {s, Append(s, m)}
  BY DEF In!Pushed
<1>4. In!Pushed(s, m) \in Seq(X \cup {m})
  BY <1>2, <1>3
<1>. QED BY <1>1, <1>4 DEF GoodQueue

LEMMA GoodPop ==
  ASSUME NEW s, GoodQueue(s), s # <<>>
  PROVE  GoodQueue(Tail(s)) /\ GoodMsg(Head(s))
<1>1. PICK X : s \in Seq(X) /\ \A x \in X : GoodMsg(x)
  BY DEF GoodQueue
<1>2. Tail(s) \in Seq(X) /\ Head(s) \in X
  BY <1>1
<1>. QED BY <1>1, <1>2 DEF GoodQueue

LEMMA EmptyQueue == GoodQueue(<<>>)
<1>. DEFINE s == <<>>
            X == {}
<1>1. s \in Seq(X) /\ \A m \in X : GoodMsg(m)
  OBVIOUS
<1>. HIDE DEF s, X
<1>2. GoodQueue(s)
  BY <1>1 DEF GoodQueue
<1>. QED BY <1>2 DEF s

(* A descriptor, and an index but -1, are what they are as uint16_t. *)
LEMMA FdRange ==
  ASSUME NEW fd \in In!Fds
  PROVE  fd \in Nat /\ fd # -1 /\ In!U16(fd) = fd
<1>1. PICK n \in Nat : In!Fds = FirstFd .. FirstFd + n - 1 /\ FirstFd + n <= 65536
  BY Numbers
<1>2. FirstFd \in Nat /\ fd \in FirstFd .. FirstFd + n - 1
  BY <1>1, Numbers
<1>3. fd \in Nat
  BY <1>2
<1>4. fd < 65536
  BY <1>1, <1>2
<1>5. fd % 65536 = fd
  BY <1>3, <1>4
<1>. QED BY <1>3, <1>5 DEF In!U16

LEMMA IndexRange ==
  In!U16(-1) = 65535 /\ \A i \in Slots : In!U16(i) = i
<1>1. ASSUME NEW i \in Int, i = -1
      PROVE  In!U16(i) = 65535
  <2>1. (i + 65536) % 65536 = i % 65536
    OBVIOUS
  <2>2. i + 65536 = 65535
    BY <1>1
  <2>3. 65535 % 65536 = 65535
    OBVIOUS
  <2>. QED BY <2>1, <2>2, <2>3 DEF In!U16
<1>2. -1 \in Int
  OBVIOUS
<1>3. ASSUME NEW i \in Slots
      PROVE  In!U16(i) = i
  <2>1. i \in Nat /\ i < 65536
    BY Numbers
  <2>2. i % 65536 = i
    BY <2>1
  <2>. QED BY <2>2 DEF In!U16
<1>. QED BY <1>1, <1>2, <1>3

LEMMA GoodClose ==
  ASSUME NEW index, NEW fd
  PROVE  GoodMsg(In!CloConnect(index, fd))
<1>1. In!CloConnect(index, fd).id = "CLO_CONNECT"
  BY DEF In!CloConnect, In!NewConnect
<1>. QED BY <1>1 DEF GoodMsg

LEMMA GoodLogin ==
  ASSUME PairInv, NEW fd \in In!Fds, NEW i, In!Find(fd) = i, i # -1, NEW req
  PROVE  GoodMsg(In!Login(fd, req))
<1>2. fd # -1 /\ In!U16(fd) = fd
  BY FdRange
<1>3. i \in Slots /\ val[i].srvfd = fd
  BY FoundSlot
<1>4. fd = FdOf(i)
  BY <1>2, <1>3 DEF PairInv, Paired
<1>5. fd \in SlotFds
  BY <1>3, <1>4, Numbers DEF SlotFds, FdOf
<1>6. In!Login(fd, req).id = "LOGIN" /\ In!Login(fd, req).dstid = fd
  BY <1>2 DEF In!Login
<1>. QED BY <1>5, <1>6 DEF GoodMsg

LEMMA GoodNew ==
  ASSUME PairInv, \E fd \in In!Fds : sock[fd] = In!Closed
  PROVE  GoodMsg(In!NewConnect(In!Idle, In!NewFd))
<1>. DEFINE m == In!NewConnect(In!Idle, In!NewFd)
<1>1. In!NewFd \in Nat /\ In!U16(In!NewFd) = In!NewFd
  BY LowestFd, FdRange
<1>2. /\ m.id = "NEW_CONNECT" /\ m.srcid = In!U16(In!Idle) /\ m.dstid = In!NewFd
  BY <1>1 DEF In!NewConnect
<1>3. GoodPair(In!U16(In!Idle), In!NewFd)
  BY <1>1, NewPair, IndexRange DEF PairInv, GoodPair
<1>. HIDE DEF m
<1>. QED BY <1>2, <1>3 DEF GoodMsg, m

LEMMA GoodReg ==
  ASSUME NEW m, GoodTable(m), NEW index, NEW fd, GoodPair(index, fd)
  PROVE  GoodTable(Mid!Map!Reg(m, index, fd))
<1>. DEFINE free == Mid!Map!EntriesWith(m.pindex, 0)
            i == Mid!Map!Min(free)
<1>1. CASE Mid!Map!RegFails(m, index)
  BY <1>1 DEF Mid!Map!Reg
<1>2. CASE ~Mid!Map!RegFails(m, index)
  <2>1. Mid!Map!Reg(m, index, fd) = Mid!Map!Filled(m, i, index, fd)
    BY <1>2 DEF Mid!Map!Reg
  <2>. HIDE DEF i
  <2>. QED BY <2>1 DEF Mid!Map!Filled, GoodTable
<1>. QED BY <1>1, <1>2

LEMMA GoodDel ==
  ASSUME NEW m, GoodTable(m), NEW index
  PROVE  GoodTable(Mid!Map!Del(m, index))
<1>. DEFINE found == Mid!Map!EntriesWith(m.pindex, index)
            i == Mid!Map!Min(found)
<1>1. CASE found = {}
  BY <1>1 DEF Mid!Map!Del
<1>2. CASE found # {}
  <2>1. Mid!Map!Del(m, index) = Mid!Map!Filled(m, i, 0, 0)
    BY <1>2 DEF Mid!Map!Del
  <2>. HIDE DEF i
  <2>. QED BY <2>1 DEF Mid!Map!Filled, GoodTable
<1>. QED BY <1>1, <1>2

LEMMA ClearedTable == GoodTable(Mid!Map!Cleared)
BY DEF GoodTable, Mid!Map!Cleared

(* What a login is answered on: fnd() finds a registration of its socket,  *)
(* which is one of a slot, and the registration has the slot's index.      *)
LEMMA GoodFnd ==
  ASSUME NEW m, GoodTable(m), NEW fd \in SlotFds
  PROVE  Mid!Map!Fnd(m, fd) \in Slots \cup {-1}
<1>. DEFINE found == Mid!Map!EntriesWith(m.psrvfd, fd)
            i == Mid!Map!Min(found)
<1>1. CASE found = {}
  BY <1>1 DEF Mid!Map!Fnd
<1>2. CASE found # {}
  <2>1. found \subseteq Nat /\ found \subseteq {e \in Mid!Map!Entries : m.psrvfd[e] = fd}
    BY Numbers DEF Mid!Map!EntriesWith, Mid!Map!Entries
  <2>2. Mid!Map!Fnd(m, fd) = m.pindex[i]
    BY <1>2 DEF Mid!Map!Fnd
  <2>3. i \in found
    <3>. HIDE DEF found
    <3>. QED BY <1>2, <2>1, MapMin
  <2>4. i \in Mid!Map!Entries /\ m.psrvfd[i] = fd
    BY <2>1, <2>3
  <2>. HIDE DEF i
  <2>5. GoodPair(m.pindex[i], fd)
    BY <2>4, Numbers DEF GoodTable, SlotFds
  <2>. QED BY <2>2, <2>5, Numbers DEF GoodPair, SlotFds
<1>. QED BY <1>1, <1>2

LEMMA RouteStep ==
  ASSUME PairInv, RouteInv, [Next]_vars
  PROVE  RouteInv'
<1>. GoodQueue(sinq) /\ GoodMsg(inmsg) /\ GoodTable(map)
  BY DEF RouteInv
<1>1. CASE InStep
  <2>1. sinq' = sinq \/ \E m : GoodMsg(m) /\ sinq' = In!Pushed(sinq, m)
    <3>1. CASE \/ In!PopSkips \/ In!PopToSocket \/ In!PopToClosed \/ In!EpollWait
               \/ In!AcceptUnwatched
               \/ \E fd \in In!Fds : In!SkipEvent(fd) \/ In!Send(fd)
      BY <3>1 DEF In!PopSkips, In!PopToSocket, In!PopToClosed, In!TakeAnswer,
                  In!EpollWait, In!AcceptUnwatched, In!SkipEvent, In!Send
    <3>2. CASE In!Accept
      BY <3>2, GoodNew DEF In!Accept, In!Accepted
    <3>3. ASSUME NEW fd \in In!Fds, In!SendError(fd) \/ In!ReceiveEnd(fd)
          PROVE  \E m : GoodMsg(m) /\ sinq' = In!Pushed(sinq, m)
      BY <3>3, GoodClose DEF In!SendError, In!ReceiveEnd, In!CloseSlot
    <3>4. ASSUME NEW fd \in In!Fds, NEW i, In!On(fd, "IN", i), NEW req,
                 In!HandOver(fd, i, req)
          PROVE  \E m : GoodMsg(m) /\ sinq' = In!Pushed(sinq, m)
      BY <3>4, GoodLogin DEF In!On, In!At, In!HandOver
    <3>5. ASSUME NEW fd \in In!Fds, In!RetryRetained(fd)
          PROVE  \E m : GoodMsg(m) /\ sinq' = In!Pushed(sinq, m)
      BY <3>4, <3>5 DEF In!RetryRetained
    <3>6. ASSUME NEW fd \in In!Fds, In!Receive(fd)
          PROVE  sinq' = sinq \/ \E m : GoodMsg(m) /\ sinq' = In!Pushed(sinq, m)
      <4>1. PICK i \in In!Slots :
              /\ In!On(fd, "IN", i)
              /\ LET n == val[i].recvmsg.n + In!Taken(fd, i)
                     req == <<sock[fd], up[sock[fd]][In!Taken(fd, i)]>>
                 IN  IF n = ReqLen THEN In!HandOver(fd, i, req) ELSE UNCHANGED sinq
        BY <3>6 DEF In!Receive
      <4>. QED BY <3>4, <4>1
    <3>. QED BY <1>1, <3>1, <3>2, <3>3, <3>5, <3>6 DEF InStep, In!InNext
  <2>2. GoodQueue(sinq')
    BY <2>1, GoodPush
  <2>3. inmsg' = inmsg /\ map' = map
    BY <1>1 DEF InStep, midsrvVars
  <2>. QED BY <2>2, <2>3 DEF RouteInv
<1>2. CASE MidStep
  <2>1. ASSUME Mid!PopMsg PROVE RouteInv'
    BY <2>1, GoodPop DEF Mid!PopMsg, RouteInv
  <2>2. GoodMsg(Mid!NoMsg)
    BY DEF GoodMsg, Mid!NoMsg
  <2>3. CASE Mid!HandleNewConnect
    <3>1. GoodTable(map')
      BY <2>3, GoodReg DEF Mid!HandleNewConnect, GoodMsg
    <3>. QED BY <2>2, <2>3, <3>1 DEF Mid!HandleNewConnect, Mid!Handled, RouteInv
  <2>4. CASE Mid!HandleCloConnect
    <3>1. GoodTable(map')
      BY <2>4, GoodDel DEF Mid!HandleCloConnect
    <3>. QED BY <2>2, <2>4, <3>1 DEF Mid!HandleCloConnect, Mid!Handled, RouteInv
  <2>5. CASE Mid!HandleLogin
    BY <2>2, <2>5 DEF Mid!HandleLogin, Mid!Handled, RouteInv
  <2>. QED BY <1>2, <2>1, <2>3, <2>4, <2>5 DEF MidStep, Mid!MidNext
<1>3. CASE InsrvDies \/ InsrvKilled
  BY <1>3 DEF InsrvDies, InsrvKilled, InsrvEnded, In!SigPipe, In!Ends, midsrvVars, RouteInv
<1>4. CASE InsrvStarts
  BY <1>4, EmptyQueue DEF InsrvStarts, In!Starts, midsrvVars, RouteInv
<1>5. CASE MidsrvEnds
  <2>1. GoodMsg(Mid!Down)
    BY DEF GoodMsg, Mid!Down
  <2>. QED BY <1>5, <2>1, ClearedTable DEF MidsrvEnds, Mid!MidEnds, RouteInv
<1>6. CASE MidsrvStarts
  <2>1. GoodMsg(Mid!NoMsg)
    BY DEF GoodMsg, Mid!NoMsg
  <2>. QED BY <1>6, <2>1, EmptyQueue DEF MidsrvStarts, Mid!MidStarts, RouteInv
<1>7. CASE (\E c \in Conns : ClientStep(c)) \/ UNCHANGED vars
  BY <1>7 DEF ClientStep, vars, midsrvVars, RouteInv
<1>. QED BY <1>1, <1>2, <1>3, <1>4, <1>5, <1>6, <1>7 DEF Next

(* midsrv never calls pushmsg with an index that is not one of a channel   *)
(* (CMidHandle.cpp:57-112), whatever connections come when the list is     *)
(* full and whichever server is started again.                             *)
THEOREM LoginsStayInRange == Spec => []DispatchInRange
<1>1. Init => RouteInv
  <2>1. GoodMsg(Mid!NoMsg)
    BY DEF GoodMsg, Mid!NoMsg
  <2>. QED BY <2>1, EmptyQueue, ClearedTable DEF Init, Mid!MidInit, RouteInv
<1>2. PairInv /\ RouteInv /\ [Next]_vars => RouteInv'
  BY RouteStep
<1>3. RouteInv => DispatchInRange
  BY GoodFnd DEF RouteInv, GoodMsg, DispatchInRange, Mid!Channel
<1>. QED BY <1>1, <1>2, <1>3, PairInvariant, PTL DEF Spec

-----------------------------------------------------------------------------
(* The connections that are open or wait for accept() *)

Typed ==
  /\ cli = [c \in Conns |-> cli[c]]
  /\ \A fd \in In!Fds : sock[fd] \in Conns \cup {In!Closed}

(* No connection has two places, and one that has a place is not idle.     *)
Distinct ==
  /\ \A a, b \in In!Fds : Open(a) /\ sock[a] = sock[b] => a = b
  /\ \A j, k \in 1 .. Len(backlog) : backlog[j] = backlog[k] => j = k
  /\ \A fd \in In!Fds, j \in 1 .. Len(backlog) : sock[fd] # backlog[j]
Begun ==
  /\ \A fd \in In!Fds : Open(fd) => cli[sock[fd]] # "idle"
  /\ \A j \in 1 .. Len(backlog) : cli[backlog[j]] # "idle"
Few == Cardinality(Opened) <= MaxOpen

(* Every open descriptor is that of a slot. *)
Low == \A fd \in In!Fds : Open(fd) => fd < FirstFd + EPOLL_SIZE

PlaceInv == Typed /\ Distinct /\ Begun
OpenInv == PlaceInv /\ Few /\ Low

LEMMA ClosedIsNoConn == In!Closed \notin Conns
BY ServerAssumption DEF ServerAssumption

LEMMA OpenedSet ==
  ASSUME PairInv, Typed
  PROVE  /\ Opened = {sock[fd] : fd \in {e \in In!Fds : Open(e)}}
                     \cup {backlog[j] : j \in 1 .. Len(backlog)}
         /\ Opened \subseteq Conns
         /\ IsFiniteSet(Opened) /\ Cardinality(Opened) \in Nat
<1>1. DOMAIN sock = In!Fds
  BY DEF PairInv, Sockets
<1>2. backlog \in Seq(Conns)
  BY DEF PairInv, Waiting
<1>3. Range(backlog) = {backlog[j] : j \in 1 .. Len(backlog)}
  BY <1>2 DEF Range
<1>4. Range(sock) = {sock[fd] : fd \in In!Fds}
  BY <1>1 DEF Range
<1>5. Accepted = {sock[fd] : fd \in {e \in In!Fds : Open(e)}}
  BY <1>4, ClosedIsNoConn DEF Accepted, Typed, Open
<1>6. Opened \subseteq Conns
  BY <1>2, <1>3 DEF Opened, Accepted
<1>7. IsFiniteSet(Conns)
  BY GameAssumption DEF GameAssumption
<1>8. IsFiniteSet(Opened) /\ Cardinality(Opened) \in Nat
  BY <1>6, <1>7, FS_Subset, FS_CardinalityType
<1>. QED BY <1>3, <1>5, <1>6, <1>8 DEF Opened

(* Fewer places in use. *)
LEMMA FewRemain ==
  ASSUME PairInv, Typed, Few, MaxOpen \in Nat, Opened' \subseteq Opened
  PROVE  Few'
<1>1. IsFiniteSet(Opened) /\ Cardinality(Opened) \in Nat
  BY OpenedSet
<1>2. IsFiniteSet(Opened') /\ Cardinality(Opened') <= Cardinality(Opened)
  BY <1>1, FS_Subset
<1>3. Cardinality(Opened') \in Nat
  BY <1>2, FS_CardinalityType
<1>. QED BY <1>1, <1>2, <1>3 DEF Few

(* The slots' connections and one that waits are more than there are slots.*)
LEMMA RoomForNext ==
  ASSUME PairInv, OpenInv, MaxOpen \in Nat, MaxOpen <= EPOLL_SIZE, backlog # <<>>
  PROVE  \E i \in Slots : ~Live(i)
<1>1. SUFFICES ASSUME \A i \in Slots : Live(i)
               PROVE  FALSE
  OBVIOUS
<1>2. EPOLL_SIZE \in Nat /\ Slots = 1 .. EPOLL_SIZE
  BY Numbers
<1>3. backlog \in Seq(Conns) /\ 1 \in 1 .. Len(backlog)
  BY DEF PairInv, Waiting
<1>4. \A i \in Slots : FdOf(i) \in In!Fds /\ Open(FdOf(i))
  BY <1>1, LiveFd
<1>. DEFINE S == 1 .. EPOLL_SIZE + 1
            f == [i \in S |-> IF i \in Slots THEN sock[FdOf(i)] ELSE backlog[1]]
<1>5. IsFiniteSet(S) /\ Cardinality(S) = EPOLL_SIZE + 1
  BY <1>2, FS_Interval
<1>6. f \in [S -> Opened]
  BY <1>3, <1>4, OpenedSet DEF OpenInv, PlaceInv
<1>7. \A i, j \in S : f[i] = f[j] => i = j
  <2>1. ASSUME NEW i \in S, NEW j \in S, f[i] = f[j]
        PROVE  i = j
    <3>1. CASE i \in Slots /\ j \in Slots
      <4>1. FdOf(i) = FdOf(j)
        BY <1>4, <2>1, <3>1 DEF OpenInv, PlaceInv, Distinct
      <4>. QED BY <3>1, <4>1, OtherFd
    <3>2. CASE i \in Slots /\ j \notin Slots
      BY <1>3, <1>4, <2>1, <3>2 DEF OpenInv, PlaceInv, Distinct
    <3>3. CASE i \notin Slots /\ j \in Slots
      BY <1>3, <1>4, <2>1, <3>3 DEF OpenInv, PlaceInv, Distinct
    <3>4. CASE i \notin Slots /\ j \notin Slots
      BY <1>2, <3>4
    <3>. QED BY <3>1, <3>2, <3>3, <3>4
  <2>. QED BY <2>1
<1>8. IsFiniteSet(Opened) /\ Cardinality(Opened) \in Nat
  BY OpenedSet DEF OpenInv, PlaceInv
<1>9. Cardinality(Opened) < Cardinality(S)
  BY <1>2, <1>5, <1>8 DEF OpenInv, Few
<1>. HIDE DEF f, S
<1>10. \E i, j \in S : i # j /\ f[i] = f[j]
  BY <1>5, <1>6, <1>8, <1>9, FS_PigeonHole
<1>. QED BY <1>7, <1>10

-----------------------------------------------------------------------------
(* The steps *)

(* What a step does to the clients' places. *)
LEMMA PlaceForm ==
  ASSUME Table, Waiting, Typed, [Next]_vars
  PROVE  \/ /\ sock' = sock /\ backlog' = backlog
            /\ cli' = [c \in Conns |-> cli'[c]]
            /\ \A c \in Conns : cli[c] # "idle" => cli'[c] # "idle"
         \/ sock' = sock /\ \E c \in Conns : Connect(c)
         \/ Accepts /\ cli' = cli
         \/ \E fd \in In!Fds, i \in Slots :
              Closes(fd, i) /\ cli' = cli /\ backlog' = backlog
         \/ In!Ends
<1>. DEFINE Rests == sock' = sock /\ backlog' = backlog
<1>1. CASE InStep
  <2>1. cli' = cli
    BY <1>1 DEF InStep
  <2>2. ASSUME In!PopSkips \/ In!PopToSocket \/ In!PopToClosed \/ In!EpollWait
        PROVE  Rests
    BY <2>2 DEF In!PopSkips, In!PopToSocket, In!PopToClosed, In!TakeAnswer, In!EpollWait
  <2>3. ASSUME In!Accept \/ In!AcceptUnwatched
        PROVE  Accepts /\ cli' = cli
    BY <2>1, <2>3 DEF In!Accept, In!AcceptUnwatched, Accepts
  <2>4. ASSUME NEW fd \in In!Fds,
               In!SkipEvent(fd) \/ In!Send(fd) \/ In!RetryRetained(fd) \/ In!Receive(fd)
        PROVE  Rests
    BY <2>4 DEF In!SkipEvent, In!Send, In!RetryRetained, In!Receive
  <2>5. ASSUME NEW fd \in In!Fds, In!SendError(fd) \/ In!ReceiveEnd(fd)
        PROVE  \E i \in Slots : Closes(fd, i) /\ backlog' = backlog
    <3>1. PICK i \in In!Slots, flag \in {"IN", "OUT"} :
            In!On(fd, flag, i) /\ In!CloseSlot(fd, i)
      BY <2>5 DEF In!SendError, In!ReceiveEnd
    <3>2. i \in Slots /\ val[i].srvfd = fd /\ events' \subseteq events
      BY <3>1, FoundSlot DEF In!On, In!At, In!Done
    <3>3. backlog' = backlog
      BY <3>1 DEF In!CloseSlot
    <3>. QED BY <3>1, <3>2, <3>3 DEF Closes
  <2>6. ASSUME Rests
        PROVE  /\ cli' = [c \in Conns |-> cli'[c]]
               /\ \A c \in Conns : cli[c] # "idle" => cli'[c] # "idle"
    BY <2>1 DEF Typed
  <2>. HIDE DEF Rests
  <2>7. \/ Rests
        \/ Accepts /\ cli' = cli
        \/ \E fd \in In!Fds, i \in Slots :
             Closes(fd, i) /\ cli' = cli /\ backlog' = backlog
    <3>1. CASE \E fd \in In!Fds : In!SendError(fd) \/ In!ReceiveEnd(fd)
      BY <2>1, <2>5, <3>1
    <3>2. CASE \E fd \in In!Fds : In!SkipEvent(fd) \/ In!Send(fd)
                                  \/ In!RetryRetained(fd) \/ In!Receive(fd)
      BY <2>4, <3>2
    <3>3. CASE In!PopSkips \/ In!PopToSocket \/ In!PopToClosed \/ In!EpollWait
      BY <2>2, <3>3
    <3>4. \/ In!PopSkips \/ In!PopToSocket \/ In!PopToClosed \/ In!EpollWait
          \/ In!Accept \/ In!AcceptUnwatched
          \/ \E fd \in In!Fds : In!SendError(fd) \/ In!ReceiveEnd(fd)
          \/ \E fd \in In!Fds : In!SkipEvent(fd) \/ In!Send(fd)
                                \/ In!RetryRetained(fd) \/ In!Receive(fd)
      BY <1>1 DEF InStep, In!InNext
    <3>. QED BY <2>3, <3>1, <3>2, <3>3, <3>4
  <2>. QED BY <2>6, <2>7 DEF Rests
<1>2. ASSUME NEW c \in Conns, ClientStep(c)
      PROVE  \/ /\ Rests
                /\ cli' = [d \in Conns |-> cli'[d]]
                /\ \A d \in Conns : cli[d] # "idle" => cli'[d] # "idle"
             \/ sock' = sock /\ Connect(c)
  <2>1. sock' = sock
    BY <1>2 DEF ClientStep, insrvVars
  <2>2. CASE Cli!CliProgress(c) \/ Leave(c)
    <3>1. backlog' = backlog
      BY <2>2 DEF Cli!CliProgress, Cli!SendUnit, Cli!Recv, Leave, Cli!Leave
    <3>2. \E p : p # "idle" /\ cli' = [cli EXCEPT ![c] = p]
      <4>1. CASE Cli!SendUnit(c)
        BY <4>1 DEF Cli!SendUnit
      <4>2. CASE Cli!Recv(c)
        BY <4>2 DEF Cli!Recv
      <4>3. CASE Leave(c)
        BY <4>3 DEF Leave, Cli!Leave
      <4>. QED BY <2>2, <4>1, <4>2, <4>3 DEF Cli!CliProgress
    <3>. QED BY <2>1, <3>1, <3>2 DEF Typed
  <2>. QED BY <1>2, <2>1, <2>2 DEF ClientStep
<1>3. CASE \E c \in Conns : ClientStep(c)
  BY <1>2, <1>3
<1>4. CASE InsrvDies \/ InsrvKilled
  BY <1>4 DEF InsrvDies, InsrvKilled, In!SigPipe
<1>5. CASE InsrvStarts \/ MidStep \/ MidsrvEnds \/ MidsrvStarts \/ UNCHANGED vars
  <2>1. Rests /\ cli' = cli
    BY <1>5 DEF InsrvStarts, In!Starts, MidStep, MidsrvEnds, MidsrvStarts, vars,
                clientVars, insrvVars
  <2>. QED BY <2>1 DEF Typed
<1>. QED BY <1>1, <1>3, <1>4, <1>5 DEF Next

LEMMA PlaceRests ==
  ASSUME PairInv, PlaceInv, sock' = sock, backlog' = backlog,
         cli' = [c \in Conns |-> cli'[c]],
         \A c \in Conns : cli[c] # "idle" => cli'[c] # "idle"
  PROVE  PlaceInv'
<1>1. Typed' /\ Distinct'
  BY DEF PlaceInv, Typed, Distinct, Open
<1>2. backlog \in Seq(Conns)
  BY DEF PairInv, Waiting
<1>3. \A fd \in In!Fds : Open(fd) => sock[fd] \in Conns
  BY DEF PlaceInv, Typed, Open
<1>4. \A j \in 1 .. Len(backlog) : backlog[j] \in Conns
  BY <1>2
<1>5. Begun'
  BY <1>3, <1>4 DEF PlaceInv, Begun, Open
<1>. QED BY <1>1, <1>5 DEF PlaceInv

LEMMA OpenRests ==
  ASSUME PairInv, OpenInv, sock' = sock, backlog' = backlog
  PROVE  Few' /\ Low'
BY DEF OpenInv, Low, Few, Opened, Accepted, Open

LEMMA PlaceConnects ==
  ASSUME PairInv, PlaceInv, NEW c \in Conns, Connect(c), sock' = sock
  PROVE  PlaceInv'
<1>1. /\ cli[c] = "idle" /\ cli' = [cli EXCEPT ![c] = "send"]
      /\ backlog' = Append(backlog, c)
  BY DEF Connect, Cli!Connect
<1>2. backlog \in Seq(Conns)
  BY DEF PairInv, Waiting
<1>3. /\ Len(backlog') = Len(backlog) + 1 /\ Len(backlog) \in Nat
      /\ \A j \in 1 .. Len(backlog') :
           backlog'[j] = IF j = Len(backlog) + 1 THEN c ELSE backlog[j]
  BY <1>1, <1>2
<1>4. \A j \in 1 .. Len(backlog) : backlog[j] \in Conns /\ backlog[j] # c
  BY <1>1, <1>2 DEF PlaceInv, Begun
<1>5. \A fd \in In!Fds : sock[fd] # c
  BY <1>1, ClosedIsNoConn DEF PlaceInv, Begun, Open
<1>6. Typed'
  BY <1>1 DEF PlaceInv, Typed
<1>7. Distinct'
  BY <1>3, <1>4, <1>5 DEF PlaceInv, Distinct, Open
<1>8. \A d \in Conns : d # c => cli'[d] = cli[d]
  BY <1>1 DEF PlaceInv, Typed
<1>9. cli'[c] # "idle"
  BY <1>1 DEF PlaceInv, Typed
<1>10. Begun'
  BY <1>3, <1>4, <1>5, <1>8, <1>9 DEF PlaceInv, Begun, Open, Typed
<1>. QED BY <1>6, <1>7, <1>10 DEF PlaceInv

LEMMA OpenConnects ==
  ASSUME PairInv, OpenInv, MaxOpen \in Nat, NEW c \in Conns, Connect(c), sock' = sock
  PROVE  Few' /\ Low'
<1>1. backlog' = Append(backlog, c) /\ Cardinality(Opened) < MaxOpen
  BY DEF Connect, Cli!Connect
<1>2. backlog \in Seq(Conns)
  BY DEF PairInv, Waiting
<1>3. Low'
  BY DEF OpenInv, Low, Open
<1>4. Opened' = Opened \cup {c}
  <2>1. Range(backlog') = Range(backlog) \cup {c}
    BY <1>1, <1>2 DEF Range
  <2>. QED BY <2>1 DEF Opened, Accepted
<1>5. Few'
  <2>1. IsFiniteSet(Opened) /\ Cardinality(Opened) \in Nat
    BY OpenedSet DEF OpenInv, PlaceInv
  <2>2. Cardinality(Opened \cup {c}) <= Cardinality(Opened) + 1
    BY <2>1, FS_AddElement
  <2>3. Cardinality(Opened \cup {c}) \in Nat
    BY <2>1, FS_AddElement, FS_CardinalityType
  <2>. QED BY <1>1, <1>4, <2>1, <2>2, <2>3 DEF Few
<1>. QED BY <1>3, <1>5

(* accept() moves the first connection that waits to the new descriptor.   *)
LEMMA AcceptForm ==
  ASSUME PairInv, Accepts
  PROVE  /\ backlog \in Seq(Conns) /\ backlog # <<>> /\ backlog' = Tail(backlog)
         /\ Len(backlog) \in Nat \ {0} /\ Len(backlog') = Len(backlog) - 1
         /\ \A j \in 1 .. Len(backlog') : backlog'[j] = backlog[j + 1]
         /\ backlog[1] \in Conns /\ 1 \in 1 .. Len(backlog)
         /\ \E fd \in In!Fds : sock[fd] = In!Closed
         /\ In!NewFd \in In!Fds /\ ~Open(In!NewFd)
         /\ sock' = [fd \in In!Fds |-> IF fd = In!NewFd THEN backlog[1] ELSE sock[fd]]
<1>1. /\ \E fd \in In!Fds : sock[fd] = In!Closed
      /\ Listen \in events /\ backlog' = Tail(backlog)
  BY DEF Accepts, In!Accepted, In!Done
<1>2. backlog \in Seq(Conns) /\ backlog # <<>>
  BY <1>1 DEF PairInv, Waiting
<1>3. /\ Len(backlog) \in Nat \ {0} /\ Len(backlog') = Len(backlog) - 1
      /\ \A j \in 1 .. Len(backlog') : backlog'[j] = backlog[j + 1]
      /\ Head(backlog) = backlog[1]
  BY <1>1, <1>2
<1>4. backlog[1] \in Conns /\ 1 \in 1 .. Len(backlog)
  BY <1>2
<1>5. In!NewFd \in In!Fds /\ ~Open(In!NewFd)
  BY <1>1, LowestFd
<1>6. sock' = [fd \in In!Fds |-> IF fd = In!NewFd THEN backlog[1] ELSE sock[fd]]
  BY <1>3 DEF Accepts, In!Accepted, PairInv, Sockets
<1>. QED BY <1>1, <1>2, <1>3, <1>4, <1>5, <1>6

LEMMA PlaceAccepts ==
  ASSUME PairInv, PlaceInv, Accepts, cli' = cli
  PROVE  PlaceInv'
<1>1. /\ Len(backlog) \in Nat \ {0} /\ Len(backlog') = Len(backlog) - 1
      /\ \A j \in 1 .. Len(backlog') : backlog'[j] = backlog[j + 1]
      /\ backlog[1] \in Conns /\ 1 \in 1 .. Len(backlog)
      /\ In!NewFd \in In!Fds /\ ~Open(In!NewFd)
      /\ sock' = [fd \in In!Fds |-> IF fd = In!NewFd THEN backlog[1] ELSE sock[fd]]
  BY AcceptForm
<1>2. Typed'
  BY <1>1 DEF PlaceInv, Typed
<1>3. Distinct'
  <2>1. ASSUME NEW a \in In!Fds, NEW b \in In!Fds,
               sock'[a] # In!Closed, sock'[a] = sock'[b]
        PROVE  a = b
    BY <1>1, <2>1 DEF PlaceInv, Distinct, Open
  <2>2. ASSUME NEW j \in 1 .. Len(backlog'), NEW k \in 1 .. Len(backlog'),
               backlog'[j] = backlog'[k]
        PROVE  j = k
    BY <1>1, <2>2 DEF PlaceInv, Distinct
  <2>3. ASSUME NEW fd \in In!Fds, NEW j \in 1 .. Len(backlog')
        PROVE  sock'[fd] # backlog'[j]
    <3>1. /\ j + 1 \in 1 .. Len(backlog) /\ j + 1 # 1
          /\ backlog'[j] = backlog[j + 1]
      BY <1>1
    <3>. QED BY <1>1, <3>1 DEF PlaceInv, Distinct
  <2>. QED BY <2>1, <2>2, <2>3 DEF Distinct, Open
<1>4. Begun'
  BY <1>1 DEF PlaceInv, Begun, Open
<1>. QED BY <1>2, <1>3, <1>4 DEF PlaceInv

LEMMA OpenAccepts ==
  ASSUME PairInv, OpenInv, MaxOpen \in Nat, MaxOpen <= EPOLL_SIZE, Accepts
  PROVE  Few' /\ Low'
<1>1. /\ backlog \in Seq(Conns) /\ backlog # <<>> /\ backlog' = Tail(backlog)
      /\ Len(backlog) \in Nat \ {0} /\ Len(backlog') = Len(backlog) - 1
      /\ \A j \in 1 .. Len(backlog') : backlog'[j] = backlog[j + 1]
      /\ backlog[1] \in Conns /\ 1 \in 1 .. Len(backlog)
      /\ \E fd \in In!Fds : sock[fd] = In!Closed
      /\ sock' = [fd \in In!Fds |-> IF fd = In!NewFd THEN backlog[1] ELSE sock[fd]]
  BY AcceptForm
<1>2. In!NewFd < FirstFd + EPOLL_SIZE
  <2>1. PICK i \in Slots : ~Live(i)
    BY <1>1, RoomForNext
  <2>2. In!Idle # -1
    <3>1. val[i].srvfd < 0
      BY <2>1 DEF Live, PairInv, Paired
    <3>. QED BY <2>1, <3>1, NoIdleSlot
  <2>3. In!Idle \in Slots /\ In!NewFd = FdOf(In!Idle)
    BY <1>1, <2>2, NewPair DEF PairInv
  <2>. QED BY <2>3, Numbers DEF FdOf
<1>3. Low'
  BY <1>1, <1>2 DEF OpenInv, Low, Open
<1>4. Opened' \subseteq Opened
  <2>1. Range(backlog) = {backlog[j] : j \in 1 .. Len(backlog)}
    BY <1>1 DEF Range
  <2>2. Tail(backlog) \in Seq(Conns)
    BY <1>1
  <2>3. Range(backlog') = {backlog'[j] : j \in 1 .. Len(backlog')}
    <3>1. backlog' \in Seq(Conns)
      BY <1>1, <2>2
    <3>2. DOMAIN backlog' = 1 .. Len(backlog')
      BY <3>1
    <3>. QED BY <3>2 DEF Range
  <2>4. Range(backlog') \subseteq Range(backlog)
    BY <1>1, <2>1, <2>3
  <2>5. Range(sock') \subseteq Range(sock) \cup {backlog[1]}
    BY <1>1 DEF Range, PairInv, Sockets
  <2>. QED BY <1>1, <2>1, <2>4, <2>5 DEF Opened, Accepted
<1>5. Few'
  BY <1>4, FewRemain DEF OpenInv, PlaceInv
<1>. QED BY <1>3, <1>5

LEMMA PlaceCloses ==
  ASSUME PairInv, PlaceInv, NEW fd \in In!Fds, NEW i \in Slots,
         Closes(fd, i), cli' = cli, backlog' = backlog
  PROVE  PlaceInv'
<1>1. sock' = [e \in In!Fds |-> IF e = fd THEN In!Closed ELSE sock[e]]
  BY DEF Closes, In!CloseSlot, PairInv, Sockets
<1>2. backlog \in Seq(Conns) /\ \A j \in 1 .. Len(backlog) : backlog[j] # In!Closed
  BY ClosedIsNoConn DEF PairInv, Waiting
<1>3. Typed' /\ Begun'
  BY <1>1 DEF PlaceInv, Typed, Begun, Open
<1>4. Distinct'
  BY <1>1, <1>2 DEF PlaceInv, Distinct, Open
<1>. QED BY <1>3, <1>4 DEF PlaceInv

LEMMA OpenCloses ==
  ASSUME PairInv, OpenInv, MaxOpen \in Nat, NEW fd \in In!Fds, NEW i \in Slots,
         Closes(fd, i), backlog' = backlog
  PROVE  Few' /\ Low'
<1>1. sock' = [e \in In!Fds |-> IF e = fd THEN In!Closed ELSE sock[e]]
  BY DEF Closes, In!CloseSlot, PairInv, Sockets
<1>2. Low'
  BY <1>1 DEF OpenInv, Low, Open
<1>3. Range(sock') \subseteq Range(sock) \cup {In!Closed}
  BY <1>1 DEF Range, PairInv, Sockets
<1>4. Opened' \subseteq Opened
  BY <1>3, ClosedIsNoConn DEF Opened, Accepted
<1>5. Few'
  BY <1>4, FewRemain DEF OpenInv, PlaceInv
<1>. QED BY <1>2, <1>5

LEMMA PlaceNone ==
  ASSUME sock = In!AllClosed, backlog = <<>>, cli = [c \in Conns |-> cli[c]]
  PROVE  PlaceInv
<1>1. sock = [fd \in In!Fds |-> In!Closed]
  BY DEF In!AllClosed
<1>. QED BY <1>1 DEF PlaceInv, Typed, Distinct, Begun, Open

LEMMA PlaceNoneNext ==
  ASSUME sock' = In!AllClosed, backlog' = <<>>, cli' = [c \in Conns |-> cli'[c]]
  PROVE  PlaceInv'
<1>1. sock' = [fd \in In!Fds |-> In!Closed]
  BY DEF In!AllClosed
<1>. QED BY <1>1 DEF PlaceInv, Typed, Distinct, Begun, Open

LEMMA OpenNone ==
  ASSUME MaxOpen \in Nat, sock = In!AllClosed, backlog = <<>>
  PROVE  Few /\ Low
<1>1. sock = [fd \in In!Fds |-> In!Closed]
  BY DEF In!AllClosed
<1>2. Opened = {}
  <2>1. Range(backlog) = {}
    BY DEF Range
  <2>2. Range(sock) \subseteq {In!Closed}
    BY <1>1 DEF Range
  <2>. QED BY <2>1, <2>2, ClosedIsNoConn DEF Opened, Accepted
<1>. QED BY <1>1, <1>2, FS_EmptySet DEF Few, Low, Open

LEMMA OpenNoneNext ==
  ASSUME MaxOpen \in Nat, sock' = In!AllClosed, backlog' = <<>>
  PROVE  Few' /\ Low'
<1>1. sock' = [fd \in In!Fds |-> In!Closed]
  BY DEF In!AllClosed
<1>2. Opened' = {}
  <2>1. Range(backlog') = {}
    BY DEF Range
  <2>2. Range(sock') \subseteq {In!Closed}
    BY <1>1 DEF Range
  <2>. QED BY <2>1, <2>2, ClosedIsNoConn DEF Opened, Accepted
<1>. QED BY <1>1, <1>2, FS_EmptySet DEF Few, Low, Open

(* Whatever the limit on open connections is. *)
LEMMA PlaceStep ==
  ASSUME PairInv, PlaceInv, [Next]_vars
  PROVE  PlaceInv'
<1>. Table /\ Waiting /\ Typed
  BY DEF PairInv, PlaceInv
<1>1. CASE In!Ends
  <2>1. sock' = In!AllClosed /\ backlog' = <<>> /\ cli' = [c \in Conns |-> cli'[c]]
    BY <1>1 DEF In!Ends
  <2>. QED BY <2>1, PlaceNoneNext
<1>. QED
  BY <1>1, PlaceRests, PlaceConnects, PlaceAccepts, PlaceCloses, PlaceForm

LEMMA PlaceInvariant == Spec => []PlaceInv
<1>1. Init => PlaceInv
  BY PlaceNone DEF Init, In!InInit, Cli!CliInit
<1>2. PairInv /\ PlaceInv /\ [Next]_vars => PlaceInv'
  BY PlaceStep
<1>. QED BY <1>1, <1>2, PairInvariant, PTL DEF Spec

LEMMA OpenStep ==
  ASSUME PairInv, OpenInv, MaxOpen \in Nat, MaxOpen <= EPOLL_SIZE, [Next]_vars
  PROVE  OpenInv'
<1>. Table /\ Waiting /\ Typed
  BY DEF PairInv, OpenInv, PlaceInv
<1>1. CASE In!Ends
  <2>1. sock' = In!AllClosed /\ backlog' = <<>>
    BY <1>1 DEF In!Ends
  <2>. QED BY <2>1, OpenNoneNext, PlaceStep DEF OpenInv
<1>2. Few' /\ Low'
  BY <1>1, OpenRests, OpenConnects, OpenAccepts, OpenCloses, PlaceForm, OpenNoneNext
     DEF OpenInv
<1>. QED BY <1>2, PlaceStep DEF OpenInv

-----------------------------------------------------------------------------
(* The slot of an event's socket *)

LEMMA FindsOpen ==
  ASSUME PairInv, OpenInv, NEW fd \in In!Fds, Open(fd)
  PROVE  In!Find(fd) # -1
<1>. DEFINE i == fd - FirstFd + 1
            S == {j \in In!Slots : val[j].srvfd = fd}
<1>1. PICK n \in Nat : In!Fds = FirstFd .. FirstFd + n - 1
  BY Numbers
<1>2. i \in Slots /\ fd = FdOf(i)
  BY <1>1, Numbers DEF OpenInv, Low, FdOf
<1>3. Live(i)
  BY <1>2 DEF PairInv, Paired
<1>4. i \in S
  BY <1>2, <1>3, LiveFd, Numbers
<1>5. In!Find(fd) = IF S = {} THEN -1 ELSE In!Min(S)
  BY DEF In!Find, In!FirstSlot
<1>6. S \subseteq Nat
  BY Numbers
<1>7. In!Min(S) \in Nat
  <2>. HIDE DEF S
  <2>. QED BY <1>4, <1>6, InMin
<1>. QED BY <1>4, <1>5, <1>7

LEMMA SlotsMatch ==
  ASSUME PairInv, OpenInv
  PROVE  SlotsMatchSockets
<1>1. \A i \in Slots : Live(i) => Open(val[i].srvfd)
  BY LiveFd
<1>2. ASSUME NEW i \in Slots, NEW j \in Slots, Live(i), val[i].srvfd = val[j].srvfd
      PROVE  i = j
  <2>1. Live(j)
    BY <1>2 DEF Live
  <2>. QED BY <1>2, <2>1, LiveFd, OtherFd
<1>3. \A fd \in In!Fds : Open(fd) => In!Find(fd) # -1
  BY FindsOpen
<1>. QED BY <1>1, <1>2, <1>3 DEF SlotsMatchSockets

(* While no more connections are open or wait than there are slots, each   *)
(* accepted socket has exactly one slot, and find() (CSocketSrvEpoll.cpp)  *)
(* returns it for every event: "cannot find socketfd=>socketlist.val[]" is *)
(* never logged.  For every number of slots, of connections over time and  *)
(* of kills.                                                               *)
THEOREM EverySocketHasItsSlot ==
  ASSUME MaxOpen \in Nat, MaxOpen <= EPOLL_SIZE
  PROVE  Spec => []SlotsMatchSockets
<1>1. Init => OpenInv
  BY OpenNone, PlaceNone DEF Init, In!InInit, Cli!CliInit, OpenInv
<1>2. PairInv /\ OpenInv /\ [Next]_vars => OpenInv'
  BY OpenStep
<1>3. PairInv /\ OpenInv => SlotsMatchSockets
  BY SlotsMatch
<1>. QED BY <1>1, <1>2, <1>3, PairInvariant, PTL DEF Spec
=============================================================================
