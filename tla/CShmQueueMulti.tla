--------------------------- MODULE CShmQueueMulti ---------------------------
(***************************************************************************)
(* queue/CShmQueueMulti: one shared-memory segment cut into EPOLL_SIZE     *)
(* channels of equal size, each a CQueue object followed by its ring.  The *)
(* segment is one array of bytes here, so that a message copied with a     *)
(* wrong base, length or capacity lands in another channel; the object of  *)
(* a channel is marked by the bytes it occupies and its cursors are r and w.*)
(* q and ret are the history variables of CQueue, one per channel.         *)
(***************************************************************************)
EXTENDS Integers, Sequences

CONSTANTS
  Msg, MsgLen, HDR,                     \* see CQueueBytes
  Clock, Intervals, Interval, MaxCount, \* see CStatistics
  EPOLL_SIZE,  \* channels
  SHM_SIZE,    \* bytes of the segment
  QSize        \* sizeof(CQueue)

(* init(): the size of a channel. *)
size == SHM_SIZE \div EPOLL_SIZE

(* init(): the NMAX that the CQueue of a channel is given. *)
Capacity == size - QSize

ASSUME MultiAssumption ==
  /\ EPOLL_SIZE \in Nat \ {0} /\ SHM_SIZE \in Nat
  /\ QSize \in Nat \ {0} /\ size > QSize
  /\ HDR \in Nat \ {0}
  /\ MsgLen \in [Msg -> Nat]
  /\ \A m \in Msg : MsgLen[m] >= HDR
  /\ Clock \subseteq Int /\ Clock # {} /\ Intervals \subseteq Int
  /\ Interval \in Int /\ MaxCount \in Nat

VARIABLES
  mem,      \* the bytes of the segment
  r, w,     \* r[i], w[i]: the cursors in the object of channel i
  q, ret,   \* history, see CQueue
  l_interval, l_count, st_start, flag, status, since, reported  \* the meter

queueVars == <<mem, r, w, q, ret>>
staVars == <<l_interval, l_count, st_start, flag, status, since, reported>>
vars == <<queueVars, staVars>>

sta == INSTANCE CStatistics

Channels == 1 .. EPOLL_SIZE
Addresses == 0 .. SHM_SIZE - 1
Object == <<"object">>  \* a byte of a CQueue object
Blank == <<>>

(* Channel index of the callers, counted from 1: index-- in the code.      *)
pq(index) == (index - 1) * size
pmsgbase(index) == pq(index) + QSize
Objects == UNION {pq(i) .. pmsgbase(i) - 1 : i \in Channels}

(* Channel i seen as a CQueue: NMAX bytes from pmsgbase and two cursors.   *)
View(i) == [x \in 0 .. Capacity - 1 |-> mem[pmsgbase(i) + x]]
Channel(i) == INSTANCE CQueue WITH NMAX <- Capacity, buf <- View(i),
                r <- r[i], w <- w[i], q <- q[i], ret <- ret[i]

(* crt() of a new segment, get(), init() and clear(). *)
Init ==
  /\ mem = [a \in Addresses |-> IF a \in Objects THEN Object ELSE Blank]
  /\ r = [i \in Channels |-> 0] /\ w = [i \in Channels |-> 0]
  /\ q = [i \in Channels |-> <<>>]
  /\ ret = [i \in Channels |-> [val |-> 0, bytes |-> <<>>]]
  /\ sta!Construction

(* memcpy of bytes from .. from+count-1 of m to the address base + at. *)
Memcpy(bytes, to, m, from, count) ==
  [a \in Addresses |-> IF to <= a /\ a < to + count
                       THEN <<m, a - to + from>> ELSE bytes[a]]

Returned(i, val, bytes) == ret' = [ret EXCEPT ![i] = [val |-> val, bytes |-> bytes]]

Acknowledge(i, m) ==
  /\ q' = [q EXCEPT ![i] = Append(@, [msg |-> m, off |-> Channel(i)!Size])]
  /\ Returned(i, MsgLen[m], <<>>)

(* pushmsg(): the ring of the channel is short of room. *)
PushRefused(i, m) ==
  /\ Capacity - Channel(i)!Size < MsgLen[m]
  /\ Returned(i, -1, <<>>)
  /\ UNCHANGED <<mem, r, w, q>>

(* Mutant: pmsgbase is left at the channel of the loop in init().          *)
PushWholeStaleBase(i, m) ==
  /\ Capacity - Channel(i)!Size >= MsgLen[m]
  /\ w[i] < r[i] \/ Capacity - w[i] >= MsgLen[m]
  /\ mem' = Memcpy(mem, pmsgbase(EPOLL_SIZE) + w[i], m, 0, MsgLen[m])
  /\ w' = [w EXCEPT ![i] = @ + MsgLen[m]]
  /\ UNCHANGED r
  /\ Acknowledge(i, m)

(* pushmsg(): the message does not wrap. *)
PushWhole(i, m) ==
  /\ Capacity - Channel(i)!Size >= MsgLen[m]
  /\ w[i] < r[i] \/ Capacity - w[i] >= MsgLen[m]
  /\ mem' = Memcpy(mem, pmsgbase(i) + w[i], m, 0, MsgLen[m])
  /\ w' = [w EXCEPT ![i] = @ + MsgLen[m]]
  /\ UNCHANGED r
  /\ Acknowledge(i, m)

(* Mutant: the second memcpy goes to the base of the channel. *)
PushSplitToObject(i, m) ==
  LET n == Capacity - w[i] IN
  /\ Capacity - Channel(i)!Size >= MsgLen[m]
  /\ w[i] >= r[i] /\ n < MsgLen[m]
  /\ mem' = Memcpy(Memcpy(mem, pmsgbase(i) + w[i], m, 0, n),
                   pq(i), m, n, MsgLen[m] - n)
  /\ w' = [w EXCEPT ![i] = MsgLen[m] - n]
  /\ UNCHANGED r
  /\ Acknowledge(i, m)

(* pushmsg(): the message wraps to the ring's start, pmsgbase. *)
PushSplit(i, m) ==
  LET n == Capacity - w[i] IN
  /\ Capacity - Channel(i)!Size >= MsgLen[m]
  /\ w[i] >= r[i] /\ n < MsgLen[m]
  /\ mem' = Memcpy(Memcpy(mem, pmsgbase(i) + w[i], m, 0, n),
                   pmsgbase(i), m, n, MsgLen[m] - n)
  /\ w' = [w EXCEPT ![i] = MsgLen[m] - n]
  /\ UNCHANGED r
  /\ Acknowledge(i, m)

(* pushmsg(): the meter of the object counts the call first, refused or not.*)
pushmsg(i, m) ==
  /\ sta!Check
  /\ PushRefused(i, m) \/ PushWhole(i, m) \/ PushSplit(i, m)

(* popmsg_complex() at a channel: top_just() finds nothing. *)
Skipped(i) ==
  /\ Channel(i)!Size < HDR
  /\ Returned(i, -1, <<>>)
  /\ UNCHANGED <<mem, r, w, q, staVars>>

(* popmsg_complex(): the client's last message is not sent yet (sendflag). *)
Withheld(i) ==
  /\ Channel(i)!Size >= HDR
  /\ \E len \in Channel(i)!HeadLens : Returned(i, len, <<>>)
  /\ UNCHANGED <<mem, r, w, q, staVars>>

(* popmsg_complex(): pop() copies the message out and moves the cursor. *)
Popped(i) ==
  /\ Channel(i)!Size >= HDR
  /\ \E len \in Channel(i)!HeadLens :
       /\ Returned(i, len, [k \in 0 .. len - 1 |-> Channel(i)!Fetch(k)])
       /\ r' = [r EXCEPT ![i] = Channel(i)!Moved(len)]
       /\ q' = [q EXCEPT ![i] = IF @ = <<>> THEN @ ELSE Channel(i)!Rest(@, len)]
  /\ UNCHANGED <<mem, w, staVars>>

popmsg_complex(i) == Skipped(i) \/ Withheld(i) \/ Popped(i)

Cleared(C) ==
  /\ r' = [i \in Channels |-> IF i \in C THEN 0 ELSE r[i]]
  /\ w' = [i \in Channels |-> IF i \in C THEN 0 ELSE w[i]]
  /\ q' = [i \in Channels |-> IF i \in C THEN <<>> ELSE q[i]]
  /\ ret' = [i \in Channels |-> IF i \in C THEN [val |-> 0, bytes |-> <<>>]
                                ELSE ret[i]]
  /\ UNCHANGED <<mem, staVars>>

(* clear(), which each process that attaches calls, and clear(index). *)
ClearAll == Cleared(Channels)
ClearOne(i) == Cleared({i})

(* The public calls of the meter, which is a public member. *)
Meter ==
  /\ (\E us \in Intervals : sta!SetInterval(us)) \/ sta!Enable \/ sta!Disable
  /\ UNCHANGED queueVars

Next ==
  \/ \E i \in Channels :
       (\E m \in Msg : pushmsg(i, m)) \/ popmsg_complex(i) \/ ClearOne(i)
  \/ ClearAll
  \/ Meter

Spec == Init /\ [][Next]_vars

-----------------------------------------------------------------------------
(* No message is copied over the CQueue object of its own or of another    *)
(* channel (CShmQueueMulti::init and pushmsg with CQueue::push).           *)
ObjectsIntact == \A a \in Objects : mem[a] = Object

(* A cursor never leaves the ring of its channel, ends included: what keeps*)
(* the memcpys of push and pop inside the ring (CQueue.h:14).              *)
CursorsInRange ==
  \A i \in Channels : r[i] \in 0 .. Capacity /\ w[i] \in 0 .. Capacity

(* Each channel is a CQueue of its own, whatever is done to the others     *)
(* (the index arithmetic of pushmsg, popmsg_complex and clear).            *)
ChannelsAreQueues ==
  /\ \A i \in Channels : Channel(i)!Init
  /\ [][\A i \in Channels : [Channel(i)!Next]_(Channel(i)!vars)]_vars

(* The number the meter prints is that of the pushmsg calls of an interval,*)
(* one more after the first report (CStatistics.cpp:28-36).                *)
CountsCalls == sta!CountsCalls
=============================================================================
