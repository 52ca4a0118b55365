----------------------- MODULE CShmQueueMulti_proofs -----------------------
(***************************************************************************)
(* Proofs about CShmQueueMulti for every number of channels, segment size, *)
(* object size and set of messages that meets MultiAssumption.             *)
(***************************************************************************)
EXTENDS CShmQueueMulti, TLAPS

-----------------------------------------------------------------------------
(* The meter *)

MeterInv == sta!StaTypeOK /\ CountsCalls

(* A step of the meter keeps its count right (CStatistics::check).         *)
LEMMA MeterStep ==
  ASSUME MeterInv, [sta!Next]_staVars
  PROVE  MeterInv'
<1>. USE MultiAssumption DEF MeterInv, CountsCalls, sta!CountsCalls, sta!StaTypeOK
<1>1. CASE sta!Ignored
  BY <1>1 DEF sta!Ignored, sta!vars
<1>2. CASE sta!Opens
  BY <1>2 DEF sta!Opens
<1>3. CASE sta!Counts
  BY <1>3 DEF sta!Counts
<1>4. CASE sta!Reports
  BY <1>4 DEF sta!Reports
<1>5. ASSUME NEW us \in Intervals, sta!SetInterval(us)
      PROVE  MeterInv'
  BY <1>5 DEF sta!SetInterval
<1>6. CASE sta!Enable
  BY <1>6 DEF sta!Enable
<1>7. CASE sta!Disable
  BY <1>7 DEF sta!Disable
<1>8. CASE UNCHANGED staVars
  BY <1>8 DEF staVars
<1>. QED BY <1>1, <1>2, <1>3, <1>4, <1>5, <1>6, <1>7, <1>8 DEF sta!Next, sta!Check

(* Every step of the queue is one of the meter or leaves the meter alone.  *)
LEMMA MeterOfQueue == [Next]_vars => [sta!Next]_staVars
<1>. USE DEF sta!Next
<1>1. ASSUME NEW i \in Channels, NEW m \in Msg, pushmsg(i, m)
      PROVE  sta!Next
  BY <1>1 DEF pushmsg
<1>2. ASSUME NEW i \in Channels, popmsg_complex(i)
      PROVE  UNCHANGED staVars
  BY <1>2 DEF popmsg_complex, Skipped, Withheld, Popped, staVars
<1>3. ASSUME NEW i \in Channels, ClearOne(i)
      PROVE  UNCHANGED staVars
  BY <1>3 DEF ClearOne, Cleared
<1>4. CASE ClearAll
  BY <1>4 DEF ClearAll, Cleared
<1>5. CASE Meter
  BY <1>5 DEF Meter
<1>6. CASE UNCHANGED vars
  BY <1>6 DEF vars
<1>. QED BY <1>1, <1>2, <1>3, <1>4, <1>5, <1>6 DEF Next

(* What the meter prints counts the pushmsg calls of an interval, one more *)
(* after the first report, for every clock (CStatistics.cpp:28-36).        *)
THEOREM MeterCounts == Spec => []CountsCalls
<1>1. Init => MeterInv
  BY MultiAssumption DEF Init, MeterInv, CountsCalls, sta!CountsCalls,
     sta!Construction, sta!StaTypeOK
<1>2. MeterInv /\ [Next]_vars => MeterInv'
  BY MeterStep, MeterOfQueue
<1>3. MeterInv => CountsCalls
  BY DEF MeterInv
<1>. QED BY <1>1, <1>2, <1>3, PTL DEF Spec

-----------------------------------------------------------------------------
(* The addresses of the channels *)

LEMMA SizeFacts ==
  /\ size \in Nat /\ Capacity \in Nat \ {0} /\ size = QSize + Capacity
  /\ EPOLL_SIZE * size <= SHM_SIZE
  /\ QSize \in Nat \ {0} /\ SHM_SIZE \in Nat /\ EPOLL_SIZE \in Nat \ {0}
<1>1. size \in Nat /\ EPOLL_SIZE * size <= SHM_SIZE
  BY MultiAssumption DEF size
<1>. QED BY <1>1, MultiAssumption DEF Capacity

(* A product is monotone in its first factor. *)
LEMMA Monotone ==
  ASSUME NEW a \in Int, NEW b \in Int, NEW c \in Nat, a <= b
  PROVE  a * c <= b * c
<1>1. (b - a) * c >= 0
  OBVIOUS
<1>2. (b - a) * c = b * c - a * c
  OBVIOUS
<1>. QED BY <1>1, <1>2

(* A channel lies in the segment, after all channels before it.            *)
LEMMA ChannelPlace ==
  ASSUME NEW i \in Channels
  PROVE  /\ pq(i) \in Nat /\ pq(i) + size <= SHM_SIZE
         /\ pmsgbase(i) = pq(i) + QSize
         /\ \A j \in Channels : i < j => pq(i) + size <= pq(j)
<1>. DEFINE s == size
<1>1. i \in Int /\ 1 <= i /\ i <= EPOLL_SIZE /\ s \in Nat
  BY SizeFacts DEF Channels
<1>2. (i - 1) * s + s = i * s
  <2>. HIDE DEF s
  <2>. QED BY <1>1
<1>3. pq(i) \in Nat
  <2>1. 0 * s <= (i - 1) * s
    BY <1>1, Monotone
  <2>2. 0 * s = 0 /\ (i - 1) * s \in Int
    BY <1>1
  <2>. QED BY <2>1, <2>2 DEF pq
<1>4. i * s <= EPOLL_SIZE * s
  BY <1>1, Monotone, SizeFacts
<1>5. pq(i) + s <= SHM_SIZE
  <2>1. i * s \in Int /\ EPOLL_SIZE * s \in Int /\ SHM_SIZE \in Int
    BY <1>1, SizeFacts
  <2>. QED BY <1>2, <1>4, <2>1, SizeFacts DEF pq
<1>6. ASSUME NEW j \in Channels, i < j
      PROVE  pq(i) + s <= pq(j)
  <2>1. j \in Int /\ i <= j - 1
    BY <1>1, <1>6 DEF Channels
  <2>2. i * s <= (j - 1) * s
    BY <1>1, <2>1, Monotone
  <2>. QED BY <1>2, <2>2 DEF pq
<1>. QED BY <1>3, <1>5, <1>6 DEF pmsgbase

(* The ring of a channel holds no byte of an object or of another ring.    *)
LEMMA RingsApart ==
  ASSUME NEW i \in Channels, NEW x \in 0 .. Capacity - 1
  PROVE  /\ pmsgbase(i) + x \in Addresses
         /\ pmsgbase(i) + x \notin Objects
         /\ \A j \in Channels, y \in 0 .. Capacity - 1 :
              pmsgbase(i) + x = pmsgbase(j) + y => i = j
<1>. DEFINE a == pmsgbase(i) + x
<1>1. /\ pq(i) \in Nat /\ pq(i) + size <= SHM_SIZE
      /\ pmsgbase(i) = pq(i) + QSize
      /\ size = QSize + Capacity /\ size \in Nat /\ Capacity \in Nat
      /\ QSize \in Nat \ {0} /\ SHM_SIZE \in Nat
  BY ChannelPlace, SizeFacts
<1>2. a \in Nat /\ pq(i) + QSize <= a /\ a < pq(i) + size
  BY <1>1
<1>3. ASSUME NEW j \in Channels, a \in pq(j) .. pq(j) + size - 1
      PROVE  i = j
  <2>1. /\ pq(j) \in Nat
        /\ i < j => pq(i) + size <= pq(j)
        /\ j < i => pq(j) + size <= pq(i)
    BY ChannelPlace
  <2>2. i \in Int /\ j \in Int
    BY DEF Channels
  <2>. QED BY <1>1, <1>2, <1>3, <2>1, <2>2
<1>4. a \in Addresses
  BY <1>1, <1>2 DEF Addresses
<1>5. ASSUME NEW j \in Channels, a \in pq(j) .. pmsgbase(j) - 1
      PROVE  FALSE
  <2>1. pq(j) \in Nat /\ pmsgbase(j) = pq(j) + QSize
    BY ChannelPlace
  <2>2. i = j
    BY <1>1, <1>2, <1>3, <1>5, <2>1
  <2>. QED BY <1>1, <1>2, <1>5, <2>1, <2>2
<1>6. ASSUME NEW j \in Channels, NEW y \in 0 .. Capacity - 1, a = pmsgbase(j) + y
      PROVE  i = j
  <2>1. pq(j) \in Nat /\ pmsgbase(j) = pq(j) + QSize
    BY ChannelPlace
  <2>. QED BY <1>1, <1>2, <1>3, <1>6, <2>1
<1>. QED BY <1>4, <1>5, <1>6 DEF Objects

(* The objects lie in the segment. *)
LEMMA ObjectsInside == Objects \subseteq Addresses
<1>1. ASSUME NEW i \in Channels, NEW a \in pq(i) .. pmsgbase(i) - 1
      PROVE  a \in Addresses
  <2>1. /\ pq(i) \in Nat /\ pq(i) + size <= SHM_SIZE /\ SHM_SIZE \in Nat
        /\ pmsgbase(i) = pq(i) + QSize /\ QSize \in Nat /\ size = QSize + Capacity
        /\ Capacity \in Nat
    BY ChannelPlace, SizeFacts
  <2>. QED BY <1>1, <2>1 DEF Addresses
<1>. QED BY <1>1 DEF Objects

(* new is old with count bytes of m, from byte from on, written to the ring*)
(* of channel i from position at on.                                       *)
Written(new, old, i, m, from, at, count) ==
  /\ new = [a \in Addresses |-> new[a]]
  /\ \A a \in Objects : new[a] = old[a]
  /\ \A j \in Channels, x \in 0 .. Capacity - 1 :
       new[pmsgbase(j) + x] = IF j = i /\ at <= x /\ x < at + count
                              THEN <<m, x - at + from>>
                              ELSE old[pmsgbase(j) + x]

(* A memcpy that stays in the capacity writes to that ring only.           *)
LEMMA MemcpyInRing ==
  ASSUME NEW i \in Channels, NEW m \in Msg, NEW bytes, NEW from \in Nat,
         NEW at \in Nat, NEW count \in Nat, at + count <= Capacity
  PROVE  Written(Memcpy(bytes, pmsgbase(i) + at, m, from, count),
                 bytes, i, m, from, at, count)
<1>. DEFINE mm == Memcpy(bytes, pmsgbase(i) + at, m, from, count)
<1>1. pmsgbase(i) \in Nat /\ Capacity \in Nat
  BY ChannelPlace, SizeFacts
<1>2. \A a \in Addresses : mm[a] = IF pmsgbase(i) + at <= a /\ a < pmsgbase(i) + at + count
                                   THEN <<m, a - (pmsgbase(i) + at) + from>>
                                   ELSE bytes[a]
  BY DEF Memcpy
<1>3. ASSUME NEW a \in Addresses, pmsgbase(i) + at <= a, a < pmsgbase(i) + at + count
      PROVE  a - pmsgbase(i) \in 0 .. Capacity - 1 /\ a = pmsgbase(i) + (a - pmsgbase(i))
  BY <1>1, <1>3 DEF Addresses
<1>4. ASSUME NEW a \in Objects
      PROVE  mm[a] = bytes[a]
  <2>1. a \in Addresses
    BY <1>4, ObjectsInside
  <2>2. SUFFICES ASSUME pmsgbase(i) + at <= a, a < pmsgbase(i) + at + count
                 PROVE  FALSE
    BY <1>2, <2>1
  <2>3. a - pmsgbase(i) \in 0 .. Capacity - 1 /\ a = pmsgbase(i) + (a - pmsgbase(i))
    BY <1>3, <2>1, <2>2
  <2>. QED BY <1>4, <2>3, RingsApart
<1>5. ASSUME NEW j \in Channels, NEW x \in 0 .. Capacity - 1
      PROVE  mm[pmsgbase(j) + x] = IF j = i /\ at <= x /\ x < at + count
                                   THEN <<m, x - at + from>>
                                   ELSE bytes[pmsgbase(j) + x]
  <2>1. pmsgbase(j) + x \in Addresses /\ pmsgbase(j) \in Nat
    BY RingsApart, ChannelPlace, SizeFacts
  <2>2. CASE j = i
    BY <1>1, <1>2, <2>1, <2>2
  <2>3. CASE j # i
    BY <1>2, <1>3, <2>1, <2>3, RingsApart
  <2>. QED BY <2>2, <2>3
<1>6. mm = [a \in Addresses |-> mm[a]]
  BY DEF Memcpy
<1>. HIDE DEF mm
<1>. QED BY <1>4, <1>5, <1>6 DEF mm, Written

-----------------------------------------------------------------------------
(* A step of one channel *)

Shape ==
  /\ mem = [a \in Addresses |-> mem[a]]
  /\ r \in [Channels -> Int] /\ w \in [Channels -> Int]
  /\ q = [i \in Channels |-> q[i]]
  /\ ret = [i \in Channels |-> ret[i]]

(* A step that is one of CQueue for channel i and none for the others.     *)
OnlyAt(i) ==
  /\ Channel(i)!Next
  /\ \A j \in Channels \ {i} : UNCHANGED Channel(j)!vars

ObjectsKept == \A a \in Objects : mem'[a] = mem[a]

(* A push that is refused. *)
LEMMA RefusedStep ==
  ASSUME Shape, NEW i \in Channels, NEW m \in Msg, PushRefused(i, m)
  PROVE  Shape' /\ OnlyAt(i) /\ ObjectsKept
<1>1. ret' = [ret EXCEPT ![i] = [val |-> -1, bytes |-> <<>>]]
      /\ mem' = mem /\ r' = r /\ w' = w /\ q' = q
  BY DEF PushRefused, Returned
<1>2. ret'[i] = [val |-> -1, bytes |-> <<>>]
      /\ \A j \in Channels \ {i} : ret'[j] = ret[j]
      /\ ret' = [n \in Channels |-> ret'[n]]
  BY <1>1 DEF Shape
<1>3. Channel(i)!Push(m)
  BY <1>1, <1>2 DEF PushRefused, Channel!Push, Channel!PushRefused,
     Channel!Returned, Channel!Nothing, View
<1>4. OnlyAt(i)
  BY <1>1, <1>2, <1>3 DEF OnlyAt, Channel!Next, Channel!vars, View
<1>. QED BY <1>1, <1>2, <1>4 DEF Shape, ObjectsKept

(* The history of a push that is accepted. *)
LEMMA Acknowledged ==
  ASSUME Shape, NEW i \in Channels, NEW m \in Msg, Acknowledge(i, m)
  PROVE  /\ q'[i] = Append(q[i], [msg |-> m, off |-> Channel(i)!Size])
         /\ ret'[i] = [val |-> MsgLen[m], bytes |-> <<>>]
         /\ \A j \in Channels \ {i} : q'[j] = q[j] /\ ret'[j] = ret[j]
         /\ q' = [j \in Channels |-> q'[j]] /\ ret' = [n \in Channels |-> ret'[n]]
BY DEF Acknowledge, Returned, Shape

(* A write cursor that is moved. *)
LEMMA WriteCursor ==
  ASSUME Shape, NEW i \in Channels, NEW c \in Int,
         w' = [w EXCEPT ![i] = c]
  PROVE  /\ w' \in [Channels -> Int] /\ w'[i] = c
         /\ \A j \in Channels \ {i} : w'[j] = w[j]
BY DEF Shape

(* A push of a message that does not wrap. *)
LEMMA WholeStep ==
  ASSUME Shape, CursorsInRange, NEW i \in Channels, NEW m \in Msg, PushWhole(i, m)
  PROVE  Shape' /\ OnlyAt(i) /\ ObjectsKept
<1>. DEFINE p == w[i]
            len == MsgLen[m]
<1>1. /\ p \in Nat /\ len \in Nat /\ p + len <= Capacity /\ Capacity \in Nat
      /\ r[i] \in Nat
  <2>1. p \in 0 .. Capacity /\ r[i] \in 0 .. Capacity /\ Capacity \in Nat
        /\ len \in Nat
    BY SizeFacts, MultiAssumption DEF CursorsInRange
  <2>2. Channel(i)!Size = IF p >= r[i] THEN p - r[i]
                          ELSE Capacity - (r[i] - p)
    BY DEF Channel!Size, Channel!SizeOf
  <2>3. Capacity - Channel(i)!Size >= len /\ (p < r[i] \/ Capacity - p >= len)
    BY DEF PushWhole
  <2>. QED BY <2>1, <2>2, <2>3
<1>2. mem' = Memcpy(mem, pmsgbase(i) + p, m, 0, len)
      /\ w' = [w EXCEPT ![i] = p + len] /\ r' = r /\ Acknowledge(i, m)
  BY DEF PushWhole
<1>3. /\ mem' = [a \in Addresses |-> mem'[a]]
      /\ \A a \in Objects : mem'[a] = mem[a]
      /\ \A j \in Channels, x \in 0 .. Capacity - 1 :
           mem'[pmsgbase(j) + x] = IF j = i /\ p <= x /\ x < p + len
                                   THEN <<m, x - p + 0>>
                                   ELSE mem[pmsgbase(j) + x]
  <2>. HIDE DEF p, len
  <2>1. Written(Memcpy(mem, pmsgbase(i) + p, m, 0, len), mem, i, m, 0, p, len)
    BY <1>1, MemcpyInRing
  <2>. QED BY <1>2, <2>1 DEF Written
<1>4. /\ w' \in [Channels -> Int]
      /\ w'[i] = p + len /\ \A j \in Channels \ {i} : w'[j] = w[j]
  <2>. HIDE DEF p, len
  <2>1. p + len \in Int
    BY <1>1
  <2>. QED BY <1>2, <2>1, WriteCursor
<1>5. View(i)' = [x \in 0 .. Capacity - 1 |-> IF p <= x /\ x < p + len
                                             THEN <<m, x - p + 0>> ELSE View(i)[x]]
  BY <1>3 DEF View
<1>6. \A j \in Channels \ {i} : View(j)' = View(j)
  BY <1>3 DEF View
<1>7. Channel(i)!Push(m)
  BY <1>2, <1>4, <1>5, Acknowledged DEF PushWhole, Channel!Push, Channel!PushWhole,
     Channel!Returned, Channel!Nothing, Channel!Copied, Channel!Positions,
     Channel!Cell, Channel!Acknowledge
<1>8. OnlyAt(i)
  BY <1>2, <1>4, <1>6, <1>7, Acknowledged DEF OnlyAt, Channel!Next, Channel!vars
<1>. QED BY <1>2, <1>3, <1>4, <1>8, Acknowledged DEF Shape, ObjectsKept

(* A push of a message that wraps: the second memcpy starts at pmsgbase.   *)
LEMMA SplitStep ==
  ASSUME Shape, CursorsInRange, NEW i \in Channels, NEW m \in Msg, PushSplit(i, m)
  PROVE  Shape' /\ OnlyAt(i) /\ ObjectsKept
<1>. DEFINE p == w[i]
            n == Capacity - p
            rest == MsgLen[m] - n
            half == Memcpy(mem, pmsgbase(i) + p, m, 0, n)
<1>1. /\ p \in Nat /\ n \in Nat /\ rest \in Nat /\ rest <= Capacity
      /\ p + n = Capacity /\ Capacity \in Nat
  <2>1. p \in 0 .. Capacity /\ r[i] \in 0 .. Capacity /\ Capacity \in Nat
        /\ MsgLen[m] \in Nat
    BY SizeFacts, MultiAssumption DEF CursorsInRange
  <2>2. Channel(i)!Size = IF p >= r[i] THEN p - r[i]
                          ELSE Capacity - (r[i] - p)
    BY DEF Channel!Size, Channel!SizeOf
  <2>3. Capacity - Channel(i)!Size >= MsgLen[m] /\ p >= r[i] /\ n < MsgLen[m]
    BY DEF PushSplit
  <2>. QED BY <2>1, <2>2, <2>3
<1>2. mem' = Memcpy(half, pmsgbase(i), m, n, rest)
      /\ w' = [w EXCEPT ![i] = rest] /\ r' = r /\ Acknowledge(i, m)
  BY DEF PushSplit
<1>3. Written(half, mem, i, m, 0, p, n)
  <2>. HIDE DEF p, n
  <2>. QED BY <1>1, MemcpyInRing
<1>4. Written(mem', half, i, m, n, 0, rest)
  <2>1. pmsgbase(i) + 0 = pmsgbase(i)
    BY ChannelPlace, SizeFacts
  <2>. HIDE DEF p, n, rest, half
  <2>2. 0 + rest <= Capacity
    BY <1>1
  <2>3. Written(Memcpy(half, pmsgbase(i) + 0, m, n, rest), half, i, m, n, 0, rest)
    BY <1>1, <2>2, MemcpyInRing
  <2>. QED BY <1>2, <2>1, <2>3
<1>5. /\ w' \in [Channels -> Int]
      /\ w'[i] = rest /\ \A j \in Channels \ {i} : w'[j] = w[j]
  <2>. HIDE DEF p, n, rest, half
  <2>1. rest \in Int
    BY <1>1
  <2>2. w' = [w EXCEPT ![i] = rest]
    BY <1>2
  <2>. QED BY <2>1, <2>2, WriteCursor
<1>6. View(i)' = [x \in 0 .. Capacity - 1 |->
                   IF 0 <= x /\ x < 0 + rest THEN <<m, x - 0 + n>>
                   ELSE [y \in 0 .. Capacity - 1 |->
                          IF p <= y /\ y < p + n THEN <<m, y - p + 0>>
                          ELSE View(i)[y]][x]]
  <2>. HIDE DEF p, n, rest, half
  <2>. QED BY <1>3, <1>4 DEF View, Written
<1>7. \A j \in Channels \ {i} : View(j)' = View(j)
  <2>. HIDE DEF p, n, rest, half
  <2>. QED BY <1>3, <1>4 DEF View, Written
<1>8. Channel(i)!Push(m)
  BY <1>2, <1>5, <1>6, Acknowledged DEF PushSplit, Channel!Push, Channel!PushSplit,
     Channel!Returned, Channel!Nothing, Channel!Copied, Channel!CopiedSplit,
     Channel!Positions, Channel!Cell, Channel!Acknowledge
<1>9. OnlyAt(i)
  BY <1>2, <1>5, <1>7, <1>8, Acknowledged DEF OnlyAt, Channel!Next, Channel!vars
<1>10. ObjectsKept /\ mem' = [a \in Addresses |-> mem'[a]]
  <2>. HIDE DEF half, p, n, rest
  <2>. QED BY <1>3, <1>4 DEF Written, ObjectsKept
<1>. QED BY <1>2, <1>5, <1>9, <1>10, Acknowledged DEF Shape

(* A visit of popmsg_complex() that leaves the channel as it is. *)
LEMMA StayStep ==
  ASSUME Shape, NEW i \in Channels, Skipped(i) \/ Withheld(i)
  PROVE  Shape' /\ OnlyAt(i) /\ ObjectsKept
<1>1. mem' = mem /\ r' = r /\ w' = w /\ q' = q
  BY DEF Skipped, Withheld
<1>2. ASSUME Skipped(i)
      PROVE  /\ Channel(i)!ReadNothing
             /\ \A j \in Channels \ {i} : ret'[j] = ret[j]
             /\ ret' = [n \in Channels |-> ret'[n]]
  BY <1>1, <1>2 DEF Skipped, Returned, Shape, Channel!ReadNothing, Channel!Returned,
     Channel!Nothing, View
<1>3. ASSUME Withheld(i)
      PROVE  /\ Channel(i)!ReadHead(FALSE, FALSE)
             /\ \A j \in Channels \ {i} : ret'[j] = ret[j]
             /\ ret' = [n \in Channels |-> ret'[n]]
  <2>1. PICK len \in Channel(i)!HeadLens : Returned(i, len, <<>>)
    BY <1>3 DEF Withheld
  <2>. QED BY <1>1, <1>3, <2>1 DEF Withheld, Returned, Shape, Channel!ReadHead,
              Channel!Returned, Channel!Nothing, View
<1>4. OnlyAt(i) /\ ret' = [n \in Channels |-> ret'[n]]
  BY <1>1, <1>2, <1>3 DEF OnlyAt, Channel!Next, Channel!Pop, Channel!TopJust,
     Channel!vars, View
<1>. QED BY <1>1, <1>4 DEF Shape, ObjectsKept
(* A visit of popmsg_complex() that takes the message of a channel. *)
LEMMA PoppedStep ==
  ASSUME Shape, NEW i \in Channels, Popped(i)
  PROVE  Shape' /\ OnlyAt(i) /\ ObjectsKept
<1>1. PICK len \in Channel(i)!HeadLens :
        /\ Returned(i, len, [k \in 0 .. len - 1 |-> Channel(i)!Fetch(k)])
        /\ r' = [r EXCEPT ![i] = Channel(i)!Moved(len)]
        /\ q' = [q EXCEPT ![i] = IF @ = <<>> THEN @ ELSE Channel(i)!Rest(@, len)]
  BY DEF Popped
<1>2. mem' = mem /\ w' = w /\ Channel(i)!Size >= HDR
  BY DEF Popped
<1>. DEFINE val == [val |-> len, bytes |-> [k \in 0 .. len - 1 |-> Channel(i)!Fetch(k)]]
            at == Channel(i)!Moved(len)
            rest == IF q[i] = <<>> THEN q[i] ELSE Channel(i)!Rest(q[i], len)
<1>3. ret' = [ret EXCEPT ![i] = val] /\ r' = [r EXCEPT ![i] = at]
      /\ q' = [q EXCEPT ![i] = rest]
  BY <1>1 DEF Returned
<1>4. at \in Int
  <2>1. len \in Int
    BY MultiAssumption DEF Channel!HeadLens
  <2>2. r[i] \in Int /\ w[i] \in Int /\ Capacity \in Int
    BY SizeFacts DEF Shape
  <2>. QED BY <2>1, <2>2 DEF Channel!Moved
<1>5. /\ ret'[i] = val /\ r'[i] = at /\ q'[i] = rest
      /\ ret' = [n \in Channels |-> ret'[n]] /\ q' = [j \in Channels |-> q'[j]]
      /\ r' \in [Channels -> Int]
      /\ \A j \in Channels \ {i} : ret'[j] = ret[j] /\ r'[j] = r[j] /\ q'[j] = q[j]
  <2>. HIDE DEF val, at, rest
  <2>. QED BY <1>3, <1>4 DEF Shape
<1>6. \A j \in Channels : View(j)' = View(j)
  BY <1>2 DEF View
<1>7. Channel(i)!ReadHead(TRUE, TRUE)
  BY <1>2, <1>5, <1>6 DEF Channel!ReadHead, Channel!Returned
<1>8. OnlyAt(i)
  <2>. HIDE DEF val, at, rest
  <2>. QED BY <1>2, <1>5, <1>6, <1>7 DEF OnlyAt, Channel!Next, Channel!Pop, Channel!vars
<1>. QED BY <1>2, <1>5, <1>8 DEF Shape, ObjectsKept

(* A clear of some channels is a clear of each of them. *)
LEMMA ClearedStep ==
  ASSUME Shape, NEW C \in SUBSET Channels, Cleared(C)
  PROVE  /\ Shape' /\ ObjectsKept
         /\ \A i \in Channels : [Channel(i)!Next]_(Channel(i)!vars)
<1>1. /\ r' = [i \in Channels |-> IF i \in C THEN 0 ELSE r[i]]
      /\ w' = [i \in Channels |-> IF i \in C THEN 0 ELSE w[i]]
      /\ q' = [i \in Channels |-> IF i \in C THEN <<>> ELSE q[i]]
      /\ ret' = [i \in Channels |-> IF i \in C THEN [val |-> 0, bytes |-> <<>>]
                                    ELSE ret[i]]
      /\ mem' = mem
  BY DEF Cleared
<1>2. \A i \in Channels : View(i)' = View(i)
  BY <1>1 DEF View
<1>3. ASSUME NEW i \in C
      PROVE  Channel(i)!Clear
  BY <1>1, <1>2, <1>3 DEF Channel!Clear, Channel!Returned, Channel!Nothing
<1>4. ASSUME NEW i \in Channels \ C
      PROVE  UNCHANGED Channel(i)!vars
  BY <1>1, <1>2, <1>4 DEF Channel!vars
<1>5. Shape'
  BY <1>1 DEF Shape
<1>. QED BY <1>1, <1>3, <1>4, <1>5 DEF Channel!Next, ObjectsKept

(* Every step is at most one of CQueue for each channel. *)
LEMMA EachChannelSteps ==
  ASSUME Shape, CursorsInRange, [Next]_vars
  PROVE  /\ Shape' /\ ObjectsKept
         /\ \A i \in Channels : [Channel(i)!Next]_(Channel(i)!vars)
<1>1. ASSUME NEW i \in Channels, NEW m \in Msg, pushmsg(i, m)
      PROVE  Shape' /\ OnlyAt(i) /\ ObjectsKept
  BY <1>1, RefusedStep, WholeStep, SplitStep DEF pushmsg
<1>2. ASSUME NEW i \in Channels, popmsg_complex(i)
      PROVE  Shape' /\ OnlyAt(i) /\ ObjectsKept
  BY <1>2, StayStep, PoppedStep DEF popmsg_complex
<1>3. ASSUME NEW i \in Channels, OnlyAt(i), NEW j \in Channels
      PROVE  [Channel(j)!Next]_(Channel(j)!vars)
  BY <1>3 DEF OnlyAt
<1>4. CASE ClearAll \/ \E i \in Channels : ClearOne(i)
  BY <1>4, ClearedStep DEF ClearAll, ClearOne
<1>5. CASE Meter \/ UNCHANGED vars
  <2>1. UNCHANGED queueVars
    BY <1>5 DEF Meter, vars
  <2>. QED BY <2>1 DEF queueVars, Shape, ObjectsKept, Channel!vars, View
<1>. QED BY <1>1, <1>2, <1>3, <1>4, <1>5 DEF Next
(* Initially every channel is an empty CQueue. *)
LEMMA InitOfChannels ==
  ASSUME Init
  PROVE  /\ Shape /\ ObjectsIntact
         /\ \A i \in Channels : Channel(i)!Init
<1>1. mem = [a \in Addresses |-> IF a \in Objects THEN Object ELSE Blank]
      /\ r = [i \in Channels |-> 0] /\ w = [i \in Channels |-> 0]
      /\ q = [i \in Channels |-> <<>>]
      /\ ret = [i \in Channels |-> [val |-> 0, bytes |-> <<>>]]
  BY DEF Init
<1>2. Shape
  BY <1>1 DEF Shape
<1>3. ObjectsIntact
  BY <1>1, ObjectsInside DEF ObjectsIntact
<1>4. ASSUME NEW i \in Channels
      PROVE  View(i) = [x \in 0 .. Capacity - 1 |-> Blank]
  BY <1>1, RingsApart DEF View
<1>. QED BY <1>1, <1>2, <1>3, <1>4 DEF Channel!Init, Channel!Positions,
            Channel!Blank, Channel!Nothing, Blank

-----------------------------------------------------------------------------
(* The cursors of a ring *)

(* size() and the j-th pending byte, on the ring of a channel. *)
Fill(rr, ww) == IF ww >= rr THEN ww - rr ELSE Capacity - (rr - ww)
Place(rr, j) == IF rr + j < Capacity THEN rr + j ELSE rr + j - Capacity

(* H cuts the pending bytes of a ring into whole messages. *)
CutsAt(H, bytes, rr, ww) ==
  /\ 0 \in H /\ Fill(rr, ww) \in H
  /\ \A h \in H :
       /\ h \in 0 .. Fill(rr, ww)
       /\ h # Fill(rr, ww) =>
            \E m \in Msg : /\ h + MsgLen[m] \in H
                           /\ \A k \in 0 .. MsgLen[m] - 1 :
                                bytes[Place(rr, h + k)] = <<m, k>>

(* What holds of a ring even when pushes fill it to the last byte and the  *)
(* cursors meet: what the cursors enclose is whole messages, though it may *)
(* be less than was acknowledged.                                          *)
Framed(bytes, rr, ww) ==
  /\ rr \in 0 .. Capacity /\ ww \in 0 .. Capacity
  /\ \E H \in SUBSET Nat : CutsAt(H, bytes, rr, ww)

LEMMA LenOf ==
  ASSUME NEW m \in Msg
  PROVE  MsgLen[m] \in Nat /\ MsgLen[m] >= HDR /\ MsgLen[m] > 0
         /\ HDR \in Nat /\ HDR > 0 /\ Capacity \in Nat /\ Capacity > 0
BY MultiAssumption, SizeFacts

(* Two cursors that meet enclose nothing. *)
LEMMA MetFramed ==
  ASSUME NEW bytes, NEW a \in 0 .. Capacity
  PROVE  Framed(bytes, a, a)
<1>1. a \in Int /\ Fill(a, a) = 0
  BY SizeFacts DEF Fill
<1>2. CutsAt({0}, bytes, a, a)
  BY <1>1 DEF CutsAt
<1>. QED BY <1>2 DEF Framed

(* A push adds one cut, after the bytes it writes. *)
LEMMA GrownFramed ==
  ASSUME NEW bytes, NEW new, NEW a \in 0 .. Capacity, NEW b \in 0 .. Capacity,
         NEW c \in 0 .. Capacity, NEW m \in Msg, Framed(bytes, a, b),
         Fill(a, c) = Fill(a, b) + MsgLen[m],
         \A k \in 0 .. MsgLen[m] - 1 : new[Place(a, Fill(a, b) + k)] = <<m, k>>,
         \A j \in 0 .. Fill(a, b) - 1 : new[Place(a, j)] = bytes[Place(a, j)]
  PROVE  Framed(new, a, c)
<1>1. PICK H \in SUBSET Nat : CutsAt(H, bytes, a, b)
  BY DEF Framed
<1>. DEFINE s == Fill(a, b)
            n == MsgLen[m]
            G == H \cup {s + n}
<1>2. s \in Nat /\ n \in Nat /\ n > 0
  BY SizeFacts, LenOf DEF Fill
<1>3. /\ 0 \in H /\ s \in H
      /\ \A h \in H :
           /\ h \in 0 .. s
           /\ h # s =>
                \E x \in Msg : /\ h + MsgLen[x] \in H
                               /\ \A k \in 0 .. MsgLen[x] - 1 :
                                    bytes[Place(a, h + k)] = <<x, k>>
  BY <1>1 DEF CutsAt
<1>4. ASSUME NEW h \in G, h # s + n
      PROVE  \E x \in Msg : /\ h + MsgLen[x] \in G
                            /\ \A k \in 0 .. MsgLen[x] - 1 :
                                 new[Place(a, h + k)] = <<x, k>>
  <2>1. h \in H
    BY <1>4
  <2>2. CASE h = s
    BY <2>2
  <2>3. CASE h # s
    <3>1. PICK x \in Msg : /\ h + MsgLen[x] \in H
                           /\ \A k \in 0 .. MsgLen[x] - 1 :
                                bytes[Place(a, h + k)] = <<x, k>>
      BY <1>3, <2>1, <2>3
    <3>2. h \in Nat /\ MsgLen[x] \in Nat /\ h + MsgLen[x] <= s
      BY <1>2, <1>3, <2>1, <3>1, LenOf
    <3>3. ASSUME NEW k \in 0 .. MsgLen[x] - 1
          PROVE  new[Place(a, h + k)] = <<x, k>>
      <4>. DEFINE l == MsgLen[x]
      <4>1. h + k \in 0 .. s - 1
        <5>1. l \in Nat /\ k \in 0 .. l - 1 /\ h \in Nat /\ s \in Nat /\ h + l <= s
          BY <1>2, <3>2
        <5>. HIDE DEF l, s
        <5>. QED BY <5>1
      <4>2. new[Place(a, h + k)] = bytes[Place(a, h + k)]
        BY <4>1
      <4>. QED BY <3>1, <4>2
    <3>. QED BY <3>1, <3>3
  <2>. QED BY <2>2, <2>3
<1>5. \A h \in G : h \in 0 .. s + n
  BY <1>2, <1>3
<1>6. 0 \in G /\ s + n \in G
  BY <1>3
<1>7. CutsAt(G, new, a, c)
  <2>1. Fill(a, c) = s + n
    OBVIOUS
  <2>. HIDE DEF G, s, n
  <2>. QED BY <1>4, <1>5, <1>6, <2>1 DEF CutsAt
<1>8. G \in SUBSET Nat
  <2>1. s + n \in Nat
    BY <1>2
  <2>. HIDE DEF s, n
  <2>. QED BY <2>1
<1>. QED BY <1>7, <1>8 DEF Framed

(* A push in one piece keeps the ring framed. *)
LEMMA WholeFramed ==
  ASSUME NEW bytes, NEW new, NEW a, NEW b, NEW m \in Msg, Framed(bytes, a, b),
         Capacity - Fill(a, b) >= MsgLen[m],
         b < a \/ Capacity - b >= MsgLen[m],
         \A x \in 0 .. Capacity - 1 :
           new[x] = IF b <= x /\ x < b + MsgLen[m] THEN <<m, x - b>> ELSE bytes[x]
  PROVE  Framed(new, a, b + MsgLen[m])
<1>. DEFINE n == MsgLen[m]
            s == Fill(a, b)
<1>1. n \in Nat /\ n > 0 /\ Capacity \in Nat /\ a \in 0 .. Capacity /\ b \in 0 .. Capacity
  BY LenOf DEF Framed
<1>2. b + n \in 0 .. Capacity
  BY <1>1 DEF Fill
<1>3. CASE a = b + n
  BY <1>2, <1>3, MetFramed
<1>4. CASE a # b + n
  <2>1. Fill(a, b + n) = s + n
    BY <1>1, <1>2, <1>4 DEF Fill
  <2>2. \A k \in 0 .. n - 1 :
          /\ Place(a, s + k) = b + k
          /\ b + k \in 0 .. Capacity - 1 /\ b <= b + k /\ b + k < b + n
          /\ (b + k) - b = k
    BY <1>1, <1>2, <1>4 DEF Fill, Place
  <2>3. \A j \in 0 .. s - 1 :
          /\ Place(a, j) \in 0 .. Capacity - 1
          /\ ~(b <= Place(a, j) /\ Place(a, j) < b + n)
    <3>1. CASE b < a
      BY <1>1, <1>2, <1>4, <3>1 DEF Fill, Place
    <3>2. CASE a <= b
      BY <1>1, <1>2, <1>4, <3>2 DEF Fill, Place
    <3>. QED BY <1>1, <3>1, <3>2
  <2>4. \A k \in 0 .. n - 1 : new[Place(a, s + k)] = <<m, k>>
    BY <2>2
  <2>5. \A j \in 0 .. s - 1 : new[Place(a, j)] = bytes[Place(a, j)]
    BY <2>3
  <2>6. b + n \in 0 .. Capacity /\ a \in 0 .. Capacity /\ b \in 0 .. Capacity
    BY <1>1, <1>2
  <2>. QED BY <2>1, <2>4, <2>5, <2>6, GrownFramed
<1>. QED BY <1>3, <1>4

(* A push in two pieces keeps the ring framed. *)
LEMMA SplitFramed ==
  ASSUME NEW bytes, NEW new, NEW a, NEW b, NEW m \in Msg, Framed(bytes, a, b),
         Capacity - Fill(a, b) >= MsgLen[m],
         b >= a, Capacity - b < MsgLen[m],
         \A x \in 0 .. Capacity - 1 :
           new[x] = IF x < MsgLen[m] - (Capacity - b) THEN <<m, x + (Capacity - b)>>
                    ELSE IF b <= x THEN <<m, x - b>> ELSE bytes[x]
  PROVE  Framed(new, a, MsgLen[m] - (Capacity - b))
<1>. DEFINE n == MsgLen[m]
            s == Fill(a, b)
            d == Capacity - b
            c == n - d
<1>1. /\ n \in Nat /\ n > 0 /\ Capacity \in Nat
      /\ a \in 0 .. Capacity /\ b \in 0 .. Capacity
  BY LenOf DEF Framed
<1>2. d \in Nat /\ d < n /\ c \in 0 .. Capacity /\ c <= a /\ s = b - a
  BY <1>1 DEF Fill
<1>3. CASE a = c
  BY <1>2, <1>3, MetFramed
<1>4. CASE a # c
  <2>1. Fill(a, c) = s + n
    BY <1>1, <1>2, <1>4 DEF Fill
  <2>2. \A k \in 0 .. n - 1 :
          /\ k < d => Place(a, s + k) = b + k
          /\ k >= d => Place(a, s + k) = k - d
    BY <1>1, <1>2 DEF Place
  <2>3. \A x \in 0 .. Capacity - 1 :
          new[x] = IF x < c THEN <<m, x + d>>
                   ELSE IF b <= x THEN <<m, x - b>> ELSE bytes[x]
    OBVIOUS
  <2>4. \A j \in 0 .. s - 1 :
          Place(a, j) \in 0 .. Capacity - 1 /\ c <= Place(a, j) /\ Place(a, j) < b
    BY <1>1, <1>2 DEF Place
  <2>5. ASSUME NEW k \in 0 .. n - 1
        PROVE  new[Place(a, s + k)] = <<m, k>>
    <3>1. CASE k < d
      <4>1. /\ b + k \in 0 .. Capacity - 1 /\ ~(b + k < c) /\ b <= b + k
            /\ (b + k) - b = k
        BY <1>1, <1>2, <3>1
      <4>. QED BY <2>2, <2>3, <3>1, <4>1
    <3>2. CASE k >= d
      <4>1. k - d \in 0 .. Capacity - 1 /\ k - d < c /\ (k - d) + d = k
        BY <1>1, <1>2, <3>2
      <4>. QED BY <2>2, <2>3, <3>2, <4>1
    <3>. QED BY <1>1, <1>2, <3>1, <3>2
  <2>6. ASSUME NEW j \in 0 .. s - 1
        PROVE  new[Place(a, j)] = bytes[Place(a, j)]
    <3>1. /\ Place(a, j) \in 0 .. Capacity - 1 /\ ~(Place(a, j) < c)
          /\ ~(b <= Place(a, j))
      BY <1>1, <1>2, <2>4
    <3>. QED BY <2>3, <3>1
  <2>7. c \in 0 .. Capacity /\ a \in 0 .. Capacity /\ b \in 0 .. Capacity
    BY <1>1, <1>2
  <2>8. \A e \in 0 .. Capacity : Fill(a, e) = Fill(a, b) + MsgLen[m]
                                  => Framed(new, a, e)
    BY <2>5, <2>6, <2>7, GrownFramed
  <2>. QED BY <2>1, <2>7, <2>8
<1>. QED BY <1>3, <1>4

(* The message a framed ring starts with. *)
LEMMA HeadFramed ==
  ASSUME NEW bytes, NEW a, NEW b, Framed(bytes, a, b), Fill(a, b) > 0
  PROVE  \E m \in Msg :
           /\ MsgLen[m] \in 1 .. Fill(a, b)
           /\ \A k \in 0 .. MsgLen[m] - 1 : bytes[Place(a, k)] = <<m, k>>
           /\ \A c \in 0 .. Capacity :
                /\ Fill(c, b) = Fill(a, b) - MsgLen[m]
                /\ \A j \in 0 .. Fill(c, b) - 1 : Place(c, j) = Place(a, j + MsgLen[m])
                => Framed(bytes, c, b)
<1>1. PICK H \in SUBSET Nat : CutsAt(H, bytes, a, b)
  BY DEF Framed
<1>. DEFINE s == Fill(a, b)
<1>2. /\ 0 \in H /\ s \in H
      /\ \A h \in H :
           /\ h \in 0 .. s
           /\ h # s =>
                \E x \in Msg : /\ h + MsgLen[x] \in H
                               /\ \A k \in 0 .. MsgLen[x] - 1 :
                                    bytes[Place(a, h + k)] = <<x, k>>
  BY <1>1 DEF CutsAt
<1>3. a \in 0 .. Capacity /\ b \in 0 .. Capacity /\ s \in Nat /\ s > 0
  BY SizeFacts DEF Framed, Fill
<1>4. PICK m \in Msg : /\ 0 + MsgLen[m] \in H
                       /\ \A k \in 0 .. MsgLen[m] - 1 :
                            bytes[Place(a, 0 + k)] = <<m, k>>
  BY <1>2, <1>3
<1>. DEFINE n == MsgLen[m]
<1>5. n \in Nat /\ n > 0 /\ n \in H /\ n \in 1 .. s
  <2>1. n \in Nat /\ n > 0 /\ 0 + n = n
    BY LenOf
  <2>. QED BY <1>2, <1>3, <1>4, <2>1
<1>6. ASSUME NEW k \in 0 .. n - 1
      PROVE  bytes[Place(a, k)] = <<m, k>>
  <2>1. 0 + k = k
    BY <1>5
  <2>. QED BY <1>4, <2>1
<1>7. ASSUME NEW c \in 0 .. Capacity, Fill(c, b) = s - n,
             \A j \in 0 .. Fill(c, b) - 1 : Place(c, j) = Place(a, j + n)
      PROVE  Framed(bytes, c, b)
  <2>. DEFINE G == {g \in Nat : g + n \in H}
  <2>1. \A g \in G : g \in Nat /\ g + n \in 0 .. s /\ g \in 0 .. s - n
    BY <1>2, <1>3, <1>5
  <2>2. 0 \in G
    BY <1>5
  <2>3. s - n \in G
    <3>1. s - n \in Nat /\ (s - n) + n = s
      BY <1>3, <1>5
    <3>. QED BY <1>2, <3>1
  <2>4. ASSUME NEW g \in G, g # s - n
        PROVE  \E x \in Msg : /\ g + MsgLen[x] \in G
                              /\ \A k \in 0 .. MsgLen[x] - 1 :
                                   bytes[Place(c, g + k)] = <<x, k>>
    <3>1. g \in Nat /\ g + n \in H /\ g + n # s
      BY <1>3, <1>5, <2>4
    <3>2. PICK x \in Msg : /\ (g + n) + MsgLen[x] \in H
                           /\ \A k \in 0 .. MsgLen[x] - 1 :
                                bytes[Place(a, (g + n) + k)] = <<x, k>>
      BY <1>2, <3>1
    <3>. DEFINE l == MsgLen[x]
    <3>3. l \in Nat
      BY LenOf
    <3>4. g + l \in Nat /\ (g + l) + n = (g + n) + l /\ (g + n) + l <= s
      <4>1. (g + n) + l \in 0 .. s
        BY <1>2, <3>2
      <4>. HIDE DEF l, n, s
      <4>. QED BY <1>3, <1>5, <3>1, <3>3, <4>1
    <3>5. g + l \in G
      <4>. HIDE DEF l, n
      <4>. QED BY <3>2, <3>4 DEF l
    <3>6. ASSUME NEW k \in 0 .. l - 1
          PROVE  bytes[Place(c, g + k)] = <<x, k>>
      <4>1. g + k \in 0 .. (s - n) - 1 /\ (g + k) + n = (g + n) + k
        <5>. HIDE DEF l, n, s
        <5>. QED BY <1>3, <1>5, <3>1, <3>3, <3>4
      <4>2. Place(c, g + k) = Place(a, (g + k) + n)
        <5>. HIDE DEF s, n
        <5>. QED BY <1>7, <4>1
      <4>. QED BY <3>2, <4>1, <4>2
    <3>. QED BY <3>5, <3>6
  <2>5. CutsAt(G, bytes, c, b)
    <3>1. Fill(c, b) = s - n
      BY <1>7
    <3>. HIDE DEF G, s, n
    <3>. QED BY <2>1, <2>2, <2>3, <2>4, <3>1 DEF CutsAt
  <2>. QED BY <1>3, <1>7, <2>5 DEF Framed
<1>. QED BY <1>5, <1>6, <1>7

(* A read that moves the cursor keeps the ring framed: the length its      *)
(* header spells is that of the message at the cursor, and the branch on   *)
(* w < r addresses its bytes.                                              *)
LEMMA ReadFramed ==
  ASSUME NEW bytes, NEW a, NEW b, NEW x \in Msg, Framed(bytes, a, b),
         Fill(a, b) >= HDR,
         \A k \in 0 .. HDR - 1 :
           (IF b < a /\ a + k >= Capacity THEN bytes[a + k - Capacity]
                                          ELSE bytes[a + k]) = <<x, k>>
  PROVE  Framed(bytes, IF b >= a \/ Capacity - a >= MsgLen[x] THEN a + MsgLen[x]
                       ELSE MsgLen[x] - (Capacity - a), b)
<1>1. /\ HDR \in Nat /\ HDR > 0 /\ Capacity \in Nat
      /\ a \in 0 .. Capacity /\ b \in 0 .. Capacity
  BY LenOf DEF Framed
<1>2. Fill(a, b) > 0 /\ Fill(a, b) \in Nat
  BY <1>1 DEF Fill
<1>3. PICK m \in Msg :
        /\ MsgLen[m] \in 1 .. Fill(a, b)
        /\ \A k \in 0 .. MsgLen[m] - 1 : bytes[Place(a, k)] = <<m, k>>
        /\ \A c \in 0 .. Capacity :
             /\ Fill(c, b) = Fill(a, b) - MsgLen[m]
             /\ \A j \in 0 .. Fill(c, b) - 1 : Place(c, j) = Place(a, j + MsgLen[m])
             => Framed(bytes, c, b)
  BY <1>2, HeadFramed
<1>4. x = m
  <2>1. bytes[Place(a, 0)] = <<m, 0>>
    BY <1>3
  <2>2. 0 \in 0 .. HDR - 1 /\ a + 0 = a
    BY <1>1
  <2>3. bytes[Place(a, 0)] = <<x, 0>>
    <3>1. (IF b < a /\ a + 0 >= Capacity THEN bytes[a + 0 - Capacity]
                                         ELSE bytes[a + 0]) = <<x, 0>>
      BY <2>2
    <3>2. CASE b < a
      BY <1>1, <2>2, <3>1, <3>2 DEF Place
    <3>3. CASE b >= a
      <4>1. a + 0 < Capacity
        BY <1>1, <1>2, <3>3 DEF Fill
      <4>. QED BY <1>1, <3>1, <3>3, <4>1 DEF Place
    <3>. QED BY <1>1, <3>2, <3>3
  <2>. QED BY <2>1, <2>3
<1>. DEFINE n == MsgLen[m]
            c == IF b >= a \/ Capacity - a >= n THEN a + n ELSE n - (Capacity - a)
<1>5. n \in Nat /\ n > 0 /\ n <= Fill(a, b)
  BY <1>2, <1>3
<1>6. /\ c \in 0 .. Capacity /\ Fill(c, b) = Fill(a, b) - n
      /\ \A j \in 0 .. Fill(c, b) - 1 : Place(c, j) = Place(a, j + n)
  <2>. HIDE DEF n
  <2>1. CASE b >= a
    BY <1>1, <1>5, <2>1 DEF Fill, Place
  <2>2. CASE b < a
    BY <1>1, <1>5, <2>2 DEF Fill, Place
  <2>. QED BY <1>1, <2>1, <2>2
<1>. QED BY <1>3, <1>4, <1>6

-----------------------------------------------------------------------------
(* The cursors of the segment *)

(* The inductive invariant: every ring of the segment is framed. *)
RingsFramed == \A i \in Channels : Framed(View(i), r[i], w[i])

(* A framed ring of the segment has its cursors in range. *)
LEMMA FramedCursors == RingsFramed => CursorsInRange
BY DEF RingsFramed, Framed, CursorsInRange

(* A step of one channel keeps its ring framed. *)
LEMMA FramedStep ==
  ASSUME NEW i \in Channels, Framed(View(i), r[i], w[i]),
         [Channel(i)!Next]_(Channel(i)!vars)
  PROVE  Framed(View(i), r[i], w[i])'
<1>. DEFINE V == View(i)
            a == r[i]
            b == w[i]
<1>1. Channel(i)!Size = Fill(a, b)
  BY DEF Channel!Size, Channel!SizeOf, Fill
<1>2. ASSUME NEW m \in Msg, Channel(i)!PushWhole(m)
      PROVE  Framed(V', a', b')
  <2>1. /\ Capacity - Fill(a, b) >= MsgLen[m]
        /\ b < a \/ Capacity - b >= MsgLen[m]
        /\ a' = a /\ b' = b + MsgLen[m]
        /\ V' = [x \in 0 .. Capacity - 1 |-> IF b <= x /\ x < b + MsgLen[m]
                                             THEN <<m, x - b + 0>> ELSE V[x]]
    BY <1>1, <1>2 DEF Channel!PushWhole, Channel!Copied, Channel!Positions, Channel!Cell
  <2>2. b \in 0 .. Capacity /\ Capacity \in Nat
    BY SizeFacts DEF Framed
  <2>3. \A x \in 0 .. Capacity - 1 :
          V'[x] = IF b <= x /\ x < b + MsgLen[m] THEN <<m, x - b>> ELSE V[x]
    <3>1. \A x \in 0 .. Capacity - 1 : x - b + 0 = x - b
      BY <2>2
    <3>. QED BY <2>1, <3>1
  <2>4. Framed(V, a, b)
    OBVIOUS
  <2>. HIDE DEF V, a, b
  <2>5. Framed(V', a, b + MsgLen[m])
    BY <2>1, <2>3, <2>4, WholeFramed
  <2>. QED BY <2>1, <2>5
<1>3. ASSUME NEW m \in Msg, Channel(i)!PushSplit(m)
      PROVE  Framed(V', a', b')
  <2>1. /\ Capacity - Fill(a, b) >= MsgLen[m]
        /\ b >= a /\ Capacity - b < MsgLen[m]
        /\ a' = a /\ b' = MsgLen[m] - (Capacity - b)
    BY <1>1, <1>3 DEF Channel!PushSplit
  <2>2. /\ b \in 0 .. Capacity /\ a \in 0 .. Capacity /\ Capacity \in Nat
        /\ MsgLen[m] \in Nat
    BY SizeFacts, LenOf DEF Framed
  <2>3. V' = Channel(i)!Copied(Channel(i)!Copied(V, b, m, 0, Capacity - b), 0, m,
                               Capacity - b, MsgLen[m] - (Capacity - b))
    BY <1>3 DEF Channel!PushSplit, Channel!CopiedSplit
  <2>4. ASSUME NEW x \in 0 .. Capacity - 1
        PROVE  V'[x] = IF x < MsgLen[m] - (Capacity - b) THEN <<m, x + (Capacity - b)>>
                       ELSE IF b <= x THEN <<m, x - b>> ELSE V[x]
    <3>1. V'[x] = IF 0 <= x /\ x < 0 + (MsgLen[m] - (Capacity - b))
                  THEN <<m, x - 0 + (Capacity - b)>>
                  ELSE IF b <= x /\ x < b + (Capacity - b) THEN <<m, x - b + 0>>
                  ELSE V[x]
      <4>. HIDE DEF V, b
      <4>. QED BY <2>3 DEF Channel!Copied, Channel!Positions, Channel!Cell
    <3>2. /\ 0 <= x /\ 0 + (MsgLen[m] - (Capacity - b)) = MsgLen[m] - (Capacity - b)
          /\ x - 0 + (Capacity - b) = x + (Capacity - b)
          /\ x < b + (Capacity - b) /\ x - b + 0 = x - b
      BY <2>2
    <3>. HIDE DEF V, b
    <3>. QED BY <3>1, <3>2
  <2>5. Framed(V, a, b)
    OBVIOUS
  <2>. HIDE DEF V, a, b
  <2>6. Framed(V', a, MsgLen[m] - (Capacity - b))
    BY <2>1, <2>4, <2>5, SplitFramed
  <2>. QED BY <2>1, <2>6
<1>4. CASE UNCHANGED <<View(i), r[i], w[i]>>
  BY <1>4
<1>5. ASSUME NEW copies, Channel(i)!ReadHead(TRUE, copies)
      PROVE  Framed(V', a', b')
  <2>1. PICK len \in Channel(i)!HeadLens : r[i]' = Channel(i)!Moved(len)
    BY <1>5 DEF Channel!ReadHead
  <2>2. PICK x \in Msg : len = MsgLen[x] /\ \A k \in 0 .. HDR - 1 :
          Channel(i)!Fetch(k) = <<x, k>>
    BY <2>1 DEF Channel!HeadLens, Channel!Cell
  <2>3. Fill(a, b) >= HDR /\ V' = V /\ b' = b
    BY <1>1, <1>5 DEF Channel!ReadHead
  <2>4. \A k \in 0 .. HDR - 1 :
          (IF b < a /\ a + k >= Capacity THEN V[a + k - Capacity]
                                         ELSE V[a + k]) = <<x, k>>
    BY <2>2 DEF Channel!Fetch
  <2>5. a' = IF b >= a \/ Capacity - a >= MsgLen[x] THEN a + MsgLen[x]
             ELSE MsgLen[x] - (Capacity - a)
    BY <2>1, <2>2 DEF Channel!Moved
  <2>6. Framed(V, a, b)
    OBVIOUS
  <2>. HIDE DEF V, a, b
  <2>7. Framed(V, IF b >= a \/ Capacity - a >= MsgLen[x] THEN a + MsgLen[x]
                  ELSE MsgLen[x] - (Capacity - a), b)
    BY <2>3, <2>4, <2>6, ReadFramed
  <2>. QED BY <2>3, <2>5, <2>7
<1>6. CASE Channel(i)!Clear
  <2>1. a' = 0 /\ b' = 0
    BY <1>6 DEF Channel!Clear
  <2>2. 0 \in 0 .. Capacity
    BY SizeFacts
  <2>. HIDE DEF V, a, b
  <2>3. Framed(V', 0, 0)
    BY <2>2, MetFramed
  <2>. QED BY <2>1, <2>3 DEF V, a, b
<1>7. ASSUME NEW m \in Msg, Channel(i)!PushRefused(m)
      PROVE  UNCHANGED <<View(i), r[i], w[i]>>
  BY <1>7 DEF Channel!PushRefused
<1>8. ASSUME Channel(i)!ReadNothing \/ \E copies \in BOOLEAN : Channel(i)!ReadHead(FALSE, copies)
      PROVE  UNCHANGED <<View(i), r[i], w[i]>>
  BY <1>8 DEF Channel!ReadNothing, Channel!ReadHead
<1>9. CASE UNCHANGED Channel(i)!vars
  BY <1>4, <1>9 DEF Channel!vars
<1>10. CASE Channel(i)!Next
  BY <1>2, <1>3, <1>4, <1>5, <1>6, <1>7, <1>8, <1>10 DEF Channel!Next, Channel!Push,
     Channel!Pop, Channel!PopJust, Channel!Top, Channel!TopJust
<1>. QED BY <1>9, <1>10

(* The rings are framed in every state. *)
LEMMA RingsStayFramed == Spec => [](Shape /\ RingsFramed)
<1>1. ASSUME Init
      PROVE  Shape /\ RingsFramed
  <2>1. Shape /\ \A i \in Channels : r[i] = 0 /\ w[i] = 0
    BY <1>1, InitOfChannels DEF Init
  <2>2. 0 \in 0 .. Capacity
    BY SizeFacts
  <2>. QED BY <2>1, <2>2, MetFramed DEF RingsFramed
<1>2. ASSUME Shape, RingsFramed, [Next]_vars
      PROVE  Shape' /\ RingsFramed'
  <2>1. /\ Shape'
        /\ \A i \in Channels : [Channel(i)!Next]_(Channel(i)!vars)
    BY <1>2, FramedCursors, EachChannelSteps
  <2>2. ASSUME NEW i \in Channels
        PROVE  Framed(View(i), r[i], w[i])'
    BY <1>2, <2>1, FramedStep DEF RingsFramed
  <2>. QED BY <2>1, <2>2 DEF RingsFramed
<1>. QED BY <1>1, <1>2, PTL DEF Spec

(* The steps of the segment are steps of its channels. *)
LEMMA SegmentSteps ==
  Spec => []ObjectsIntact
          /\ (\A i \in Channels : Channel(i)!Init)
          /\ [][\A i \in Channels : [Channel(i)!Next]_(Channel(i)!vars)]_vars
<1>. DEFINE AnyStep == \A i \in Channels : [Channel(i)!Next]_(Channel(i)!vars)
            AllInit == \A i \in Channels : Channel(i)!Init
<1>1. Init => ObjectsIntact /\ AllInit
  BY InitOfChannels
<1>2. Shape /\ RingsFramed /\ ObjectsIntact /\ [Next]_vars
        => ObjectsIntact' /\ [AnyStep]_vars
  BY EachChannelSteps, FramedCursors DEF ObjectsIntact, ObjectsKept
<1>. HIDE DEF AnyStep, AllInit
<1>3. Spec => []ObjectsIntact /\ AllInit /\ [][AnyStep]_vars
  BY <1>1, <1>2, RingsStayFramed, PTL DEF Spec
<1>. QED BY <1>3 DEF AnyStep, AllInit

(* No cursor leaves the ring of its channel, for every size of the segment *)
(* and every set of message lengths, those included that fill a ring to    *)
(* the last byte, where messages are lost but no copy goes astray          *)
(* (CShmQueueMulti::pushmsg and popmsg_complex with CQueue.h:14).          *)
THEOREM CursorsStayInRange == Spec => []CursorsInRange
BY RingsStayFramed, FramedCursors, PTL

(* No message is ever copied over a CQueue object, its own or another's    *)
(* (the address arithmetic of init() and pushmsg()).                       *)
THEOREM ObjectsStayIntact == Spec => []ObjectsIntact
BY SegmentSteps, PTL

(* Each channel of the segment is a CQueue of its own, for every number of *)
(* channels and every size, whatever is done to the others (the index      *)
(* arithmetic of pushmsg(), popmsg_complex() and clear()).                 *)
THEOREM ChannelsStayApart == Spec => ChannelsAreQueues
BY SegmentSteps DEF ChannelsAreQueues
=============================================================================
