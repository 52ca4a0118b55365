--------------------------- MODULE CQueue_proofs ---------------------------
(***************************************************************************)
(* Proofs about CQueue for every capacity, header size, set of messages    *)
(* and granule that meets the assumptions of CQueueBytes and CQueueSized.  *)
(***************************************************************************)
EXTENDS CQueueSized, TLAPS

(* Facts about the message lengths, for the steps below. *)
LEMMA LenFacts ==
  ASSUME NEW m \in Msg
  PROVE  MsgLen[m] \in Nat /\ MsgLen[m] >= HDR /\ HDR > 0 /\ NMAX > 0
         /\ NMAX \in Nat /\ HDR \in Nat
BY QueueAssumption

(* size() stays within the capacity. *)
LEMMA SizeRange ==
  ASSUME NEW a \in 0 .. NMAX, NEW b \in 0 .. NMAX
  PROVE  SizeOf(a, b) \in 0 .. NMAX
BY QueueAssumption DEF SizeOf

(* Adding a message to a fill of whole granules gives one, never NMAX. *)
LEMMA GranulesAdd ==
  ASSUME NEW m \in Msg, NEW s \in 0 .. NMAX,
         \E j \in 0 .. NMAX : s = Granule * j,
         s + MsgLen[m] <= NMAX
  PROVE  /\ \E j \in 0 .. NMAX : s + MsgLen[m] = Granule * j
         /\ s + MsgLen[m] < NMAX
<1>1. PICK j \in 0 .. NMAX : s = Granule * j
  OBVIOUS
<1>2. PICK i \in 0 .. MsgLen[m] : MsgLen[m] = Granule * i
  BY GranuleAssumption
<1>. DEFINE g == Granule
<1>3. g \in Nat \ {0} /\ i \in Nat /\ j \in Nat /\ NMAX \in Nat /\ MsgLen[m] \in Nat
  BY GranuleAssumption, LenFacts
<1>4. s + MsgLen[m] = g * (j + i)
  BY <1>1, <1>2, <1>3
<1>5. j + i <= g * (j + i)
  <2>1. j + i \in Nat
    BY <1>3
  <2>. HIDE DEF g
  <2>. QED BY <2>1, <1>3
<1>6. j + i \in 0 .. NMAX
  BY <1>3, <1>4, <1>5
<1>7. NMAX # g * (j + i)
  BY <1>6, GranuleAssumption
<1>. QED BY <1>3, <1>4, <1>6, <1>7

(* Taking one away gives a fill of whole granules as well. *)
LEMMA GranulesSub ==
  ASSUME NEW m \in Msg, NEW s \in 0 .. NMAX,
         \E j \in 0 .. NMAX : s = Granule * j,
         MsgLen[m] <= s
  PROVE  \E j \in 0 .. NMAX : s - MsgLen[m] = Granule * j
<1>1. PICK j \in 0 .. NMAX : s = Granule * j
  OBVIOUS
<1>2. PICK i \in 0 .. MsgLen[m] : MsgLen[m] = Granule * i
  BY GranuleAssumption
<1>3. Granule \in Nat \ {0} /\ i \in Nat /\ j \in Nat /\ NMAX \in Nat /\ MsgLen[m] \in Nat
  BY GranuleAssumption, LenFacts
<1>4. s - MsgLen[m] = Granule * (j - i)
  BY <1>1, <1>2, <1>3
<1>5. i <= j
  <2>1. SUFFICES ASSUME i > j PROVE FALSE
    BY <1>3
  <2>2. Granule * (i - j) > 0
    BY <1>3, <2>1
  <2>3. Granule * i - Granule * j = Granule * (i - j)
    BY <1>3
  <2>. QED BY <1>1, <1>2, <1>3, <2>2, <2>3
<1>6. j - i \in 0 .. NMAX
  BY <1>3, <1>5
<1>. QED BY <1>4, <1>6

-----------------------------------------------------------------------------
(* What a reader sees *)

(* The entries of the history variable are records of its type. *)
LEMMA EntryType ==
  ASSUME TypeOK, NEW i \in 1 .. Len(q)
  PROVE  q[i] \in Entry /\ q[i].msg \in Msg /\ q[i].off \in Nat
<1>1. q \in Seq(Entry)
  BY DEF TypeOK
<1>2. q[i] \in Entry
  BY <1>1
<1>. QED BY <1>2, QueueAssumption DEF Entry

(* The fill of a ring of its type. *)
LEMMA FillRange ==
  ASSUME TypeOK
  PROVE  Size \in 0 .. NMAX /\ NMAX \in Nat /\ Len(q) \in Nat
<1>1. r \in 0 .. NMAX /\ w \in 0 .. NMAX /\ q \in Seq(Entry)
  BY DEF TypeOK
<1>2. Size \in 0 .. NMAX
  BY <1>1, SizeRange DEF Size
<1>3. Len(q) \in Nat
  BY <1>1
<1>. QED BY <1>2, <1>3, QueueAssumption

(* The readers' branch on w < r addresses the k-th pending byte correctly. *)
LEMMA FetchIsAt ==
  ASSUME TypeOK, NEW k \in Nat, k < Size
  PROVE  Fetch(k) = buf[At(k)]
<1>1. r \in 0 .. NMAX /\ w \in 0 .. NMAX /\ NMAX \in Nat
  BY QueueAssumption DEF TypeOK
<1>2. CASE w < r
  BY <1>1, <1>2 DEF Fetch, At, PosOf
<1>3. CASE w >= r
  BY <1>1, <1>3 DEF Fetch, At, PosOf, Size, SizeOf
<1>. QED BY <1>1, <1>2, <1>3

(* A queue that is not empty starts with its oldest acknowledged message.  *)
LEMMA HeadIsOldest ==
  ASSUME QueueInv, Size > 0
  PROVE  /\ q # <<>> /\ q[1].msg \in Msg /\ q[1].off = 0
         /\ MsgLen[q[1].msg] <= Size
         /\ \A k \in 0 .. MsgLen[q[1].msg] - 1 : Fetch(k) = Cell(q[1].msg, k)
         /\ HeadLens = {MsgLen[q[1].msg]}
<1>. DEFINE m == q[1].msg
<1>1. TypeOK /\ Layout
  BY DEF QueueInv
<1>2. Size \in 0 .. NMAX
  BY <1>1, FillRange
<1>3. q # <<>> /\ Len(q) \in Nat /\ 1 \in 1 .. Len(q)
  <2>1. q # <<>>
    BY <1>1, <1>2 DEF Layout
  <2>. QED BY <1>1, <2>1 DEF TypeOK
<1>4. m \in Msg /\ q[1].off = 0
  BY <1>1, <1>3, EntryType DEF Layout
<1>5. MsgLen[m] \in Nat /\ MsgLen[m] >= HDR /\ HDR > 0 /\ HDR \in Nat
  BY <1>4, LenFacts
<1>6. MsgLen[m] <= Size
  BY <1>1, <1>3, <1>4, <1>5 DEF Layout, EndOf
<1>7. ASSUME NEW k \in 0 .. MsgLen[m] - 1
      PROVE  Fetch(k) = Cell(m, k)
  <2>1. Fetch(k) = buf[At(k)]
    BY <1>1, <1>2, <1>5, <1>6, FetchIsAt
  <2>2. buf[At(q[1].off + k)] = Cell(m, k)
    BY <1>1, <1>3 DEF Layout
  <2>. QED BY <2>1, <2>2, <1>4
<1>8. HeadLens = {MsgLen[m]}
  <2>1. 0 \in 0 .. HDR - 1 /\ 0 .. HDR - 1 \subseteq 0 .. MsgLen[m] - 1
    BY <1>5
  <2>2. \A k \in 0 .. HDR - 1 : Fetch(k) = Cell(m, k)
    BY <1>7, <2>1
  <2>3. ASSUME NEW x \in Msg, \A k \in 0 .. HDR - 1 : Fetch(k) = Cell(x, k)
        PROVE  x = m
    BY <2>1, <2>2, <2>3 DEF Cell
  <2>. QED BY <1>4, <2>2, <2>3 DEF HeadLens
<1>. QED BY <1>3, <1>4, <1>6, <1>7, <1>8

-----------------------------------------------------------------------------
(* The steps that change the ring *)

(* A push that is acknowledged keeps the cursors apart and adds its length.*)
LEMMA PushCursor ==
  ASSUME QueueInv, NEW m \in Msg, PushWhole(m) \/ PushSplit(m)
  PROVE  /\ r' = r /\ w' \in 0 .. NMAX
         /\ Size + MsgLen[m] < NMAX
         /\ Size' = Size + MsgLen[m]
<1>1. r \in 0 .. NMAX /\ w \in 0 .. NMAX
  BY DEF QueueInv, TypeOK
<1>2. MsgLen[m] \in Nat /\ MsgLen[m] > 0 /\ NMAX \in Nat
  BY LenFacts
<1>3. Size \in 0 .. NMAX
  BY <1>1, SizeRange DEF Size
<1>4. Size + MsgLen[m] < NMAX
  <2>1. Size + MsgLen[m] <= NMAX
    BY <1>2, <1>3 DEF PushWhole, PushSplit
  <2>. QED BY <1>3, <2>1, GranulesAdd DEF QueueInv, Granular
<1>5. r' = r
  BY DEF PushWhole, PushSplit
<1>6. CASE PushWhole(m) /\ w < r
  BY <1>1, <1>2, <1>4, <1>5, <1>6 DEF PushWhole, Size, SizeOf
<1>7. CASE PushWhole(m) /\ w >= r
  BY <1>1, <1>2, <1>4, <1>5, <1>7 DEF PushWhole, Size, SizeOf
<1>8. CASE PushSplit(m)
  BY <1>1, <1>2, <1>4, <1>5, <1>8 DEF PushSplit, Size, SizeOf
<1>. QED BY <1>1, <1>6, <1>7, <1>8

(* It writes its own bytes after the pending ones and nothing else.        *)
LEMMA PushBytes ==
  ASSUME QueueInv, NEW m \in Msg, PushWhole(m) \/ PushSplit(m)
  PROVE  /\ buf' \in [Positions -> {Blank} \cup (Msg \X Nat)]
         /\ \A k \in 0 .. MsgLen[m] - 1 : buf'[At(Size + k)] = Cell(m, k)
         /\ \A j \in 0 .. Size - 1 : buf'[At(j)] = buf[At(j)]
<1>1. r \in 0 .. NMAX /\ w \in 0 .. NMAX
      /\ buf \in [Positions -> {Blank} \cup (Msg \X Nat)]
  BY DEF QueueInv, TypeOK
<1>2. MsgLen[m] \in Nat /\ MsgLen[m] > 0 /\ NMAX \in Nat
  BY LenFacts
<1>3. Size \in 0 .. NMAX /\ Size + MsgLen[m] < NMAX
  BY <1>1, SizeRange, PushCursor DEF Size
<1>4. CASE PushWhole(m)
  <2>1. buf' = [x \in Positions |-> IF w <= x /\ x < w + MsgLen[m]
                                    THEN <<m, x - w>> ELSE buf[x]]
    BY <1>1, <1>2, <1>4 DEF PushWhole, Copied, Cell, Positions
  <2>2. \A k \in 0 .. MsgLen[m] - 1 : At(Size + k) = w + k /\ w + k \in Positions
    BY <1>1, <1>2, <1>3, <1>4 DEF PushWhole, At, PosOf, Size, SizeOf, Positions
  <2>3. \A j \in 0 .. Size - 1 :
           At(j) \in Positions /\ ~(w <= At(j) /\ At(j) < w + MsgLen[m])
    BY <1>1, <1>2, <1>3, <1>4 DEF PushWhole, At, PosOf, Size, SizeOf, Positions
  <2>4. buf' \in [Positions -> {Blank} \cup (Msg \X Nat)]
    BY <1>1, <1>2, <2>1 DEF Positions
  <2>5. ASSUME NEW k \in 0 .. MsgLen[m] - 1
        PROVE  buf'[At(Size + k)] = Cell(m, k)
    <3>1. w <= w + k /\ w + k < w + MsgLen[m] /\ (w + k) - w = k
      BY <1>1, <1>2
    <3>. QED BY <2>1, <2>2, <3>1 DEF Cell
  <2>. QED BY <2>1, <2>3, <2>4, <2>5
<1>5. CASE PushSplit(m)
  <2>. DEFINE n == NMAX - w
  <2>1. n \in Nat /\ n < MsgLen[m] /\ w >= r
    BY <1>1, <1>2, <1>5 DEF PushSplit
  <2>2. buf' = [x \in Positions |->
                  IF x < MsgLen[m] - n THEN <<m, x + n>>
                  ELSE IF w <= x THEN <<m, x - w>> ELSE buf[x]]
    BY <1>1, <1>2, <1>5, <2>1 DEF PushSplit, CopiedSplit, Copied, Cell, Positions
  <2>3. \A k \in 0 .. MsgLen[m] - 1 :
           /\ At(Size + k) = IF k < n THEN w + k ELSE k - n
           /\ At(Size + k) \in Positions
    BY <1>1, <1>2, <1>3, <2>1 DEF At, PosOf, Size, SizeOf, Positions
  <2>4. \A j \in 0 .. Size - 1 :
           At(j) \in Positions /\ At(j) >= MsgLen[m] - n /\ At(j) < w
    BY <1>1, <1>2, <1>3, <2>1 DEF At, PosOf, Size, SizeOf, Positions
  <2>5. buf' \in [Positions -> {Blank} \cup (Msg \X Nat)]
    BY <1>1, <1>2, <2>1, <2>2 DEF Positions
  <2>6. MsgLen[m] - n <= w
    BY <1>1, <1>2, <1>3, <2>1 DEF Size, SizeOf
  <2>7. ASSUME NEW k \in 0 .. MsgLen[m] - 1
        PROVE  buf'[At(Size + k)] = Cell(m, k)
    <3>1. CASE k < n
      BY <1>1, <1>2, <2>1, <2>2, <2>3, <2>6, <3>1 DEF Cell
    <3>2. CASE k >= n
      BY <1>1, <1>2, <2>1, <2>2, <2>3, <3>2 DEF Cell
    <3>. QED BY <2>1, <3>1, <3>2
  <2>8. ASSUME NEW j \in 0 .. Size - 1
        PROVE  buf'[At(j)] = buf[At(j)]
    <3>1. At(j) \in Positions /\ ~(At(j) < MsgLen[m] - n) /\ ~(w <= At(j))
      BY <1>1, <1>2, <2>1, <2>4 DEF Positions
    <3>. QED BY <2>2, <3>1
  <2>. QED BY <2>5, <2>7, <2>8
<1>. QED BY <1>4, <1>5

(* The ring after an acknowledged push. *)
LEMMA PushPreserves ==
  ASSUME QueueInv, NEW m \in Msg, PushWhole(m) \/ PushSplit(m)
  PROVE  QueueInv'
<1>. DEFINE e == [msg |-> m, off |-> Size]
<1>1. TypeOK /\ Layout /\ Granular
  BY DEF QueueInv
<1>2. q' = Append(q, e) /\ ret'.val = MsgLen[m]
  BY DEF PushWhole, PushSplit, Acknowledge, Returned
<1>3. Size \in 0 .. NMAX /\ MsgLen[m] \in Nat /\ MsgLen[m] > 0 /\ NMAX \in Nat
  BY <1>1, FillRange, LenFacts
<1>4. /\ r' = r /\ w' \in 0 .. NMAX
      /\ Size + MsgLen[m] < NMAX
      /\ Size' = Size + MsgLen[m]
  BY PushCursor
<1>5. e \in Entry
  BY <1>3, <1>4 DEF Entry
<1>6. Len(q) \in Nat /\ q \in Seq(Entry)
  BY <1>1 DEF TypeOK
<1>7. /\ Len(q') = Len(q) + 1 /\ q' # <<>>
      /\ \A i \in 1 .. Len(q) : q'[i] = q[i]
      /\ q'[Len(q) + 1] = e
  BY <1>2, <1>5, <1>6
<1>8. TypeOK'
  <2>1. q' \in Seq(Entry)
    BY <1>2, <1>5, <1>6
  <2>. QED BY <1>1, <1>2, <1>3, <1>4, <2>1, PushBytes DEF TypeOK
<1>9. Granular'
  <2>1. \E j \in 0 .. NMAX : Size + MsgLen[m] = Granule * j
    BY <1>1, <1>3, <1>4, GranulesAdd DEF Granular
  <2>. QED BY <1>4, <2>1 DEF Granular
<1>10. Layout'
  <2>1. q'[1].off = 0
    BY <1>1, <1>6, <1>7 DEF Layout
  <2>2. EndOf(q'[Len(q')]) = Size'
    BY <1>4, <1>6, <1>7 DEF EndOf
  <2>3. ASSUME NEW i \in 1 .. Len(q') - 1
        PROVE  q'[i + 1].off = EndOf(q'[i])
    BY <1>1, <1>6, <1>7 DEF Layout, EndOf
  <2>7. ASSUME NEW i \in 1 .. Len(q'), NEW j \in 1 .. Len(q'), i < j
        PROVE  EndOf(q'[i]) <= q'[j].off
    <3>1. i \in 1 .. Len(q) /\ q'[i] = q[i]
      BY <1>6, <1>7, <2>7
    <3>2. CASE j = Len(q) + 1
      BY <1>1, <1>7, <3>1, <3>2 DEF Layout
    <3>3. CASE j \in 1 .. Len(q)
      BY <1>1, <1>7, <2>7, <3>1, <3>3 DEF Layout
    <3>. QED BY <1>6, <1>7, <3>2, <3>3
  <2>4. ASSUME NEW i \in 1 .. Len(q')
        PROVE  EndOf(q'[i]) <= Size'
    <3>1. CASE i = Len(q) + 1
      BY <1>3, <1>4, <1>7, <3>1 DEF EndOf
    <3>2. CASE i \in 1 .. Len(q)
      <4>1. EndOf(q[i]) <= Size /\ q[i].msg \in Msg /\ q[i].off \in Nat
        BY <1>1, <3>2, EntryType DEF Layout
      <4>2. EndOf(q[i]) \in Nat
        BY <4>1, LenFacts DEF EndOf
      <4>. QED BY <1>3, <1>4, <1>7, <3>2, <4>1, <4>2
    <3>. QED BY <1>6, <1>7, <3>1, <3>2
  <2>5. ASSUME NEW i \in 1 .. Len(q'), NEW k \in 0 .. MsgLen[q'[i].msg] - 1
        PROVE  buf'[At(q'[i].off + k)] = Cell(q'[i].msg, k)
    <3>1. CASE i = Len(q) + 1
      BY <1>7, <3>1, PushBytes
    <3>2. CASE i \in 1 .. Len(q)
      <4>1. EndOf(q[i]) <= Size /\ q[i].msg \in Msg /\ q[i].off \in Nat
        BY <1>1, <3>2, EntryType DEF Layout
      <4>2. MsgLen[q[i].msg] \in Nat /\ q[i].off \in Nat /\ k \in 0 .. MsgLen[q[i].msg] - 1
        BY <1>7, <3>2, <4>1, LenFacts
      <4>3. q[i].off + k \in 0 .. Size - 1
        <5>1. q[i].off + MsgLen[q[i].msg] <= Size /\ Size \in Int
          BY <1>3, <4>1 DEF EndOf
        <5>. DEFINE o == q[i].off  n == MsgLen[q[i].msg]  s == Size
        <5>2. o \in Nat /\ n \in Nat /\ s \in Int /\ k \in 0 .. n - 1 /\ o + n <= s
          BY <4>2, <5>1
        <5>. HIDE DEF o, n, s
        <5>3. o + k \in 0 .. s - 1
          BY <5>2
        <5>. QED BY <5>3 DEF o, s
      <4>4. buf'[At(q[i].off + k)] = buf[At(q[i].off + k)]
        BY <4>3, PushBytes
      <4>5. buf[At(q[i].off + k)] = Cell(q[i].msg, k)
        BY <1>1, <3>2, <4>2 DEF Layout
      <4>. QED BY <1>7, <3>2, <4>4, <4>5
    <3>. QED BY <1>6, <1>7, <3>1, <3>2
  <2>6. \A j : At(j)' = At(j)
    BY <1>4 DEF At
  <2>. QED BY <1>7, <2>1, <2>2, <2>3, <2>4, <2>5, <2>6, <2>7 DEF Layout, EndOf
<1>. QED BY <1>8, <1>9, <1>10 DEF QueueInv

(* What a read that finds a message returns, and where it moves r. *)
LEMMA ReadResult ==
  ASSUME QueueInv, NEW moves, NEW copies, ReadHead(moves, copies)
  PROVE  /\ Size > 0 /\ w' = w /\ buf' = buf
         /\ ret' = [val |-> MsgLen[q[1].msg],
                    bytes |-> IF copies THEN Bytes(q[1].msg) ELSE Nothing]
         /\ ~moves => r' = r /\ q' = q
         /\ moves => /\ q' = Rest(q, MsgLen[q[1].msg])
                     /\ r' = IF w >= r \/ NMAX - r >= MsgLen[q[1].msg]
                             THEN r + MsgLen[q[1].msg]
                             ELSE MsgLen[q[1].msg] - (NMAX - r)
<1>1. Size \in Nat /\ HDR \in Nat /\ HDR > 0
  BY FillRange, QueueAssumption DEF QueueInv
<1>2. Size > 0
  BY <1>1 DEF ReadHead
<1>3. q # <<>> /\ HeadLens = {MsgLen[q[1].msg]}
      /\ \A k \in 0 .. MsgLen[q[1].msg] - 1 : Fetch(k) = Cell(q[1].msg, k)
  BY <1>2, HeadIsOldest
<1>4. [k \in 0 .. MsgLen[q[1].msg] - 1 |-> Fetch(k)] = Bytes(q[1].msg)
  BY <1>3 DEF Bytes
<1>. QED BY <1>2, <1>3, <1>4 DEF ReadHead, Returned, Moved

(* Cursor arithmetic of a removal of len bytes, on any cursor values. *)
LEMMA RemoveArith ==
  ASSUME NEW a \in 0 .. NMAX, NEW b \in 0 .. NMAX, NEW len \in Nat, NEW c,
         len > 0, len <= SizeOf(a, b), SizeOf(a, b) # NMAX,
         c = IF b >= a \/ NMAX - a >= len THEN a + len ELSE len - (NMAX - a)
  PROVE  /\ c \in 0 .. NMAX
         /\ SizeOf(c, b) = SizeOf(a, b) - len
         /\ \A j \in 0 .. SizeOf(c, b) - 1 : PosOf(c, j) = PosOf(a, j + len)
<1>1. CASE b >= a
  BY <1>1, QueueAssumption DEF SizeOf, PosOf
<1>2. CASE b < a
  BY <1>2, QueueAssumption DEF SizeOf, PosOf
<1>. QED BY <1>1, <1>2

(* A read that removes the oldest message moves r past exactly its bytes:  *)
(* every later pending byte keeps its place in the ring.                   *)
LEMMA ReadCursor ==
  ASSUME QueueInv, NEW copies, ReadHead(TRUE, copies)
  PROVE  /\ r' \in 0 .. NMAX
         /\ Size' = Size - MsgLen[q[1].msg]
         /\ \A j \in 0 .. Size' - 1 : At(j)' = At(j + MsgLen[q[1].msg])
<1>. DEFINE len == MsgLen[q[1].msg]
<1>1. r \in 0 .. NMAX /\ w \in 0 .. NMAX
  BY DEF QueueInv, TypeOK
<1>2. /\ w' = w
      /\ r' = IF w >= r \/ NMAX - r >= len THEN r + len ELSE len - (NMAX - r)
      /\ Size > 0
  BY ReadResult
<1>3. q[1].msg \in Msg /\ len <= Size
  BY <1>2, HeadIsOldest
<1>4. len \in Nat /\ len > 0
  BY <1>3, LenFacts
<1>5. Size # NMAX
  <2>1. PICK j \in 0 .. NMAX : Size = Granule * j
    BY DEF QueueInv, Granular
  <2>. QED BY <2>1, GranuleAssumption
<1>6. /\ r' \in 0 .. NMAX
      /\ SizeOf(r', w) = SizeOf(r, w) - len
      /\ \A j \in 0 .. SizeOf(r', w) - 1 : PosOf(r', j) = PosOf(r, j + len)
  <2>. HIDE DEF len
  <2>. QED BY <1>1, <1>2, <1>3, <1>4, <1>5, RemoveArith DEF Size
<1>. QED BY <1>2, <1>6 DEF Size, At

(* Offsets that move down by len keep their order. *)
LEMMA ShiftArith ==
  ASSUME NEW a \in Nat, NEW b \in Nat, NEW len \in Nat, a <= b
  PROVE  a - len <= b - len
OBVIOUS

(* The ring after a read that finds a message. *)
LEMMA ReadPreserves ==
  ASSUME QueueInv, NEW moves, NEW copies, ReadHead(moves, copies)
  PROVE  QueueInv'
<1>. DEFINE len == MsgLen[q[1].msg]
<1>1. TypeOK /\ Layout /\ Granular /\ Size \in 0 .. NMAX /\ Len(q) \in Nat
  BY FillRange DEF QueueInv
<1>2. q # <<>> /\ q[1].msg \in Msg /\ q[1].off = 0 /\ len <= Size
  BY ReadResult, HeadIsOldest
<1>3. len \in Nat /\ len > 0 /\ ret'.val = len /\ w' = w /\ buf' = buf
  BY <1>2, LenFacts, ReadResult
<1>4. CASE ~moves
  <2>1. r' = r /\ q' = q
    BY <1>4, ReadResult
  <2>2. TypeOK'
    BY <1>1, <1>3, <2>1 DEF TypeOK
  <2>3. Granular' /\ Layout'
    BY <1>1, <1>3, <2>1 DEF Granular, Layout, Size, At, EndOf
  <2>. QED BY <2>2, <2>3 DEF QueueInv
<1>5. CASE moves
  <2>1. q' = Rest(q, len)
    BY <1>5, ReadResult
  <2>2. /\ r' \in 0 .. NMAX /\ Size' = Size - len
        /\ \A j \in 0 .. Size' - 1 : At(j)' = At(j + len)
    <3>1. ReadHead(TRUE, copies)
      BY <1>5 DEF ReadHead
    <3>. QED BY <3>1, ReadCursor
  <2>3. \A i \in 1 .. Len(q) : q[i].msg \in Msg /\ MsgLen[q[i].msg] \in Nat
                               /\ MsgLen[q[i].msg] > 0 /\ q[i].off \in Nat
    BY <1>1, EntryType, LenFacts
  <2>4. /\ Len(q') = Len(q) - 1
        /\ \A i \in 1 .. Len(q') : /\ i + 1 \in 1 .. Len(q)
                                   /\ q'[i] = [msg |-> q[i + 1].msg,
                                               off |-> q[i + 1].off - len]
    <3>1. q \in Seq(Entry) /\ Len(q) >= 1
      BY <1>1, <1>2 DEF TypeOK
    <3>. QED BY <1>1, <2>1, <3>1 DEF Rest
  <2>5. ASSUME NEW i \in 1 .. Len(q')
        PROVE  /\ q'[i].msg = q[i + 1].msg
               /\ q'[i].off = q[i + 1].off - len
               /\ q'[i].off \in Nat /\ q'[i] \in Entry
    <3>1. q[i + 1] \in Entry /\ i + 1 \in 1 .. Len(q)
      BY <1>1, <2>4, EntryType
    <3>2. q'[i] = [msg |-> q[i + 1].msg, off |-> q[i + 1].off - len]
      BY <2>4
    <3>3. 1 \in 1 .. Len(q) /\ 1 < i + 1
      BY <1>1, <3>1
    <3>4. EndOf(q[1]) <= q[i + 1].off
      BY <1>1, <3>1, <3>3 DEF Layout
    <3>5. len <= q[i + 1].off
      BY <1>2, <1>3, <3>4 DEF EndOf
    <3>6. q[i + 1].off \in 0 .. NMAX - 1 /\ q[i + 1].msg \in Msg
      BY <3>1 DEF Entry
    <3>7. q[i + 1].off - len \in 0 .. NMAX - 1
      BY <1>3, <3>5, <3>6, QueueAssumption
    <3>. QED BY <3>2, <3>6, <3>7 DEF Entry
  <2>6. \A i \in 1 .. Len(q') : EndOf(q'[i]) = EndOf(q[i + 1]) - len
    BY <1>3, <2>3, <2>4, <2>5 DEF EndOf
  <2>7. TypeOK'
    <3>1. q' \in Seq(Entry)
      <4>1. q' = [i \in 1 .. Len(q) - 1 |-> q'[i]] /\ Len(q) - 1 \in Nat
        BY <1>1, <1>2, <2>1, <2>4 DEF Rest, TypeOK
      <4>. QED BY <2>4, <2>5, <4>1
    <3>. QED BY <1>1, <1>3, <2>2, <3>1 DEF TypeOK
  <2>8. Granular'
    <3>1. \E j \in 0 .. NMAX : Size - len = Granule * j
      BY <1>1, <1>2, GranulesSub DEF Granular
    <3>. QED BY <2>2, <3>1 DEF Granular
  <2>9. Layout'
    <3>1. q' = <<>> => Size' = 0
      <4>1. SUFFICES ASSUME q' = <<>> PROVE Size' = 0
        OBVIOUS
      <4>2. Len(q) = 1
        BY <1>1, <2>4, <4>1
      <4>. QED BY <1>1, <1>2, <1>3, <2>2, <4>2 DEF Layout, EndOf
    <3>2. ASSUME q' # <<>>
          PROVE  q'[1].off = 0 /\ EndOf(q'[Len(q')]) = Size'
      <4>1. 1 \in 1 .. Len(q') /\ Len(q') \in 1 .. Len(q') /\ 1 \in 1 .. Len(q) - 1
        BY <1>1, <2>4, <2>7, <3>2 DEF TypeOK
      <4>2. q[2].off = EndOf(q[1]) /\ EndOf(q[Len(q)]) = Size
        BY <1>1, <1>2, <4>1 DEF Layout
      <4>3. q'[1].off = q[2].off - len /\ EndOf(q[1]) = len
        <5>1. q'[1].off = q[1 + 1].off - len
          BY <2>5, <4>1
        <5>. QED BY <1>2, <1>3, <5>1 DEF EndOf
      <4>4. EndOf(q'[Len(q')]) = EndOf(q[Len(q)]) - len
        <5>1. EndOf(q'[Len(q')]) = EndOf(q[Len(q') + 1]) - len
          BY <2>6, <4>1
        <5>. QED BY <1>1, <2>4, <5>1
      <4>. QED BY <1>3, <2>2, <4>2, <4>3, <4>4
    <3>3. ASSUME NEW i \in 1 .. Len(q') - 1
          PROVE  q'[i + 1].off = EndOf(q'[i])
      <4>1. i \in 1 .. Len(q') /\ i + 1 \in 1 .. Len(q') /\ i + 1 \in 1 .. Len(q) - 1
        BY <1>1, <2>4
      <4>2. q[(i + 1) + 1].off = EndOf(q[i + 1])
        BY <1>1, <4>1 DEF Layout
      <4>. QED BY <2>5, <2>6, <4>1, <4>2
    <3>4. ASSUME NEW i \in 1 .. Len(q'), NEW j \in 1 .. Len(q'), i < j
          PROVE  EndOf(q'[i]) <= q'[j].off
      <4>1. i + 1 \in 1 .. Len(q) /\ j + 1 \in 1 .. Len(q) /\ i + 1 < j + 1
        BY <1>1, <2>4, <3>4
      <4>2. EndOf(q[i + 1]) <= q[j + 1].off
        BY <1>1, <4>1 DEF Layout
      <4>3. EndOf(q[i + 1]) \in Nat /\ q[j + 1].off \in Nat
        BY <2>3, <4>1 DEF EndOf
      <4>4. EndOf(q'[i]) = EndOf(q[i + 1]) - len /\ q'[j].off = q[j + 1].off - len
        BY <2>5, <2>6
      <4>. QED BY <1>3, <4>2, <4>3, <4>4, ShiftArith
    <3>5. ASSUME NEW i \in 1 .. Len(q')
          PROVE  EndOf(q'[i]) <= Size'
      <4>1. EndOf(q[i + 1]) <= Size /\ EndOf(q[i + 1]) \in Nat
        <5>1. i + 1 \in 1 .. Len(q)
          BY <2>4
        <5>2. EndOf(q[i + 1]) <= Size
          BY <1>1, <5>1 DEF Layout
        <5>. QED BY <2>3, <5>1, <5>2 DEF EndOf
      <4>2. EndOf(q'[i]) = EndOf(q[i + 1]) - len /\ Size' = Size - len
        BY <2>2, <2>6
      <4>3. Size \in Nat /\ len \in Nat
        BY <1>1, <1>3, QueueAssumption
      <4>. DEFINE e == EndOf(q[i + 1])
      <4>4. e <= Size /\ e \in Nat /\ EndOf(q'[i]) = e - len
        BY <4>1, <4>2
      <4>. HIDE DEF e, len
      <4>. QED BY <4>2, <4>3, <4>4
    <3>6. ASSUME NEW i \in 1 .. Len(q'), NEW k \in 0 .. MsgLen[q'[i].msg] - 1
          PROVE  buf'[PosOf(r', q'[i].off + k)] = Cell(q'[i].msg, k)
      <4>1. /\ i + 1 \in 1 .. Len(q) /\ k \in 0 .. MsgLen[q[i + 1].msg] - 1
            /\ MsgLen[q[i + 1].msg] \in Nat
        BY <2>3, <2>4, <2>5
      <4>2. buf[At(q[i + 1].off + k)] = Cell(q[i + 1].msg, k)
        BY <1>1, <4>1 DEF Layout
      <4>3. /\ q'[i].off + k \in 0 .. Size' - 1
            /\ (q'[i].off + k) + len = q[i + 1].off + k
        <5>1. EndOf(q'[i]) <= Size' /\ MsgLen[q'[i].msg] = MsgLen[q[i + 1].msg]
          BY <2>5, <3>5
        <5>2. q'[i].off \in Nat /\ q[i + 1].off \in Nat
              /\ q'[i].off = q[i + 1].off - len
          BY <2>3, <2>5, <4>1
        <5>3. q'[i].off + MsgLen[q[i + 1].msg] <= Size' /\ Size' \in Int
          BY <1>1, <1>3, <2>2, <5>1 DEF EndOf
        <5>. DEFINE o == q'[i].off  p == q[i + 1].off  n == MsgLen[q[i + 1].msg]
                    s == Size'
        <5>4. /\ o \in Nat /\ p \in Nat /\ n \in Nat /\ s \in Int /\ len \in Nat
              /\ k \in 0 .. n - 1 /\ o = p - len /\ o + n <= s
          BY <1>3, <4>1, <5>2, <5>3
        <5>. HIDE DEF o, p, n, s, len
        <5>5. o + k \in 0 .. s - 1
          BY <5>4
        <5>6. (o + k) + len = p + k
          <6>1. o \in Int /\ p \in Int /\ len \in Int /\ k \in Int /\ o = p - len
            BY <5>4
          <6>. QED BY <6>1
        <5>. QED BY <5>5, <5>6 DEF o, p, s
      <4>4. PosOf(r', q'[i].off + k) = At(q[i + 1].off + k)
        <5>1. \A j \in 0 .. Size' - 1 : PosOf(r', j) = At(j + len)
          BY <2>2 DEF At
        <5>. QED BY <4>3, <5>1
      <4>. QED BY <1>3, <2>5, <4>2, <4>4
    <3>. QED BY <3>1, <3>2, <3>3, <3>4, <3>5, <3>6 DEF Layout, EndOf, At
  <2>. QED BY <2>7, <2>8, <2>9 DEF QueueInv
<1>. QED BY <1>4, <1>5

-----------------------------------------------------------------------------
(* The theorems *)

(* An empty ring whose cursors are both 0. *)
LEMMA ClearedInv ==
  ASSUME r' = 0, w' = 0, q' = <<>>, ret'.val = 0,
         buf' \in [Positions -> {Blank} \cup (Msg \X Nat)]
  PROVE  QueueInv'
<1>1. Size' = 0 /\ NMAX \in Nat
  BY QueueAssumption DEF Size, SizeOf
<1>2. TypeOK'
  BY <1>1 DEF TypeOK
<1>3. Granular'
  BY <1>1, GranuleAssumption DEF Granular
<1>4. Layout'
  BY <1>1 DEF Layout
<1>. QED BY <1>2, <1>3, <1>4 DEF QueueInv

(* A call that leaves the ring as it was and returns -1. *)
LEMMA UnchangedInv ==
  ASSUME QueueInv, UNCHANGED <<r, w, buf, q>>, ret'.val = -1 \/ ret' = ret
  PROVE  QueueInv'
<1>1. TypeOK'
  BY DEF QueueInv, TypeOK
<1>2. Granular' /\ Layout'
  BY DEF QueueInv, Granular, Layout, Size, At, EndOf
<1>. QED BY <1>1, <1>2 DEF QueueInv

LEMMA InitInv == Init => QueueInv
<1>. SUFFICES ASSUME Init PROVE QueueInv
  OBVIOUS
<1>1. Size = 0 /\ NMAX \in Nat
  BY QueueAssumption DEF Init, Size, SizeOf
<1>2. TypeOK
  BY <1>1 DEF Init, TypeOK
<1>3. Granular
  BY <1>1, GranuleAssumption DEF Granular
<1>4. Layout
  BY <1>1 DEF Init, Layout
<1>. QED BY <1>2, <1>3, <1>4 DEF QueueInv

LEMMA NextInv == QueueInv /\ [Next]_vars => QueueInv'
<1>. SUFFICES ASSUME QueueInv, [Next]_vars PROVE QueueInv'
  OBVIOUS
<1>1. ASSUME NEW m \in Msg, PushRefused(m) PROVE QueueInv'
  BY <1>1, UnchangedInv DEF PushRefused, Returned
<1>2. ASSUME NEW m \in Msg, PushWhole(m) \/ PushSplit(m) PROVE QueueInv'
  BY <1>2, PushPreserves
<1>3. ASSUME ReadNothing PROVE QueueInv'
  BY <1>3, UnchangedInv DEF ReadNothing, Returned
<1>4. ASSUME NEW moves, NEW copies, ReadHead(moves, copies) PROVE QueueInv'
  BY <1>4, ReadPreserves
<1>5. CASE Clear
  BY <1>5, ClearedInv DEF Clear, Returned, QueueInv, TypeOK
<1>6. CASE UNCHANGED vars
  BY <1>6, UnchangedInv DEF vars
<1>. QED
  BY <1>1, <1>2, <1>3, <1>4, <1>5, <1>6 DEF Next, Push, Pop, PopJust, Top, TopJust

(* The cursors, the bytes and the order of the messages in the ring are    *)
(* right after every call of push, of the readers and of clear.            *)
THEOREM QueueInvariant == Spec => []QueueInv
BY InitInv, NextInv, PTL DEF Spec

(* No pending message takes no bytes. *)
LEMMA EmptyIsDrained ==
  ASSUME QueueInv
  PROVE  Size = 0 <=> q = <<>>
<1>1. q = <<>> => Size = 0
  BY DEF QueueInv, Layout
<1>2. ASSUME q # <<>>, Size = 0 PROVE FALSE
  <2>1. 1 \in 1 .. Len(q)
    BY <1>2 DEF QueueInv, TypeOK
  <2>2. q[1].msg \in Msg /\ q[1].off \in Nat /\ EndOf(q[1]) <= Size
    BY <2>1, EntryType DEF QueueInv, Layout
  <2>. QED BY <1>2, <2>2, LenFacts DEF EndOf
<1>. QED BY <1>1, <1>2

(* The cursors show "empty" only when every message whose push was         *)
(* acknowledged has been removed: no message is lost in the ring.          *)
THEOREM NothingLost == Spec => []EmptyMeansDrained
<1>1. QueueInv => EmptyMeansDrained
  BY EmptyIsDrained DEF EmptyMeansDrained, Empty
<1>. QED BY <1>1, QueueInvariant, PTL

(* A queue that is not empty yields its oldest message to every reader.    *)
THEOREM HeadReadable == Spec => []NonEmptyReadable
<1>1. QueueInv => NonEmptyReadable
  BY HeadIsOldest DEF NonEmptyReadable
<1>. QED BY <1>1, QueueInvariant, PTL

-----------------------------------------------------------------------------
(* The ring implements the FIFO of MsgFifo *)

Abs == [i \in 1 .. Len(q) |-> q[i].msg]

LEMMA AbsType ==
  ASSUME QueueInv
  PROVE  Abs \in Seq(Msg) /\ Len(Abs) = Len(q) /\ (Abs = <<>> <=> q = <<>>)
<1>1. Len(q) \in Nat /\ q \in Seq(Entry)
  BY DEF QueueInv, TypeOK
<1>2. \A i \in 1 .. Len(q) : q[i].msg \in Msg
  BY EntryType DEF QueueInv
<1>. QED BY <1>1, <1>2 DEF Abs

LEMMA PushAccepts ==
  ASSUME QueueInv, NEW m \in Msg, PushWhole(m) \/ PushSplit(m)
  PROVE  Fifo!Accept(m)
<1>1. Abs' = Append(Abs, m)
  <2>1. q' = Append(q, [msg |-> m, off |-> Size])
    BY DEF PushWhole, PushSplit, Acknowledge
  <2>2. Len(q) \in Nat /\ q \in Seq(Entry) /\ Size \in 0 .. NMAX - 1
    BY FillRange, PushCursor, LenFacts DEF QueueInv, TypeOK
  <2>3. [msg |-> m, off |-> Size] \in Entry
    BY <2>2 DEF Entry
  <2>4. /\ Len(q') = Len(q) + 1 /\ q'[Len(q) + 1].msg = m
        /\ \A i \in 1 .. Len(q) : q'[i] = q[i]
    BY <2>1, <2>2, <2>3
  <2>. QED BY <2>2, <2>4, AbsType DEF Abs
<1>2. Size + MsgLen[m] <= NMAX /\ Size' = Size + MsgLen[m]
  BY PushCursor, FillRange, LenFacts DEF QueueInv
<1>3. ret' = [val |-> MsgLen[m], bytes |-> Nothing]
  BY DEF PushWhole, PushSplit, Returned
<1>. QED BY <1>1, <1>2, <1>3 DEF Fifo!Accept, Fifo!Nothing, Nothing, Abs

LEMMA PushRefuses ==
  ASSUME QueueInv, NEW m \in Msg, PushRefused(m)
  PROVE  Fifo!Refuse(m)
<1>1. Size + MsgLen[m] > NMAX
  BY FillRange, LenFacts DEF QueueInv, PushRefused
<1>. QED BY <1>1 DEF PushRefused, Returned, Fifo!Refuse, Fifo!Nothing, Nothing, Size

LEMMA ReadReads ==
  ASSUME QueueInv, NEW moves \in BOOLEAN, NEW copies \in BOOLEAN,
         ReadHead(moves, copies)
  PROVE  Fifo!Read(moves, copies)
<1>1. /\ Size > 0 /\ w' = w
      /\ ret' = [val |-> MsgLen[q[1].msg],
                 bytes |-> IF copies THEN Bytes(q[1].msg) ELSE Nothing]
      /\ ~moves => r' = r /\ q' = q
      /\ moves => q' = Rest(q, MsgLen[q[1].msg])
  BY ReadResult
<1>2. q # <<>> /\ q[1].msg \in Msg
  BY <1>1, HeadIsOldest
<1>3. Len(q) \in Nat /\ Len(q) >= 1 /\ Abs # <<>> /\ Head(Abs) = q[1].msg
      /\ Abs \in Seq(Msg)
  BY <1>2, AbsType DEF Abs, QueueInv, TypeOK
<1>4. moves => Abs' = Tail(Abs) /\ Size' = Size - MsgLen[q[1].msg]
  <2>. SUFFICES ASSUME moves
                PROVE  Abs' = Tail(Abs) /\ Size' = Size - MsgLen[q[1].msg]
    OBVIOUS
  <2>1. ReadHead(TRUE, copies)
    BY DEF ReadHead
  <2>2. Abs' = [i \in 1 .. Len(q) - 1 |-> q[i + 1].msg]
    BY <1>1, <1>3 DEF Abs, Rest
  <2>3. Tail(Abs) = [i \in 1 .. Len(q) - 1 |-> q[i + 1].msg]
    BY <1>3, AbsType DEF Abs
  <2>. QED BY <2>1, <2>2, <2>3, ReadCursor
<1>5. ~moves => Abs' = Abs /\ Size' = Size
  BY <1>1 DEF Abs, Size
<1>6. [m \in Msg |-> Bytes(m)][Head(Abs)] = Bytes(q[1].msg)
  BY <1>2, <1>3
<1>. QED
  BY <1>1, <1>3, <1>4, <1>5, <1>6 DEF Fifo!Read, Fifo!Nothing, Nothing, Abs

LEMMA NothingReads ==
  ASSUME QueueInv, ReadNothing
  PROVE  Fifo!ReadNothing
<1>1. Size = 0
  <2>. SUFFICES ASSUME Size > 0 PROVE FALSE
    BY FillRange DEF QueueInv
  <2>1. q[1].msg \in Msg /\ MsgLen[q[1].msg] <= Size
    BY HeadIsOldest
  <2>. QED BY <2>1, LenFacts, FillRange DEF ReadNothing, QueueInv
<1>2. q = <<>>
  BY <1>1, EmptyIsDrained
<1>. QED
  BY <1>2, AbsType
  DEF ReadNothing, Returned, Fifo!ReadNothing, Fifo!Nothing, Nothing, Abs, Size

LEMMA ClearClears ==
  ASSUME Clear
  PROVE  Fifo!Clear
<1>1. Size' = 0 /\ Abs' = <<>>
  BY QueueAssumption DEF Clear, Size, SizeOf, Abs
<1>. QED BY <1>1 DEF Clear, Returned, Fifo!Clear, Fifo!Nothing, Nothing, Abs

(* Every call of the ring is a step of the FIFO of whole messages: pushes  *)
(* are accepted exactly when the bytes fit, reads return the oldest        *)
(* message byte for byte, and only an empty queue refuses a read.          *)
THEOREM RingImplementsFifo == Spec => IsFifo
<1>1. Init => Fifo!Init
  <2>. SUFFICES ASSUME Init PROVE Fifo!Init
    OBVIOUS
  <2>1. Size = 0 /\ Abs = <<>>
    BY QueueAssumption DEF Init, Size, SizeOf, Abs
  <2>. QED BY <2>1 DEF Init, Fifo!Init, Fifo!Nothing, Nothing, Abs
<1>2. QueueInv /\ [Next]_vars => [Fifo!Next]_(Fifo!vars)
  <2>. SUFFICES ASSUME QueueInv, [Next]_vars PROVE [Fifo!Next]_(Fifo!vars)
    OBVIOUS
  <2>1. ASSUME NEW m \in Msg, Push(m) PROVE Fifo!Next
    BY <2>1, PushRefuses, PushAccepts DEF Push, Fifo!Next
  <2>2. ASSUME ReadNothing PROVE Fifo!Next
    BY <2>2, NothingReads DEF Fifo!Next
  <2>3. ASSUME NEW moves \in BOOLEAN, NEW copies \in BOOLEAN,
               ReadHead(moves, copies)
        PROVE  Fifo!Next
    BY <2>3, ReadReads DEF Fifo!Next
  <2>4. CASE Clear
    BY <2>4, ClearClears DEF Fifo!Next
  <2>5. CASE UNCHANGED vars
    BY <2>5 DEF vars, Fifo!vars, Size
  <2>. QED BY <2>1, <2>2, <2>3, <2>4, <2>5 DEF Next, Pop, PopJust, Top, TopJust
<1>. QED BY <1>1, <1>2, QueueInvariant, PTL DEF Spec, IsFifo, Fifo!Spec
=============================================================================
