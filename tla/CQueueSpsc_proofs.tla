------------------------- MODULE CQueueSpsc_proofs -------------------------
(***************************************************************************)
(* Proofs about the ring that two processes use without a lock.  The       *)
(* accesses of a call are shown to amount to the call of CQueue at the     *)
(* moment it takes effect, so that the lemmas about CQueue apply to it.    *)
(***************************************************************************)
EXTENDS CQueueSpsc, TLAPS

(* The same segment with whole calls, and what is proved about them. *)
Calls == INSTANCE CQueue_proofs

PushSteps == {"copy", "rest", "store"}
ReadSteps == {"len", "len rest", "copy", "rest", "store"}
ClearSteps == {"clear r", "clear w"}

PushShape ==
  prod = [step |-> prod.step, msg |-> prod.msg, at |-> prod.at, split |-> prod.split]
ReadShape ==
  cons = [step |-> cons.step, op |-> cons.op, at |-> cons.at, wraps |-> cons.wraps,
          len |-> cons.len, got |-> cons.got]

(* A push between its load and its store: what it has loaded is still true *)
(* in the sense that matters, and what it has copied is there.             *)
PushInv ==
  /\ PushShape
  /\ prod.step \in {"idle"} \cup PushSteps \cup ClearSteps
  /\ prod.step \in PushSteps =>
       /\ prod.msg \in Msg /\ prod.at = w /\ prod.split \in BOOLEAN
       /\ Calls!Size + MsgLen[prod.msg] <= NMAX
       /\ prod.split <=> NMAX - w < MsgLen[prod.msg]
       /\ prod.split => w >= r
  /\ prod.step = "rest" => prod.split /\ buf = Copied(buf, w, prod.msg, 0, NMAX - w)
  /\ prod.step = "store" =>
       buf = IF prod.split THEN CopiedSplit(buf, w, prod.msg)
             ELSE Copied(buf, w, prod.msg, 0, MsgLen[prod.msg])

(* A read between its load and its end: the oldest message is still there, *)
(* and the branch that was taken still leads to its bytes.                 *)
ReadInv ==
  /\ ReadShape
  /\ cons.step \in {"idle"} \cup ReadSteps \cup ClearSteps
  /\ cons.step \in ReadSteps =>
       /\ q # <<>> /\ cons.at = r /\ cons.wraps \in BOOLEAN
       /\ cons.wraps => w < r
       /\ ~cons.wraps => r + MsgLen[q[1].msg] <= NMAX
  /\ HasPart => \A k \in 0 .. MsgLen[q[1].msg] - 1 :
                  r + k < NMAX => cons.got[k] = Cell(q[1].msg, k)
  /\ cons.step \in {"copy", "rest", "store"} => cons.len = MsgLen[q[1].msg]
  /\ cons.step = "store" => cons.got = Bytes(q[1].msg)

(* A process that clears the queue does so alone. *)
ClearInv ==
  /\ Clearing(prod) => cons.step = "idle"
  /\ Clearing(cons) => prod.step = "idle"
  /\ prod.step = "clear w" \/ cons.step = "clear w" => r = 0
  /\ buf \in [Positions -> {Calls!Blank} \cup (Msg \X Nat)]

SpscInv == PushInv /\ ReadInv /\ ClearInv /\ (Settled => Calls!QueueInv)

-----------------------------------------------------------------------------
(* The operators of the two instances of the ring are the same. *)

LEMMA SameSize == Ring!Size = Calls!Size /\ Ring!Size' = Calls!Size'
BY DEF Ring!Size, Calls!Size, Ring!SizeOf, Calls!SizeOf

LEMMA SizeIs ==
  /\ Calls!Size = IF w >= r THEN w - r ELSE NMAX - (r - w)
  /\ \A j : Calls!At(j) = IF r + j < NMAX THEN r + j ELSE r + j - NMAX
BY DEF Calls!Size, Calls!SizeOf, Calls!At, Calls!PosOf

(* What the ring's invariant says of the cursors. *)
LEMMA Cursors ==
  ASSUME Calls!QueueInv
  PROVE  /\ r \in 0 .. NMAX /\ w \in 0 .. NMAX /\ NMAX \in Nat \ {0}
         /\ Calls!Size \in 0 .. NMAX
         /\ buf \in [Positions -> {Calls!Blank} \cup (Msg \X Nat)]
<1>1. Calls!TypeOK
  BY DEF Calls!QueueInv
<1>2. Calls!Size \in 0 .. NMAX
  BY <1>1, Calls!FillRange, QueueAssumption, SpscAssumption
<1>. QED BY <1>1, <1>2, QueueAssumption DEF Calls!TypeOK, Calls!Positions, Positions

(* A message that fits never fills the ring. *)
LEMMA NeverFull ==
  ASSUME Calls!QueueInv, NEW m \in Msg, Calls!Size + MsgLen[m] <= NMAX
  PROVE  Calls!Size + MsgLen[m] < NMAX /\ MsgLen[m] \in Nat \ {0}
<1>1. MsgLen[m] \in Nat \ {0}
  BY QueueAssumption
<1>2. \E j \in 0 .. NMAX : Calls!Size = Granule * j
  BY DEF Calls!QueueInv, Calls!Granular
<1>3. Calls!Size + MsgLen[m] < NMAX
  BY <1>2, Cursors, Calls!GranulesAdd, QueueAssumption, SpscAssumption
<1>. QED BY <1>1, <1>3

LEMMA OldestThere ==
  ASSUME Calls!QueueInv, q # <<>>
  PROVE  /\ Calls!Size > 0 /\ q[1].msg \in Msg /\ MsgLen[q[1].msg] <= Calls!Size
         /\ MsgLen[q[1].msg] \in Nat \ {0} /\ MsgLen[q[1].msg] >= HDR
         /\ \A k \in 0 .. MsgLen[q[1].msg] - 1 : Calls!Fetch(k) = Cell(q[1].msg, k)
         /\ Calls!HeadLens = {MsgLen[q[1].msg]}
<1>1. Calls!Size > 0
  BY Cursors, Calls!EmptyIsDrained, QueueAssumption, SpscAssumption
<1>2. /\ q[1].msg \in Msg /\ MsgLen[q[1].msg] <= Calls!Size
      /\ \A k \in 0 .. MsgLen[q[1].msg] - 1 : Calls!Fetch(k) = Calls!Cell(q[1].msg, k)
      /\ Calls!HeadLens = {MsgLen[q[1].msg]}
  BY <1>1, Calls!HeadIsOldest, QueueAssumption, SpscAssumption
<1>. QED BY <1>1, <1>2, QueueAssumption DEF Calls!Cell, Cell

LEMMA Within ==
  ASSUME NEW o \in Nat, NEW n \in Nat, NEW s \in Nat, o + n <= s, NEW k \in 0 .. n - 1
  PROVE  o + k \in 0 .. s - 1
OBVIOUS

(* Bytes that are not pending may change. *)
LEMMA OutsideKeeps ==
  ASSUME Calls!QueueInv, UNCHANGED <<r, w, q, ret>>,
         buf' \in [Positions -> {Calls!Blank} \cup (Msg \X Nat)],
         \A j \in 0 .. Calls!Size - 1 : buf'[Calls!At(j)] = buf[Calls!At(j)]
  PROVE  Calls!QueueInv'
<1>1. Calls!TypeOK /\ Calls!Layout /\ Calls!Granular
  BY DEF Calls!QueueInv
<1>2. Calls!TypeOK'
  BY <1>1 DEF Calls!TypeOK, Calls!Positions, Positions
<1>3. Calls!Size' = Calls!Size /\ \A j : Calls!At(j)' = Calls!At(j)
  BY DEF Calls!Size, Calls!At
<1>4. Calls!Granular'
  BY <1>1, <1>3 DEF Calls!Granular
<1>5. ASSUME NEW i \in 1 .. Len(q), NEW k \in 0 .. MsgLen[q[i].msg] - 1
      PROVE  buf'[Calls!At(q[i].off + k)] = buf[Calls!At(q[i].off + k)]
  <2>1. q[i].msg \in Msg /\ q[i].off \in Nat
    BY <1>1, Calls!EntryType, QueueAssumption, SpscAssumption
  <2>2. q[i].off + MsgLen[q[i].msg] <= Calls!Size
    BY <1>1 DEF Calls!Layout, Calls!EndOf
  <2>3. MsgLen[q[i].msg] \in Nat /\ Calls!Size \in Nat
    BY <2>1, Cursors, QueueAssumption
  <2>. DEFINE o == q[i].off  n == MsgLen[q[i].msg]  s == Calls!Size
  <2>4. o \in Nat /\ n \in Nat /\ s \in Nat /\ o + n <= s /\ k \in 0 .. n - 1
    BY <2>1, <2>2, <2>3
  <2>. HIDE DEF o, n, s
  <2>5. o + k \in 0 .. s - 1
    BY <2>4, Within
  <2>. QED BY <2>5 DEF o, s
<1>6. Calls!Layout'
  BY <1>1, <1>3, <1>5 DEF Calls!Layout, Calls!EndOf, Calls!Cell
<1>. QED BY <1>2, <1>4, <1>6 DEF Calls!QueueInv

LEMMA InCall ==
  ASSUME SpscInv, prod.step \in PushSteps
  PROVE  Settled /\ Calls!QueueInv
<1>1. ~Clearing(prod) /\ ~Clearing(cons)
  BY DEF SpscInv, ClearInv, Clearing, PushSteps
<1>. QED BY <1>1 DEF SpscInv, Settled

LEMMA InRead ==
  ASSUME SpscInv, cons.step \in ReadSteps
  PROVE  Settled /\ Calls!QueueInv
<1>1. ~Clearing(prod) /\ ~Clearing(cons)
  BY DEF SpscInv, ClearInv, Clearing, ReadSteps
<1>. QED BY <1>1 DEF SpscInv, Settled

(* The copies of a push have the type of a ring. *)
LEMMA CopiedType ==
  ASSUME NEW b \in [Positions -> {Calls!Blank} \cup (Msg \X Nat)], NEW m \in Msg,
         NEW p \in Nat, NEW from \in Nat, NEW count \in Int
  PROVE  Copied(b, p, m, from, count) \in [Positions -> {Calls!Blank} \cup (Msg \X Nat)]
<1>1. ASSUME NEW x \in Positions, p <= x
      PROVE  Cell(m, x - p + from) \in Msg \X Nat
  <2>1. x - p + from \in Nat
    BY <1>1, QueueAssumption DEF Positions
  <2>. QED BY <2>1 DEF Cell
<1>. QED BY <1>1 DEF Copied

(* What a push copies lies outside the pending bytes. *)
LEMMA FreeArith ==
  ASSUME NEW a \in 0 .. NMAX, NEW b \in 0 .. NMAX, NEW len \in Nat, NMAX \in Nat,
         SizeOf(a, b) + len <= NMAX, NEW j \in 0 .. SizeOf(a, b) - 1
  PROVE  /\ PosOf(a, j) \in Positions
         /\ (NMAX - b >= len \/ b < a) => ~(b <= PosOf(a, j) /\ PosOf(a, j) < b + len)
         /\ b >= a => PosOf(a, j) < b
         /\ (b >= a /\ NMAX - b < len) => PosOf(a, j) >= len - (NMAX - b)
BY DEF SizeOf, PosOf, Positions

(* Copying again what was copied changes nothing. *)
LEMMA CopiedTwice ==
  ASSUME NEW b, NEW p, NEW m, NEW from, NEW count
  PROVE  Copied(Copied(b, p, m, from, count), p, m, from, count)
           = Copied(b, p, m, from, count)
BY DEF Copied

LEMMA SplitTwice ==
  ASSUME NEW b, NEW p \in 0 .. NMAX, NEW m \in Msg, NMAX - p < MsgLen[m],
         MsgLen[m] <= NMAX, NMAX \in Nat, MsgLen[m] \in Nat,
         MsgLen[m] - (NMAX - p) <= p,
         b = Copied(b, p, m, 0, NMAX - p),
         NEW c, c = Copied(b, 0, m, NMAX - p, MsgLen[m] - (NMAX - p))
  PROVE  c = CopiedSplit(c, p, m)
<1>. DEFINE n == MsgLen[m] - (NMAX - p)
<1>1. n <= p
  OBVIOUS
<1>2. \A x \in Positions : x >= p => b[x] = Cell(m, x - p)
  BY DEF Copied, Positions
<1>3. \A x \in Positions : x >= p => c[x] = b[x]
  BY <1>1 DEF Copied, Positions
<1>4. \A x \in Positions : x < n => c[x] = Cell(m, x + (NMAX - p))
  BY DEF Copied, Positions
<1>5. \A x \in Positions : CopiedSplit(c, p, m)[x] = c[x]
  BY <1>1, <1>2, <1>3, <1>4 DEF CopiedSplit, Copied, Positions
<1>. QED BY <1>5 DEF CopiedSplit, Copied

-----------------------------------------------------------------------------
(* One lemma for each step. *)

(* A process that is not in a push, or not in a read, claims nothing. *)
LEMMA NoPush ==
  ASSUME prod'.step \in {"idle"} \cup ClearSteps,
         PushShape'
  PROVE  PushInv'
<1>1. prod'.step \in {"idle"} \cup PushSteps \cup ClearSteps
  OBVIOUS
<1>2. prod'.step \notin PushSteps
  BY DEF PushSteps, ClearSteps
<1>3. prod'.step # "rest" /\ prod'.step # "store"
  BY <1>2 DEF PushSteps
<1>. QED BY <1>1, <1>2, <1>3 DEF PushInv

LEMMA NoRead ==
  ASSUME cons'.step \in {"idle"} \cup ClearSteps,
         ReadShape'
  PROVE  ReadInv'
<1>1. cons'.step \in {"idle"} \cup ReadSteps \cup ClearSteps
  OBVIOUS
<1>2. cons'.step \notin ReadSteps
  BY DEF ReadSteps, ClearSteps
<1>3. cons'.step \notin {"copy", "rest", "store"} /\ ~HasPart'
  BY <1>2 DEF ReadSteps, HasPart
<1>. QED BY <1>1, <1>2, <1>3 DEF ReadInv

LEMMA PushLoadInv ==
  ASSUME Quiet, SpscInv, NEW m \in Msg, PushLoad(m)
  PROVE  SpscInv'
<1>1. Settled /\ Settled' /\ Calls!QueueInv /\ r' = r /\ w' = w /\ buf' = buf /\ q' = q
      /\ cons' = cons /\ ~Clearing(prod')
  <2>1. Settled /\ Calls!QueueInv
    BY DEF PushLoad, MayCall, Settled, SpscInv
  <2>2. r' = r /\ w' = w /\ buf' = buf /\ q' = q /\ cons' = cons
    BY DEF PushLoad, shared
  <2>3. prod'.step = "copy" \/ prod' = prod
    BY DEF PushLoad
  <2>4. ~Clearing(prod')
    BY <2>1, <2>3 DEF Settled, Clearing
  <2>. QED BY <2>1, <2>2, <2>4 DEF Settled
<1>2. ret' = ret \/ ret'.val = -1
  BY DEF PushLoad, Ring!Returned
<1>3. Calls!QueueInv'
  BY <1>1, <1>2, Calls!UnchangedInv, QueueAssumption, SpscAssumption
<1>4. Calls!Size' = Calls!Size
  BY <1>1 DEF Calls!Size
<1>5. PushInv'
  <2>1. CASE Fits(m)
    <3>1. prod' = [step |-> "copy", msg |-> m, at |-> w,
                   split |-> w >= r /\ NMAX - w < MsgLen[m]]
      BY <2>1 DEF PushLoad
    <3>2. Calls!Size + MsgLen[m] <= NMAX
      BY <1>1, <2>1, SameSize, Cursors, QueueAssumption DEF Fits
    <3>3. (w >= r /\ NMAX - w < MsgLen[m]) <=> NMAX - w < MsgLen[m]
      BY <1>1, <3>2, SizeIs, Cursors, QueueAssumption
    <3>. QED BY <1>1, <1>4, <3>1, <3>2, <3>3 DEF PushInv, PushShape, PushSteps, ClearSteps
  <2>2. CASE ~Fits(m)
    BY <1>1, <2>2 DEF PushLoad, PushInv, PushShape, SpscInv, PushSteps
  <2>. QED BY <2>1, <2>2
<1>6. ReadInv' /\ ClearInv'
  BY <1>1 DEF SpscInv, ReadInv, HasPart, ReadShape, ClearInv, Settled, Clearing
<1>. QED BY <1>3, <1>5, <1>6 DEF SpscInv

LEMMA PushCopyInv ==
  ASSUME SpscInv, PushCopy
  PROVE  SpscInv'
<1>. DEFINE m == prod.msg  len == MsgLen[m]  n == IF prod.split THEN ToEnd ELSE len
<1>1. prod.step = "copy" /\ prod.step \in PushSteps
  BY DEF PushCopy, PushSteps
<1>2. Settled /\ Calls!QueueInv
  BY <1>1, InCall
<1>3. /\ prod = [step |-> "copy", msg |-> m, at |-> w, split |-> prod.split]
      /\ m \in Msg /\ prod.at = w /\ prod.split \in BOOLEAN
      /\ Calls!Size + len <= NMAX /\ (prod.split <=> NMAX - w < len)
      /\ prod.split => w >= r
  BY <1>1 DEF SpscInv, PushInv, PushShape
<1>4. /\ r \in 0 .. NMAX /\ w \in 0 .. NMAX /\ NMAX \in Nat \ {0} /\ len \in Nat
      /\ buf \in [Positions -> {Calls!Blank} \cup (Msg \X Nat)]
  BY <1>2, <1>3, Cursors, QueueAssumption
<1>5. buf' = Copied(buf, w, m, 0, n) /\ n \in Nat
      /\ r' = r /\ w' = w /\ cons' = cons /\ q' = q /\ ret' = ret
  BY <1>3, <1>4 DEF PushCopy, ToEnd
<1>6. buf' \in [Positions -> {Calls!Blank} \cup (Msg \X Nat)]
  <2>1. m \in Msg /\ w \in Nat /\ 0 \in Nat /\ n \in Int
    BY <1>3, <1>4, <1>5
  <2>. HIDE DEF m, n
  <2>. QED BY <1>4, <1>5, <2>1, CopiedType
<1>7. ASSUME NEW j \in 0 .. Calls!Size - 1
      PROVE  buf'[Calls!At(j)] = buf[Calls!At(j)]
  <2>1. PosOf(r, j) \in Positions /\ ~(w <= PosOf(r, j) /\ PosOf(r, j) < w + n)
    <3>1. SizeOf(r, w) + len <= NMAX /\ j \in 0 .. SizeOf(r, w) - 1
      BY <1>3 DEF Calls!Size, Calls!SizeOf, SizeOf
    <3>2. /\ PosOf(r, j) \in Positions
          /\ (NMAX - w >= len \/ w < r) => ~(w <= PosOf(r, j) /\ PosOf(r, j) < w + len)
          /\ w >= r => PosOf(r, j) < w
      BY <1>4, <3>1, FreeArith
    <3>3. PosOf(r, j) \in Int
      BY <1>4, <3>2 DEF Positions
    <3>4. CASE prod.split
      BY <1>3, <1>4, <3>2, <3>3, <3>4
    <3>5. CASE ~prod.split
      BY <1>3, <1>4, <3>2, <3>3, <3>5
    <3>. QED BY <3>4, <3>5
  <2>. QED BY <1>5, <2>1 DEF Copied, Calls!At, Calls!PosOf, PosOf
<1>8. Calls!QueueInv'
  BY <1>2, <1>5, <1>6, <1>7, OutsideKeeps
<1>9. prod' = [step |-> IF prod.split THEN "rest" ELSE "store", msg |-> m, at |-> w,
               split |-> prod.split]
  BY <1>1, <1>3 DEF PushCopy, PushAdvances, After
<1>10. Copied(buf', w, m, 0, n) = buf'
  BY <1>5, CopiedTwice
<1>11. PushInv'
  <2>1. Calls!Size' = Calls!Size
    BY <1>5 DEF Calls!Size
  <2>2. CASE prod.split
    BY <1>3, <1>5, <1>9, <1>10, <2>1, <2>2 DEF PushInv, PushShape, PushSteps, ToEnd
  <2>3. CASE ~prod.split
    BY <1>3, <1>5, <1>9, <1>10, <2>1, <2>3 DEF PushInv, PushShape, PushSteps
  <2>. QED BY <1>3, <2>2, <2>3
<1>12. ReadInv' /\ ClearInv'
  BY <1>1, <1>5, <1>6, <1>9 DEF SpscInv, ReadInv, HasPart, ReadShape, ClearInv, Clearing
<1>. QED BY <1>8, <1>11, <1>12 DEF SpscInv

LEMMA PushRestInv ==
  ASSUME SpscInv, PushRest
  PROVE  SpscInv'
<1>. DEFINE m == prod.msg  len == MsgLen[m]
<1>1. prod.step = "rest" /\ prod.step \in PushSteps
  BY DEF PushRest, PushSteps
<1>2. Settled /\ Calls!QueueInv
  BY <1>1, InCall
<1>3. /\ prod = [step |-> "rest", msg |-> m, at |-> w, split |-> TRUE]
      /\ m \in Msg /\ prod.at = w /\ prod.split
      /\ Calls!Size + len <= NMAX /\ NMAX - w < len /\ w >= r
      /\ buf = Copied(buf, w, m, 0, NMAX - w)
  <2>1. prod.split /\ prod.split \in BOOLEAN
    BY <1>1 DEF SpscInv, PushInv, PushShape
  <2>. QED BY <1>1, <2>1 DEF SpscInv, PushInv, PushShape
<1>4. /\ r \in 0 .. NMAX /\ w \in 0 .. NMAX /\ NMAX \in Nat \ {0} /\ len \in Nat
      /\ Calls!Size \in 0 .. NMAX
      /\ buf \in [Positions -> {Calls!Blank} \cup (Msg \X Nat)]
  BY <1>2, <1>3, Cursors, QueueAssumption
<1>5. buf' = Copied(buf, 0, m, NMAX - w, len - (NMAX - w))
      /\ r' = r /\ w' = w /\ cons' = cons /\ q' = q /\ ret' = ret
  BY <1>3 DEF PushRest, ToEnd
<1>6. buf' \in [Positions -> {Calls!Blank} \cup (Msg \X Nat)]
  <2>. DEFINE from == NMAX - w  count == len - (NMAX - w)
  <2>1. m \in Msg /\ 0 \in Nat /\ from \in Nat /\ count \in Int
    BY <1>3, <1>4
  <2>2. buf' = Copied(buf, 0, m, from, count)
    BY <1>5
  <2>. HIDE DEF m, from, count
  <2>. QED BY <1>4, <2>1, <2>2, CopiedType
<1>7. ASSUME NEW j \in 0 .. Calls!Size - 1
      PROVE  buf'[Calls!At(j)] = buf[Calls!At(j)]
  <2>1. SizeOf(r, w) + len <= NMAX /\ j \in 0 .. SizeOf(r, w) - 1
    BY <1>3 DEF Calls!Size, Calls!SizeOf, SizeOf
  <2>2. PosOf(r, j) \in Positions /\ PosOf(r, j) >= len - (NMAX - w)
    BY <1>3, <1>4, <2>1, FreeArith
  <2>3. PosOf(r, j) \in Int /\ len - (NMAX - w) \in Int
    BY <1>4, <2>2 DEF Positions
  <2>4. ~(PosOf(r, j) < 0 + (len - (NMAX - w)))
    BY <2>2, <2>3
  <2>. QED BY <1>5, <2>2, <2>4 DEF Copied, Calls!At, Calls!PosOf, PosOf
<1>8. Calls!QueueInv'
  BY <1>2, <1>5, <1>6, <1>7, OutsideKeeps
<1>9. prod' = [step |-> "store", msg |-> m, at |-> w, split |-> TRUE]
  BY <1>1, <1>3 DEF PushRest, PushAdvances, After
<1>10. buf' = CopiedSplit(buf', w, m)
  <2>1. len <= NMAX /\ len - (NMAX - w) <= w
    BY <1>3, <1>4
  <2>2. m \in Msg /\ NMAX - w < MsgLen[m] /\ NMAX \in Nat /\ MsgLen[m] \in Nat
        /\ buf = Copied(buf, w, m, 0, NMAX - w)
        /\ buf' = Copied(buf, 0, m, NMAX - w, MsgLen[m] - (NMAX - w))
        /\ MsgLen[m] <= NMAX /\ MsgLen[m] - (NMAX - w) <= w
    BY <1>3, <1>4, <1>5, <2>1
  <2>. HIDE DEF m
  <2>. QED BY <1>4, <2>2, SplitTwice
<1>11. PushInv'
  <2>1. Calls!Size' = Calls!Size
    BY <1>5 DEF Calls!Size
  <2>. QED BY <1>3, <1>5, <1>9, <1>10, <2>1 DEF PushInv, PushShape, PushSteps
<1>12. ReadInv' /\ ClearInv'
  BY <1>1, <1>5, <1>6, <1>9 DEF SpscInv, ReadInv, HasPart, ReadShape, ClearInv, Clearing
<1>. QED BY <1>8, <1>11, <1>12 DEF SpscInv

(* The store of the cursor is the push of CQueue: what a pushing process    *)
(* decided and copied since its load is what it would decide and copy now. *)
LEMMA StoreIsPush ==
  ASSUME SpscInv, PushStore
  PROVE  /\ Settled /\ Calls!QueueInv
         /\ \E m \in Msg : m = prod.msg /\ (Calls!PushWhole(m) \/ Calls!PushSplit(m))
<1>0. PICK m \in Msg : m = prod.msg
  <2>1. prod.step \in PushSteps
    BY DEF PushStore, PushSteps
  <2>. QED BY <2>1 DEF SpscInv, PushInv
<1>. DEFINE len == MsgLen[m]
<1>1. prod.step = "store" /\ prod.step \in PushSteps
  BY DEF PushStore, PushSteps
<1>2. Settled /\ Calls!QueueInv
  BY <1>1, InCall
<1>3. /\ prod.at = w /\ prod.split \in BOOLEAN
      /\ Calls!Size + len <= NMAX /\ (prod.split <=> NMAX - w < len)
      /\ prod.split => w >= r
      /\ buf = IF prod.split THEN CopiedSplit(buf, w, m) ELSE Copied(buf, w, m, 0, len)
  BY <1>0, <1>1 DEF SpscInv, PushInv
<1>4. /\ r \in 0 .. NMAX /\ w \in 0 .. NMAX /\ NMAX \in Nat \ {0} /\ len \in Nat
      /\ Calls!Size \in 0 .. NMAX
  BY <1>2, <1>3, Cursors, QueueAssumption
<1>5. /\ w' = IF prod.split THEN len - (NMAX - w) ELSE w + len
      /\ q' = Append(q, [msg |-> m, off |-> Calls!Size])
      /\ ret' = [val |-> len, bytes |-> <<>>]
      /\ r' = r /\ buf' = buf
  BY <1>0, <1>3, SameSize DEF PushStore, ToEnd, Ring!Acknowledge, Ring!Returned, Ring!Nothing
<1>6. NMAX - Calls!Size >= len
  BY <1>3, <1>4
<1>7. CASE prod.split
  <2>1. w >= r /\ NMAX - w < len /\ buf' = CopiedSplit(buf, w, m)
        /\ w' = len - (NMAX - w)
    BY <1>3, <1>5, <1>7
  <2>. QED BY <1>0, <1>2, <1>3, <1>5, <1>6, <2>1 DEF Calls!PushSplit, Calls!Acknowledge,
         Calls!Returned, Calls!Nothing, Calls!CopiedSplit, CopiedSplit, Calls!Copied,
         Copied, Calls!Cell, Cell, Calls!Positions, Positions
<1>8. CASE ~prod.split
  <2>1. NMAX - w >= len /\ buf' = Copied(buf, w, m, 0, len) /\ w' = w + len
    BY <1>3, <1>4, <1>5, <1>8
  <2>. QED BY <1>0, <1>2, <1>3, <1>5, <1>6, <2>1 DEF Calls!PushWhole, Calls!Acknowledge,
         Calls!Returned, Calls!Nothing, Calls!Copied, Copied, Calls!Cell, Cell,
         Calls!Positions, Positions
<1>. QED BY <1>0, <1>2, <1>3, <1>7, <1>8

LEMMA PushStoreInv ==
  ASSUME SpscInv, PushStore
  PROVE  SpscInv'
<1>1. PICK m \in Msg : /\ Settled /\ Calls!QueueInv /\ m = prod.msg
                       /\ Calls!PushWhole(m) \/ Calls!PushSplit(m)
  BY StoreIsPush
<1>. DEFINE len == MsgLen[m]
<1>2. Calls!QueueInv'
  BY <1>1, Calls!PushPreserves, QueueAssumption, SpscAssumption
<1>3. /\ r' = r /\ cons' = cons /\ q' = Append(q, [msg |-> m, off |-> Ring!Size])
      /\ prod.step = "store"
  BY <1>1 DEF PushStore, Ring!Acknowledge
<1>4. prod' = Producer
  BY <1>3 DEF PushStore, PushAdvances, After
<1>5. PushInv'
  BY <1>4 DEF PushInv, PushShape, Producer, PushSteps, ClearSteps
<1>6. buf' \in [Positions -> {Calls!Blank} \cup (Msg \X Nat)]
  BY <1>2 DEF Calls!QueueInv, Calls!TypeOK, Calls!Positions, Positions
<1>7. ClearInv'
  BY <1>3, <1>4, <1>6 DEF SpscInv, ClearInv, Clearing, Producer
<1>8. ReadInv'
  <2>1. q \in Seq(Calls!Entry)
    BY <1>1 DEF Calls!QueueInv, Calls!TypeOK
  <2>2. ASSUME q # <<>> PROVE q' # <<>> /\ q'[1] = q[1]
    BY <1>3, <2>1, <2>2
  <2>3. ASSUME cons.step \in ReadSteps, cons.wraps PROVE w' < r
    <3>1. w < r
      BY <2>3 DEF SpscInv, ReadInv, HasPart, ReadShape
    <3>2. Calls!Size + len < NMAX
      BY <1>1, Calls!PushCursor, QueueAssumption, SpscAssumption
    <3>3. Calls!PushWhole(m) /\ w' = w + len
      BY <1>1, <3>1, Cursors DEF Calls!PushWhole, Calls!PushSplit
    <3>. QED BY <1>1, <3>1, <3>2, <3>3, SizeIs, Cursors, QueueAssumption
  <2>. QED BY <1>3, <2>2, <2>3 DEF SpscInv, ReadInv, HasPart, ReadShape, ReadSteps
<1>. QED BY <1>2, <1>5, <1>7, <1>8 DEF SpscInv

LEMMA ReadLoadInv ==
  ASSUME Quiet, SpscInv, NEW op, ReadLoad(op)
  PROVE  SpscInv'
<1>1. Settled /\ Settled' /\ Calls!QueueInv /\ r' = r /\ w' = w /\ buf' = buf /\ q' = q
      /\ prod' = prod /\ ~Clearing(cons')
  <2>1. Settled /\ Calls!QueueInv
    BY DEF ReadLoad, MayCall, Settled, SpscInv
  <2>2. r' = r /\ w' = w /\ buf' = buf /\ q' = q /\ prod' = prod
    BY DEF ReadLoad, shared
  <2>3. cons'.step = "len" \/ cons' = cons
    BY DEF ReadLoad, Consumer
  <2>4. ~Clearing(cons')
    BY <2>1, <2>3 DEF Settled, Clearing
  <2>. QED BY <2>1, <2>2, <2>4 DEF Settled
<1>2. ret' = ret \/ ret'.val = -1
  BY DEF ReadLoad, Ring!Returned
<1>3. Calls!QueueInv'
  BY <1>1, <1>2, Calls!UnchangedInv, QueueAssumption, SpscAssumption
<1>4. PushInv' /\ ClearInv'
  BY <1>1 DEF SpscInv, PushInv, PushShape, ClearInv, Settled, Clearing, Calls!Size
<1>5. ReadInv'
  <2>1. CASE HasHead
    <3>1. cons' = [step |-> "len", op |-> op, at |-> r, wraps |-> w < r,
                   len |-> 0, got |-> <<>>]
      BY <2>1 DEF ReadLoad, Consumer
    <3>2. Calls!Size > 0
      BY <1>1, <2>1, SameSize, Cursors, QueueAssumption DEF HasHead
    <3>3. q # <<>>
      BY <1>1, <3>2, Calls!EmptyIsDrained, QueueAssumption, SpscAssumption
    <3>4. ASSUME ~(w < r) PROVE r + MsgLen[q[1].msg] <= NMAX
      BY <1>1, <3>3, <3>4, OldestThere, SizeIs, Cursors
    <3>5. /\ cons'.step = "len" /\ cons'.at = r /\ cons'.wraps \in BOOLEAN
          /\ cons'.wraps <=> w < r
          /\ cons' = [step |-> cons'.step, op |-> cons'.op, at |-> cons'.at,
                      wraps |-> cons'.wraps, len |-> cons'.len, got |-> cons'.got]
      <4>. DEFINE b == w < r
      <4>1. b \in BOOLEAN /\ (b <=> w < r)
        OBVIOUS
      <4>2. cons' = [step |-> "len", op |-> op, at |-> r, wraps |-> b,
                     len |-> 0, got |-> <<>>]
        BY <3>1
      <4>. HIDE DEF b
      <4>. QED BY <4>1, <4>2
    <3>. QED BY <1>1, <3>3, <3>4, <3>5 DEF ReadInv, HasPart, ReadShape, ReadSteps, ClearSteps
  <2>2. CASE ~HasHead
    BY <1>1, <2>2 DEF ReadLoad, ReadInv, HasPart, ReadShape, SpscInv, ReadSteps
  <2>. QED BY <2>1, <2>2
<1>. QED BY <1>3, <1>4, <1>5 DEF SpscInv

(* What a reader fetches by the branch it took when it loaded the cursors. *)
LEMMA FetchedIs ==
  ASSUME SpscInv, cons.step \in ReadSteps
  PROVE  /\ Settled /\ Calls!QueueInv /\ q # <<>>
         /\ \A k \in 0 .. MsgLen[q[1].msg] - 1 :
              Fetched(k) = Calls!Fetch(k) /\ Fetched(k) = Cell(q[1].msg, k)
         /\ FetchedLens = {MsgLen[q[1].msg]}
<1>. DEFINE len == MsgLen[q[1].msg]
<1>1. Settled /\ Calls!QueueInv
  BY InRead
<1>2. q # <<>> /\ cons.at = r /\ cons.wraps \in BOOLEAN
      /\ (cons.wraps => w < r) /\ (~cons.wraps => r + len <= NMAX)
  BY DEF SpscInv, ReadInv, HasPart, ReadShape
<1>3. /\ len \in Nat \ {0} /\ len >= HDR
      /\ \A k \in 0 .. len - 1 : Calls!Fetch(k) = Cell(q[1].msg, k)
      /\ Calls!HeadLens = {len}
  BY <1>1, <1>2, OldestThere
<1>4. r \in 0 .. NMAX /\ NMAX \in Nat /\ w \in 0 .. NMAX /\ HDR \in Nat \ {0}
  BY <1>1, Cursors, QueueAssumption
<1>5. ASSUME NEW k \in 0 .. len - 1 PROVE Fetched(k) = Calls!Fetch(k)
  <2>1. k \in Int
    BY <1>3
  <2>2. InRing(k) = Calls!Fetch(k)
    <3>1. CASE cons.wraps
      <4>1. w < r
        BY <1>2, <3>1
      <4>2. CASE r + k >= NMAX
        BY <1>2, <1>4, <2>1, <3>1, <4>1, <4>2 DEF InRing, Calls!Fetch
      <4>3. CASE ~(r + k >= NMAX)
        BY <1>2, <3>1, <4>1, <4>3 DEF InRing, Calls!Fetch
      <4>. QED BY <4>2, <4>3
    <3>2. CASE ~cons.wraps
      <4>1. ~(r + k >= NMAX)
        BY <1>2, <1>3, <1>4, <2>1, <3>2
      <4>. QED BY <1>2, <3>2, <4>1 DEF InRing, Calls!Fetch
    <3>. QED BY <1>2, <3>1, <3>2
  <2>3. CASE HasPart /\ cons.at + k < NMAX
    <3>1. cons.got[k] = Cell(q[1].msg, k)
      BY <1>2, <2>3 DEF SpscInv, ReadInv
    <3>. QED BY <1>3, <2>3, <3>1 DEF Fetched
  <2>. QED BY <2>2, <2>3 DEF Fetched
<1>6. FetchedLens = Calls!HeadLens
  <2>1. \A k \in 0 .. HDR - 1 : k \in 0 .. len - 1
    BY <1>3, <1>4
  <2>. QED BY <1>5, <2>1 DEF FetchedLens, Calls!HeadLens, Calls!Cell, Cell
<1>. QED BY <1>1, <1>2, <1>3, <1>5, <1>6

(* The first of two memcpys brings bytes of the oldest message. *)
LEMMA ReadPartInv ==
  ASSUME SpscInv, ReadPart
  PROVE  SpscInv'
<1>. DEFINE len == MsgLen[q[1].msg]
            part == [k \in 0 .. NMAX - cons.at - 1 |-> Fetched(k)]
<1>1. /\ cons.step = "len" \/ cons.step = "copy"
      /\ cons.step \in ReadSteps
  BY DEF ReadPart, ReadSteps
<1>2. Settled /\ Calls!QueueInv /\ q # <<>> /\ cons.at = r
      /\ \A k \in 0 .. len - 1 : Fetched(k) = Cell(q[1].msg, k)
  BY <1>1, FetchedIs DEF SpscInv, ReadInv
<1>3. r' = r /\ w' = w /\ buf' = buf /\ q' = q /\ prod' = prod /\ ret' = ret
  BY DEF ReadPart, shared
<1>4. PICK step : /\ cons' = [cons EXCEPT !.step = step, !.got = part]
                  /\ \/ cons.step = "len" /\ step = "len rest"
                     \/ cons.step = "copy" /\ step = "rest"
  BY DEF ReadPart, PartTo
<1>5. cons' = [step |-> step, op |-> cons.op, at |-> cons.at, wraps |-> cons.wraps,
               len |-> cons.len, got |-> part]
  BY <1>4 DEF SpscInv, ReadInv, ReadShape
<1>6. ASSUME NEW k \in 0 .. len - 1, r + k < NMAX
      PROVE  part[k] = Cell(q[1].msg, k)
  <2>1. r \in 0 .. NMAX /\ NMAX \in Nat /\ len \in Nat
    BY <1>2, Cursors, OldestThere
  <2>2. k \in 0 .. NMAX - cons.at - 1
    BY <1>2, <1>6, <2>1
  <2>. QED BY <1>2, <2>2
<1>7. Calls!QueueInv'
  BY <1>2, <1>3, Calls!UnchangedInv, QueueAssumption, SpscAssumption
<1>8. PushInv'
  BY <1>3 DEF SpscInv, PushInv, PushShape, Calls!Size
<1>9. ReadInv'
  <2>. HIDE DEF part
  <2>1. /\ cons'.step = step /\ cons'.at = cons.at /\ cons'.wraps = cons.wraps
        /\ cons'.len = cons.len /\ cons'.got = part
        /\ ReadShape'
    BY <1>5 DEF ReadShape
  <2>2. cons'.step \in ReadSteps /\ cons'.step # "store"
    BY <1>4, <2>1 DEF ReadSteps
  <2>3. /\ cons.wraps \in BOOLEAN /\ (cons.wraps => w < r)
        /\ (~cons.wraps => r + len <= NMAX)
        /\ (cons.step = "copy" => cons.len = len)
    BY <1>1 DEF SpscInv, ReadInv
  <2>4. cons'.step \in {"copy", "rest", "store"} => cons'.len = len
    BY <1>4, <2>1, <2>3
  <2>5. \A k \in 0 .. len - 1 : r + k < NMAX => cons'.got[k] = Cell(q[1].msg, k)
    BY <1>6, <2>1
  <2>. QED BY <1>2, <1>3, <2>1, <2>2, <2>3, <2>4, <2>5 DEF ReadInv
<1>10. ClearInv'
  <2>1. ~Clearing(prod) /\ ~Clearing(cons) /\ ~Clearing(cons')
    BY <1>2, <1>4, <1>5 DEF Settled, Clearing
  <2>. QED BY <1>3, <2>1 DEF SpscInv, ClearInv, Clearing
<1>. QED BY <1>7, <1>8, <1>9, <1>10 DEF SpscInv

LEMMA ReadLenInv ==
  ASSUME SpscInv, ReadLen
  PROVE  SpscInv'
<1>. DEFINE len == MsgLen[q[1].msg]
<1>1. cons.step \in {"len", "len rest"} /\ cons.step \in ReadSteps
  BY DEF ReadLen, ReadSteps
<1>2. Settled /\ Calls!QueueInv /\ q # <<>> /\ FetchedLens = {len}
  BY <1>1, FetchedIs
<1>3. r' = r /\ w' = w /\ buf' = buf /\ q' = q /\ prod' = prod
  BY DEF ReadLen, shared
<1>4. \/ cons' = Consumer /\ ret' = [val |-> len, bytes |-> <<>>]
      \/ cons' = [cons EXCEPT !.step = "copy", !.len = len] /\ ret' = ret
  BY <1>2 DEF ReadLen, Ring!Returned, Ring!Nothing
<1>5. Calls!QueueInv'
  <2>1. CASE ret' = ret
    BY <1>2, <1>3, <2>1, Calls!UnchangedInv, QueueAssumption, SpscAssumption
  <2>2. CASE ret' = [val |-> len, bytes |-> <<>>]
    <3>1. len \in Nat
      BY <1>2, OldestThere
    <3>2. Calls!TypeOK'
      BY <1>2, <1>3, <2>2, <3>1 DEF Calls!QueueInv, Calls!TypeOK
    <3>3. Calls!Granular' /\ Calls!Layout'
      BY <1>2, <1>3 DEF Calls!QueueInv, Calls!Granular, Calls!Layout, Calls!Size,
         Calls!At, Calls!EndOf
    <3>. QED BY <3>2, <3>3 DEF Calls!QueueInv
  <2>. QED BY <1>4, <2>1, <2>2
<1>6. PushInv'
  BY <1>3 DEF SpscInv, PushInv, PushShape, Calls!Size
<1>7. cons' = Consumer
      \/ cons' = [step |-> "copy", op |-> cons.op, at |-> cons.at, wraps |-> cons.wraps,
                  len |-> len, got |-> cons.got]
  BY <1>4 DEF SpscInv, ReadInv, HasPart, ReadShape
<1>8. ReadInv' /\ ClearInv'
  <2>1. ~Clearing(prod) /\ ~Clearing(cons) /\ ~Clearing(cons')
    <3>1. cons'.step = "idle" \/ cons'.step = "copy"
      BY <1>7 DEF Consumer
    <3>2. ~Clearing(cons')
      BY <3>1 DEF Clearing
    <3>. QED BY <1>2, <3>2 DEF Settled
  <2>2. ClearInv'
    BY <1>3, <2>1 DEF SpscInv, ClearInv, Clearing
  <2>3. CASE cons' = Consumer
    BY <2>2, <2>3 DEF ReadInv, HasPart, ReadShape, Consumer, ReadSteps
  <2>4. CASE cons' = [step |-> "copy", op |-> cons.op, at |-> cons.at,
                      wraps |-> cons.wraps, len |-> len, got |-> cons.got]
    <3>1. /\ cons'.step = "copy" /\ cons'.at = cons.at /\ cons'.wraps = cons.wraps
          /\ cons'.len = len
          /\ cons' = [step |-> cons'.step, op |-> cons'.op, at |-> cons'.at,
                      wraps |-> cons'.wraps, len |-> cons'.len, got |-> cons'.got]
      BY <2>4
    <3>. QED BY <1>1, <1>3, <2>2, <3>1 DEF SpscInv, ReadInv, HasPart, ReadShape, ReadSteps
  <2>. QED BY <1>7, <2>2, <2>3, <2>4
<1>. QED BY <1>5, <1>6, <1>8 DEF SpscInv

LEMMA PopCopyInv ==
  ASSUME SpscInv, PopCopy
  PROVE  SpscInv'
<1>. DEFINE len == MsgLen[q[1].msg]
<1>1. cons.step \in {"copy", "rest"} /\ cons.step \in ReadSteps
  BY DEF PopCopy, ReadSteps
<1>2. Settled /\ Calls!QueueInv /\ q # <<>> /\ cons.len = len
      /\ \A k \in 0 .. len - 1 : Fetched(k) = Cell(q[1].msg, k)
  BY <1>1, FetchedIs DEF SpscInv, ReadInv, HasPart, ReadShape
<1>3. r' = r /\ w' = w /\ buf' = buf /\ q' = q /\ prod' = prod /\ ret' = ret
  BY DEF PopCopy, shared
<1>4. [k \in 0 .. cons.len - 1 |-> Fetched(k)] = Bytes(q[1].msg)
  BY <1>2 DEF Bytes
<1>5. cons' = [step |-> "store", op |-> cons.op, at |-> cons.at, wraps |-> cons.wraps,
               len |-> cons.len, got |-> Bytes(q[1].msg)]
  BY <1>4 DEF PopCopy, SpscInv, ReadInv, HasPart, ReadShape
<1>6. Calls!QueueInv'
  BY <1>2, <1>3, Calls!UnchangedInv, QueueAssumption, SpscAssumption
<1>7. PushInv' /\ ReadInv'
  BY <1>1, <1>3, <1>5 DEF SpscInv, PushInv, PushShape, ReadInv, HasPart, ReadShape,
     ReadSteps, Calls!Size
<1>8. ClearInv'
  BY <1>2, <1>3, <1>5 DEF SpscInv, ClearInv, Clearing, Settled
<1>. QED BY <1>6, <1>7, <1>8 DEF SpscInv

(* The store of the read cursor is the pop of CQueue. *)
LEMMA StoreIsPop ==
  ASSUME SpscInv, PopStore
  PROVE  /\ Settled /\ Calls!QueueInv /\ q # <<>>
         /\ Calls!ReadHead(TRUE, TRUE) /\ r' = Calls!Moved(MsgLen[q[1].msg])
<1>. DEFINE len == MsgLen[q[1].msg]
<1>1. cons.step = "store" /\ cons.step \in ReadSteps
  BY DEF PopStore, ReadSteps
<1>2. Settled /\ Calls!QueueInv /\ q # <<>>
      /\ \A k \in 0 .. len - 1 : Fetched(k) = Calls!Fetch(k) /\ Fetched(k) = Cell(q[1].msg, k)
  BY <1>1, FetchedIs
<1>3. cons.len = len /\ cons.got = Bytes(q[1].msg) /\ cons.at = r
      /\ cons.wraps \in BOOLEAN /\ (cons.wraps => w < r)
      /\ (~cons.wraps => r + len <= NMAX)
  BY <1>1 DEF SpscInv, ReadInv, HasPart, ReadShape
<1>4. /\ Calls!Size > 0 /\ len <= Calls!Size /\ len \in Nat \ {0} /\ len >= HDR
      /\ Calls!HeadLens = {len}
  BY <1>2, OldestThere
<1>5. r \in 0 .. NMAX /\ NMAX \in Nat /\ w \in 0 .. NMAX /\ HDR \in Nat \ {0}
      /\ Calls!Size \in 0 .. NMAX
  BY <1>2, Cursors, QueueAssumption
<1>6. r' = IF cons.wraps /\ NMAX - r < len THEN len - (NMAX - r) ELSE r + len
  BY <1>3 DEF PopStore, Crosses
<1>7. r' = Calls!Moved(len)
  BY <1>3, <1>4, <1>5, <1>6 DEF Calls!Moved
<1>8. Bytes(q[1].msg) = [k \in 0 .. len - 1 |-> Calls!Fetch(k)]
  BY <1>2 DEF Bytes
<1>9. /\ ret' = [val |-> len, bytes |-> [k \in 0 .. len - 1 |-> Calls!Fetch(k)]]
      /\ q' = IF q = <<>> THEN q ELSE Calls!Rest(q, len)
      /\ w' = w /\ buf' = buf
  BY <1>3, <1>8 DEF PopStore, Ring!Returned, Ring!Rest, Calls!Rest
<1>10. Calls!Size >= HDR
  BY <1>4, <1>5
<1>11. Calls!ReadHead(TRUE, TRUE)
  BY <1>4, <1>7, <1>9, <1>10 DEF Calls!ReadHead, Calls!Returned
<1>. QED BY <1>2, <1>7, <1>11

LEMMA PopStoreInv ==
  ASSUME SpscInv, PopStore
  PROVE  SpscInv'
<1>. DEFINE len == MsgLen[q[1].msg]
<1>1. Settled /\ Calls!QueueInv /\ q # <<>> /\ Calls!ReadHead(TRUE, TRUE)
      /\ r' = Calls!Moved(len)
  BY StoreIsPop
<1>2. Calls!QueueInv'
  BY <1>1, Calls!ReadPreserves, QueueAssumption, SpscAssumption
<1>3. Calls!Size' = Calls!Size - len /\ r' \in 0 .. NMAX
  BY <1>1, Calls!ReadCursor, QueueAssumption, SpscAssumption
<1>4. cons' = Consumer /\ w' = w /\ buf' = buf /\ prod' = prod
  BY DEF PopStore
<1>5. /\ r \in 0 .. NMAX /\ w \in 0 .. NMAX /\ NMAX \in Nat
      /\ Calls!Size \in 0 .. NMAX /\ len \in Nat \ {0} /\ len <= Calls!Size
  BY <1>1, Cursors, OldestThere
<1>6. w >= r => w >= r'
  BY <1>1, <1>5, SizeIs DEF Calls!Moved
<1>7. ASSUME prod.step \in PushSteps PROVE Calls!Size' + MsgLen[prod.msg] <= NMAX
  <2>1. Calls!Size + MsgLen[prod.msg] <= NMAX /\ MsgLen[prod.msg] \in Nat
    BY <1>7, QueueAssumption DEF SpscInv, PushInv, PushShape
  <2>. QED BY <1>3, <1>5, <2>1
<1>8. PushInv'
  BY <1>4, <1>6, <1>7 DEF SpscInv, PushInv, PushShape
<1>9. ReadInv' /\ ClearInv'
  BY <1>1, <1>4 DEF SpscInv, ReadInv, HasPart, ReadShape, ClearInv, Consumer, ReadSteps, ClearSteps,
     Clearing, Settled
<1>. QED BY <1>2, <1>8, <1>9 DEF SpscInv

LEMMA KillInv ==
  ASSUME Quiet, SpscInv, KillProducer \/ KillConsumer
  PROVE  SpscInv'
<1>1. UNCHANGED <<r, w, buf, q, ret>>
  BY DEF KillProducer, KillConsumer, shared
<1>2. \/ cons.step = "idle" /\ prod' = [Producer EXCEPT !.step = "clear r"] /\ cons' = cons
      \/ prod.step = "idle" /\ cons' = [Consumer EXCEPT !.step = "clear r"] /\ prod' = prod
  BY DEF KillProducer, KillConsumer
<1>3. PushInv'
  BY <1>1, <1>2 DEF SpscInv, PushInv, PushShape, Producer, PushSteps, ClearSteps, Calls!Size
<1>4. ReadInv'
  BY <1>1, <1>2 DEF SpscInv, ReadInv, HasPart, ReadShape, Consumer, ReadSteps, ClearSteps
<1>5. ClearInv' /\ ~Settled'
  BY <1>1, <1>2 DEF SpscInv, ClearInv, Producer, Consumer, Clearing, Settled
<1>. QED BY <1>3, <1>4, <1>5 DEF SpscInv

LEMMA ClearRInv ==
  ASSUME SpscInv, ClearR
  PROVE  SpscInv'
<1>1. r' = 0 /\ w' = w /\ buf' = buf /\ q' = q /\ ret' = ret
  BY DEF ClearR
<1>2. \/ /\ prod.step = "clear r" /\ prod' = [prod EXCEPT !.step = "clear w"]
         /\ cons' = cons /\ cons.step = "idle"
      \/ /\ cons.step = "clear r" /\ cons' = [cons EXCEPT !.step = "clear w"]
         /\ prod' = prod /\ prod.step = "idle"
  BY DEF ClearR, SpscInv, ClearInv, Clearing
<1>3. PushInv'
  <2>1. PushShape /\ (cons.step = "clear r" => prod.step = "idle")
    BY <1>2 DEF SpscInv, PushInv
  <2>2. PushShape' /\ prod'.step \in {"idle", "clear w"}
    BY <1>2, <2>1 DEF PushShape
  <2>. QED BY <2>2, NoPush DEF ClearSteps
<1>4. ReadInv'
  <2>1. ReadShape /\ (prod.step = "clear r" => cons.step = "idle")
    BY <1>2 DEF SpscInv, ReadInv
  <2>2. ReadShape' /\ cons'.step \in {"idle", "clear w"}
    BY <1>2, <2>1 DEF ReadShape
  <2>. QED BY <2>2, NoRead DEF ClearSteps
<1>5. prod'.step = "clear w" \/ cons'.step = "clear w"
  <2>1. PushShape /\ ReadShape
    BY DEF SpscInv, PushInv, ReadInv
  <2>. QED BY <1>2, <2>1 DEF PushShape, ReadShape
<1>6. ClearInv' /\ ~Settled'
  BY <1>1, <1>2, <1>5, <1>3, <1>4 DEF SpscInv, PushInv, ReadInv, ClearInv, Clearing, Settled
<1>. QED BY <1>3, <1>4, <1>6 DEF SpscInv

LEMMA ClearWInv ==
  ASSUME SpscInv, ClearW
  PROVE  SpscInv'
<1>1. w' = 0 /\ r' = r /\ buf' = buf /\ q' = <<>> /\ ret' = [val |-> 0, bytes |-> <<>>]
  BY DEF ClearW, Ring!Returned, Ring!Nothing
<1>2. \/ /\ prod.step = "clear w" /\ prod' = Producer
         /\ cons' = cons /\ cons.step = "idle"
      \/ /\ cons.step = "clear w" /\ cons' = Consumer
         /\ prod' = prod /\ prod.step = "idle"
  BY DEF ClearW, SpscInv, ClearInv, Clearing
<1>3. r' = 0 /\ buf' \in [Positions -> {Calls!Blank} \cup (Msg \X Nat)]
  BY <1>1, <1>2 DEF SpscInv, ClearInv
<1>4. Calls!QueueInv'
  BY <1>1, <1>3, Calls!ClearedInv, QueueAssumption, SpscAssumption
     DEF Calls!Positions, Positions
<1>5. PushInv'
  <2>1. PushShape
    BY DEF SpscInv, PushInv
  <2>2. PushShape' /\ prod'.step = "idle"
    <3>1. CASE prod' = Producer
      BY <3>1 DEF PushShape, Producer
    <3>2. CASE prod' = prod /\ prod.step = "idle"
      BY <2>1, <3>2 DEF PushShape
    <3>. QED BY <1>2, <3>1, <3>2
  <2>. QED BY <2>2, NoPush
<1>6. ReadInv'
  <2>1. ReadShape
    BY DEF SpscInv, ReadInv
  <2>2. ReadShape' /\ cons'.step = "idle"
    <3>1. CASE cons' = Consumer
      BY <3>1 DEF ReadShape, Consumer
    <3>2. CASE cons' = cons /\ cons.step = "idle"
      BY <2>1, <3>2 DEF ReadShape
    <3>. QED BY <1>2, <3>1, <3>2
  <2>. QED BY <2>2, NoRead
<1>7. ClearInv'
  BY <1>2, <1>3 DEF SpscInv, ClearInv, Clearing, Producer, Consumer
<1>. QED BY <1>4, <1>5, <1>6, <1>7 DEF SpscInv

LEMMA InitSpsc == Init => SpscInv
<1>. SUFFICES ASSUME Init PROVE SpscInv
  OBVIOUS
<1>1. prod = Producer /\ cons = Consumer /\ Ring!Init
  BY DEF Init
<1>2. Calls!Init
  BY <1>1 DEF Ring!Init, Calls!Init, Ring!Blank, Calls!Blank, Ring!Nothing,
     Calls!Nothing, Ring!Positions, Calls!Positions
<1>3. Calls!QueueInv
  BY <1>2, Calls!InitInv, QueueAssumption, SpscAssumption
<1>4. PushInv
  BY <1>1 DEF PushInv, PushShape, Producer, PushSteps
<1>5. ReadInv
  BY <1>1 DEF ReadInv, HasPart, ReadShape, Consumer, ReadSteps
<1>6. ClearInv
  BY <1>1, <1>3, Cursors DEF ClearInv, Clearing, Producer, Consumer
<1>. QED BY <1>3, <1>4, <1>5, <1>6 DEF SpscInv

LEMMA NextSpsc ==
  ASSUME Quiet, SpscInv, [Next]_vars
  PROVE  SpscInv'
<1>1. ASSUME NEW m \in Msg, PushLoad(m) PROVE SpscInv'
  BY <1>1, PushLoadInv
<1>2. ASSUME NEW op, ReadLoad(op) PROVE SpscInv'
  BY <1>2, ReadLoadInv
<1>3. CASE UNCHANGED vars
  <2>1. UNCHANGED <<r, w, buf, q, ret, prod, cons>>
    BY <1>3 DEF vars, shared
  <2>2. Settled => Calls!QueueInv'
    BY <2>1, Calls!UnchangedInv, QueueAssumption, SpscAssumption DEF SpscInv
  <2>3. PushInv'
    BY <2>1 DEF SpscInv, PushInv, PushShape, Calls!Size
  <2>4. ReadInv' /\ ClearInv'
    BY <2>1 DEF SpscInv, ReadInv, HasPart, ReadShape, ClearInv, Clearing
  <2>. QED BY <2>1, <2>2, <2>3, <2>4 DEF SpscInv, Settled, Clearing
<1>. QED
  BY <1>1, <1>2, <1>3, PushCopyInv, PushRestInv, PushStoreInv, ReadPartInv, ReadLenInv,
     PopCopyInv, PopStoreInv, KillInv, ClearRInv, ClearWInv DEF Next

(* Of two processes that use the ring at once without a lock, each push    *)
(* and each read keeps, access by access, what the other has relied on     *)
(* since it loaded the cursors, provided that a process is killed and      *)
(* started again only between the calls of the other.                      *)
THEOREM ConcurrentInvariant ==
  ASSUME Quiet
  PROVE  Spec => []SpscInv
<1>1. Init => SpscInv
  BY InitSpsc
<1>2. SpscInv /\ [Next]_vars => SpscInv'
  BY NextSpsc
<1>. QED BY <1>1, <1>2, PTL DEF Spec

LEMMA FreeOnly ==
  ASSUME SpscInv
  PROVE  WritesOnlyFree
<1>. SUFFICES ASSUME Settled, NEW x \in Written, NEW j \in 0 .. Ring!Size - 1,
                     x = PosOf(r, j)
              PROVE  FALSE
  BY DEF WritesOnlyFree, Pending
<1>. DEFINE m == prod.msg  len == MsgLen[m]
<1>1. prod.step \in {"copy", "rest"}
  <2>. SUFFICES ASSUME prod.step \notin {"copy", "rest"} PROVE FALSE
    OBVIOUS
  <2>1. Written = {}
    BY DEF Written
  <2>. QED BY <2>1
<1>2. Calls!QueueInv /\ prod.step \in PushSteps
  BY <1>1 DEF SpscInv, PushSteps
<1>3. /\ m \in Msg /\ prod.at = w /\ prod.split \in BOOLEAN
      /\ Calls!Size + len <= NMAX /\ (prod.split <=> NMAX - w < len)
      /\ (prod.split => w >= r) /\ (prod.step = "rest" => prod.split)
  BY <1>2 DEF SpscInv, PushInv
<1>4. /\ r \in 0 .. NMAX /\ w \in 0 .. NMAX /\ NMAX \in Nat \ {0} /\ len \in Nat
  BY <1>2, <1>3, Cursors, QueueAssumption
<1>5. SizeOf(r, w) + len <= NMAX /\ j \in 0 .. SizeOf(r, w) - 1
  BY <1>3, SameSize DEF Calls!Size, Calls!SizeOf, SizeOf
<1>6. /\ PosOf(r, j) \in Positions
      /\ (NMAX - w >= len \/ w < r) => ~(w <= PosOf(r, j) /\ PosOf(r, j) < w + len)
      /\ w >= r => PosOf(r, j) < w
      /\ (w >= r /\ NMAX - w < len) => PosOf(r, j) >= len - (NMAX - w)
  BY <1>4, <1>5, FreeArith
<1>7. x \in Int
  BY <1>4, <1>6 DEF Positions
<1>8. CASE prod.step = "copy" /\ prod.split
  <2>1. x >= w
    BY <1>3, <1>8 DEF Written
  <2>. QED BY <1>3, <1>4, <1>6, <1>7, <1>8, <2>1
<1>9. CASE prod.step = "copy" /\ ~prod.split
  <2>1. x \in w .. w + len - 1
    BY <1>3, <1>9 DEF Written
  <2>. QED BY <1>3, <1>4, <1>6, <1>7, <1>9, <2>1
<1>10. CASE prod.step = "rest"
  <2>1. x \in 0 .. len - (NMAX - w) - 1
    BY <1>3, <1>10 DEF Written, ToEnd
  <2>. QED BY <1>3, <1>4, <1>6, <1>7, <1>10, <2>1
<1>. QED BY <1>1, <1>3, <1>8, <1>9, <1>10

(* A push that is being carried out never writes a byte of a message that  *)
(* the reader may be copying, whatever the reader does meanwhile.          *)
THEOREM PushSparesPending ==
  ASSUME Quiet
  PROVE  Spec => []WritesOnlyFree
<1>1. SpscInv => WritesOnlyFree
  BY FreeOnly
<1>. QED BY <1>1, ConcurrentInvariant, PTL

(* In every state between the accesses of a push and a read the pending    *)
(* bytes are the acknowledged messages, back to back, in their order.      *)
THEOREM PendingStaysIntact ==
  ASSUME Quiet
  PROVE  Spec => []PendingIntact
<1>1. SpscInv => PendingIntact
  <2>. SUFFICES ASSUME SpscInv, Settled PROVE Ring!Layout
    BY DEF PendingIntact
  <2>1. Calls!Layout
    BY DEF SpscInv, Calls!QueueInv
  <2>. QED BY <2>1, SameSize DEF Calls!Layout, Ring!Layout, Calls!EndOf, Ring!EndOf,
         Calls!At, Ring!At, Calls!PosOf, Ring!PosOf, Calls!Cell, Ring!Cell
<1>. QED BY <1>1, ConcurrentInvariant, PTL

-----------------------------------------------------------------------------
(* The calls implement those of the FIFO *)

Abs == [i \in 1 .. Len(q) |-> q[i].msg]
Used == IF q = <<>> THEN 0 ELSE Ring!EndOf(q[Len(q)])

LEMMA UsedIsSize ==
  /\ Calls!QueueInv => Used = Calls!Size
  /\ Calls!QueueInv' => Used' = Calls!Size'
BY DEF Calls!QueueInv, Calls!Layout, Used, Calls!EndOf, Ring!EndOf

LEMMA StoreAccepts ==
  ASSUME SpscInv, PushStore
  PROVE  \E m \in Msg : Fifo!Accept(m)
<1>1. PICK m \in Msg : /\ Calls!QueueInv
                       /\ Calls!PushWhole(m) \/ Calls!PushSplit(m)
  BY StoreIsPush
<1>2. Calls!QueueInv'
  BY <1>1, Calls!PushPreserves, QueueAssumption, SpscAssumption
<1>3. Calls!Fifo!Accept(m)
  BY <1>1, Calls!PushAccepts, QueueAssumption, SpscAssumption
<1>4. Fifo!Accept(m)
  BY <1>1, <1>2, <1>3, UsedIsSize DEF Calls!Fifo!Accept, Fifo!Accept,
     Calls!Fifo!Nothing, Fifo!Nothing, Used
<1>. QED BY <1>4

LEMMA StoreReads ==
  ASSUME SpscInv, PopStore
  PROVE  Fifo!Read(TRUE, TRUE)
<1>1. Calls!QueueInv /\ Calls!ReadHead(TRUE, TRUE)
  BY StoreIsPop
<1>2. Calls!QueueInv'
  BY <1>1, Calls!ReadPreserves, QueueAssumption, SpscAssumption
<1>3. Calls!Fifo!Read(TRUE, TRUE)
  BY <1>1, Calls!ReadReads, QueueAssumption, SpscAssumption
<1>. QED BY <1>1, <1>2, <1>3, UsedIsSize DEF Calls!Fifo!Read, Fifo!Read,
       Calls!Fifo!Nothing, Fifo!Nothing, Used, Calls!Bytes, Bytes, Calls!Cell, Cell

(* Between the steps at which calls take effect the FIFO stutters. *)
LEMMA Stutters ==
  ASSUME UNCHANGED <<q, ret>>
  PROVE  UNCHANGED Fifo!vars
BY DEF Fifo!vars, Ring!EndOf

LEMMA LoadRefuses ==
  ASSUME Quiet, SpscInv, NEW m \in Msg, PushLoad(m)
  PROVE  [Fifo!Next]_(Fifo!vars)
<1>1. CASE Fits(m)
  BY <1>1, Stutters DEF PushLoad
<1>2. CASE ~Fits(m)
  <2>1. Calls!QueueInv
    BY DEF PushLoad, MayCall, Settled, SpscInv
  <2>2. Used + MsgLen[m] > NMAX
    BY <1>2, <2>1, UsedIsSize, SameSize, Cursors, QueueAssumption DEF Fits
  <2>3. q' = q /\ ret' = [val |-> -1, bytes |-> <<>>]
    BY <1>2 DEF PushLoad, Ring!Returned, Ring!Nothing
  <2>4. Fifo!Refuse(m)
    BY <2>2, <2>3 DEF Fifo!Refuse, Fifo!Nothing, Used, Ring!EndOf
  <2>. QED BY <2>4 DEF Fifo!Next
<1>. QED BY <1>1, <1>2

LEMMA LoadReadsNothing ==
  ASSUME Quiet, SpscInv, NEW op, ReadLoad(op)
  PROVE  [Fifo!Next]_(Fifo!vars)
<1>1. CASE HasHead
  BY <1>1, Stutters DEF ReadLoad
<1>2. CASE ~HasHead
  <2>1. Calls!QueueInv
    BY DEF ReadLoad, MayCall, Settled, SpscInv
  <2>2. q = <<>>
    <3>. SUFFICES ASSUME q # <<>> PROVE FALSE
      OBVIOUS
    <3>1. Calls!Size >= HDR
      BY <2>1, OldestThere, Cursors, QueueAssumption
    <3>. QED BY <1>2, <3>1, SameSize DEF HasHead
  <2>3. q' = q /\ ret' = [val |-> -1, bytes |-> <<>>]
    BY <1>2 DEF ReadLoad, Ring!Returned, Ring!Nothing
  <2>4. Fifo!ReadNothing
    BY <2>2, <2>3 DEF Fifo!ReadNothing, Fifo!Nothing
  <2>. QED BY <2>4 DEF Fifo!Next
<1>. QED BY <1>1, <1>2

LEMMA LenReads ==
  ASSUME SpscInv, ReadLen
  PROVE  [Fifo!Next]_(Fifo!vars)
<1>. DEFINE len == MsgLen[q[1].msg]
<1>1. cons.step \in ReadSteps
  BY DEF ReadLen, ReadSteps
<1>2. Calls!QueueInv /\ q # <<>> /\ FetchedLens = {len}
  BY <1>1, FetchedIs
<1>3. q' = q /\ (ret' = ret \/ ret' = [val |-> len, bytes |-> <<>>])
  BY <1>2 DEF ReadLen, Ring!Returned, Ring!Nothing
<1>4. CASE ret' = [val |-> len, bytes |-> <<>>]
  <2>1. q \in Seq(Calls!Entry)
    BY <1>2 DEF Calls!QueueInv, Calls!TypeOK
  <2>2. Abs # <<>> /\ Head(Abs) = q[1].msg
    <3>1. Len(q) \in Nat /\ Len(q) >= 1
      BY <1>2, <2>1
    <3>2. \A i \in 1 .. Len(q) : q[i].msg \in Msg
      BY <1>2, Calls!EntryType, QueueAssumption, SpscAssumption DEF Calls!QueueInv
    <3>3. Abs \in Seq(Msg) /\ Len(Abs) = Len(q) /\ Abs[1] = q[1].msg
      BY <3>1, <3>2 DEF Abs
    <3>. QED BY <3>1, <3>3
  <2>3. Fifo!Read(FALSE, FALSE)
    BY <1>3, <1>4, <2>2 DEF Fifo!Read, Fifo!Nothing, Abs, Ring!EndOf
  <2>. QED BY <2>3 DEF Fifo!Next
<1>. QED BY <1>3, <1>4, Stutters

LEMMA ClearsFifo ==
  ASSUME ClearW
  PROVE  Fifo!Clear
<1>1. q' = <<>> /\ ret' = [val |-> 0, bytes |-> <<>>]
  BY DEF ClearW, Ring!Returned, Ring!Nothing
<1>. QED BY <1>1 DEF Fifo!Clear, Fifo!Nothing

(* The two processes, access by access and without a lock, implement the   *)
(* FIFO of whole messages: their calls take effect one after another.      *)
THEOREM CallsImplementFifo ==
  ASSUME Quiet
  PROVE  Spec => CallsAreAtomic
<1>1. Init => Fifo!Init
  BY DEF Init, Ring!Init, Ring!Nothing, Fifo!Init, Fifo!Nothing
<1>2. SpscInv /\ [Next]_vars => [Fifo!Next]_(Fifo!vars)
  <2>. SUFFICES ASSUME SpscInv, [Next]_vars PROVE [Fifo!Next]_(Fifo!vars)
    OBVIOUS
  <2>1. ASSUME NEW m \in Msg, PushLoad(m) PROVE [Fifo!Next]_(Fifo!vars)
    BY <2>1, LoadRefuses
  <2>2. CASE PushStore
    BY <2>2, StoreAccepts DEF Fifo!Next
  <2>3. ASSUME NEW op, ReadLoad(op) PROVE [Fifo!Next]_(Fifo!vars)
    BY <2>3, LoadReadsNothing
  <2>4. CASE ReadLen
    BY <2>4, LenReads
  <2>5. CASE PopStore
    BY <2>5, StoreReads DEF Fifo!Next
  <2>6. CASE ClearW
    BY <2>6, ClearsFifo DEF Fifo!Next
  <2>7. CASE PushCopy \/ PushRest \/ ReadPart \/ PopCopy \/ KillProducer
             \/ KillConsumer \/ ClearR \/ UNCHANGED vars
    <3>1. q' = q /\ ret' = ret
      BY <2>7 DEF PushCopy, PushRest, ReadPart, PopCopy, KillProducer, KillConsumer,
         ClearR, vars
    <3>. QED BY <3>1, Stutters
  <2>. QED BY <2>1, <2>2, <2>3, <2>4, <2>5, <2>6, <2>7 DEF Next
<1>. QED BY <1>1, <1>2, ConcurrentInvariant, PTL DEF CallsAreAtomic, Spec, Fifo!Spec
=============================================================================
