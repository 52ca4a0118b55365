------------------------------- MODULE CQueue -------------------------------
(***************************************************************************)
(* queue/CQueue: a ring of whole messages in a shared-memory segment, with *)
(* a read cursor r, a write cursor w and nothing else.  Here each call is  *)
(* one step, as the comments on the calls promise; CQueueBytes holds the   *)
(* ring's layout.  The variable q is a history variable: the messages whose*)
(* push was acknowledged and that no call has removed, each with the offset*)
(* of its first byte from the read cursor.  No action reads q to decide.   *)
(***************************************************************************)
EXTENDS CQueueBytes

VARIABLES r, w, buf, q, ret

vars == <<r, w, buf, q, ret>>

Nothing == <<>>
Blank == <<>>          \* a byte no push has written
Size == SizeOf(r, w)
Empty == Size = 0
Returned(val, bytes) == ret' = [val |-> val, bytes |-> bytes]

(* init() and clear() of the creating process: cursors 0, any bytes left.  *)
Init ==
  /\ r = 0 /\ w = 0
  /\ buf = [x \in Positions |-> Blank]
  /\ q = <<>>
  /\ ret = [val |-> 0, bytes |-> Nothing]

Acknowledge(m) == q' = Append(q, [msg |-> m, off |-> Size])

(* push(): empty_n < len. *)
PushRefused(m) ==
  /\ NMAX - Size < MsgLen[m]
  /\ Returned(-1, Nothing)
  /\ UNCHANGED <<r, w, buf, q>>

(* Mutant: the free bytes are not compared with the length. *)
PushWholeUnchecked(m) ==
  /\ w < r \/ NMAX - w >= MsgLen[m]
  /\ buf' = Copied(buf, w, m, 0, MsgLen[m])
  /\ w' = w + MsgLen[m]
  /\ Acknowledge(m)
  /\ Returned(MsgLen[m], Nothing)
  /\ UNCHANGED r

(* push(): one memcpy; w may become NMAX, it is not reset to 0. *)
PushWhole(m) ==
  /\ NMAX - Size >= MsgLen[m]
  /\ w < r \/ NMAX - w >= MsgLen[m]
  /\ buf' = Copied(buf, w, m, 0, MsgLen[m])
  /\ w' = w + MsgLen[m]
  /\ Acknowledge(m)
  /\ Returned(MsgLen[m], Nothing)
  /\ UNCHANGED r

(* Mutant: the length of the first memcpy is returned. *)
PushSplitPartCount(m) ==
  /\ NMAX - Size >= MsgLen[m]
  /\ w >= r /\ NMAX - w < MsgLen[m]
  /\ buf' = CopiedSplit(buf, w, m)
  /\ w' = MsgLen[m] - (NMAX - w)
  /\ Acknowledge(m)
  /\ Returned(NMAX - w, Nothing)
  /\ UNCHANGED r

(* push(): the message wraps, in two memcpys. *)
PushSplit(m) ==
  /\ NMAX - Size >= MsgLen[m]
  /\ w >= r /\ NMAX - w < MsgLen[m]
  /\ buf' = CopiedSplit(buf, w, m)
  /\ w' = MsgLen[m] - (NMAX - w)
  /\ Acknowledge(m)
  /\ Returned(MsgLen[m], Nothing)
  /\ UNCHANGED r

Push(m) == PushRefused(m) \/ PushWhole(m) \/ PushSplit(m)

(* Byte k after the read cursor: only the branch w < r of the readers wraps.*)
Fetch(k) == IF w < r /\ r + k >= NMAX THEN buf[r + k - NMAX] ELSE buf[r + k]

(* The lengths the HDR bytes at the read cursor can be read as. *)
HeadLens ==
  {MsgLen[m] : m \in {x \in Msg : \A k \in 0 .. HDR - 1 : Fetch(k) = Cell(x, k)}}

(* Mutant: a message that ends at the start of the ring is not seen to wrap.*)
MovedPastEnd(len) == IF w >= r \/ NMAX - r >= len THEN r + len ELSE len

(* Mutant: the read cursor is not taken round the end. *)
MovedStraight(len) == r + len

(* The read cursor after a message of len bytes. *)
Moved(len) == IF w >= r \/ NMAX - r >= len THEN r + len ELSE len - (NMAX - r)

Rest(s, len) ==
  [i \in 1 .. Len(s) - 1 |-> [msg |-> s[i + 1].msg, off |-> s[i + 1].off - len]]

(* A reader that finds no message: n == 0, or n < 4. *)
ReadNothing ==
  /\ Size < HDR
  /\ Returned(-1, Nothing)
  /\ UNCHANGED <<r, w, buf, q>>

(* The body the four readers share: decode the length, copy or not, move r *)
(* or not.                                                                 *)
ReadHead(moves, copies) ==
  /\ Size >= HDR
  /\ \E len \in HeadLens :
       /\ Returned(len, IF copies THEN [k \in 0 .. len - 1 |-> Fetch(k)]
                                  ELSE Nothing)
       /\ IF moves
          THEN /\ r' = Moved(len)
               /\ q' = IF q = <<>> THEN q ELSE Rest(q, len)
          ELSE UNCHANGED <<r, q>>
  /\ UNCHANGED <<w, buf>>

Pop == ReadNothing \/ ReadHead(TRUE, TRUE)
PopJust == ReadNothing \/ ReadHead(TRUE, FALSE)
Top == ReadNothing \/ ReadHead(FALSE, TRUE)
TopJust == ReadNothing \/ ReadHead(FALSE, FALSE)

(* clear(), which every process that attaches calls once. *)
Clear ==
  /\ r' = 0 /\ w' = 0
  /\ q' = <<>>
  /\ Returned(0, Nothing)
  /\ UNCHANGED buf

Next == (\E m \in Msg : Push(m)) \/ Pop \/ PopJust \/ Top \/ TopJust \/ Clear

Spec == Init /\ [][Next]_vars

-----------------------------------------------------------------------------
(* The cursors stay within the segment, ends included, and every byte is   *)
(* one of a message or one that no push has written (CQueue.h:13-14).      *)
Entry == [msg : Msg, off : 0 .. NMAX - 1]

TypeOK ==
  /\ r \in 0 .. NMAX /\ w \in 0 .. NMAX
  /\ buf \in [Positions -> {Blank} \cup (Msg \X Nat)]
  /\ q \in Seq(Entry)
  /\ ret.val \in {-1} \cup Nat

(* An acknowledged message stays pending until it is read: the cursors say *)
(* "empty" exactly when every acknowledged message was removed             *)
(* (CQueue::empty, and the success value of CShmQueueSingle::pushmsg).     *)
EmptyMeansDrained == Empty <=> q = <<>>

(* "As long as the queue is not empty there is a message to read" (the     *)
(* comment on pop, pop_just, top and top_just): the bytes at the read      *)
(* cursor are the header of the oldest acknowledged message.               *)
NonEmptyReadable == Size > 0 => q # <<>> /\ HeadLens = {MsgLen[q[1].msg]}

(* Where the pending bytes are: back to back from the read cursor, in the  *)
(* order pushed, none overwritten (push and the four readers together).    *)
At(j) == PosOf(r, j)
EndOf(e) == e.off + MsgLen[e.msg]

Layout ==
  /\ q = <<>> => Size = 0
  /\ q # <<>> => q[1].off = 0 /\ EndOf(q[Len(q)]) = Size
  /\ \A i \in 1 .. Len(q) - 1 : q[i + 1].off = EndOf(q[i])
  /\ \A i, j \in 1 .. Len(q) : i < j => EndOf(q[i]) <= q[j].off
  /\ \A i \in 1 .. Len(q) : EndOf(q[i]) <= Size
  /\ \A i \in 1 .. Len(q) : \A k \in 0 .. MsgLen[q[i].msg] - 1 :
       buf[At(q[i].off + k)] = Cell(q[i].msg, k)

(* The ring implements the FIFO of whole messages (MsgFifo), its pending   *)
(* bytes being what size() computes from the cursors.                      *)
Fifo == INSTANCE MsgFifo WITH
          fifo <- [i \in 1 .. Len(q) |-> q[i].msg],
          used <- Size,
          Wire <- [m \in Msg |-> Bytes(m)]
IsFifo == Fifo!Spec
=============================================================================
