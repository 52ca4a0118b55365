---------------------------- MODULE CQueueBytes ----------------------------
(***************************************************************************)
(* The shared-memory byte ring of queue/CQueue.h and queue/CQueue.cpp:     *)
(* NMAX bytes after the two cursors, messages stored back to back, each    *)
(* starting with HDR bytes that spell its own length (sizeof(int) in the   *)
(* code).  A byte is abstracted to "byte k of message m".                  *)
(***************************************************************************)
EXTENDS Integers, Sequences

CONSTANTS
  Msg,     \* the messages callers push
  MsgLen,  \* MsgLen[m]: the length that the header of m spells
  NMAX,    \* capacity of the ring in bytes
  HDR      \* bytes of the length field

ASSUME QueueAssumption ==
  /\ NMAX \in Nat \ {0}
  /\ HDR \in Nat \ {0}
  /\ MsgLen \in [Msg -> Nat]
  /\ \A m \in Msg : MsgLen[m] >= HDR

Positions == 0 .. NMAX - 1

(* Byte k of message m, and the whole message as it lies in a caller's buf. *)
Cell(m, k) == <<m, k>>
Bytes(m) == [k \in 0 .. MsgLen[m] - 1 |-> Cell(m, k)]

(* CQueue::size() on a pair of cursor values. *)
SizeOf(rr, ww) == IF ww >= rr THEN ww - rr ELSE NMAX - (rr - ww)

(* The position of the j-th byte after a read cursor, going round the ring.*)
PosOf(rr, j) == IF rr + j < NMAX THEN rr + j ELSE rr + j - NMAX

(* memcpy of bytes from .. from+count-1 of m to base + p. *)
Copied(b, p, m, from, count) ==
  [x \in Positions |-> IF p <= x /\ x < p + count
                       THEN Cell(m, x - p + from) ELSE b[x]]

(* Mutant: the second memcpy starts at the head of the message again. *)
CopiedSplitFromStart(b, p, m) ==
  LET n == NMAX - p IN
  Copied(Copied(b, p, m, 0, n), 0, m, 0, MsgLen[m] - n)

(* The two memcpys of a push that wraps: NMAX - p bytes, then the rest. *)
CopiedSplit(b, p, m) ==
  LET n == NMAX - p IN
  Copied(Copied(b, p, m, 0, n), 0, m, n, MsgLen[m] - n)
=============================================================================
