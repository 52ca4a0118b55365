----------------------------- MODULE CQueueSpsc -----------------------------
(***************************************************************************)
(* One CQueue as its two processes run it, without a lock: insrv and midsrv*)
(* are in the middle of push and pop at the same time, and either may be   *)
(* killed and started again, when it clears the queue the other is using.  *)
(* A step is what the build (-O) makes one access to shared memory: both   *)
(* cursors are loaded once, when a call begins, each memcpy (two when the  *)
(* end of the ring splits the length field or the message), the store of a *)
(* cursor.  `w += len' and `r += len' read the cursor again when they store*)
(***************************************************************************)
EXTENDS CQueueBytes

CONSTANTS
  Granule,      \* see CQueueSized
  MaxRestarts,  \* bound: kills of a process
  Quiet         \* a process is killed and started only between the other's calls

ASSUME SpscAssumption ==
  /\ Granule \in Nat \ {0}
  /\ \A m \in Msg : \E j \in 0 .. MsgLen[m] : MsgLen[m] = Granule * j
  /\ \A j \in 0 .. NMAX : NMAX # Granule * j

VARIABLES
  r, w, buf,    \* the segment
  prod,         \* the pusher: the next step of its call and what it has loaded
  cons,         \* the reader, likewise
  restarts,
  q,            \* history: messages pushed and not popped, as in CQueue
  ret           \* history: the result of the last call that took effect

shared == <<r, w, buf>>
vars == <<shared, prod, cons, restarts, q, ret>>

(* The operators on one state of the segment: Size, Fetch, Layout, ...     *)
Ring == INSTANCE CQueue

NoMsg == <<>>
Producer == [step |-> "idle", msg |-> NoMsg, at |-> 0, split |-> FALSE]
Consumer == [step |-> "idle", op |-> "pop", at |-> 0, wraps |-> FALSE,
             len |-> 0, got |-> <<>>]

Init ==
  /\ Ring!Init
  /\ prod = Producer /\ cons = Consumer
  /\ restarts = 0

Clearing(p) == p.step \in {"clear r", "clear w"}
MayCall == Quiet => ~Clearing(prod) /\ ~Clearing(cons)

-----------------------------------------------------------------------------
(* Mutant: the cursor is stored before the second memcpy. *)
AfterStoreFirst(step, split) ==
  CASE step = "copy" -> "store"
    [] step = "store" /\ split -> "rest"
    [] OTHER -> "idle"

(* The order of a push: one memcpy, or two when it wraps, then the cursor. *)
After(step, split) ==
  CASE step = "copy" /\ split -> "rest"
    [] step = "rest" \/ (step = "copy" /\ ~split) -> "store"
    [] OTHER -> "idle"

(* Mutant: one byte more than is free may be taken. *)
OneMoreFits(m) == NMAX - Ring!Size + 1 >= MsgLen[m]
Fits(m) == NMAX - Ring!Size >= MsgLen[m]

(* push loads w and r, and refuses or picks its branch by these values.    *)
PushLoad(m) ==
  /\ prod.step = "idle" /\ MayCall
  /\ IF Fits(m)
     THEN /\ prod' = [step |-> "copy", msg |-> m, at |-> w,
                      split |-> w >= r /\ NMAX - w < MsgLen[m]]
          /\ UNCHANGED ret
     ELSE /\ Ring!Returned(-1, Ring!Nothing)
          /\ UNCHANGED prod
  /\ UNCHANGED <<shared, cons, restarts, q>>

ToEnd == NMAX - prod.at
PushAdvances ==
  LET next == After(prod.step, prod.split) IN
  prod' = IF next = "idle" THEN Producer ELSE [prod EXCEPT !.step = next]

PushCopy ==
  /\ prod.step = "copy"
  /\ buf' = Copied(buf, prod.at, prod.msg, 0,
                   IF prod.split THEN ToEnd ELSE MsgLen[prod.msg])
  /\ PushAdvances
  /\ UNCHANGED <<r, w, cons, restarts, q, ret>>

PushRest ==
  /\ prod.step = "rest"
  /\ buf' = Copied(buf, 0, prod.msg, ToEnd, MsgLen[prod.msg] - ToEnd)
  /\ PushAdvances
  /\ UNCHANGED <<r, w, cons, restarts, q, ret>>

(* The message becomes visible, and push returns its length. *)
PushStore ==
  /\ prod.step = "store"
  /\ w' = IF prod.split THEN MsgLen[prod.msg] - ToEnd ELSE w + MsgLen[prod.msg]
  /\ Ring!Acknowledge(prod.msg)
  /\ Ring!Returned(MsgLen[prod.msg], Ring!Nothing)
  /\ PushAdvances
  /\ UNCHANGED <<r, buf, cons, restarts>>

-----------------------------------------------------------------------------
(* Mutant: n <= 4 is taken for a broken queue. *)
HasMoreThanHead == Ring!Size > HDR
HasHead == Ring!Size >= HDR

(* pop and top_just load w and r, and return -1 or pick their branch.      *)
ReadLoad(op) ==
  /\ cons.step = "idle" /\ MayCall
  /\ IF HasHead
     THEN /\ cons' = [Consumer EXCEPT !.step = "len", !.op = op,
                                      !.at = r, !.wraps = w < r]
          /\ UNCHANGED ret
     ELSE /\ Ring!Returned(-1, Ring!Nothing)
          /\ UNCHANGED cons
  /\ UNCHANGED <<shared, prod, restarts, q>>

(* A read that reaches the end of the ring takes two memcpys: what the     *)
(* first one took stays in the reader's buffer.                            *)
Crosses(n) == cons.wraps /\ NMAX - cons.at < n
HasPart == cons.step \in {"len rest", "rest"}

(* The byte that the reader's branch finds k bytes after its cursor. *)
InRing(k) ==
  LET x == cons.at + k IN
  IF cons.wraps /\ x >= NMAX THEN buf[x - NMAX] ELSE buf[x]
Fetched(k) ==
  IF HasPart /\ cons.at + k < NMAX THEN cons.got[k] ELSE InRing(k)

FetchedLens ==
  {MsgLen[m] : m \in {x \in Msg : \A k \in 0 .. HDR - 1 : Fetched(k) = Cell(x, k)}}

PartTo(step, n) ==
  /\ Crosses(n)
  /\ cons' = [cons EXCEPT !.step = step,
                          !.got = [k \in 0 .. NMAX - cons.at - 1 |-> Fetched(k)]]

(* The first memcpy of the length field, or of the message. *)
ReadPart ==
  /\ \/ cons.step = "len" /\ PartTo("len rest", HDR)
     \/ cons.step = "copy" /\ PartTo("rest", cons.len)
  /\ UNCHANGED <<shared, prod, restarts, q, ret>>

(* The rest of the length field, or all of it; top_just returns it. *)
ReadLen ==
  /\ cons.step = "len rest" \/ (cons.step = "len" /\ ~Crosses(HDR))
  /\ \E len \in FetchedLens :
       IF cons.op = "top_just"
       THEN /\ Ring!Returned(len, Ring!Nothing)
            /\ cons' = Consumer
       ELSE /\ cons' = [cons EXCEPT !.step = "copy", !.len = len]
            /\ UNCHANGED ret
  /\ UNCHANGED <<shared, prod, restarts, q>>

PopCopy ==
  /\ cons.step = "rest" \/ (cons.step = "copy" /\ ~Crosses(cons.len))
  /\ cons' = [cons EXCEPT !.step = "store",
                          !.got = [k \in 0 .. cons.len - 1 |-> Fetched(k)]]
  /\ UNCHANGED <<shared, prod, restarts, q, ret>>

(* The bytes become free, and pop returns. *)
PopStore ==
  /\ cons.step = "store"
  /\ r' = IF Crosses(cons.len)
          THEN cons.len - (NMAX - cons.at) ELSE r + cons.len
  /\ q' = IF q = <<>> THEN q ELSE Ring!Rest(q, cons.len)
  /\ Ring!Returned(cons.len, cons.got)
  /\ cons' = Consumer
  /\ UNCHANGED <<w, buf, prod, restarts>>

-----------------------------------------------------------------------------
(* A process is killed anywhere in a call.  Started again, it clears the   *)
(* queue: w = r = 0 is a store to r, then one to w.                        *)
KillProducer ==
  /\ restarts < MaxRestarts
  /\ Quiet => cons.step = "idle"
  /\ restarts' = restarts + 1
  /\ prod' = [Producer EXCEPT !.step = "clear r"]
  /\ UNCHANGED <<shared, cons, q, ret>>

KillConsumer ==
  /\ restarts < MaxRestarts
  /\ Quiet => prod.step = "idle"
  /\ restarts' = restarts + 1
  /\ cons' = [Consumer EXCEPT !.step = "clear r"]
  /\ UNCHANGED <<shared, prod, q, ret>>

ClearR ==
  /\ r' = 0
  /\ \/ prod.step = "clear r" /\ prod' = [prod EXCEPT !.step = "clear w"] /\ UNCHANGED cons
     \/ cons.step = "clear r" /\ cons' = [cons EXCEPT !.step = "clear w"] /\ UNCHANGED prod
  /\ UNCHANGED <<w, buf, restarts, q, ret>>

ClearW ==
  /\ w' = 0
  /\ q' = <<>>
  /\ Ring!Returned(0, Ring!Nothing)
  /\ \/ prod.step = "clear w" /\ prod' = Producer /\ UNCHANGED cons
     \/ cons.step = "clear w" /\ cons' = Consumer /\ UNCHANGED prod
  /\ UNCHANGED <<r, buf, restarts>>

Next ==
  \/ \E m \in Msg : PushLoad(m)
  \/ PushCopy \/ PushRest \/ PushStore
  \/ \E op \in {"pop", "top_just"} : ReadLoad(op)
  \/ ReadPart \/ ReadLen \/ PopCopy \/ PopStore
  \/ KillProducer \/ KillConsumer \/ ClearR \/ ClearW

Spec == Init /\ [][Next]_vars

-----------------------------------------------------------------------------
Settled == ~Clearing(prod) /\ ~Clearing(cons)

(* What a reader may look at is never written: the bytes that a push in    *)
(* progress copies lie outside the pending ones, whatever the reader has   *)
(* done since the push loaded its cursors.                                 *)
Written ==
  LET len == MsgLen[prod.msg] IN
  CASE prod.step = "copy" /\ prod.split -> {x \in Positions : x >= prod.at}
    [] prod.step = "copy" /\ ~prod.split -> prod.at .. prod.at + len - 1
    [] prod.step = "rest" -> 0 .. len - ToEnd - 1
    [] OTHER -> {}
Pending == {PosOf(r, j) : j \in 0 .. Ring!Size - 1}
WritesOnlyFree == Settled => Written \cap Pending = {}

(* The pending bytes are the acknowledged messages, in their order, in     *)
(* every state in between the steps of a push and of a read.               *)
PendingIntact == Settled => Ring!Layout

(* The comments on push, pop and top_just call each an atomic operation    *)
(* (CQueue.h:53, CQueue.h:55, CQueue.cpp:8): the calls of the two          *)
(* processes take effect one after another, as those of a FIFO do, and     *)
(* return what its calls return.                                           *)
Fifo == INSTANCE MsgFifo WITH
          fifo <- [i \in 1 .. Len(q) |-> q[i].msg],
          used <- IF q = <<>> THEN 0 ELSE Ring!EndOf(q[Len(q)]),
          Wire <- [m \in Msg |-> Bytes(m)]
CallsAreAtomic == Fifo!Spec

(* "As long as the queue is not empty there is a message to read"          *)
(* (CQueue.cpp:44): when no process is clearing it, the oldest message that*)
(* push acknowledged lies at the read cursor.                              *)
NonEmptyIsReadable == Settled => Ring!NonEmptyReadable
=============================================================================
