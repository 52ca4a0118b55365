------------------------------ MODULE MsgFifo ------------------------------
(***************************************************************************)
(* What a CQueue promises its two users: a bounded FIFO of whole messages. *)
(* A message is accepted exactly when its bytes fit beside those pending,  *)
(* a read returns the oldest message byte for byte, and a read fails only  *)
(* when nothing is pending.                                                *)
(***************************************************************************)
EXTENDS Integers, Sequences

CONSTANTS Msg, MsgLen, Wire, NMAX

VARIABLES
  fifo,  \* the pending messages, oldest first
  used,  \* the bytes they occupy
  ret    \* what the last call returned: its value and the caller's buffer

vars == <<fifo, used, ret>>

Nothing == <<>>

Init == fifo = <<>> /\ used = 0 /\ ret = [val |-> 0, bytes |-> Nothing]

Accept(m) ==
  /\ used + MsgLen[m] <= NMAX
  /\ fifo' = Append(fifo, m)
  /\ used' = used + MsgLen[m]
  /\ ret' = [val |-> MsgLen[m], bytes |-> Nothing]

Refuse(m) ==
  /\ used + MsgLen[m] > NMAX
  /\ ret' = [val |-> -1, bytes |-> Nothing]
  /\ UNCHANGED <<fifo, used>>

Read(removes, copies) ==
  /\ fifo # <<>>
  /\ ret' = [val |-> MsgLen[Head(fifo)],
             bytes |-> IF copies THEN Wire[Head(fifo)] ELSE Nothing]
  /\ fifo' = IF removes THEN Tail(fifo) ELSE fifo
  /\ used' = IF removes THEN used - MsgLen[Head(fifo)] ELSE used

ReadNothing ==
  /\ fifo = <<>>
  /\ ret' = [val |-> -1, bytes |-> Nothing]
  /\ UNCHANGED <<fifo, used>>

Clear ==
  /\ fifo' = <<>>
  /\ used' = 0
  /\ ret' = [val |-> 0, bytes |-> Nothing]

Next ==
  \/ \E m \in Msg : Accept(m) \/ Refuse(m)
  \/ \E removes, copies \in BOOLEAN : Read(removes, copies)
  \/ ReadNothing
  \/ Clear

Spec == Init /\ [][Next]_vars
=============================================================================
