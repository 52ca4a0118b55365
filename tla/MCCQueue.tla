------------------------------ MODULE MCCQueue ------------------------------
(* Three messages, two of them of one length, in a ring of 11 bytes: they  *)
(* wrap at every offset of the even positions and the header is split by   *)
(* the end of the ring.                                                    *)
EXTENDS CQueueSized, TLC

MCMsg == {"a", "b", "c"}
MCMsgLen == [m \in MCMsg |-> IF m = "c" THEN 4 ELSE 2]
=============================================================================
