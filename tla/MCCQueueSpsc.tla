---------------------------- MODULE MCCQueueSpsc ----------------------------
(* A ring of 9 bytes and messages of 2 and 4, which never fill it.         *)
EXTENDS CQueueSpsc, TLC

MCMsg == {"a", "b", "c"}
MCMsgLen == [m \in MCMsg |-> IF m = "c" THEN 4 ELSE 2]
=============================================================================
