---------------------------- MODULE MCCQueueFull ----------------------------
(* A ring whose capacity is a multiple of the message lengths: a push can  *)
(* fill it to the last byte, which nothing in CQueue excludes.             *)
EXTENDS CQueue, TLC

MCMsg == {"a", "b"}
MCMsgLen == [m \in MCMsg |-> IF m = "b" THEN 4 ELSE 2]

(* A message that push acknowledged is pending: as long as one is, size()  *)
(* is not 0 (CShmQueueSingle.h:54, CQueue.h:3).                            *)
AcknowledgedIsPending == q # <<>> => ~Empty
=============================================================================
