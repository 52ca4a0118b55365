-------------------------- MODULE MCShmQueueMulti --------------------------
(* Two channels of three ring bytes in a segment with one byte to spare, a *)
(* clock that may be set back, and two messages of one length, which are   *)
(* interchangeable.                                                        *)
EXTENDS CShmQueueMulti, TLC

CONSTANTS a, b

MCMsg == {a, b}
MCMsgLen == [m \in MCMsg |-> 2]
MCClock == 0 .. 1
MCIntervals == {1}
MsgSymmetry == Permutations(MCMsg)
=============================================================================
