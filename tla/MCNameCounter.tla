--------------------------- MODULE MCNameCounter ---------------------------
(* Three threads that share two names. *)
EXTENDS NameCounter
CONSTANTS t1, t2, t3
ThreeThreads == {t1, t2, t3}
=============================================================================
