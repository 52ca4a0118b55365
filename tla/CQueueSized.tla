---------------------------- MODULE CQueueSized ----------------------------
(***************************************************************************)
(* The deployments of CQueue the system makes: message lengths are         *)
(* multiples of a granule that does not divide the ring's capacity, so no  *)
(* sequence of pushes fills the ring to its last byte.  (insrv to midsrv:  *)
(* lengths 20 and 100 in 16777204 bytes; midsrv to insrv: length 112 in    *)
(* 2085 bytes.)                                                            *)
(***************************************************************************)
EXTENDS CQueue

CONSTANT Granule

ASSUME GranuleAssumption ==
  /\ Granule \in Nat \ {0}
  /\ \A m \in Msg : \E j \in 0 .. MsgLen[m] : MsgLen[m] = Granule * j
  /\ \A j \in 0 .. NMAX : NMAX # Granule * j

(* The fill of the ring is always a whole number of granules. *)
Granular == \E j \in 0 .. NMAX : Size = Granule * j

(* The inductive invariant behind the properties of CQueue. *)
QueueInv == TypeOK /\ Granular /\ Layout
=============================================================================
