---------------------------- MODULE MCGameServer ----------------------------
(* Small deployments of the whole system.  A request is two or three units,*)
(* a length and a body; a response is sent together or in parts.           *)
EXTENDS GameServer, TLC

CONSTANTS c1, c2, c3

TwoConns == {c1, c2}
ThreeConns == {c1, c2, c3}
Clients == Permutations(ThreeConns)
=============================================================================
