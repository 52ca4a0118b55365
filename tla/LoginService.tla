---------------------------- MODULE LoginService ----------------------------
(***************************************************************************)
(* What the servers promise their clients: every login request that a      *)
(* client has sent is answered, once, to that client, in the order of its  *)
(* requests.  A server that is started again may abandon clients: they get *)
(* no wrong answer, and perhaps none at all.                               *)
(***************************************************************************)
EXTENDS Naturals, Sequences

CONSTANT Conns

VARIABLES
  asked,     \* asked[c]: requests sent on connection c
  answers,   \* answers[c]: the requests answered on c, in that order
  orphans,   \* the clients abandoned so far
  restarts   \* how often a server was started again

vars == <<asked, answers, orphans, restarts>>

Init ==
  /\ asked = [c \in Conns |-> 0]
  /\ answers = [c \in Conns |-> <<>>]
  /\ orphans = {} /\ restarts = 0

Ask(c) ==
  /\ asked' = [asked EXCEPT ![c] = @ + 1]
  /\ UNCHANGED <<answers, orphans, restarts>>

Answer(c) ==
  /\ Len(answers[c]) < asked[c]
  /\ answers' = [answers EXCEPT ![c] = Append(@, <<c, Len(@) + 1>>)]
  /\ UNCHANGED <<asked, orphans, restarts>>

Restart ==
  /\ restarts' = restarts + 1
  /\ orphans' \in {orphans \cup S : S \in SUBSET Conns}
  /\ UNCHANGED <<asked, answers>>

Next == Restart \/ \E c \in Conns : Ask(c) \/ Answer(c)

Safe == Init /\ [][Next]_vars

Spec == Safe /\ \A c \in Conns : WF_vars(c \notin orphans /\ Answer(c))
=============================================================================
