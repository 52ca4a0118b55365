-------------------------------- MODULE CMap --------------------------------
(***************************************************************************)
(* common/CMap: the registrations (index, socket) that midsrv keeps, in a  *)
(* table scanned from entry 1; an entry is free when its pindex is 0.      *)
(***************************************************************************)
EXTENDS Integers, FiniteSetsExt

CONSTANT EPOLL_SIZE

Entries == 1 .. EPOLL_SIZE
Cleared == [pindex |-> [i \in Entries |-> 0], psrvfd |-> [i \in Entries |-> 0]]

EntriesWith(column, x) == {i \in Entries : column[i] = x}
Filled(m, i, index, srvfd) ==
  [pindex |-> [m.pindex EXCEPT ![i] = index], psrvfd |-> [m.psrvfd EXCEPT ![i] = srvfd]]

(* reg(): refuses an index that is there already, or when no entry is free.*)
RegFails(m, index) ==
  EntriesWith(m.pindex, index) # {} \/ EntriesWith(m.pindex, 0) = {}
Reg(m, index, srvfd) ==
  IF RegFails(m, index) THEN m
  ELSE Filled(m, Min(EntriesWith(m.pindex, 0)), index, srvfd)

(* fnd(): the index of the first entry with that socket. *)
Fnd(m, srvfd) ==
  LET found == EntriesWith(m.psrvfd, srvfd) IN
  IF found = {} THEN -1 ELSE m.pindex[Min(found)]

(* Mutant: the freed entry keeps its socket. *)
DelKeepsSocket(m, index) ==
  LET found == EntriesWith(m.pindex, index) IN
  IF found = {} THEN m ELSE [m EXCEPT !.pindex[Min(found)] = 0]

(* del(): frees the first entry with that index. *)
Del(m, index) ==
  LET found == EntriesWith(m.pindex, index) IN
  IF found = {} THEN m ELSE Filled(m, Min(found), 0, 0)

(* The registrations in the table. *)
Registered(m) == {<<m.pindex[i], m.psrvfd[i]>> : i \in {j \in Entries : m.pindex[j] # 0}}
=============================================================================
