----------------------------- MODULE SimClient ------------------------------
(***************************************************************************)
(* simclient: every thread owns one connection c and repeats: send a login *)
(* request, recv at most one response's bytes (a single recv, which may    *)
(* return fewer).  The process may be killed between any two steps.        *)
(***************************************************************************)
EXTENDS GameMsg

VARIABLES
  cli,      \* cli[c]: where the thread is
  sent,     \* sent[c]: units the client has sent
  rcv,      \* rcv[c]: units the client has read
  up,       \* up[c]: units sent that the server has not read: their requests
  inbox,    \* inbox[c]: every unit the server sent to c: their requests
  backlog   \* connections that wait for accept

Phases == {"idle", "send", "recv", "done", "gone"}

CliInit ==
  /\ cli = [c \in Conns |-> "idle"]
  /\ sent = [c \in Conns |-> 0]
  /\ rcv = [c \in Conns |-> 0]
  /\ up = [c \in Conns |-> <<>>]
  /\ inbox = [c \in Conns |-> <<>>]
  /\ backlog = <<>>

Unread(c) == Len(inbox[c]) - rcv[c]

(* Whole requests sent, and whole responses delivered, on a connection. *)
Asked(c) == sent[c] \div ReqLen
Answered(c) == Len(inbox[c]) \div RspLen

Connect(c) ==
  /\ cli[c] = "idle"
  /\ cli' = [cli EXCEPT ![c] = "send"]
  /\ backlog' = Append(backlog, c)
  /\ UNCHANGED <<sent, rcv, up, inbox>>

(* One more unit of the request arrives at the server. *)
SendUnit(c) ==
  /\ cli[c] = "send"
  /\ sent' = [sent EXCEPT ![c] = @ + 1]
  /\ up' = [up EXCEPT ![c] = Append(@, sent[c] \div ReqLen + 1)]
  /\ cli' = [cli EXCEPT ![c] = IF sent'[c] % ReqLen = 0 THEN "recv" ELSE "send"]
  /\ UNCHANGED <<rcv, inbox, backlog>>

(* recv(fd, buf, 112): what has arrived, at most one response.  After the  *)
(* last request the loop only goes on reading (the bound MaxReq).          *)
Recv(c) ==
  /\ cli[c] \in {"recv", "done"} /\ Unread(c) > 0
  /\ rcv' = [rcv EXCEPT ![c] = @ + IF Unread(c) < RspLen THEN Unread(c) ELSE RspLen]
  /\ cli' = [cli EXCEPT ![c] = IF Asked(c) < MaxReq THEN "send" ELSE "done"]
  /\ UNCHANGED <<sent, up, inbox, backlog>>

(* The process ends and its socket closes. *)
Leave(c) ==
  /\ cli[c] \in {"send", "recv", "done"}
  /\ cli' = [cli EXCEPT ![c] = "gone"]
  /\ UNCHANGED <<sent, rcv, up, inbox, backlog>>

(* Every request the client has begun was sent, and its answer read. *)
AllRead(c) ==
  /\ sent[c] = ReqLen * Asked(c)
  /\ rcv[c] = RspLen * Asked(c)

CliProgress(c) == SendUnit(c) \/ Recv(c)
=============================================================================
