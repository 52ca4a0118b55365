----------------------------- MODULE CMidHandle -----------------------------
(***************************************************************************)
(* midsrv: the loop that takes the messages of insrv one by one, and the   *)
(* handlers of CMidHandle.  A login's answer goes to the channel of the    *)
(* index that its socket is registered under.                              *)
(***************************************************************************)
EXTENDS GameMsg

VARIABLES
  map,    \* CMidHandle::map
  inmsg,  \* the message popped and not yet handled, NoMsg, or Down
  sinq,   \* messages from insrv, shared memory
  mulq    \* mulq[i]: answers for connection index i, shared memory

Map == INSTANCE CMap

NoMsg == [id |-> "none"]
Down == [id |-> "down"]      \* midsrv does not run

MidInit == map = Map!Cleared /\ inmsg = NoMsg

(* while (sinq.popmsg(&inmsgbuf) > 0): the queue is seen empty otherwise. *)
PopMsg ==
  /\ inmsg = NoMsg /\ sinq # <<>>
  /\ inmsg' = Head(sinq)
  /\ sinq' = Tail(sinq)
  /\ UNCHANGED <<map, mulq>>

Handled == inmsg' = NoMsg /\ UNCHANGED sinq

HandleNewConnect ==
  /\ inmsg.id = "NEW_CONNECT"
  /\ map' = Map!Reg(map, inmsg.srcid, inmsg.dstid)
  /\ UNCHANGED mulq
  /\ Handled

(* Mutant: the registration is looked up by the socket. *)
HandleCloBySocket ==
  /\ inmsg.id = "CLO_CONNECT"
  /\ map' = Map!Del(map, inmsg.dstid)
  /\ UNCHANGED mulq
  /\ Handled

HandleCloConnect ==
  /\ inmsg.id = "CLO_CONNECT"
  /\ map' = Map!Del(map, inmsg.srcid)
  /\ UNCHANGED mulq
  /\ Handled

(* Mutant: the socket is taken for the connection's index. *)
SocketAsChannel == inmsg.dstid

(* The channel that a login is answered on, -1 when its socket is unknown. *)
Channel == Map!Fnd(map, inmsg.dstid)

ChannelTakes(i) == (Len(mulq[i]) + 1) * RspLen <= ChanCap

(* handle_MSGID_I2M_LOGIN: the answer is lost when fnd or pushmsg fails.   *)
(* Channel is a member of Slots here (DispatchInRange).                    *)
HandleLogin ==
  /\ inmsg.id = "LOGIN"
  /\ IF Channel \in Slots /\ ChannelTakes(Channel)
     THEN mulq' = [mulq EXCEPT ![Channel] = Append(@, inmsg.req)]
     ELSE UNCHANGED mulq
  /\ UNCHANGED map
  /\ Handled

(* The process ends, with its map and the message it was handling. *)
MidEnds ==
  /\ inmsg # Down
  /\ inmsg' = Down
  /\ map' = Map!Cleared
  /\ UNCHANGED <<sinq, mulq>>

(* Mutant: the queue of insrv's messages is not cleared. *)
MidStartsWithQueue ==
  /\ inmsg = Down
  /\ inmsg' = NoMsg
  /\ mulq' = [i \in Slots |-> <<>>]
  /\ UNCHANGED <<map, sinq>>

(* main() up to its loop: the map is new, the queues are cleared. *)
MidStarts ==
  /\ inmsg = Down
  /\ inmsg' = NoMsg
  /\ sinq' = <<>>
  /\ mulq' = [i \in Slots |-> <<>>]
  /\ UNCHANGED map

MidNext == PopMsg \/ HandleNewConnect \/ HandleCloConnect \/ HandleLogin
=============================================================================
