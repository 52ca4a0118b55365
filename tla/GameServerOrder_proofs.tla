----------------------- MODULE GameServerOrder_proofs ----------------------
(***************************************************************************)
(* The order of the requests.  What waits in sendmsg and in the channel of *)
(* a slot follows the answers its client has (Counted), and of a slot that *)
(* midsrv knows the logins on their way to midsrv and the one in recvmsg   *)
(* follow those, and are all that insrv has read and not answered          *)
(* (Complete).  With this a client that is gone has left nothing behind.   *)
(* Every step keeps it, effect by effect (OrderInv).  It gives             *)
(* PipelineInOrder, AnswersGoHome, and that the servers implement the      *)
(* safety part of LoginService.                                            *)
(***************************************************************************)
EXTENDS GameServerFlow_proofs

-----------------------------------------------------------------------------
(* Runs of requests: those of connection c that follow its a-th. *)
Runs(s, c, a) == \A k \in 1 .. Len(s) : s[k] = <<c, a + k>>

LEMMA RunsNone ==
  ASSUME NEW c, NEW a
  PROVE  Runs(<<>>, c, a)
BY DEF Runs

LEMMA RunsOne ==
  ASSUME NEW c, NEW a \in Nat, NEW x
  PROVE  Len(<<x>>) = 1 /\ (Runs(<<x>>, c, a) <=> x = <<c, a + 1>>)
BY DEF Runs

(* s is x followed by t. *)
Starts(s, x, t) ==
  /\ Len(s) = Len(t) + 1 /\ s[1] = x
  /\ \A k \in 1 .. Len(t) : s[k + 1] = t[k]

LEMMA StartsHead ==
  ASSUME NEW M, NEW s \in Seq(M), s # <<>>
  PROVE  Head(s) \in M /\ Tail(s) \in Seq(M) /\ Starts(s, Head(s), Tail(s))
BY DEF Starts

LEMMA StartsJoined ==
  ASSUME NEW M, NEW t \in Seq(M), NEW x \in M
  PROVE  <<x>> \o t \in Seq(M) /\ Starts(<<x>> \o t, x, t)
BY DEF Starts

LEMMA RunsStart ==
  ASSUME NEW M, NEW t \in Seq(M), NEW s, NEW x, Starts(s, x, t),
         NEW c, NEW a \in Nat, Runs(s, c, a)
  PROVE  x = <<c, a + 1>> /\ Runs(t, c, a + 1)
<1>1. Len(t) \in Nat /\ Len(s) = Len(t) + 1
  BY DEF Starts
<1>2. 1 \in 1 .. Len(s) /\ s[1] = x
  BY <1>1 DEF Starts
<1>3. x = <<c, a + 1>>
  BY <1>2 DEF Runs
<1>4. ASSUME NEW k \in 1 .. Len(t)
      PROVE  t[k] = <<c, (a + 1) + k>>
  <2>1. k + 1 \in 1 .. Len(s) /\ s[k + 1] = t[k]
    BY <1>1 DEF Starts
  <2>2. s[k + 1] = <<c, a + (k + 1)>>
    BY <2>1 DEF Runs
  <2>3. a + (k + 1) = (a + 1) + k
    BY <1>1
  <2>. QED BY <2>1, <2>2, <2>3
<1>. QED BY <1>3, <1>4 DEF Runs

LEMMA RunsAppend ==
  ASSUME NEW M, NEW s \in Seq(M), NEW c, NEW a \in Nat, Runs(s, c, a),
         NEW x, x = <<c, a + Len(s) + 1>>
  PROVE  Len(Append(s, x)) = Len(s) + 1 /\ Runs(Append(s, x), c, a)
<1>1. /\ Len(Append(s, x)) = Len(s) + 1 /\ Len(s) \in Nat
      /\ \A k \in 1 .. Len(s) : Append(s, x)[k] = s[k]
      /\ Append(s, x)[Len(s) + 1] = x
  OBVIOUS
<1>2. ASSUME NEW k \in 1 .. Len(s) + 1
      PROVE  Append(s, x)[k] = <<c, a + k>>
  <2>1. CASE k \in 1 .. Len(s)
    BY <1>1, <2>1 DEF Runs
  <2>2. CASE k = Len(s) + 1
    <3>1. a + Len(s) + 1 = a + k
      BY <1>1, <2>2
    <3>. QED BY <1>1, <2>2, <3>1
  <2>. QED BY <1>1, <2>1, <2>2
<1>. QED BY <1>1, <1>2 DEF Runs

LEMMA RunsJoin ==
  ASSUME NEW M, NEW s \in Seq(M), NEW t \in Seq(M), NEW c, Runs(s, c, 0), Runs(t, c, Len(s))
  PROVE  s \o t \in Seq(M) /\ Len(s \o t) = Len(s) + Len(t) /\ Runs(s \o t, c, 0)
<1>1. Len(s) \in Nat /\ Len(t) \in Nat /\ s \o t \in Seq(M)
  OBVIOUS
<1>2. /\ Len(s \o t) = Len(s) + Len(t)
      /\ \A j \in 1 .. Len(s) + Len(t) : (s \o t)[j] = IF j <= Len(s) THEN s[j] ELSE t[j - Len(s)]
  BY Concat
<1>3. ASSUME NEW j \in 1 .. Len(s) + Len(t)
      PROVE  (s \o t)[j] = <<c, 0 + j>>
  <2>1. CASE j <= Len(s)
    <3>1. j \in 1 .. Len(s)
      BY <1>1, <2>1
    <3>. QED BY <1>2, <2>1, <3>1 DEF Runs
  <2>2. CASE ~(j <= Len(s))
    <3>1. j - Len(s) \in 1 .. Len(t) /\ Len(s) + (j - Len(s)) = 0 + j
      BY <1>1, <2>2
    <3>2. t[j - Len(s)] = <<c, Len(s) + (j - Len(s))>>
      BY <3>1 DEF Runs
    <3>. QED BY <1>2, <2>2, <3>1, <3>2
  <2>. QED BY <2>1, <2>2
<1>. QED BY <1>1, <1>2, <1>3 DEF Runs

LEMMA RunsAll ==
  ASSUME NEW M, NEW s \in Seq(M), NEW c, Runs(s, c, 0)
  PROVE  s = FirstRequests(c, Len(s))
<1>1. s = [k \in 1 .. Len(s) |-> s[k]]
  OBVIOUS
<1>2. \A k \in 1 .. Len(s) : s[k] = <<c, k>>
  BY DEF Runs
<1>. QED BY <1>1, <1>2 DEF FirstRequests

LEMMA FirstRuns ==
  ASSUME NEW c \in Conns, NEW n \in Nat
  PROVE  /\ FirstRequests(c, n) \in Seq(Conns \X Nat)
         /\ Len(FirstRequests(c, n)) = n /\ Runs(FirstRequests(c, n), c, 0)
<1>1. \A k \in 1 .. n : <<c, k>> \in Conns \X Nat
  OBVIOUS
<1>2. FirstRequests(c, n) \in [1 .. n -> Conns \X Nat]
  BY <1>1 DEF FirstRequests
<1>3. FirstRequests(c, n) \in Seq(Conns \X Nat) /\ Len(FirstRequests(c, n)) = n
  BY <1>2
<1>. QED BY <1>3 DEF Runs, FirstRequests

-----------------------------------------------------------------------------
(* The requests of one connection c inside the servers: a of them are      *)
(* answered and r were read; S, Q, L and T are those in sendmsg, in the    *)
(* channel, on the way to midsrv and in recvmsg.  None is there that was   *)
(* not read, and answers are in order; of a slot that midsrv knows, none   *)
(* is missing and all are in order.                                        *)
Count(S, Q, L, T) == Len(S) + Len(Q) + Len(L) + Len(T)
Counted(c, a, r, S, Q, L, T) ==
  a + Count(S, Q, L, T) <= r /\ Runs(S, c, a) /\ Runs(Q, c, a + Len(S))
Complete(c, a, r, S, Q, L, T) ==
  /\ a + Count(S, Q, L, T) = r /\ Runs(S, c, a) /\ Runs(Q, c, a + Len(S))
  /\ Runs(L, c, a + Len(S) + Len(Q)) /\ Runs(T, c, r - Len(T))

Parts(a, r, S, Q, L, T) ==
  /\ a \in Nat /\ r \in Nat
  /\ S \in Seq(Requests) /\ Q \in Seq(Requests) /\ L \in Seq(Requests) /\ T \in Seq(Requests)

LEMMA PartsForm ==
  ASSUME NEW a, NEW r, NEW S, NEW Q, NEW L, NEW T, Parts(a, r, S, Q, L, T)
  PROVE  /\ a \in Nat /\ r \in Nat
         /\ S \in Seq(Requests) /\ Q \in Seq(Requests) /\ L \in Seq(Requests)
         /\ T \in Seq(Requests)
         /\ Len(S) \in Nat /\ Len(Q) \in Nat /\ Len(L) \in Nat /\ Len(T) \in Nat
BY DEF Parts

LEMMA CompleteCounted ==
  ASSUME NEW c, NEW a, NEW r, NEW S, NEW Q, NEW L, NEW T, Parts(a, r, S, Q, L, T),
         Complete(c, a, r, S, Q, L, T)
  PROVE  Counted(c, a, r, S, Q, L, T)
BY DEF Complete, Counted, Parts

(* Nothing is in the servers of a connection whose requests are answered.  *)
LEMMA NoneLeft ==
  ASSUME NEW c, NEW a, NEW r, NEW S, NEW Q, NEW L, NEW T, Parts(a, r, S, Q, L, T),
         Counted(c, a, r, S, Q, L, T), a >= r
  PROVE  S = <<>> /\ Q = <<>> /\ L = <<>> /\ T = <<>>
<1>1. Len(S) = 0 /\ Len(Q) = 0 /\ Len(L) = 0 /\ Len(T) = 0
  BY PartsForm DEF Counted, Count
<1>. QED BY <1>1, PartsForm

LEMMA CompleteEmpty ==
  ASSUME NEW c, NEW a \in Nat
  PROVE  Complete(c, a, a, <<>>, <<>>, <<>>, <<>>)
BY DEF Complete, Count, Runs

(* midsrv starts with empty queues. *)
LEMMA CountedCleared ==
  ASSUME NEW c, NEW a, NEW r, NEW S, NEW Q, NEW L, NEW T, Parts(a, r, S, Q, L, T),
         Counted(c, a, r, S, Q, L, T)
  PROVE  Counted(c, a, r, S, <<>>, <<>>, T)
<1>1. Len(<<>>) = 0 /\ Runs(<<>>, c, a + Len(S))
  BY DEF Runs
<1>2. /\ Count(S, <<>>, <<>>, T) \in Nat /\ Count(S, Q, L, T) \in Nat
      /\ Count(S, <<>>, <<>>, T) <= Count(S, Q, L, T)
  BY <1>1, PartsForm DEF Count
<1>. HIDE DEF Count
<1>3. a + Count(S, <<>>, <<>>, T) <= r
  BY <1>2, PartsForm DEF Counted
<1>. QED BY <1>1, <1>3 DEF Counted

(* The oldest answer in the channel moves to sendmsg. *)
LEMMA OrderTakes ==
  ASSUME NEW c, NEW a, NEW r, NEW Q, NEW L, NEW T, Parts(a, r, <<>>, Q, L, T),
         Counted(c, a, r, <<>>, Q, L, T), Q # <<>>
  PROVE  /\ Counted(c, a, r, <<Head(Q)>>, Tail(Q), L, T)
         /\ Complete(c, a, r, <<>>, Q, L, T) => Complete(c, a, r, <<Head(Q)>>, Tail(Q), L, T)
<1>. DEFINE x == Head(Q)  t == Tail(Q)
<1>1. /\ Q \in Seq(Requests) /\ a \in Nat /\ r \in Nat
      /\ Len(Q) \in Nat /\ Len(L) \in Nat /\ Len(T) \in Nat /\ Len(<<>>) = 0
  BY PartsForm
<1>2. x \in Requests /\ t \in Seq(Requests) /\ Starts(Q, x, t)
  BY <1>1, StartsHead
<1>3. Len(Q) = Len(t) + 1 /\ Len(t) \in Nat
  BY <1>2 DEF Starts
<1>4. Len(<<x>>) = 1 /\ (Runs(<<x>>, c, a) <=> x = <<c, a + 1>>)
  BY <1>1, RunsOne
<1>. HIDE DEF x, t
<1>5. x = <<c, a + 1>> /\ Runs(t, c, a + 1)
  <2>1. Runs(Q, c, a + Len(<<>>))
    BY DEF Counted
  <2>2. a + Len(<<>>) = a
    BY <1>1
  <2>. QED BY <1>1, <1>2, <2>1, <2>2, RunsStart
<1>6. Count(<<x>>, t, L, T) = Count(<<>>, Q, L, T)
  BY <1>1, <1>3, <1>4 DEF Count
<1>7. a + Len(<<x>>) + Len(t) = a + Len(<<>>) + Len(Q) /\ a + Len(<<x>>) = a + 1
  BY <1>1, <1>3, <1>4
<1>. QED BY <1>4, <1>5, <1>6, <1>7 DEF Counted, Complete, x, t

(* The answer in sendmsg is sent as a whole. *)
LEMMA OrderSends ==
  ASSUME NEW c, NEW a, NEW r, NEW x, NEW Q, NEW L, NEW T, Parts(a, r, <<x>>, Q, L, T),
         Counted(c, a, r, <<x>>, Q, L, T)
  PROVE  /\ x = <<c, a + 1>> /\ a < r
         /\ Counted(c, a + 1, r, <<>>, Q, L, T)
         /\ Complete(c, a, r, <<x>>, Q, L, T) => Complete(c, a + 1, r, <<>>, Q, L, T)
<1>1. /\ a \in Nat /\ r \in Nat /\ Len(<<>>) = 0 /\ Len(<<x>>) = 1
      /\ Len(Q) \in Nat /\ Len(L) \in Nat /\ Len(T) \in Nat
  BY PartsForm
<1>2. x = <<c, a + 1>>
  BY <1>1, RunsOne DEF Counted
<1>3. (a + 1) + Count(<<>>, Q, L, T) = a + Count(<<x>>, Q, L, T)
  BY <1>1 DEF Count
<1>4. (a + 1) + Len(<<>>) + Len(Q) = a + Len(<<x>>) + Len(Q)
      /\ (a + 1) + Len(<<>>) = a + Len(<<x>>)
  BY <1>1
<1>5. a < r
  BY <1>1 DEF Counted, Count
<1>. QED BY <1>2, <1>3, <1>4, <1>5, RunsNone DEF Counted, Complete

(* A request that was just read, the next one, goes on the way to midsrv   *)
(* or stays in recvmsg.                                                    *)
LEMMA OrderReads ==
  ASSUME NEW c, NEW a, NEW r, NEW S, NEW Q, NEW L, Parts(a, r, S, Q, L, <<>>),
         Counted(c, a, r, S, Q, L, <<>>), NEW x \in Requests, x = <<c, r + 1>>
  PROVE  /\ Counted(c, a, r + 1, S, Q, Append(L, x), <<>>)
         /\ Counted(c, a, r + 1, S, Q, L, <<x>>)
         /\ Complete(c, a, r, S, Q, L, <<>>) => /\ Complete(c, a, r + 1, S, Q, Append(L, x), <<>>)
                                                /\ Complete(c, a, r + 1, S, Q, L, <<x>>)
<1>1. /\ a \in Nat /\ r \in Nat /\ Len(<<>>) = 0 /\ Len(<<x>>) = 1
      /\ Len(S) \in Nat /\ Len(Q) \in Nat /\ Len(L) \in Nat
      /\ L \in Seq(Requests) /\ Len(Append(L, x)) = Len(L) + 1
  BY PartsForm
<1>2. /\ Count(S, Q, Append(L, x), <<>>) = Count(S, Q, L, <<>>) + 1
      /\ Count(S, Q, L, <<x>>) = Count(S, Q, L, <<>>) + 1
      /\ Count(S, Q, L, <<>>) \in Nat
      /\ Count(S, Q, L, <<>>) = Len(S) + Len(Q) + Len(L)
  BY <1>1 DEF Count
<1>. HIDE DEF Count
<1>3. a + (Count(S, Q, L, <<>>) + 1) <= r + 1
  BY <1>1, <1>2 DEF Counted
<1>4. ASSUME Complete(c, a, r, S, Q, L, <<>>)
      PROVE  /\ a + (Count(S, Q, L, <<>>) + 1) = r + 1
             /\ Runs(Append(L, x), c, a + Len(S) + Len(Q))
             /\ Runs(L, c, a + Len(S) + Len(Q))
  <2>1. a + Count(S, Q, L, <<>>) = r /\ Runs(L, c, a + Len(S) + Len(Q))
    BY <1>4 DEF Complete
  <2>2. a + Len(S) + Len(Q) \in Nat
    BY <1>1
  <2>3. (a + Len(S) + Len(Q)) + Len(L) + 1 = r + 1
    <3>1. Count(S, Q, L, <<>>) = Len(S) + Len(Q) + Len(L)
      BY <1>2
    <3>2. a + (Len(S) + Len(Q) + Len(L)) = r
      BY <2>1, <3>1
    <3>. QED BY <1>1, <3>2
  <2>4. a + (Count(S, Q, L, <<>>) + 1) = r + 1
    BY <1>1, <1>2, <2>1
  <2>. QED BY <1>1, <2>1, <2>2, <2>3, <2>4, RunsAppend
<1>5. Runs(<<x>>, c, (r + 1) - Len(<<x>>)) /\ Runs(<<>>, c, (r + 1) - Len(<<>>))
  <2>1. (r + 1) - Len(<<x>>) = r
    BY <1>1
  <2>. QED BY <1>1, <2>1, RunsOne, RunsNone
<1>. QED BY <1>2, <1>3, <1>4, <1>5 DEF Counted, Complete

(* The request in recvmsg goes on the way to midsrv. *)
LEMMA OrderRetries ==
  ASSUME NEW c, NEW a, NEW r, NEW S, NEW Q, NEW L, NEW x \in Requests,
         Parts(a, r, S, Q, L, <<x>>), Counted(c, a, r, S, Q, L, <<x>>)
  PROVE  /\ Counted(c, a, r, S, Q, Append(L, x), <<>>)
         /\ Complete(c, a, r, S, Q, L, <<x>>) => Complete(c, a, r, S, Q, Append(L, x), <<>>)
<1>1. /\ a \in Nat /\ r \in Nat /\ Len(<<>>) = 0 /\ Len(<<x>>) = 1
      /\ Len(S) \in Nat /\ Len(Q) \in Nat /\ Len(L) \in Nat
      /\ L \in Seq(Requests) /\ Len(Append(L, x)) = Len(L) + 1
  BY PartsForm
<1>2. /\ Count(S, Q, Append(L, x), <<>>) = Count(S, Q, L, <<x>>)
      /\ Count(S, Q, L, <<x>>) = Len(S) + Len(Q) + Len(L) + 1
  BY <1>1 DEF Count
<1>. HIDE DEF Count
<1>3. ASSUME Complete(c, a, r, S, Q, L, <<x>>)
      PROVE  Runs(Append(L, x), c, a + Len(S) + Len(Q))
  <2>1. a + Len(S) + Len(Q) + Len(L) + 1 = r
    BY <1>1, <1>2, <1>3 DEF Complete
  <2>2. r - 1 \in Nat /\ (r - 1) + 1 = r /\ a + Len(S) + Len(Q) \in Nat
    BY <1>1, <2>1
  <2>3. Runs(<<x>>, c, r - 1)
    BY <1>1, <1>3 DEF Complete
  <2>4. x = <<c, (r - 1) + 1>>
    BY <2>2, <2>3, RunsOne
  <2>5. (a + Len(S) + Len(Q)) + Len(L) + 1 = (r - 1) + 1
    BY <1>1, <2>1
  <2>6. Runs(L, c, a + Len(S) + Len(Q))
    BY <1>3 DEF Complete
  <2>. QED BY <1>1, <2>2, <2>4, <2>5, <2>6, RunsAppend
<1>. QED BY <1>2, <1>3, RunsNone DEF Counted, Complete

(* midsrv takes the first request on the way to it: when it knows the slot *)
(* that is the next of the channel, and else it is lost.                   *)
LEMMA OrderPuts ==
  ASSUME NEW c, NEW a, NEW r, NEW S, NEW Q, NEW L, NEW T, Parts(a, r, S, Q, L, T),
         NEW x, NEW t \in Seq(Requests), Starts(L, x, t), Complete(c, a, r, S, Q, L, T)
  PROVE  /\ x = <<c, a + Len(S) + Len(Q) + 1>>
         /\ Complete(c, a, r, S, Append(Q, x), t, T)
<1>1. /\ a \in Nat /\ r \in Nat /\ Q \in Seq(Requests) /\ L \in Seq(Requests)
      /\ Len(S) \in Nat /\ Len(Q) \in Nat /\ Len(L) \in Nat /\ Len(T) \in Nat
      /\ Len(t) \in Nat
  BY PartsForm
<1>2. Len(L) = Len(t) + 1
  BY DEF Starts
<1>3. a + Len(S) + Len(Q) \in Nat /\ a + Len(S) \in Nat
  BY <1>1
<1>4. x = <<c, (a + Len(S) + Len(Q)) + 1>> /\ Runs(t, c, (a + Len(S) + Len(Q)) + 1)
  <2>1. Runs(L, c, a + Len(S) + Len(Q))
    BY DEF Complete
  <2>. QED BY <1>3, <2>1, RunsStart
<1>5. Len(Append(Q, x)) = Len(Q) + 1 /\ Runs(Append(Q, x), c, a + Len(S))
  <2>1. x = <<c, (a + Len(S)) + Len(Q) + 1>>
    BY <1>1, <1>4
  <2>2. Runs(Q, c, a + Len(S))
    BY DEF Complete
  <2>. QED BY <1>1, <1>3, <2>1, <2>2, RunsAppend
<1>6. Count(S, Append(Q, x), t, T) = Count(S, Q, L, T)
  BY <1>1, <1>2, <1>5 DEF Count
<1>7. a + Len(S) + Len(Append(Q, x)) = (a + Len(S) + Len(Q)) + 1
  BY <1>1, <1>5
<1>. QED BY <1>4, <1>5, <1>6, <1>7 DEF Complete

LEMMA OrderLoses ==
  ASSUME NEW c, NEW a, NEW r, NEW S, NEW Q, NEW L, NEW T, Parts(a, r, S, Q, L, T),
         NEW x, NEW t \in Seq(Requests), Starts(L, x, t), Counted(c, a, r, S, Q, L, T)
  PROVE  Counted(c, a, r, S, Q, t, T)
<1>1. /\ a \in Nat /\ r \in Nat
      /\ Len(S) \in Nat /\ Len(Q) \in Nat /\ Len(L) \in Nat /\ Len(T) \in Nat
      /\ Len(t) \in Nat
  BY PartsForm
<1>2. Len(L) = Len(t) + 1
  BY DEF Starts
<1>3. Count(S, Q, L, T) = Count(S, Q, t, T) + 1 /\ Count(S, Q, t, T) \in Nat
  BY <1>1, <1>2 DEF Count
<1>. HIDE DEF Count
<1>4. a + Count(S, Q, t, T) <= r
  BY <1>1, <1>3 DEF Counted
<1>. QED BY <1>4 DEF Counted

(* Requests that are all there, in order, follow those that are answered.  *)
LEMMA CompleteJoins ==
  ASSUME NEW c \in Conns, NEW a, NEW r, NEW S, NEW Q, NEW L, NEW T, Parts(a, r, S, Q, L, T),
         Complete(c, a, r, S, Q, L, T)
  PROVE  FirstRequests(c, a) \o S \o Q \o L \o T = FirstRequests(c, r)
<1>. DEFINE M == Conns \X Nat  f == FirstRequests(c, a)
<1>1. /\ a \in Nat /\ r \in Nat
      /\ Len(S) \in Nat /\ Len(Q) \in Nat /\ Len(L) \in Nat /\ Len(T) \in Nat
  BY PartsForm
<1>2. S \in Seq(M) /\ Q \in Seq(M) /\ L \in Seq(M) /\ T \in Seq(M)
  <2>1. Requests \subseteq M
    BY DEF Requests
  <2>2. \A s \in Seq(Requests) : s \in Seq(M)
    BY <2>1
  <2>. QED BY <2>2, PartsForm
<1>3. f \in Seq(M) /\ Len(f) = a /\ Runs(f, c, 0)
  BY <1>1, FirstRuns
<1>4. /\ Runs(S, c, a) /\ Runs(Q, c, a + Len(S)) /\ Runs(L, c, a + Len(S) + Len(Q))
      /\ Runs(T, c, r - Len(T))
  BY DEF Complete
<1>5. r - Len(T) = a + Len(S) + Len(Q) + Len(L) /\ r = a + Len(S) + Len(Q) + Len(L) + Len(T)
  BY <1>1 DEF Complete, Count
<1>. HIDE DEF M, f
<1>6. f \o S \in Seq(M) /\ Len(f \o S) = a + Len(S) /\ Runs(f \o S, c, 0)
  BY <1>2, <1>3, <1>4, RunsJoin
<1>7. /\ f \o S \o Q \in Seq(M) /\ Len(f \o S \o Q) = a + Len(S) + Len(Q)
      /\ Runs(f \o S \o Q, c, 0)
  BY <1>2, <1>4, <1>6, RunsJoin
<1>8. /\ f \o S \o Q \o L \in Seq(M) /\ Len(f \o S \o Q \o L) = a + Len(S) + Len(Q) + Len(L)
      /\ Runs(f \o S \o Q \o L, c, 0)
  BY <1>2, <1>4, <1>7, RunsJoin
<1>9. /\ f \o S \o Q \o L \o T \in Seq(M) /\ Len(f \o S \o Q \o L \o T) = r
      /\ Runs(f \o S \o Q \o L \o T, c, 0)
  BY <1>2, <1>4, <1>5, <1>8, RunsJoin
<1>. QED BY <1>9, RunsAll DEF f

-----------------------------------------------------------------------------
(* The logins of a socket among messages *)

IsLogin(m, fd) == m.id = "LOGIN" /\ m.dstid = fd
Added(fd, q, m) == IF IsLogin(m, fd) THEN Append(q, m.req) ELSE q
LoginsStep(fd) == [p \in Seq(Requests) \X Msgs |-> Added(fd, p[1], p[2])]

LEMMA AddedType ==
  ASSUME NEW fd, NEW q \in Seq(Requests), NEW m \in Msgs
  PROVE  /\ Added(fd, q, m) \in Seq(Requests)
         /\ LoginsStep(fd)[<<q, m>>] = Added(fd, q, m)
BY MsgFields DEF Added, IsLogin, LoginsStep

LEMMA LoginsFolds ==
  ASSUME NEW fd, NEW s \in Seq(Msgs)
  PROVE  /\ Logins(fd, s) = Folded(s, <<>>, LoginsStep(fd))
         /\ Foldable(s, <<>>, LoginsStep(fd), Seq(Requests), Msgs)
<1>. DEFINE step == LoginsStep(fd)
            t == <<>>
            iter == CHOOSE g : g = [u \in SUBSET DOMAIN s |->
                      IF u = {} THEN <<>>
                      ELSE IF s[Max(u)].id = "LOGIN" /\ s[Max(u)].dstid = fd
                           THEN Append(g[u \ {Max(u)}], s[Max(u)].req)
                           ELSE g[u \ {Max(u)}]]
<1>1. Logins(fd, s) = iter[DOMAIN s]
  BY DEF Logins, FoldLeft, MapThenFoldSet
<1>2. Foldable(s, t, step, Seq(Requests), Msgs)
  <2>1. \A p \in Seq(Requests) \X Msgs : Added(fd, p[1], p[2]) \in Seq(Requests)
    BY AddedType
  <2>2. step \in [Seq(Requests) \X Msgs -> Seq(Requests)]
    BY <2>1 DEF LoginsStep
  <2>3. t \in Seq(Requests)
    OBVIOUS
  <2>. HIDE DEF step, t
  <2>. QED BY <2>2, <2>3 DEF Foldable
<1>3. PICK g \in [SUBSET DOMAIN s -> Seq(Requests)] : Folding(g, s, t, step)
  BY <1>2, FoldExists
<1>a. \A a \in Seq(Requests) : \A b \in Msgs : step[<<a, b>>] = Added(fd, a, b)
  BY AddedType
<1>. HIDE DEF step, t
<1>4. iter = [u \in SUBSET DOMAIN s |->
                IF u = {} THEN t ELSE Added(fd, iter[u \ {Max(u)}], s[Max(u)])]
  <2>1. ASSUME NEW u \in SUBSET DOMAIN s, u # {}
        PROVE  step[<<g[u \ {Max(u)}], s[Max(u)]>>] = Added(fd, g[u \ {Max(u)}], s[Max(u)])
    <3>1. Max(u) \in DOMAIN s
      BY <2>1, MaxInDomain
    <3>2. s[Max(u)] \in Msgs /\ g[u \ {Max(u)}] \in Seq(Requests)
      BY <3>1
    <3>. QED BY <1>a, <3>2
  <2>2. g = [u \in SUBSET DOMAIN s |->
               IF u = {} THEN t ELSE Added(fd, g[u \ {Max(u)}], s[Max(u)])]
    BY <1>3, <2>1 DEF Folding
  <2>3. g = [u \in SUBSET DOMAIN s |->
                      IF u = {} THEN <<>>
                      ELSE IF s[Max(u)].id = "LOGIN" /\ s[Max(u)].dstid = fd
                           THEN Append(g[u \ {Max(u)}], s[Max(u)].req)
                           ELSE g[u \ {Max(u)}]]
    BY <2>2 DEF Added, IsLogin, t
  <2>4. iter = [u \in SUBSET DOMAIN s |->
                      IF u = {} THEN <<>>
                      ELSE IF s[Max(u)].id = "LOGIN" /\ s[Max(u)].dstid = fd
                           THEN Append(iter[u \ {Max(u)}], s[Max(u)].req)
                           ELSE iter[u \ {Max(u)}]]
    BY <2>3
  <2>. HIDE DEF iter
  <2>. QED BY <2>4 DEF Added, IsLogin, t
<1>. HIDE DEF iter
<1>5. iter[{}] = t
  BY <1>4
<1>6. ASSUME NEW k \in 1 .. Len(s), iter[1 .. k - 1] \in Seq(Requests)
      PROVE  iter[1 .. k] = step[<<iter[1 .. k - 1], s[k]>>]
  <2>1. Max(1 .. k) = k /\ (1 .. k) \ {k} = 1 .. k - 1 /\ 1 .. k # {}
    BY PrefixMax
  <2>2. 1 .. k \in SUBSET DOMAIN s
    OBVIOUS
  <2>3. iter[1 .. k] = Added(fd, iter[1 .. k - 1], s[k])
    BY <1>4, <2>1, <2>2
  <2>4. s[k] \in Msgs
    OBVIOUS
  <2>. QED BY <1>a, <1>6, <2>3, <2>4
<1>7. iter[DOMAIN s] = Folded(s, t, step)
  BY <1>2, <1>5, <1>6, FoldedUnique
<1>. QED BY <1>1, <1>2, <1>7 DEF step, t

LEMMA LoginsType ==
  ASSUME NEW fd, NEW s \in Seq(Msgs)
  PROVE  Logins(fd, s) \in Seq(Requests)
BY LoginsFolds, FoldedType

LEMMA LoginsNone ==
  ASSUME NEW fd
  PROVE  Logins(fd, <<>>) = <<>>
<1>. DEFINE s == <<>>  t == <<>>
<1>1. s \in Seq(Msgs)
  OBVIOUS
<1>. HIDE DEF s
<1>2. /\ Logins(fd, s) = Folded(s, t, LoginsStep(fd))
      /\ Foldable(s, t, LoginsStep(fd), Seq(Requests), Msgs)
  BY <1>1, LoginsFolds
<1>. HIDE DEF t
<1>3. Folded(<<>>, t, LoginsStep(fd)) = t
  BY <1>2, FoldedEmpty
<1>. QED BY <1>2, <1>3 DEF s, t

LEMMA LoginsAppend ==
  ASSUME NEW fd, NEW s \in Seq(Msgs), NEW m \in Msgs
  PROVE  /\ IsLogin(m, fd) => Logins(fd, Append(s, m)) = Append(Logins(fd, s), m.req)
         /\ ~IsLogin(m, fd) => Logins(fd, Append(s, m)) = Logins(fd, s)
<1>. DEFINE t == <<>>
            u == Folded(s, t, LoginsStep(fd))
<1>1. Logins(fd, s) = u /\ Foldable(s, t, LoginsStep(fd), Seq(Requests), Msgs)
  BY LoginsFolds
<1>2. Append(s, m) \in Seq(Msgs)
  OBVIOUS
<1>3. Logins(fd, Append(s, m)) = Folded(Append(s, m), t, LoginsStep(fd))
  BY <1>2, LoginsFolds
<1>. HIDE DEF t
<1>4. Folded(Append(s, m), t, LoginsStep(fd)) = LoginsStep(fd)[<<u, m>>]
  BY <1>1, FoldedAppend
<1>5. u \in Seq(Requests)
  BY <1>1, FoldedType
<1>. HIDE DEF u
<1>6. LoginsStep(fd)[<<u, m>>] = Added(fd, u, m)
  BY <1>5, AddedType
<1>. QED BY <1>1, <1>3, <1>4, <1>6 DEF Added

LEMMA StartsAppend ==
  ASSUME NEW M, NEW s \in Seq(M), NEW t \in Seq(M), NEW x, Starts(s, x, t), NEW y \in M
  PROVE  Starts(Append(s, y), x, Append(t, y))
<1>1. /\ Len(s) \in Nat /\ Len(t) \in Nat /\ Len(s) = Len(t) + 1 /\ s[1] = x
      /\ Len(Append(s, y)) = Len(s) + 1 /\ Len(Append(t, y)) = Len(t) + 1
      /\ \A k \in 1 .. Len(s) : Append(s, y)[k] = s[k]
      /\ \A k \in 1 .. Len(t) : Append(t, y)[k] = t[k]
      /\ Append(s, y)[Len(s) + 1] = y /\ Append(t, y)[Len(t) + 1] = y
  BY DEF Starts
<1>2. ASSUME NEW k \in 1 .. Len(t) + 1
      PROVE  Append(s, y)[k + 1] = Append(t, y)[k]
  <2>1. CASE k \in 1 .. Len(t)
    <3>1. k + 1 \in 1 .. Len(s) /\ s[k + 1] = t[k]
      BY <1>1, <2>1 DEF Starts
    <3>. QED BY <1>1, <2>1, <3>1
  <2>2. CASE k = Len(t) + 1
    BY <1>1, <2>2
  <2>. QED BY <1>1, <2>1, <2>2
<1>3. Append(s, y)[1] = x
  BY <1>1
<1>. QED BY <1>1, <1>2, <1>3 DEF Starts

(* Two folds of the same messages, one of which begins with x. *)
LEMMA LoginsBegin ==
  ASSUME NEW fd, NEW t \in Seq(Msgs), NEW x \in Requests
  PROVE  Starts(Folded(t, <<x>>, LoginsStep(fd)), x, Logins(fd, t))
<1>. DEFINE none == <<>>  one == <<x>>
<1>1. none \in Seq(Requests) /\ one \in Seq(Requests) /\ Starts(one, x, none)
  BY DEF Starts
<1>2. Logins(fd, t) = Folded(t, none, LoginsStep(fd))
      /\ Foldable(t, none, LoginsStep(fd), Seq(Requests), Msgs)
  BY LoginsFolds
<1>. HIDE DEF none, one
<1>3. Foldable(t, one, LoginsStep(fd), Seq(Requests), Msgs)
  BY <1>1, <1>2 DEF Foldable
<1>4. PICK f : /\ Partial(f, t, Seq(Requests), none, LoginsStep(fd))
               /\ Folded(t, none, LoginsStep(fd)) = f[Len(t)]
  BY <1>2, FoldedPartial
<1>5. PICK g : /\ Partial(g, t, Seq(Requests), one, LoginsStep(fd))
               /\ Folded(t, one, LoginsStep(fd)) = g[Len(t)]
  BY <1>3, FoldedPartial
<1>6. Len(t) \in Nat
  OBVIOUS
<1>. DEFINE K == {k \in 0 .. Len(t) : Starts(g[k], x, f[k])}
<1>7. 0 \in K
  BY <1>1, <1>4, <1>5, <1>6 DEF Partial
<1>8. ASSUME NEW k \in 1 .. Len(t), k - 1 \in K
      PROVE  k \in K
  <2>1. k - 1 \in 0 .. Len(t) /\ k \in 0 .. Len(t) /\ t[k] \in Msgs
    BY <1>6
  <2>2. f[k - 1] \in Seq(Requests) /\ g[k - 1] \in Seq(Requests)
    BY <1>4, <1>5, <2>1 DEF Partial
  <2>3. f[k] = LoginsStep(fd)[<<f[k - 1], t[k]>>] /\ g[k] = LoginsStep(fd)[<<g[k - 1], t[k]>>]
    BY <1>4, <1>5 DEF Partial
  <2>4. f[k] = Added(fd, f[k - 1], t[k]) /\ g[k] = Added(fd, g[k - 1], t[k])
    BY <2>1, <2>2, <2>3, AddedType
  <2>5. Starts(g[k - 1], x, f[k - 1])
    BY <1>8
  <2>6. CASE IsLogin(t[k], fd)
    <3>1. t[k].req \in Requests
      BY <2>1, <2>6, MsgFields DEF IsLogin
    <3>2. Starts(Append(g[k - 1], t[k].req), x, Append(f[k - 1], t[k].req))
      BY <2>2, <2>5, <3>1, StartsAppend
    <3>. QED BY <2>1, <2>4, <2>6, <3>2 DEF Added
  <2>7. CASE ~IsLogin(t[k], fd)
    BY <2>1, <2>4, <2>5, <2>7 DEF Added
  <2>. QED BY <2>6, <2>7
<1>9. Len(t) \in K
  <2>. HIDE DEF K
  <2>1. 0 .. Len(t) \subseteq K
    BY <1>6, <1>7, <1>8, UpTo
  <2>. QED BY <1>6, <2>1
<1>. QED BY <1>2, <1>4, <1>5, <1>9 DEF none, one

LEMMA LoginsHead ==
  ASSUME NEW fd, NEW s \in Seq(Msgs), NEW m \in Msgs
  PROVE  /\ IsLogin(m, fd) => Starts(Logins(fd, <<m>> \o s), m.req, Logins(fd, s))
         /\ ~IsLogin(m, fd) => Logins(fd, <<m>> \o s) = Logins(fd, s)
<1>. DEFINE q == <<m>> \o s  t == <<>>
<1>1. q \in Seq(Msgs) /\ q # <<>> /\ Head(q) = m /\ Tail(q) = s /\ t \in Seq(Requests)
  OBVIOUS
<1>. HIDE DEF q
<1>2. /\ Logins(fd, q) = Folded(q, t, LoginsStep(fd))
      /\ Foldable(q, t, LoginsStep(fd), Seq(Requests), Msgs)
  BY <1>1, LoginsFolds
<1>3. Logins(fd, s) = Folded(s, t, LoginsStep(fd))
  BY LoginsFolds
<1>4. Added(fd, t, m) = IF IsLogin(m, fd) THEN <<m.req>> ELSE t
  BY DEF Added
<1>. HIDE DEF t
<1>5. Folded(q, t, LoginsStep(fd)) = Folded(s, LoginsStep(fd)[<<t, m>>], LoginsStep(fd))
  <2>1. Folded(q, t, LoginsStep(fd))
          = Folded(Tail(q), LoginsStep(fd)[<<t, Head(q)>>], LoginsStep(fd))
    BY <1>1, <1>2, FoldedHead
  <2>. QED BY <1>1, <2>1
<1>6. LoginsStep(fd)[<<t, m>>] = Added(fd, t, m)
  BY <1>1, AddedType
<1>7. ASSUME IsLogin(m, fd)
      PROVE  Starts(Logins(fd, q), m.req, Logins(fd, s))
  <2>1. m.req \in Requests
    BY <1>7, MsgFields DEF IsLogin
  <2>2. Starts(Folded(s, <<m.req>>, LoginsStep(fd)), m.req, Logins(fd, s))
    BY <2>1, LoginsBegin
  <2>. QED BY <1>2, <1>4, <1>5, <1>6, <1>7, <2>2
<1>. QED BY <1>2, <1>3, <1>4, <1>5, <1>6, <1>7 DEF q

(* No login is among messages that hold none. *)
LEMMA LoginsEmpty ==
  ASSUME NEW fd, NEW s \in Seq(Msgs), Logins(fd, s) = <<>>
  PROVE  \A j \in 1 .. Len(s) : ~IsLogin(s[j], fd)
<1>. DEFINE none == <<>>
<1>1. Logins(fd, s) = Folded(s, none, LoginsStep(fd))
      /\ Foldable(s, none, LoginsStep(fd), Seq(Requests), Msgs)
  BY LoginsFolds
<1>. HIDE DEF none
<1>2. PICK f : /\ Partial(f, s, Seq(Requests), none, LoginsStep(fd))
               /\ Folded(s, none, LoginsStep(fd)) = f[Len(s)]
  BY <1>1, FoldedPartial
<1>3. Len(s) \in Nat
  OBVIOUS
<1>. DEFINE K == {k \in 0 .. Len(s) : f[k] = <<>> => \A j \in 1 .. k : ~IsLogin(s[j], fd)}
<1>4. 0 \in K
  BY <1>3
<1>5. ASSUME NEW k \in 1 .. Len(s), k - 1 \in K
      PROVE  k \in K
  <2>1. k - 1 \in 0 .. Len(s) /\ k \in 0 .. Len(s) /\ s[k] \in Msgs
        /\ \A j \in 1 .. k : j \in 1 .. k - 1 \/ j = k
    BY <1>3
  <2>2. f[k - 1] \in Seq(Requests) /\ f[k] = LoginsStep(fd)[<<f[k - 1], s[k]>>]
    BY <1>2, <2>1 DEF Partial
  <2>3. f[k] = Added(fd, f[k - 1], s[k])
    BY <2>1, <2>2, AddedType
  <2>4. ASSUME f[k] = <<>>
        PROVE  ~IsLogin(s[k], fd) /\ f[k - 1] = <<>>
    <3>1. IsLogin(s[k], fd) => s[k].req \in Requests
      BY <2>1, MsgFields DEF IsLogin
    <3>2. \A x \in Requests : Append(f[k - 1], x) # <<>>
      BY <2>2
    <3>. QED BY <2>3, <2>4, <3>1, <3>2 DEF Added
  <2>. QED BY <1>5, <2>1, <2>4
<1>6. Len(s) \in K
  <2>. HIDE DEF K
  <2>1. 0 .. Len(s) \subseteq K
    BY <1>3, <1>4, <1>5, UpTo
  <2>. QED BY <1>3, <2>1
<1>. QED BY <1>1, <1>2, <1>6

-----------------------------------------------------------------------------
(* Control messages about a slot, and its logins *)

About(m, i) == m.id \in {"NEW_CONNECT", "CLO_CONNECT"} /\ m.srcid = i

(* Messages that are not about slot i leave its registration as it is.     *)
LEMMA ForeApart ==
  ASSUME NEW t \in MapTables, NEW s \in Seq(MapMsgs), NEW i,
         \A k \in 1 .. Len(s) : ~About(s[k], i)
  PROVE  i \in Indexes(Fore(t, s)) <=> i \in Indexes(t)
<1>1. Fore(t, s) = Folded(s, t, AppliedStep) /\ Foldable(s, t, AppliedStep, MapTables, MapMsgs)
  BY ForeFolds
<1>2. PICK f : Partial(f, s, MapTables, t, AppliedStep) /\ Folded(s, t, AppliedStep) = f[Len(s)]
  BY <1>1, FoldedPartial
<1>3. Len(s) \in Nat
  OBVIOUS
<1>. DEFINE K == {k \in 0 .. Len(s) : i \in Indexes(f[k]) <=> i \in Indexes(t)}
<1>4. 0 \in K
  BY <1>2, <1>3 DEF Partial
<1>5. ASSUME NEW k \in 1 .. Len(s), k - 1 \in K
      PROVE  k \in K
  <2>1. k - 1 \in 0 .. Len(s) /\ k \in 0 .. Len(s) /\ s[k] \in MapMsgs
    BY <1>3
  <2>2. f[k - 1] \in MapTables /\ f[k] = AppliedStep[<<f[k - 1], s[k]>>]
    BY <1>2, <2>1 DEF Partial
  <2>3. f[k] = Applied(f[k - 1], s[k])
    BY <2>1, <2>2 DEF AppliedStep
  <2>4. Indexes(f[k]) = After(Indexes(f[k - 1]), s[k])
    BY <2>1, <2>2, <2>3, AppliedIndexes
  <2>5. i \in After(Indexes(f[k - 1]), s[k]) <=> i \in Indexes(f[k - 1])
    BY DEF After, About
  <2>. QED BY <1>5, <2>1, <2>4, <2>5
<1>6. Len(s) \in K
  <2>. HIDE DEF K
  <2>1. 0 .. Len(s) \subseteq K
    BY <1>3, <1>4, <1>5, UpTo
  <2>. QED BY <1>3, <2>1
<1>. QED BY <1>1, <1>2, <1>6

(* Behind a login of a slot's socket there is no control message about the *)
(* slot: insrv closes no socket whose logins midsrv has not handled, as    *)
(* long as every client waits for its answers.                             *)
LoginsLast(u) ==
  \A i \in Slots, j, k \in 1 .. Len(u) : j < k /\ IsLogin(u[j], FdOf(i)) => ~About(u[k], i)

LEMMA LastEmpty == LoginsLast(<<>>)
BY DEF LoginsLast

LEMMA LastAppend ==
  ASSUME NEW u \in Seq(Msgs), LoginsLast(u), NEW m \in Msgs,
         \A i \in Slots : About(m, i) => Logins(FdOf(i), u) = <<>>
  PROVE  LoginsLast(Append(u, m))
<1>1. /\ Len(u) \in Nat /\ Len(Append(u, m)) = Len(u) + 1
      /\ \A k \in 1 .. Len(u) : Append(u, m)[k] = u[k]
      /\ Append(u, m)[Len(u) + 1] = m
  OBVIOUS
<1>2. ASSUME NEW i \in Slots, NEW j \in 1 .. Len(u) + 1, NEW k \in 1 .. Len(u) + 1,
             j < k, IsLogin(Append(u, m)[j], FdOf(i))
      PROVE  ~About(Append(u, m)[k], i)
  <2>1. j \in 1 .. Len(u) /\ Append(u, m)[j] = u[j]
    BY <1>1, <1>2
  <2>2. CASE k \in 1 .. Len(u)
    BY <1>1, <1>2, <2>1, <2>2 DEF LoginsLast
  <2>3. CASE k = Len(u) + 1
    <3>1. About(m, i) => \A n \in 1 .. Len(u) : ~IsLogin(u[n], FdOf(i))
      BY LoginsEmpty
    <3>. QED BY <1>1, <1>2, <2>1, <2>3, <3>1
  <2>. QED BY <1>1, <2>2, <2>3
<1>. QED BY <1>1, <1>2 DEF LoginsLast

LEMMA LastHead ==
  ASSUME NEW s \in Seq(Msgs), NEW m \in Msgs, LoginsLast(<<m>> \o s)
  PROVE  /\ LoginsLast(s)
         /\ \A i \in Slots : IsLogin(m, FdOf(i)) => \A k \in 1 .. Len(s) : ~About(s[k], i)
<1>. DEFINE u == <<m>> \o s
<1>1. /\ Len(s) \in Nat /\ Len(u) = Len(s) + 1 /\ u[1] = m
      /\ \A k \in 1 .. Len(s) : u[k + 1] = s[k]
  OBVIOUS
<1>. HIDE DEF u
<1>2. LoginsLast(u)
  BY DEF u
<1>3. \A k \in 1 .. Len(s) : k + 1 \in 1 .. Len(u) /\ 1 \in 1 .. Len(u) /\ 1 < k + 1
  BY <1>1
<1>4. ASSUME NEW i \in Slots, IsLogin(m, FdOf(i)), NEW k \in 1 .. Len(s)
      PROVE  ~About(s[k], i)
  BY <1>1, <1>2, <1>3, <1>4 DEF LoginsLast
<1>5. ASSUME NEW i \in Slots, NEW j \in 1 .. Len(s), NEW k \in 1 .. Len(s), j < k,
             IsLogin(s[j], FdOf(i))
      PROVE  ~About(s[k], i)
  <2>1. j + 1 < k + 1 /\ u[j + 1] = s[j] /\ u[k + 1] = s[k]
    BY <1>1, <1>5
  <2>. QED BY <1>2, <1>3, <1>5, <2>1 DEF LoginsLast
<1>. QED BY <1>4, <1>5 DEF LoginsLast

-----------------------------------------------------------------------------
(* The order of the requests in the servers *)

(* What the proofs before this one establish. *)
Ground == PairInv /\ OpenInv /\ TypeInv /\ StreamInv /\ RouteInv /\ MapInv

Knows(i) == i \in Known /\ inmsg # Mid!Down

Bare(i) ==
  Sending(i) = <<>> /\ mulq[i] = <<>> /\ LoginsOf(FdOf(i)) = <<>> /\ Retained(i) = <<>>
SlotOrder(i) ==
  /\ ~Live(i) => Bare(i)
  /\ Live(i) =>
       LET c == ConnOf(i)
           a == Cli!Answered(c)
           r == RequestsRead(c)
       IN /\ Counted(c, a, r, Sending(i), mulq[i], LoginsOf(FdOf(i)), Retained(i))
          /\ Knows(i) =>
               Complete(c, a, r, Sending(i), mulq[i], LoginsOf(FdOf(i)), Retained(i))

(* No unit of an answer waits for a connection that has not begun.         *)
Unserved ==
  /\ \A c \in Conns : cli[c] = "idle" => inbox[c] = <<>>
  /\ \A j \in 1 .. Len(backlog) : inbox[backlog[j]] = <<>>

(* A client reads what it was sent, and is gone only with all its answers. *)
Settled ==
  /\ rcv \in [Conns -> Nat]
  /\ \A c \in Conns : rcv[c] <= Len(inbox[c])
  /\ \A c \in Conns : cli[c] = "gone" => Cli!Asked(c) <= Cli!Answered(c)

(* insrv does not end: no send() meets a peer that has answered with RST.  *)
InsrvStays == pc # "down" /\ ended.insrv = 0 /\ reset = {}

(* A part of an answer is with the client of the slot that has the rest.   *)
Part(i) == IF val[i].sendflag = 1 THEN val[i].sendmsg.n ELSE 0
InParts == \A i \in Slots : Live(i) => Len(inbox[ConnOf(i)]) % RspLen = Part(i)

(* The units of a client's answers are in the order of its requests.       *)
Served == \A c \in Conns : \A j \in 1 .. Len(inbox[c]) :
            inbox[c][j] = <<c, (j - 1) \div RspLen + 1>>

Arranged ==
  /\ Unserved /\ InParts /\ Served /\ LoginsLast(Unhandled)
  /\ \A i \in Slots : SlotOrder(i)
OrderInv == Arranged /\ Settled /\ InsrvStays

LEMMA LoginsOfPending ==
  \A fd : LoginsOf(fd) = Logins(fd, Unhandled)
BY DEF LoginsOf

LEMMA GroundForm ==
  ASSUME Ground
  PROVE  /\ PairInv /\ OpenInv /\ PlaceInv /\ TypeInv /\ StreamInv /\ RouteInv /\ MapInv
         /\ SlotTypes /\ LoopTypes /\ SocketTypes /\ QueueTypes /\ ClientTypes
         /\ MapTypes /\ DownBlank /\ Outdated /\ Follows
BY DEF Ground, OpenInv, TypeInv, MapInv

LEMMA MapMsgsMsgs ==
  ASSUME NEW s \in Seq(MapMsgs)
  PROVE  s \in Seq(Msgs)
<1>1. MapMsgs \subseteq Msgs
  BY DEF MapMsgs
<1>. QED BY <1>1

LEMMA PendingType ==
  ASSUME Ground
  PROVE  Unhandled \in Seq(MapMsgs) /\ Unhandled \in Seq(Msgs)
<1>1. MapTypes
  BY GroundForm
<1>2. Pending(inmsg, sinq) \in Seq(MapMsgs)
  BY <1>1, PendingForm DEF MapTypes
<1>. QED BY <1>2, ToldPending, MapMsgsMsgs

LEMMA ClientNumbers ==
  ASSUME TypeInv, StreamInv, NEW c \in Conns
  PROVE  /\ inbox[c] \in Seq(Requests) /\ Len(inbox[c]) \in Nat /\ Cli!Answered(c) \in Nat
         /\ sent[c] \in Nat /\ Consumed(c) \in Nat /\ Consumed(c) <= sent[c]
         /\ RequestsRead(c) = Consumed(c) \div ReqLen /\ RequestsRead(c) \in Nat
         /\ Cli!Asked(c) \in Nat /\ RequestsRead(c) <= Cli!Asked(c)
<1>1. /\ inbox[c] \in Seq(Requests) /\ Len(inbox[c]) \in Nat
      /\ sent[c] \in Nat /\ Len(up[c]) \in Nat /\ Len(up[c]) <= sent[c]
  BY StreamNumbers DEF TypeInv, ClientTypes, StreamInv, Streams
<1>2. Consumed(c) \in Nat /\ Consumed(c) <= sent[c]
  BY <1>1 DEF Consumed
<1>3. RequestsRead(c) = Consumed(c) \div ReqLen
  BY DEF RequestsRead, Consumed
<1>4. Cli!Answered(c) \in Nat
  BY <1>1, Lengths, Division DEF Cli!Answered
<1>5. /\ Consumed(c) \div ReqLen \in Nat /\ sent[c] \div ReqLen \in Nat
      /\ Consumed(c) \div ReqLen <= sent[c] \div ReqLen
  BY <1>1, <1>2, Lengths, Division, QuotientGrows
<1>. QED BY <1>1, <1>2, <1>3, <1>4, <1>5 DEF Cli!Asked

LEMMA SlotSeqs ==
  ASSUME TypeInv, NEW i \in Slots
  PROVE  /\ Sending(i) \in Seq(Requests) /\ Retained(i) \in Seq(Requests)
         /\ mulq[i] \in Seq(Requests)
<1>1. RightSlot(val[i]) /\ mulq[i] \in Seq(Requests)
  BY DEF TypeInv, SlotTypes, QueueTypes
<1>2. \A x \in Requests : <<x>> \in Seq(Requests)
  OBVIOUS
<1>3. <<>> \in Seq(Requests)
  OBVIOUS
<1>. QED BY <1>1, <1>2, <1>3 DEF Sending, Retained, RightSlot

(* What slot i holds for connection c. *)
Holds(i, c, a, r, S, Q, L, T) ==
  /\ Live(i) /\ c = ConnOf(i) /\ a = Cli!Answered(c) /\ r = RequestsRead(c)
  /\ S = Sending(i) /\ Q = mulq[i] /\ L = LoginsOf(FdOf(i)) /\ T = Retained(i)

LEMMA OrderParts ==
  ASSUME Ground, NEW i \in Slots, Live(i)
  PROVE  \E c \in Conns : \E a, r \in Nat : \E S, Q, L, T \in Seq(Requests) :
           Holds(i, c, a, r, S, Q, L, T)
<1>1. PICK c \in Conns : c = ConnOf(i)
  BY GroundForm, ConnOfSlot
<1>2. Cli!Answered(c) \in Nat /\ RequestsRead(c) \in Nat
  BY GroundForm, ClientNumbers
<1>3. LoginsOf(FdOf(i)) \in Seq(Requests)
  BY PendingType, LoginsType, LoginsOfPending
<1>4. Sending(i) \in Seq(Requests) /\ Retained(i) \in Seq(Requests) /\ mulq[i] \in Seq(Requests)
  BY GroundForm, SlotSeqs
<1>5. Holds(i, c, Cli!Answered(c), RequestsRead(c), Sending(i), mulq[i], LoginsOf(FdOf(i)),
            Retained(i))
  BY <1>1 DEF Holds
<1>. QED BY <1>1, <1>2, <1>3, <1>4, <1>5

LEMMA HoldsNow ==
  ASSUME NEW i \in Slots, SlotOrder(i), NEW c, NEW a, NEW r, NEW S, NEW Q, NEW L, NEW T,
         Holds(i, c, a, r, S, Q, L, T)
  PROVE  /\ Counted(c, a, r, S, Q, L, T)
         /\ Knows(i) => Complete(c, a, r, S, Q, L, T)
BY DEF Holds, SlotOrder

LEMMA HoldsNext ==
  ASSUME NEW i \in Slots, NEW c, NEW a, NEW r, NEW S, NEW Q, NEW L, NEW T,
         Holds(i, c, a, r, S, Q, L, T)', Counted(c, a, r, S, Q, L, T),
         Knows(i)' => Complete(c, a, r, S, Q, L, T)
  PROVE  SlotOrder(i)'
BY DEF Holds, SlotOrder

LEMMA BareNext ==
  ASSUME NEW i \in Slots, ~Live(i)', Bare(i)'
  PROVE  SlotOrder(i)'
BY DEF SlotOrder

(* A slot that a step leaves as it is, with all that is on its way.        *)
LEMMA SlotRests ==
  ASSUME NEW i \in Slots, SlotOrder(i), val'[i].srvfd = val[i].srvfd,
         Sending(i)' = Sending(i), Retained(i)' = Retained(i), mulq'[i] = mulq[i],
         LoginsOf(FdOf(i))' = LoginsOf(FdOf(i)),
         Live(i) => /\ sock'[val[i].srvfd] = sock[val[i].srvfd]
                    /\ Knows(i)' => Knows(i)
                    /\ \A c : c = ConnOf(i) => /\ inbox'[c] = inbox[c]
                                               /\ RequestsRead(c)' = RequestsRead(c)
  PROVE  SlotOrder(i)'
<1>1. CASE ~Live(i)
  BY <1>1, BareNext DEF SlotOrder, Bare, Live
<1>2. CASE Live(i)
  <2>. DEFINE c == ConnOf(i)  a == Cli!Answered(c)  r == RequestsRead(c)
              S == Sending(i)  Q == mulq[i]  L == LoginsOf(FdOf(i))  T == Retained(i)
  <2>1. \E d, b, q, s, t, u, v : Holds(i, d, b, q, s, t, u, v)
    <3>1. Holds(i, c, a, r, S, Q, L, T)
      BY <1>2 DEF Holds
    <3>. QED BY <3>1
  <2>2. PICK d, b, q, s, t, u, v : Holds(i, d, b, q, s, t, u, v)
    BY <2>1
  <2>3. /\ Counted(d, b, q, s, t, u, v)
        /\ Knows(i) => Complete(d, b, q, s, t, u, v)
    BY <2>2, HoldsNow
  <2>4. Live(i)' /\ d = ConnOf(i)'
    BY <1>2, <2>2 DEF Holds, Live, ConnOf
  <2>5. b = Cli!Answered(d)' /\ q = RequestsRead(d)'
    BY <1>2, <2>2 DEF Holds, Cli!Answered
  <2>6. Holds(i, d, b, q, s, t, u, v)'
    BY <2>2, <2>4, <2>5 DEF Holds
  <2>. QED BY <1>2, <2>3, <2>6, HoldsNext
<1>. QED BY <1>1, <1>2

(* Nothing is in the servers of a client that is gone. *)
LEMMA GoneHasNone ==
  ASSUME Ground, OrderInv, NEW i \in Slots, Live(i), cli[ConnOf(i)] = "gone"
  PROVE  Bare(i)
<1>1. PICK c \in Conns, a \in Nat, r \in Nat,
           S \in Seq(Requests), Q \in Seq(Requests), L \in Seq(Requests), T \in Seq(Requests) :
             Holds(i, c, a, r, S, Q, L, T)
  BY OrderParts
<1>2. Counted(c, a, r, S, Q, L, T)
  BY <1>1, HoldsNow DEF OrderInv, Arranged
<1>3. c = ConnOf(i) /\ a = Cli!Answered(c) /\ r = RequestsRead(c)
  BY <1>1 DEF Holds
<1>4. RequestsRead(c) <= Cli!Asked(c) /\ Cli!Asked(c) \in Nat
  BY GroundForm, ClientNumbers
<1>5. Cli!Asked(c) <= Cli!Answered(c)
  BY <1>3 DEF OrderInv, Settled
<1>6. Parts(a, r, S, Q, L, T) /\ a >= r
  BY <1>3, <1>4, <1>5 DEF Parts
<1>7. S = <<>> /\ Q = <<>> /\ L = <<>> /\ T = <<>>
  BY <1>2, <1>6, NoneLeft
<1>. QED BY <1>1, <1>7 DEF Holds, Bare

LEMMA SendingNone ==
  ASSUME NEW i \in Slots
  PROVE  /\ Sending(i) = <<>> <=> val[i].sendflag # 1
         /\ Retained(i) = <<>> <=> val[i].recvflag # 1
BY DEF Sending, Retained

(* The pipeline of every slot that midsrv knows is in order. *)
LEMMA OrderMatches ==
  ASSUME Ground, OrderInv
  PROVE  PipelineInOrder
<1>. SUFFICES ASSUME NEW i \in Slots, Live(i), ConnOf(i) \notin orphans, inmsg # Mid!Down
              PROVE  LET c == ConnOf(i) IN
                     FirstRequests(c, Cli!Answered(c)) \o Sending(i) \o mulq[i]
                       \o LoginsOf(val[i].srvfd) \o Retained(i) = FirstRequests(c, RequestsRead(c))
  BY DEF PipelineInOrder
<1>1. PICK c \in Conns, a \in Nat, r \in Nat,
           S \in Seq(Requests), Q \in Seq(Requests), L \in Seq(Requests), T \in Seq(Requests) :
             Holds(i, c, a, r, S, Q, L, T)
  BY OrderParts
<1>2. Knows(i) /\ SlotOrder(i)
  BY DEF Knows, Known, OrderInv, Arranged
<1>3. Complete(c, a, r, S, Q, L, T) /\ Parts(a, r, S, Q, L, T)
  BY <1>1, <1>2, HoldsNow DEF Parts
<1>4. FirstRequests(c, a) \o S \o Q \o L \o T = FirstRequests(c, r)
  BY <1>3, CompleteJoins
<1>5. val[i].srvfd = FdOf(i)
  BY GroundForm, LiveFd
<1>. QED BY <1>1, <1>4, <1>5 DEF Holds

-----------------------------------------------------------------------------
(* What steps leave as it is *)

LEMMA SlotsSame ==
  ASSUME sock' = sock, orphans' = orphans, \A i \in Slots : val'[i].srvfd = val[i].srvfd
  PROVE  /\ Known' = Known
         /\ \A i \in Slots : Live(i)' = Live(i) /\ ConnOf(i)' = ConnOf(i)
BY DEF Known, Live, ConnOf

LEMMA ReadSame ==
  ASSUME UNCHANGED <<up, sent>>
  PROVE  \A c : RequestsRead(c)' = RequestsRead(c)
BY DEF RequestsRead

LEMMA ServedSame ==
  ASSUME Served, inbox' = inbox
  PROVE  Served'
BY DEF Served

LEMMA UnservedSame ==
  ASSUME Unserved, inbox' = inbox, backlog' = backlog,
         \A c \in Conns : cli'[c] = "idle" => cli[c] = "idle"
  PROVE  Unserved'
BY DEF Unserved

LEMMA PartsSame ==
  ASSUME InParts, inbox' = inbox,
         \A i \in Slots : Live(i)' => /\ Live(i) /\ ConnOf(i)' = ConnOf(i)
                                      /\ Part(i)' = Part(i)
  PROVE  InParts'
BY DEF InParts

(* The logins on the way to midsrv: nothing is pushed, a control message   *)
(* about a slot that has none, or a login.                                 *)
LEMMA LoginsSame ==
  ASSUME Unhandled' = Unhandled, LoginsLast(Unhandled)
  PROVE  (\A fd : LoginsOf(fd)' = LoginsOf(fd)) /\ LoginsLast(Unhandled)'
<1>1. \A fd : LoginsOf(fd)' = Logins(fd, Unhandled')
  BY DEF LoginsOf
<1>. QED BY <1>1, LoginsOfPending DEF LoginsLast

LEMMA LoginsControl ==
  ASSUME Ground, LoginsLast(Unhandled), NEW m \in MapMsgs, m.id # "LOGIN",
         sinq' = Append(sinq, m), inmsg' = inmsg,
         \A i \in Slots : About(m, i) => LoginsOf(FdOf(i)) = <<>>
  PROVE  (\A fd : LoginsOf(fd)' = LoginsOf(fd)) /\ LoginsLast(Unhandled)'
<1>1. PICK u \in Seq(MapMsgs) : u = Unhandled /\ Unhandled' = Append(u, m)
  BY GroundForm, PendingAppend
<1>2. u \in Seq(Msgs) /\ m \in Msgs
  BY MapMsgsMsgs DEF MapMsgs
<1>3. \A fd : Logins(fd, Append(u, m)) = Logins(fd, u)
  BY <1>2, LoginsAppend DEF IsLogin
<1>4. \A fd : LoginsOf(fd)' = Logins(fd, Unhandled')
  BY DEF LoginsOf
<1>5. \A fd : LoginsOf(fd) = Logins(fd, u)
  BY <1>1, LoginsOfPending
<1>6. LoginsLast(Append(u, m))
  BY <1>1, <1>2, <1>5, LastAppend
<1>7. LoginsLast(Unhandled)'
  BY <1>1, <1>6 DEF LoginsLast
<1>. QED BY <1>1, <1>3, <1>4, <1>5, <1>7

LEMMA LoginForm ==
  ASSUME NEW i \in Slots, FdOf(i) \in In!Fds, NEW req \in Requests
  PROVE  LET m == Login(FdOf(i), req) IN
         /\ m \in MapMsgs /\ m \in Msgs /\ m.id = "LOGIN" /\ m.req = req
         /\ \A j \in Slots : IsLogin(m, FdOf(j)) <=> j = i
         /\ \A j : ~About(m, j)
<1>. DEFINE m == Login(FdOf(i), req)
<1>1. m \in Msgs /\ m.id = "LOGIN" /\ m.req = req
  BY MsgKinds
<1>2. m.dstid = U16(FdOf(i))
  BY DEF Login
<1>3. m.dstid = FdOf(i)
  BY <1>2, SmallNumbers
<1>. HIDE DEF m
<1>4. m \in MapMsgs
  BY <1>1 DEF MapMsgs
<1>5. \A j \in Slots : IsLogin(m, FdOf(j)) <=> j = i
  BY <1>1, <1>3, OtherFd DEF IsLogin
<1>6. \A j : ~About(m, j)
  BY <1>1 DEF About
<1>. QED BY <1>1, <1>4, <1>5, <1>6 DEF m

LEMMA LoginsPushed ==
  ASSUME Ground, LoginsLast(Unhandled), NEW i \in Slots, FdOf(i) \in In!Fds,
         NEW req \in Requests, sinq' = Append(sinq, Login(FdOf(i), req)), inmsg' = inmsg
  PROVE  /\ LoginsOf(FdOf(i))' = Append(LoginsOf(FdOf(i)), req)
         /\ \A j \in Slots : j # i => LoginsOf(FdOf(j))' = LoginsOf(FdOf(j))
         /\ LoginsLast(Unhandled)'
<1>1. PICK m \in MapMsgs : /\ m = Login(FdOf(i), req) /\ m \in Msgs /\ m.req = req
                           /\ \A j \in Slots : IsLogin(m, FdOf(j)) <=> j = i
                           /\ \A j : ~About(m, j)
  BY LoginForm
<1>2. PICK u \in Seq(MapMsgs) : u = Unhandled /\ Unhandled' = Append(u, m)
  BY <1>1, GroundForm, PendingAppend
<1>3. u \in Seq(Msgs)
  BY MapMsgsMsgs
<1>4. /\ Logins(FdOf(i), Append(u, m)) = Append(Logins(FdOf(i), u), req)
      /\ \A j \in Slots : j # i => Logins(FdOf(j), Append(u, m)) = Logins(FdOf(j), u)
  BY <1>1, <1>3, LoginsAppend
<1>5. \A fd : LoginsOf(fd)' = Logins(fd, Unhandled')
  BY DEF LoginsOf
<1>6. \A fd : LoginsOf(fd) = Logins(fd, u)
  BY <1>2, LoginsOfPending
<1>7. LoginsLast(Append(u, m))
  BY <1>1, <1>2, <1>3, LastAppend
<1>8. LoginsLast(Unhandled)'
  BY <1>2, <1>7 DEF LoginsLast
<1>. QED BY <1>2, <1>4, <1>5, <1>6, <1>8

-----------------------------------------------------------------------------
(* The effects of a step of insrv's loop *)

LEMMA OrderIdles ==
  ASSUME Ground, Arranged, Idles, orphans' = orphans
  PROVE  Arranged'
<1>1. UNCHANGED <<val, sock, backlog, cli, up, sent, inbox, sinq, inmsg, mulq>>
  BY DEF Idles, owners, bytes, messages
<1>2. Known' = Known
  BY <1>1, SlotsSame
<1>3. Unhandled' = Unhandled
  BY <1>1 DEF Unhandled
<1>4. (\A fd : LoginsOf(fd)' = LoginsOf(fd)) /\ LoginsLast(Unhandled)'
  BY <1>3, LoginsSame DEF Arranged
<1>5. \A c : RequestsRead(c)' = RequestsRead(c)
  BY <1>1, ReadSame
<1>6. ASSUME NEW i \in Slots
      PROVE  SlotOrder(i)'
  <2>1. Sending(i)' = Sending(i) /\ Retained(i)' = Retained(i)
    BY <1>1 DEF Sending, Retained
  <2>. QED BY <1>1, <1>2, <1>4, <1>5, <2>1, SlotRests DEF Arranged, Knows
<1>7. Unserved' /\ Served'
  BY <1>1, UnservedSame, ServedSame DEF Arranged
<1>8. InParts'
  BY <1>1 DEF Arranged, InParts, Live, ConnOf, Part
<1>. QED BY <1>4, <1>6, <1>7, <1>8 DEF Arranged

LEMMA OrderTakesAnswer ==
  ASSUME Ground, Arranged, NEW i \in Slots, TakesAnswer(i), orphans' = orphans
  PROVE  Arranged'
<1>1. /\ mulq[i] # <<>> /\ val[i].sendflag = 0 /\ mulq' = [mulq EXCEPT ![i] = Tail(@)]
      /\ UNCHANGED <<sock, backlog, cli, up, sent, inbox, sinq, inmsg>>
  BY DEF TakesAnswer, owners, bytes
<1>2. /\ \A j \in Slots : /\ val'[j].srvfd = val[j].srvfd
                          /\ val'[j].recvmsg = val[j].recvmsg
                          /\ val'[j].recvflag = val[j].recvflag
                          /\ j # i => val'[j] = val[j]
      /\ val'[i].sendflag = 1 /\ val'[i].sendmsg = [n |-> 0, req |-> Head(mulq[i])]
  BY GroundForm, TakeSlot
<1>3. /\ Known' = Known
      /\ \A j \in Slots : Live(j)' = Live(j) /\ ConnOf(j)' = ConnOf(j)
  BY <1>1, <1>2, SlotsSame
<1>4. Unhandled' = Unhandled
  BY <1>1 DEF Unhandled
<1>5. (\A fd : LoginsOf(fd)' = LoginsOf(fd)) /\ LoginsLast(Unhandled)'
  BY <1>4, LoginsSame DEF Arranged
<1>6. \A c : RequestsRead(c)' = RequestsRead(c)
  BY <1>1, ReadSame
<1>7. \A j \in Slots : Retained(j)' = Retained(j) /\ Knows(j)' = Knows(j)
  BY <1>1, <1>2, <1>3 DEF Retained, Knows
<1>8. mulq'[i] = Tail(mulq[i]) /\ \A j \in Slots : j # i => mulq'[j] = mulq[j]
  BY <1>1, GroundForm DEF QueueTypes
<1>9. ASSUME NEW j \in Slots, j # i
      PROVE  SlotOrder(j)'
  <2>1. Sending(j)' = Sending(j)
    BY <1>2, <1>9 DEF Sending
  <2>. QED BY <1>1, <1>2, <1>5, <1>6, <1>7, <1>8, <1>9, <2>1, SlotRests DEF Arranged
<1>10. SlotOrder(i)'
  <2>1. Live(i)
    BY <1>1 DEF Arranged, SlotOrder, Bare
  <2>2. PICK c \in Conns, a \in Nat, r \in Nat,
             S \in Seq(Requests), Q \in Seq(Requests), L \in Seq(Requests), T \in Seq(Requests) :
               Holds(i, c, a, r, S, Q, L, T)
    BY <2>1, OrderParts
  <2>3. S = <<>> /\ Q # <<>> /\ Q = mulq[i]
    BY <1>1, <2>2, SendingNone DEF Holds
  <2>4. /\ Counted(c, a, r, S, Q, L, T) /\ (Knows(i) => Complete(c, a, r, S, Q, L, T))
        /\ Parts(a, r, S, Q, L, T)
    BY <2>2, HoldsNow DEF Arranged, Parts
  <2>5. /\ Counted(c, a, r, <<Head(Q)>>, Tail(Q), L, T)
        /\ Knows(i) => Complete(c, a, r, <<Head(Q)>>, Tail(Q), L, T)
    BY <2>3, <2>4, OrderTakes
  <2>6. Sending(i)' = <<Head(Q)>>
    BY <1>2, <2>3 DEF Sending
  <2>7. a = Cli!Answered(c)'
    BY <1>1, <2>2 DEF Holds, Cli!Answered
  <2>8. Holds(i, c, a, r, <<Head(Q)>>, Tail(Q), L, T)'
    BY <1>3, <1>5, <1>6, <1>7, <1>8, <2>2, <2>3, <2>6, <2>7 DEF Holds
  <2>. QED BY <1>7, <2>5, <2>8, HoldsNext
<1>11. Unserved' /\ Served'
  BY <1>1, UnservedSame, ServedSame DEF Arranged
<1>12. InParts'
  <2>1. \A j \in Slots : Part(j)' = Part(j)
    BY <1>1, <1>2 DEF Part
  <2>. QED BY <1>1, <1>3, <2>1, PartsSame DEF Arranged
<1>. QED BY <1>5, <1>9, <1>10, <1>11, <1>12 DEF Arranged

-----------------------------------------------------------------------------
(* The effects of a step of insrv's loop, continued *)

(* Each slot has a connection of its own. *)
LEMMA OtherConn ==
  ASSUME Ground, NEW i \in Slots, NEW j \in Slots, i # j, Live(i), Live(j)
  PROVE  ConnOf(i) # ConnOf(j)
<1>1. PairInv /\ Distinct
  BY GroundForm DEF PlaceInv
<1>2. /\ val[i].srvfd = FdOf(i) /\ val[j].srvfd = FdOf(j)
      /\ FdOf(i) \in In!Fds /\ FdOf(j) \in In!Fds /\ Open(FdOf(i))
  BY <1>1, LiveFd
<1>3. FdOf(i) # FdOf(j)
  BY OtherFd
<1>. QED BY <1>1, <1>2, <1>3 DEF Distinct, ConnOf

(* A step that moves the requests of slot i alone, and sends nothing. *)
LEMMA ArrangedSlot ==
  ASSUME Ground, Arranged, NEW i \in Slots, Live(i),
         UNCHANGED <<sock, backlog, cli, inbox, mulq, inmsg, orphans>>,
         LoginsLast(Unhandled)',
         \A j \in Slots : /\ val'[j].srvfd = val[j].srvfd
                          /\ Part(j)' = Part(j)
                          /\ j # i => /\ val'[j] = val[j]
                                      /\ LoginsOf(FdOf(j))' = LoginsOf(FdOf(j)),
         \A d \in Conns : d # ConnOf(i) => RequestsRead(d)' = RequestsRead(d),
         SlotOrder(i)'
  PROVE  Arranged'
<1>1. /\ Known' = Known
      /\ \A j \in Slots : Live(j)' = Live(j) /\ ConnOf(j)' = ConnOf(j)
  BY SlotsSame
<1>2. ASSUME NEW j \in Slots, j # i
      PROVE  SlotOrder(j)'
  <2>1. Sending(j)' = Sending(j) /\ Retained(j)' = Retained(j)
    BY <1>2 DEF Sending, Retained
  <2>2. Knows(j)' = Knows(j)
    BY <1>1 DEF Knows
  <2>3. Live(j) => ConnOf(j) # ConnOf(i) /\ ConnOf(j) \in Conns
    BY <1>2, OtherConn, ConnOfSlot, GroundForm
  <2>. QED BY <1>2, <2>1, <2>2, <2>3, SlotRests DEF Arranged
<1>3. Unserved' /\ Served'
  BY UnservedSame, ServedSame DEF Arranged
<1>4. InParts'
  BY <1>1, PartsSame DEF Arranged
<1>. QED BY <1>2, <1>3, <1>4 DEF Arranged

(* A request that is handed over is the last on the way, or in recvmsg. *)
LEMMA HandsMoves ==
  ASSUME Ground, Arranged, NEW i \in Slots, Live(i), NEW req \in Requests,
         HandsOver(i, req), inmsg' = inmsg
  PROVE  /\ LoginsLast(Unhandled)'
         /\ \A j \in Slots : /\ val'[j].srvfd = val[j].srvfd
                             /\ Part(j)' = Part(j)
                             /\ j # i => /\ val'[j] = val[j]
                                         /\ LoginsOf(FdOf(j))' = LoginsOf(FdOf(j))
         /\ Sending(i)' = Sending(i)
         /\ \/ /\ LoginsOf(FdOf(i))' = Append(LoginsOf(FdOf(i)), req)
               /\ Retained(i)' = <<>>
            \/ LoginsOf(FdOf(i))' = LoginsOf(FdOf(i)) /\ Retained(i)' = <<req>>
<1>1. TypeInv /\ PairInv /\ LoginsLast(Unhandled)
  BY GroundForm DEF Arranged
<1>2. /\ val'[i].srvfd = val[i].srvfd
      /\ val'[i].sendflag = val[i].sendflag /\ val'[i].sendmsg = val[i].sendmsg
      /\ \/ /\ sinq' = Append(sinq, Login(val[i].srvfd, req))
            /\ val'[i].recvflag = 0
         \/ sinq' = sinq /\ val'[i].recvflag = 1 /\ val'[i].recvmsg.req = req
      /\ \A j \in Slots : j # i => val'[j] = val[j]
  BY <1>1, HandsSlot
<1>3. val[i].srvfd = FdOf(i) /\ FdOf(i) \in In!Fds
  BY <1>1, LiveFd
<1>4. Sending(i)' = Sending(i) /\ \A j \in Slots : Part(j)' = Part(j)
  BY <1>2 DEF Sending, Part
<1>5. CASE sinq' = Append(sinq, Login(val[i].srvfd, req)) /\ val'[i].recvflag = 0
  <2>1. sinq' = Append(sinq, Login(FdOf(i), req))
    BY <1>3, <1>5
  <2>2. /\ LoginsOf(FdOf(i))' = Append(LoginsOf(FdOf(i)), req)
        /\ \A j \in Slots : j # i => LoginsOf(FdOf(j))' = LoginsOf(FdOf(j))
        /\ LoginsLast(Unhandled)'
    BY <1>1, <1>3, <2>1, LoginsPushed
  <2>3. Retained(i)' = <<>>
    BY <1>5 DEF Retained
  <2>. QED BY <1>2, <1>4, <2>2, <2>3
<1>6. CASE sinq' = sinq /\ val'[i].recvflag = 1 /\ val'[i].recvmsg.req = req
  <2>1. Unhandled' = Unhandled
    BY <1>6 DEF Unhandled
  <2>2. (\A fd : LoginsOf(fd)' = LoginsOf(fd)) /\ LoginsLast(Unhandled)'
    BY <1>1, <2>1, LoginsSame
  <2>3. Retained(i)' = <<req>>
    BY <1>6 DEF Retained
  <2>. QED BY <1>2, <1>4, <2>2, <2>3
<1>. QED BY <1>2, <1>5, <1>6

LEMMA OrderRetriesPush ==
  ASSUME Ground, Arranged, NEW i \in Slots, Retries(i), orphans' = orphans
  PROVE  Arranged'
<1>1. /\ Live(i) /\ val[i].recvflag = 1 /\ HandsOver(i, val[i].recvmsg.req)
      /\ UNCHANGED <<sock, backlog, cli, up, sent, inbox, inmsg, mulq>>
  BY DEF Retries, owners, bytes
<1>2. PICK req \in Requests : req = val[i].recvmsg.req
  BY <1>1, GroundForm DEF SlotTypes, RightSlot
<1>3. /\ LoginsLast(Unhandled)'
      /\ \A j \in Slots : /\ val'[j].srvfd = val[j].srvfd
                          /\ Part(j)' = Part(j)
                          /\ j # i => /\ val'[j] = val[j]
                                      /\ LoginsOf(FdOf(j))' = LoginsOf(FdOf(j))
      /\ Sending(i)' = Sending(i)
      /\ \/ /\ LoginsOf(FdOf(i))' = Append(LoginsOf(FdOf(i)), req)
            /\ Retained(i)' = <<>>
         \/ LoginsOf(FdOf(i))' = LoginsOf(FdOf(i)) /\ Retained(i)' = <<req>>
  BY <1>1, <1>2, HandsMoves
<1>4. /\ Known' = Known
      /\ \A j \in Slots : Live(j)' = Live(j) /\ ConnOf(j)' = ConnOf(j)
  BY <1>1, <1>3, SlotsSame
<1>5. \A c : RequestsRead(c)' = RequestsRead(c)
  BY <1>1, ReadSame
<1>6. SlotOrder(i)'
  <2>1. PICK c \in Conns, a \in Nat, r \in Nat,
             S \in Seq(Requests), Q \in Seq(Requests), L \in Seq(Requests), T \in Seq(Requests) :
               Holds(i, c, a, r, S, Q, L, T)
    BY <1>1, OrderParts
  <2>2. T = <<req>>
    BY <1>1, <1>2, <2>1 DEF Holds, Retained
  <2>3. /\ Counted(c, a, r, S, Q, L, T) /\ (Knows(i) => Complete(c, a, r, S, Q, L, T))
        /\ Parts(a, r, S, Q, L, T)
    BY <2>1, HoldsNow DEF Arranged, Parts
  <2>4. /\ Counted(c, a, r, S, Q, Append(L, req), <<>>)
        /\ Knows(i) => Complete(c, a, r, S, Q, Append(L, req), <<>>)
    BY <2>2, <2>3, OrderRetries
  <2>5. a = Cli!Answered(c)' /\ (Knows(i)' <=> Knows(i))
    BY <1>1, <1>4, <2>1 DEF Holds, Cli!Answered, Knows
  <2>6. CASE LoginsOf(FdOf(i))' = Append(LoginsOf(FdOf(i)), req) /\ Retained(i)' = <<>>
    <3>1. Holds(i, c, a, r, S, Q, Append(L, req), <<>>)'
      BY <1>1, <1>3, <1>4, <1>5, <2>1, <2>5, <2>6 DEF Holds
    <3>. QED BY <2>4, <2>5, <3>1, HoldsNext
  <2>7. CASE LoginsOf(FdOf(i))' = LoginsOf(FdOf(i)) /\ Retained(i)' = <<req>>
    <3>1. Holds(i, c, a, r, S, Q, L, T)'
      BY <1>1, <1>3, <1>4, <1>5, <2>1, <2>2, <2>5, <2>7 DEF Holds
    <3>. QED BY <2>3, <2>5, <3>1, HoldsNext
  <2>. QED BY <1>3, <2>6, <2>7
<1>. QED BY <1>1, <1>3, <1>5, <1>6, ArrangedSlot

(* What recv() takes completes a request, or not. *)
LEMMA ReadCounts ==
  ASSUME Ground, NEW i \in Slots, NEW t \in Nat, ReadsUnits(i, t), NEW c \in Conns,
         c = ConnOf(i)
  PROVE  /\ val[i].recvmsg.n + t \in Nat /\ val[i].recvmsg.n + t <= ReqLen
         /\ val[i].recvmsg.n + t = ReqLen => RequestsRead(c)' = RequestsRead(c) + 1
         /\ val[i].recvmsg.n + t # ReqLen => RequestsRead(c)' = RequestsRead(c)
<1>. DEFINE n == val[i].recvmsg.n
<1>1. PairInv /\ TypeInv /\ StreamInv
  BY GroundForm
<1>2. Live(i) /\ val[i].recvflag = 0 /\ t <= ReqLen - n
  BY DEF ReadsUnits
<1>3. n \in 0 .. ReqLen /\ n # ReqLen /\ ReqLen \in Nat \ {0}
  BY <1>1, <1>2, BufferNumbers, Lengths DEF RightSlot
<1>4. t > 0 /\ Consumed(c) \in Nat /\ Consumed(c)' = Consumed(c) + t
  BY <1>1, ReadsBytes
<1>5. PICK q \in Nat : Consumed(c) = ReqLen * q + n
  BY <1>1, <1>2 DEF StreamInv, InStepWithBytes, Aligned
<1>6. RequestsRead(c) = Consumed(c) \div ReqLen /\ RequestsRead(c)' = Consumed(c)' \div ReqLen
  BY DEF RequestsRead, Consumed
<1>. HIDE DEF n
<1>7. n \in 0 .. ReqLen - 1 /\ n + t \in Nat /\ n + t <= ReqLen
  BY <1>2, <1>3
<1>8. RequestsRead(c) = q
  BY <1>3, <1>5, <1>6, <1>7, Quotient
<1>9. ASSUME n + t = ReqLen
      PROVE  RequestsRead(c)' = q + 1
  <2>1. Consumed(c)' = ReqLen * (q + 1) + 0
    BY <1>3, <1>4, <1>5, <1>7, <1>9
  <2>2. 0 \in 0 .. ReqLen - 1 /\ q + 1 \in Nat
    BY <1>3
  <2>3. (ReqLen * (q + 1) + 0) \div ReqLen = q + 1
    BY <1>3, <2>2, Quotient
  <2>. QED BY <1>6, <2>1, <2>3
<1>10. ASSUME n + t # ReqLen
       PROVE  RequestsRead(c)' = q
  <2>1. Consumed(c)' = ReqLen * q + (n + t)
    BY <1>3, <1>4, <1>5, <1>7
  <2>2. n + t \in 0 .. ReqLen - 1
    BY <1>3, <1>7, <1>10
  <2>3. (ReqLen * q + (n + t)) \div ReqLen = q
    BY <1>3, <2>2, Quotient
  <2>. QED BY <1>6, <2>1, <2>3
<1>. QED BY <1>7, <1>8, <1>9, <1>10 DEF n

LEMMA OrderReadsUnits ==
  ASSUME Ground, Arranged, NEW i \in Slots, NEW t \in Nat, ReadsUnits(i, t), orphans' = orphans
  PROVE  Arranged'
<1>1. PairInv /\ TypeInv /\ StreamInv
  BY GroundForm
<1>2. /\ Live(i) /\ val[i].recvflag = 0
      /\ UNCHANGED <<sock, backlog, cli, sent, inbox, inmsg, mulq>>
  BY DEF ReadsUnits, owners
<1>3. PICK c \in Conns, a \in Nat, r \in Nat,
           S \in Seq(Requests), Q \in Seq(Requests), L \in Seq(Requests), T \in Seq(Requests) :
             Holds(i, c, a, r, S, Q, L, T)
  BY <1>2, OrderParts
<1>4. T = <<>> /\ c = ConnOf(i) /\ r = RequestsRead(c)
  BY <1>2, <1>3 DEF Holds, Retained
<1>5. /\ Counted(c, a, r, S, Q, L, T) /\ (Knows(i) => Complete(c, a, r, S, Q, L, T))
      /\ Parts(a, r, S, Q, L, T)
  BY <1>3, HoldsNow DEF Arranged, Parts
<1>6. \A d \in Conns : d # ConnOf(i) => RequestsRead(d)' = RequestsRead(d)
  <2>1. \A d \in Conns : d # ConnOf(i) => up'[d] = up[d]
    BY <1>1 DEF ReadsUnits, TypeInv, ClientTypes
  <2>. QED BY <1>2, <2>1 DEF RequestsRead
<1>7. CASE val[i].recvmsg.n + t = ReqLen
  <2>1. up[c][t] = r + 1 /\ up[c][t] \in 1 .. MaxReq
    <3>1. t \in 1 .. Len(up[c]) /\ up[c] \in Seq(1 .. MaxReq)
      BY <1>1, <1>4 DEF ReadsUnits, TypeInv, ClientTypes
    <3>2. up[c][t] \in 1 .. MaxReq
      BY <3>1, Rest
    <3>3. up[ConnOf(i)][t] = RequestsRead(ConnOf(i)) + 1
      BY <1>1, <1>7, ReadsWhole
    <3>. QED BY <1>4, <3>2, <3>3
  <2>2. PICK x \in Requests : x = <<c, r + 1>> /\ x = <<ConnOf(i), up[ConnOf(i)][t]>>
    BY <1>4, <2>1 DEF Requests
  <2>3. HandsOver(i, x)
    BY <1>7, <2>2 DEF ReadsUnits
  <2>4. /\ LoginsLast(Unhandled)'
        /\ \A j \in Slots : /\ val'[j].srvfd = val[j].srvfd
                            /\ Part(j)' = Part(j)
                            /\ j # i => /\ val'[j] = val[j]
                                        /\ LoginsOf(FdOf(j))' = LoginsOf(FdOf(j))
        /\ Sending(i)' = Sending(i)
        /\ \/ /\ LoginsOf(FdOf(i))' = Append(LoginsOf(FdOf(i)), x)
              /\ Retained(i)' = <<>>
           \/ LoginsOf(FdOf(i))' = LoginsOf(FdOf(i)) /\ Retained(i)' = <<x>>
    BY <1>2, <2>3, HandsMoves
  <2>5. /\ Known' = Known
        /\ \A j \in Slots : Live(j)' = Live(j) /\ ConnOf(j)' = ConnOf(j)
    BY <1>2, <2>4, SlotsSame
  <2>6. RequestsRead(c)' = r + 1
    BY <1>4, <1>7, ReadCounts
  <2>7. /\ Counted(c, a, r + 1, S, Q, Append(L, x), <<>>)
        /\ Counted(c, a, r + 1, S, Q, L, <<x>>)
        /\ Knows(i) => /\ Complete(c, a, r + 1, S, Q, Append(L, x), <<>>)
                       /\ Complete(c, a, r + 1, S, Q, L, <<x>>)
    BY <1>4, <1>5, <2>2, OrderReads
  <2>8. a = Cli!Answered(c)' /\ (Knows(i)' <=> Knows(i))
    BY <1>2, <1>3, <2>5 DEF Holds, Cli!Answered, Knows
  <2>9. SlotOrder(i)'
    <3>1. CASE LoginsOf(FdOf(i))' = Append(LoginsOf(FdOf(i)), x) /\ Retained(i)' = <<>>
      <4>1. Holds(i, c, a, r + 1, S, Q, Append(L, x), <<>>)'
        BY <1>2, <1>3, <2>4, <2>5, <2>6, <2>8, <3>1 DEF Holds
      <4>. QED BY <2>7, <2>8, <4>1, HoldsNext
    <3>2. CASE LoginsOf(FdOf(i))' = LoginsOf(FdOf(i)) /\ Retained(i)' = <<x>>
      <4>1. Holds(i, c, a, r + 1, S, Q, L, <<x>>)'
        BY <1>2, <1>3, <2>4, <2>5, <2>6, <2>8, <3>2 DEF Holds
      <4>. QED BY <2>7, <2>8, <4>1, HoldsNext
    <3>. QED BY <2>4, <3>1, <3>2
  <2>. QED BY <1>2, <1>6, <2>4, <2>9, ArrangedSlot
<1>8. CASE val[i].recvmsg.n + t # ReqLen
  <2>1. /\ val' = [val EXCEPT ![i] = In!WithRequest(@, val[i].recvmsg.n + t,
                                                      <<ConnOf(i), up[ConnOf(i)][t]>>, 0)]
        /\ sinq' = sinq
    BY <1>8 DEF ReadsUnits
  <2>2. IsSlot(val[i]) /\ val \in [Slots -> SocketInfo]
    BY <1>1, BufferNumbers DEF TypeInv, SlotTypes
  <2>3. /\ \A j \in Slots : /\ val'[j].srvfd = val[j].srvfd
                            /\ val'[j].sendflag = val[j].sendflag
                            /\ val'[j].sendmsg = val[j].sendmsg
                            /\ j # i => val'[j] = val[j]
        /\ val'[i].recvflag = 0
    BY <2>1, <2>2, WithRequestRecord
  <2>4. /\ Known' = Known
        /\ \A j \in Slots : Live(j)' = Live(j) /\ ConnOf(j)' = ConnOf(j)
    BY <1>2, <2>3, SlotsSame
  <2>5. Unhandled' = Unhandled
    BY <1>2, <2>1 DEF Unhandled
  <2>6. (\A fd : LoginsOf(fd)' = LoginsOf(fd)) /\ LoginsLast(Unhandled)'
    BY <2>5, LoginsSame DEF Arranged
  <2>7. /\ \A j \in Slots : Part(j)' = Part(j)
        /\ Sending(i)' = Sending(i) /\ Retained(i)' = <<>>
    BY <2>3 DEF Part, Sending, Retained
  <2>8. RequestsRead(c)' = r
    BY <1>4, <1>8, ReadCounts
  <2>9. a = Cli!Answered(c)' /\ (Knows(i)' <=> Knows(i))
    BY <1>2, <1>3, <2>4 DEF Holds, Cli!Answered, Knows
  <2>10. Holds(i, c, a, r, S, Q, L, T)'
    BY <1>2, <1>3, <1>4, <2>4, <2>6, <2>7, <2>8, <2>9 DEF Holds
  <2>11. SlotOrder(i)'
    BY <1>5, <2>9, <2>10, HoldsNext
  <2>. QED BY <1>2, <1>6, <2>3, <2>6, <2>7, <2>11, ArrangedSlot
<1>. QED BY <1>7, <1>8

(* Behind a answers and n units of the next, that of x, c is sent k units. *)
SendsMore(c, a, n, k, x) ==
  /\ n \in Nat /\ n + k <= RspLen
  /\ Len(inbox[c]) = RspLen * a + n
  /\ \A d \in Conns : d # c => inbox'[d] = inbox[d]
  /\ Len(inbox'[c]) = RspLen * a + n + k
  /\ \A j \in 1 .. Len(inbox'[c]) :
       inbox'[c][j] = IF j <= Len(inbox[c]) THEN inbox[c][j] ELSE x
  /\ n + k = RspLen => Cli!Answered(c)' = a + 1 /\ Len(inbox'[c]) % RspLen = 0
  /\ n + k # RspLen => Cli!Answered(c)' = a /\ Len(inbox'[c]) % RspLen = n + k

(* The units that send() takes continue the answer that is in part with the*)
(* client, and complete it, or not.                                        *)
LEMMA SendCounts ==
  ASSUME Ground, Arranged, NEW i \in Slots, NEW k \in Nat, SendsUnits(i, k),
         NEW c \in Conns, c = ConnOf(i), NEW a \in Nat, a = Cli!Answered(c),
         NEW n, n = val[i].sendmsg.n, NEW x, x = val[i].sendmsg.req
  PROVE  SendsMore(c, a, n, k, x)
<1>. DEFINE units == [j \in 1 .. k |-> x]
<1>1. /\ Live(i) /\ val[i].sendflag = 1 /\ k \in 1 .. RspLen /\ k <= RspLen - n
      /\ inbox' = [inbox EXCEPT ![c] = @ \o units]
  BY DEF SendsUnits
<1>2. /\ inbox \in [Conns -> Seq(Requests)] /\ RightSlot(val[i])
      /\ RspLen \in Nat \ {0}
  BY GroundForm, Lengths DEF ClientTypes, SlotTypes
<1>3. n \in 0 .. RspLen - 1 /\ x \in Requests
  BY <1>1, <1>2 DEF RightSlot, SocketInfo, Buffers
<1>4. Len(inbox[c]) % RspLen = n
  BY <1>1 DEF Arranged, InParts, Part
<1>5. a = Len(inbox[c]) \div RspLen
  BY DEF Cli!Answered
<1>6. Len(inbox[c]) \in Nat
  BY <1>2
<1>7. Len(inbox[c]) = RspLen * a + n
  BY <1>2, <1>4, <1>5, <1>6, Division
<1>8. inbox'[c] = inbox[c] \o units /\ \A d \in Conns : d # c => inbox'[d] = inbox[d]
  BY <1>1, <1>2
<1>9. units \in Seq(Requests) /\ Len(units) = k /\ \A j \in 1 .. k : units[j] = x
  BY <1>3
<1>. HIDE DEF units
<1>10. /\ Len(inbox'[c]) = Len(inbox[c]) + k
       /\ \A j \in 1 .. Len(inbox[c]) + k :
            inbox'[c][j] = IF j <= Len(inbox[c]) THEN inbox[c][j] ELSE units[j - Len(inbox[c])]
  <2>1. PICK l \in Seq(Requests) : l = inbox[c]
    BY <1>2
  <2>2. PICK t \in Seq(Requests) : t = units
    BY <1>9
  <2>3. PICK p \in Nat : p = Len(l)
    OBVIOUS
  <2>4. k = Len(t)
    BY <1>9, <2>2
  <2>5. /\ Len(l \o t) = p + k
        /\ \A j \in 1 .. p + k : (l \o t)[j] = IF j <= p THEN l[j] ELSE t[j - p]
    BY <2>3, <2>4, Concat
  <2>. QED BY <1>8, <2>1, <2>2, <2>3, <2>5
<1>11. \A j \in 1 .. Len(inbox'[c]) :
         inbox'[c][j] = IF j <= Len(inbox[c]) THEN inbox[c][j] ELSE x
  <2>1. ASSUME NEW j \in 1 .. Len(inbox'[c]), ~(j <= Len(inbox[c]))
        PROVE  inbox'[c][j] = x
    <3>1. j \in 1 .. Len(inbox[c]) + k /\ j - Len(inbox[c]) \in 1 .. k
      BY <1>6, <1>10, <2>1
    <3>2. inbox'[c][j] = units[j - Len(inbox[c])]
      BY <1>10, <2>1, <3>1
    <3>. QED BY <1>9, <3>1, <3>2
  <2>. QED BY <1>10, <2>1
<1>12. Cli!Answered(c)' = Len(inbox'[c]) \div RspLen
  BY DEF Cli!Answered
<1>b. n \in Nat /\ n + k <= RspLen /\ RspLen \in Nat
  BY <1>1, <1>2, <1>3
<1>13. Len(inbox'[c]) = RspLen * a + n + k
  BY <1>7, <1>10
<1>14. ASSUME n + k = RspLen
       PROVE  Cli!Answered(c)' = a + 1 /\ Len(inbox'[c]) % RspLen = 0
  <2>a. RspLen * (a + 1) = RspLen * a + RspLen /\ RspLen * a \in Nat
    BY <1>2
  <2>1. Len(inbox'[c]) = RspLen * (a + 1) + 0
    BY <1>b, <1>13, <1>14, <2>a
  <2>2. 0 \in 0 .. RspLen - 1 /\ a + 1 \in Nat
    BY <1>2
  <2>3. (RspLen * (a + 1) + 0) \div RspLen = a + 1 /\ (RspLen * (a + 1) + 0) % RspLen = 0
    BY <1>2, <2>2, Quotient
  <2>. QED BY <1>12, <2>1, <2>3
<1>15. ASSUME n + k # RspLen
       PROVE  Cli!Answered(c)' = a /\ Len(inbox'[c]) % RspLen = n + k
  <2>1. Len(inbox'[c]) = RspLen * a + (n + k)
    <3>1. RspLen * a \in Nat
      BY <1>2
    <3>. QED BY <1>b, <1>13, <3>1
  <2>2. n + k \in 0 .. RspLen - 1
    BY <1>b, <1>15
  <2>3. (RspLen * a + (n + k)) \div RspLen = a /\ (RspLen * a + (n + k)) % RspLen = n + k
    BY <1>2, <2>2, Quotient
  <2>. QED BY <1>12, <2>1, <2>3
<1>. QED BY <1>b, <1>7, <1>8, <1>11, <1>13, <1>14, <1>15 DEF SendsMore

LEMMA OrderSendsUnits ==
  ASSUME Ground, Arranged, NEW i \in Slots, NEW k \in Nat, SendsUnits(i, k), orphans' = orphans
  PROVE  /\ Arranged'
         /\ Cli!Answered(ConnOf(i)) < RequestsRead(ConnOf(i))
<1>1. PairInv /\ TypeInv /\ Distinct /\ Begun
  BY GroundForm DEF PlaceInv
<1>2. /\ Live(i) /\ val[i].sendflag = 1
      /\ UNCHANGED <<sock, backlog, cli, up, sent, sinq, inmsg, mulq>>
  BY DEF SendsUnits, owners, messages
<1>3. PICK c \in Conns, a \in Nat, r \in Nat,
           S \in Seq(Requests), Q \in Seq(Requests), L \in Seq(Requests), T \in Seq(Requests) :
             Holds(i, c, a, r, S, Q, L, T)
  BY <1>2, OrderParts
<1>4. PICK n, x : n = val[i].sendmsg.n /\ x = val[i].sendmsg.req
  OBVIOUS
<1>5. S = <<x>> /\ c = ConnOf(i) /\ a = Cli!Answered(c) /\ r = RequestsRead(c)
  BY <1>2, <1>3, <1>4 DEF Holds, Sending
<1>6. /\ Counted(c, a, r, <<x>>, Q, L, T) /\ (Knows(i) => Complete(c, a, r, <<x>>, Q, L, T))
      /\ Parts(a, r, <<x>>, Q, L, T)
  BY <1>3, <1>5, HoldsNow DEF Arranged, Parts
<1>7. /\ x = <<c, a + 1>> /\ a < r
      /\ Counted(c, a + 1, r, <<>>, Q, L, T)
      /\ Knows(i) => Complete(c, a + 1, r, <<>>, Q, L, T)
  BY <1>6, OrderSends
<1>8. /\ n \in Nat /\ n + k <= RspLen
      /\ Len(inbox[c]) = RspLen * a + n
      /\ \A d \in Conns : d # c => inbox'[d] = inbox[d]
      /\ Len(inbox'[c]) = RspLen * a + n + k
      /\ \A j \in 1 .. Len(inbox'[c]) :
           inbox'[c][j] = IF j <= Len(inbox[c]) THEN inbox[c][j] ELSE x
      /\ n + k = RspLen => Cli!Answered(c)' = a + 1 /\ Len(inbox'[c]) % RspLen = 0
      /\ n + k # RspLen => Cli!Answered(c)' = a /\ Len(inbox'[c]) % RspLen = n + k
  <2>1. SendsMore(c, a, n, k, x)
    BY <1>4, <1>5, SendCounts
  <2>. QED BY <2>1 DEF SendsMore
<1>9. /\ \A j \in Slots : /\ val'[j].srvfd = val[j].srvfd
                          /\ val'[j].recvmsg = val[j].recvmsg
                          /\ val'[j].recvflag = val[j].recvflag
                          /\ j # i => val'[j] = val[j]
      /\ \/ n + k = RspLen /\ val'[i].sendflag = 0
         \/ /\ n + k < RspLen /\ val'[i].sendflag = 1
            /\ val'[i].sendmsg = [n |-> n + k, req |-> x]
  BY <1>1, <1>4, SendSlot
<1>10. /\ Known' = Known
       /\ \A j \in Slots : Live(j)' = Live(j) /\ ConnOf(j)' = ConnOf(j)
  BY <1>2, <1>9, SlotsSame
<1>11. Unhandled' = Unhandled
  BY <1>2 DEF Unhandled
<1>12. (\A fd : LoginsOf(fd)' = LoginsOf(fd)) /\ LoginsLast(Unhandled)'
  BY <1>11, LoginsSame DEF Arranged
<1>13. \A d : RequestsRead(d)' = RequestsRead(d)
  BY <1>2, ReadSame
<1>14. \A j \in Slots : Retained(j)' = Retained(j) /\ Knows(j)' = Knows(j)
  BY <1>2, <1>9, <1>10 DEF Retained, Knows
<1>15. \A j \in Slots : j # i /\ Live(j) => ConnOf(j) \in Conns /\ ConnOf(j) # c
  BY <1>1, <1>2, <1>5, OtherConn, ConnOfSlot, GroundForm
<1>16. ASSUME NEW j \in Slots, j # i
       PROVE  SlotOrder(j)'
  <2>1. Sending(j)' = Sending(j)
    BY <1>9, <1>16 DEF Sending
  <2>2. Live(j) => inbox'[ConnOf(j)] = inbox[ConnOf(j)]
    BY <1>8, <1>15, <1>16
  <2>. QED BY <1>2, <1>9, <1>12, <1>13, <1>14, <1>16, <2>1, <2>2, SlotRests DEF Arranged
<1>17. SlotOrder(i)'
  <2>1. CASE n + k = RspLen /\ val'[i].sendflag = 0
    <3>1. Sending(i)' = <<>>
      BY <2>1 DEF Sending
    <3>2. a + 1 = Cli!Answered(c)'
      BY <1>8, <2>1
    <3>3. Holds(i, c, a + 1, r, <<>>, Q, L, T)'
      BY <1>2, <1>3, <1>10, <1>12, <1>13, <1>14, <3>1, <3>2 DEF Holds
    <3>. QED BY <1>7, <1>14, <3>3, HoldsNext
  <2>2. CASE /\ n + k < RspLen /\ val'[i].sendflag = 1
             /\ val'[i].sendmsg = [n |-> n + k, req |-> x]
    <3>1. Sending(i)' = <<x>>
      BY <2>2 DEF Sending
    <3>2. a = Cli!Answered(c)'
      BY <1>8, <2>2
    <3>3. Holds(i, c, a, r, <<x>>, Q, L, T)'
      BY <1>2, <1>3, <1>10, <1>12, <1>13, <1>14, <3>1, <3>2 DEF Holds
    <3>. QED BY <1>6, <1>14, <3>3, HoldsNext
  <2>. QED BY <1>9, <2>1, <2>2
<1>18. Unserved'
  <2>1. cli[c] # "idle" /\ \A j \in 1 .. Len(backlog) : backlog[j] # c
    BY <1>1, <1>2, <1>5, LiveFd DEF Begun, Distinct, ConnOf
  <2>2. \A j \in 1 .. Len(backlog) : backlog[j] \in Conns
    BY <1>1 DEF PairInv, Waiting
  <2>. QED BY <1>2, <1>8, <2>1, <2>2 DEF Arranged, Unserved
<1>19. InParts'
  <2>1. Part(i)' = IF n + k = RspLen THEN 0 ELSE n + k
    <3>1. CASE n + k = RspLen /\ val'[i].sendflag = 0
      BY <3>1 DEF Part
    <3>2. CASE /\ n + k < RspLen /\ val'[i].sendflag = 1
               /\ val'[i].sendmsg = [n |-> n + k, req |-> x]
      <4>1. val'[i].sendmsg.n = n + k
        BY <3>2
      <4>2. n + k # RspLen
        BY <1>8, <3>2, Lengths
      <4>. QED BY <3>2, <4>1, <4>2 DEF Part
    <3>. QED BY <1>9, <3>1, <3>2
  <2>2. Len(inbox'[ConnOf(i)]) % RspLen = Part(i)'
    BY <1>5, <1>8, <2>1
  <2>3. ASSUME NEW j \in Slots, Live(j), j # i
        PROVE  Len(inbox'[ConnOf(j)]) % RspLen = Part(j)'
    <3>1. Part(j)' = Part(j) /\ inbox'[ConnOf(j)] = inbox[ConnOf(j)]
      BY <1>8, <1>9, <1>15, <2>3 DEF Part
    <3>. QED BY <2>3, <3>1 DEF Arranged, InParts
  <2>. QED BY <1>10, <2>2, <2>3 DEF InParts
<1>20. Served'
  <2>1. ASSUME NEW j \in 1 .. Len(inbox'[c])
        PROVE  inbox'[c][j] = <<c, (j - 1) \div RspLen + 1>>
    <3>1. CASE j <= Len(inbox[c])
      <4>1. j \in 1 .. Len(inbox[c])
        BY <1>8, <3>1, Lengths
      <4>. QED BY <1>8, <3>1, <4>1 DEF Arranged, Served
    <3>2. CASE ~(j <= Len(inbox[c]))
      <4>1. PICK q \in 0 .. RspLen - 1 : j - 1 = RspLen * a + q
        <5>1. PICK b \in Nat : b = RspLen * a
          BY Lengths
        <5>2. /\ n \in Nat /\ n + k <= RspLen /\ Len(inbox[c]) = b + n
              /\ j <= Len(inbox'[c]) /\ Len(inbox'[c]) = b + n + k
          BY <1>8, <5>1
        <5>3. j - 1 - b \in 0 .. RspLen - 1
          BY <3>2, <5>2, Lengths
        <5>. QED BY <5>1, <5>3, Lengths
      <4>2. (j - 1) \div RspLen = a
        BY <4>1, Quotient, Lengths
      <4>. QED BY <1>7, <1>8, <3>2, <4>2
    <3>. QED BY <3>1, <3>2
  <2>2. \A d \in Conns : d # c => inbox'[d] = inbox[d]
    BY <1>8
  <2>. QED BY <2>1, <2>2 DEF Arranged, Served
<1>. QED BY <1>5, <1>7, <1>12, <1>16, <1>17, <1>18, <1>19, <1>20 DEF Arranged

LEMMA OrderAccepts ==
  ASSUME Ground, Arranged, MaxOpen \in Nat, MaxOpen <= EPOLL_SIZE,
         AcceptsOne, TellsMidsrv, pc' # "down", orphans' = orphans
  PROVE  Arranged'
<1>1. PairInv /\ OpenInv /\ TypeInv /\ StreamInv /\ Outdated /\ SlotTypes
  BY GroundForm
<1>2. PICK i \in Slots :
        /\ ~Live(i) /\ FdOf(i) \in In!Fds /\ ~Open(FdOf(i)) /\ FdOf(i) # -1
        /\ \A j \in Slots : val'[j] = IF j = i THEN In!TakenBy(val[i], FdOf(i)) ELSE val[j]
        /\ sock' = [e \in In!Fds |-> IF e = FdOf(i) THEN backlog[1] ELSE sock[e]]
        /\ \A j \in Slots : j # i /\ Live(j) => sock'[val[j].srvfd] = sock[val[j].srvfd]
        /\ sinq' = Append(sinq, NewConnect(i, FdOf(i))) /\ Known' = Known \cup {i}
  BY <1>1, AcceptOpens
<1>3. UNCHANGED <<cli, up, sent, inbox, inmsg, mulq>>
  BY DEF AcceptsOne, bytes
<1>4. PICK m \in MapMsgs : /\ m = NewConnect(i, FdOf(i)) /\ m.id = "NEW_CONNECT"
                           /\ m.srcid = i
  BY <1>2, NewTells
<1>5. Bare(i)
  BY <1>2 DEF Arranged, SlotOrder
<1>6. /\ \A fd : LoginsOf(fd)' = LoginsOf(fd)
      /\ LoginsLast(Unhandled)'
  <2>1. \A j \in Slots : About(m, j) => LoginsOf(FdOf(j)) = <<>>
    BY <1>4, <1>5 DEF About, Bare
  <2>. QED BY <1>2, <1>3, <1>4, <2>1, LoginsControl DEF Arranged
<1>7. /\ val'[i].srvfd = FdOf(i) /\ val'[i].recvflag = val[i].recvflag
      /\ val'[i].sendflag = val[i].sendflag
      /\ val'[i].recvmsg = val[i].recvmsg /\ val'[i].sendmsg = val[i].sendmsg
      /\ \A j \in Slots : j # i => val'[j] = val[j]
  BY <1>1, <1>2, BufferNumbers, TakenByRecord
<1>8. /\ Live(i)' /\ ConnOf(i)' = backlog[1]
      /\ \A j \in Slots : j # i => /\ Live(j)' = Live(j)
                                   /\ Live(j) => ConnOf(j)' = ConnOf(j)
  BY <1>2, <1>7 DEF Live, ConnOf
<1>9. \A d : RequestsRead(d)' = RequestsRead(d)
  BY <1>3, ReadSame
<1>10. /\ \A j \in 1 .. Len(backlog') : backlog'[j] = backlog[j + 1]
       /\ Len(backlog) \in Nat \ {0} /\ Len(backlog') = Len(backlog) - 1
       /\ backlog[1] \in Conns
  BY <1>1, AcceptForm DEF AcceptsOne
<1>11. PICK c \in Conns : c = backlog[1]
  BY <1>10
<1>12. inbox[c] = <<>> /\ Consumed(c) = 0
  BY <1>1, <1>10, <1>11, BacklogStays DEF Arranged, Unserved
<1>13. \A n \in Nat \ {0} : 0 \div n = 0 /\ 0 % n = 0
  <2>1. ASSUME NEW n \in Nat \ {0}
        PROVE  0 \div n = 0 /\ 0 % n = 0
    <3>1. n * 0 + 0 = 0 /\ 0 \in 0 .. n - 1
      OBVIOUS
    <3>2. (n * 0 + 0) \div n = 0 /\ (n * 0 + 0) % n = 0
      BY <3>1, Quotient
    <3>. QED BY <3>1, <3>2
  <2>. QED BY <2>1
<1>14. SlotOrder(i)'
  <2>1. Cli!Answered(c)' = 0
    BY <1>3, <1>12, <1>13, Lengths DEF Cli!Answered
  <2>2. RequestsRead(c) = 0
    BY <1>12, <1>13, Lengths DEF RequestsRead, Consumed
  <2>3. Sending(i)' = <<>> /\ Retained(i)' = <<>> /\ mulq'[i] = <<>>
    BY <1>3, <1>5, <1>7 DEF Bare, Sending, Retained
  <2>4. Holds(i, c, 0, 0, <<>>, <<>>, <<>>, <<>>)'
    BY <1>5, <1>6, <1>8, <1>9, <1>11, <2>1, <2>2, <2>3 DEF Holds, Bare
  <2>5. Complete(c, 0, 0, <<>>, <<>>, <<>>, <<>>)
    BY CompleteEmpty
  <2>6. Parts(0, 0, <<>>, <<>>, <<>>, <<>>)
    BY DEF Parts
  <2>7. Counted(c, 0, 0, <<>>, <<>>, <<>>, <<>>)
    BY <2>5, <2>6, CompleteCounted
  <2>. QED BY <2>4, <2>5, <2>7, HoldsNext
<1>15. ASSUME NEW j \in Slots, j # i
       PROVE  SlotOrder(j)'
  <2>1. /\ Sending(j)' = Sending(j) /\ Retained(j)' = Retained(j)
        /\ val'[j].srvfd = val[j].srvfd
    BY <1>7, <1>15 DEF Sending, Retained
  <2>2. Knows(j)' => Knows(j)
    BY <1>2, <1>3, <1>15 DEF Knows
  <2>. QED BY <1>2, <1>3, <1>6, <1>9, <1>15, <2>1, <2>2, SlotRests DEF Arranged
<1>16. Unserved'
  BY <1>3, <1>10 DEF Arranged, Unserved
<1>17. InParts'
  <2>1. val'[i].sendflag # 1
    BY <1>5, <1>7 DEF Bare, Sending
  <2>2. Len(inbox'[ConnOf(i)']) % RspLen = Part(i)'
    BY <1>3, <1>8, <1>11, <1>12, <1>13, <2>1, Lengths DEF Part
  <2>3. ASSUME NEW j \in Slots, j # i, Live(j)
        PROVE  Len(inbox'[ConnOf(j)']) % RspLen = Part(j)'
    BY <1>3, <1>7, <1>8, <2>3 DEF Arranged, InParts, Part
  <2>. QED BY <1>8, <2>2, <2>3 DEF InParts
<1>18. Served'
  BY <1>3, ServedSame DEF Arranged
<1>. QED BY <1>6, <1>14, <1>15, <1>16, <1>17, <1>18 DEF Arranged

LEMMA OrderCloses ==
  ASSUME Ground, OrderInv, NEW i \in Slots, NEW fd \in In!Fds, ClosesOne(fd, i),
         TellsMidsrv, pc' # "down", orphans' = orphans
  PROVE  Arranged'
<1>1. PairInv /\ TypeInv /\ Arranged
  BY GroundForm DEF OrderInv
<1>2. /\ Live(i) /\ fd = FdOf(i)
      /\ \A j \in Slots : val'[j] = IF j = i THEN In!Erased ELSE val[j]
      /\ \A j \in Slots : j # i /\ Live(j) => sock'[val[j].srvfd] = sock[val[j].srvfd]
      /\ sinq' = Append(sinq, CloConnect(i, fd)) /\ Known' = Known \ {i}
  BY <1>1, CloseEnds
<1>3. /\ UNCHANGED <<backlog, cli, sent, inbox, inmsg, mulq>>
      /\ cli[ConnOf(i)] = "gone" /\ up' = [up EXCEPT ![ConnOf(i)] = <<>>]
  <2>1. val[i].srvfd = fd
    BY <1>1, <1>2, LiveFd
  <2>. QED BY <2>1 DEF ClosesOne, Closes, In!CloseSlot, ConnOf
<1>4. Bare(i)
  BY <1>2, <1>3, GoneHasNone
<1>5. PICK m \in MapMsgs : m = CloConnect(i, fd) /\ m.id = "CLO_CONNECT" /\ m.srcid = i
  BY CloTells
<1>6. /\ \A f : LoginsOf(f)' = LoginsOf(f)
      /\ LoginsLast(Unhandled)'
  <2>1. \A j \in Slots : About(m, j) => LoginsOf(FdOf(j)) = <<>>
    BY <1>4, <1>5 DEF About, Bare
  <2>. QED BY <1>1, <1>2, <1>3, <1>5, <2>1, LoginsControl DEF Arranged
<1>7. /\ ~Live(i)'
      /\ \A j \in Slots : j # i => /\ val'[j] = val[j] /\ Live(j)' = Live(j)
                                   /\ Live(j) => ConnOf(j)' = ConnOf(j)
  BY <1>2, ErasedSlot DEF Live, ConnOf
<1>8. Bare(i)'
  <2>1. Sending(i)' = <<>> /\ Retained(i)' = <<>>
    BY <1>2, ErasedHoldsNone DEF Sending, Retained
  <2>. QED BY <1>3, <1>4, <1>6, <2>1 DEF Bare
<1>9. SlotOrder(i)'
  BY <1>7, <1>8, BareNext
<1>10. ASSUME NEW j \in Slots, j # i
       PROVE  SlotOrder(j)'
  <2>1. /\ Sending(j)' = Sending(j) /\ Retained(j)' = Retained(j)
        /\ val'[j].srvfd = val[j].srvfd
    BY <1>7, <1>10 DEF Sending, Retained
  <2>2. Knows(j)' => Knows(j)
    BY <1>2, <1>3 DEF Knows
  <2>3. Live(j) => ConnOf(j) # ConnOf(i) /\ ConnOf(j) \in Conns
    BY <1>1, <1>2, <1>10, OtherConn, ConnOfSlot, GroundForm
  <2>4. \A d \in Conns : d # ConnOf(i) => up'[d] = up[d]
    BY <1>1, <1>3 DEF TypeInv, ClientTypes
  <2>5. \A d \in Conns : d # ConnOf(i) => RequestsRead(d)' = RequestsRead(d)
    BY <1>3, <2>4 DEF RequestsRead
  <2>. QED BY <1>1, <1>2, <1>3, <1>6, <1>10, <2>1, <2>2, <2>3, <2>5, SlotRests DEF Arranged
<1>11. Unserved' /\ Served'
  BY <1>1, <1>3, UnservedSame, ServedSame DEF Arranged
<1>12. InParts'
  <2>1. \A j \in Slots : j # i => Part(j)' = Part(j)
    BY <1>7 DEF Part
  <2>. QED BY <1>1, <1>3, <1>7, <2>1 DEF Arranged, InParts
<1>. QED BY <1>6, <1>9, <1>10, <1>11, <1>12 DEF Arranged

-----------------------------------------------------------------------------
(* The steps of midsrv *)

LEMMA ArrangedMid ==
  ASSUME Arranged, UNCHANGED <<val, sock, backlog, cli, inbox>>,
         LoginsLast(Unhandled)', \A i \in Slots : SlotOrder(i)'
  PROVE  Arranged'
<1>1. Unserved' /\ Served'
  BY UnservedSame, ServedSame DEF Arranged
<1>2. InParts'
  BY DEF Arranged, InParts, Live, ConnOf, Part
<1>. QED BY <1>1, <1>2 DEF Arranged

(* A slot none of whose requests midsrv moves. *)
LEMMA MidLeaves ==
  ASSUME NEW i \in Slots, SlotOrder(i), UNCHANGED <<val, sock, up, sent, inbox>>,
         mulq'[i] = mulq[i], LoginsOf(FdOf(i))' = LoginsOf(FdOf(i)),
         Knows(i)' => Knows(i)
  PROVE  SlotOrder(i)'
<1>1. Sending(i)' = Sending(i) /\ Retained(i)' = Retained(i)
  BY DEF Sending, Retained
<1>2. \A c : RequestsRead(c)' = RequestsRead(c)
  BY ReadSame
<1>. QED BY <1>1, <1>2, SlotRests

LEMMA OrderPops ==
  ASSUME Ground, Arranged, Mid!PopMsg,
         UNCHANGED <<val, sock, backlog, cli, up, sent, inbox, orphans>>
  PROVE  Arranged'
<1>1. Unhandled' = Unhandled /\ inmsg = Mid!NoMsg /\ mulq' = mulq
  BY GroundForm, PopTells DEF Mid!PopMsg
<1>2. (\A fd : LoginsOf(fd)' = LoginsOf(fd)) /\ LoginsLast(Unhandled)'
  BY <1>1, LoginsSame DEF Arranged
<1>3. inmsg # Mid!Down
  BY <1>1 DEF Mid!NoMsg, Mid!Down
<1>4. \A i \in Slots : Knows(i)' => Knows(i)
  BY <1>3 DEF Knows, Known, Live, ConnOf
<1>5. \A i \in Slots : SlotOrder(i)'
  BY <1>1, <1>2, <1>4, MidLeaves DEF Arranged
<1>. QED BY <1>2, <1>5, ArrangedMid

(* The message that midsrv has, among those it has not handled. *)
LEMMA FirstMsg ==
  ASSUME Ground, LoginsLast(Unhandled), inmsg \in MapMsgs,
         inmsg' \in {Mid!NoMsg, Mid!Down}, sinq' = sinq
  PROVE  /\ sinq \in Seq(MapMsgs) /\ sinq \in Seq(Msgs) /\ inmsg \in Msgs
         /\ Unhandled = <<inmsg>> \o sinq /\ LoginsLast(Unhandled)'
         /\ \A fd : LoginsOf(fd)' = Logins(fd, sinq) /\ Logins(fd, sinq) \in Seq(Requests)
         /\ \A fd : IsLogin(inmsg, fd) => Starts(LoginsOf(fd), inmsg.req, LoginsOf(fd)')
         /\ \A fd : ~IsLogin(inmsg, fd) => LoginsOf(fd)' = LoginsOf(fd)
         /\ \A i \in Slots : IsLogin(inmsg, FdOf(i)) =>
                               \A k \in 1 .. Len(sinq) : ~About(sinq[k], i)
<1>1. sinq \in Seq(MapMsgs) /\ Unhandled = <<inmsg>> \o sinq /\ Unhandled' = sinq
  BY GroundForm, PendingHandled
<1>2. sinq \in Seq(Msgs) /\ inmsg \in Msgs
  BY <1>1, MapMsgsMsgs DEF MapMsgs
<1>3. \A fd : LoginsOf(fd)' = Logins(fd, Unhandled')
  BY DEF LoginsOf
<1>4. \A fd : LoginsOf(fd) = Logins(fd, <<inmsg>> \o sinq)
  BY <1>1, LoginsOfPending
<1>5. \A fd : Logins(fd, sinq) \in Seq(Requests)
  BY <1>2, LoginsType
<1>6. \A fd : /\ IsLogin(inmsg, fd) => Starts(LoginsOf(fd), inmsg.req, Logins(fd, sinq))
              /\ ~IsLogin(inmsg, fd) => LoginsOf(fd) = Logins(fd, sinq)
  BY <1>2, <1>4, LoginsHead
<1>7. LoginsLast(<<inmsg>> \o sinq)
  BY <1>1
<1>8. /\ LoginsLast(sinq)
      /\ \A i \in Slots : IsLogin(inmsg, FdOf(i)) =>
                            \A k \in 1 .. Len(sinq) : ~About(sinq[k], i)
  BY <1>2, <1>7, LastHead
<1>9. LoginsLast(Unhandled)'
  BY <1>1, <1>8 DEF LoginsLast
<1>. QED BY <1>1, <1>2, <1>3, <1>5, <1>6, <1>8, <1>9

(* A login that is on its way is of a slot in use. *)
LEMMA LoginIsLive ==
  ASSUME NEW i \in Slots, SlotOrder(i), NEW x, NEW t \in Seq(Requests),
         Starts(LoginsOf(FdOf(i)), x, t)
  PROVE  Live(i)
<1>1. Len(t) \in Nat /\ Len(LoginsOf(FdOf(i))) = Len(t) + 1
  BY DEF Starts
<1>2. LoginsOf(FdOf(i)) # <<>>
  BY <1>1
<1>. QED BY <1>2 DEF SlotOrder, Bare

(* midsrv is done with its message, and puts no answer to it: it is none   *)
(* of a slot that midsrv knows then.                                       *)
LEMMA OrderDrops ==
  ASSUME Ground, Arranged, inmsg \in MapMsgs, inmsg' \in {Mid!NoMsg, Mid!Down},
         UNCHANGED <<val, sock, backlog, cli, up, sent, inbox, orphans, sinq, mulq>>,
         \A i \in Slots : IsLogin(inmsg, FdOf(i)) => ~Knows(i)'
  PROVE  Arranged'
<1>1. /\ LoginsLast(Unhandled)'
      /\ \A fd : LoginsOf(fd)' = Logins(fd, sinq) /\ Logins(fd, sinq) \in Seq(Requests)
      /\ \A fd : IsLogin(inmsg, fd) => Starts(LoginsOf(fd), inmsg.req, LoginsOf(fd)')
      /\ \A fd : ~IsLogin(inmsg, fd) => LoginsOf(fd)' = LoginsOf(fd)
  BY FirstMsg DEF Arranged
<1>2. inmsg # Mid!Down
  BY GroundForm, PendingForm DEF MapTypes
<1>3. \A i \in Slots : Knows(i)' => Knows(i)
  BY <1>2 DEF Knows, Known, Live, ConnOf
<1>4. ASSUME NEW i \in Slots, ~IsLogin(inmsg, FdOf(i))
      PROVE  SlotOrder(i)'
  BY <1>1, <1>3, <1>4, MidLeaves DEF Arranged
<1>5. ASSUME NEW i \in Slots, IsLogin(inmsg, FdOf(i))
      PROVE  SlotOrder(i)'
  <2>1. PICK t \in Seq(Requests) : /\ t = LoginsOf(FdOf(i))'
                                   /\ Starts(LoginsOf(FdOf(i)), inmsg.req, t)
    BY <1>1, <1>5
  <2>2. Live(i) /\ SlotOrder(i)
    BY <2>1, LoginIsLive DEF Arranged
  <2>3. PICK c \in Conns, a \in Nat, r \in Nat,
             S \in Seq(Requests), Q \in Seq(Requests), L \in Seq(Requests), T \in Seq(Requests) :
               Holds(i, c, a, r, S, Q, L, T)
    BY <2>2, OrderParts
  <2>4. Counted(c, a, r, S, Q, L, T) /\ Parts(a, r, S, Q, L, T) /\ Starts(L, inmsg.req, t)
    BY <2>1, <2>2, <2>3, HoldsNow DEF Parts, Holds
  <2>5. Counted(c, a, r, S, Q, t, T)
    BY <2>4, OrderLoses
  <2>6. Holds(i, c, a, r, S, Q, t, T)'
    BY <2>1, <2>3 DEF Holds, Live, ConnOf, Sending, Retained, RequestsRead, Cli!Answered
  <2>. QED BY <1>5, <2>5, <2>6, HoldsNext
<1>. QED BY <1>1, <1>4, <1>5, ArrangedMid

(* fnd() finds the index of a slot's socket if the table has it. *)
LEMMA TableFnd ==
  ASSUME NEW m \in MapTables, GoodTable(m), NEW i \in Slots
  PROVE  Mid!Map!Fnd(m, FdOf(i)) = IF i \in Indexes(m) THEN i ELSE -1
<1>. DEFINE found == {e \in Slots : m.psrvfd[e] = FdOf(i)}
<1>1. Mid!Map!EntriesWith(m.psrvfd, FdOf(i)) = found
  BY TableEntries DEF Mid!Map!EntriesWith
<1>2. \A e \in Slots : m.pindex[e] = i => e \in found
  BY Numbers DEF MapTables
<1>3. ASSUME NEW e \in found
      PROVE  m.pindex[e] = i
  <2>1. /\ i \in Nat \ {0} /\ i <= EPOLL_SIZE /\ EPOLL_SIZE \in Nat /\ FirstFd \in Nat \ {0}
        /\ FdOf(i) = FirstFd + i - 1
    BY Numbers DEF FdOf
  <2>2. e \in Slots /\ m.psrvfd[e] = FdOf(i)
    OBVIOUS
  <2>3. (m.pindex[e] = 0 /\ m.psrvfd[e] = 0) \/ GoodPair(m.pindex[e], m.psrvfd[e])
    BY <2>2, TableEntries DEF GoodTable
  <2>4. m.pindex[e] \in Slots /\ FdOf(i) = FdOf(m.pindex[e])
    BY <2>1, <2>2, <2>3 DEF GoodPair
  <2>. QED BY <2>4, OtherFd
<1>4. i \in Indexes(m) <=> found # {}
  BY <1>2, <1>3, Numbers DEF Indexes
<1>5. found # {} => Mid!Map!Min(found) \in found
  <2>1. found \subseteq Nat
    BY Numbers
  <2>. HIDE DEF found
  <2>. QED BY <2>1, MapMin
<1>. HIDE DEF found
<1>. QED BY <1>1, <1>3, <1>4, <1>5 DEF Mid!Map!Fnd

(* While a login of a slot is the first message, midsrv has the slot in its*)
(* map exactly when it knows the slot.                                     *)
LEMMA LoginIsKnown ==
  ASSUME Ground, Arranged, ended.insrv = 0, inmsg \in MapMsgs,
         NEW i \in Slots, IsLogin(inmsg, FdOf(i))
  PROVE  Mid!Channel = IF i \in Known THEN i ELSE -1
<1>1. MapTypes /\ Follows /\ GoodTable(map)
  BY GroundForm DEF Ground, RouteInv
<1>2. /\ inmsg # Mid!Down /\ sinq \in Seq(MapMsgs)
      /\ Unhandled = <<inmsg>> \o sinq
  BY <1>1, PendingForm, ToldPending DEF MapTypes
<1>3. \A k \in 1 .. Len(sinq) : ~About(sinq[k], i)
  <2>1. sinq \in Seq(Msgs) /\ inmsg \in Msgs
    BY <1>2, MapMsgsMsgs DEF MapMsgs
  <2>2. LoginsLast(<<inmsg>> \o sinq)
    BY <1>2 DEF Arranged
  <2>. QED BY <2>1, <2>2, LastHead
<1>4. Told = Indexes(Fore(Applied(map, inmsg), sinq))
  BY <1>1, <1>2, ForeHead DEF Told, MapTypes
<1>5. Applied(map, inmsg) = map
  BY <1>1, AppliedTable DEF IsLogin, MapTypes
<1>6. i \in Told <=> i \in Indexes(map)
  BY <1>1, <1>2, <1>3, <1>4, <1>5, ForeApart DEF MapTypes
<1>7. i \in Known <=> i \in Told
  BY <1>1, <1>2 DEF Follows
<1>8. Mid!Channel = Mid!Map!Fnd(map, FdOf(i))
  BY DEF Mid!Channel, IsLogin
<1>9. Mid!Map!Fnd(map, FdOf(i)) = IF i \in Indexes(map) THEN i ELSE -1
  BY <1>1, TableFnd DEF MapTypes
<1>. QED BY <1>6, <1>7, <1>8, <1>9

(* The slot of the login that midsrv has. *)
LEMMA LoginSlot ==
  ASSUME Ground, inmsg.id = "LOGIN"
  PROVE  \E i \in Slots : /\ IsLogin(inmsg, FdOf(i))
                          /\ \A j \in Slots : IsLogin(inmsg, FdOf(j)) => j = i
<1>1. inmsg.dstid \in FirstFd .. FirstFd + EPOLL_SIZE - 1
  BY DEF Ground, RouteInv, GoodMsg, SlotFds
<1>2. PICK i \in Slots : FdOf(i) = inmsg.dstid
  <2>1. inmsg.dstid - FirstFd + 1 \in Slots
    BY <1>1, Numbers
  <2>2. FdOf(inmsg.dstid - FirstFd + 1) = inmsg.dstid
    BY <1>1, Numbers DEF FdOf
  <2>. QED BY <2>1, <2>2
<1>. QED BY <1>2, OtherFd DEF IsLogin

(* The channel has room for the answers to all requests of a connection.   *)
LEMMA ChannelHasRoom ==
  ASSUME ChanCap >= MaxReq * RspLen, NEW Q \in Seq(Requests), NEW x \in Requests,
         NEW c, NEW a \in Nat, NEW S \in Seq(Requests), x = <<c, a + Len(S) + Len(Q) + 1>>
  PROVE  (Len(Q) + 1) * RspLen <= ChanCap
<1>1. x[2] \in 1 .. MaxReq /\ Len(S) \in Nat /\ Len(Q) \in Nat
  BY DEF Requests
<1>2. Len(Q) + 1 <= MaxReq /\ Len(Q) + 1 \in Nat
  BY <1>1, Lengths
<1>3. \A p, q, n \in Nat : p <= q => p * n <= q * n
  OBVIOUS
<1>4. (Len(Q) + 1) * RspLen <= MaxReq * RspLen
  BY <1>2, <1>3, Lengths
<1>5. (Len(Q) + 1) * RspLen \in Nat /\ MaxReq * RspLen \in Nat
  BY <1>2, Lengths
<1>. QED BY <1>4, <1>5, Lengths

LEMMA OrderPutsAnswer ==
  ASSUME Ground, Arranged, ended.insrv = 0, ChanCap >= MaxReq * RspLen, Mid!HandleLogin,
         UNCHANGED <<val, sock, backlog, cli, up, sent, inbox, orphans>>
  PROVE  Arranged'
<1>1. /\ inmsg.id = "LOGIN" /\ inmsg' = Mid!NoMsg /\ sinq' = sinq
      /\ mulq' = IF Mid!Channel \in Mid!Slots /\ Mid!ChannelTakes(Mid!Channel)
                 THEN [mulq EXCEPT ![Mid!Channel] = Append(@, inmsg.req)] ELSE mulq
  BY DEF Mid!HandleLogin, Mid!Handled
<1>2. inmsg \in MapMsgs /\ inmsg \in Msgs /\ inmsg.req \in Requests
  <2>1. inmsg \in MapMsgs \cup {Mid!NoMsg, Mid!Down}
    BY GroundForm DEF MapTypes
  <2>2. inmsg \in MapMsgs
    BY <1>1, <2>1 DEF Mid!NoMsg, Mid!Down
  <2>. QED BY <1>1, <2>2, MsgFields DEF MapMsgs
<1>3. PICK i \in Slots : /\ IsLogin(inmsg, FdOf(i))
                         /\ \A j \in Slots : IsLogin(inmsg, FdOf(j)) => j = i
  BY <1>1, LoginSlot
<1>4. Mid!Channel = IF i \in Known THEN i ELSE -1
  BY <1>2, <1>3, LoginIsKnown
<1>5. Known' = Known
  BY DEF Known, Live, ConnOf
<1>6. CASE i \notin Known
  <2>1. Mid!Channel \notin Mid!Slots
    BY <1>4, <1>6, Names, Numbers
  <2>2. mulq' = mulq
    BY <1>1, <2>1
  <2>3. \A j \in Slots : IsLogin(inmsg, FdOf(j)) => ~Knows(j)'
    BY <1>3, <1>5, <1>6 DEF Knows
  <2>. QED BY <1>1, <1>2, <2>2, <2>3, OrderDrops
<1>7. CASE i \in Known
  <2>1. /\ LoginsLast(Unhandled)'
        /\ \A fd : LoginsOf(fd)' = Logins(fd, sinq) /\ Logins(fd, sinq) \in Seq(Requests)
        /\ \A fd : IsLogin(inmsg, fd) => Starts(LoginsOf(fd), inmsg.req, LoginsOf(fd)')
        /\ \A fd : ~IsLogin(inmsg, fd) => LoginsOf(fd)' = LoginsOf(fd)
    BY <1>1, <1>2, FirstMsg DEF Arranged
  <2>2. PICK t \in Seq(Requests) : /\ t = LoginsOf(FdOf(i))'
                                   /\ Starts(LoginsOf(FdOf(i)), inmsg.req, t)
    BY <1>3, <2>1
  <2>3. inmsg # Mid!Down
    BY <1>1 DEF Mid!Down
  <2>4. Live(i) /\ Knows(i)
    BY <1>7, <2>3 DEF Known, Knows
  <2>5. PICK c \in Conns, a \in Nat, r \in Nat,
             S \in Seq(Requests), Q \in Seq(Requests), L \in Seq(Requests), T \in Seq(Requests) :
               Holds(i, c, a, r, S, Q, L, T)
    BY <2>4, OrderParts
  <2>6. PICK x \in Requests : x = inmsg.req
    BY <1>2
  <2>7. Complete(c, a, r, S, Q, L, T) /\ Parts(a, r, S, Q, L, T) /\ Starts(L, x, t)
    BY <2>2, <2>4, <2>5, <2>6, HoldsNow DEF Parts, Holds, Arranged
  <2>8. x = <<c, a + Len(S) + Len(Q) + 1>> /\ Complete(c, a, r, S, Append(Q, x), t, T)
    BY <2>7, OrderPuts
  <2>9. Append(Q, x) \in Seq(Requests)
    OBVIOUS
  <2>10. Counted(c, a, r, S, Append(Q, x), t, T)
    <3>1. Parts(a, r, S, Append(Q, x), t, T)
      BY <2>9 DEF Parts
    <3>. QED BY <2>8, <3>1, CompleteCounted
  <2>11. (Len(Q) + 1) * RspLen <= ChanCap
    BY <2>8, ChannelHasRoom
  <2>12. Mid!Channel = i /\ i \in Mid!Slots /\ Mid!ChannelTakes(i)
    BY <1>4, <1>7, <2>5, <2>11, Names DEF Holds, Mid!ChannelTakes
  <2>13. mulq' = [mulq EXCEPT ![i] = Append(@, x)]
    BY <1>1, <2>6, <2>12
  <2>14. mulq'[i] = Append(Q, x) /\ \A j \in Slots : j # i => mulq'[j] = mulq[j]
    BY <2>5, <2>13, GroundForm DEF Holds, QueueTypes
  <2>15. Holds(i, c, a, r, S, Append(Q, x), t, T)'
    BY <2>2, <2>5, <2>14
    DEF Holds, Live, ConnOf, Sending, Retained, RequestsRead, Cli!Answered
  <2>16. SlotOrder(i)'
    BY <2>8, <2>10, <2>15, HoldsNext
  <2>17. ASSUME NEW j \in Slots, j # i
         PROVE  SlotOrder(j)'
    <3>1. LoginsOf(FdOf(j))' = LoginsOf(FdOf(j)) /\ mulq'[j] = mulq[j]
      BY <1>3, <2>1, <2>14, <2>17
    <3>2. Knows(j)' => Knows(j)
      BY <1>5, <2>3 DEF Knows
    <3>. QED BY <3>1, <3>2, MidLeaves DEF Arranged
  <2>. QED BY <2>1, <2>16, <2>17, ArrangedMid
<1>. QED BY <1>6, <1>7

LEMMA OrderMidStep ==
  ASSUME Ground, Arranged, ended.insrv = 0, ChanCap >= MaxReq * RspLen, MidStep
  PROVE  Arranged'
<1>1. Mid!MidNext /\ UNCHANGED <<val, sock, backlog, cli, up, sent, inbox, orphans>>
  BY DEF MidStep, insrvVars, clientVars, histVars
<1>2. CASE Mid!PopMsg
  BY <1>1, <1>2, OrderPops
<1>3. CASE Mid!HandleNewConnect \/ Mid!HandleCloConnect
  <2>1. /\ inmsg.id \in {"NEW_CONNECT", "CLO_CONNECT"} /\ inmsg' = Mid!NoMsg
        /\ sinq' = sinq /\ mulq' = mulq
    BY <1>3 DEF Mid!HandleNewConnect, Mid!HandleCloConnect, Mid!Handled
  <2>2. inmsg \in MapMsgs
    <3>1. inmsg \in MapMsgs \cup {Mid!NoMsg, Mid!Down}
      BY GroundForm DEF MapTypes
    <3>. QED BY <2>1, <3>1 DEF Mid!NoMsg, Mid!Down
  <2>3. \A i \in Slots : ~IsLogin(inmsg, FdOf(i))
    BY <2>1 DEF IsLogin
  <2>. QED BY <1>1, <2>1, <2>2, <2>3, OrderDrops
<1>4. CASE Mid!HandleLogin
  BY <1>1, <1>4, OrderPutsAnswer
<1>. QED BY <1>1, <1>2, <1>3, <1>4 DEF Mid!MidNext

(* What midsrv had, and its knowledge of the slots, goes with it. *)
LEMMA OrderMidEnds ==
  ASSUME Ground, Arranged, MidsrvEnds
  PROVE  Arranged'
<1>1. /\ inmsg # Mid!Down /\ inmsg' = Mid!Down
      /\ UNCHANGED <<val, sock, backlog, cli, up, sent, inbox, orphans, sinq, mulq>>
  BY DEF MidsrvEnds, Mid!MidEnds, insrvVars, clientVars
<1>2. \A i \in Slots : ~Knows(i)'
  BY <1>1 DEF Knows
<1>3. CASE inmsg \in MapMsgs
  BY <1>1, <1>2, <1>3, OrderDrops
<1>4. CASE inmsg = Mid!NoMsg
  <2>1. Unhandled' = Unhandled
    BY <1>1, <1>4 DEF Unhandled
  <2>2. (\A fd : LoginsOf(fd)' = LoginsOf(fd)) /\ LoginsLast(Unhandled)'
    BY <2>1, LoginsSame DEF Arranged
  <2>3. \A i \in Slots : SlotOrder(i)'
    BY <1>1, <1>2, <2>2, MidLeaves DEF Arranged
  <2>. QED BY <1>1, <2>2, <2>3, ArrangedMid
<1>. QED BY <1>1, <1>3, <1>4, GroundForm DEF MapTypes

(* A midsrv that starts knows no slot, and finds no request. *)
LEMMA OrderMidStarts ==
  ASSUME Ground, Arranged, MidsrvStarts
  PROVE  Arranged'
<1>1. /\ inmsg' = Mid!NoMsg /\ sinq' = <<>> /\ mulq' = [i \in Slots |-> <<>>]
      /\ UNCHANGED <<val, sock, backlog, cli, up, sent, inbox>>
  BY Names DEF MidsrvStarts, Mid!MidStarts, insrvVars, clientVars
<1>2. Known' = {}
  BY GroundForm, StartsOutdated
<1>3. \A i \in Slots : ~Knows(i)' /\ mulq'[i] = <<>>
  BY <1>1, <1>2 DEF Knows
<1>4. Unhandled' = <<>>
  BY <1>1 DEF Unhandled
<1>5. \A fd : LoginsOf(fd)' = Logins(fd, Unhandled')
  BY DEF LoginsOf
<1>6. \A fd : LoginsOf(fd)' = <<>>
  BY <1>4, <1>5, LoginsNone
<1>7. LoginsLast(Unhandled)'
  BY <1>4, LastEmpty DEF LoginsLast
<1>8. ASSUME NEW i \in Slots
      PROVE  SlotOrder(i)'
  <2>1. /\ Live(i)' = Live(i) /\ Sending(i)' = Sending(i) /\ Retained(i)' = Retained(i)
        /\ SlotOrder(i)
    BY <1>1 DEF Live, Sending, Retained, Arranged
  <2>2. CASE ~Live(i)
    <3>1. Bare(i)' /\ ~Live(i)'
      BY <1>3, <1>6, <2>1, <2>2 DEF SlotOrder, Bare
    <3>. QED BY <3>1, BareNext
  <2>3. CASE Live(i)
    <3>1. PICK c \in Conns, a \in Nat, r \in Nat,
               S \in Seq(Requests), Q \in Seq(Requests), L \in Seq(Requests),
               T \in Seq(Requests) : Holds(i, c, a, r, S, Q, L, T)
      BY <2>3, OrderParts
    <3>2. Counted(c, a, r, S, Q, L, T) /\ Parts(a, r, S, Q, L, T)
      BY <2>1, <3>1, HoldsNow DEF Parts
    <3>3. Counted(c, a, r, S, <<>>, <<>>, T)
      BY <3>2, CountedCleared
    <3>4. Holds(i, c, a, r, S, <<>>, <<>>, T)'
      BY <1>1, <1>3, <1>6, <2>1, <3>1 DEF Holds, ConnOf, RequestsRead, Cli!Answered
    <3>. QED BY <1>3, <3>3, <3>4, HoldsNext
  <2>. QED BY <2>2, <2>3
<1>. QED BY <1>1, <1>7, <1>8, ArrangedMid

-----------------------------------------------------------------------------
(* The steps of the clients *)

(* A step that reads nothing from a slot, nor sends to one. *)
LEMMA ArrangedClient ==
  ASSUME Arranged, UNCHANGED <<val, sock, inbox, sinq, inmsg, mulq, orphans>>,
         \A d \in Conns : RequestsRead(d)' = RequestsRead(d), Unserved', Ground
  PROVE  Arranged'
<1>1. Unhandled' = Unhandled
  BY DEF Unhandled
<1>2. (\A fd : LoginsOf(fd)' = LoginsOf(fd)) /\ LoginsLast(Unhandled)'
  BY <1>1, LoginsSame DEF Arranged
<1>3. ASSUME NEW i \in Slots
      PROVE  SlotOrder(i)'
  <2>1. /\ Sending(i)' = Sending(i) /\ Retained(i)' = Retained(i)
        /\ (Knows(i)' <=> Knows(i))
    BY DEF Sending, Retained, Knows, Known, Live, ConnOf
  <2>2. Live(i) => ConnOf(i) \in Conns
    BY GroundForm, ConnOfSlot
  <2>. QED BY <1>2, <2>1, <2>2, SlotRests DEF Arranged
<1>4. Served'
  BY ServedSame DEF Arranged
<1>5. InParts'
  BY DEF Arranged, InParts, Live, ConnOf, Part
<1>. QED BY <1>2, <1>3, <1>4, <1>5 DEF Arranged

LEMMA OrderBegins ==
  ASSUME Ground, OrderInv, NEW c \in Conns, Connect(c), UNCHANGED <<val, sock, sinq, inmsg, mulq, orphans>>
  PROVE  Arranged' /\ Settled'
<1>1. /\ cli[c] = "idle" /\ cli' = [cli EXCEPT ![c] = "send"]
      /\ backlog' = Append(backlog, c) /\ UNCHANGED <<sent, rcv, up, inbox>>
  BY DEF Connect, Cli!Connect
<1>2. cli'[c] = "send" /\ \A d \in Conns : d # c => cli'[d] = cli[d]
  BY <1>1, GroundForm DEF ClientTypes
<1>3. \A d : RequestsRead(d)' = RequestsRead(d)
  BY <1>1, ReadSame
<1>4. Unserved /\ Arranged /\ Settled
  BY DEF OrderInv, Arranged
<1>5. Unserved'
  <2>1. \A j \in 1 .. Len(backlog') : inbox[backlog'[j]] = <<>>
    <3>1. backlog \in Seq(Conns) /\ inbox[c] = <<>>
      BY <1>1, <1>4, GroundForm DEF SocketTypes, Unserved
    <3>2. /\ Len(backlog) \in Nat /\ Len(backlog') = Len(backlog) + 1
          /\ \A j \in 1 .. Len(backlog') :
               backlog'[j] = IF j <= Len(backlog) THEN backlog[j] ELSE c
      BY <1>1, <3>1
    <3>. QED BY <1>4, <3>1, <3>2 DEF Unserved
  <2>. QED BY <1>1, <1>2, <1>4, <2>1 DEF Unserved
<1>6. Arranged'
  BY <1>1, <1>3, <1>4, <1>5, ArrangedClient
<1>7. Settled'
  BY <1>1, <1>2, <1>4 DEF Settled, Cli!Asked, Cli!Answered
<1>. QED BY <1>6, <1>7

(* A client that goes on stays begun. *)
LEMMA UnservedOn ==
  ASSUME Unserved, UNCHANGED <<inbox, backlog>>, NEW c \in Conns, NEW p, p # "idle",
         cli' = [cli EXCEPT ![c] = p], cli \in [Conns -> Cli!Phases]
  PROVE  /\ Unserved'
         /\ cli'[c] = p /\ \A d \in Conns : d # c => cli'[d] = cli[d]
<1>1. cli'[c] = p /\ \A d \in Conns : d # c => cli'[d] = cli[d]
  OBVIOUS
<1>. QED BY <1>1, UnservedSame

LEMMA OrderAsks ==
  ASSUME Ground, OrderInv, NEW c \in Conns, Cli!SendUnit(c),
         UNCHANGED <<val, sock, sinq, inmsg, mulq, orphans>>
  PROVE  Arranged' /\ Settled'
<1>1. /\ sent' = [sent EXCEPT ![c] = @ + 1]
      /\ up' = [up EXCEPT ![c] = Append(@, sent[c] \div ReqLen + 1)]
      /\ cli' = [cli EXCEPT ![c] = IF sent'[c] % ReqLen = 0 THEN "recv" ELSE "send"]
      /\ UNCHANGED <<rcv, inbox, backlog>>
  BY DEF Cli!SendUnit
<1>2. Unserved /\ Arranged /\ Settled /\ ClientTypes
  BY GroundForm DEF OrderInv, Arranged
<1>3. /\ Unserved' /\ cli'[c] # "gone"
      /\ \A d \in Conns : d # c => cli'[d] = cli[d]
  <2>. DEFINE p == IF sent'[c] % ReqLen = 0 THEN "recv" ELSE "send"
  <2>1. p # "idle" /\ p # "gone" /\ cli' = [cli EXCEPT ![c] = p]
    BY <1>1
  <2>. HIDE DEF p
  <2>. QED BY <1>1, <1>2, <2>1, UnservedOn DEF ClientTypes
<1>4. \A d \in Conns : d # c => sent'[d] = sent[d] /\ up'[d] = up[d]
  BY <1>1, <1>2 DEF ClientTypes
<1>5. sent'[c] - Len(up'[c]) = sent[c] - Len(up[c])
  <2>1. sent'[c] = sent[c] + 1 /\ up'[c] = Append(up[c], sent[c] \div ReqLen + 1)
    BY <1>1, <1>2 DEF ClientTypes
  <2>2. sent[c] \in Nat /\ Len(up[c]) \in Nat /\ Len(up'[c]) = Len(up[c]) + 1
    BY <1>2, <2>1 DEF ClientTypes
  <2>. QED BY <2>1, <2>2
<1>6. \A d \in Conns : RequestsRead(d)' = RequestsRead(d)
  BY <1>4, <1>5 DEF RequestsRead
<1>7. Arranged'
  BY <1>1, <1>2, <1>3, <1>6, ArrangedClient
<1>8. \A d \in Conns : cli'[d] = "gone" => Cli!Asked(d)' <= Cli!Answered(d)'
  BY <1>1, <1>2, <1>3, <1>4 DEF Settled, Cli!Asked, Cli!Answered
<1>. QED BY <1>1, <1>2, <1>7, <1>8 DEF Settled

LEMMA OrderReceives ==
  ASSUME Ground, OrderInv, NEW c \in Conns, Cli!Recv(c),
         UNCHANGED <<val, sock, sinq, inmsg, mulq, orphans>>
  PROVE  Arranged' /\ Settled'
<1>1. /\ rcv' = [rcv EXCEPT ![c] = @ + IF Cli!Unread(c) < RspLen THEN Cli!Unread(c) ELSE RspLen]
      /\ cli' = [cli EXCEPT ![c] = IF Cli!Asked(c) < MaxReq THEN "send" ELSE "done"]
      /\ Cli!Unread(c) > 0 /\ UNCHANGED <<sent, up, inbox, backlog>>
  BY DEF Cli!Recv
<1>2. Unserved /\ Arranged /\ Settled /\ ClientTypes
  BY GroundForm DEF OrderInv, Arranged
<1>3. /\ Unserved' /\ cli'[c] # "gone"
      /\ \A d \in Conns : d # c => cli'[d] = cli[d]
  <2>. DEFINE p == IF Cli!Asked(c) < MaxReq THEN "send" ELSE "done"
  <2>1. p # "idle" /\ p # "gone" /\ cli' = [cli EXCEPT ![c] = p]
    BY <1>1
  <2>. HIDE DEF p
  <2>. QED BY <1>1, <1>2, <2>1, UnservedOn DEF ClientTypes
<1>4. \A d : RequestsRead(d)' = RequestsRead(d)
  BY <1>1, ReadSame
<1>5. Arranged'
  BY <1>1, <1>2, <1>3, <1>4, ArrangedClient
<1>6. rcv' \in [Conns -> Nat] /\ \A d \in Conns : rcv'[d] <= Len(inbox'[d])
  <2>1. rcv \in [Conns -> Nat] /\ rcv[c] \in Nat /\ Len(inbox[c]) \in Nat /\ RspLen \in Nat
    BY <1>2, Lengths DEF Settled, ClientTypes
  <2>2. PICK n \in Nat : /\ n = IF Cli!Unread(c) < RspLen THEN Cli!Unread(c) ELSE RspLen
                         /\ rcv[c] + n <= Len(inbox[c])
    <3>1. Cli!Unread(c) = Len(inbox[c]) - rcv[c]
      BY DEF Cli!Unread
    <3>. QED BY <1>1, <2>1, <3>1
  <2>3. rcv' = [rcv EXCEPT ![c] = rcv[c] + n]
    BY <1>1, <2>2
  <2>. QED BY <1>1, <1>2, <2>1, <2>2, <2>3 DEF Settled
<1>7. \A d \in Conns : cli'[d] = "gone" => Cli!Asked(d)' <= Cli!Answered(d)'
  BY <1>1, <1>2, <1>3 DEF Settled, Cli!Asked, Cli!Answered
<1>. QED BY <1>5, <1>6, <1>7 DEF Settled

LEMMA OrderLeaves ==
  ASSUME Patient, Ground, OrderInv, NEW c \in Conns, Leave(c),
         UNCHANGED <<val, sock, sinq, inmsg, mulq, orphans>>
  PROVE  Arranged' /\ Settled'
<1>1. /\ rcv[c] = RspLen * Cli!Asked(c) /\ cli' = [cli EXCEPT ![c] = "gone"]
      /\ UNCHANGED <<sent, rcv, up, inbox, backlog>>
  BY DEF Leave, Cli!Leave, Cli!AllRead
<1>2. Unserved /\ Arranged /\ Settled /\ ClientTypes
  BY GroundForm DEF OrderInv, Arranged
<1>3. Unserved' /\ \A d \in Conns : d # c => cli'[d] = cli[d]
  BY <1>1, <1>2, UnservedOn DEF ClientTypes
<1>4. \A d : RequestsRead(d)' = RequestsRead(d)
  BY <1>1, ReadSame
<1>5. Arranged'
  BY <1>1, <1>2, <1>3, <1>4, ArrangedClient
<1>6. Cli!Asked(c) <= Cli!Answered(c)
  <2>1. Len(inbox[c]) \in Nat /\ RspLen \in Nat \ {0} /\ rcv[c] <= Len(inbox[c])
    BY <1>2, Lengths DEF Settled, ClientTypes
  <2>2. Cli!Asked(c) \in Nat /\ Cli!Answered(c) \in Nat
    BY GroundForm, ClientNumbers
  <2>3. Len(inbox[c]) \div RspLen < Cli!Asked(c) <=> Len(inbox[c]) < RspLen * Cli!Asked(c)
    BY <2>1, <2>2, QuotientBound
  <2>4. ~(Len(inbox[c]) < RspLen * Cli!Asked(c))
    <3>1. rcv[c] \in Nat
      BY <1>2 DEF Settled
    <3>. QED BY <1>1, <2>1, <3>1
  <2>5. ~(Cli!Answered(c) < Cli!Asked(c))
    BY <2>3, <2>4 DEF Cli!Answered
  <2>. QED BY <2>2, <2>5
<1>7. \A d \in Conns : cli'[d] = "gone" => Cli!Asked(d)' <= Cli!Answered(d)'
  BY <1>1, <1>2, <1>3, <1>6 DEF Settled, Cli!Asked, Cli!Answered
<1>. QED BY <1>1, <1>2, <1>5, <1>7 DEF Settled

LEMMA OrderClientStep ==
  ASSUME Patient, Ground, OrderInv, NEW c \in Conns, ClientStep(c)
  PROVE  OrderInv'
<1>1. UNCHANGED <<val, sock, sinq, inmsg, mulq, orphans, pc, ended, reset>>
  BY DEF ClientStep, insrvVars, midsrvVars, histVars
<1>2. Arranged' /\ Settled'
  BY <1>1, OrderBegins, OrderAsks, OrderReceives, OrderLeaves DEF ClientStep, Cli!CliProgress
<1>. QED BY <1>1, <1>2 DEF OrderInv, InsrvStays

-----------------------------------------------------------------------------
(* The steps of insrv, and all steps *)

(* insrv sends to no client that is gone, so that no one answers with RST. *)
LEMMA ResetStays ==
  ASSUME Ground, InStep, reset = {},
         \A i \in Slots : Live(i) /\ val[i].sendflag = 1 => cli[ConnOf(i)] # "gone"
  PROVE  reset' = {}
<1>1. CASE In!PopSkips \/ In!PopToSocket \/ In!PopToClosed
  BY <1>1 DEF In!PopSkips, In!PopToSocket, In!PopToClosed, In!TakeAnswer
<1>2. CASE In!EpollWait \/ In!Accept \/ In!AcceptUnwatched
  BY <1>2 DEF In!EpollWait, In!Accept, In!AcceptUnwatched, In!Accepted
<1>3. ASSUME NEW fd \in In!Fds, In!SkipEvent(fd) \/ In!RetryRetained(fd) \/ In!Receive(fd)
      PROVE  reset' = {}
  BY <1>3 DEF In!SkipEvent, In!RetryRetained, In!Receive
<1>4. ASSUME NEW fd \in In!Fds, In!SendError(fd) \/ In!ReceiveEnd(fd)
      PROVE  reset' = {}
  <2>1. reset' = reset \ {sock[fd]}
    BY <1>4 DEF In!SendError, In!ReceiveEnd, In!CloseSlot
  <2>. QED BY <2>1
<1>5. ASSUME NEW fd \in In!Fds, In!Send(fd)
      PROVE  reset' = {}
  <2>1. PICK i \in In!Slots : /\ In!On(fd, "OUT", i) /\ val[i].sendflag = 1
                              /\ In!PeerAnswers(sock[fd])
    BY <1>5 DEF In!Send
  <2>2. i \in Slots /\ val[i].srvfd = fd
    BY <2>1, FoundSlot DEF In!On, In!At
  <2>3. Live(i) /\ ConnOf(i) = sock[fd]
    BY <2>2, Numbers DEF Live, ConnOf
  <2>. QED BY <2>1, <2>2, <2>3 DEF In!PeerAnswers
<1>. QED BY <1>1, <1>2, <1>3, <1>4, <1>5 DEF InStep, In!InNext

LEMMA SettledSame ==
  ASSUME Settled, UNCHANGED <<rcv, inbox, cli, sent>>
  PROVE  Settled'
BY DEF Settled, Cli!Asked, Cli!Answered

(* The clients' part of a step of insrv. *)
LEMMA SettledSends ==
  ASSUME Ground, OrderInv, NEW i \in Slots, NEW k \in Nat, SendsUnits(i, k),
         UNCHANGED <<rcv, cli, sent>>
  PROVE  Settled'
<1>1. Live(i) /\ Arranged /\ Settled
  BY DEF SendsUnits, OrderInv
<1>2. PICK c \in Conns : c = ConnOf(i)
  BY <1>1, GroundForm, ConnOfSlot
<1>3. PICK a \in Nat : a = Cli!Answered(c)
  BY GroundForm, ClientNumbers
<1>4. PICK n, x : n = val[i].sendmsg.n /\ x = val[i].sendmsg.req
  OBVIOUS
<1>5. SendsMore(c, a, n, k, x)
  BY <1>1, <1>2, <1>3, <1>4, SendCounts
<1>6. Cli!Answered(c)' \in Nat /\ a <= Cli!Answered(c)'
  BY <1>5 DEF SendsMore
<1>7. Len(inbox[c]) <= Len(inbox'[c]) /\ \A d \in Conns : d # c => inbox'[d] = inbox[d]
  <2>1. RspLen * a \in Nat
    BY <1>3, Lengths
  <2>2. n \in Nat /\ Len(inbox[c]) = RspLen * a + n /\ Len(inbox'[c]) = RspLen * a + n + k
    BY <1>5 DEF SendsMore
  <2>3. Len(inbox[c]) <= Len(inbox'[c])
    BY <2>1, <2>2
  <2>. QED BY <1>5, <2>3 DEF SendsMore
<1>8. ASSUME NEW d \in Conns
      PROVE  rcv'[d] <= Len(inbox'[d]) /\ (cli'[d] = "gone" => Cli!Asked(d)' <= Cli!Answered(d)')
  <2>1. CASE d # c
    BY <1>1, <1>7, <2>1 DEF Settled, Cli!Asked, Cli!Answered
  <2>2. CASE d = c
    <3>1. rcv[c] \in Nat /\ rcv[c] <= Len(inbox[c]) /\ Len(inbox[c]) \in Nat
      BY <1>1, GroundForm, ClientNumbers DEF Settled
    <3>2. Len(inbox'[c]) \in Nat
      <4>1. RspLen * a \in Nat
        BY <1>3, Lengths
      <4>2. n \in Nat /\ Len(inbox'[c]) = RspLen * a + n + k
        BY <1>5 DEF SendsMore
      <4>. QED BY <4>1, <4>2
    <3>3. rcv'[c] <= Len(inbox'[c])
      BY <1>7, <3>1, <3>2
    <3>4. Cli!Asked(c) \in Nat /\ Cli!Asked(c)' = Cli!Asked(c)
      BY GroundForm, ClientNumbers DEF Cli!Asked
    <3>5. cli[c] = "gone" => Cli!Asked(c) <= a
      BY <1>1, <1>3 DEF Settled
    <3>. QED BY <1>3, <1>6, <2>2, <3>3, <3>4, <3>5
  <2>. QED BY <2>1, <2>2
<1>. QED BY <1>1, <1>8 DEF Settled

LEMMA OrderInStep ==
  ASSUME Ground, OrderInv, MaxOpen \in Nat, MaxOpen <= EPOLL_SIZE, InStep, TellsMidsrv
  PROVE  OrderInv'
<1>1. InFlow
  BY GroundForm, InsrvFlow
<1>2. UNCHANGED <<cli, sent, rcv, ended, orphans>> /\ pc' # "down"
  BY LoopGoesOn DEF InStep, histVars
<1>3. Arranged /\ Settled /\ InsrvStays
  BY DEF OrderInv
<1>4. InsrvStays'
  <2>1. \A i \in Slots : Live(i) /\ val[i].sendflag = 1 => cli[ConnOf(i)] # "gone"
    BY GoneHasNone, SendingNone DEF Bare
  <2>2. reset' = {}
    BY <1>3, <2>1, ResetStays DEF InsrvStays
  <2>. QED BY <1>2, <1>3, <2>2 DEF InsrvStays
<1>5. CASE Idles
  <2>1. Arranged' /\ inbox' = inbox
    BY <1>2, <1>3, <1>5, OrderIdles DEF Idles, bytes
  <2>. QED BY <1>2, <1>3, <1>4, <2>1, SettledSame DEF OrderInv
<1>6. CASE AcceptsOne
  <2>1. Arranged' /\ inbox' = inbox
    BY <1>2, <1>3, <1>6, OrderAccepts DEF AcceptsOne, bytes
  <2>. QED BY <1>2, <1>3, <1>4, <2>1, SettledSame DEF OrderInv
<1>7. ASSUME NEW i \in Slots, TakesAnswer(i) \/ Retries(i)
      PROVE  OrderInv'
  <2>1. Arranged' /\ inbox' = inbox
    BY <1>2, <1>3, <1>7, OrderTakesAnswer, OrderRetriesPush DEF TakesAnswer, Retries, bytes
  <2>. QED BY <1>2, <1>3, <1>4, <2>1, SettledSame DEF OrderInv
<1>8. ASSUME NEW i \in Slots, NEW k \in Nat, SendsUnits(i, k)
      PROVE  OrderInv'
  <2>1. Arranged' /\ Settled'
    BY <1>2, <1>3, <1>8, OrderSendsUnits, SettledSends
  <2>. QED BY <1>4, <2>1 DEF OrderInv
<1>9. ASSUME NEW i \in Slots, NEW k \in Nat, ReadsUnits(i, k)
      PROVE  OrderInv'
  <2>1. Arranged' /\ inbox' = inbox
    BY <1>2, <1>3, <1>9, OrderReadsUnits DEF ReadsUnits
  <2>. QED BY <1>2, <1>3, <1>4, <2>1, SettledSame DEF OrderInv
<1>10. ASSUME NEW i \in Slots, NEW fd \in In!Fds, ClosesOne(fd, i)
       PROVE  OrderInv'
  <2>1. Arranged' /\ inbox' = inbox
    BY <1>2, <1>10, OrderCloses DEF ClosesOne
  <2>. QED BY <1>2, <1>3, <1>4, <2>1, SettledSame DEF OrderInv
<1>. QED BY <1>1, <1>5, <1>6, <1>7, <1>8, <1>9, <1>10 DEF InFlow

LEMMA OrderStep ==
  ASSUME Patient, InsrvKills = 0, MaxOpen \in Nat, MaxOpen <= EPOLL_SIZE,
         ChanCap >= MaxReq * RspLen,
         Ground, OrderInv, [Next]_vars, [TellsMidsrv]_vars
  PROVE  OrderInv'
<1>1. Arranged /\ Settled /\ InsrvStays
  BY DEF OrderInv
<1>2. TellsMidsrv
  BY DEF TellsMidsrv, vars, insrvVars
<1>3. CASE InStep
  BY <1>2, <1>3, OrderInStep
<1>4. ASSUME UNCHANGED <<rcv, inbox, cli, sent, pc, reset>>, ended'.insrv = ended.insrv
      PROVE  Settled' /\ InsrvStays'
  BY <1>1, <1>4, SettledSame DEF InsrvStays
<1>5. CASE MidStep
  <2>1. Arranged'
    BY <1>1, <1>5, OrderMidStep DEF InsrvStays
  <2>2. UNCHANGED <<rcv, inbox, cli, sent, pc, reset, ended>>
    BY <1>5 DEF MidStep, insrvVars, clientVars, histVars
  <2>. QED BY <1>4, <2>1, <2>2 DEF OrderInv
<1>6. CASE \E c \in Conns : ClientStep(c)
  BY <1>6, OrderClientStep
<1>7. CASE InsrvDies \/ InsrvKilled \/ InsrvStarts
  <2>1. ~InsrvDies
    BY <1>1 DEF InsrvDies, In!SigPipe, InsrvStays
  <2>2. ~InsrvKilled /\ ~InsrvStarts
    BY <1>1 DEF InsrvKilled, InsrvStarts, In!Starts, InsrvStays
  <2>. QED BY <1>7, <2>1, <2>2
<1>8. CASE MidsrvEnds
  <2>1. Arranged'
    BY <1>1, <1>8, OrderMidEnds
  <2>2. /\ UNCHANGED <<rcv, inbox, cli, sent, pc, reset>>
        /\ ended' = [ended EXCEPT !.midsrv = @ + 1]
    BY <1>8 DEF MidsrvEnds, insrvVars, clientVars
  <2>3. ended'.insrv = ended.insrv
    BY <2>2, GroundForm DEF MapTypes
  <2>. QED BY <1>4, <2>1, <2>2, <2>3 DEF OrderInv
<1>9. CASE MidsrvStarts
  <2>1. Arranged'
    BY <1>1, <1>9, OrderMidStarts
  <2>2. UNCHANGED <<rcv, inbox, cli, sent, pc, reset, ended>>
    BY <1>9 DEF MidsrvStarts, insrvVars, clientVars
  <2>. QED BY <1>4, <2>1, <2>2 DEF OrderInv
<1>10. CASE UNCHANGED vars
  <2>1. Idles /\ UNCHANGED <<orphans, rcv, inbox, cli, sent, pc, reset, ended>>
    BY <1>10 DEF vars, insrvVars, midsrvVars, clientVars, histVars, Idles, owners, bytes, messages
  <2>2. Arranged'
    BY <1>1, <2>1, OrderIdles
  <2>. QED BY <1>4, <2>1, <2>2 DEF OrderInv
<1>. QED BY <1>3, <1>5, <1>6, <1>7, <1>8, <1>9, <1>10 DEF Next

LEMMA OrderInit ==
  ASSUME Init
  PROVE  OrderInv
<1>1. /\ pc = "pop" /\ sinq = <<>> /\ inmsg = Mid!NoMsg /\ reset = {} /\ backlog = <<>>
      /\ mulq = [i \in Slots |-> <<>>] /\ ended = [insrv |-> 0, midsrv |-> 0]
      /\ val = In!AllErased /\ rcv = [c \in Conns |-> 0] /\ inbox = [c \in Conns |-> <<>>]
      /\ cli = [c \in Conns |-> "idle"]
  BY DEF Init, In!InInit, Mid!MidInit, Cli!CliInit
<1>2. \A i \in Slots : val[i] = In!Erased
  BY <1>1, Numbers DEF In!AllErased
<1>3. Unhandled = <<>>
  BY <1>1 DEF Unhandled
<1>4. \A i \in Slots : ~Live(i) /\ Bare(i)
  <2>1. \A fd : LoginsOf(fd) = <<>>
    BY <1>3, LoginsOfPending, LoginsNone
  <2>. QED BY <1>1, <1>2, <2>1, ErasedSlot, ErasedHoldsNone
       DEF Live, Bare, Sending, Retained
<1>5. \A i \in Slots : SlotOrder(i)
  BY <1>4 DEF SlotOrder
<1>6. Unserved /\ InParts /\ Served /\ LoginsLast(Unhandled)
  <2>1. LoginsLast(Unhandled)
    BY <1>3, LastEmpty
  <2>. QED BY <1>1, <1>4, <2>1 DEF Unserved, InParts, Served
<1>7. Settled
  BY <1>1 DEF Settled
<1>. QED BY <1>1, <1>5, <1>6, <1>7 DEF OrderInv, Arranged, InsrvStays

-----------------------------------------------------------------------------
LEMMA GroundInit ==
  ASSUME MaxOpen \in Nat, Init
  PROVE  OpenInv /\ RouteInv /\ MapInv /\ OrderInv
<1>1. OpenInv
  BY OpenNone, PlaceNone DEF Init, In!InInit, Cli!CliInit, OpenInv
<1>2. GoodMsg(Mid!NoMsg)
  BY DEF GoodMsg, Mid!NoMsg
<1>3. RouteInv
  BY <1>2, EmptyQueue, ClearedTable DEF Init, Mid!MidInit, RouteInv
<1>. QED BY <1>1, <1>3, MapInit, OrderInit

(* What the following theorems assume of the clients and of the lengths. *)
Orderly ==
  /\ Patient /\ InsrvKills = 0
  /\ MaxOpen \in Nat /\ MaxOpen <= EPOLL_SIZE
  /\ ChanCap >= MaxReq * RspLen

LEMMA OrderInvariant ==
  ASSUME Orderly
  PROVE  Spec /\ [][TellsMidsrv]_vars => [](Ground /\ OrderInv)
<1>1. Init => OpenInv /\ RouteInv /\ MapInv /\ OrderInv
  BY GroundInit DEF Orderly
<1>2. /\ PairInv /\ PlaceInv /\ TypeInv /\ TypeInv' /\ StreamInv
      /\ OpenInv /\ RouteInv /\ MapInv /\ OrderInv /\ [Next]_vars /\ [TellsMidsrv]_vars
      => OpenInv' /\ RouteInv' /\ MapInv' /\ OrderInv'
  BY OpenStep, RouteStep, MapStep, OrderStep DEF Ground, Orderly
<1>3. PairInv /\ OpenInv /\ TypeInv /\ StreamInv /\ RouteInv /\ MapInv => Ground
  BY DEF Ground
<1>. QED BY <1>1, <1>2, <1>3, TypeInvariant, FlowInvariant, PTL DEF Spec

(* For every client that closes only when its last answer has been read,   *)
(* and as long as insrv is up, can tell midsrv of every connection and has *)
(* room for the answers in its channels, the requests of a connection pass *)
(* recvmsg, the queue to midsrv, the channel of the slot and sendmsg in    *)
(* the order in which the client made them, none lost and none twice,      *)
(* through every short read, partial send, retry of a full queue and reuse *)
(* of a slot: what the client got and what is still under way are exactly  *)
(* the requests that insrv has read (CSocketSrvEpoll.cpp my_epoll_wait,    *)
(* CShmQueueMulti.cpp popmsg_complex, CMidHandle.cpp                       *)
(* handle_MSGID_I2M_LOGIN).                                                *)
THEOREM RequestsStayInOrder ==
  ASSUME Orderly
  PROVE  Spec /\ [][TellsMidsrv]_vars => []PipelineInOrder
<1>1. Spec /\ [][TellsMidsrv]_vars => [](Ground /\ OrderInv)
  BY OrderInvariant
<1>2. Ground /\ OrderInv => PipelineInOrder
  BY OrderMatches
<1>. QED BY <1>1, <1>2, PTL

(* Under the same conditions the answer in the send buffer of a slot is    *)
(* one to the connection that has the slot, as CShmQueueMulti.cpp:124      *)
(* assumes: only an impatient client can leave an answer to the next one.  *)
THEOREM AnswersGoToTheirClient ==
  ASSUME Orderly
  PROVE  Spec /\ [][TellsMidsrv]_vars => []AnswersGoHome
<1>1. Spec /\ [][TellsMidsrv]_vars => [](Ground /\ OrderInv)
  BY OrderInvariant
<1>2. Ground /\ OrderInv => AnswersGoHome
  <2>. SUFFICES ASSUME Ground, OrderInv, NEW i \in Slots, Live(i), val[i].sendflag = 1
                PROVE  val[i].sendmsg.req[1] = ConnOf(i)
    BY DEF AnswersGoHome
  <2>1. PICK c \in Conns, a \in Nat : c = ConnOf(i) /\ a = Cli!Answered(c)
    BY GroundForm, ConnOfSlot, ClientNumbers
  <2>2. PICK x : x = val[i].sendmsg.req
    OBVIOUS
  <2>3. Runs(Sending(i), c, a)
    BY <2>1 DEF OrderInv, Arranged, SlotOrder, Counted
  <2>4. Sending(i) = <<x>>
    BY <2>2 DEF Sending
  <2>5. x = <<c, a + 1>>
    BY <2>3, <2>4, RunsOne
  <2>. QED BY <2>1, <2>2, <2>5
<1>. QED BY <1>1, <1>2, PTL

-----------------------------------------------------------------------------
(* The servers implement LoginService *)

(* The answers of each client, and how often midsrv was started again. *)
Responses == [c \in Conns |-> [k \in 1 .. Cli!Answered(c) |-> Response(c, k)]]
Restarts == ended.midsrv - IF inmsg = Mid!Down THEN 1 ELSE 0

(* All units of an answer that is whole are about the same request. *)
LEMMA ResponseIs ==
  ASSUME Served, NEW c \in Conns, Len(inbox[c]) \in Nat, NEW k \in 1 .. Cli!Answered(c)
  PROVE  Response(c, k) = <<c, k>>
<1>. DEFINE span == (k - 1) * RspLen + 1 .. k * RspLen
            units == {inbox[c][j] : j \in span}
<1>1. PICK a \in Nat : a = Cli!Answered(c) /\ RspLen * a <= Len(inbox[c])
  <2>1. PICK n \in Nat : n = Len(inbox[c])
    OBVIOUS
  <2>2. n \div RspLen \in Nat
    BY Lengths, Division
  <2>3. ~(n < RspLen * (n \div RspLen))
    BY <2>2, Lengths, QuotientBound
  <2>4. RspLen * (n \div RspLen) \in Nat
    BY <2>2, Lengths
  <2>. QED BY <2>1, <2>2, <2>3, <2>4 DEF Cli!Answered
<1>2. PICK p \in Nat : p = k - 1
  BY <1>1
<1>3. span = RspLen * p + 1 .. RspLen * p + RspLen /\ RspLen * p \in Nat
  <2>1. (k - 1) * RspLen = RspLen * p /\ k * RspLen = RspLen * p + RspLen /\ RspLen * p \in Nat
    BY <1>2, Lengths
  <2>. QED BY <2>1
<1>4. RspLen * p + RspLen <= Len(inbox[c])
  <2>1. RspLen * p + RspLen <= RspLen * a
    BY <1>1, <1>2, Product, Lengths
  <2>. QED BY <1>1, <1>3, <2>1, Lengths
<1>5. ASSUME NEW j \in span
      PROVE  inbox[c][j] = <<c, k>>
  <2>1. PICK q \in 0 .. RspLen - 1 : j - 1 = RspLen * p + q
    <3>1. j - 1 - RspLen * p \in 0 .. RspLen - 1
      BY <1>3, Lengths
    <3>. QED BY <1>3, <3>1, Lengths
  <2>2. (j - 1) \div RspLen = p
    BY <2>1, Quotient, Lengths
  <2>3. j \in 1 .. Len(inbox[c])
    BY <1>3, <1>4, Lengths
  <2>4. inbox[c][j] = <<c, (j - 1) \div RspLen + 1>>
    BY <2>3 DEF Served
  <2>. QED BY <1>2, <2>2, <2>4
<1>6. RspLen * p + 1 \in span
  BY <1>3, Lengths
<1>. HIDE DEF span
<1>7. units = {<<c, k>>}
  BY <1>5, <1>6
<1>8. Cardinality(units) = 1
  BY <1>7, FS_Singleton
<1>9. Response(c, k) = IF Cardinality(units) = 1 THEN CHOOSE u \in units : TRUE ELSE NoRequest
  BY DEF Response, span
<1>. HIDE DEF units
<1>. QED BY <1>7, <1>8, <1>9

LEMMA AnswersAre ==
  Served /\ ClientTypes => Responses = [c \in Conns |-> FirstRequests(c, Cli!Answered(c))]
<1>. SUFFICES ASSUME Served, ClientTypes
              PROVE  Responses = [c \in Conns |-> FirstRequests(c, Cli!Answered(c))]
  OBVIOUS
<1>1. ASSUME NEW c \in Conns
      PROVE  [k \in 1 .. Cli!Answered(c) |-> Response(c, k)] = FirstRequests(c, Cli!Answered(c))
  <2>1. Len(inbox[c]) \in Nat
    BY DEF ClientTypes
  <2>. QED BY <2>1, ResponseIs DEF FirstRequests
<1>. QED BY <1>1 DEF Responses

LEMMA AnswersAreNext ==
  (Served /\ ClientTypes => Responses = [c \in Conns |-> FirstRequests(c, Cli!Answered(c))])'
BY AnswersAre, PTL

LEMMA FirstMore ==
  ASSUME NEW c \in Conns, NEW a \in Nat
  PROVE  /\ Len(FirstRequests(c, a)) = a
         /\ FirstRequests(c, a + 1) = Append(FirstRequests(c, a), <<c, Len(FirstRequests(c, a)) + 1>>)
<1>1. /\ FirstRequests(c, a) \in Seq(Conns \X Nat) /\ Len(FirstRequests(c, a)) = a
      /\ FirstRequests(c, a + 1) \in Seq(Conns \X Nat) /\ Len(FirstRequests(c, a + 1)) = a + 1
  BY FirstRuns
<1>2. <<c, a + 1>> \in Conns \X Nat
  OBVIOUS
<1>. DEFINE t == Append(FirstRequests(c, a), <<c, a + 1>>)
<1>3. t \in Seq(Conns \X Nat) /\ Len(t) = a + 1
  BY <1>1, <1>2
<1>4. ASSUME NEW k \in 1 .. a + 1
      PROVE  FirstRequests(c, a + 1)[k] = t[k]
  <2>1. CASE k = a + 1
    BY <1>1, <2>1 DEF FirstRequests
  <2>2. CASE k # a + 1
    <3>1. k \in 1 .. a
      BY <2>2
    <3>2. t[k] = FirstRequests(c, a)[k]
      BY <1>1, <1>2, <3>1
    <3>. QED BY <3>1, <3>2 DEF FirstRequests
  <2>. QED BY <2>1, <2>2
<1>5. FirstRequests(c, a + 1) = t
  BY <1>1, <1>3, <1>4
<1>. QED BY <1>1, <1>5

(* The steps of LoginService. *)
AskedSame == \A c \in Conns : Cli!Asked(c)' = Cli!Asked(c)
AnsweredSame == \A c \in Conns : Cli!Answered(c)' = Cli!Answered(c)

LEMMA ResponsesSame ==
  ASSUME Served, Served', ClientTypes, ClientTypes', AnsweredSame
  PROVE  Responses' = Responses
<1>1. Responses = [c \in Conns |-> FirstRequests(c, Cli!Answered(c))]
  BY AnswersAre
<1>2. Responses' = [c \in Conns |-> FirstRequests(c, Cli!Answered(c)')]
  BY AnswersAreNext DEF FirstRequests
<1>. QED BY <1>1, <1>2 DEF AnsweredSame

LEMMA ServiceRests ==
  ASSUME AskedSame, Responses' = Responses, orphans' = orphans, Restarts' = Restarts
  PROVE  UNCHANGED Service!vars
<1>1. [c \in Conns |-> Cli!Asked(c)]' = [c \in Conns |-> Cli!Asked(c)]
  BY DEF AskedSame
<1>. QED BY <1>1 DEF Service!vars, Responses, Restarts

LEMMA ServiceRestarts ==
  ASSUME AskedSame, Responses' = Responses, Restarts' = Restarts + 1,
         orphans' = orphans \cup Accepted
  PROVE  Service!Next
<1>1. [c \in Conns |-> Cli!Asked(c)]' = [c \in Conns |-> Cli!Asked(c)]
  BY DEF AskedSame
<1>2. Accepted \in SUBSET Conns
  BY DEF Accepted
<1>3. Service!Restart
  BY <1>1, <1>2 DEF Service!Restart, Responses, Restarts
<1>. QED BY <1>3 DEF Service!Next

LEMMA ServiceAsks ==
  ASSUME NEW c \in Conns, Cli!Asked(c)' = Cli!Asked(c) + 1,
         \A d \in Conns : d # c => Cli!Asked(d)' = Cli!Asked(d),
         Responses' = Responses, orphans' = orphans, Restarts' = Restarts
  PROVE  Service!Next
<1>. DEFINE old == [d \in Conns |-> Cli!Asked(d)]
            new == [d \in Conns |-> Cli!Asked(d)']
<1>1. new = [old EXCEPT ![c] = @ + 1]
  OBVIOUS
<1>2. Service!Ask(c)
  BY <1>1 DEF Service!Ask, Responses, Restarts
<1>. QED BY <1>2 DEF Service!Next

LEMMA ServiceAnswers ==
  ASSUME Served, Served', ClientTypes, ClientTypes', AskedSame,
         NEW c \in Conns, NEW a \in Nat, a = Cli!Answered(c), a < Cli!Asked(c),
         Cli!Answered(c)' = a + 1,
         \A d \in Conns : d # c => Cli!Answered(d)' = Cli!Answered(d),
         orphans' = orphans, Restarts' = Restarts
  PROVE  Service!Next
<1>. DEFINE old == [d \in Conns |-> FirstRequests(d, Cli!Answered(d))]
            new == [d \in Conns |-> FirstRequests(d, Cli!Answered(d)')]
<1>1. Responses = old
  BY AnswersAre
<1>2. Responses' = new
  BY AnswersAreNext DEF FirstRequests
<1>3. Len(old[c]) = a /\ new[c] = Append(old[c], <<c, Len(old[c]) + 1>>)
  BY FirstMore
<1>4. new = [old EXCEPT ![c] = Append(@, <<c, Len(@) + 1>>)]
  <2>1. \A d \in Conns : d # c => new[d] = old[d]
    OBVIOUS
  <2>2. new = [d \in Conns |-> new[d]] /\ old = [d \in Conns |-> old[d]]
    OBVIOUS
  <2>. HIDE DEF old, new
  <2>. QED BY <1>3, <2>1, <2>2
<1>5. Len(Responses[c]) < Cli!Asked(c)
  BY <1>1, <1>3
<1>6. Responses' = [Responses EXCEPT ![c] = Append(@, <<c, Len(@) + 1>>)]
  BY <1>1, <1>2, <1>4
<1>7. [d \in Conns |-> Cli!Asked(d)]' = [d \in Conns |-> Cli!Asked(d)]
  BY DEF AskedSame
<1>8. Service!Answer(c)
  BY <1>5, <1>6, <1>7 DEF Service!Answer, Responses, Restarts
<1>. QED BY <1>8 DEF Service!Next

(* A step of insrv sends a part of an answer to one client, or nothing. *)
LEMMA ServiceInStep ==
  ASSUME Ground, OrderInv, ClientTypes', OrderInv', InStep
  PROVE  [Service!Next]_(Service!vars)
<1>1. InFlow
  BY GroundForm, InsrvFlow
<1>2. UNCHANGED <<sent, inmsg, ended, orphans>>
  BY LoopGoesOn DEF InStep, histVars, midsrvVars
<1>3. Arranged /\ Served /\ Served' /\ ClientTypes
  BY GroundForm DEF OrderInv, Arranged
<1>4. AskedSame /\ Restarts' = Restarts
  BY <1>2 DEF AskedSame, Cli!Asked, Restarts
<1>5. ASSUME AnsweredSame
      PROVE  UNCHANGED Service!vars
  <2>1. Responses' = Responses
    BY <1>3, <1>5, ResponsesSame
  <2>. QED BY <1>2, <1>4, <2>1, ServiceRests
<1>6. CASE inbox' = inbox
  <2>1. AnsweredSame
    BY <1>6 DEF AnsweredSame, Cli!Answered
  <2>. QED BY <1>5, <2>1
<1>7. ASSUME NEW i \in Slots, NEW k \in Nat, SendsUnits(i, k)
      PROVE  [Service!Next]_(Service!vars)
  <2>1. Live(i)
    BY <1>7 DEF SendsUnits
  <2>2. PICK c \in Conns : c = ConnOf(i)
    BY <2>1, GroundForm, ConnOfSlot
  <2>3. PICK a \in Nat : a = Cli!Answered(c)
    BY GroundForm, ClientNumbers
  <2>4. PICK n, x : n = val[i].sendmsg.n /\ x = val[i].sendmsg.req
    OBVIOUS
  <2>5. SendsMore(c, a, n, k, x)
    BY <1>3, <1>7, <2>2, <2>3, <2>4, SendCounts
  <2>6. \A d \in Conns : d # c => Cli!Answered(d)' = Cli!Answered(d)
    BY <2>5 DEF SendsMore, Cli!Answered
  <2>7. Cli!Answered(c)' = a \/ Cli!Answered(c)' = a + 1
    BY <2>5 DEF SendsMore
  <2>8. CASE Cli!Answered(c)' = a
    <3>1. AnsweredSame
      BY <2>3, <2>6, <2>8 DEF AnsweredSame
    <3>. QED BY <1>5, <3>1
  <2>9. CASE Cli!Answered(c)' = a + 1
    <3>1. a < RequestsRead(c)
      BY <1>2, <1>3, <1>7, <2>2, <2>3, OrderSendsUnits
    <3>2. RequestsRead(c) \in Nat /\ Cli!Asked(c) \in Nat /\ RequestsRead(c) <= Cli!Asked(c)
      BY GroundForm, ClientNumbers
    <3>3. a < Cli!Asked(c)
      BY <3>1, <3>2
    <3>. QED BY <1>2, <1>3, <1>4, <2>3, <2>6, <2>9, <3>3, ServiceAnswers
  <2>. QED BY <2>7, <2>8, <2>9
<1>8. inbox' = inbox \/ \E i \in Slots, k \in Nat : SendsUnits(i, k)
  BY <1>1 DEF InFlow, Idles, AcceptsOne, TakesAnswer, Retries, ReadsUnits, ClosesOne, bytes
<1>. QED BY <1>6, <1>7, <1>8

(* A unit that a client sends completes a request, or not. *)
LEMMA AsksOne ==
  ASSUME NEW n \in Nat
  PROVE  (n + 1) \div ReqLen \in {n \div ReqLen, n \div ReqLen + 1}
<1>1. PICK q \in Nat : q = n \div ReqLen
  BY Lengths, Division
<1>2. PICK b \in Nat \ {0} : b = ReqLen
  BY Lengths
<1>3. q <= (n + 1) \div b /\ (n + 1) \div b \in Nat
  BY <1>1, <1>2, QuotientGrows, Division
<1>4. n < b * (q + 1)
  BY <1>1, <1>2, QuotientBound
<1>5. b * (q + 1) \in Nat /\ b * (q + 2) = b * (q + 1) + b
  BY <1>2
<1>6. n + 1 < b * (q + 2)
  BY <1>4, <1>5
<1>7. (n + 1) \div b < q + 2
  BY <1>6, QuotientBound
<1>8. (n + 1) \div b \in {q, q + 1}
  BY <1>3, <1>7
<1>. QED BY <1>1, <1>2, <1>8

LEMMA ServiceClientStep ==
  ASSUME Ground, OrderInv, ClientTypes', OrderInv', NEW c \in Conns, ClientStep(c)
  PROVE  [Service!Next]_(Service!vars)
<1>1. UNCHANGED <<inbox, inmsg, ended, orphans>>
  BY DEF ClientStep, Connect, Leave, Cli!Connect, Cli!Leave, Cli!CliProgress,
         Cli!SendUnit, Cli!Recv, histVars, midsrvVars
<1>2. Served /\ Served' /\ ClientTypes
  BY GroundForm DEF OrderInv, Arranged
<1>3. AnsweredSame /\ Restarts' = Restarts
  BY <1>1 DEF AnsweredSame, Cli!Answered, Restarts
<1>4. Responses' = Responses
  BY <1>2, <1>3, ResponsesSame
<1>5. CASE sent' = sent
  <2>1. AskedSame
    BY <1>5 DEF AskedSame, Cli!Asked
  <2>. QED BY <1>1, <1>3, <1>4, <2>1, ServiceRests
<1>6. CASE Cli!SendUnit(c)
  <2>1. /\ sent[c] \in Nat /\ sent'[c] = sent[c] + 1
        /\ \A d \in Conns : d # c => sent'[d] = sent[d]
    BY <1>2, <1>6 DEF Cli!SendUnit, ClientTypes
  <2>2. \A d \in Conns : d # c => Cli!Asked(d)' = Cli!Asked(d)
    BY <2>1 DEF Cli!Asked
  <2>3. Cli!Asked(c)' \in {Cli!Asked(c), Cli!Asked(c) + 1}
    BY <2>1, AsksOne DEF Cli!Asked
  <2>4. CASE Cli!Asked(c)' = Cli!Asked(c)
    <3>1. AskedSame
      BY <2>2, <2>4 DEF AskedSame
    <3>. QED BY <1>1, <1>3, <1>4, <3>1, ServiceRests
  <2>5. CASE Cli!Asked(c)' = Cli!Asked(c) + 1
    BY <1>1, <1>3, <1>4, <2>2, <2>5, ServiceAsks
  <2>. QED BY <2>3, <2>4, <2>5
<1>7. sent' = sent \/ Cli!SendUnit(c)
  BY DEF ClientStep, Connect, Leave, Cli!Connect, Cli!Leave, Cli!CliProgress, Cli!Recv
<1>. QED BY <1>5, <1>6, <1>7

LEMMA ServiceStep ==
  ASSUME Ground, OrderInv, ClientTypes', OrderInv', [Next]_vars
  PROVE  [Service!Next]_(Service!vars)
<1>1. Served /\ Served' /\ ClientTypes /\ InsrvStays /\ MapTypes
  BY GroundForm DEF OrderInv, Arranged
<1>2. ASSUME UNCHANGED <<sent, inbox>>
      PROVE  AskedSame /\ Responses' = Responses
  <2>1. AskedSame /\ AnsweredSame
    BY <1>2 DEF AskedSame, AnsweredSame, Cli!Asked, Cli!Answered
  <2>. QED BY <1>1, <2>1, ResponsesSame
<1>3. CASE InStep
  BY <1>3, ServiceInStep
<1>4. CASE MidStep
  <2>1. UNCHANGED <<sent, inbox, ended, orphans>>
    BY <1>4 DEF MidStep, clientVars, histVars
  <2>2. inmsg' # Mid!Down /\ inmsg # Mid!Down
    BY <1>1, <1>4, MidTells
  <2>3. Restarts' = Restarts
    BY <2>1, <2>2 DEF Restarts
  <2>. QED BY <1>2, <2>1, <2>3, ServiceRests
<1>5. CASE \E c \in Conns : ClientStep(c)
  BY <1>5, ServiceClientStep
<1>6. CASE InsrvDies \/ InsrvKilled \/ InsrvStarts
  <2>1. ~InsrvDies
    BY <1>1 DEF InsrvDies, In!SigPipe, InsrvStays
  <2>2. ~InsrvStarts
    BY <1>1 DEF InsrvStarts, In!Starts, InsrvStays
  <2>3. ~InsrvKilled
    <3>1. InsrvKilled => ended'.insrv # 0
      BY <1>1 DEF InsrvKilled, InsrvEnded, InsrvStays, MapTypes
    <3>2. ended'.insrv = 0
      BY DEF OrderInv, InsrvStays
    <3>. QED BY <3>1, <3>2
  <2>. QED BY <1>6, <2>1, <2>2, <2>3
<1>7. CASE MidsrvEnds
  <2>1. /\ UNCHANGED <<sent, inbox, orphans>> /\ inmsg # Mid!Down /\ inmsg' = Mid!Down
        /\ ended' = [ended EXCEPT !.midsrv = @ + 1]
    BY <1>7 DEF MidsrvEnds, Mid!MidEnds, clientVars
  <2>2. ended.midsrv \in Nat /\ ended'.midsrv = ended.midsrv + 1
    BY <1>1, <2>1 DEF MapTypes
  <2>3. Restarts' = Restarts
    BY <2>1, <2>2 DEF Restarts
  <2>. QED BY <1>2, <2>1, <2>3, ServiceRests
<1>8. CASE MidsrvStarts
  <2>1. /\ UNCHANGED <<sent, inbox, ended>> /\ inmsg = Mid!Down /\ inmsg' = Mid!NoMsg
        /\ orphans' = orphans \cup Accepted
    BY <1>8 DEF MidsrvStarts, Mid!MidStarts, clientVars
  <2>2. ended.midsrv \in Nat /\ Mid!NoMsg # Mid!Down
    BY <1>1 DEF MapTypes, Mid!NoMsg, Mid!Down
  <2>3. Restarts' = Restarts + 1
    BY <2>1, <2>2 DEF Restarts
  <2>. QED BY <1>2, <2>1, <2>3, ServiceRestarts
<1>9. CASE UNCHANGED vars
  <2>1. UNCHANGED <<sent, inbox, inmsg, ended, orphans>>
    BY <1>9 DEF vars, midsrvVars, clientVars, histVars
  <2>2. Restarts' = Restarts
    BY <2>1 DEF Restarts
  <2>. QED BY <1>2, <2>1, <2>2, ServiceRests
<1>. QED BY <1>3, <1>4, <1>5, <1>6, <1>7, <1>8, <1>9 DEF Next

LEMMA ServiceInit ==
  ASSUME Init, ClientTypes, Served
  PROVE  Service!Init
<1>1. /\ sent = [c \in Conns |-> 0] /\ inbox = [c \in Conns |-> <<>>]
      /\ inmsg = Mid!NoMsg /\ orphans = {} /\ ended = [insrv |-> 0, midsrv |-> 0]
  BY DEF Init, Cli!CliInit, Mid!MidInit
<1>2. 0 \div ReqLen = 0 /\ 0 \div RspLen = 0
  BY Lengths
<1>3. \A c \in Conns : Cli!Asked(c) = 0 /\ Cli!Answered(c) = 0
  BY <1>1, <1>2 DEF Cli!Asked, Cli!Answered
<1>4. \A c \in Conns : FirstRequests(c, 0) = <<>>
  BY FirstRuns
<1>5. Responses = [c \in Conns |-> <<>>]
  BY <1>3, <1>4, AnswersAre
<1>6. Restarts = 0
  BY <1>1 DEF Restarts, Mid!NoMsg, Mid!Down
<1>7. [c \in Conns |-> Cli!Asked(c)] = [c \in Conns |-> 0]
  BY <1>3
<1>. QED BY <1>1, <1>5, <1>6, <1>7 DEF Service!Init, Responses, Restarts

(* Under the same conditions the servers implement the safety part of      *)
(* LoginService: whatever units they read and send at a time, and whenever *)
(* midsrv is started again, each step of theirs answers nothing or the     *)
(* next unanswered request of one client, to that client.                  *)
THEOREM ServersServeLogins ==
  ASSUME Orderly
  PROVE  Spec /\ [][TellsMidsrv]_vars => Service!Safe
<1>1. Spec /\ [][TellsMidsrv]_vars => [](Ground /\ OrderInv)
  BY OrderInvariant
<1>2. Ground /\ OrderInv => ClientTypes /\ Served
  BY GroundForm DEF OrderInv, Arranged
<1>3. Init /\ ClientTypes /\ Served => Service!Init
  BY ServiceInit
<1>4. Ground /\ OrderInv /\ ClientTypes' /\ OrderInv' /\ [Next]_vars
      => [Service!Next]_(Service!vars)
  BY ServiceStep
<1>. QED BY <1>1, <1>2, <1>3, <1>4, PTL DEF Spec, Service!Safe
=============================================================================
