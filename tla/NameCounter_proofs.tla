------------------------- MODULE NameCounter_proofs -------------------------
(***************************************************************************)
(* For every number of threads and of names, and without the bound on the  *)
(* counter being of use: a counter that is too high is on its way back.    *)
(***************************************************************************)
EXTENDS NameCounter, TLAPS

Places == {"new", "load", "store", "compare", "reset", "login", "ended"}

CounterInv ==
  /\ tmp \in Int
  /\ at \in [Threads -> Places]
  /\ name \in [Threads -> Int]
  /\ SomeoneResets

LEMMA InitCounter == Init => CounterInv
  BY DEF Init, CounterInv, SomeoneResets, TooHigh, Places

(* A thread that neither compares nor resets, and leaves the counter alone. *)
LEMMA Bystander ==
  ASSUME CounterInv, NEW t \in Threads, at[t] \notin {"compare", "reset"},
         NEW to \in Places, at' = [at EXCEPT ![t] = to], tmp' = tmp,
         name' \in [Threads -> Int]
  PROVE  CounterInv'
  BY DEF CounterInv, SomeoneResets, TooHigh

LEMMA StepCounter == CounterInv /\ [Next]_vars => CounterInv'
<1> SUFFICES ASSUME CounterInv, [Next]_vars PROVE CounterInv'
  OBVIOUS
<1> USE DEF Goes, Places
<1>1. CASE UNCHANGED vars
  BY <1>1 DEF vars, CounterInv, SomeoneResets, TooHigh
<1>2. ASSUME NEW t \in Threads, Create(t) PROVE CounterInv'
  BY <1>2, Bystander DEF Create, CounterInv
<1>3. ASSUME NEW t \in Threads, Load(t) PROVE CounterInv'
  BY <1>3, Bystander DEF Load, CounterInv
<1>4. ASSUME NEW t \in Threads, Store(t) PROVE CounterInv'
  BY <1>4 DEF Store, CounterInv, SomeoneResets
<1>5. ASSUME NEW t \in Threads, Compare(t) PROVE CounterInv'
  <2>1. CASE tmp > up - 1
    BY <1>5, <2>1 DEF Compare, CounterInv, SomeoneResets
  <2>2. CASE ~(tmp > up - 1)
    BY <1>5, <2>2, CounterAssumption DEF Compare, CounterInv, SomeoneResets, TooHigh
  <2> QED BY <2>1, <2>2
<1>6. ASSUME NEW t \in Threads, Reset(t) PROVE CounterInv'
  BY <1>6 DEF Reset, CounterInv, SomeoneResets, TooHigh
<1>7. ASSUME NEW t \in Threads, Login(t) PROVE CounterInv'
  BY <1>7, Bystander DEF Login, CounterInv
<1> QED BY <1>1, <1>2, <1>3, <1>4, <1>5, <1>6, <1>7 DEF Next, ThreadStep

(* Whatever the number of threads, and however their loads, stores and     *)
(* comparisons of tmp overlap (simclient.cpp:57-59): while tmp is not below*)
(* up, some thread has its comparison or its reset still before it.        *)
THEOREM CounterIsReset == Spec => []SomeoneResets
<1>1. CounterInv => SomeoneResets
  BY DEF CounterInv
<1> QED BY InitCounter, StepCounter, <1>1, PTL DEF Spec
=============================================================================
