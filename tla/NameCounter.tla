---------------------------- MODULE NameCounter ----------------------------
(***************************************************************************)
(* simclient: the static counter tmp in thr_fn, from which every thread    *)
(* takes the number of its next user name without a lock.  A thread loads  *)
(* it, stores it one higher, loads it again to compare it with up, and     *)
(* stores 0 when it is too high: four accesses in the build, between which *)
(* the other threads run.                                                  *)
(***************************************************************************)
EXTENDS Integers

CONSTANTS
  Threads,  \* the threads that main creates
  up,       \* the third argument of main: user names go from 0 to up - 1
  MaxTmp    \* bound: no thread takes a number above it

ASSUME CounterAssumption == up \in Int /\ MaxTmp \in Nat

VARIABLES
  tmp,   \* the counter
  at,    \* at[t]: what thread t does next
  name   \* name[t]: the number it has taken

vars == <<tmp, at, name>>

Init ==
  /\ tmp = 0
  /\ at = [t \in Threads |-> "new"]
  /\ name = [t \in Threads |-> 0]

Goes(t, from, to) == at[t] = from /\ at' = [at EXCEPT ![t] = to]

(* main() creates the thread; it returns at once when open_socket() fails. *)
Create(t) ==
  /\ Goes(t, "new", "load") \/ Goes(t, "new", "ended")
  /\ UNCHANGED <<tmp, name>>

Load(t) ==
  /\ Goes(t, "load", "store")
  /\ tmp <= MaxTmp
  /\ name' = [name EXCEPT ![t] = tmp]
  /\ UNCHANGED tmp

Store(t) ==
  /\ Goes(t, "store", "compare")
  /\ tmp' = name[t] + 1
  /\ UNCHANGED name

(* Mutant: up itself is not too high. *)
CompareWithUp(t) ==
  /\ Goes(t, "compare", IF tmp > up THEN "reset" ELSE "login")
  /\ UNCHANGED <<tmp, name>>

Compare(t) ==
  /\ Goes(t, "compare", IF tmp > up - 1 THEN "reset" ELSE "login")
  /\ UNCHANGED <<tmp, name>>

(* Mutant: the counter goes on from the number that was taken. *)
ResetToName(t) ==
  /\ Goes(t, "reset", "login")
  /\ tmp' = name[t]
  /\ UNCHANGED name

Reset(t) ==
  /\ Goes(t, "reset", "login")
  /\ tmp' = 0
  /\ UNCHANGED name

(* The thread logs in with the name, and returns when send() fails. *)
Login(t) ==
  /\ Goes(t, "login", "load") \/ Goes(t, "login", "ended")
  /\ UNCHANGED <<tmp, name>>

ThreadStep(t) == Load(t) \/ Store(t) \/ Compare(t) \/ Reset(t) \/ Login(t)

Next == \E t \in Threads : Create(t) \/ ThreadStep(t)

(* A thread that was created loops for ever. *)
Spec == Init /\ [][Next]_vars /\ \A t \in Threads : WF_vars(ThreadStep(t))

-----------------------------------------------------------------------------
TooHigh == tmp # 0 /\ tmp >= up

(* However the threads overlap, a counter that is too high is on its way   *)
(* back: the thread that stored it has not finished its own comparison and *)
(* reset (simclient.cpp:57-59).  So no increment or reset that another     *)
(* thread overwrites leaves the numbers out of range for good.             *)
SomeoneResets == TooHigh => \E t \in Threads : at[t] \in {"compare", "reset"}

(* The counter comes back below up, although a thread that still holds an  *)
(* old number may store it one higher after every reset.                   *)
CounterComesBack == TooHigh ~> ~TooHigh
=============================================================================
