---------------------------- MODULE CStatistics ----------------------------
(***************************************************************************)
(* common/CStatistics: the rate meter of a shared-memory queue.  Every     *)
(* pushmsg calls check(), which counts the call and, when an interval of   *)
(* wall-clock time has passed, prints the count and starts the next one.   *)
(* The clock is gettimeofday: any reading may follow any other, since an   *)
(* administrator may set it back.                                          *)
(***************************************************************************)
EXTENDS Integers

CONSTANTS
  Clock,      \* the readings of gettimeofday, in one unit of time
  Intervals,  \* the values set_interval is called with
  Interval,   \* the interval of the constructor
  MaxCount    \* bound: calls counted in one interval

VARIABLES l_interval, l_count, st_start, flag, status,
          since,    \* history: calls counted since the last report or start
          reported  \* history: 1 when a report ended the interval before this one

vars == <<l_interval, l_count, st_start, flag, status, since, reported>>

Construction ==
  /\ l_interval = Interval /\ l_count = 0
  /\ st_start \in Clock            \* not initialised: any value
  /\ flag = 1 /\ status = 0
  /\ since = 0 /\ reported = 0

(* check() while disabled counts nothing. *)
Ignored == flag = 0 /\ UNCHANGED vars

(* check() that opens the first interval: the call is its first event. *)
Opens ==
  /\ flag = 1 /\ status = 0
  /\ status' = 1 /\ l_count' = 1
  /\ st_start' \in Clock
  /\ since' = 1 /\ reported' = 0
  /\ UNCHANGED <<l_interval, flag>>

(* check() within the interval, or with a clock that was set back. *)
Counts ==
  /\ flag = 1 /\ status = 1 /\ l_count < MaxCount
  /\ \E end \in Clock : end - st_start < l_interval
  /\ l_count' = l_count + 1
  /\ since' = since + 1
  /\ UNCHANGED <<l_interval, st_start, flag, status, reported>>

(* Mutant: the count starts again from 0 at a report. *)
ReportsFromZero ==
  /\ flag = 1 /\ status = 1
  /\ \E end \in Clock : end - st_start >= l_interval
  /\ l_count' = 0
  /\ st_start' \in Clock
  /\ since' = 0 /\ reported' = 1
  /\ UNCHANGED <<l_interval, flag, status>>

(* check() that prints l_count + 1 and opens the next interval, at a second*)
(* reading of the clock and with the count 1.                              *)
Reports ==
  /\ flag = 1 /\ status = 1
  /\ \E end \in Clock : end - st_start >= l_interval
  /\ l_count' = 1
  /\ st_start' \in Clock
  /\ since' = 0 /\ reported' = 1
  /\ UNCHANGED <<l_interval, flag, status>>

Check == Ignored \/ Opens \/ Counts \/ Reports

SetInterval(us) ==
  /\ l_interval' = us
  /\ UNCHANGED <<l_count, st_start, flag, status, since, reported>>

Enable ==
  /\ flag' = 1 /\ status' = 0
  /\ UNCHANGED <<l_interval, l_count, st_start, since, reported>>

Disable ==
  /\ flag' = 0
  /\ UNCHANGED <<l_interval, l_count, st_start, status, since, reported>>

Next == Check \/ (\E us \in Intervals : SetInterval(us)) \/ Enable \/ Disable

Spec == Construction /\ [][Next]_vars

-----------------------------------------------------------------------------
StaTypeOK ==
  /\ l_interval \in Int /\ l_count \in Nat /\ st_start \in Clock
  /\ flag \in {0, 1} /\ status \in {0, 1}
  /\ since \in Nat /\ reported \in {0, 1}

(* The number a report prints is the number of calls of its interval, and  *)
(* one more when a report ended the interval before: that call is counted  *)
(* in both, whatever the clock does (CStatistics.cpp:28-36).               *)
CountsCalls == status = 1 => l_count = since + reported
=============================================================================
