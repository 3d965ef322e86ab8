------------------------------ MODULE AlarmList ------------------------------
(***************************************************************************)
(* alarm.c as charge_only_mode's main loop drives it: the list of alarms   *)
(* sorted by a (seconds, microseconds) time, alarm_process running the due *)
(* ones against one reading of the clock while their functions set and     *)
(* cancel others, and the delay handed to poll() when none is due.         *)
(*                                                                         *)
(* The clock may move between any two steps.  A millisecond has UsPerMs    *)
(* microseconds and a second MsPerSec milliseconds, so that carries and    *)
(* truncations happen in a small model.                                    *)
(***************************************************************************)
EXTENDS Integers, Sequences, FiniteSets

CONSTANTS
  Functions,   \* the alarm functions
  Delays,      \* the milliseconds alarms are set with
  UsPerMs, MsPerSec,
  StartTime,   \* the clock when the program starts
  MaxTime,     \* bound: the clock
  MaxAlarms,   \* bound: alarms in the list
  MaxCalls     \* bound: alarms set or cancelled by one alarm function or event

ASSUME AlarmAssumption ==
  /\ Delays \subseteq Nat \ {0} /\ \E d \in Delays : \A e \in Delays : e <= d
  /\ UsPerMs \in Nat \ {0} /\ MsPerSec \in Nat \ {0}
  /\ StartTime \in Nat /\ MaxTime \in Nat /\ StartTime <= MaxTime
  /\ MaxAlarms \in Nat /\ MaxCalls \in Nat

UsPerSec == MsPerSec * UsPerMs

VARIABLES
  clock,    \* microseconds
  alarms,   \* the linked list, head first
  pc,       \* where main() is
  now,      \* alarm_process's reading of the clock
  wake,     \* when poll() times out
  calls     \* calls the running function has made

vars == <<clock, alarms, pc, now, wake, calls>>

timeval(us) == [sec |-> us \div UsPerSec, usec |-> us % UsPerSec]
Microseconds(t) == t.sec * UsPerSec + t.usec

\* The comparison of alarm_set_relative and alarm_process.
Later(a, b) == a.sec > b.sec \/ (a.sec = b.sec /\ a.usec > b.usec)

\* gettimeofday() plus ms, the microseconds carried into the seconds.
Relative(ms) ==
  LET t    == timeval(clock)
      usec == t.usec + ms * UsPerMs
  IN  IF usec >= UsPerSec
      THEN [sec |-> t.sec + usec \div UsPerSec, usec |-> usec % UsPerSec]
      ELSE [sec |-> t.sec, usec |-> usec]

\* C's division truncates.
Truncated(n, d) == IF n >= 0 THEN n \div d ELSE -((-n) \div d)

\* Rounds the microseconds away from the alarm.
DelayRoundedUp(a) ==
  LET t == timeval(clock)
  IN  (a.time.sec - t.sec) * MsPerSec + Truncated(a.time.usec - t.usec, UsPerMs) + 1

alarm_get_time_until_next(a) ==
  LET t == timeval(clock)
  IN  (a.time.sec - t.sec) * MsPerSec + Truncated(a.time.usec - t.usec, UsPerMs)

Init ==
  /\ clock = StartTime
  /\ alarms = <<>>
  /\ pc = "handle"   \* main() starts the animation before its loop
  /\ now = timeval(0) /\ wake = 0 /\ calls = 0

-----------------------------------------------------------------------------
(* alarm.c *)

\* The list with a new node before its p-th node.
Linked(s, p, a) ==
  [i \in 1..Len(s) + 1 |-> IF i < p THEN s[i] ELSE IF i = p THEN a ELSE s[i - 1]]

\* Stops the walk at the first node of a later second only.
SetRelativeBySecond(f, ms) ==
  LET a == [f |-> f, time |-> Relative(ms)]
  IN  \E p \in 1..Len(alarms) + 1 :
        /\ p <= Len(alarms) => alarms[p].time.sec > a.time.sec
        /\ \A j \in 1..p - 1 : ~(alarms[j].time.sec > a.time.sec)
        /\ alarms' = Linked(alarms, p, a)

\* The walk stops at the first node that is due later.
alarm_set_relative(f, ms) ==
  LET a == [f |-> f, time |-> Relative(ms)]
  IN  \E p \in 1..Len(alarms) + 1 :
        /\ p <= Len(alarms) => Later(alarms[p].time, a.time)
        /\ \A j \in 1..p - 1 : ~Later(alarms[j].time, a.time)
        /\ alarms' = Linked(alarms, p, a)

\* The walk unlinks the nodes of f: the others stay, in their order.
alarm_cancel(f) ==
  LET kept == {i \in 1..Len(alarms) : alarms[i].f # f}
  IN  \E n \in 0..Len(alarms) : \E from \in [1..n -> kept] :
        /\ \A i, j \in 1..n : i < j => from[i] < from[j]
        /\ kept \subseteq {from[i] : i \in 1..n}
        /\ alarms' = [i \in 1..n |-> alarms[from[i]]]

-----------------------------------------------------------------------------
(* main()'s loop *)

\* An event's handler or an alarm function sets or cancels alarms; malloc()
\* may fail, and then no alarm is set.
Call ==
  /\ pc \in {"handle", "run"}
  /\ calls < MaxCalls
  /\ \/ /\ Len(alarms) < MaxAlarms
        /\ \E f \in Functions, ms \in Delays : alarm_set_relative(f, ms)
     \/ \E f \in Functions : alarm_cancel(f)
  /\ calls' = calls + 1
  /\ UNCHANGED <<clock, pc, now, wake>>

Return ==
  /\ pc \in {"handle", "run"}
  /\ pc' = IF pc = "run" THEN "process" ELSE "loop"
  /\ calls' = 0
  /\ UNCHANGED <<clock, alarms, now, wake>>

\* No alarm: the delay is 0x7fffffff.
Forever == MaxTime + 1

\* Polls for events also when an alarm is due.
LoopPolls ==
  /\ pc = "loop"
  /\ pc' = "poll"
  /\ wake' = IF alarms = <<>> THEN Forever
             ELSE clock + alarm_get_time_until_next(Head(alarms)) * UsPerMs
  /\ UNCHANGED <<clock, alarms, now, calls>>

Loop ==
  /\ pc = "loop"
  /\ LET delay == alarm_get_time_until_next(Head(alarms))
     IN  IF alarms = <<>> THEN pc' = "poll" /\ wake' = Forever
         ELSE IF delay < 1 THEN pc' = "gettimeofday" /\ UNCHANGED wake
         ELSE pc' = "poll" /\ wake' = clock + delay * UsPerMs
  /\ UNCHANGED <<clock, alarms, now, calls>>

ProcessStart ==
  /\ pc = "gettimeofday"
  /\ now' = timeval(clock)
  /\ pc' = "process"
  /\ UNCHANGED <<clock, alarms, wake, calls>>

\* Looks at the seconds only.
AlarmProcessBySecond ==
  /\ pc = "process"
  /\ IF alarms = <<>> \/ Head(alarms).time.sec > now.sec
     THEN pc' = "loop" /\ now' = timeval(0) /\ UNCHANGED alarms
     ELSE pc' = "run" /\ alarms' = Tail(alarms) /\ UNCHANGED now
  /\ UNCHANGED <<clock, wake, calls>>

\* One turn of alarm_process's loop: the node leaves the list before its
\* function runs.
alarm_process ==
  /\ pc = "process"
  /\ IF alarms = <<>> \/ Later(Head(alarms).time, now)
     THEN pc' = "loop" /\ now' = timeval(0) /\ UNCHANGED alarms
     ELSE pc' = "run" /\ alarms' = Tail(alarms) /\ UNCHANGED now
  /\ UNCHANGED <<clock, wake, calls>>

Event ==
  /\ pc = "poll"
  /\ pc' = "handle" /\ wake' = 0
  /\ UNCHANGED <<clock, alarms, now, calls>>

Timeout ==
  /\ pc = "poll"
  /\ clock >= wake
  /\ pc' = "loop" /\ wake' = 0
  /\ UNCHANGED <<clock, alarms, now, calls>>

Tick ==
  /\ clock < MaxTime
  /\ clock' = clock + 1
  /\ UNCHANGED <<alarms, pc, now, wake, calls>>

Program == Call \/ Return \/ Loop \/ ProcessStart \/ alarm_process \/ Timeout

Next == Program \/ Event \/ Tick

Spec == Init /\ [][Next]_vars

-----------------------------------------------------------------------------
Timeval == [sec : Nat, usec : 0..UsPerSec - 1]

\* Every time in the list is normalised: the carry leaves less than a second
\* of microseconds.
TypeOK ==
  /\ clock \in Nat
  /\ alarms \in Seq([f : Functions, time : Timeval])
  /\ pc \in {"handle", "run", "loop", "gettimeofday", "process", "poll"}
  /\ now \in Timeval /\ wake \in Nat /\ calls \in 0..MaxCalls

\* The list stays sorted by due time however handlers and alarm functions
\* set and cancel alarms, which alarm_process and alarm_get_time_until_next
\* rely on when they look at its head only.
Sorted ==
  \A i, j \in 1..Len(alarms) : i < j => ~Later(alarms[i].time, alarms[j].time)

\* poll() never sleeps a whole millisecond past the next alarm, whatever the
\* seconds and microseconds of the two times are.
NoOversleep ==
  pc = "poll" /\ alarms # <<>> => wake < Microseconds(Head(alarms).time) + UsPerMs

MaxDelay == CHOOSE d \in Delays : \A e \in Delays : e <= d
DueTimes == 0..MaxTime + MaxDelay * UsPerMs

InQueue(a) == [f |-> a.f, at |-> Microseconds(a.time)]

\* How often each alarm is in the list.
Pending ==
  [q \in [f : Functions, at : DueTimes] |->
     Cardinality({i \in 1..Len(alarms) : InQueue(alarms[i]) = q})]

Queue == INSTANCE AlarmQueue WITH Times <- DueTimes, pending <- Pending

\* The list implements the queue: no alarm runs early, out of order, twice
\* or after it was cancelled, not even when alarm functions change the list
\* alarm_process is walking.
ImplementsQueue == Queue!Spec

\* What the loop does by itself, and time passing.
FairSpec == Spec /\ WF_vars(Return) /\ WF_vars(Loop) /\ WF_vars(ProcessStart)
                 /\ WF_vars(alarm_process) /\ WF_vars(Timeout) /\ WF_vars(Tick)

AlarmDue == alarms # <<>> /\ Microseconds(Head(alarms).time) <= clock

\* When an alarm is due the loop comes to run an alarm function, unless the
\* alarm is cancelled first, however many events keep the loop busy.
DueAlarmsRun == AlarmDue ~> (pc = "run" \/ ~AlarmDue)
=============================================================================
