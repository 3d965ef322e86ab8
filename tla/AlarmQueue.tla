----------------------------- MODULE AlarmQueue -----------------------------
(***************************************************************************)
(* What the users of alarm.c may rely on: an alarm set for a time runs at  *)
(* or after that time, never before one that is due earlier, once for each *)
(* time it was set, and not at all once it is cancelled.  The queue counts *)
(* how often each alarm is set; nothing is said about how it is kept.      *)
(***************************************************************************)
EXTENDS Integers

CONSTANTS
  Functions,   \* the functions an alarm may run
  Times        \* the times an alarm may be due at

VARIABLES
  clock,       \* the time
  pending      \* how often each alarm is set

queueVars == <<clock, pending>>

Alarms == [f : Functions, at : Times]

Init == clock \in Nat /\ pending = [a \in Alarms |-> 0]

\* No alarm but a is set more or less often.
Only(a) == pending' = [pending EXCEPT ![a] = pending'[a]]

Set(a) ==
  /\ a.at > clock
  /\ pending'[a] = pending[a] + 1 /\ Only(a)
  /\ UNCHANGED clock

Cancel(f) ==
  /\ pending' = [a \in Alarms |-> IF a.f = f THEN 0 ELSE pending[a]]
  /\ UNCHANGED clock

Fire(a) ==
  /\ pending[a] > 0 /\ a.at <= clock
  /\ \A b \in Alarms : pending[b] > 0 => a.at <= b.at
  /\ pending'[a] = pending[a] - 1 /\ Only(a)
  /\ UNCHANGED clock

Tick ==
  /\ clock' > clock
  /\ UNCHANGED pending

Next ==
  \/ \E a \in Alarms : Set(a) \/ Fire(a)
  \/ \E f \in Functions : Cancel(f)
  \/ Tick

Spec == Init /\ [][Next]_queueVars
=============================================================================
