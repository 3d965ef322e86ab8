------------------------------- MODULE CpuFreq -------------------------------
(***************************************************************************)
(* The cpufreq files of sysfs that the power HAL (libpower) and motorild   *)
(* both write, from two processes and without a common lock.               *)
(***************************************************************************)
EXTENDS Integers, Sequences

CONSTANTS
  Tables,      \* possible contents of scaling_available_frequencies
  MaxEvents    \* bound: calls, client deaths, governor and descriptor changes

VARIABLES
  frequencies,       \* scaling_available_frequencies
  scaling_max_freq,
  writer,            \* history: who wrote it last
  governor,          \* times the governor changed: even while it is "interactive"
  events

ASSUME CpuFreqAssumption ==
  /\ Tables \subseteq Seq(Nat)
  /\ \A s \in Tables : \A i, j \in 1..Len(s) : i <= j => s[i] <= s[j]   \* as the kernel lists them
  /\ MaxEvents \in Nat

cpufreq == <<frequencies, scaling_max_freq, writer, governor>>

CpuFreqInit ==
  /\ frequencies \in Tables
  /\ scaling_max_freq = IF frequencies = <<>> THEN 0 ELSE frequencies[Len(frequencies)]
  /\ writer = "kernel"
  /\ governor = 0
  /\ events = 0

Event == events < MaxEvents /\ events' = events + 1

\* The boostpulse file is there while the governor is the interactive one.
HasBoostpulse == governor % 2 = 0

\* Another program chooses another governor.
ChangeGovernor ==
  /\ Event
  /\ governor' = governor + 1
  /\ UNCHANGED <<frequencies, scaling_max_freq, writer>>
=============================================================================
