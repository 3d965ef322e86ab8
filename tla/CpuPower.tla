------------------------------ MODULE CpuPower ------------------------------
(***************************************************************************)
(* The power HAL and motorild together, over the same cpufreq files.       *)
(***************************************************************************)
EXTENDS LibPower, MotoRild

vars == <<cpufreq, events, power, rild>>

Init == CpuFreqInit /\ LibPowerInit /\ MotoRildInit

Next ==
  \/ LibPowerNext /\ UNCHANGED rild
  \/ MotoRildNext /\ UNCHANGED power

Spec == Init /\ [][Next]_vars
FairSpec == Spec /\ LibPowerFairness /\ MotoRildFairness

\* Both components are in their types: a thread is between the close and the
\* reset of boostpulse_fd exactly while it has the mutex, and motorild's
\* clients are connected exactly while they wait or are served.
TypeOK == LibPowerTypeOK /\ MotoRildTypeOK
=============================================================================
