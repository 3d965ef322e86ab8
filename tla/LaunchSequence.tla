--------------------------- MODULE LaunchSequence ---------------------------
(***************************************************************************)
(* The key-sequence recogniser of charge_only_mode (main.c,                *)
(* launch_sequence): a static counter that advances on the expected key    *)
(* and falls back to 0 on any other of the three keys it looks at.         *)
(***************************************************************************)
EXTENDS Integers, Sequences

CONSTANT MaxCounter     \* bound on the counter once it has left the array

ASSUME LaunchAssumption == MaxCounter \in Nat /\ MaxCounter >= 9

\* The number of keys in the sequence.
Length == 9

LaunchKeys == {"VOLUMEUP_KEY_DOWN", "VOLUMEDOWN_KEY_DOWN", "POWER_KEY_DOWN"}

sequence ==
  << "VOLUMEUP_KEY_DOWN",   "VOLUMEUP_KEY_DOWN",
     "VOLUMEDOWN_KEY_DOWN", "VOLUMEDOWN_KEY_DOWN",
     "VOLUMEUP_KEY_DOWN",   "VOLUMEUP_KEY_DOWN",
     "VOLUMEDOWN_KEY_DOWN", "VOLUMEDOWN_KEY_DOWN",
     "POWER_KEY_DOWN" >>

\* The answers sequence[c] == r may give, for C's index c.  Inside the array
\* the answer is fixed; the counter is not reset after the ninth key, so
\* sequence[9] and beyond are read too, and such a read yields any value.
Matches(c, r) == IF c < Length THEN {sequence[c + 1] = r} ELSE BOOLEAN

\* A wrong key leaves the counter where it is instead of resetting it.
NextCountersNoReset(c, r) ==
  IF r \notin LaunchKeys THEN {c}
  ELSE { IF m /\ c < MaxCounter THEN c + 1 ELSE c : m \in Matches(c, r) }

\* The counters that one call of launch_sequence(r) may leave behind.
NextCounters(c, r) ==
  IF r \notin LaunchKeys THEN {c}
  ELSE { IF m /\ c < MaxCounter THEN c + 1 ELSE 0 : m \in Matches(c, r) }

\* One key too early.
ActivatedEarly(c, r) == r \in LaunchKeys /\ c = 8

\* What launch_sequence(r) returns, given the counter the call leaves.
Activated(c, r) == r \in LaunchKeys /\ c = Length
=============================================================================
