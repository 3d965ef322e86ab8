---------------------------- MODULE LaunchMachine ----------------------------
(***************************************************************************)
(* launch_sequence driven by the main loop of charge_only_mode, together   *)
(* with a record of the last nine keys it was given: main.c sets launched  *)
(* when the call returns 1, and nothing ever clears it.                    *)
(***************************************************************************)
EXTENDS LaunchSequence

VARIABLES counter,    \* launch_sequence's static counter
          launched,   \* main.c's launched
          recent      \* history: the last nine keys launch_sequence counted

launchVars == <<counter, launched, recent>>

\* Events of events.h that launch_sequence lets pass.
OtherEvents == {"CAMERA_KEY_DOWN", "POWER_KEY_UP"}

Remember(r) == IF Len(recent) < Length THEN Append(recent, r) ELSE Append(Tail(recent), r)

LaunchInit ==
  /\ counter = 0
  /\ launched = FALSE
  /\ recent = <<>>

\* One turn of the main loop with event r.
Event(r) ==
  /\ counter' \in NextCounters(counter, r)
  /\ launched' = (launched \/ Activated(counter', r))
  /\ recent' = IF r \in LaunchKeys THEN Remember(r) ELSE recent

LaunchNext == \E r \in LaunchKeys \cup OtherEvents : Event(r)

LaunchSpec == LaunchInit /\ [][LaunchNext]_launchVars

-----------------------------------------------------------------------------
\* Types; the counter leaves 0..9 only through the reads beyond the array.
LaunchTypeOK ==
  /\ counter \in 0..MaxCounter
  /\ launched \in BOOLEAN
  /\ recent \in Seq(LaunchKeys)
  /\ Len(recent) \in 0..Length

\* The counter never overstates how much of the sequence was typed: while it
\* is inside the array, the last `counter` keys are a prefix of `sequence`.
CounterIsPrefix ==
  counter <= Length =>
    /\ counter <= Len(recent)
    /\ \A k \in 1..counter : recent[Len(recent) - counter + k] = sequence[k]

\* The memory test is armed only at the moment the nine keys of the comment
\* above launch_sequence have been typed in a row.
LaunchedBySequence ==
  [][ launched' # launched => launched' /\ recent' = sequence ]_launchVars
=============================================================================
