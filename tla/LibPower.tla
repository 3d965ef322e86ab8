------------------------------ MODULE LibPower ------------------------------
(***************************************************************************)
(* libpower/power.c: the power HAL inside the system server.  Several      *)
(* threads may give hints at once; one thread reports the screen.  The     *)
(* descriptor of boostpulse is kept in a field that the mutex protects     *)
(* when it is opened and closed, and that the hints also read without it.  *)
(* Descriptor numbers are those of the whole process, whose other code     *)
(* opens and closes files too.                                             *)
(***************************************************************************)
EXTENDS CpuFreq

CONSTANTS
  Threads,           \* threads that give hints
  NoThread,
  Fds,               \* descriptor numbers of the process
  MAX_FREQ_NUMBER,
  NOM_FREQ_INDEX

ASSUME LibPowerAssumption ==
  /\ NoThread \notin Threads
  /\ Fds \subseteq Nat
  /\ MAX_FREQ_NUMBER \in Nat \ {0} /\ NOM_FREQ_INDEX \in Nat \ {0}

VARIABLES
  inited, max_freq, nom_freq,
  boostpulse_fd, boostpulse_warned,
  lock,
  table,      \* descriptor number -> the file it is open on
  hint,       \* thread -> where it is in omap_power_hint
  seen,       \* thread -> the value of boostpulse_fd it passed to write()
  interactive,
  notify_on_migrate,
  screen      \* the last value given to set_interactive

power == <<inited, max_freq, nom_freq, boostpulse_fd, boostpulse_warned, lock, table, hint, seen,
           interactive, notify_on_migrate, screen>>

\* A file: boostpulse as opened under one governor, or some other file.
Free == <<"free", 0>>
Boostpulse(g) == <<"boostpulse", g>>
Other == <<"other", 0>>
IsOpen(f) == table[f] # Free

LibPowerInit ==
  /\ inited = FALSE /\ max_freq = 0 /\ nom_freq = 0
  /\ boostpulse_fd = -1 /\ boostpulse_warned = FALSE
  /\ lock = NoThread
  /\ table = [f \in Fds |-> Free]
  /\ hint = [t \in Threads |-> "idle"]
  /\ seen = [t \in Threads |-> -1]
  /\ interactive = "idle" /\ notify_on_migrate = FALSE
  /\ screen = TRUE

-----------------------------------------------------------------------------
(* Start-up and the screen *)

NomIndex(n) ==
  IF n >= 6 THEN n - n \div 3 ELSE IF NOM_FREQ_INDEX > n THEN n ELSE NOM_FREQ_INDEX

\* omap_power_init(), which gives up when there are no frequencies to read.
omap_power_init ==
  LET freq_num == IF Len(frequencies) < MAX_FREQ_NUMBER THEN Len(frequencies) ELSE MAX_FREQ_NUMBER
  IN  /\ ~inited /\ freq_num > 0
      /\ inited' = TRUE
      /\ max_freq' = frequencies[freq_num]
      /\ nom_freq' = frequencies[NomIndex(freq_num)]
      /\ UNCHANGED <<cpufreq, events, boostpulse_fd, boostpulse_warned, lock, table, hint, seen,
                     interactive, notify_on_migrate, screen>>

\* omap_power_set_interactive(): its two writes are two steps.
omap_power_set_interactive(on) ==
  /\ inited /\ interactive = "idle"
  /\ Event
  /\ scaling_max_freq' = IF on THEN max_freq ELSE nom_freq
  /\ writer' = "power"
  /\ interactive' = "notify" /\ screen' = on
  /\ UNCHANGED <<frequencies, governor, inited, max_freq, nom_freq, boostpulse_fd, boostpulse_warned,
                 lock, table, hint, seen, notify_on_migrate>>

NotifyOnMigrate ==
  /\ interactive = "notify"
  /\ notify_on_migrate' = screen /\ interactive' = "idle"
  /\ UNCHANGED <<cpufreq, events, inited, max_freq, nom_freq, boostpulse_fd, boostpulse_warned, lock,
                 table, hint, seen, screen>>

-----------------------------------------------------------------------------
(* Hints *)

HintUnchanged ==
  UNCHANGED <<cpufreq, inited, max_freq, nom_freq, interactive, notify_on_migrate, screen>>

Goto(t, l) == hint' = [hint EXCEPT ![t] = l]

omap_power_hint(t) ==
  /\ inited /\ hint[t] = "idle"
  /\ Event /\ Goto(t, "open")
  /\ UNCHANGED <<boostpulse_fd, boostpulse_warned, lock, table, seen>> /\ HintUnchanged

\* Opens the file for every hint.
BoostpulseReopen(t) ==
  /\ hint[t] = "open" /\ lock = NoThread
  /\ Goto(t, "check")
  /\ IF HasBoostpulse /\ \E f \in Fds : ~IsOpen(f)
     THEN \E f \in Fds : /\ ~IsOpen(f)
                         /\ table' = [table EXCEPT ![f] = Boostpulse(governor)]
                         /\ boostpulse_fd' = f
     ELSE UNCHANGED <<table, boostpulse_fd>>
  /\ UNCHANGED <<events, boostpulse_warned, lock, seen>> /\ HintUnchanged

\* boostpulse_open() up to its unlock.  open() fails without the file, and
\* with no descriptor left.
boostpulse_open(t) ==
  /\ hint[t] = "open" /\ lock = NoThread
  /\ Goto(t, "check")
  /\ \/ /\ boostpulse_fd >= 0
        /\ UNCHANGED <<table, boostpulse_fd, boostpulse_warned>>
     \/ /\ boostpulse_fd < 0 /\ HasBoostpulse
        /\ \E f \in Fds : /\ ~IsOpen(f)
                          /\ table' = [table EXCEPT ![f] = Boostpulse(governor)]
                          /\ boostpulse_fd' = f
        /\ boostpulse_warned' = FALSE
     \/ /\ boostpulse_fd < 0
        /\ ~HasBoostpulse \/ \A f \in Fds : IsOpen(f)
        /\ boostpulse_warned' = TRUE
        /\ UNCHANGED <<table, boostpulse_fd>>
  /\ UNCHANGED <<events, lock, seen>> /\ HintUnchanged

\* The return of boostpulse_open(), which reads the field again.
CheckFd(t) ==
  /\ hint[t] = "check"
  /\ Goto(t, IF boostpulse_fd >= 0 THEN "read" ELSE "idle")
  /\ UNCHANGED <<events, boostpulse_fd, boostpulse_warned, lock, table, seen>> /\ HintUnchanged

\* The argument of write(), read a third time, and the system call.
ReadFd(t) ==
  /\ hint[t] = "read"
  /\ Goto(t, "write") /\ seen' = [seen EXCEPT ![t] = boostpulse_fd]
  /\ UNCHANGED <<events, boostpulse_fd, boostpulse_warned, lock, table>> /\ HintUnchanged

\* write() works on boostpulse of this governor and may on a foreign file.
Outcomes(f) ==
  IF f \notin Fds \/ table[f] = Free THEN {FALSE}
  ELSE IF table[f] = Other THEN BOOLEAN
  ELSE {HasBoostpulse /\ table[f] = Boostpulse(governor)}

\* Tries again until the write works.
WriteBoostRetry(t) ==
  /\ hint[t] = "write"
  /\ \E ok \in Outcomes(seen[t]) : Goto(t, IF ok THEN "idle" ELSE "check")
  /\ seen' = [seen EXCEPT ![t] = -1]
  /\ UNCHANGED <<events, boostpulse_fd, boostpulse_warned, lock, table>> /\ HintUnchanged

WriteBoost(t) ==
  /\ hint[t] = "write"
  /\ \E ok \in Outcomes(seen[t]) : Goto(t, IF ok THEN "idle" ELSE "lock")
  /\ seen' = [seen EXCEPT ![t] = -1]
  /\ UNCHANGED <<events, boostpulse_fd, boostpulse_warned, lock, table>> /\ HintUnchanged

\* close(omap_device->boostpulse_fd) under the mutex, of the field as it is by
\* then; close(-1) does nothing.
CloseFd(t) ==
  /\ hint[t] = "lock" /\ lock = NoThread
  /\ lock' = t /\ Goto(t, "close")
  /\ table' = [f \in Fds |-> IF f = boostpulse_fd THEN Free ELSE table[f]]
  /\ UNCHANGED <<events, boostpulse_fd, boostpulse_warned, seen>> /\ HintUnchanged

ForgetFd(t) ==
  /\ hint[t] = "close"
  /\ boostpulse_fd' = -1 /\ boostpulse_warned' = FALSE
  /\ lock' = NoThread /\ Goto(t, "idle")
  /\ UNCHANGED <<events, table, seen>> /\ HintUnchanged

Hint(t) ==
  boostpulse_open(t) \/ CheckFd(t) \/ ReadFd(t) \/ WriteBoost(t) \/ CloseFd(t) \/ ForgetFd(t)

-----------------------------------------------------------------------------
(* The rest of the process *)

OtherOpen ==
  /\ Event
  /\ \E f \in Fds : ~IsOpen(f) /\ table' = [table EXCEPT ![f] = Other]
  /\ UNCHANGED <<boostpulse_fd, boostpulse_warned, lock, hint, seen>> /\ HintUnchanged

OtherClose ==
  /\ Event
  /\ \E f \in Fds : table[f] = Other /\ table' = [table EXCEPT ![f] = Free]
  /\ UNCHANGED <<boostpulse_fd, boostpulse_warned, lock, hint, seen>> /\ HintUnchanged

LibPowerNext ==
  \/ omap_power_init
  \/ \E on \in BOOLEAN : omap_power_set_interactive(on)
  \/ NotifyOnMigrate
  \/ \E t \in Threads : omap_power_hint(t) \/ Hint(t)
  \/ OtherOpen \/ OtherClose
  \/ ChangeGovernor /\ UNCHANGED power

\* The threads run, and pthread_mutex_lock() does not starve one of them.
LibPowerFairness ==
  /\ WF_<<cpufreq, events, power>>(NotifyOnMigrate)
  /\ \A t \in Threads : SF_<<cpufreq, events, power>>(Hint(t))

-----------------------------------------------------------------------------
(* Properties *)

LibPowerTypeOK ==
  /\ inited \in BOOLEAN /\ boostpulse_warned \in BOOLEAN
  /\ boostpulse_fd \in Fds \cup {-1}
  /\ lock \in Threads \cup {NoThread}
  /\ table \in [Fds -> {Free, Other} \cup {Boostpulse(g) : g \in 0..MaxEvents}]
  /\ hint \in [Threads -> {"idle", "open", "check", "read", "write", "lock", "close"}]
  /\ seen \in [Threads -> Fds \cup {-1}]
  /\ governor \in 0..MaxEvents
  /\ \A t \in Threads : hint[t] = "close" <=> lock = t

\* However the hints of several threads interleave with each other, with a
\* change of governor and with the rest of the process, omap_power_hint()
\* neither leaks a descriptor of boostpulse nor closes someone else's: outside
\* the close itself, the descriptors open on boostpulse are boostpulse_fd, or
\* none when it is -1.
OneDescriptor ==
  {f \in Fds : table[f] \notin {Free, Other}} =
    IF lock = NoThread /\ boostpulse_fd # -1 THEN {boostpulse_fd} ELSE {}

\* "Lower maximum frequency when screen is off": once omap_power_set_interactive()
\* has written it, the maximum is the nominal frequency while the screen is off
\* and motorild has not rung since, and at least the HAL's own maximum while it is on.
FrequencyFollows ==
  /\ inited /\ ~screen /\ writer = "power" => scaling_max_freq = nom_freq
  /\ inited /\ screen => scaling_max_freq >= max_freq

\* Every omap_power_hint() returns: no thread keeps the mutex, and a thread
\* whose write() failed on a descriptor another one closed does not retry.
HintsReturn == \A t \in Threads : hint[t] # "idle" ~> hint[t] = "idle"
=============================================================================
