--------------------------- MODULE CpuPowerProofs ---------------------------
(***************************************************************************)
(* Proofs about CpuPower, for every number of threads, descriptors,        *)
(* clients and events and every table of frequencies in ascending order.   *)
(***************************************************************************)
EXTENDS CpuPower, TLAPS

\* The number of a governor is one the events allow.
Counted == events \in 0..MaxEvents /\ governor \in 0..events

\* A client waits in one place only, and the daemon serves one while it is
\* between accept() and close().
Waiting ==
  /\ \A i, j \in 1..Len(backlog) : backlog[i] = backlog[j] => i = j
  /\ \A i \in 1..Len(backlog) : backlog[i] # serving
  /\ daemon \in {"accept", "dead"} <=> serving = NoClient

\* What is known of the frequencies: before the HAL is initialised the
\* maximum is the kernel's or motorild's, and the HAL's own is one of the table.
Frequencies ==
  /\ frequencies \in Tables
  /\ scaling_max_freq \in Nat /\ max_freq \in Nat /\ nom_freq \in Nat
  /\ ~inited => writer # "power"
  /\ ~inited /\ frequencies # <<>> => scaling_max_freq = frequencies[Len(frequencies)]
  /\ inited /\ frequencies # <<>> => max_freq <= frequencies[Len(frequencies)]
  /\ inited \in BOOLEAN /\ screen \in BOOLEAN /\ (~inited => screen)

PowerInv == LibPowerTypeOK /\ Counted /\ OneDescriptor
RildInv == MotoRildTypeOK /\ Waiting
FreqInv == Frequencies /\ FrequencyFollows

-----------------------------------------------------------------------------
(* motorild *)

\* Nobody is connected at first.
LEMMA RildInit == Init => RildInv
BY MotoRildAssumption DEF Init, MotoRildInit, RildInv, MotoRildTypeOK, Waiting

\* A client that connects was not waiting.
LEMMA ConnectKeeps ==
  ASSUME RildInv, NEW c \in Clients, Connect(c)
  PROVE  RildInv'
<1> USE DEF RildInv
<1>1. /\ backlog \in Seq(Clients) /\ Len(backlog) \in Nat /\ backlog' = Append(backlog, c)
      /\ Len(backlog') = Len(backlog) + 1 /\ backlog' \in Seq(Clients)
      /\ \A i \in 1..Len(backlog) : backlog'[i] = backlog[i]
      /\ backlog'[Len(backlog) + 1] = c
  BY DEF Connect, MotoRildTypeOK
<1>2. c # serving /\ \A i \in 1..Len(backlog) : backlog[i] # c
  BY DEF Connect, MotoRildTypeOK
<1>3. MotoRildTypeOK'
  <2>1. /\ client' \in [Clients -> {"idle", "connected", "killed", "OK", "KO", "empty"}]
        /\ cmd' \in [Clients -> {"route", "ring"}] /\ sent' \in [Clients -> BOOLEAN]
    BY DEF Connect, MotoRildTypeOK
  <2>2. Len(backlog') <= Backlog
    BY <1>1, MotoRildAssumption DEF Connect
  <2>3. ASSUME NEW d \in Clients
        PROVE  client'[d] \in {"connected", "killed"} <=>
                 d = serving' \/ \E i \in 1..Len(backlog') : backlog'[i] = d
    <3>1. CASE d = c
      BY <1>1, <3>1 DEF Connect, MotoRildTypeOK
    <3>2. CASE d # c
      <4>1. client'[d] = client[d] /\ serving' = serving
        BY <3>2 DEF Connect, MotoRildTypeOK
      <4>2. (\E i \in 1..Len(backlog') : backlog'[i] = d) <=> (\E i \in 1..Len(backlog) : backlog[i] = d)
        BY <1>1, <3>2
      <4> QED
        BY <4>1, <4>2 DEF MotoRildTypeOK
    <3> QED
      BY <3>1, <3>2
  <2> QED
    BY <1>1, <2>1, <2>2, <2>3 DEF Connect, MotoRildTypeOK
<1>4. Waiting'
  BY <1>1, <1>2 DEF Connect, Waiting
<1> QED
  BY <1>3, <1>4

\* The accepted client leaves the queue.
LEMMA AcceptKeeps ==
  ASSUME RildInv, Accept
  PROVE  RildInv'
<1> USE DEF RildInv
<1>1. /\ backlog \in Seq(Clients) /\ Len(backlog) \in Nat \ {0} /\ backlog' = Tail(backlog)
      /\ Len(backlog') = Len(backlog) - 1 /\ backlog' \in Seq(Clients)
      /\ \A i \in 1..Len(backlog') : backlog'[i] = backlog[i + 1]
      /\ serving' = backlog[1] /\ serving' \in Clients
  BY DEF Accept, MotoRildTypeOK
<1>2. serving = NoClient /\ daemon' = "read" /\ client' = client
  BY DEF Accept, Waiting
<1>3. MotoRildTypeOK'
  <2>1. \A c \in Clients : (c = serving' \/ \E i \in 1..Len(backlog') : backlog'[i] = c) <=>
                            (c = serving \/ \E i \in 1..Len(backlog) : backlog[i] = c)
    <3> SUFFICES ASSUME NEW c \in Clients
                 PROVE  (c = serving' \/ \E i \in 1..Len(backlog') : backlog'[i] = c) <=>
                        (\E i \in 1..Len(backlog) : backlog[i] = c)
      BY <1>2, MotoRildAssumption
    <3>1. ASSUME NEW i \in 1..Len(backlog), backlog[i] = c
          PROVE  c = serving' \/ \E k \in 1..Len(backlog') : backlog'[k] = c
      <4>1. CASE i = 1
        BY <1>1, <3>1, <4>1
      <4>2. CASE i # 1
        <5>1. i - 1 \in 1..Len(backlog') /\ backlog'[i - 1] = backlog[i]
          BY <1>1, <4>2
        <5> QED
          BY <3>1, <5>1
      <4> QED
        BY <4>1, <4>2
    <3>2. ASSUME NEW k \in 1..Len(backlog'), backlog'[k] = c
          PROVE  \E i \in 1..Len(backlog) : backlog[i] = c
      <4>1. k + 1 \in 1..Len(backlog) /\ backlog[k + 1] = c
        BY <1>1, <3>2
      <4> QED
        BY <4>1
    <3>3. 1 \in 1..Len(backlog) /\ backlog[1] = serving'
      BY <1>1
    <3> QED
      BY <3>1, <3>2, <3>3
  <2>2. Len(backlog') <= Backlog
    BY <1>1, MotoRildAssumption DEF MotoRildTypeOK
  <2>3. \A c \in Clients : client'[c] \in {"connected", "killed"} <=>
                            c = serving' \/ \E i \in 1..Len(backlog') : backlog'[i] = c
    BY <1>2, <2>1 DEF MotoRildTypeOK
  <2> QED
    BY <1>1, <1>2, <2>2, <2>3 DEF Accept, MotoRildTypeOK
<1>4. Waiting'
  <2>1. ASSUME NEW i \in 1..Len(backlog'), NEW j \in 1..Len(backlog'), backlog'[i] = backlog'[j]
        PROVE  i = j
    BY <1>1, <2>1 DEF Waiting
  <2>2. ASSUME NEW i \in 1..Len(backlog')
        PROVE  backlog'[i] # serving'
    BY <1>1, <2>2 DEF Waiting
  <2> QED
    BY <1>1, <1>2, <2>1, <2>2, MotoRildAssumption DEF Waiting
<1> QED
  BY <1>3, <1>4

\* close() ends the call of the client that was served and of no other.
LEMMA CloseKeeps ==
  ASSUME RildInv, serving # NoClient, NEW a \in {"OK", "KO", "empty"},
         client' = Closed(a), daemon' = "accept", serving' = NoClient,
         UNCHANGED <<cmd, sent, backlog, ret>>
  PROVE  RildInv'
<1> USE DEF RildInv
<1>1. serving \in Clients
  BY DEF MotoRildTypeOK
<1>2. /\ client' \in [Clients -> {"idle", "connected", "killed", "OK", "KO", "empty"}]
      /\ client'[serving] \notin {"connected", "killed"}
      /\ \A c \in Clients \ {serving} : client'[c] = client[c]
  BY <1>1 DEF Closed, MotoRildTypeOK
<1>3. MotoRildTypeOK'
  BY <1>1, <1>2, MotoRildAssumption DEF MotoRildTypeOK, Waiting
<1>4. Waiting'
  BY MotoRildAssumption DEF MotoRildTypeOK, Waiting
<1> QED
  BY <1>3, <1>4

\* Every step of motorild, its clients and init keeps the queue in order.
LEMMA RildNext == RildInv /\ [Next]_vars => RildInv'
<1> SUFFICES ASSUME RildInv, [Next]_vars PROVE RildInv'
  OBVIOUS
<1> USE DEF RildInv
<1>1. CASE UNCHANGED rild
  BY <1>1 DEF rild, MotoRildTypeOK, Waiting
<1>2. ASSUME NEW c \in Clients, Connect(c) PROVE RildInv'
  BY <1>2, ConnectKeeps
<1>3. ASSUME NEW c \in Clients, SendCall(c) PROVE RildInv'
  BY <1>3 DEF SendCall, MotoRildTypeOK, Waiting
<1>4. ASSUME NEW c \in Clients, Killed(c) PROVE RildInv'
  BY <1>4 DEF Killed, MotoRildTypeOK, Waiting
<1>5. ASSUME NEW c \in Clients, Exit(c) PROVE RildInv'
  BY <1>5 DEF Exit, MotoRildTypeOK, Waiting
<1>6. CASE Accept
  BY <1>6, AcceptKeeps
<1>7. CASE ReadCall
  <2>1. serving # NoClient /\ serving \in Clients
    BY <1>7 DEF ReadCall, Waiting, MotoRildTypeOK
  <2>2. CASE sent[serving] /\ daemon' = cmd[serving] /\ UNCHANGED <<client, serving>>
    <3>1. daemon' \in {"route", "ring"}
      BY <2>1, <2>2 DEF MotoRildTypeOK
    <3> QED
      BY <1>7, <2>1, <2>2, <3>1 DEF ReadCall, MotoRildTypeOK, Waiting
  <2>3. CASE daemon' = "accept" /\ client' = Closed("empty") /\ serving' = NoClient
    BY <1>7, <2>1, <2>3, CloseKeeps DEF ReadCall
  <2> QED
    BY <1>7, <2>2, <2>3 DEF ReadCall
<1>8. CASE set_gw
  <2>1. ret' \in {-1, 0, 1}
    BY <1>8 DEF set_gw
  <2>2. daemon = "route" /\ daemon' = "answer" /\ UNCHANGED <<client, cmd, sent, backlog, serving>>
    BY <1>8 DEF set_gw
  <2> QED
    BY <2>1, <2>2 DEF MotoRildTypeOK, Waiting
<1>9. CASE RingFreq
  BY <1>9 DEF RingFreq, MotoRildTypeOK, Waiting
<1>10. CASE RingOnline
  BY <1>10 DEF RingOnline, MotoRildTypeOK, Waiting
<1>11. CASE Answer
  <2>1. serving # NoClient
    BY <1>11 DEF Answer, Waiting
  <2> QED
    BY <1>11, <2>1, CloseKeeps DEF Answer
<1>12. CASE Sigpipe
  BY <1>12, MotoRildAssumption DEF Sigpipe, MotoRildTypeOK, Waiting
<1>13. CASE Restart
  BY <1>13 DEF Restart, MotoRildTypeOK, Waiting
<1> QED
  BY <1>1, <1>2, <1>3, <1>4, <1>5, <1>6, <1>7, <1>8, <1>9, <1>10, <1>11, <1>12, <1>13
  DEF Next, MotoRildNext, Daemon, vars

-----------------------------------------------------------------------------
(* The power HAL *)

\* The descriptors that are open on boostpulse.
OnBoostpulse == {f \in Fds : table[f] \notin {Free, Other}}

\* A boostpulse file is none of the others.
LEMMA Kinds == \A g : Boostpulse(g) \notin {Free, Other} /\ Free # Other
BY DEF Boostpulse, Free, Other

\* Nothing is open at first.
LEMMA PowerInit == Init => PowerInv
<1> SUFFICES ASSUME Init PROVE PowerInv
  OBVIOUS
<1> USE CpuFreqAssumption, LibPowerAssumption DEF Init, CpuFreqInit, LibPowerInit
<1>1. Counted
  BY DEF Counted
<1>2. OneDescriptor
  BY DEF OneDescriptor
<1>3. LibPowerTypeOK
  <2>1. table \in [Fds -> {Free, Other} \cup {Boostpulse(g) : g \in 0..MaxEvents}]
    OBVIOUS
  <2>2. governor \in 0..MaxEvents
    OBVIOUS
  <2>3. seen \in [Threads -> Fds \cup {-1}] /\ boostpulse_fd \in Fds \cup {-1}
    OBVIOUS
  <2> QED
    BY <2>1, <2>2, <2>3 DEF LibPowerTypeOK
<1> QED
  BY <1>1, <1>2, <1>3 DEF PowerInv

\* An event is counted, and at most one of them is a change of governor.
LEMMA CountedNext ==
  ASSUME Counted, \/ Event /\ governor' \in {governor, governor + 1}
                  \/ events' = events /\ governor' = governor
  PROVE  Counted' /\ governor' \in 0..MaxEvents
BY CpuFreqAssumption DEF Counted, Event

\* Steps of a hint that leave the mutex and the descriptors alone.
LEMMA QuietHint ==
  ASSUME PowerInv, NEW t \in Threads, NEW l \in {"idle", "open", "check", "read", "write", "lock"},
         hint[t] # "close", Goto(t, l),
         boostpulse_warned' \in BOOLEAN, seen' \in [Threads -> Fds \cup {-1}],
         Event \/ events' = events,
         UNCHANGED <<governor, inited, boostpulse_fd, lock, table>>
  PROVE  PowerInv'
<1> USE DEF PowerInv
<1>1. Counted' /\ governor' \in 0..MaxEvents
  BY CountedNext
<1>2. /\ hint' \in [Threads -> {"idle", "open", "check", "read", "write", "lock", "close"}]
      /\ \A u \in Threads : hint'[u] = "close" <=> hint[u] = "close"
  BY DEF Goto, LibPowerTypeOK
<1>3. LibPowerTypeOK'
  BY <1>1, <1>2 DEF LibPowerTypeOK
<1>4. OneDescriptor'
  BY DEF OneDescriptor
<1> QED
  BY <1>1, <1>3, <1>4

\* boostpulse_open() opens the file only when none is open.
LEMMA OpenKeeps ==
  ASSUME PowerInv, NEW t \in Threads, boostpulse_open(t)
  PROVE  PowerInv'
<1> USE DEF PowerInv
<1>0. /\ hint[t] = "open" /\ lock = NoThread /\ Goto(t, "check") /\ seen' = seen /\ lock' = lock
      /\ events' = events /\ governor' = governor /\ inited' = inited
  BY DEF boostpulse_open, HintUnchanged, cpufreq
<1>1. CASE UNCHANGED <<table, boostpulse_fd>> /\ boostpulse_warned' \in BOOLEAN
  BY <1>0, <1>1, QuietHint DEF LibPowerTypeOK
<1>2. ASSUME boostpulse_fd < 0, NEW f \in Fds, ~IsOpen(f),
             table' = [table EXCEPT ![f] = Boostpulse(governor)], boostpulse_fd' = f,
             boostpulse_warned' = FALSE
      PROVE  PowerInv'
  <2>1. boostpulse_fd = -1 /\ f # -1
    BY <1>2, LibPowerAssumption DEF LibPowerTypeOK
  <2>2. OnBoostpulse = {}
    BY <1>0, <2>1 DEF OneDescriptor, OnBoostpulse
  <2>3. OnBoostpulse' = {f}
    BY <1>2, <2>2, Kinds DEF OnBoostpulse, LibPowerTypeOK
  <2>4. OneDescriptor'
    BY <1>0, <1>2, <2>1, <2>3 DEF OneDescriptor, OnBoostpulse
  <2>5. Counted' /\ governor' \in 0..MaxEvents /\ governor \in 0..MaxEvents
    BY <1>0, CountedNext
  <2>6. table' \in [Fds -> {Free, Other} \cup {Boostpulse(g) : g \in 0..MaxEvents}]
    BY <1>2, <2>5 DEF LibPowerTypeOK
  <2>7. /\ hint' \in [Threads -> {"idle", "open", "check", "read", "write", "lock", "close"}]
        /\ \A u \in Threads : hint'[u] = "close" <=> hint[u] = "close"
    BY <1>0 DEF Goto, LibPowerTypeOK
  <2>8. LibPowerTypeOK'
    BY <1>0, <1>2, <2>5, <2>6, <2>7 DEF LibPowerTypeOK
  <2> QED
    BY <2>4, <2>5, <2>8
<1> QED
  BY <1>1, <1>2 DEF boostpulse_open, LibPowerTypeOK

\* close() under the mutex closes the field's descriptor, the only one.
LEMMA CloseFdKeeps ==
  ASSUME PowerInv, NEW t \in Threads, CloseFd(t)
  PROVE  PowerInv'
<1> USE DEF PowerInv
<1>0. /\ hint[t] = "lock" /\ lock = NoThread /\ Goto(t, "close") /\ seen' = seen /\ lock' = t
      /\ events' = events /\ governor' = governor /\ inited' = inited
      /\ boostpulse_fd' = boostpulse_fd /\ boostpulse_warned' = boostpulse_warned
      /\ table' = [f \in Fds |-> IF f = boostpulse_fd THEN Free ELSE table[f]]
  BY DEF CloseFd, HintUnchanged, cpufreq
<1>1. t # NoThread
  BY LibPowerAssumption
<1>2. OnBoostpulse' = {}
  BY <1>0 DEF OneDescriptor, OnBoostpulse
<1>3. OneDescriptor'
  BY <1>0, <1>1, <1>2 DEF OneDescriptor, OnBoostpulse
<1>4. Counted' /\ governor' \in 0..MaxEvents
  BY <1>0, CountedNext
<1>5. table' \in [Fds -> {Free, Other} \cup {Boostpulse(g) : g \in 0..MaxEvents}]
  BY <1>0 DEF LibPowerTypeOK
<1>6. /\ hint' \in [Threads -> {"idle", "open", "check", "read", "write", "lock", "close"}]
      /\ \A u \in Threads : hint'[u] = "close" <=> u = t
  BY <1>0, LibPowerAssumption DEF Goto, LibPowerTypeOK
<1>7. LibPowerTypeOK'
  BY <1>0, <1>4, <1>5, <1>6 DEF LibPowerTypeOK
<1> QED
  BY <1>3, <1>4, <1>7

\* Only the thread that has the mutex forgets the descriptor.
LEMMA ForgetFdKeeps ==
  ASSUME PowerInv, NEW t \in Threads, ForgetFd(t)
  PROVE  PowerInv'
<1> USE DEF PowerInv
<1>0. /\ hint[t] = "close" /\ lock' = NoThread /\ Goto(t, "idle") /\ seen' = seen
      /\ events' = events /\ governor' = governor /\ inited' = inited
      /\ boostpulse_fd' = -1 /\ boostpulse_warned' = FALSE /\ table' = table
  BY DEF ForgetFd, HintUnchanged, cpufreq
<1>1. lock = t /\ t # NoThread
  BY <1>0, LibPowerAssumption DEF LibPowerTypeOK
<1>2. OneDescriptor'
  BY <1>0, <1>1 DEF OneDescriptor
<1>3. Counted' /\ governor' \in 0..MaxEvents
  BY <1>0, CountedNext
<1>4. /\ hint' \in [Threads -> {"idle", "open", "check", "read", "write", "lock", "close"}]
      /\ \A u \in Threads : hint'[u] # "close"
  BY <1>0, <1>1 DEF Goto, LibPowerTypeOK
<1>5. LibPowerTypeOK'
  BY <1>0, <1>3, <1>4, LibPowerAssumption DEF LibPowerTypeOK
<1> QED
  BY <1>2, <1>3, <1>5

\* Steps that leave the HAL's hints and descriptors alone.
LEMMA OutsideHints ==
  ASSUME PowerInv, inited' \in BOOLEAN,
         \/ Event /\ governor' \in {governor, governor + 1}
         \/ events' = events /\ governor' = governor,
         UNCHANGED <<boostpulse_fd, boostpulse_warned, lock, table, hint, seen>>
  PROVE  PowerInv'
<1> USE DEF PowerInv
<1>1. Counted' /\ governor' \in 0..MaxEvents
  BY CountedNext
<1>2. LibPowerTypeOK'
  BY <1>1 DEF LibPowerTypeOK
<1>3. OneDescriptor'
  BY DEF OneDescriptor
<1> QED
  BY <1>1, <1>2, <1>3

\* The rest of the process opens and closes descriptors of its own.
LEMMA OtherKeeps ==
  ASSUME PowerInv, OtherOpen \/ OtherClose
  PROVE  PowerInv'
<1> USE DEF PowerInv
<1>0. /\ Event /\ governor' = governor /\ inited' = inited
      /\ UNCHANGED <<boostpulse_fd, boostpulse_warned, lock, hint, seen>>
  BY DEF OtherOpen, OtherClose, HintUnchanged, cpufreq
<1>1. PICK f \in Fds, x \in {Free, Other} :
        table[f] \in {Free, Other} /\ table' = [table EXCEPT ![f] = x]
  BY DEF OtherOpen, OtherClose, IsOpen
<1>2. OnBoostpulse' = OnBoostpulse
  BY <1>1 DEF OnBoostpulse, LibPowerTypeOK
<1>3. OneDescriptor'
  BY <1>0, <1>2 DEF OneDescriptor, OnBoostpulse
<1>4. Counted' /\ governor' \in 0..MaxEvents
  BY <1>0, CountedNext
<1>5. table' \in [Fds -> {Free, Other} \cup {Boostpulse(g) : g \in 0..MaxEvents}]
  BY <1>1 DEF LibPowerTypeOK
<1>6. LibPowerTypeOK'
  BY <1>0, <1>4, <1>5 DEF LibPowerTypeOK
<1> QED
  BY <1>3, <1>4, <1>6

\* Every step keeps the one descriptor.
LEMMA PowerNext == PowerInv /\ [Next]_vars => PowerInv'
<1> SUFFICES ASSUME PowerInv, [Next]_vars PROVE PowerInv'
  OBVIOUS
<1> USE DEF PowerInv
<1>0. inited \in BOOLEAN /\ boostpulse_warned \in BOOLEAN /\ seen \in [Threads -> Fds \cup {-1}]
      /\ boostpulse_fd \in Fds \cup {-1}
  BY DEF LibPowerTypeOK
<1>1. CASE UNCHANGED vars
  BY <1>0, <1>1, OutsideHints DEF vars, cpufreq, power
<1>2. CASE MotoRildNext /\ UNCHANGED power
  <2>1. governor' = governor /\ (Event \/ events' = events)
    BY <1>2 DEF MotoRildNext, Connect, SendCall, Killed, Exit, Daemon, Accept, ReadCall, set_gw,
                RingFreq, RingOnline, Answer, Sigpipe, Restart, cpufreq
  <2> QED
    BY <1>0, <1>2, <2>1, OutsideHints DEF power
<1>3. CASE omap_power_init
  BY <1>3, OutsideHints DEF omap_power_init, cpufreq
<1>4. ASSUME NEW on \in BOOLEAN, omap_power_set_interactive(on) PROVE PowerInv'
  BY <1>0, <1>4, OutsideHints DEF omap_power_set_interactive
<1>5. CASE NotifyOnMigrate
  BY <1>0, <1>5, OutsideHints DEF NotifyOnMigrate, cpufreq
<1>6. CASE ChangeGovernor /\ UNCHANGED power
  BY <1>0, <1>6, OutsideHints DEF ChangeGovernor, power
<1>7. ASSUME NEW t \in Threads, omap_power_hint(t) PROVE PowerInv'
  BY <1>0, <1>7, QuietHint DEF omap_power_hint, HintUnchanged, cpufreq
<1>8. ASSUME NEW t \in Threads, CheckFd(t) PROVE PowerInv'
  BY <1>0, <1>8, QuietHint DEF CheckFd, HintUnchanged, cpufreq
<1>9. ASSUME NEW t \in Threads, ReadFd(t) PROVE PowerInv'
  <2>1. seen' \in [Threads -> Fds \cup {-1}]
    BY <1>0, <1>9 DEF ReadFd
  <2> QED
    BY <1>0, <1>9, <2>1, QuietHint DEF ReadFd, HintUnchanged, cpufreq
<1>10. ASSUME NEW t \in Threads, WriteBoost(t) PROVE PowerInv'
  <2>1. seen' \in [Threads -> Fds \cup {-1}]
    BY <1>0, <1>10 DEF WriteBoost
  <2>2. PICK l \in {"idle", "lock"} : Goto(t, l)
    BY <1>10 DEF WriteBoost
  <2> QED
    BY <1>0, <1>10, <2>1, <2>2, QuietHint DEF WriteBoost, HintUnchanged, cpufreq
<1> QED
  BY <1>1, <1>2, <1>3, <1>4, <1>5, <1>6, <1>7, <1>8, <1>9, <1>10,
     OpenKeeps, CloseFdKeeps, ForgetFdKeeps, OtherKeeps
  DEF Next, LibPowerNext, Hint

-----------------------------------------------------------------------------
(* The maximum frequency, which both write *)

\* The kernel's maximum is the last of the table.
LEMMA FreqInit == Init => FreqInv
<1> SUFFICES ASSUME Init PROVE FreqInv
  OBVIOUS
<1> USE DEF Init, CpuFreqInit, LibPowerInit
<1>1. frequencies \in Seq(Nat)
  BY CpuFreqAssumption
<1>2. scaling_max_freq \in Nat
  BY <1>1
<1> QED
  BY <1>2 DEF FreqInv, Frequencies, FrequencyFollows

\* Steps that write none of the frequencies.
LEMMA FreqKept ==
  ASSUME FreqInv,
         UNCHANGED <<frequencies, scaling_max_freq, writer, inited, max_freq, nom_freq, screen>>
  PROVE  FreqInv'
BY DEF FreqInv, Frequencies, FrequencyFollows

\* The nominal frequency is one of those that were read, however few.
LEMMA NomInTable ==
  ASSUME NEW len \in Nat, NEW n \in 1..len
  PROVE  NomIndex(n) \in 1..len
BY LibPowerAssumption DEF NomIndex

\* What the HAL takes for its maximum is no more than the last of the table.
LEMMA InitFreqKeeps ==
  ASSUME FreqInv, omap_power_init
  PROVE  FreqInv'
<1> DEFINE n == IF Len(frequencies) < MAX_FREQ_NUMBER THEN Len(frequencies) ELSE MAX_FREQ_NUMBER
<1>0. /\ ~inited /\ n > 0 /\ inited' = TRUE /\ max_freq' = frequencies[n]
      /\ nom_freq' = frequencies[NomIndex(n)]
      /\ UNCHANGED <<frequencies, scaling_max_freq, writer, screen>>
  BY DEF omap_power_init, cpufreq
<1>1. frequencies \in Seq(Nat) /\ Len(frequencies) \in Nat /\ frequencies \in Tables
  BY CpuFreqAssumption DEF FreqInv, Frequencies
<1>2. n \in 1..Len(frequencies) /\ Len(frequencies) \in 1..Len(frequencies) /\ n <= Len(frequencies)
  BY <1>0, <1>1, LibPowerAssumption
<1> HIDE DEF n
<1>3. frequencies[n] <= frequencies[Len(frequencies)] /\ frequencies[n] \in Nat /\ frequencies # <<>>
  BY <1>1, <1>2, CpuFreqAssumption
<1>7. frequencies[NomIndex(n)] \in Nat
  <2> DEFINE k == NomIndex(n)
  <2>1. k \in 1..Len(frequencies)
    BY <1>1, <1>2, NomInTable
  <2> HIDE DEF k
  <2>2. frequencies[k] \in Nat
    BY <1>1, <2>1
  <2> QED
    BY <2>2 DEF k
<1>4. scaling_max_freq = frequencies[Len(frequencies)] /\ screen /\ writer # "power"
  BY <1>0, <1>3 DEF FreqInv, Frequencies
<1>5. Frequencies'
  BY <1>0, <1>3, <1>7, <1>4 DEF FreqInv, Frequencies
<1>6. FrequencyFollows'
  BY <1>0, <1>3, <1>4 DEF FrequencyFollows
<1> QED
  BY <1>5, <1>6 DEF FreqInv

\* The screen's maximum.
LEMMA InteractiveFreqKeeps ==
  ASSUME FreqInv, NEW on \in BOOLEAN, omap_power_set_interactive(on)
  PROVE  FreqInv'
<1>0. /\ inited /\ scaling_max_freq' = (IF on THEN max_freq ELSE nom_freq) /\ writer' = "power"
      /\ screen' = on /\ UNCHANGED <<frequencies, inited, max_freq, nom_freq>>
  BY DEF omap_power_set_interactive
<1>1. CASE on
  <2>1. scaling_max_freq' = max_freq /\ screen' = TRUE
    BY <1>0, <1>1
  <2> QED
    BY <1>0, <2>1 DEF FreqInv, Frequencies, FrequencyFollows
<1>2. CASE ~on
  <2>1. scaling_max_freq' = nom_freq /\ screen' = FALSE
    BY <1>0, <1>2
  <2> QED
    BY <1>0, <2>1 DEF FreqInv, Frequencies, FrequencyFollows
<1> QED
  BY <1>1, <1>2

\* motorild's maximum.
LEMMA RingFreqKeeps ==
  ASSUME FreqInv, RingFreq, UNCHANGED power
  PROVE  FreqInv'
<1>0. UNCHANGED <<frequencies, inited, max_freq, nom_freq, screen>>
  BY DEF RingFreq, power
<1>1. CASE frequencies = <<>>
  BY <1>0, <1>1, FreqKept DEF RingFreq
<1>2. CASE frequencies # <<>>
  <2>1. scaling_max_freq' = frequencies[Len(frequencies)] /\ writer' = "motorild"
    BY <1>2 DEF RingFreq
  <2>2. frequencies[Len(frequencies)] \in Nat
    <3>1. frequencies \in Seq(Nat)
      BY CpuFreqAssumption DEF FreqInv, Frequencies
    <3> QED
      BY <1>2, <3>1
  <2>3. Frequencies'
    BY <1>0, <2>1, <2>2 DEF FreqInv, Frequencies
  <2>4. FrequencyFollows'
    BY <1>0, <1>2, <2>1, <2>2 DEF FreqInv, Frequencies, FrequencyFollows
  <2> QED
    BY <2>3, <2>4 DEF FreqInv
<1> QED
  BY <1>1, <1>2

\* Every step keeps what is known of the frequencies.
LEMMA FreqNext == FreqInv /\ [Next]_vars => FreqInv'
<1> SUFFICES ASSUME FreqInv, [Next]_vars PROVE FreqInv'
  OBVIOUS
<1>1. CASE UNCHANGED vars
  BY <1>1, FreqKept DEF vars, cpufreq, power
<1>2. CASE MotoRildNext /\ ~RingFreq /\ UNCHANGED power
  <2>1. UNCHANGED cpufreq
    BY <1>2 DEF MotoRildNext, Connect, SendCall, Killed, Exit, Daemon, Accept, ReadCall, set_gw,
                RingOnline, Answer, Sigpipe, Restart
  <2> QED
    BY <1>2, <2>1, FreqKept DEF cpufreq, power
<1>3. ASSUME NEW t \in Threads, omap_power_hint(t) \/ Hint(t) PROVE FreqInv'
  <2>1. HintUnchanged
    BY <1>3 DEF omap_power_hint, Hint, boostpulse_open, CheckFd, ReadFd, WriteBoost, CloseFd, ForgetFd
  <2> QED
    BY <2>1, FreqKept DEF HintUnchanged, cpufreq
<1>4. CASE NotifyOnMigrate \/ OtherOpen \/ OtherClose \/ (ChangeGovernor /\ UNCHANGED power)
  BY <1>4, FreqKept
  DEF NotifyOnMigrate, OtherOpen, OtherClose, ChangeGovernor, HintUnchanged, cpufreq, power
<1> QED
  BY <1>1, <1>2, <1>3, <1>4, InitFreqKeeps, InteractiveFreqKeeps, RingFreqKeeps
  DEF Next, LibPowerNext

-----------------------------------------------------------------------------
(* The results *)

\* The power HAL's mutex is held exactly around the reset of boostpulse_fd,
\* and motorild's clients are connected exactly while they are queued or served.
THEOREM PowerTyped == Spec => []TypeOK
<1>1. PowerInv /\ RildInv => TypeOK
  BY DEF PowerInv, RildInv, TypeOK
<1> QED
  BY <1>1, PowerInit, PowerNext, RildInit, RildNext, PTL DEF Spec

\* omap_power_hint() neither leaks a descriptor of boostpulse nor closes a
\* foreign one, for any number of threads that give hints at once.
THEOREM PowerOneDescriptor == Spec => []OneDescriptor
<1>1. PowerInv => OneDescriptor
  BY DEF PowerInv
<1> QED
  BY <1>1, PowerInit, PowerNext, PTL DEF Spec

\* The maximum frequency follows the screen although motorild writes it too,
\* for every table of frequencies in ascending order.
THEOREM PowerFrequencyFollows == Spec => []FrequencyFollows
<1>1. FreqInv => FrequencyFollows
  BY DEF FreqInv
<1> QED
  BY <1>1, FreqInit, FreqNext, PTL DEF Spec
=============================================================================
