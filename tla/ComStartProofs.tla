--------------------------- MODULE ComStartProofs ---------------------------
(***************************************************************************)
(* What starts charge-only mode and what it starts: proofs about BootMode, *)
(* for any set of failures, and about the recogniser of launch_sequence,   *)
(* for every bound on its counter.                                         *)
(*                                                                         *)
(* Both action properties of BootMode follow from one invariant that ties  *)
(* the history of the mark to what is in the page cache and on flash.  The *)
(* recogniser never counts keys that were not typed, and arms the memory   *)
(* test only on the nine keys.                                             *)
(***************************************************************************)
EXTENDS BootMode, LaunchMachine, SequenceTheorems, TLAPS

-----------------------------------------------------------------------------
(* The boot mode *)

\* Between a reset and save_mode the cache holds what the flash holds.
Cold == phase \in {"off", "starting"} => file = disk

\* A mark known to be on flash is there and in the cache; one that was never
\* made, or was cleared, is in neither.
MarkTracked ==
  /\ last = "marked" => file = "charging" /\ disk = "charging"
  /\ last \in {"never", "cleared"} => file # "charging" /\ disk # "charging"

Inv == TypeOK /\ Cold /\ MarkTracked

\* A boot ends in one of the three modes.
LEMMA BootTyped ==
  ASSUME NEW b, NEW f
  PROVE  mot_boot_mode(b, f) \in {"starting", "tcmd", "normal"}
BY DEF mot_boot_mode

\* The machine starts with no mark anywhere.
LEMMA InvInit == Init => Inv
BY DEF Init, Inv, TypeOK, Cold, MarkTracked, Causes, Contents

\* Going down keeps the invariant: the cache is lost, the flash is kept.
LEMMA DownKeeps ==
  ASSUME Inv, phase # "off", NEW c \in Causes, Down(c)
  PROVE  Inv'
BY DEF Inv, TypeOK, Cold, MarkTracked, Down

\* Every step keeps the invariant.
LEMMA InvNext == Inv /\ [Next]_vars => Inv'
<1> SUFFICES ASSUME Inv, [Next]_vars PROVE Inv'
    OBVIOUS
<1>1. CASE Boot
  BY <1>1, BootTyped DEF Boot, Inv, TypeOK, Cold, MarkTracked
<1>2. CASE save_mode
  BY <1>2 DEF save_mode, Inv, TypeOK, Cold, MarkTracked, Contents
<1>3. CASE clear_mode
  BY <1>3 DEF clear_mode, Inv, TypeOK, Cold, MarkTracked, Contents
<1>4. CASE Leave
  BY <1>4, DownKeeps DEF Leave, Causes, Inv, TypeOK, Cold, MarkTracked
<1>5. CASE WriteBack
  BY <1>5 DEF WriteBack, Inv, TypeOK, Cold, MarkTracked
<1>6. CASE Panic
  BY <1>6, DownKeeps DEF Panic, Causes
<1>7. CASE PowerLost
  BY <1>7, DownKeeps DEF PowerLost, Causes
<1>8. CASE Shutdown
  BY <1>8, DownKeeps DEF Shutdown, Causes
<1>9. CASE UNCHANGED vars
  BY <1>9 DEF vars, Inv, TypeOK, Cold, MarkTracked
<1> QED
  BY <1>1, <1>2, <1>3, <1>4, <1>5, <1>6, <1>7, <1>8, <1>9 DEF Next

\* Only mot_boot_mode takes the machine out of "off".
LEMMA OnlyBoot ==
  ASSUME Inv, [Next]_vars, phase = "off", phase' # "off"
  PROVE  Boot
BY DEF Next, vars, Boot, save_mode, clear_mode, Leave, WriteBack, Panic, PowerLost, Shutdown, Down

\* A boot into COM without a mark is one the charger caused.
LEMMA UnmarkedBoot ==
  ASSUME Inv, Boot, phase' = "starting", last \in {"never", "cleared"}
  PROVE  cause = "charger"
<1>1. file # "charging"
  BY DEF Inv, MarkTracked
<1>2. PICK b \in BootInfo(cause) : phase' = mot_boot_mode(b, file)
  BY DEF Boot
<1>3. b.bootmode = "charger" \/ b.reason = "charger"
  BY <1>1, <1>2 DEF mot_boot_mode, boot_reason_charge_only, check_com_reset
<1> QED
  BY <1>3 DEF BootInfo

\* A boot after an abnormal reset with the mark on flash is into COM, unless
\* the recovery boot takes precedence.
LEMMA MarkedBoot ==
  ASSUME Inv, Boot, last = "marked", cause \in Abnormal
  PROVE  phase' \in {"starting", "tcmd"}
<1>1. file = "charging"
  BY DEF Inv, MarkTracked
<1>2. PICK b \in BootInfo(cause) : phase' = mot_boot_mode(b, file)
  BY DEF Boot
<1>3. check_abnormal_reboot(b)
  BY DEF check_abnormal_reboot, BootInfo
<1> QED
  BY <1>1, <1>2, <1>3 DEF mot_boot_mode, boot_reason_charge_only, check_com_reset

\* The mark and the boot modes keep their types.
THEOREM BootTypes == Spec => []TypeOK
<1>1. Inv => TypeOK
  BY DEF Inv
<1> QED
  BY <1>1, InvInit, InvNext, PTL DEF Spec

\* A reset after COM took its mark back never leads into COM again.
THEOREM BootNotTrapped == Spec => NotTrapped
<1>1. Inv /\ [Next]_vars =>
        [phase' = "starting" /\ phase = "off" /\ last \in {"never", "cleared"} =>
           cause = "charger"]_vars
  BY OnlyBoot, UnmarkedBoot
<1> QED
  BY <1>1, InvInit, InvNext, PTL DEF Spec, NotTrapped

\* A panic or watchdog reset in COM resumes COM once the mark is on flash.
THEOREM BootComResumes == Spec => ComResumes
<1>1. Inv /\ [Next]_vars =>
        [phase = "off" /\ phase' # "off" /\ was = "com" /\ last = "marked" /\ cause \in Abnormal =>
           phase' \in {"starting", "tcmd"}]_vars
  BY OnlyBoot, MarkedBoot
<1> QED
  BY <1>1, InvInit, InvNext, PTL DEF Spec, ComResumes

-----------------------------------------------------------------------------
(* The launch sequence *)

\* The counter's range holds the whole sequence.
LEMMA LengthType == Length \in Nat /\ Length >= 1 /\ MaxCounter \in Nat /\ Length <= MaxCounter
  BY LaunchAssumption DEF Length

\* The sequence is nine launch keys long.
LEMMA SequenceType == sequence \in [1..Length -> LaunchKeys] /\ sequence \in Seq(LaunchKeys) /\ Len(sequence) = Length
  BY DEF sequence, LaunchKeys, Length

\* Remember drops at most the oldest key and puts the newest one last.
LEMMA RememberLast ==
  ASSUME LaunchTypeOK, NEW r \in LaunchKeys
  PROVE  /\ Remember(r) \in Seq(LaunchKeys)
         /\ Len(Remember(r)) = IF Len(recent) < Length THEN Len(recent) + 1 ELSE Length
         /\ Remember(r)[Len(Remember(r))] = r
         /\ \A i \in 1..(Len(Remember(r)) - 1) :
              Remember(r)[Len(Remember(r)) - i] = recent[Len(recent) - i + 1]
<1> USE LengthType DEF LaunchTypeOK
<1>1. CASE Len(recent) < Length
  BY <1>1 DEF Remember
<1>2. CASE ~(Len(recent) < Length)
  <2>1. Len(recent) = Length /\ recent # <<>>
    BY <1>2
  <2>2. /\ Tail(recent) \in Seq(LaunchKeys)
        /\ Len(Tail(recent)) = Length - 1
        /\ \A i \in 1..(Length - 1) : Tail(recent)[i] = recent[i + 1]
    BY <2>1, HeadTailProperties
  <2>3. Remember(r) = Append(Tail(recent), r)
    BY <1>2 DEF Remember
  <2> QED
    BY <2>1, <2>2, <2>3
<1> QED
  BY <1>1, <1>2

\* What one call may do to the counter.
LEMMA NextCountersCases ==
  ASSUME NEW c \in 0..MaxCounter, NEW r, NEW c2 \in NextCounters(c, r)
  PROVE  IF r \notin LaunchKeys THEN c2 = c
         ELSE \/ c2 = 0
              \/ c2 = c + 1 /\ c < MaxCounter /\ (c < Length => sequence[c + 1] = r)
<1>1. CASE r \notin LaunchKeys
  BY <1>1 DEF NextCounters
<1>2. CASE r \in LaunchKeys
  <2>1. PICK m \in Matches(c, r) : c2 = IF m /\ c < MaxCounter THEN c + 1 ELSE 0
    BY <1>2 DEF NextCounters
  <2>2. CASE m /\ c < MaxCounter
    <3>1. c < Length => sequence[c + 1] = r
      BY <2>1, <2>2 DEF Matches
    <3> QED
      BY <1>2, <2>1, <2>2, <3>1
  <2>3. CASE ~(m /\ c < MaxCounter)
    BY <1>2, <2>1, <2>3
  <2> QED
    BY <2>2, <2>3
<1> QED
  BY <1>1, <1>2

\* Type correctness of the recogniser.
THEOREM LaunchTyped == LaunchSpec => []LaunchTypeOK
<1>1. LaunchInit => LaunchTypeOK
  <2> SUFFICES ASSUME LaunchInit PROVE LaunchTypeOK
    OBVIOUS
  <2>1. counter \in 0..MaxCounter
    BY LengthType DEF LaunchInit
  <2>2. launched \in BOOLEAN
    BY DEF LaunchInit
  <2>3. recent \in Seq(LaunchKeys) /\ Len(recent) \in 0..Length
    BY LengthType DEF LaunchInit
  <2> QED
    BY <2>1, <2>2, <2>3 DEF LaunchTypeOK
<1>2. LaunchTypeOK /\ [LaunchNext]_launchVars => LaunchTypeOK'
  <2> SUFFICES ASSUME LaunchTypeOK, [LaunchNext]_launchVars PROVE LaunchTypeOK'
    OBVIOUS
  <2>1. ASSUME NEW r \in LaunchKeys \cup OtherEvents, Event(r) PROVE LaunchTypeOK'
    <3>1. counter' \in 0..MaxCounter
      BY <2>1, LengthType, NextCountersCases DEF LaunchTypeOK, Event
    <3>2. recent' \in Seq(LaunchKeys) /\ Len(recent') \in 0..Length
      BY <2>1, LengthType, RememberLast DEF LaunchTypeOK, Event
    <3> QED
      BY <2>1, <3>1, <3>2 DEF LaunchTypeOK, Event
  <2>2. CASE UNCHANGED launchVars
    BY <2>2 DEF LaunchTypeOK, launchVars
  <2> QED
    BY <2>1, <2>2 DEF LaunchNext
<1> QED
  BY <1>1, <1>2, PTL DEF LaunchSpec

\* One key: the counter still counts a prefix of the sequence.
LEMMA EventPrefix ==
  ASSUME LaunchTypeOK, CounterIsPrefix, NEW r \in LaunchKeys \cup OtherEvents, Event(r)
  PROVE  CounterIsPrefix'
<1>1. CASE r \notin LaunchKeys
  BY <1>1 DEF CounterIsPrefix, Event, NextCounters
<1>2. CASE r \in LaunchKeys
  <2> DEFINE n == Len(recent)  m == Len(recent')
  <2>1. /\ recent' = Remember(r)
        /\ counter' \in {0, counter + 1}
        /\ counter' = counter + 1 /\ counter < Length => sequence[counter + 1] = r
    BY <1>2, NextCountersCases DEF Event, LaunchTypeOK
  <2>2. /\ n \in 0..Length /\ m = (IF n < Length THEN n + 1 ELSE Length)
        /\ recent'[m] = r
        /\ \A i \in 1..(m - 1) : recent'[m - i] = recent[n - i + 1]
    BY <1>2, <2>1, RememberLast DEF LaunchTypeOK
  <2>3. CASE counter' = 0
    BY <2>2, <2>3 DEF CounterIsPrefix
  <2>4. CASE counter' = counter + 1 /\ counter < Length
    <3>1. counter \in 0..(Length - 1) /\ counter <= n /\ counter' <= m
      BY <2>2, <2>4, LengthType DEF LaunchTypeOK, CounterIsPrefix
    <3>2. ASSUME NEW k \in 1..counter'
          PROVE  recent'[m - counter' + k] = sequence[k]
      <4>1. CASE k = counter'
        BY <2>1, <2>2, <2>4, <3>1, <4>1
      <4>2. CASE k # counter'
        <5>1. k \in 1..counter /\ counter' - k \in 1..(m - 1)
          BY <2>2, <2>4, <3>1, <3>2, <4>2
        <5>2. recent'[m - (counter' - k)] = recent[n - (counter' - k) + 1]
          BY <2>2, <5>1
        <5>3. m - (counter' - k) = m - counter' + k /\ n - (counter' - k) + 1 = n - counter + k
          <6>1. n \in Int /\ m \in Int /\ counter \in Int /\ k \in Int
            BY <2>2, <3>1, LengthType
          <6> HIDE DEF n, m
          <6> QED
            BY <2>4, <6>1
        <5>4. recent[n - counter + k] = sequence[k]
          BY <3>1, <5>1, LengthType DEF CounterIsPrefix
        <5> QED
          BY <5>2, <5>3, <5>4
      <4> QED
        BY <4>1, <4>2
    <3> QED
      BY <3>1, <3>2 DEF CounterIsPrefix
  <2>5. CASE counter' = counter + 1 /\ ~(counter < Length)
    BY <2>5, LengthType DEF CounterIsPrefix, LaunchTypeOK
  <2> QED
    BY <2>1, <2>3, <2>4, <2>5
<1> QED
  BY <1>1, <1>2

\* CounterIsPrefix holds in every reachable state: with the typing it is
\* inductive.
THEOREM LaunchPrefix == LaunchSpec => []CounterIsPrefix
<1>1. LaunchInit => CounterIsPrefix
  BY DEF LaunchInit, CounterIsPrefix
<1>2. LaunchTypeOK /\ CounterIsPrefix /\ [LaunchNext]_launchVars => CounterIsPrefix'
  <2> SUFFICES ASSUME LaunchTypeOK, CounterIsPrefix, [LaunchNext]_launchVars PROVE CounterIsPrefix'
    OBVIOUS
  <2>1. CASE UNCHANGED launchVars
    BY <2>1 DEF CounterIsPrefix, launchVars
  <2> QED
    BY <2>1, EventPrefix DEF LaunchNext
<1> QED
  BY <1>1, <1>2, LaunchTyped, PTL DEF LaunchSpec

\* The memory test is armed only by the nine keys: nine counted keys fill the
\* whole record of the last nine.
THEOREM LaunchSound == LaunchSpec => LaunchedBySequence
<1>1. LaunchTypeOK /\ LaunchTypeOK' /\ CounterIsPrefix /\ CounterIsPrefix' /\ [LaunchNext]_launchVars
        => [launched' # launched => launched' /\ recent' = sequence]_launchVars
  <2> SUFFICES ASSUME LaunchTypeOK, LaunchTypeOK', CounterIsPrefix', launched' # launched,
                      NEW r \in LaunchKeys \cup OtherEvents, Event(r)
               PROVE  launched' /\ recent' = sequence
    BY DEF LaunchNext
  <2>1. launched' /\ counter' = Length
    BY DEF Event, Activated, LaunchTypeOK
  <2>2. Len(recent') = Length /\ \A k \in 1..Length : recent'[k] = sequence[k]
    BY <2>1, LengthType DEF LaunchTypeOK, CounterIsPrefix
  <2>3. recent' \in Seq(LaunchKeys)
    BY DEF LaunchTypeOK
  <2> QED
    BY <2>1, <2>2, <2>3, SequenceType
<1> QED
  BY <1>1, LaunchTyped, LaunchPrefix, PTL DEF LaunchSpec, LaunchedBySequence
=============================================================================
