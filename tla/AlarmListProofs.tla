--------------------------- MODULE AlarmListProofs ---------------------------
(***************************************************************************)
(* Proofs about AlarmList, for all functions, delays and bounds and for    *)
(* every number of microseconds in a millisecond and of milliseconds in a  *)
(* second.                                                                 *)
(***************************************************************************)
EXTENDS AlarmList, FiniteSetTheorems, TLAPS

AlarmNode == [f : Functions, time : Timeval]

-----------------------------------------------------------------------------
(* Times *)

\* A second has microseconds.
LEMMA SecondTyped == UsPerSec \in Nat \ {0}
BY AlarmAssumption DEF UsPerSec

\* Division with remainder, as timeval() uses it.
LEMMA Division ==
  ASSUME NEW n \in Nat, NEW d \in Nat \ {0}
  PROVE  n \div d \in Nat /\ n % d \in 0..d - 1 /\ n = d * (n \div d) + (n % d)
OBVIOUS

\* gettimeofday() gives a normalised time.
LEMMA TimevalTyped ==
  ASSUME NEW us \in Nat
  PROVE  timeval(us) \in Timeval /\ Microseconds(timeval(us)) = us
<1> DEFINE s == us \div UsPerSec
           u == us % UsPerSec
<1>1. s \in Nat /\ u \in 0..UsPerSec - 1 /\ us = UsPerSec * s + u
  BY SecondTyped, Division, Zenon
<1>2. timeval(us) = [sec |-> s, usec |-> u]
  BY DEF timeval
<1> HIDE DEF s, u
<1>3. timeval(us) \in Timeval
  BY <1>1, <1>2 DEF Timeval
<1>4. UsPerSec * s = s * UsPerSec
  BY <1>1, SecondTyped
<1>5. Microseconds(timeval(us)) = s * UsPerSec + u
  BY <1>2 DEF Microseconds
<1> QED
  BY <1>1, <1>3, <1>4, <1>5

\* So does the sum of alarm_set_relative(), after its carry.
LEMMA RelativeTyped ==
  ASSUME clock \in Nat, NEW ms \in Delays
  PROVE  Relative(ms) \in Timeval
<1> DEFINE t == timeval(clock)
           x == t.usec + ms * UsPerMs
<1>1. t \in Timeval
  BY TimevalTyped
<1>2. t.sec \in Nat /\ t.usec \in Nat
  BY <1>1, SecondTyped DEF Timeval
<1>3. ms * UsPerMs \in Nat
  BY AlarmAssumption
<1>4. x \in Nat
  BY <1>2, <1>3
<1>5. Relative(ms) = IF x >= UsPerSec
                     THEN [sec |-> t.sec + x \div UsPerSec, usec |-> x % UsPerSec]
                     ELSE [sec |-> t.sec, usec |-> x]
  BY DEF Relative
<1> HIDE DEF t, x
<1>6. CASE x >= UsPerSec
  <2> DEFINE q == x \div UsPerSec
             r == x % UsPerSec
  <2>1. q \in Nat /\ r \in 0..UsPerSec - 1
    BY <1>4, SecondTyped, Division, Zenon
  <2>2. Relative(ms) = [sec |-> t.sec + q, usec |-> r]
    BY <1>5, <1>6
  <2> HIDE DEF q, r
  <2> QED
    BY <1>2, <2>1, <2>2 DEF Timeval
<1>7. CASE ~(x >= UsPerSec)
  <2>1. x \in 0..UsPerSec - 1
    BY <1>4, <1>7, SecondTyped
  <2>2. Relative(ms) = [sec |-> t.sec, usec |-> x]
    BY <1>5, <1>7
  <2> QED
    BY <1>2, <2>1, <2>2 DEF Timeval
<1> QED
  BY <1>6, <1>7

\* Not later is a total order on the times.
LEMMA NotLater ==
  ASSUME NEW a \in Timeval, NEW b \in Timeval
  PROVE  /\ Later(a, b) => ~Later(b, a)
         /\ \A c \in Timeval : ~Later(a, b) /\ ~Later(b, c) => ~Later(a, c)
BY SecondTyped DEF Timeval, Later

\* C's truncation loses less than the divisor.
LEMMA TruncatedBound ==
  ASSUME NEW n \in Int, NEW d \in Nat \ {0}
  PROVE  Truncated(n, d) \in Int /\ Truncated(n, d) * d < n + d
<1>1. CASE n >= 0
  <2> DEFINE q == n \div d
             r == n % d
  <2>0. n \in Nat
    BY <1>1
  <2>1. q \in Nat /\ r \in 0..d - 1 /\ n = d * q + r
    BY <2>0, Division, Zenon
  <2>2. Truncated(n, d) = q
    BY <1>1 DEF Truncated
  <2> HIDE DEF q, r
  <2>3. q * d = d * q /\ d * q \in Int
    BY <2>1
  <2> QED
    BY <2>1, <2>2, <2>3
<1>2. CASE ~(n >= 0)
  <2> DEFINE m == -n
             q == m \div d
             r == m % d
  <2>1. m \in Nat
    BY <1>2
  <2>2. q \in Nat /\ r \in 0..d - 1 /\ m = d * q + r
    BY <2>1, Division, Zenon
  <2>3. Truncated(n, d) = -q
    BY <1>2 DEF Truncated
  <2>4. m = -n
    OBVIOUS
  <2> HIDE DEF m, q, r
  <2>5. (-q) * d = -(d * q) /\ d * q \in Int
    BY <2>2
  <2> QED
    BY <2>2, <2>3, <2>4, <2>5
<1> QED
  BY <1>1, <1>2

\* The delay for poll() ends less than a millisecond after the alarm is due.
LEMMA DelayBound ==
  ASSUME clock \in Nat, NEW a \in AlarmNode
  PROVE  /\ alarm_get_time_until_next(a) \in Int
         /\ clock + alarm_get_time_until_next(a) * UsPerMs < Microseconds(a.time) + UsPerMs
<1> DEFINE t == timeval(clock)
           x == a.time
           s == x.sec - t.sec
           d == Truncated(x.usec - t.usec, UsPerMs)
<1>1. t \in Timeval /\ Microseconds(t) = clock /\ x \in Timeval
  BY TimevalTyped DEF AlarmNode
<1>2. alarm_get_time_until_next(a) = s * MsPerSec + d
  BY DEF alarm_get_time_until_next
<1>3. clock = t.sec * UsPerSec + t.usec /\ Microseconds(x) = x.sec * UsPerSec + x.usec
  BY <1>1 DEF Microseconds
<1>4. /\ t.sec \in Int /\ t.usec \in Int /\ x.sec \in Int /\ x.usec \in Int
      /\ UsPerMs \in Nat \ {0} /\ MsPerSec \in Nat /\ UsPerSec \in Int
  BY <1>1, SecondTyped, AlarmAssumption DEF Timeval
<1> HIDE DEF t, x
<1>5. d \in Int /\ d * UsPerMs < (x.usec - t.usec) + UsPerMs
  <2> DEFINE y == x.usec - t.usec
  <2>1. y \in Int
    BY <1>4
  <2> HIDE DEF y
  <2>2. Truncated(y, UsPerMs) \in Int /\ Truncated(y, UsPerMs) * UsPerMs < y + UsPerMs
    BY <1>4, <2>1, TruncatedBound
  <2> QED
    BY <2>2 DEF y
<1>6. s \in Int /\ s = x.sec - t.sec
  BY <1>4
<1> HIDE DEF s, d
<1>7. (s * MsPerSec + d) * UsPerMs = s * UsPerSec + d * UsPerMs
  <2>1. (s * MsPerSec + d) * UsPerMs = (s * MsPerSec) * UsPerMs + d * UsPerMs
    BY <1>4, <1>5, <1>6
  <2>2. (s * MsPerSec) * UsPerMs = s * (MsPerSec * UsPerMs)
    BY <1>4, <1>6
  <2> QED
    BY <2>1, <2>2 DEF UsPerSec
<1>8. s * UsPerSec = x.sec * UsPerSec - t.sec * UsPerSec
  BY <1>4, <1>6
<1>9. s * MsPerSec + d \in Int /\ d * UsPerMs \in Int /\ x.sec * UsPerSec \in Int /\ t.sec * UsPerSec \in Int
  BY <1>4, <1>5, <1>6
<1>10. Microseconds(x) = Microseconds(a.time)
  BY DEF x
<1> QED
  BY <1>2, <1>3, <1>4, <1>5, <1>7, <1>8, <1>9, <1>10

-----------------------------------------------------------------------------
(* The list *)

\* A node linked where the walk of alarm_set_relative() stopped.
LEMMA LinkedSorted ==
  ASSUME alarms \in Seq(AlarmNode), Sorted, NEW a \in AlarmNode, NEW p \in 1..Len(alarms) + 1,
         p <= Len(alarms) => Later(alarms[p].time, a.time),
         \A j \in 1..p - 1 : ~Later(alarms[j].time, a.time),
         alarms' = Linked(alarms, p, a)
  PROVE  alarms' \in Seq(AlarmNode) /\ Sorted'
<1> DEFINE n == Len(alarms)
           T(i) == alarms[i].time
<1>0. n \in Nat /\ p \in 1..n + 1 /\ \A i \in 1..n : alarms[i] \in AlarmNode
  OBVIOUS
<1>1. a.time \in Timeval /\ \A i \in 1..n : T(i) \in Timeval
  BY <1>0 DEF AlarmNode
<1>2. alarms' = [i \in 1..n + 1 |-> IF i < p THEN alarms[i] ELSE IF i = p THEN a ELSE alarms[i - 1]]
  BY DEF Linked
<1>3. \A i, j \in 1..n : i < j => ~Later(T(i), T(j))
  BY DEF Sorted
<1>4. /\ p <= n => Later(T(p), a.time)
      /\ \A j \in 1..p - 1 : ~Later(T(j), a.time)
  OBVIOUS
<1> HIDE DEF n
<1>5. ASSUME NEW i \in 1..n + 1, i < p
      PROVE  i \in 1..n /\ i \in 1..p - 1 /\ alarms'[i] = alarms[i]
  BY <1>0, <1>2, <1>5
<1>6. alarms'[p] = a
  BY <1>0, <1>2
<1>7. ASSUME NEW i \in 1..n + 1, i > p
      PROVE  i - 1 \in 1..n /\ p <= i - 1 /\ p \in 1..n /\ p <= n /\ alarms'[i] = alarms[i - 1]
  BY <1>0, <1>2, <1>7
<1>8. ASSUME NEW i \in 1..n + 1
      PROVE  i < p \/ i = p \/ i > p
  BY <1>0
<1>9. alarms' \in Seq(AlarmNode) /\ Len(alarms') = n + 1
  <2>1. \A i \in 1..n + 1 : alarms'[i] \in AlarmNode
    BY <1>0, <1>5, <1>6, <1>7, <1>8
  <2>2. alarms' \in [1..n + 1 -> AlarmNode]
    BY <1>2, <2>1
  <2>3. n + 1 \in Nat
    BY <1>0
  <2> QED
    BY <2>2, <2>3
<1> HIDE DEF T
<1>10. ASSUME NEW j \in 1..n, p <= j, p \in 1..n, p <= n
       PROVE  ~Later(a.time, T(j))
  <2>1. Later(T(p), a.time) /\ ~Later(a.time, T(p)) /\ T(p) \in Timeval /\ T(j) \in Timeval
    BY <1>1, <1>4, <1>10, NotLater
  <2>2. CASE p = j
    BY <2>1, <2>2
  <2>3. CASE p # j
    <3>1. p < j
      BY <1>0, <1>10, <2>3
    <3>2. ~Later(T(p), T(j))
      BY <1>3, <1>10, <3>1
    <3> QED
      BY <1>1, <2>1, <3>2, NotLater
  <2> QED
    BY <2>2, <2>3
<1>11. ASSUME NEW i \in 1..n + 1, NEW j \in 1..n + 1, i < j
       PROVE  ~Later(alarms'[i].time, alarms'[j].time)
  <2> USE DEF T
  <2>1. CASE j < p
    <3>1. i < p
      BY <1>0, <1>11, <2>1
    <3> QED
      BY <1>3, <1>5, <1>11, <2>1, <3>1
  <2>2. CASE j = p
    BY <1>4, <1>5, <1>6, <1>11, <2>2
  <2>3. CASE j > p /\ i < p
    <3>1. i < j - 1
      BY <1>0, <1>11, <2>3
    <3> QED
      BY <1>3, <1>5, <1>7, <2>3, <3>1
  <2>4. CASE j > p /\ i = p
    BY <1>6, <1>7, <1>10, <2>4
  <2>5. CASE j > p /\ i > p
    <3>1. i - 1 < j - 1
      BY <1>0, <1>11
    <3> QED
      BY <1>3, <1>7, <2>5, <3>1
  <2> QED
    BY <1>8, <2>1, <2>2, <2>3, <2>4, <2>5
<1> QED
  BY <1>9, <1>11 DEF Sorted

\* What alarm_cancel() leaves is in the order it was.
LEMMA CancelSorted ==
  ASSUME alarms \in Seq(AlarmNode), Sorted, NEW f, alarm_cancel(f)
  PROVE  alarms' \in Seq(AlarmNode) /\ Sorted'
<1> DEFINE kept == {i \in 1..Len(alarms) : alarms[i].f # f}
<1>0. PICK n \in 0..Len(alarms) : \E from \in [1..n -> kept] :
        /\ \A i, j \in 1..n : i < j => from[i] < from[j]
        /\ alarms' = [i \in 1..n |-> alarms[from[i]]]
  BY Zenon DEF alarm_cancel
<1>1. PICK from \in [1..n -> kept] :
        /\ \A i, j \in 1..n : i < j => from[i] < from[j]
        /\ alarms' = [i \in 1..n |-> alarms[from[i]]]
  BY <1>0, Zenon
<1>2. n \in Nat /\ \A i \in 1..n : from[i] \in 1..Len(alarms) /\ alarms[from[i]] \in AlarmNode
  BY <1>1
<1>3. alarms' \in Seq(AlarmNode) /\ Len(alarms') = n
  BY <1>1, <1>2
<1> QED
  BY <1>1, <1>2, <1>3 DEF Sorted

\* So is what is left when its head is gone.
LEMMA TailSorted ==
  ASSUME alarms \in Seq(AlarmNode), Sorted, alarms # <<>>, alarms' = Tail(alarms)
  PROVE  alarms' \in Seq(AlarmNode) /\ Sorted'
<1>1. /\ alarms' \in Seq(AlarmNode) /\ Len(alarms) \in Nat /\ Len(alarms') = Len(alarms) - 1
      /\ \A i \in 1..Len(alarms') : i + 1 \in 1..Len(alarms) /\ alarms'[i] = alarms[i + 1]
  OBVIOUS
<1>2. ASSUME NEW i \in 1..Len(alarms'), NEW j \in 1..Len(alarms'), i < j
      PROVE  ~Later(alarms'[i].time, alarms'[j].time)
  BY <1>1, <1>2 DEF Sorted
<1> QED
  BY <1>1, <1>2 DEF Sorted

-----------------------------------------------------------------------------
(* The loop *)

Inv == TypeOK /\ Sorted /\ NoOversleep

\* The list starts empty.
LEMMA InvInit == Init => Inv
<1> SUFFICES ASSUME Init PROVE Inv
  OBVIOUS
<1>1. timeval(0) \in Timeval
  BY TimevalTyped
<1>2. alarms = <<>> /\ alarms \in Seq([f : Functions, time : Timeval])
  BY DEF Init
<1>3. TypeOK
  BY <1>1, <1>2, AlarmAssumption DEF Init, TypeOK
<1>4. Sorted
  BY <1>2 DEF Sorted
<1>5. NoOversleep
  BY DEF Init, NoOversleep
<1> QED
  BY <1>3, <1>4, <1>5 DEF Inv

\* A handler or an alarm function changes the list while poll() does not sleep.
LEMMA CallKeeps ==
  ASSUME Inv, Call
  PROVE  Inv'
<1>0. /\ clock \in Nat /\ alarms \in Seq(AlarmNode) /\ Sorted
      /\ pc \in {"handle", "run"} /\ pc' = pc
  BY DEF Inv, TypeOK, Call, AlarmNode
<1>1. alarms' \in Seq(AlarmNode) /\ Sorted'
  <2>1. ASSUME NEW f \in Functions, NEW ms \in Delays, alarm_set_relative(f, ms)
        PROVE  alarms' \in Seq(AlarmNode) /\ Sorted'
    <3> DEFINE a == [f |-> f, time |-> Relative(ms)]
    <3>1. a \in AlarmNode
      BY <1>0, RelativeTyped DEF AlarmNode
    <3>2. \E p \in 1..Len(alarms) + 1 :
            /\ p <= Len(alarms) => Later(alarms[p].time, a.time)
            /\ \A j \in 1..p - 1 : ~Later(alarms[j].time, a.time)
            /\ alarms' = Linked(alarms, p, a)
      BY <2>1, Zenon DEF alarm_set_relative
    <3> HIDE DEF a
    <3> QED
      BY <1>0, <3>1, <3>2, LinkedSorted
  <2>2. ASSUME NEW f \in Functions, alarm_cancel(f)
        PROVE  alarms' \in Seq(AlarmNode) /\ Sorted'
    BY <1>0, <2>2, CancelSorted
  <2> QED
    BY <2>1, <2>2 DEF Call
<1>2. TypeOK'
  BY <1>1, AlarmAssumption DEF Inv, TypeOK, Call, AlarmNode
<1>3. NoOversleep'
  BY <1>0 DEF NoOversleep
<1> QED
  BY <1>1, <1>2, <1>3 DEF Inv

\* poll() is given the delay until the head of the list is due.
LEMMA LoopKeeps ==
  ASSUME Inv, Loop
  PROVE  Inv'
<1> DEFINE delay == alarm_get_time_until_next(Head(alarms))
<1>0. /\ TypeOK /\ Sorted /\ clock \in Nat /\ alarms \in Seq(AlarmNode)
      /\ UNCHANGED <<clock, alarms, now, calls>>
  BY DEF Inv, TypeOK, Loop, AlarmNode
<1>1. Sorted'
  BY <1>0 DEF Sorted
<1>2. CASE alarms = <<>>
  <2>1. pc' = "poll" /\ wake' = Forever
    BY <1>2 DEF Loop
  <2>2. Forever \in Nat
    BY AlarmAssumption DEF Forever
  <2>3. TypeOK'
    BY <1>0, <2>1, <2>2 DEF TypeOK
  <2>4. NoOversleep'
    BY <1>0, <1>2 DEF NoOversleep
  <2> QED
    BY <1>1, <2>3, <2>4 DEF Inv
<1>3. CASE alarms # <<>> /\ delay < 1
  <2>1. pc' = "gettimeofday" /\ wake' = wake
    BY <1>3 DEF Loop
  <2> HIDE DEF delay
  <2>2. TypeOK' /\ NoOversleep'
    BY <1>0, <2>1 DEF TypeOK, NoOversleep
  <2> QED
    BY <1>1, <2>2 DEF Inv
<1>4. CASE alarms # <<>> /\ ~(delay < 1)
  <2>1. pc' = "poll" /\ wake' = clock + delay * UsPerMs
    BY <1>4 DEF Loop
  <2>2. Head(alarms) \in AlarmNode
    BY <1>0, <1>4
  <2>3. delay \in Int /\ clock + delay * UsPerMs < Microseconds(Head(alarms).time) + UsPerMs
    BY <1>0, <2>2, DelayBound
  <2> HIDE DEF delay
  <2>4. delay * UsPerMs \in Nat
    <3>1. delay \in Nat
      BY <1>4, <2>3
    <3> QED
      BY <3>1, AlarmAssumption
  <2>5. TypeOK'
    BY <1>0, <2>1, <2>4 DEF TypeOK
  <2>6. NoOversleep'
    BY <1>0, <2>1, <2>3 DEF NoOversleep, Microseconds
  <2> QED
    BY <1>1, <2>5, <2>6 DEF Inv
<1> QED
  BY <1>2, <1>3, <1>4

\* alarm_process() takes the head off the list.
LEMMA ProcessKeeps ==
  ASSUME Inv, alarm_process
  PROVE  Inv'
<1>0. /\ TypeOK /\ Sorted /\ alarms \in Seq(AlarmNode) /\ timeval(0) \in Timeval
      /\ UNCHANGED <<clock, wake, calls>>
  BY TimevalTyped DEF Inv, TypeOK, alarm_process, AlarmNode
<1>1. CASE pc' = "loop" /\ now' = timeval(0) /\ UNCHANGED alarms
  <2>1. TypeOK'
    BY <1>0, <1>1 DEF TypeOK
  <2>2. Sorted' /\ NoOversleep'
    BY <1>0, <1>1 DEF Sorted, NoOversleep
  <2> QED
    BY <2>1, <2>2 DEF Inv
<1>2. CASE pc' = "run" /\ alarms # <<>> /\ alarms' = Tail(alarms) /\ UNCHANGED now
  <2>1. alarms' \in Seq(AlarmNode) /\ Sorted'
    BY <1>0, <1>2, TailSorted
  <2>2. TypeOK'
    BY <1>0, <1>2, <2>1 DEF TypeOK, AlarmNode
  <2>3. NoOversleep'
    BY <1>2 DEF NoOversleep
  <2> QED
    BY <2>1, <2>2, <2>3 DEF Inv
<1> QED
  BY <1>1, <1>2 DEF alarm_process

\* The invariant is inductive.
LEMMA InvNext == Inv /\ [Next]_vars => Inv'
<1> SUFFICES ASSUME Inv, [Next]_vars PROVE Inv'
  OBVIOUS
<1> USE DEF Inv
<1>1. CASE Return
  BY <1>1, AlarmAssumption DEF Return, TypeOK, Sorted, NoOversleep
<1>2. CASE ProcessStart
  <2>1. now' \in Timeval
    BY <1>2, TimevalTyped DEF ProcessStart, TypeOK
  <2> QED
    BY <1>2, <2>1 DEF ProcessStart, TypeOK, Sorted, NoOversleep
<1>3. CASE Timeout \/ Event
  BY <1>3 DEF Timeout, Event, TypeOK, Sorted, NoOversleep
<1>4. CASE Tick
  BY <1>4 DEF Tick, TypeOK, Sorted, NoOversleep
<1>5. CASE UNCHANGED vars
  BY <1>5 DEF vars, TypeOK, Sorted, NoOversleep
<1> QED
  BY <1>1, <1>2, <1>3, <1>4, <1>5, CallKeeps, LoopKeeps, ProcessKeeps DEF Next, Program

\* The loop of main() keeps the inductive invariant.
LEMMA InvAlways == Spec => []Inv
BY InvInit, InvNext, PTL DEF Spec

-----------------------------------------------------------------------------
(* The results *)

\* Every time in the list is normalised: alarm_set_relative()'s carry leaves
\* less than a second of microseconds.
THEOREM AlarmsTyped == Spec => []TypeOK
<1>1. Inv => TypeOK
  BY DEF Inv
<1> QED
  BY <1>1, InvAlways, PTL

\* The list alarm_set_relative(), alarm_cancel() and alarm_process() keep is
\* sorted by due time.
THEOREM AlarmsSorted == Spec => []Sorted
<1>1. Inv => Sorted
  BY DEF Inv
<1> QED
  BY <1>1, InvAlways, PTL

\* The delay of alarm_get_time_until_next() never makes poll() sleep a whole
\* millisecond past the next alarm.
THEOREM AlarmsNoOversleep == Spec => []NoOversleep
<1>1. Inv => NoOversleep
  BY DEF Inv
<1> QED
  BY <1>1, InvAlways, PTL
-----------------------------------------------------------------------------
(* The queue: times *)

\* A product with the length of a second is monotone.
LEMMA SecondsApart ==
  ASSUME NEW m \in Nat, NEW n \in Nat, m < n
  PROVE  m * UsPerSec \in Nat /\ n * UsPerSec \in Nat /\ m * UsPerSec + UsPerSec <= n * UsPerSec
<1>1. PICK k \in Nat : n = m + 1 + k
  <2>1. n - m - 1 \in Nat /\ n = m + 1 + (n - m - 1)
    OBVIOUS
  <2> QED
    BY <2>1
<1>2. (m + 1 + k) * UsPerSec = m * UsPerSec + UsPerSec + k * UsPerSec
  BY SecondTyped
<1>3. m * UsPerSec \in Nat /\ n * UsPerSec \in Nat /\ k * UsPerSec \in Nat
  BY SecondTyped
<1> QED
  BY <1>1, <1>2, <1>3, SecondTyped

\* A normalised time that is not later is not more microseconds.
LEMMA NotLaterMicroseconds ==
  ASSUME NEW a \in Timeval, NEW b \in Timeval, ~Later(a, b)
  PROVE  Microseconds(a) \in Nat /\ Microseconds(b) \in Nat /\ Microseconds(a) <= Microseconds(b)
<1>1. /\ a.sec \in Nat /\ b.sec \in Nat /\ a.usec \in 0..UsPerSec - 1 /\ b.usec \in 0..UsPerSec - 1
      /\ UsPerSec \in Nat
  BY SecondTyped DEF Timeval
<1>2. a.sec * UsPerSec \in Nat /\ b.sec * UsPerSec \in Nat
  BY <1>1
<1>3. Microseconds(a) = a.sec * UsPerSec + a.usec /\ Microseconds(b) = b.sec * UsPerSec + b.usec
  BY DEF Microseconds
<1>4. CASE a.sec < b.sec
  <2>1. a.sec * UsPerSec + UsPerSec <= b.sec * UsPerSec
    BY <1>1, <1>4, SecondsApart
  <2> QED
    BY <1>1, <1>2, <1>3, <2>1
<1>5. CASE a.sec = b.sec /\ a.usec <= b.usec
  BY <1>1, <1>2, <1>3, <1>5
<1> QED
  BY <1>1, <1>4, <1>5 DEF Later

\* The carry of alarm_set_relative() loses nothing: the alarm is due ms
\* milliseconds from now.
LEMMA RelativeDue ==
  ASSUME clock \in Nat, NEW ms \in Delays
  PROVE  Microseconds(Relative(ms)) = clock + ms * UsPerMs
<1> DEFINE t == timeval(clock)
           y == ms * UsPerMs
           x == t.usec + y
<1>1. t \in Timeval /\ Microseconds(t) = clock
  BY TimevalTyped
<1>2. t.sec \in Nat /\ t.usec \in Nat /\ UsPerSec \in Nat \ {0}
  BY <1>1, SecondTyped DEF Timeval
<1>3. y \in Nat
  BY AlarmAssumption
<1>4. clock = t.sec * UsPerSec + t.usec
  BY <1>1 DEF Microseconds
<1>5. Relative(ms) = IF x >= UsPerSec
                     THEN [sec |-> t.sec + x \div UsPerSec, usec |-> x % UsPerSec]
                     ELSE [sec |-> t.sec, usec |-> x]
  BY DEF Relative
<1>6. x \in Nat /\ x = t.usec + y
  BY <1>2, <1>3
<1>7. t.sec * UsPerSec \in Nat
  BY <1>2
<1> SUFFICES Microseconds(Relative(ms)) = clock + y
  OBVIOUS
<1> HIDE DEF t, x, y
<1>8. CASE x >= UsPerSec
  <2> DEFINE q == x \div UsPerSec
             r == x % UsPerSec
  <2>1. q \in Nat /\ r \in 0..UsPerSec - 1 /\ x = UsPerSec * q + r
    BY <1>2, <1>6, Division, Zenon
  <2>2. Relative(ms) = [sec |-> t.sec + q, usec |-> r]
    BY <1>5, <1>8
  <2> HIDE DEF q, r
  <2>3. Microseconds(Relative(ms)) = (t.sec + q) * UsPerSec + r
    BY <2>2 DEF Microseconds
  <2>4. (t.sec + q) * UsPerSec = t.sec * UsPerSec + UsPerSec * q /\ UsPerSec * q \in Nat
    BY <1>2, <2>1
  <2> DEFINE A == t.sec * UsPerSec
             B == UsPerSec * q
  <2>5. /\ A \in Nat /\ B \in Nat /\ clock = A + t.usec /\ x = B + r
        /\ Microseconds(Relative(ms)) = (A + B) + r
    BY <1>4, <1>7, <2>1, <2>3, <2>4
  <2>6. r \in Nat
    BY <1>2, <2>1
  <2> HIDE DEF A, B
  <2> QED
    BY <1>2, <1>3, <1>6, <2>5, <2>6
<1>9. CASE ~(x >= UsPerSec)
  <2>1. Microseconds(Relative(ms)) = t.sec * UsPerSec + x
    BY <1>5, <1>9 DEF Microseconds
  <2> QED
    BY <1>2, <1>3, <1>4, <1>6, <1>7, <2>1
<1> QED
  BY <1>8, <1>9

\* The times alarms are set for come after the clock and are those the queue
\* knows.
LEMMA DueTyped ==
  ASSUME clock \in Nat, clock <= MaxTime, NEW ms \in Delays
  PROVE  clock + ms * UsPerMs > clock /\ clock + ms * UsPerMs \in DueTimes
<1>1. MaxDelay \in Delays /\ ms <= MaxDelay
  BY AlarmAssumption, Zenon DEF MaxDelay
<1>2. ms \in Nat \ {0} /\ MaxDelay \in Nat /\ UsPerMs \in Nat \ {0} /\ MaxTime \in Nat
  BY <1>1, AlarmAssumption
<1>3. ms * UsPerMs \in Nat \ {0} /\ MaxDelay * UsPerMs \in Nat
  BY <1>2
<1>4. ms * UsPerMs <= MaxDelay * UsPerMs
  <2>1. PICK k \in Nat : MaxDelay = ms + k
    <3>1. MaxDelay - ms \in Nat /\ MaxDelay = ms + (MaxDelay - ms)
      BY <1>1, <1>2
    <3> QED
      BY <3>1
  <2>2. (ms + k) * UsPerMs = ms * UsPerMs + k * UsPerMs /\ k * UsPerMs \in Nat
    BY <1>2
  <2> QED
    BY <1>3, <2>1, <2>2
<1> QED
  BY <1>2, <1>3, <1>4 DEF DueTimes

-----------------------------------------------------------------------------
(* The queue: what a list stands for *)

\* Where in the list an alarm of the queue is.
Places(s, q) == {i \in 1..Len(s) : InQueue(s[i]) = q}

\* How often it is there.
Count(s, q) == Cardinality(Places(s, q))

\* The list has no alarms but those the queue knows.
Known(s) == \A q : Count(s, q) > 0 => q \in [f : Functions, at : DueTimes]

\* An alarm is counted when it is somewhere in the list.
LEMMA CountIs ==
  ASSUME NEW s \in Seq(AlarmNode), NEW q
  PROVE  /\ IsFiniteSet(Places(s, q)) /\ Count(s, q) \in Nat
         /\ Count(s, q) > 0 <=> \E i \in 1..Len(s) : InQueue(s[i]) = q
<1>1. Len(s) \in Nat /\ 1 \in Int
  OBVIOUS
<1>2. IsFiniteSet(1..Len(s))
  BY <1>1, FS_Interval
<1>3. Places(s, q) \in SUBSET (1..Len(s))
  BY DEF Places
<1>4. IsFiniteSet(Places(s, q))
  BY <1>2, <1>3, FS_Subset
<1>5. Count(s, q) \in Nat /\ (Count(s, q) = 0 <=> Places(s, q) = {})
  BY <1>4, FS_CardinalityType, FS_EmptySet DEF Count
<1>6. Count(s, q) > 0 <=> Places(s, q) # {}
  BY <1>5
<1>7. Places(s, q) # {} <=> \E i \in 1..Len(s) : InQueue(s[i]) = q
  BY DEF Places
<1> QED
  BY <1>4, <1>5, <1>6, <1>7

\* A one-to-one correspondence keeps the count.
LEMMA SameCount ==
  ASSUME NEW S, NEW T, IsFiniteSet(S), NEW g \in [S -> T],
         \A i, j \in S : g[i] = g[j] => i = j,
         \A k \in T : \E i \in S : g[i] = k
  PROVE  IsFiniteSet(T) /\ Cardinality(T) = Cardinality(S)
<1>1. ExistsBijection(S, T)
  BY DEF ExistsBijection, Bijection, Injection, Surjection, IsInjective
<1> QED
  BY <1>1, FS_Bijection

\* Linking a node adds one copy of its alarm.
LEMMA LinkedCount ==
  ASSUME NEW s \in Seq(AlarmNode), NEW a, NEW p \in 1..Len(s) + 1, NEW r, r = Linked(s, p, a),
         Len(r) = Len(s) + 1, NEW q
  PROVE  Count(r, q) = Count(s, q) + (IF q = InQueue(a) THEN 1 ELSE 0)
<1> DEFINE n == Len(s)
           S == Places(s, q)
           g == [i \in S |-> IF i < p THEN i ELSE i + 1]
           T == {g[i] : i \in S}
<1>0. n \in Nat /\ p \in 1..n + 1
  OBVIOUS
<1>1. S \subseteq 1..n /\ \A i \in 1..n : i \in S <=> InQueue(s[i]) = q
  BY DEF Places
<1>2. IsFiniteSet(S) /\ Cardinality(S) = Count(s, q) /\ Count(s, q) \in Nat
  BY CountIs DEF Count
<1>3. /\ \A i \in 1..n + 1 : i < p => r[i] = s[i]
      /\ r[p] = a
      /\ \A i \in 1..n + 1 : i > p => r[i] = s[i - 1]
  BY <1>0 DEF Linked
<1>4. \A i \in 1..n + 1 : i \in Places(r, q) <=> InQueue(r[i]) = q
  BY DEF Places
<1>5. Places(r, q) \subseteq 1..n + 1
  BY DEF Places
<1> HIDE DEF n, S
<1>6. g \in [S -> T] /\ \A k \in T : \E i \in S : g[i] = k
  OBVIOUS
<1>7. \A i \in S : i \in Int /\ g[i] = (IF i < p THEN i ELSE i + 1)
  BY <1>1
<1>8. \A i, j \in S : g[i] = g[j] => i = j
  BY <1>0, <1>7
<1>9. IsFiniteSet(T) /\ Cardinality(T) = Count(s, q)
  <2> HIDE DEF g, T
  <2>1. IsFiniteSet(T) /\ Cardinality(T) = Cardinality(S)
    BY <1>2, <1>6, <1>8, SameCount, Zenon
  <2> QED
    BY <1>2, <2>1
<1>10. \A k \in T : k \in 1..n + 1 /\ k # p
  BY <1>0, <1>1, <1>7
<1>11. ASSUME NEW k \in 1..n + 1, k # p
       PROVE  k \in T <=> k \in Places(r, q)
  <2>1. CASE k < p
    <3>1. k \in 1..n /\ r[k] = s[k]
      BY <1>0, <1>3, <2>1
    <3>2. k \in Places(r, q) <=> k \in S
      BY <1>1, <1>4, <3>1
    <3>3. k \in S => k \in T
      <4>1. k \in S => g[k] = k
        BY <2>1
      <4> QED
        BY <4>1
    <3>4. k \in T => k \in S
      <4>1. ASSUME NEW i \in S, g[i] = k
            PROVE  i = k
        BY <1>0, <1>7, <2>1, <4>1
      <4> QED
        BY <1>6, <4>1
    <3> QED
      BY <3>2, <3>3, <3>4
  <2>2. CASE k > p
    <3>1. k - 1 \in 1..n /\ r[k] = s[k - 1] /\ ~(k - 1 < p) /\ (k - 1) + 1 = k
      BY <1>0, <1>3, <2>2
    <3>2. k \in Places(r, q) <=> k - 1 \in S
      BY <1>1, <1>4, <3>1
    <3>3. k - 1 \in S => k \in T
      <4>1. k - 1 \in S => g[k - 1] = k
        BY <3>1
      <4> QED
        BY <4>1
    <3>4. k \in T => k - 1 \in S
      <4>1. ASSUME NEW i \in S, g[i] = k
            PROVE  i = k - 1
        BY <1>0, <1>7, <2>2, <4>1
      <4> QED
        BY <1>6, <4>1
    <3> QED
      BY <3>2, <3>3, <3>4
  <2> QED
    BY <1>0, <1>11, <2>1, <2>2
<1>12. p \in Places(r, q) <=> q = InQueue(a)
  BY <1>0, <1>3, <1>4
<1> HIDE DEF g, T
<1>13. CASE q = InQueue(a)
  <2>1. Places(r, q) = T \cup {p}
    BY <1>0, <1>5, <1>10, <1>11, <1>12, <1>13
  <2>2. p \notin T
    BY <1>10
  <2>3. Cardinality(T \cup {p}) = Cardinality(T) + 1
    BY <1>9, <2>2, FS_AddElement, Zenon
  <2> QED
    BY <1>9, <1>13, <2>1, <2>3 DEF Count
<1>14. CASE q # InQueue(a)
  <2>1. Places(r, q) = T
    BY <1>0, <1>5, <1>10, <1>11, <1>12, <1>14, Zenon
  <2> QED
    BY <1>2, <1>9, <1>14, <2>1 DEF Count
<1> QED
  BY <1>13, <1>14

\* Taking the head off removes one copy of its alarm.
LEMMA TailCount ==
  ASSUME NEW s \in Seq(AlarmNode), s # <<>>, NEW q
  PROVE  Count(Tail(s), q) = Count(s, q) - (IF q = InQueue(Head(s)) THEN 1 ELSE 0)
<1> DEFINE n == Len(s)
           r == Tail(s)
           S == Places(s, q)
           T == Places(r, q)
           g == [i \in T |-> i + 1]
<1>0. /\ n \in Nat \ {0} /\ Len(r) = n - 1 /\ s[1] = Head(s) /\ r \in Seq(AlarmNode)
      /\ \A i \in 1..n - 1 : r[i] = s[i + 1]
  OBVIOUS
<1>1. S \subseteq 1..n /\ \A i \in 1..n : i \in S <=> InQueue(s[i]) = q
  BY DEF Places
<1>2. T \subseteq 1..n - 1 /\ \A i \in 1..n - 1 : i \in T <=> InQueue(r[i]) = q
  BY <1>0 DEF Places
<1>3. IsFiniteSet(S) /\ Cardinality(S) = Count(s, q) /\ Count(s, q) \in Nat
  BY CountIs DEF Count
<1>4. IsFiniteSet(T) /\ Cardinality(T) = Count(r, q) /\ Count(r, q) \in Nat
  BY <1>0, CountIs, Zenon DEF Count
<1> HIDE DEF n, r, S, T
<1>5. \A i \in T : i \in Int /\ i + 1 \in S \ {1} /\ g[i] = i + 1
  <2>1. ASSUME NEW i \in T
        PROVE  i + 1 \in S /\ i \in Int /\ i + 1 # 1
    <3>1. i \in 1..n - 1 /\ i + 1 \in 1..n /\ i + 1 # 1
      BY <1>0, <1>2
    <3> QED
      BY <1>0, <1>1, <1>2, <3>1
  <2> QED
    BY <2>1
<1>6. \A k \in S \ {1} : k - 1 \in T /\ g[k - 1] = k
  <2>1. ASSUME NEW k \in S \ {1}
        PROVE  k - 1 \in T /\ (k - 1) + 1 = k
    <3>1. k \in 1..n /\ k - 1 \in 1..n - 1 /\ (k - 1) + 1 = k
      BY <1>0, <1>1
    <3>2. r[k - 1] = s[k]
      BY <1>0, <3>1
    <3> QED
      BY <1>1, <1>2, <3>1, <3>2
  <2> QED
    BY <2>1
<1>7. g \in [T -> S \ {1}] /\ \A k \in S \ {1} : \E i \in T : g[i] = k
  BY <1>5, <1>6, Zenon
<1> HIDE DEF g
<1>8. \A i, j \in T : g[i] = g[j] => i = j
  <2>1. ASSUME NEW i \in T, NEW j \in T, g[i] = g[j]
        PROVE  i = j
    <3>1. i \in Int /\ j \in Int /\ i + 1 = j + 1
      BY <1>5, <2>1
    <3> QED
      BY <3>1
  <2> QED
    BY <2>1
<1>9. Cardinality(S \ {1}) = Count(r, q)
  <2>1. Cardinality(S \ {1}) = Cardinality(T)
    <3> DEFINE R == S \ {1}
    <3>1. g \in [T -> R] /\ \A k \in R : \E i \in T : g[i] = k
      BY <1>7
    <3> HIDE DEF R
    <3>2. Cardinality(R) = Cardinality(T)
      BY <1>4, <1>8, <3>1, SameCount, Zenon
    <3> QED
      BY <3>2 DEF R
  <2> QED
    BY <1>4, <2>1
<1>10. Cardinality(S \ {1}) = IF 1 \in S THEN Cardinality(S) - 1 ELSE Cardinality(S)
  BY <1>3, FS_RemoveElement, Zenon
<1>11. 1 \in S <=> q = InQueue(Head(s))
  BY <1>0, <1>1
<1> QED
  BY <1>3, <1>9, <1>10, <1>11 DEF r

\* Cancelling f removes every copy of its alarms and no other.
LEMMA CancelCount ==
  ASSUME alarms \in Seq(AlarmNode), NEW f, alarm_cancel(f), alarms' \in Seq(AlarmNode), NEW q
  PROVE  Count(alarms', q) = IF q.f = f THEN 0 ELSE Count(alarms, q)
<1> DEFINE kept == {i \in 1..Len(alarms) : alarms[i].f # f}
           S == Places(alarms', q)
           T == Places(alarms, q)
<1>0. PICK n \in 0..Len(alarms) : \E from \in [1..n -> kept] :
        /\ \A i, j \in 1..n : i < j => from[i] < from[j]
        /\ kept \subseteq {from[i] : i \in 1..n}
        /\ alarms' = [i \in 1..n |-> alarms[from[i]]]
  BY Zenon DEF alarm_cancel
<1>1. PICK from \in [1..n -> kept] :
        /\ \A i, j \in 1..n : i < j => from[i] < from[j]
        /\ kept \subseteq {from[i] : i \in 1..n}
        /\ alarms' = [i \in 1..n |-> alarms[from[i]]]
  BY <1>0, Zenon
<1>2. n \in Nat /\ Len(alarms') = n
  BY <1>1
<1>3. \A i \in 1..Len(alarms) : InQueue(alarms[i]).f = alarms[i].f
  BY DEF InQueue
<1>4. \A i \in 1..n : from[i] \in kept /\ alarms'[i] = alarms[from[i]]
  BY <1>1
<1>5. S \subseteq 1..n /\ \A i \in 1..n : i \in S <=> InQueue(alarms'[i]) = q
  BY <1>2 DEF Places
<1>6. T \subseteq 1..Len(alarms) /\ \A i \in 1..Len(alarms) : i \in T <=> InQueue(alarms[i]) = q
  BY DEF Places
<1>7. IsFiniteSet(S) /\ Cardinality(S) = Count(alarms', q)
  BY CountIs DEF Count
<1>8. IsFiniteSet(T) /\ Cardinality(T) = Count(alarms, q)
  BY CountIs DEF Count
<1> HIDE DEF S, T
<1>9. CASE q.f = f
  <2>1. S = {}
    BY <1>3, <1>4, <1>5, <1>9
  <2> QED
    BY <1>7, <1>9, <2>1, FS_EmptySet
<1>10. CASE q.f # f
  <2> DEFINE g == [i \in S |-> from[i]]
  <2>1. \A i \in S : i \in 1..n /\ from[i] \in T
    BY <1>4, <1>5, <1>6
  <2>2. g \in [S -> T]
    BY <2>1
  <2>3. \A i, j \in S : g[i] = g[j] => i = j
    <3>1. ASSUME NEW i \in 1..n, NEW j \in 1..n, from[i] = from[j]
          PROVE  i = j
      <4>1. from[i] \in Int /\ i \in Int /\ j \in Int
        BY <1>2, <1>4
      <4>2. ~(from[i] < from[i])
        BY <4>1
      <4>3. ~(i < j) /\ ~(j < i)
        BY <1>1, <3>1, <4>2
      <4> QED
        BY <4>1, <4>3
    <3> QED
      BY <2>1, <3>1
  <2>4. \A k \in T : \E i \in S : g[i] = k
    <3>1. ASSUME NEW k \in T
          PROVE  \E i \in S : from[i] = k
      <4>1. k \in kept
        BY <1>3, <1>6, <1>10
      <4>2. PICK i \in 1..n : from[i] = k
        BY <1>1, <4>1
      <4>3. i \in S
        BY <1>4, <1>5, <1>6, <4>2
      <4> QED
        BY <4>2, <4>3
    <3> QED
      BY <3>1
  <2> HIDE DEF g
  <2>5. Cardinality(T) = Cardinality(S)
    BY <1>7, <2>2, <2>3, <2>4, SameCount, Zenon
  <2> QED
    BY <1>7, <1>8, <1>10, <2>5
<1> QED
  BY <1>9, <1>10

-----------------------------------------------------------------------------
(* The queue: the steps *)

\* The clock stays within its bound, and alarm_process() has read it earlier.
Clocked == clock <= MaxTime /\ Microseconds(now) <= clock

\* Both start at zero or later.
LEMMA ClockedInit == Init => Clocked
BY TimevalTyped, AlarmAssumption DEF Init, Clocked

\* The clock only moves on.
LEMMA ClockedNext == Inv /\ Clocked /\ [Next]_vars => Clocked'
<1> SUFFICES ASSUME Inv, Clocked, [Next]_vars PROVE Clocked'
  OBVIOUS
<1>0. clock \in Nat /\ MaxTime \in Nat /\ clock <= MaxTime /\ Microseconds(now) <= clock
  BY AlarmAssumption DEF Inv, TypeOK, Clocked
<1>1. Microseconds(now) \in Nat
  <2>1. now \in Timeval /\ ~Later(now, now)
    BY SecondTyped DEF Inv, TypeOK, Timeval, Later
  <2> QED
    BY <2>1, NotLaterMicroseconds
<1>2. ASSUME UNCHANGED <<clock, now>>
      PROVE  Clocked'
  BY <1>0, <1>2 DEF Clocked, Microseconds
<1>3. CASE Call \/ Return \/ Loop \/ Timeout \/ Event
  BY <1>2, <1>3 DEF Call, Return, Loop, Timeout, Event
<1>4. CASE ProcessStart
  <2>1. clock' = clock /\ now' = timeval(clock)
    BY <1>4 DEF ProcessStart
  <2>2. Microseconds(now') = clock
    BY <1>0, <2>1, TimevalTyped
  <2> QED
    BY <1>0, <2>1, <2>2 DEF Clocked, Microseconds
<1>5. CASE alarm_process
  <2>1. clock' = clock /\ (now' = now \/ now' = timeval(0))
    BY <1>5 DEF alarm_process
  <2>2. CASE now' = now
    BY <1>2, <2>1, <2>2
  <2>3. CASE now' = timeval(0)
    <3>1. Microseconds(now') = 0
      BY <2>3, TimevalTyped
    <3> QED
      BY <1>0, <2>1, <3>1 DEF Clocked, Microseconds
  <2> QED
    BY <2>1, <2>2, <2>3
<1>6. CASE Tick
  <2>1. clock' = clock + 1 /\ clock < MaxTime /\ now' = now
    BY <1>6 DEF Tick
  <2>2. Microseconds(now)' = Microseconds(now)
    BY <2>1 DEF Microseconds
  <2> QED
    BY <1>0, <1>1, <2>1, <2>2 DEF Clocked
<1>7. CASE UNCHANGED vars
  BY <1>2, <1>7 DEF vars
<1> QED
  BY <1>3, <1>4, <1>5, <1>6, <1>7 DEF Next, Program

\* The abstract queue after a step, in the words of the lemmas above.
LEMMA PendingIs ==
  /\ Pending = [q \in [f : Functions, at : DueTimes] |-> Count(alarms, q)]
  /\ Pending' = [q \in [f : Functions, at : DueTimes] |-> Count(alarms', q)]
BY DEF Pending, Count, Places, InQueue, Microseconds

\* alarm_set_relative() is the queue's Set.
LEMMA SetStep ==
  ASSUME Inv, Clocked, Known(alarms), NEW f \in Functions, NEW ms \in Delays,
         alarm_set_relative(f, ms), clock' = clock
  PROVE  Queue!Next /\ Known(alarms')
<1> DEFINE a == [f |-> f, time |-> Relative(ms)]
           t == clock + ms * UsPerMs
           b == [f |-> f, at |-> t]
           Q == [f : Functions, at : DueTimes]
<1>0. clock \in Nat /\ clock <= MaxTime /\ alarms \in Seq(AlarmNode) /\ Sorted
  BY DEF Inv, TypeOK, Clocked, AlarmNode
<1>1. a \in AlarmNode /\ InQueue(a) = b
  BY <1>0, RelativeTyped, RelativeDue DEF AlarmNode, InQueue
<1>2. \E p \in 1..Len(alarms) + 1 :
        /\ p <= Len(alarms) => Later(alarms[p].time, a.time)
        /\ \A j \in 1..p - 1 : ~Later(alarms[j].time, a.time)
        /\ alarms' = Linked(alarms, p, a)
  BY Zenon DEF alarm_set_relative
<1>3. t > clock /\ t \in DueTimes
  BY <1>0, DueTyped
<1>4. b \in Q /\ b.at > clock
  BY <1>3
<1>5. /\ Pending = [q \in Q |-> Count(alarms, q)]
      /\ Pending' = [q \in Q |-> Count(alarms', q)]
  BY PendingIs
<1>6. \A q : Count(alarms, q) > 0 => q \in Q
  BY DEF Known
<1> HIDE DEF a, b
<1>7. PICK p \in 1..Len(alarms) + 1 :
        /\ p <= Len(alarms) => Later(alarms[p].time, a.time)
        /\ \A j \in 1..p - 1 : ~Later(alarms[j].time, a.time)
        /\ alarms' = Linked(alarms, p, a)
  BY <1>2
<1>8. alarms' \in Seq(AlarmNode)
  BY <1>0, <1>1, <1>7, LinkedSorted
<1>9. Len(alarms') = Len(alarms) + 1
  <2>1. DOMAIN alarms' = 1..Len(alarms) + 1 /\ Len(alarms) + 1 \in Nat
    BY <1>0, <1>7 DEF Linked
  <2> QED
    BY <1>8, <2>1
<1>10. \A q : Count(alarms', q) = Count(alarms, q) + (IF q = b THEN 1 ELSE 0)
  BY <1>0, <1>1, <1>7, <1>9, LinkedCount
<1>11. \A q : Count(alarms, q) \in Nat
  BY <1>0, CountIs
<1>12. Known(alarms')
  <2>1. ASSUME NEW q, Count(alarms', q) > 0
        PROVE  q \in Q
    BY <1>4, <1>6, <1>10, <1>11, <2>1
  <2> QED
    BY <2>1 DEF Known
<1>13. Pending'[b] = Pending[b] + 1 /\ Pending' = [Pending EXCEPT ![b] = Pending'[b]]
  <2> HIDE DEF Q
  <2>1. ASSUME NEW q \in Q
        PROVE  Count(alarms', q) = IF q = b THEN Pending[q] + 1 ELSE Pending[q]
    BY <1>5, <1>10, <1>11
  <2> QED
    BY <1>4, <1>5, <2>1
<1>14. Queue!Set(b)
  BY <1>4, <1>13 DEF Queue!Set, Queue!Only
<1>15. b \in Queue!Alarms
  BY <1>4 DEF Queue!Alarms
<1> QED
  BY <1>12, <1>14, <1>15 DEF Queue!Next

\* alarm_cancel() is the queue's Cancel.
LEMMA CancelStep ==
  ASSUME Inv, Known(alarms), NEW f \in Functions, alarm_cancel(f), clock' = clock
  PROVE  Queue!Next /\ Known(alarms')
<1> DEFINE Q == [f : Functions, at : DueTimes]
<1>0. alarms \in Seq(AlarmNode) /\ Sorted
  BY DEF Inv, TypeOK, AlarmNode
<1>1. alarms' \in Seq(AlarmNode)
  BY <1>0, CancelSorted
<1>2. \A q : Count(alarms', q) = IF q.f = f THEN 0 ELSE Count(alarms, q)
  BY <1>0, <1>1, CancelCount
<1>3. /\ Pending = [q \in Q |-> Count(alarms, q)]
      /\ Pending' = [q \in Q |-> Count(alarms', q)]
  BY PendingIs
<1>4. Known(alarms')
  <2>1. ASSUME NEW q, Count(alarms', q) > 0
        PROVE  Count(alarms, q) > 0
    BY <1>2, <2>1
  <2> QED
    BY <2>1 DEF Known
<1>5. Queue!Alarms = Q
  BY DEF Queue!Alarms
<1>6. Pending' = [q \in Q |-> IF q.f = f THEN 0 ELSE Pending[q]]
  <2> HIDE DEF Q
  <2>1. ASSUME NEW q \in Q
        PROVE  Count(alarms', q) = IF q.f = f THEN 0 ELSE Pending[q]
    BY <1>2, <1>3
  <2> QED
    BY <1>3, <2>1
<1>7. Queue!Cancel(f)
  BY <1>5, <1>6 DEF Queue!Cancel
<1> QED
  BY <1>4, <1>7 DEF Queue!Next

\* The turn of alarm_process() that takes the head off is the queue's Fire:
\* the head is due, and no alarm is due before it.
LEMMA FireStep ==
  ASSUME Inv, Clocked, Known(alarms), alarms # <<>>, ~Later(Head(alarms).time, now),
         alarms' = Tail(alarms), clock' = clock
  PROVE  Queue!Next /\ Known(alarms')
<1> DEFINE h == Head(alarms)
           a == InQueue(h)
           Q == [f : Functions, at : DueTimes]
<1>0. /\ clock \in Nat /\ alarms \in Seq(AlarmNode) /\ Sorted /\ now \in Timeval
      /\ Microseconds(now) <= clock
  BY DEF Inv, TypeOK, Clocked, AlarmNode
<1>1. h \in AlarmNode /\ h = alarms[1] /\ Len(alarms) \in Nat \ {0} /\ alarms' \in Seq(AlarmNode)
  BY <1>0
<1>2. a.at = Microseconds(h.time)
  BY DEF InQueue
<1>3. h.time \in Timeval /\ ~Later(h.time, h.time)
  BY <1>1, SecondTyped DEF AlarmNode, Timeval, Later
<1>4. a.at <= clock
  <2>1. Microseconds(h.time) \in Nat /\ Microseconds(now) \in Nat /\ Microseconds(h.time) <= Microseconds(now)
    BY <1>0, <1>3, NotLaterMicroseconds
  <2> QED
    BY <1>0, <1>2, <2>1
<1>5. ASSUME NEW b, Count(alarms, b) > 0
      PROVE  a.at <= b.at
  <2>1. PICK i \in 1..Len(alarms) : InQueue(alarms[i]) = b
    BY <1>0, <1>5, CountIs
  <2>2. alarms[i].time \in Timeval /\ b.at = Microseconds(alarms[i].time)
    <3>1. alarms[i] \in AlarmNode
      BY <1>0, <2>1
    <3> QED
      BY <2>1, <3>1 DEF AlarmNode, InQueue
  <2>3. ~Later(h.time, alarms[i].time)
    <3>1. CASE i = 1
      BY <1>1, <1>3, <3>1
    <3>2. CASE i # 1
      <4>1. 1 \in 1..Len(alarms) /\ 1 < i
        BY <1>1, <3>2
      <4> QED
        BY <1>0, <1>1, <4>1 DEF Sorted
    <3> QED
      BY <3>1, <3>2
  <2> QED
    BY <1>2, <1>3, <2>2, <2>3, NotLaterMicroseconds
<1>6. Count(alarms, a) > 0
  <2>1. 1 \in 1..Len(alarms)
    BY <1>1
  <2> QED
    BY <1>0, <1>1, <2>1, CountIs
<1>7. \A q : Count(alarms', q) = Count(alarms, q) - (IF q = a THEN 1 ELSE 0)
  BY <1>0, TailCount
<1>8. /\ Pending = [q \in Q |-> Count(alarms, q)]
      /\ Pending' = [q \in Q |-> Count(alarms', q)]
  BY PendingIs
<1>9. \A q : Count(alarms, q) > 0 => q \in Q
  BY DEF Known
<1>10. \A q : Count(alarms, q) \in Nat
  BY <1>0, CountIs
<1> HIDE DEF h, a
<1>11. Known(alarms')
  <2>1. ASSUME NEW q, Count(alarms', q) > 0
        PROVE  Count(alarms, q) > 0
    BY <1>7, <1>10, <2>1
  <2> QED
    BY <2>1 DEF Known
<1>12. a \in Q
  BY <1>6, <1>9
<1>13. Queue!Alarms = Q
  BY DEF Queue!Alarms
<1> HIDE DEF Q
<1>14. Pending'[a] = Pending[a] - 1 /\ Pending' = [Pending EXCEPT ![a] = Pending'[a]]
  <2>1. ASSUME NEW q \in Q
        PROVE  Count(alarms', q) = IF q = a THEN Pending[q] - 1 ELSE Pending[q]
    BY <1>7, <1>8, <1>10
  <2> QED
    BY <1>8, <1>12, <2>1
<1>15. Pending[a] > 0 /\ \A b \in Q : Pending[b] > 0 => a.at <= b.at
  BY <1>5, <1>6, <1>8, <1>12
<1>16. Queue!Fire(a)
  BY <1>4, <1>13, <1>14, <1>15 DEF Queue!Fire, Queue!Only
<1> QED
  BY <1>11, <1>12, <1>13, <1>16 DEF Queue!Next

\* Every step of the loop is a step of the queue or leaves it alone.
LEMMA QueueStep ==
  ASSUME Inv, Clocked, Known(alarms), [Next]_vars
  PROVE  [Queue!Next]_(Queue!queueVars) /\ Known(alarms')
<1>1. ASSUME UNCHANGED <<clock, alarms>>
      PROVE  UNCHANGED Queue!queueVars /\ Known(alarms')
  <2>1. Known(alarms')
    BY <1>1
  <2>2. Pending' = Pending
    BY <1>1, PendingIs
  <2> QED
    BY <1>1, <2>1, <2>2 DEF Queue!queueVars
<1>2. CASE Call
  <2>1. clock' = clock
    BY <1>2 DEF Call
  <2> QED
    BY <1>2, <2>1, SetStep, CancelStep DEF Call
<1>3. CASE alarm_process
  <2>1. clock' = clock
    BY <1>3 DEF alarm_process
  <2>2. CASE alarms' = alarms
    BY <1>1, <2>1, <2>2
  <2>3. CASE alarms # <<>> /\ ~Later(Head(alarms).time, now) /\ alarms' = Tail(alarms)
    BY <2>1, <2>3, FireStep
  <2> QED
    BY <1>3, <2>2, <2>3 DEF alarm_process
<1>4. CASE Return \/ Loop \/ ProcessStart \/ Timeout \/ Event \/ UNCHANGED vars
  BY <1>1, <1>4 DEF Return, Loop, ProcessStart, Timeout, Event, vars
<1>5. CASE Tick
  <2>1. clock' = clock + 1 /\ alarms' = alarms /\ clock \in Nat
    BY <1>5 DEF Tick, Inv, TypeOK
  <2>2. clock' > clock
    BY <2>1
  <2>3. Known(alarms')
    BY <2>1
  <2>4. Pending' = Pending
    BY <2>1, PendingIs
  <2>5. Queue!Tick
    BY <2>2, <2>4 DEF Queue!Tick
  <2> QED
    BY <2>3, <2>5 DEF Queue!Next
<1> QED
  BY <1>2, <1>3, <1>4, <1>5 DEF Next, Program

\* The empty list is the empty queue.
LEMMA QueueInit == Init => Queue!Init /\ Known(alarms)
<1> SUFFICES ASSUME Init PROVE Queue!Init /\ Known(alarms)
  OBVIOUS
<1>1. clock \in Nat /\ alarms = <<>>
  BY AlarmAssumption DEF Init
<1>2. \A q : Places(alarms, q) = {}
  BY <1>1 DEF Places
<1>3. \A q : Count(alarms, q) = 0
  BY <1>2, FS_EmptySet DEF Count
<1>4. Known(alarms)
  BY <1>3 DEF Known
<1>5. Pending = [q \in [f : Functions, at : DueTimes] |-> 0]
  BY <1>3, PendingIs
<1> QED
  BY <1>1, <1>4, <1>5 DEF Queue!Init, Queue!Alarms

\* The sorted list of alarm.c implements the queue of alarms: whatever alarm
\* functions and handlers set and cancel, and while alarm_process() walks the
\* list, no alarm runs early, before one due earlier, more often than it was
\* set, or after it was cancelled.
THEOREM AlarmsImplementQueue == Spec => ImplementsQueue
<1> DEFINE K == Known(alarms)
<1>1. Init => Queue!Init /\ K
  BY QueueInit
<1>2. Inv /\ Clocked /\ K /\ [Next]_vars => [Queue!Next]_(Queue!queueVars) /\ K'
  BY QueueStep
<1> HIDE DEF K
<1>3. Spec => []Clocked
  BY ClockedInit, ClockedNext, InvAlways, PTL DEF Spec
<1>4. Spec => []K
  BY <1>1, <1>2, <1>3, InvAlways, PTL DEF Spec
<1> QED
  BY <1>1, <1>2, <1>3, <1>4, InvAlways, PTL DEF Spec, ImplementsQueue, Queue!Spec
=============================================================================
