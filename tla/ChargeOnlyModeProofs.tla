------------------------ MODULE ChargeOnlyModeProofs ------------------------
(***************************************************************************)
(* Proofs about ChargeOnlyMode, for all delays, for every lateness of the  *)
(* loop, for any number of keys and any size of the uevent socket.         *)
(***************************************************************************)
EXTENDS ChargeOnlyMode, TLAPS

-----------------------------------------------------------------------------
(* The inductive invariant *)

\* No display alarm is pending.
Still(d) == d.alarms["alarm1"] = <<>> /\ d.alarms["alarm2"] = <<>> /\ d.alarms["animation"] = <<>>

\* One timer and one animation alarm are.
Animated(d) == Count(d, "alarm1") + Count(d, "alarm2") = 1 /\ Count(d, "animation") = 1

\* DisplayCycle of the globals d.
Cycle(d) ==
  d.power = "on" =>
    /\ d.blank => Still(d)
    /\ ~d.blank => Animated(d) \/ (d.refused /\ Still(d))

Cleared(d) == d.power # "on" => d.mode = "empty"

\* The longest time the animation is set for.
Period == Larger(StartTimeout, AnimationTimeout)

\* No animation alarm is later than the loop may be, or further away than the
\* longest period.
InPeriod(d) == \A i \in 1..Count(d, "animation") : d.alarms["animation"][i] \in -MaxLate..Period

\* A press of the power key in the input queue is followed by its release,
\* unless the key is still down.
KeysMatched ==
  \A i \in 1..Len(keys) :
    keys[i] = "POWER_KEY_DOWN" => held \/ \E j \in i + 1..Len(keys) : keys[j] = "POWER_KEY_UP"

\* What the lit screen has not noticed for and what is left of its animation
\* alarm make up at most one period.
Watched ==
  Running /\ Watching =>
    \A i \in 1..Count(com, "animation") : unseen + com.alarms["animation"][i] <= Period

Inv ==
  /\ TypeOK
  /\ Cycle(com) /\ Cleared(com) /\ InPeriod(com)
  /\ HoldMatchesKey /\ KeysMatched
  /\ Watched

-----------------------------------------------------------------------------
(* The alarm queue *)

\* The globals other than the alarms are the same.
Same(r, d) ==
  /\ r.blank = d.blank /\ r.brightness = d.brightness /\ r.shutdown = d.shutdown
  /\ r.powerup = d.powerup /\ r.counter = d.counter /\ r.launched = d.launched
  /\ r.refused = d.refused /\ r.mode = d.mode /\ r.power = d.power

\* So are the alarms of the functions other than f.
OthersKept(r, d, f) == \A g \in AlarmFunctions \ {f} : r.alarms[g] = d.alarms[g]

\* Globals that take a typed table of alarms stay typed.
LEMMA AlarmsTyped ==
  ASSUME NEW d \in ComType, NEW q \in [AlarmFunctions -> Seq(Int)],
         NEW r, r = [d EXCEPT !.alarms = q]
  PROVE  r \in ComType /\ r.alarms = q /\ Same(r, d)
BY DEF ComType, Same

\* Setting an alarm adds it at the end of its function's.
LEMMA SetRelative ==
  ASSUME NEW d \in ComType, NEW f \in AlarmFunctions, NEW ticks \in Int,
         NEW r, r = alarm_set_relative(d, f, ticks)
  PROVE  /\ r \in ComType /\ Same(r, d) /\ OthersKept(r, d, f)
         /\ r.alarms[f] = Append(d.alarms[f], ticks)
<1> DEFINE s == Append(d.alarms[f], ticks)
           q == [d.alarms EXCEPT ![f] = s]
<1>1. d.alarms \in [AlarmFunctions -> Seq(Int)]
  BY DEF ComType
<1>2. d.alarms[f] \in Seq(Int)
  BY <1>1
<1>3. s \in Seq(Int)
  BY <1>2
<1>4. r = [d EXCEPT !.alarms = q]
  BY DEF alarm_set_relative
<1> HIDE DEF s
<1>5. /\ q \in [AlarmFunctions -> Seq(Int)] /\ q[f] = s
      /\ \A g \in AlarmFunctions \ {f} : q[g] = d.alarms[g]
  BY <1>1, <1>3
<1> HIDE DEF q
<1>6. r \in ComType /\ r.alarms = q /\ Same(r, d)
  BY <1>4, <1>5, AlarmsTyped
<1> QED
  BY <1>5, <1>6 DEF OthersKept, s

\* Cancelling takes all alarms of the function away.
LEMMA Cancelled ==
  ASSUME NEW d \in ComType, NEW f \in AlarmFunctions, NEW r, r = alarm_cancel(d, f)
  PROVE  r \in ComType /\ Same(r, d) /\ OthersKept(r, d, f) /\ r.alarms[f] = <<>>
<1> DEFINE e == <<>>
           q == [d.alarms EXCEPT ![f] = e]
<1>1. d.alarms \in [AlarmFunctions -> Seq(Int)] /\ e \in Seq(Int)
  BY DEF ComType
<1>2. r = [d EXCEPT !.alarms = q]
  BY DEF alarm_cancel
<1> HIDE DEF e
<1>3. /\ q \in [AlarmFunctions -> Seq(Int)] /\ q[f] = e
      /\ \A g \in AlarmFunctions \ {f} : q[g] = d.alarms[g]
  BY <1>1
<1> HIDE DEF q
<1>4. r \in ComType /\ r.alarms = q /\ Same(r, d)
  BY <1>2, <1>3, AlarmsTyped
<1> QED
  BY <1>3, <1>4 DEF OthersKept, e

\* A queued alarm has a function and a place among that function's alarms.
LEMMA QueuedPlace ==
  ASSUME NEW d \in ComType, NEW a \in Queued(d)
  PROVE  a[1] \in AlarmFunctions /\ a[2] \in 1..Len(d.alarms[a[1]])
BY DEF Queued

\* An alarm that leaves the queue leaves the others of its function behind.
LEMMA UnlinkedKeeps ==
  ASSUME NEW d \in ComType, NEW a \in Queued(d), NEW r, r = Unlinked(d, a)
  PROVE  /\ r \in ComType /\ Same(r, d) /\ OthersKept(r, d, a[1])
         /\ Len(r.alarms[a[1]]) = Len(d.alarms[a[1]]) - 1
         /\ Pending(r, a[1]) => Pending(d, a[1])
<1> DEFINE f == a[1]
           old == d.alarms[f]
           s == [i \in 1..Len(old) - 1 |-> IF i < a[2] THEN old[i] ELSE old[i + 1]]
           q == [d.alarms EXCEPT ![f] = s]
<1>0. f \in AlarmFunctions /\ a[2] \in 1..Len(old)
  BY QueuedPlace
<1>1. d.alarms \in [AlarmFunctions -> Seq(Int)]
  BY DEF ComType
<1>2. old \in Seq(Int)
  BY <1>0, <1>1
<1>3. Len(old) - 1 \in Nat /\ \A i \in 1..Len(old) - 1 : old[i] \in Int /\ old[i + 1] \in Int
  <2> DEFINE n == Len(old)
  <2>1. n \in Nat /\ a[2] \in 1..n /\ \A i \in 1..n : old[i] \in Int
    BY <1>0, <1>2
  <2> HIDE DEF n, old
  <2>2. n - 1 \in Nat /\ \A i \in 1..n - 1 : i \in 1..n /\ i + 1 \in 1..n
    BY <2>1
  <2>3. n - 1 \in Nat /\ \A i \in 1..n - 1 : old[i] \in Int /\ old[i + 1] \in Int
    BY <2>1, <2>2
  <2> QED
    BY <2>3 DEF n
<1>4. s \in Seq(Int) /\ Len(s) = Len(old) - 1
  BY <1>3
<1>5. r = [d EXCEPT !.alarms = q]
  BY DEF Unlinked
<1> HIDE DEF s
<1>6. /\ q \in [AlarmFunctions -> Seq(Int)] /\ q[f] = s
      /\ \A g \in AlarmFunctions \ {f} : q[g] = d.alarms[g]
  BY <1>0, <1>1, <1>4
<1> HIDE DEF q
<1>7. r \in ComType /\ r.alarms = q /\ Same(r, d)
  BY <1>5, <1>6, AlarmsTyped
<1>8. old # <<>>
  BY <1>0, <1>2
<1> QED
  BY <1>4, <1>6, <1>7, <1>8 DEF OthersKept, Pending

-----------------------------------------------------------------------------
(* The handlers *)

\* What a handler owes the invariant, its effect on the power key's alarm and
\* on the watch for the charger apart.
Sound(r) == r \in ComType /\ Cycle(r) /\ Cleared(r) /\ InPeriod(r)

HoldKept(r, d) == r.alarms["power_key"] = d.alarms["power_key"]

\* The screen went dark, or the machine down.
Dark(r) == r \in ComType /\ Still(r) /\ Cleared(r) /\ (r.power = "on" => r.blank)

\* The alarm functions are told apart.
LEMMA Functions ==
  /\ "alarm1" \in AlarmFunctions /\ "alarm2" \in AlarmFunctions
  /\ "animation" \in AlarmFunctions /\ "power_key" \in AlarmFunctions
  /\ AlarmFunctions \subseteq {"alarm1", "alarm2", "animation", "power_key"}
BY DEF AlarmFunctions, Timers

\* The times of the alarms.
LEMMA Times ==
  /\ AnimationTimeout \in Nat /\ StartTimeout \in Nat /\ BrightTime \in Int /\ DimTime \in Int
  /\ HoldTime \in Int /\ MaxLate \in Nat /\ MaxUevents \in Nat /\ MaxKeys \in Nat
  /\ Period \in Nat /\ AnimationTimeout \in -MaxLate..Period /\ StartTimeout \in -MaxLate..Period
BY TimesAssumption DEF Period, Larger

\* A dark screen is sound.
LEMMA DarkSound ==
  ASSUME NEW r, Dark(r)
  PROVE  Sound(r)
<1>1. r \in ComType /\ Still(r) /\ Cleared(r) /\ (r.power = "on" => r.blank)
  BY DEF Dark
<1>2. Cycle(r)
  BY <1>1 DEF Cycle
<1>3. InPeriod(r)
  BY <1>1 DEF InPeriod, Count, Still
<1> QED
  BY <1>1, <1>2, <1>3 DEF Sound

\* The screen blanked.
LEMMA Blanked ==
  ASSUME NEW d \in ComType, NEW r, r = [d EXCEPT !.blank = TRUE]
  PROVE  r \in ComType /\ r.alarms = d.alarms /\ r.shutdown = d.shutdown /\ r.power = d.power /\ r.blank
<1>1. r.alarms = d.alarms /\ r.shutdown = d.shutdown /\ r.power = d.power /\ r.blank
  BY DEF ComType
<1>2. r \in ComType
  BY DEF ComType
<1> QED
  BY <1>1, <1>2

\* The machine taken down.
LEMMA TakenDown ==
  ASSUME NEW d \in ComType, NEW p \in {"off", "restart"}, NEW r, r = [d EXCEPT !.power = p]
  PROVE  r \in ComType /\ r.alarms = d.alarms /\ r.shutdown = d.shutdown /\ r.power = p /\ r.mode = d.mode
<1>1. r.alarms = d.alarms /\ r.shutdown = d.shutdown /\ r.power = p /\ r.mode = d.mode
  BY DEF ComType
<1>2. r \in ComType
  BY DEF ComType
<1> QED
  BY <1>1, <1>2

\* A restart refused.
LEMMA Refused ==
  ASSUME NEW d \in ComType, NEW r, r = [d EXCEPT !.refused = TRUE]
  PROVE  r \in ComType /\ r.alarms = d.alarms /\ r.mode = d.mode /\ r.refused
<1>1. r.alarms = d.alarms /\ r.mode = d.mode /\ r.refused
  BY DEF ComType
<1>2. r \in ComType
  BY DEF ComType
<1> QED
  BY <1>1, <1>2

\* screen_brightness_animation_alarm2 with no timer pending.
LEMMA Alarm2Darkens ==
  ASSUME NEW d \in ComType, d.power = "on", d.alarms["alarm1"] = <<>>, d.alarms["alarm2"] = <<>>,
         NEW down \in BOOLEAN, NEW r, r = screen_brightness_animation_alarm2(d, down)
  PROVE  Dark(r) /\ HoldKept(r, d) /\ r.shutdown = d.shutdown
<1> DEFINE c == alarm_cancel(d, "animation")
           dark == [c EXCEPT !.brightness = 0]
           cleared == [dark EXCEPT !.mode = "empty"]
<1>1. /\ c \in ComType /\ Same(c, d) /\ OthersKept(c, d, "animation")
      /\ c.alarms["animation"] = <<>>
  BY Functions, Cancelled
<1> HIDE DEF c
<1>2. Still(c) /\ HoldKept(c, d)
  BY <1>1, Functions DEF OthersKept, Still, HoldKept
<1>3. /\ dark \in ComType /\ dark.alarms = c.alarms /\ dark.shutdown = d.shutdown
      /\ dark.power = "on"
  BY <1>1 DEF ComType, Same
<1>4. r = IF ~dark.shutdown THEN [dark EXCEPT !.blank = TRUE]
          ELSE IF down THEN [cleared EXCEPT !.power = "off"]
          ELSE [cleared EXCEPT !.blank = TRUE]
  BY DEF screen_brightness_animation_alarm2, clear_mode, c
<1> HIDE DEF dark
<1>5. /\ cleared \in ComType /\ cleared.alarms = c.alarms /\ cleared.shutdown = d.shutdown
      /\ cleared.power = "on" /\ cleared.mode = "empty"
  BY <1>3 DEF ComType
<1> HIDE DEF cleared
<1>6. CASE r = [dark EXCEPT !.blank = TRUE]
  <2>1. r \in ComType /\ r.alarms = c.alarms /\ r.shutdown = d.shutdown /\ r.power = "on" /\ r.blank
    BY <1>3, <1>6, Blanked
  <2> QED
    BY <1>2, <2>1 DEF Dark, Still, Cleared, HoldKept
<1>7. CASE r = [cleared EXCEPT !.power = "off"]
  <2>1. r \in ComType /\ r.alarms = c.alarms /\ r.shutdown = d.shutdown /\ r.power = "off" /\ r.mode = "empty"
    BY <1>5, <1>7, TakenDown
  <2> QED
    BY <1>2, <2>1 DEF Dark, Still, Cleared, HoldKept
<1>8. CASE r = [cleared EXCEPT !.blank = TRUE]
  <2>1. r \in ComType /\ r.alarms = c.alarms /\ r.shutdown = d.shutdown /\ r.power = "on" /\ r.blank
    BY <1>5, <1>8, Blanked
  <2> QED
    BY <1>2, <2>1 DEF Dark, Still, Cleared, HoldKept
<1> QED
  BY <1>4, <1>6, <1>7, <1>8

\* screen_brightness_animation_alarm1 with no timer pending.
LEMMA Alarm1Dims ==
  ASSUME NEW d \in ComType, d.power = "on", Cycle(d), InPeriod(d), NEW a \in Queued(d), a[1] = "alarm1",
         NEW r, r = screen_brightness_animation_alarm1(Unlinked(d, a))
  PROVE  /\ Sound(r) /\ HoldKept(r, d) /\ r.power = "on" /\ r.alarms["animation"] = d.alarms["animation"]
         /\ r.blank = d.blank /\ r.shutdown = d.shutdown /\ r.refused = d.refused
<1> DEFINE u == Unlinked(d, a)
           v == [u EXCEPT !.brightness = 40]
<1>1. /\ u \in ComType /\ Same(u, d) /\ OthersKept(u, d, "alarm1")
      /\ Len(u.alarms["alarm1"]) = Len(d.alarms["alarm1"]) - 1
  BY UnlinkedKeeps
<1>2. r = alarm_set_relative(v, "alarm2", DimTime)
  BY DEF screen_brightness_animation_alarm1
<1> HIDE DEF u
<1>3. /\ v \in ComType /\ v.alarms = u.alarms /\ v.power = "on"
      /\ v.blank = d.blank /\ v.shutdown = d.shutdown /\ v.refused = d.refused
  BY <1>1 DEF ComType, Same
<1> HIDE DEF v
<1>4. /\ r \in ComType /\ Same(r, v) /\ OthersKept(r, v, "alarm2")
      /\ r.alarms["alarm2"] = Append(v.alarms["alarm2"], DimTime)
  <2>1. DimTime \in Int /\ "alarm2" \in AlarmFunctions
    BY Times, Functions
  <2> QED
    BY <1>2, <1>3, <2>1, SetRelative
<1>5. /\ r.alarms["alarm1"] = u.alarms["alarm1"] /\ r.alarms["animation"] = d.alarms["animation"]
      /\ r.alarms["power_key"] = d.alarms["power_key"] /\ v.alarms["alarm2"] = d.alarms["alarm2"]
  BY <1>1, <1>3, <1>4, Functions DEF OthersKept
<1>6. a[2] \in 1..Len(d.alarms["alarm1"])
  BY QueuedPlace
<1>7. /\ d.alarms["alarm1"] \in Seq(Int) /\ d.alarms["alarm2"] \in Seq(Int) /\ d.alarms["animation"] \in Seq(Int)
  BY Functions DEF ComType
<1>8. Len(r.alarms["alarm2"]) = Len(d.alarms["alarm2"]) + 1
  BY <1>4, <1>5, <1>7, Times
<1>9. d.alarms["alarm1"] # <<>>
  BY <1>6, <1>7
<1>10. ~d.blank /\ Animated(d)
  BY <1>9 DEF Cycle, Still
<1>11. Animated(r)
  <2>1. /\ Count(d, "alarm1") \in Nat /\ Count(d, "alarm2") \in Nat
    BY <1>7 DEF Count
  <2>2. /\ Count(r, "alarm1") = Count(d, "alarm1") - 1 /\ Count(r, "alarm2") = Count(d, "alarm2") + 1
        /\ Count(r, "animation") = Count(d, "animation")
    BY <1>1, <1>5, <1>8 DEF Count
  <2>3. Count(d, "alarm1") + Count(d, "alarm2") = 1 /\ Count(d, "animation") = 1
    BY <1>10 DEF Animated
  <2>4. Count(r, "alarm1") + Count(r, "alarm2") = 1 /\ Count(r, "animation") = 1
    BY <2>1, <2>2, <2>3
  <2> QED
    BY <2>4 DEF Animated
<1>12. r.power = "on" /\ r.blank = d.blank /\ r.shutdown = d.shutdown /\ r.refused = d.refused
  BY <1>3, <1>4 DEF Same
<1>13. Cycle(r) /\ Cleared(r)
  BY <1>10, <1>11, <1>12 DEF Cycle, Cleared
<1>14. InPeriod(r)
  BY <1>5 DEF InPeriod, Count
<1> QED
  BY <1>4, <1>5, <1>12, <1>13, <1>14 DEF Sound, HoldKept

\* screen_brightness_animation_start with no display alarm pending.
LEMMA StartLights ==
  ASSUME NEW d \in ComType, d.power = "on", Still(d), NEW timeout \in -MaxLate..Period,
         NEW r, r = screen_brightness_animation_start(d, timeout)
  PROVE  /\ Sound(r) /\ HoldKept(r, d) /\ r.power = "on"
         /\ r.alarms["animation"] = <<timeout>>
<1> DEFINE lit == [d EXCEPT !.blank = FALSE, !.brightness = 80]
           bright == alarm_set_relative(lit, "alarm1", BrightTime)
<1>1. lit \in ComType /\ lit.alarms = d.alarms /\ lit.power = "on" /\ ~lit.blank
  BY DEF ComType
<1>2. r = alarm_set_relative(bright, "animation", timeout)
  BY DEF screen_brightness_animation_start
<1> HIDE DEF lit
<1>3. /\ bright \in ComType /\ Same(bright, lit) /\ OthersKept(bright, lit, "alarm1")
      /\ bright.alarms["alarm1"] = Append(lit.alarms["alarm1"], BrightTime)
  <2>1. BrightTime \in Int /\ "alarm1" \in AlarmFunctions
    BY Times, Functions
  <2> QED
    BY <1>1, <2>1, SetRelative
<1> HIDE DEF bright
<1>4. /\ r \in ComType /\ Same(r, bright) /\ OthersKept(r, bright, "animation")
      /\ r.alarms["animation"] = Append(bright.alarms["animation"], timeout)
  <2>1. timeout \in Int /\ "animation" \in AlarmFunctions
    BY Times, Functions
  <2> QED
    BY <1>2, <1>3, <2>1, SetRelative
<1>5. /\ r.alarms["alarm1"] = Append(<<>>, BrightTime) /\ r.alarms["alarm2"] = <<>>
      /\ r.alarms["animation"] = Append(<<>>, timeout) /\ HoldKept(r, d)
  <2>1. /\ lit.alarms["alarm1"] = <<>> /\ lit.alarms["alarm2"] = <<>> /\ lit.alarms["animation"] = <<>>
        /\ lit.alarms["power_key"] = d.alarms["power_key"]
    BY <1>1 DEF Still
  <2>2. /\ bright.alarms["alarm2"] = lit.alarms["alarm2"] /\ bright.alarms["animation"] = lit.alarms["animation"]
        /\ bright.alarms["power_key"] = lit.alarms["power_key"]
    BY <1>3, Functions DEF OthersKept
  <2>3. /\ r.alarms["alarm1"] = bright.alarms["alarm1"] /\ r.alarms["alarm2"] = bright.alarms["alarm2"]
        /\ r.alarms["power_key"] = bright.alarms["power_key"]
    BY <1>4, Functions DEF OthersKept
  <2> QED
    BY <1>3, <1>4, <2>1, <2>2, <2>3 DEF HoldKept
<1>6. /\ Len(r.alarms["alarm1"]) = 1 /\ Len(r.alarms["alarm2"]) = 0
      /\ r.alarms["animation"] = <<timeout>> /\ Len(r.alarms["animation"]) = 1
      /\ r.alarms["animation"][1] = timeout
  BY <1>5
<1>7. r.power = "on" /\ ~r.blank
  BY <1>1, <1>3, <1>4 DEF Same
<1>8. Cycle(r) /\ Cleared(r)
  BY <1>6, <1>7 DEF Cycle, Cleared, Animated, Count
<1>9. InPeriod(r)
  BY <1>6 DEF InPeriod, Count
<1> QED
  BY <1>4, <1>5, <1>6, <1>7, <1>8, <1>9 DEF Sound

\* The two timers cancelled.
LEMMA TimersCancelled ==
  ASSUME NEW d \in ComType, NEW r, r = alarm_cancel(alarm_cancel(d, "alarm2"), "alarm1")
  PROVE  /\ r \in ComType /\ Same(r, d) /\ r.alarms["alarm1"] = <<>> /\ r.alarms["alarm2"] = <<>>
         /\ r.alarms["animation"] = d.alarms["animation"] /\ HoldKept(r, d)
<1> DEFINE c == alarm_cancel(d, "alarm2")
<1>1. c \in ComType /\ Same(c, d) /\ OthersKept(c, d, "alarm2") /\ c.alarms["alarm2"] = <<>>
  BY Functions, Cancelled
<1> HIDE DEF c
<1>2. r \in ComType /\ Same(r, c) /\ OthersKept(r, c, "alarm1") /\ r.alarms["alarm1"] = <<>>
  BY <1>1, Functions, Cancelled DEF c
<1>3. Same(r, d)
  BY <1>1, <1>2 DEF Same
<1> QED
  BY <1>1, <1>2, <1>3, Functions DEF OthersKept, HoldKept

\* All display alarms cancelled.
LEMMA AllCancelled ==
  ASSUME NEW d \in ComType,
         NEW r, r = alarm_cancel(alarm_cancel(alarm_cancel(d, "alarm2"), "alarm1"), "animation")
  PROVE  r \in ComType /\ Same(r, d) /\ Still(r) /\ HoldKept(r, d)
<1> DEFINE c == alarm_cancel(alarm_cancel(d, "alarm2"), "alarm1")
<1>1. /\ c \in ComType /\ Same(c, d) /\ c.alarms["alarm1"] = <<>> /\ c.alarms["alarm2"] = <<>>
      /\ HoldKept(c, d)
  BY TimersCancelled
<1>2. r = alarm_cancel(c, "animation")
  OBVIOUS
<1> HIDE DEF c
<1>3. r \in ComType /\ Same(r, c) /\ OthersKept(r, c, "animation") /\ r.alarms["animation"] = <<>>
  BY <1>1, <1>2, Functions, Cancelled
<1>4. Same(r, d)
  BY <1>1, <1>3 DEF Same
<1> QED
  BY <1>1, <1>3, <1>4, Functions DEF OthersKept, HoldKept, Still

\* power_key_alarm stops the display, and clears the mode before the restart.
LEMMA PowerKeyStops ==
  ASSUME NEW d \in ComType, d.power = "on", NEW down \in BOOLEAN, NEW r, r = power_key_alarm(d, down)
  PROVE  Sound(r) /\ HoldKept(r, d) /\ (r.power = "on" => r.refused)
<1> DEFINE q == alarm_cancel(alarm_cancel(alarm_cancel(d, "alarm2"), "alarm1"), "animation")
           c == [q EXCEPT !.mode = "empty"]
<1>1. q \in ComType /\ Same(q, d) /\ Still(q) /\ HoldKept(q, d)
  BY AllCancelled
<1>2. r = IF down THEN [c EXCEPT !.power = "restart"] ELSE [c EXCEPT !.refused = TRUE]
  BY DEF power_key_alarm, clear_mode
<1> HIDE DEF q
<1>3. c \in ComType /\ c.alarms = q.alarms /\ c.mode = "empty" /\ c.power = "on"
  BY <1>1 DEF ComType, Same
<1> HIDE DEF c
<1>4. /\ r \in ComType /\ r.alarms = q.alarms /\ r.mode = "empty"
      /\ r.power = "on" => r.refused
  <2>1. CASE down
    <3>1. r = [c EXCEPT !.power = "restart"]
      BY <1>2, <2>1
    <3> QED
      BY <1>3, <3>1, TakenDown
  <2>2. CASE ~down
    <3>1. r = [c EXCEPT !.refused = TRUE]
      BY <1>2, <2>2
    <3> QED
      BY <1>3, <3>1, Refused
  <2> QED
    BY <2>1, <2>2
<1>5. Still(r) /\ HoldKept(r, d)
  BY <1>1, <1>4 DEF Still, HoldKept
<1>6. Cycle(r) /\ Cleared(r)
  BY <1>4, <1>5 DEF Cycle, Cleared
<1>7. InPeriod(r)
  BY <1>5 DEF InPeriod, Still, Count
<1> QED
  BY <1>4, <1>5, <1>6, <1>7 DEF Sound

\* power_event notices a charger that is gone.
LEMMA PowerEventNotices ==
  ASSUME NEW d, Sound(d), d.power = "on", charged \in BOOLEAN, NEW down \in BOOLEAN,
         NEW r, r = power_event(d, down)
  PROVE  Sound(r) /\ HoldKept(r, d) /\ (~plugged => r.shutdown)
<1> DEFINE seen == [d EXCEPT !.powerup = charged]
           shut == [seen EXCEPT !.shutdown = TRUE]
           stop == alarm_cancel(alarm_cancel(shut, "alarm2"), "alarm1")
<1>0. d \in ComType /\ Cycle(d) /\ Cleared(d) /\ InPeriod(d)
  BY DEF Sound
<1>1. /\ seen \in ComType /\ seen.alarms = d.alarms /\ seen.power = "on"
      /\ seen.blank = d.blank /\ seen.refused = d.refused /\ seen.shutdown = d.shutdown
  BY <1>0 DEF ComType
<1>2. r = IF ~d.shutdown /\ ~plugged THEN screen_brightness_animation_alarm2(stop, down) ELSE seen
  BY DEF power_event
<1> HIDE DEF seen
<1>3. shut \in ComType /\ shut.alarms = d.alarms /\ shut.power = "on" /\ shut.shutdown
  BY <1>1 DEF ComType
<1> HIDE DEF shut
<1>4. /\ stop \in ComType /\ Same(stop, shut) /\ HoldKept(stop, shut)
      /\ stop.alarms["alarm1"] = <<>> /\ stop.alarms["alarm2"] = <<>>
  BY <1>3, TimersCancelled
<1> HIDE DEF stop
<1>5. stop.power = "on" /\ stop.shutdown /\ HoldKept(stop, d)
  BY <1>3, <1>4 DEF Same, HoldKept
<1>6. CASE ~d.shutdown /\ ~plugged
  <2>1. r = screen_brightness_animation_alarm2(stop, down)
    BY <1>2, <1>6
  <2>2. Dark(r) /\ HoldKept(r, stop) /\ r.shutdown = stop.shutdown
    BY <2>1, <1>4, <1>5, Alarm2Darkens
  <2>3. Sound(r)
    BY <2>2, DarkSound
  <2> QED
    BY <1>5, <2>2, <2>3 DEF HoldKept
<1>7. CASE ~(~d.shutdown /\ ~plugged)
  <2>1. r = seen
    BY <1>2, <1>7
  <2>2. Still(d) => Still(r)
    BY <1>1, <2>1 DEF Still
  <2>3. Animated(d) => Animated(r)
    BY <1>1, <2>1 DEF Animated, Count
  <2>4. Cycle(r) /\ Cleared(r)
    BY <1>0, <1>1, <2>1, <2>2, <2>3 DEF Cycle, Cleared
  <2>5. InPeriod(r)
    BY <1>0, <1>1, <2>1 DEF InPeriod, Count
  <2> QED
    BY <1>1, <1>7, <2>1, <2>4, <2>5 DEF Sound, HoldKept
<1> QED
  BY <1>6, <1>7

\* The next animation alarm set.
LEMMA AnimationSet ==
  ASSUME NEW d \in ComType, NEW r, r = alarm_set_relative(d, "animation", AnimationTimeout)
  PROVE  /\ r \in ComType /\ Same(r, d) /\ OthersKept(r, d, "animation")
         /\ r.alarms["animation"] = Append(d.alarms["animation"], AnimationTimeout)
<1>1. AnimationTimeout \in Int /\ "animation" \in AlarmFunctions
  BY Times, Functions
<1> QED
  BY <1>1, SetRelative

\* An animation alarm that fires sets the next one and looks at the charger.
LEMMA AnimationFires ==
  ASSUME NEW d, Sound(d), d.power = "on", charged \in BOOLEAN, NEW down \in BOOLEAN,
         NEW a \in Queued(d), a[1] = "animation", NEW r, r = animation_alarm(Unlinked(d, a), down)
  PROVE  Sound(r) /\ HoldKept(r, d) /\ (~plugged => r.shutdown)
<1> DEFINE u == Unlinked(d, a)
           v == alarm_set_relative(u, "animation", AnimationTimeout)
<1>0. d \in ComType /\ Cycle(d) /\ Cleared(d) /\ InPeriod(d)
  BY DEF Sound
<1>1. /\ u \in ComType /\ Same(u, d) /\ OthersKept(u, d, "animation")
      /\ Len(u.alarms["animation"]) = Len(d.alarms["animation"]) - 1
  BY <1>0, UnlinkedKeeps
<1>2. r = power_event(v, down)
  BY DEF animation_alarm
<1> HIDE DEF u
<1>2a. v = alarm_set_relative(u, "animation", AnimationTimeout)
  OBVIOUS
<1> HIDE DEF v
<1>3. /\ v \in ComType /\ Same(v, u) /\ OthersKept(v, u, "animation")
      /\ v.alarms["animation"] = Append(u.alarms["animation"], AnimationTimeout)
  BY <1>1, <1>2a, AnimationSet
<1>4. a[2] \in 1..Len(d.alarms["animation"])
  BY <1>0, QueuedPlace
<1>5. d.alarms["animation"] \in Seq(Int) /\ u.alarms["animation"] \in Seq(Int)
  BY <1>0, <1>1, Functions DEF ComType
<1>6. d.alarms["animation"] # <<>>
  BY <1>4, <1>5
<1>7. ~d.blank /\ Animated(d)
  BY <1>0, <1>6 DEF Cycle, Still
<1>8. u.alarms["animation"] = <<>>
  <2>1. Len(u.alarms["animation"]) = 0
    BY <1>1, <1>7 DEF Animated, Count
  <2> QED
    BY <1>5, <2>1
<1>9. Len(v.alarms["animation"]) = 1 /\ v.alarms["animation"][1] = AnimationTimeout
  BY <1>3, <1>8
<1>10. v.alarms["alarm1"] = d.alarms["alarm1"] /\ v.alarms["alarm2"] = d.alarms["alarm2"] /\ HoldKept(v, d)
  BY <1>1, <1>3, Functions DEF OthersKept, HoldKept
<1>11. Animated(v)
  BY <1>7, <1>9, <1>10 DEF Animated, Count
<1>12. v.power = "on" /\ ~v.blank
  BY <1>1, <1>3, <1>7 DEF Same
<1>13. InPeriod(v)
  BY <1>9, Times DEF InPeriod, Count
<1>14. Sound(v)
  BY <1>3, <1>11, <1>12, <1>13 DEF Sound, Cycle, Cleared
<1>15. Sound(r) /\ HoldKept(r, v) /\ (~plugged => r.shutdown)
  BY <1>2, <1>12, <1>14, PowerEventNotices
<1> QED
  BY <1>10, <1>15 DEF HoldKept

\* The release of the power key switches a bright screen off and lights any
\* other, with a new animation alarm.
LEMMA WakeupKey ==
  ASSUME NEW d \in ComType, d.power = "on", NEW down \in BOOLEAN,
         NEW r, r = update_screen_on_wakeup_key(d, down)
  PROVE  /\ Sound(r) /\ HoldKept(r, d)
         /\ r.power = "on" => r.blank \/ r.alarms["animation"] = <<AnimationTimeout>>
<1> DEFINE c == alarm_cancel(d, "alarm2")
           q == alarm_cancel(c, "animation")
           e == alarm_cancel(q, "alarm1")
<1>1. c \in ComType /\ Same(c, d) /\ OthersKept(c, d, "alarm2") /\ c.alarms["alarm2"] = <<>>
  BY Functions, Cancelled
<1>2. r = IF Pending(q, "alarm1") THEN screen_brightness_animation_alarm2(e, down)
          ELSE screen_brightness_animation_start(q, AnimationTimeout)
  BY DEF update_screen_on_wakeup_key
<1> HIDE DEF c
<1>3. q \in ComType /\ Same(q, c) /\ OthersKept(q, c, "animation") /\ q.alarms["animation"] = <<>>
  BY <1>1, Functions, Cancelled
<1> HIDE DEF q
<1>4. e \in ComType /\ Same(e, q) /\ OthersKept(e, q, "alarm1") /\ e.alarms["alarm1"] = <<>>
  BY <1>3, Functions, Cancelled
<1> HIDE DEF e
<1>5. q.power = "on" /\ e.power = "on"
  BY <1>1, <1>3, <1>4 DEF Same
<1>6. q.alarms["alarm2"] = <<>> /\ e.alarms["alarm2"] = <<>> /\ HoldKept(q, d) /\ HoldKept(e, d)
  BY <1>1, <1>3, <1>4, Functions DEF OthersKept, HoldKept
<1>7. CASE Pending(q, "alarm1")
  <2>1. r = screen_brightness_animation_alarm2(e, down)
    BY <1>2, <1>7
  <2>2. Dark(r) /\ HoldKept(r, e)
    BY <2>1, <1>4, <1>5, <1>6, Alarm2Darkens
  <2>3. Sound(r)
    BY <2>2, DarkSound
  <2> QED
    BY <1>6, <2>2, <2>3 DEF HoldKept, Dark
<1>8. CASE ~Pending(q, "alarm1")
  <2>1. r = screen_brightness_animation_start(q, AnimationTimeout)
    BY <1>2, <1>8
  <2>2. Still(q)
    BY <1>3, <1>6, <1>8 DEF Still, Pending
  <2>3. Sound(r) /\ HoldKept(r, q) /\ r.alarms["animation"] = <<AnimationTimeout>>
    BY <2>1, <2>2, <1>3, <1>5, Times, StartLights
  <2> QED
    BY <1>6, <2>3 DEF HoldKept
<1> QED
  BY <1>7, <1>8

\* The other keys light the screen.
LEMMA WakeupKey2 ==
  ASSUME NEW d \in ComType, d.power = "on", NEW r, r = update_screen_on_wakeup_key2(d)
  PROVE  Sound(r) /\ HoldKept(r, d) /\ r.alarms["animation"] = <<AnimationTimeout>>
<1> DEFINE q == alarm_cancel(alarm_cancel(alarm_cancel(d, "alarm2"), "alarm1"), "animation")
<1>1. q \in ComType /\ Same(q, d) /\ Still(q) /\ HoldKept(q, d)
  BY AllCancelled
<1>2. r = screen_brightness_animation_start(q, AnimationTimeout)
  BY DEF update_screen_on_wakeup_key2
<1> HIDE DEF q
<1>3. q.power = "on"
  BY <1>1 DEF Same
<1>4. Sound(r) /\ HoldKept(r, q) /\ r.alarms["animation"] = <<AnimationTimeout>>
  BY <1>1, <1>2, <1>3, Times, StartLights
<1> QED
  BY <1>1, <1>4 DEF HoldKept

-----------------------------------------------------------------------------
(* The steps *)

\* The watch goes on as it was.
WatchKept(r) ==
  r.power = "on" /\ ~plugged /\ ~r.blank /\ ~r.shutdown /\ ~r.refused =>
    Watching /\ r.alarms["animation"] = com.alarms["animation"]

\* An alarm that fires keeps the globals sound, whichever it is; the power
\* key's is not set anew, and the watch for the charger not put off.
LEMMA AlarmFires ==
  ASSUME TypeOK, Sound(com), com.power = "on", NEW a \in Queued(com), NEW down \in BOOLEAN,
         NEW r, r = CallAlarm(Unlinked(com, a), a[1], down)
  PROVE  Sound(r) /\ (Pending(r, "power_key") => Pending(com, "power_key")) /\ WatchKept(r)
<1> DEFINE u == Unlinked(com, a)
<1>0. com \in ComType /\ Cycle(com) /\ Cleared(com) /\ InPeriod(com) /\ charged \in BOOLEAN
  BY DEF Sound, TypeOK
<1>1. /\ u \in ComType /\ Same(u, com) /\ OthersKept(u, com, a[1])
      /\ Len(u.alarms[a[1]]) = Len(com.alarms[a[1]]) - 1
      /\ Pending(u, a[1]) => Pending(com, a[1])
  BY <1>0, UnlinkedKeeps
<1>2. a[1] \in AlarmFunctions /\ a[2] \in 1..Len(com.alarms[a[1]])
  BY <1>0, QueuedPlace
<1>3. u.power = "on"
  BY <1>1 DEF Same
<1>4. CASE a[1] = "animation"
  <2>1. r = animation_alarm(u, down)
    BY <1>4 DEF CallAlarm
  <2>2. Sound(r) /\ HoldKept(r, com) /\ (~plugged => r.shutdown)
    BY <1>0, <1>4, <2>1, AnimationFires
  <2> QED
    BY <2>2 DEF HoldKept, Pending, WatchKept
<1>5. CASE a[1] = "alarm1"
  <2>1. r = screen_brightness_animation_alarm1(u)
    BY <1>5 DEF CallAlarm
  <2>2. /\ Sound(r) /\ HoldKept(r, com) /\ r.alarms["animation"] = com.alarms["animation"]
        /\ r.blank = com.blank /\ r.shutdown = com.shutdown /\ r.refused = com.refused
    BY <1>0, <1>5, <2>1, Alarm1Dims
  <2> QED
    BY <2>2 DEF HoldKept, Pending, WatchKept, Watching
<1>6. CASE a[1] = "alarm2"
  <2>1. r = screen_brightness_animation_alarm2(u, down)
    BY <1>6 DEF CallAlarm
  <2>2. com.alarms["alarm1"] \in Seq(Int) /\ com.alarms["alarm2"] \in Seq(Int)
    BY <1>0, Functions DEF ComType
  <2>3. com.alarms["alarm2"] # <<>>
    BY <1>2, <1>6, <2>2
  <2>4. Animated(com)
    BY <1>0, <2>3 DEF Cycle, Still
  <2>5. Len(com.alarms["alarm1"]) + Len(com.alarms["alarm2"]) = 1
    BY <2>4 DEF Animated, Count
  <2>6. Len(com.alarms["alarm1"]) = 0 /\ Len(com.alarms["alarm2"]) = 1
    <3> DEFINE m == Len(com.alarms["alarm1"])
               n == Len(com.alarms["alarm2"])
    <3>0. m \in Nat /\ n \in Nat
      BY <2>2
    <3>1. m + n = 1
      BY <2>5
    <3>2. n # 0
      BY <2>2, <2>3
    <3> HIDE DEF m, n
    <3>3. m = 0 /\ n = 1
      BY <3>0, <3>1, <3>2
    <3> QED
      BY <3>3 DEF m, n
  <2>7. u.alarms["alarm1"] \in Seq(Int) /\ u.alarms["alarm2"] \in Seq(Int)
    BY <1>1, Functions DEF ComType
  <2>8. Len(u.alarms["alarm1"]) = 0 /\ Len(u.alarms["alarm2"]) = 0
    BY <1>1, <1>6, <2>6, Functions DEF OthersKept
  <2>9. u.alarms["alarm1"] = <<>> /\ u.alarms["alarm2"] = <<>>
    BY <2>7, <2>8
  <2>10. Dark(r) /\ HoldKept(r, u)
    BY <1>1, <1>3, <2>1, <2>9, Alarm2Darkens
  <2>11. Sound(r)
    BY <2>10, DarkSound
  <2>12. HoldKept(r, com)
    BY <1>1, <1>6, <2>10, Functions DEF HoldKept, OthersKept
  <2> QED
    BY <2>10, <2>11, <2>12 DEF Dark, HoldKept, Pending, WatchKept
<1>7. CASE a[1] = "power_key"
  <2>1. r = power_key_alarm(u, down)
    BY <1>7 DEF CallAlarm
  <2>2. Sound(r) /\ HoldKept(r, u) /\ (r.power = "on" => r.refused)
    BY <1>1, <1>3, <2>1, PowerKeyStops
  <2>3. Pending(r, "power_key") => Pending(com, "power_key")
    BY <1>1, <1>7, <2>2 DEF HoldKept, Pending
  <2> QED
    BY <2>2, <2>3 DEF WatchKept
<1> QED
  BY <1>2, <1>4, <1>5, <1>6, <1>7, Functions

\* The counter of launch_sequence stays within its bound.
LEMMA CounterTyped ==
  ASSUME NEW c \in 0..MaxCounter, NEW r
  PROVE  NextCounters(c, r) \subseteq 0..MaxCounter
BY LaunchAssumption DEF NextCounters

\* What reading key k makes of the globals: sound ones, r.
KeyOutcome(r, k) ==
  /\ Sound(r)
  /\ k = "POWER_KEY_DOWN" => WatchKept(r)
  /\ k = "POWER_KEY_UP" => ~Pending(r, "power_key")
  /\ k # "POWER_KEY_DOWN" /\ k # "POWER_KEY_UP" => HoldKept(r, com)
  /\ k # "POWER_KEY_DOWN" /\ r.power = "on" =>
       r.blank \/ r.alarms["animation"] = <<AnimationTimeout>>

\* A key keeps the globals sound.  The press of the power key alone sets the
\* restart, its release cancels it; every other key but the press starts the
\* animation anew.
LEMMA KeyHandled ==
  ASSUME Sound(com), com.power = "on", NEW d \in ComType, d.alarms = com.alarms, d.power = "on",
         d.blank = com.blank, d.refused = com.refused, d.shutdown = com.shutdown,
         NEW k \in Keys, NEW down \in BOOLEAN, NEW r, r = HandleKey(d, k, down)
  PROVE  KeyOutcome(r, k)
<1>0. com \in ComType /\ Cycle(com) /\ Cleared(com) /\ InPeriod(com)
  BY DEF Sound
<1>2. CASE k = "POWER_KEY_DOWN"
  <2>1. r = IF d.powerup THEN alarm_set_relative(d, "power_key", HoldTime) ELSE d
    BY <1>2 DEF HandleKey
  <2>2. /\ r \in ComType /\ r.power = "on" /\ r.blank = d.blank /\ r.refused = d.refused
        /\ r.shutdown = d.shutdown /\ OthersKept(r, d, "power_key")
    <3>1. CASE r = d
      BY <3>1 DEF OthersKept
    <3>2. CASE r = alarm_set_relative(d, "power_key", HoldTime)
      <4>1. HoldTime \in Int /\ "power_key" \in AlarmFunctions
        BY Times, Functions
      <4>2. r \in ComType /\ Same(r, d) /\ OthersKept(r, d, "power_key")
        BY <3>2, <4>1, SetRelative
      <4> QED
        BY <4>2 DEF Same
    <3> QED
      BY <2>1, <3>1, <3>2
  <2>3. /\ r.alarms["alarm1"] = com.alarms["alarm1"] /\ r.alarms["alarm2"] = com.alarms["alarm2"]
        /\ r.alarms["animation"] = com.alarms["animation"]
    BY <2>2, Functions DEF OthersKept
  <2>4. (Still(com) => Still(r)) /\ (Animated(com) => Animated(r))
    BY <2>3 DEF Still, Animated, Count
  <2>5. Cycle(r) /\ Cleared(r)
    BY <1>0, <2>2, <2>4 DEF Cycle, Cleared
  <2>6. InPeriod(r)
    BY <1>0, <2>3 DEF InPeriod, Count
  <2>7. WatchKept(r)
    BY <2>2, <2>3 DEF WatchKept, Watching
  <2> QED
    BY <1>2, <2>2, <2>5, <2>6, <2>7 DEF Sound, KeyOutcome
<1>3. CASE k = "POWER_KEY_UP"
  <2> DEFINE e == alarm_cancel(d, "power_key")
  <2>1. r = update_screen_on_wakeup_key(e, down)
    BY <1>3 DEF HandleKey
  <2>2. e \in ComType /\ Same(e, d) /\ e.alarms["power_key"] = <<>>
    BY Functions, Cancelled
  <2> HIDE DEF e
  <2>3. e.power = "on"
    BY <2>2 DEF Same
  <2>4. /\ Sound(r) /\ HoldKept(r, e)
        /\ r.power = "on" => r.blank \/ r.alarms["animation"] = <<AnimationTimeout>>
    BY <2>1, <2>2, <2>3, WakeupKey
  <2> QED
    BY <1>3, <2>2, <2>4 DEF HoldKept, Pending, KeyOutcome
<1>4. CASE k # "POWER_KEY_DOWN" /\ k # "POWER_KEY_UP"
  <2>1. r = update_screen_on_wakeup_key2(d)
    BY <1>4 DEF HandleKey
  <2>2. Sound(r) /\ HoldKept(r, d) /\ r.alarms["animation"] = <<AnimationTimeout>>
    BY <2>1, WakeupKey2
  <2> QED
    BY <1>4, <2>2 DEF HoldKept, KeyOutcome
<1> QED
  BY <1>2, <1>3, <1>4

\* The invariant holds of the globals and queues a step of the program leaves.
LEMMA InvAfter ==
  ASSUME Sound(com'), HoldMatchesKey', KeysMatched', Watched',
         plugged' \in BOOLEAN, charged' \in BOOLEAN, held' \in BOOLEAN, keys' \in Seq(Keys),
         presses' \in 0..MaxKeys, uevents' \in Seq(Uevents), Len(uevents') <= MaxUevents,
         overrun' \in BOOLEAN, unseen' \in Nat
  PROVE  Inv'
BY DEF Sound, Inv, TypeOK

\* The parts of the invariant the steps use.
LEMMA InvParts ==
  ASSUME Inv
  PROVE  Sound(com) /\ TypeOK /\ HoldMatchesKey /\ KeysMatched /\ Watched
BY DEF Inv, Sound, TypeOK

\* The first steps of main() light the screen.
LEMMA InvInit == Init => Inv
<1> SUFFICES ASSUME Init PROVE Inv
  OBVIOUS
<1>1. PICK mode \in {"empty", "charging"} : com = InitCom(mode)
  BY DEF Init
<1> DEFINE q == [f \in AlarmFunctions |-> <<>>]
           d == [alarms |-> q, blank |-> FALSE, brightness |-> 0, shutdown |-> FALSE,
                 powerup |-> FALSE, counter |-> 0, launched |-> FALSE,
                 refused |-> FALSE, mode |-> mode, power |-> "on"]
<1>2. q \in [AlarmFunctions -> Seq(Int)] /\ \A f \in AlarmFunctions : q[f] = <<>>
  OBVIOUS
<1>3. com = screen_brightness_animation_start(d, StartTimeout)
  BY <1>1 DEF InitCom
<1> HIDE DEF q
<1>4. d \in ComType /\ d.power = "on" /\ d.alarms = q
  BY <1>2, LaunchAssumption DEF ComType
<1> HIDE DEF d
<1>5. Still(d)
  BY <1>2, <1>4, Functions DEF Still
<1>6. Sound(com) /\ HoldKept(com, d) /\ com.alarms["animation"] = <<StartTimeout>>
  BY <1>3, <1>4, <1>5, Times, StartLights
<1>7. ~Pending(com, "power_key")
  BY <1>2, <1>4, <1>6, Functions DEF HoldKept, Pending
<1>8. com \in ComType
  BY <1>6 DEF Sound
<1>9. TypeOK
  <2>1. keys \in Seq(Keys) /\ uevents \in Seq(Uevents) /\ Len(uevents) = 0
    BY DEF Init
  <2>2. presses \in 0..MaxKeys /\ unseen \in Nat /\ Len(uevents) <= MaxUevents
    BY <2>1, Times DEF Init
  <2> QED
    BY <1>8, <2>1, <2>2 DEF Init, TypeOK
<1>10. HoldMatchesKey /\ KeysMatched
  BY <1>7 DEF Init, HoldMatchesKey, KeysMatched
<1>11. Watched
  <2>1. Len(com.alarms["animation"]) = 1 /\ com.alarms["animation"][1] = StartTimeout /\ unseen = 0
    BY <1>6 DEF Init
  <2> QED
    BY <2>1, Times DEF Watched, Count
<1> QED
  BY <1>6, <1>9, <1>10, <1>11 DEF Inv, Sound

\* A step that leaves the keys alone and sets no restart keeps them matched.
LEMMA KeysKept ==
  ASSUME HoldMatchesKey, KeysMatched, UNCHANGED <<held, keys>>, Running,
         Pending(com', "power_key") => Pending(com, "power_key")
  PROVE  HoldMatchesKey' /\ KeysMatched'
BY DEF HoldMatchesKey, KeysMatched, Running, Pending

\* An alarm that fires keeps the invariant.
LEMMA InvAlarm ==
  ASSUME Inv, alarm_process
  PROVE  Inv'
<1>0. Sound(com) /\ TypeOK /\ HoldMatchesKey /\ KeysMatched /\ Watched
  BY InvParts
<1>1. PICK a \in Earliest(com), down \in BOOLEAN : com' = CallAlarm(Unlinked(com, a), a[1], down)
  BY DEF alarm_process
<1>2. a \in Queued(com) /\ Running /\ com.power = "on"
  BY DEF Earliest, Due, alarm_process, Running
<1>3. Sound(com') /\ (Pending(com', "power_key") => Pending(com, "power_key")) /\ WatchKept(com')
  BY <1>0, <1>1, <1>2, AlarmFires
<1>4. UNCHANGED <<plugged, charged, held, keys, presses, uevents, overrun, unseen>>
  BY DEF alarm_process, envVars
<1>5. HoldMatchesKey' /\ KeysMatched'
  BY <1>0, <1>2, <1>3, <1>4, KeysKept
<1>6. Watched'
  BY <1>0, <1>2, <1>3, <1>4 DEF Watched, WatchKept, Watching, Running, Count
<1> QED
  BY <1>0, <1>3, <1>4, <1>5, <1>6, InvAfter DEF TypeOK

\* What reading the first key does to the queue.
LEMMA FirstKey ==
  ASSUME keys \in Seq(Keys), keys # <<>>, keys' = Tail(keys)
  PROVE  /\ Head(keys) = keys[1] /\ keys[1] \in Keys /\ keys' \in Seq(Keys)
         /\ Len(keys) \in Nat \ {0} /\ Len(keys') = Len(keys) - 1
         /\ \A i \in 1..Len(keys') : keys'[i] = keys[i + 1]
OBVIOUS

\* So does a key that is read: the queue of keys is shortened by its first one.
LEMMA InvKey ==
  ASSUME Inv, GetKey
  PROVE  Inv'
<1>0. Sound(com) /\ TypeOK /\ HoldMatchesKey /\ KeysMatched /\ Watched
  BY InvParts
<1> DEFINE k == Head(keys)
<1>1. keys \in Seq(Keys) /\ keys # <<>> /\ keys' = Tail(keys) /\ com.power = "on" /\ com.counter \in 0..MaxCounter
  BY <1>0 DEF TypeOK, GetKey, Running, ComType
<1>2. /\ k = keys[1] /\ k \in Keys /\ keys' \in Seq(Keys)
      /\ Len(keys) \in Nat \ {0} /\ Len(keys') = Len(keys) - 1
      /\ \A i \in 1..Len(keys') : keys'[i] = keys[i + 1]
  BY <1>1, FirstKey
<1>3. PICK c \in NextCounters(com.counter, k), down \in BOOLEAN :
        com' = HandleKey([com EXCEPT !.counter = c, !.launched = @ \/ Activated(c, k)], k, down)
  BY DEF GetKey
<1>4. c \in 0..MaxCounter
  BY <1>1, CounterTyped
<1> DEFINE launched == com.launched \/ Activated(c, k)
           d == [com EXCEPT !.counter = c, !.launched = launched]
<1>5. launched \in BOOLEAN
  OBVIOUS
<1>6. com' = HandleKey(d, k, down)
  BY <1>3
<1> HIDE DEF launched
<1>7. /\ d \in ComType /\ d.alarms = com.alarms /\ d.power = "on" /\ d.blank = com.blank
      /\ d.refused = com.refused /\ d.shutdown = com.shutdown
  BY <1>0, <1>1, <1>4, <1>5 DEF ComType, Sound
<1> HIDE DEF d, k
<1>7a. Sound(com) /\ com.power = "on" /\ k \in Keys
  BY <1>0, <1>1, <1>2
<1>7b. KeyOutcome(com', k)
  BY <1>6, <1>7, <1>7a, KeyHandled
<1>8. /\ Sound(com')
      /\ k = "POWER_KEY_DOWN" => WatchKept(com')
      /\ k = "POWER_KEY_UP" => ~Pending(com', "power_key")
      /\ k # "POWER_KEY_DOWN" /\ k # "POWER_KEY_UP" => HoldKept(com', com)
      /\ k # "POWER_KEY_DOWN" /\ com'.power = "on" =>
           com'.blank \/ com'.alarms["animation"] = <<AnimationTimeout>>
  BY <1>7b DEF KeyOutcome
<1>9. UNCHANGED <<plugged, charged, held, presses, uevents, overrun>>
  BY DEF GetKey
<1>10. unseen' = IF k = "POWER_KEY_DOWN" THEN unseen ELSE 0
  BY DEF GetKey, k
<1>11. ASSUME NEW i \in 1..Len(keys), keys[i] = "POWER_KEY_UP", i # 1
       PROVE  \E j \in 1..Len(keys') : keys'[j] = "POWER_KEY_UP"
  <2>1. i - 1 \in 1..Len(keys') /\ keys'[i - 1] = keys[(i - 1) + 1] /\ (i - 1) + 1 = i
    BY <1>2, <1>11
  <2> QED
    BY <1>11, <2>1
<1>12. HoldMatchesKey'
  <2> SUFFICES ASSUME Running', Pending(com', "power_key"), ~held
               PROVE  \E j \in 1..Len(keys') : keys'[j] = "POWER_KEY_UP"
    BY <1>9 DEF HoldMatchesKey, Pending
  <2>1. CASE k = "POWER_KEY_DOWN"
    <3>1. 1 \in 1..Len(keys) /\ keys[1] = "POWER_KEY_DOWN"
      BY <1>2, <2>1
    <3>2. PICK j \in 1 + 1..Len(keys) : keys[j] = "POWER_KEY_UP"
      BY <1>0, <3>1 DEF KeysMatched
    <3>3. j \in 1..Len(keys) /\ j # 1
      BY <1>2
    <3> QED
      BY <1>11, <3>2, <3>3
  <2>2. CASE k = "POWER_KEY_UP"
    BY <1>8, <2>2
  <2>3. CASE k # "POWER_KEY_DOWN" /\ k # "POWER_KEY_UP"
    <3>1. Pending(com, "power_key")
      BY <1>8, <2>3 DEF HoldKept, Pending
    <3>2. PICK j \in 1..Len(keys) : keys[j] = "POWER_KEY_UP"
      BY <1>0, <1>1, <3>1 DEF HoldMatchesKey, Running
    <3>3. j # 1
      BY <1>2, <2>3, <3>2
    <3> QED
      BY <1>11, <3>2, <3>3
  <2> QED
    BY <2>1, <2>2, <2>3
<1>13. KeysMatched'
  <2> SUFFICES ASSUME NEW i \in 1..Len(keys'), keys'[i] = "POWER_KEY_DOWN", ~held
               PROVE  \E j \in i + 1..Len(keys') : keys'[j] = "POWER_KEY_UP"
    BY <1>9 DEF KeysMatched
  <2>1. i + 1 \in 1..Len(keys) /\ keys[i + 1] = "POWER_KEY_DOWN"
    BY <1>2
  <2>2. PICK j \in (i + 1) + 1..Len(keys) : keys[j] = "POWER_KEY_UP"
    BY <1>0, <2>1 DEF KeysMatched
  <2>3. j - 1 \in i + 1..Len(keys') /\ j - 1 \in 1..Len(keys') /\ (j - 1) + 1 = j
    BY <1>2
  <2>4. keys'[j - 1] = keys[j]
    BY <1>2, <2>3
  <2> QED
    BY <2>2, <2>3, <2>4
<1>14. Watched'
  <2>1. CASE k = "POWER_KEY_DOWN"
    BY <1>0, <1>1, <1>8, <1>9, <1>10, <2>1 DEF Watched, WatchKept, Watching, Running, Count
  <2>2. CASE k # "POWER_KEY_DOWN"
    <3> SUFFICES ASSUME com'.power = "on", ~com'.blank, NEW i \in 1..Len(com'.alarms["animation"])
                 PROVE  unseen' + com'.alarms["animation"][i] <= Period
      BY DEF Watched, Running, Watching, Count
    <3>1. com'.alarms["animation"] = <<AnimationTimeout>>
      BY <1>8, <2>2
    <3>2. com'.alarms["animation"][i] = AnimationTimeout
      BY <3>1
    <3> QED
      BY <1>10, <2>2, <3>2, Times
  <2> QED
    BY <2>1, <2>2
<1>15. unseen' \in Nat
  BY <1>0, <1>10 DEF TypeOK
<1> QED
  BY <1>0, <1>2, <1>8, <1>9, <1>12, <1>13, <1>14, <1>15, InvAfter DEF TypeOK

\* So does the reading of the uevent socket, whatever message was looked at.
LEMMA InvUevent ==
  ASSUME Inv, GetUevent
  PROVE  Inv'
<1>0. Sound(com) /\ TypeOK /\ HoldMatchesKey /\ KeysMatched /\ Watched
  BY InvParts
<1>1. com.power = "on" /\ Running /\ charged \in BOOLEAN
  BY <1>0 DEF GetUevent, Running, TypeOK
<1>2. PICK battery, down \in BOOLEAN : com' = IF battery THEN power_event(com, down) ELSE com
  BY DEF GetUevent
<1>3. UNCHANGED <<plugged, charged, held, keys, presses, unseen>>
  BY DEF GetUevent
<1>4. Sound(com') /\ HoldKept(com', com) /\ WatchKept(com')
  <2>1. CASE com' = power_event(com, down)
    <3>1. Sound(com') /\ HoldKept(com', com) /\ (~plugged => com'.shutdown)
      BY <1>0, <1>1, <2>1, PowerEventNotices
    <3> QED
      BY <3>1 DEF WatchKept
  <2>2. CASE com' = com
    BY <1>0, <2>2 DEF HoldKept, WatchKept, Watching
  <2> QED
    BY <1>2, <2>1, <2>2
<1>5. HoldMatchesKey' /\ KeysMatched'
  <2>1. Pending(com', "power_key") => Pending(com, "power_key")
    BY <1>4 DEF HoldKept, Pending
  <2> QED
    BY <1>0, <1>1, <1>3, <2>1, KeysKept
<1>6. Watched'
  BY <1>0, <1>1, <1>3, <1>4 DEF Watched, WatchKept, Watching, Running, Count
<1>7. uevents' \in Seq(Uevents) /\ Len(uevents') <= MaxUevents /\ overrun' \in BOOLEAN
  <2>1. (uevents' = uevents \/ uevents' = <<>>) /\ overrun' = FALSE
    BY DEF GetUevent
  <2>2. uevents \in Seq(Uevents) /\ Len(uevents) <= MaxUevents
    BY <1>0 DEF TypeOK
  <2>3. CASE uevents' = uevents
    BY <2>1, <2>2, <2>3
  <2>4. CASE uevents' = <<>>
    <3>1. Len(uevents') = 0 /\ uevents' \in Seq(Uevents)
      BY <2>4
    <3>2. 0 <= MaxUevents
      BY Times
    <3>3. overrun' \in BOOLEAN
      BY <2>1
    <3> QED
      BY <3>1, <3>2, <3>3
  <2> QED
    BY <2>1, <2>3, <2>4
<1> QED
  BY <1>0, <1>3, <1>4, <1>5, <1>6, <1>7, InvAfter DEF TypeOK

\* So does the clock: every alarm comes one tick closer.
LEMMA InvTick ==
  ASSUME Inv, Tick
  PROVE  Inv'
<1>0. Sound(com) /\ TypeOK /\ HoldMatchesKey /\ KeysMatched /\ Watched
  BY InvParts
<1>1. com \in ComType /\ Cycle(com) /\ Cleared(com) /\ InPeriod(com)
  BY <1>0 DEF Sound
<1> DEFINE q == [f \in AlarmFunctions |-> [i \in 1..Len(com.alarms[f]) |-> com.alarms[f][i] - 1]]
<1>2. \A f \in AlarmFunctions : com.alarms[f] \in Seq(Int)
  BY <1>1 DEF ComType
<1>3. ASSUME NEW f \in AlarmFunctions
      PROVE  /\ q[f] \in Seq(Int) /\ Len(q[f]) = Len(com.alarms[f])
             /\ \A i \in 1..Len(com.alarms[f]) : q[f][i] = com.alarms[f][i] - 1
  <2> DEFINE s == com.alarms[f]
  <2>1. q[f] = [i \in 1..Len(s) |-> s[i] - 1]
    OBVIOUS
  <2>2. s \in Seq(Int)
    BY <1>2
  <2> HIDE DEF s, q
  <2>3. Len(s) \in Nat /\ \A i \in 1..Len(s) : s[i] - 1 \in Int
    BY <2>2
  <2>4. /\ q[f] \in Seq(Int) /\ Len(q[f]) = Len(s)
        /\ \A i \in 1..Len(s) : q[f][i] = s[i] - 1
    BY <2>1, <2>3
  <2> QED
    BY <2>4 DEF s
<1>4. q \in [AlarmFunctions -> Seq(Int)]
  BY <1>3
<1>5. com' = [com EXCEPT !.alarms = q]
  BY DEF Tick
<1> HIDE DEF q
<1>6. com' \in ComType /\ com'.alarms = q /\ Same(com', com)
  BY <1>1, <1>4, <1>5, AlarmsTyped
<1>7. \A f \in AlarmFunctions : Count(com', f) = Count(com, f)
  BY <1>3, <1>6 DEF Count
<1>8. UNCHANGED <<plugged, charged, held, keys, presses, uevents, overrun>>
  BY DEF Tick, envVars
<1>9. Cycle(com') /\ Cleared(com')
  <2>1. \A f \in AlarmFunctions : com.alarms[f] = <<>> => com'.alarms[f] = <<>>
    BY <1>2, <1>3, <1>6
  <2>2. Still(com) => Still(com')
    BY <2>1, Functions DEF Still
  <2>3. Animated(com) => Animated(com')
    BY <1>7, Functions DEF Animated
  <2> QED
    BY <1>1, <1>6, <2>2, <2>3 DEF Cycle, Cleared, Same
<1>10. \A i \in 1..Count(com', "animation") :
         /\ i \in 1..Count(com, "animation")
         /\ com'.alarms["animation"][i] = com.alarms["animation"][i] - 1
         /\ com.alarms["animation"][i] \in Int
  BY <1>2, <1>3, <1>6, Functions DEF Count
<1>11. InPeriod(com')
  <2> SUFFICES ASSUME NEW i \in 1..Count(com', "animation")
               PROVE  com'.alarms["animation"][i] \in -MaxLate..Period
    BY DEF InPeriod
  <2>1. /\ i \in 1..Count(com, "animation") /\ com'.alarms["animation"][i] = com.alarms["animation"][i] - 1
        /\ com.alarms["animation"][i] \in Int
    BY <1>10
  <2>2. <<"animation", i>> \in Queued(com)
    BY <2>1, Functions DEF Queued, Count
  <2>3. com.alarms["animation"][i] > -MaxLate
    BY <2>2 DEF Tick, Left
  <2>4. com.alarms["animation"][i] <= Period
    BY <1>1, <2>1, Times DEF InPeriod
  <2> QED
    BY <2>1, <2>3, <2>4, Times
<1>12. HoldMatchesKey' /\ KeysMatched'
  <2>1. Running
    BY DEF Tick
  <2>2. Pending(com', "power_key") => Pending(com, "power_key")
    BY <1>2, <1>3, <1>6, Functions DEF Pending
  <2> QED
    BY <1>0, <1>8, <2>1, <2>2, KeysKept
<1>13. unseen' = IF Watching THEN unseen + 1 ELSE 0
  BY DEF Tick
<1>14. unseen \in Nat /\ unseen' \in Nat
  BY <1>0, <1>13 DEF TypeOK
<1>15. Watched'
  <2> SUFFICES ASSUME (Running /\ Watching)', NEW i \in 1..Count(com', "animation")
               PROVE  unseen' + com'.alarms["animation"][i] <= Period
    BY DEF Watched
  <2>1. Running /\ Watching
    BY <1>6, <1>8 DEF Running, Watching, Same
  <2>2. /\ i \in 1..Count(com, "animation") /\ com'.alarms["animation"][i] = com.alarms["animation"][i] - 1
        /\ com.alarms["animation"][i] \in Int
    BY <1>10
  <2>3. unseen + com.alarms["animation"][i] <= Period
    BY <1>0, <2>1, <2>2 DEF Watched
  <2> QED
    BY <1>13, <1>14, <2>1, <2>2, <2>3, Times
<1>16. Sound(com')
  BY <1>6, <1>9, <1>11 DEF Sound
<1> QED
  BY <1>0, <1>8, <1>12, <1>14, <1>15, <1>16, InvAfter DEF TypeOK

\* What a new event at the end does to the queue of keys.
LEMMA LastKey ==
  ASSUME keys \in Seq(Keys), NEW k \in Keys, keys' = Append(keys, k)
  PROVE  /\ keys' \in Seq(Keys) /\ Len(keys) \in Nat /\ Len(keys') = Len(keys) + 1
         /\ \A i \in 1..Len(keys) : keys'[i] = keys[i]
         /\ keys'[Len(keys')] = k
OBVIOUS

\* A press or a release keeps the keys matched.
LEMMA KeyQueued ==
  ASSUME TypeOK, HoldMatchesKey, KeysMatched, NEW k \in Keys, keys' = Append(keys, k),
         UNCHANGED com, held => held' \/ k = "POWER_KEY_UP", k = "POWER_KEY_DOWN" => held'
  PROVE  HoldMatchesKey' /\ KeysMatched'
<1>1. /\ keys' \in Seq(Keys) /\ Len(keys) \in Nat /\ Len(keys') = Len(keys) + 1
      /\ \A i \in 1..Len(keys) : keys'[i] = keys[i]
      /\ keys'[Len(keys')] = k
  BY LastKey DEF TypeOK
<1>2. HoldMatchesKey'
  <2> SUFFICES ASSUME Running, Pending(com, "power_key"), ~held'
               PROVE  \E i \in 1..Len(keys') : keys'[i] = "POWER_KEY_UP"
    BY DEF HoldMatchesKey, Running, Pending
  <2>1. CASE held
    <3>1. Len(keys') \in 1..Len(keys') /\ keys'[Len(keys')] = "POWER_KEY_UP"
      BY <1>1, <2>1
    <3> QED
      BY <3>1
  <2>2. CASE ~held
    <3>1. PICK i \in 1..Len(keys) : keys[i] = "POWER_KEY_UP"
      BY <2>2 DEF HoldMatchesKey
    <3>2. i \in 1..Len(keys') /\ keys'[i] = "POWER_KEY_UP"
      BY <1>1, <3>1
    <3> QED
      BY <3>2
  <2> QED
    BY <2>1, <2>2
<1>3. KeysMatched'
  <2> SUFFICES ASSUME NEW i \in 1..Len(keys'), keys'[i] = "POWER_KEY_DOWN", ~held'
               PROVE  \E j \in i + 1..Len(keys') : keys'[j] = "POWER_KEY_UP"
    BY DEF KeysMatched
  <2>1. i # Len(keys')
    BY <1>1
  <2>2. i \in 1..Len(keys) /\ keys[i] = "POWER_KEY_DOWN"
    BY <1>1, <2>1
  <2>3. CASE held
    <3>1. Len(keys') \in i + 1..Len(keys') /\ keys'[Len(keys')] = "POWER_KEY_UP"
      BY <1>1, <2>2, <2>3
    <3> QED
      BY <3>1
  <2>4. CASE ~held
    <3>1. PICK j \in i + 1..Len(keys) : keys[j] = "POWER_KEY_UP"
      BY <2>2, <2>4 DEF KeysMatched
    <3>2. j \in 1..Len(keys) /\ j \in i + 1..Len(keys')
      BY <1>1, <2>2
    <3>3. keys'[j] = "POWER_KEY_UP"
      BY <1>1, <3>1, <3>2
    <3> QED
      BY <3>2, <3>3
  <2> QED
    BY <2>3, <2>4
<1> QED
  BY <1>2, <1>3

\* So does the user's press of a key.
LEMMA InvPress ==
  ASSUME Inv, Press
  PROVE  Inv'
<1>0. Sound(com) /\ TypeOK /\ HoldMatchesKey /\ KeysMatched /\ Watched
  BY InvParts
<1>1. PICK k \in DownKeys : held' = (held \/ k = "POWER_KEY_DOWN") /\ keys' = Append(keys, k)
  BY DEF Press
<1>2. UNCHANGED <<com, plugged, charged, uevents, overrun, unseen>> /\ presses < MaxKeys /\ presses' = presses + 1
  BY DEF Press
<1>3. k \in Keys
  BY DEF Keys
<1>4. HoldMatchesKey' /\ KeysMatched'
  BY <1>0, <1>1, <1>2, <1>3, KeyQueued
<1>5. keys' \in Seq(Keys) /\ held' \in BOOLEAN /\ presses' \in 0..MaxKeys
  BY <1>0, <1>1, <1>2, <1>3, Times DEF TypeOK
<1>6. Sound(com') /\ Watched'
  BY <1>0, <1>2 DEF Watched, Running, Watching, Count
<1> QED
  BY <1>0, <1>2, <1>4, <1>5, <1>6, InvAfter DEF TypeOK

\* So does the release of the power key.
LEMMA InvRelease ==
  ASSUME Inv, Release
  PROVE  Inv'
<1>0. Sound(com) /\ TypeOK /\ HoldMatchesKey /\ KeysMatched /\ Watched
  BY InvParts
<1>1. /\ UNCHANGED <<com, plugged, charged, presses, uevents, overrun, unseen>>
      /\ held' = FALSE /\ keys' = Append(keys, "POWER_KEY_UP")
  BY DEF Release
<1>2. "POWER_KEY_UP" \in Keys
  BY DEF Keys
<1>3. HoldMatchesKey' /\ KeysMatched'
  BY <1>0, <1>1, <1>2, KeyQueued
<1>4. keys' \in Seq(Keys) /\ held' \in BOOLEAN
  <2>1. keys \in Seq(Keys)
    BY <1>0 DEF TypeOK
  <2>2. keys' \in Seq(Keys)
    BY <1>1, <1>2, <2>1, LastKey
  <2> QED
    BY <1>1, <2>2
<1>5. Sound(com') /\ Watched'
  BY <1>0, <1>1 DEF Watched, Running, Watching, Count
<1> QED
  BY <1>0, <1>1, <1>3, <1>4, <1>5, InvAfter DEF TypeOK

\* A uevent stays within the socket's buffer or overruns it.
LEMMA UeventQueued ==
  ASSUME TypeOK, NEW u \in Uevents, Uevent(u)
  PROVE  uevents' \in Seq(Uevents) /\ Len(uevents') <= MaxUevents /\ overrun' \in BOOLEAN
<1>1. CASE Len(uevents) < MaxUevents
  <2>1. uevents' = Append(uevents, u) /\ overrun' = overrun
    BY <1>1 DEF Uevent
  <2> QED
    BY <1>1, <2>1, Times DEF TypeOK
<1>2. CASE ~(Len(uevents) < MaxUevents)
  BY <1>2 DEF Uevent, TypeOK
<1> QED
  BY <1>1, <1>2

\* So does the charger: the time it goes unnoticed starts anew.
LEMMA InvPlug ==
  ASSUME Inv, Plug
  PROVE  Inv'
<1>0. Sound(com) /\ TypeOK /\ HoldMatchesKey /\ KeysMatched /\ Watched /\ InPeriod(com)
  BY InvParts DEF Sound
<1>1. UNCHANGED <<com, charged, held, keys, presses>> /\ Uevent("charger") /\ unseen' = 0 /\ plugged' = ~plugged
  BY DEF Plug
<1>2. uevents' \in Seq(Uevents) /\ Len(uevents') <= MaxUevents /\ overrun' \in BOOLEAN
  BY <1>0, <1>1, UeventQueued DEF Uevents
<1>3. HoldMatchesKey' /\ KeysMatched'
  BY <1>0, <1>1 DEF HoldMatchesKey, KeysMatched, Running, Pending
<1>4. Watched'
  <2> SUFFICES ASSUME NEW i \in 1..Count(com, "animation")
               PROVE  0 + com.alarms["animation"][i] <= Period
    BY <1>1 DEF Watched, Count
  <2>1. com.alarms["animation"][i] \in -MaxLate..Period
    BY <1>0 DEF InPeriod
  <2> QED
    BY <2>1, Times
<1>5. Sound(com') /\ plugged' \in BOOLEAN /\ unseen' \in Nat
  BY <1>0, <1>1 DEF TypeOK
<1> QED
  BY <1>0, <1>1, <1>2, <1>3, <1>4, <1>5, InvAfter DEF TypeOK

\* So does any other uevent.
LEMMA InvOtherUevent ==
  ASSUME Inv, OtherUevent
  PROVE  Inv'
<1>0. Sound(com) /\ TypeOK /\ HoldMatchesKey /\ KeysMatched /\ Watched
  BY InvParts
<1>1. UNCHANGED <<com, plugged, charged, held, keys, presses, unseen>> /\ Uevent("other")
  BY DEF OtherUevent
<1>2. uevents' \in Seq(Uevents) /\ Len(uevents') <= MaxUevents /\ overrun' \in BOOLEAN
  BY <1>0, <1>1, UeventQueued DEF Uevents
<1>3. HoldMatchesKey' /\ KeysMatched'
  BY <1>0, <1>1 DEF HoldMatchesKey, KeysMatched, Running, Pending
<1>4. Watched' /\ Sound(com')
  BY <1>0, <1>1 DEF Watched, Running, Watching, Count
<1> QED
  BY <1>0, <1>1, <1>2, <1>3, <1>4, InvAfter DEF TypeOK

\* So does the battery.
LEMMA InvVoltage ==
  ASSUME Inv, Voltage
  PROVE  Inv'
<1>0. Sound(com) /\ TypeOK /\ HoldMatchesKey /\ KeysMatched /\ Watched
  BY InvParts
<1>1. /\ UNCHANGED <<com, plugged, held, keys, presses, uevents, overrun, unseen>>
      /\ charged' \in BOOLEAN
  BY DEF Voltage
<1>2. HoldMatchesKey' /\ KeysMatched'
  BY <1>0, <1>1 DEF HoldMatchesKey, KeysMatched, Running, Pending
<1>3. Watched' /\ Sound(com')
  BY <1>0, <1>1 DEF Watched, Running, Watching, Count
<1> QED
  BY <1>0, <1>1, <1>2, <1>3, InvAfter DEF TypeOK

\* So does a step that changes nothing.
LEMMA InvStutter ==
  ASSUME Inv, UNCHANGED vars
  PROVE  Inv'
<1>0. Sound(com) /\ TypeOK /\ HoldMatchesKey /\ KeysMatched /\ Watched
  BY InvParts
<1>1. UNCHANGED <<com, plugged, charged, held, keys, presses, uevents, overrun, unseen>>
  BY DEF vars
<1>2. HoldMatchesKey' /\ KeysMatched'
  BY <1>0, <1>1 DEF HoldMatchesKey, KeysMatched, Running, Pending
<1>3. Watched' /\ Sound(com')
  BY <1>0, <1>1 DEF Watched, Running, Watching, Count
<1> QED
  BY <1>0, <1>1, <1>2, <1>3, InvAfter DEF TypeOK

\* Every step of the program and its surroundings keeps the invariant.
LEMMA InvNext == Inv /\ [Next]_vars => Inv'
<1> SUFFICES ASSUME Inv, [Next]_vars PROVE Inv'
  OBVIOUS
<1>1. CASE Program
  BY <1>1, InvAlarm, InvKey, InvUevent DEF Program
<1>2. CASE Tick
  BY <1>2, InvTick
<1>3. CASE Surroundings
  BY <1>3, InvPress, InvRelease, InvPlug, InvOtherUevent, InvVoltage DEF Surroundings
<1>4. CASE UNCHANGED vars
  BY <1>4, InvStutter
<1> QED
  BY <1>1, <1>2, <1>3, <1>4 DEF Next

\* The invariant holds in every state.
LEMMA InvHolds == Spec => []Inv
BY InvInit, InvNext, PTL DEF Spec

-----------------------------------------------------------------------------
(* The theorems *)

\* The globals of charge_only_mode and its queues keep their types: the
\* brightness is one of the three levels the alarms set, launch_sequence's
\* counter stays within its bound, and the uevent socket within its buffer.
THEOREM ChargeTyped == Spec => []TypeOK
<1>1. Inv => TypeOK
  BY DEF Inv
<1> QED
  BY <1>1, InvHolds, PTL

\* Whatever keys, alarms and charger events interleave, main.c never loses or
\* doubles an alarm of the display: a dark screen has none pending, and a lit
\* one has one timer and one animation alarm, unless a refused restart stopped
\* them all.
THEOREM ChargeDisplayCycle == Spec => []DisplayCycle
<1>1. Inv => DisplayCycle
  <2> SUFFICES ASSUME Inv, Running PROVE DisplayCycle
    BY DEF DisplayCycle
  <2>1. (com.blank => Still(com)) /\ (~com.blank => Animated(com) \/ (com.refused /\ Still(com)))
    BY DEF Inv, Cycle, Running
  <2>2. Still(com) => Count(com, "alarm1") + Count(com, "alarm2") = 0 /\ Count(com, "animation") = 0
    BY DEF Still, Count
  <2> QED
    BY <2>1, <2>2 DEF DisplayCycle, Animated
<1> QED
  BY <1>1, InvHolds, PTL

\* main.c has a restart pending only while the power key is held or its release
\* waits in the input queue: no sequence of presses, releases and late alarms
\* lets a key the user has let go of restart the phone unseen.
THEOREM ChargeHoldMatchesKey == Spec => []HoldMatchesKey
<1>1. Inv => HoldMatchesKey
  BY DEF Inv
<1> QED
  BY <1>1, InvHolds, PTL

\* Every way main.c takes the machine down clears the mode file first.
THEOREM ChargeModeCleared == Spec => []ModeCleared
<1>1. Inv => ModeCleared
  BY DEF Inv, Cleared, ModeCleared
<1> QED
  BY <1>1, InvHolds, PTL

\* A lit screen notices an unplugged charger within one animation period and
\* the lateness of the loop, however many uevents are lost or not looked at.
THEOREM ChargeNoticedInTime == Spec => []NoticedInTime
<1>1. Inv => NoticedInTime
  <2> SUFFICES ASSUME Inv, Running, Watching
               PROVE  unseen <= Period + MaxLate
    BY DEF NoticedInTime, Period
  <2>1. Sound(com) /\ TypeOK /\ Watched
    BY InvParts
  <2>2. Animated(com)
    BY <2>1 DEF Sound, Cycle, Running, Watching
  <2>3. 1 \in 1..Count(com, "animation")
    BY <2>2 DEF Animated
  <2>4. com.alarms["animation"][1] \in -MaxLate..Period
    BY <2>1, <2>3 DEF Sound, InPeriod
  <2>5. unseen + com.alarms["animation"][1] <= Period
    BY <2>1, <2>3 DEF Watched
  <2>6. unseen \in Nat
    BY <2>1 DEF TypeOK
  <2> QED
    BY <2>4, <2>5, <2>6, Times
<1> QED
  BY <1>1, InvHolds, PTL
=============================================================================
