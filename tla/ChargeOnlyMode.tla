--------------------------- MODULE ChargeOnlyMode ---------------------------
(***************************************************************************)
(* The charge_only_mode program: its alarm queue (alarm.c), its event loop *)
(* and handlers (main.c), the display state (screen.c) and the way it      *)
(* picks events up (events.c), against a user, a charger and the kernel's  *)
(* uevent socket.                                                          *)
(*                                                                         *)
(* The program's globals are the record com, and each C function that      *)
(* changes them is an operator from com to com.  Time is counted in ticks  *)
(* of ANIMATION_TIMEOUT (500 ms); an alarm carries the ticks left, and     *)
(* alarms that fall in the same tick fire in either order, which covers    *)
(* every order their microseconds may give them.                           *)
(***************************************************************************)
EXTENDS LaunchSequence

CONSTANTS
  AnimationTimeout,  \* ANIMATION_TIMEOUT, in ticks
  StartTimeout,      \* the 1500 ms main() starts the animation with
  BrightTime,        \* 5000 ms at full brightness
  DimTime,           \* 10000 ms dimmed
  HoldTime,          \* 1000 ms of power key until the restart
  MaxLate,           \* bound: how many ticks the loop may run behind
  MaxKeys,           \* bound: keys the user presses
  MaxUevents         \* the uevents the socket's buffer holds

ASSUME TimesAssumption ==
  /\ {AnimationTimeout, StartTimeout, BrightTime, DimTime, HoldTime} \subseteq Nat \ {0}
  /\ {MaxLate, MaxKeys} \subseteq Nat
  /\ MaxUevents \in Nat \ {0}

VARIABLES
  com,        \* the program's globals
  plugged,    \* ac/online or usb/online reads 1
  charged,    \* voltage_now is at least POWERUP_VOLTAGE
  held,       \* the power key is physically down
  keys,       \* key events queued in /dev/input, oldest first
  presses,    \* number of keys pressed so far
  uevents,    \* messages queued on the uevent socket, oldest first
  overrun,    \* the socket dropped a message and will report ENOBUFS
  unseen      \* history: ticks an unplugged charger went unnoticed by a lit
              \* screen since a key last restarted the display cycle

envVars == <<plugged, charged, held, keys, presses, uevents, overrun>>
vars == <<com, plugged, charged, held, keys, presses, uevents, overrun, unseen>>

Timers == {"alarm1", "alarm2"}
AlarmFunctions == Timers \cup {"animation", "power_key"}

Uevents == {"charger", "other"}
DownKeys == {"POWER_KEY_DOWN", "VOLUMEUP_KEY_DOWN", "VOLUMEDOWN_KEY_DOWN", "CAMERA_KEY_DOWN"}
Keys == DownKeys \cup {"POWER_KEY_UP"}

-----------------------------------------------------------------------------
(* alarm.c, as the queue AlarmList implements: com.alarms[f] holds the time
   left of every alarm set for f. *)

alarm_set_relative(d, f, ticks) == [d EXCEPT !.alarms[f] = Append(@, ticks)]

alarm_cancel(d, f) == [d EXCEPT !.alarms[f] = <<>>]

\* The count alarm_cancel returns is only ever compared with 0.
Pending(d, f) == d.alarms[f] # <<>>

Queued(d) == UNION {{<<f, i>> : i \in 1..Len(d.alarms[f])} : f \in AlarmFunctions}
Left(d, a) == d.alarms[a[1]][a[2]]
Due(d) == {a \in Queued(d) : Left(d, a) <= 0}
Earliest(d) == {a \in Due(d) : \A b \in Queued(d) : Left(d, a) <= Left(d, b)}

\* The alarm leaves the queue.
Unlinked(d, a) ==
  [d EXCEPT !.alarms[a[1]] =
     [i \in 1..Len(@) - 1 |-> IF i < a[2] THEN @[i] ELSE @[i + 1]]]

-----------------------------------------------------------------------------
(* main.c: the handlers *)

\* Handlers take one answer of the kernel: down, whether a reboot() they make
\* takes the machine down (and so does not return) or is refused.

clear_mode(d) == [d EXCEPT !.mode = "empty"]

\* Powers off without clearing the mode file.
Alarm2NoClear(d, down) ==
  LET dark == [alarm_cancel(d, "animation") EXCEPT !.brightness = 0]
  IN  IF ~dark.shutdown THEN [dark EXCEPT !.blank = TRUE]
      ELSE IF down THEN [dark EXCEPT !.power = "off"]
      ELSE [dark EXCEPT !.blank = TRUE]

screen_brightness_animation_alarm2(d, down) ==
  LET dark    == [alarm_cancel(d, "animation") EXCEPT !.brightness = 0]
      cleared == clear_mode(dark)
  IN  IF ~dark.shutdown THEN [dark EXCEPT !.blank = TRUE]
      ELSE IF down THEN [cleared EXCEPT !.power = "off"]
      ELSE [cleared EXCEPT !.blank = TRUE]

\* Dims a second time on the way.
Alarm1Darker(d) ==
  alarm_set_relative([d EXCEPT !.brightness = 20], "alarm2", DimTime)

\* Does not arrange for the screen to go dark.
Alarm1NoAlarm2(d) == [d EXCEPT !.brightness = 40]

screen_brightness_animation_alarm1(d) ==
  alarm_set_relative([d EXCEPT !.brightness = 40], "alarm2", DimTime)

screen_brightness_animation_start(d, timeout) ==
  LET lit    == [d EXCEPT !.blank = FALSE, !.brightness = 80]
      bright == alarm_set_relative(lit, "alarm1", BrightTime)
  IN  alarm_set_relative(bright, "animation", timeout)

\* A restart that happens does not return, so quit is never set; one that is
\* refused leaves the loop running without its display alarms.
power_key_alarm(d, down) ==
  LET quiet == alarm_cancel(alarm_cancel(alarm_cancel(d, "alarm2"), "alarm1"), "animation")
      clear == clear_mode(quiet)
  IN  IF down THEN [clear EXCEPT !.power = "restart"]
      ELSE [clear EXCEPT !.refused = TRUE]

power_event(d, down) ==
  LET seen == [d EXCEPT !.powerup = charged]
      stop == alarm_cancel(alarm_cancel([seen EXCEPT !.shutdown = TRUE], "alarm2"), "alarm1")
  IN  IF ~d.shutdown /\ ~plugged
      THEN screen_brightness_animation_alarm2(stop, down)
      ELSE seen

\* The animation goes on without a look at the charger.
AnimationUnchecked(d, down) == alarm_set_relative(d, "animation", AnimationTimeout)

animation_alarm(d, down) ==
  power_event(alarm_set_relative(d, "animation", AnimationTimeout), down)

\* Leaves alarm2 pending when a bright screen is switched off.
WakeupKeyKeepAlarm2(d, down) ==
  LET quiet == alarm_cancel(d, "animation")
  IN  IF Pending(quiet, "alarm1")
      THEN screen_brightness_animation_alarm2(alarm_cancel(quiet, "alarm1"), down)
      ELSE screen_brightness_animation_start(quiet, AnimationTimeout)

update_screen_on_wakeup_key(d, down) ==
  LET quiet == alarm_cancel(alarm_cancel(d, "alarm2"), "animation")
  IN  IF Pending(quiet, "alarm1")
      THEN screen_brightness_animation_alarm2(alarm_cancel(quiet, "alarm1"), down)
      ELSE screen_brightness_animation_start(quiet, AnimationTimeout)

update_screen_on_wakeup_key2(d) ==
  screen_brightness_animation_start(
    alarm_cancel(alarm_cancel(alarm_cancel(d, "alarm2"), "alarm1"), "animation"),
    AnimationTimeout)

-----------------------------------------------------------------------------
(* The program *)

\* main() up to its loop: save_mode may fail and leave the file as it was;
\* the uevents that came during uev_get's wait have been drained.
InitCom(mode) ==
  screen_brightness_animation_start(
    [alarms |-> [f \in AlarmFunctions |-> <<>>], blank |-> FALSE, brightness |-> 0, shutdown |-> FALSE,
     powerup |-> FALSE, counter |-> 0, launched |-> FALSE,
     refused |-> FALSE, mode |-> mode, power |-> "on"],
    StartTimeout)

Init ==
  /\ \E mode \in {"empty", "charging"} : com = InitCom(mode)
  /\ plugged \in BOOLEAN /\ charged \in BOOLEAN /\ held \in BOOLEAN
  /\ keys = <<>> /\ presses = 0
  /\ uevents = <<>> /\ overrun = FALSE /\ unseen = 0

Running == com.power = "on"

CallAlarm(d, f, down) ==
  CASE f = "animation" -> animation_alarm(d, down)
    [] f = "alarm1"    -> screen_brightness_animation_alarm1(d)
    [] f = "alarm2"    -> screen_brightness_animation_alarm2(d, down)
    [] f = "power_key" -> power_key_alarm(d, down)

\* One turn of alarm_process: the earliest due alarm leaves the queue, then
\* its function runs.
alarm_process ==
  /\ Running
  /\ \E a \in Earliest(com), down \in BOOLEAN :
       com' = CallAlarm(Unlinked(com, a), a[1], down)
  /\ UNCHANGED <<envVars, unseen>>

\* The releasing of the power key leaves the restart pending.
HandleKeyKeepHold(d, r, down) ==
  CASE r = "POWER_KEY_DOWN" -> IF d.powerup THEN alarm_set_relative(d, "power_key", HoldTime) ELSE d
    [] r = "POWER_KEY_UP"   -> update_screen_on_wakeup_key(d, down)
    [] OTHER                -> update_screen_on_wakeup_key2(d)

HandleKey(d, r, down) ==
  CASE r = "POWER_KEY_DOWN" -> IF d.powerup THEN alarm_set_relative(d, "power_key", HoldTime) ELSE d
    [] r = "POWER_KEY_UP"   -> update_screen_on_wakeup_key(alarm_cancel(d, "power_key"), down)
    [] OTHER                -> update_screen_on_wakeup_key2(d)

\* ev_get returns a key event: input devices come before the uevent socket.
GetKey ==
  /\ Running
  /\ Due(com) = {}
  /\ keys # <<>>
  /\ \E c \in NextCounters(com.counter, Head(keys)), down \in BOOLEAN :
       com' = HandleKey([com EXCEPT !.counter = c,
                                    !.launched = @ \/ Activated(c, Head(keys))],
                        Head(keys), down)
  /\ keys' = Tail(keys)
  /\ unseen' = IF Head(keys) = "POWER_KEY_DOWN" THEN unseen ELSE 0
  /\ UNCHANGED <<plugged, charged, held, presses, uevents, overrun>>

\* ev_get drains the socket and looks at the last message only; when the
\* first recv() fails, the buffer it looks at was never written.
GetUevent ==
  /\ Running
  /\ Due(com) = {}
  /\ keys = <<>>
  /\ uevents # <<>>
  /\ \E battery \in IF overrun THEN BOOLEAN ELSE {uevents[Len(uevents)] = "charger"},
        down \in BOOLEAN :
       com' = IF battery THEN power_event(com, down) ELSE com
  /\ uevents' = IF overrun THEN uevents ELSE <<>>
  /\ overrun' = FALSE
  /\ UNCHANGED <<plugged, charged, held, keys, presses, unseen>>

-----------------------------------------------------------------------------
(* The surroundings *)

\* The charger is out and only the animation can notice it.
Watching == ~plugged /\ ~com.blank /\ ~com.shutdown /\ ~com.refused

Tick ==
  /\ Running
  /\ \A a \in Queued(com) : Left(com, a) > -MaxLate
  /\ com' = [com EXCEPT !.alarms =
               [f \in AlarmFunctions |-> [i \in 1..Len(@[f]) |-> @[f][i] - 1]]]
  /\ unseen' = IF Watching THEN unseen + 1 ELSE 0
  /\ UNCHANGED envVars

Press ==
  /\ Running
  /\ presses < MaxKeys
  /\ \E k \in DownKeys :
       /\ k = "POWER_KEY_DOWN" => ~held
       /\ held' = (held \/ k = "POWER_KEY_DOWN")
       /\ keys' = Append(keys, k)
  /\ presses' = presses + 1
  /\ UNCHANGED <<com, plugged, charged, uevents, overrun, unseen>>

Release ==
  /\ Running
  /\ held
  /\ held' = FALSE
  /\ keys' = Append(keys, "POWER_KEY_UP")
  /\ UNCHANGED <<com, plugged, charged, presses, uevents, overrun, unseen>>

Uevent(u) ==
  IF Len(uevents) < MaxUevents
  THEN uevents' = Append(uevents, u) /\ overrun' = overrun
  ELSE uevents' = uevents /\ overrun' = TRUE

\* Plugging and unplugging each make the charger driver send a uevent.
Plug ==
  /\ Running
  /\ plugged' = ~plugged
  /\ Uevent("charger")
  /\ unseen' = 0
  /\ UNCHANGED <<com, charged, held, keys, presses>>

OtherUevent ==
  /\ Running
  /\ Uevent("other")
  /\ UNCHANGED <<com, plugged, charged, held, keys, presses, unseen>>

Voltage ==
  /\ Running
  /\ charged' = ~charged
  /\ UNCHANGED <<com, plugged, held, keys, presses, uevents, overrun, unseen>>

Program == alarm_process \/ GetKey \/ GetUevent
Surroundings == Press \/ Release \/ Plug \/ OtherUevent \/ Voltage

Next == Program \/ Tick \/ Surroundings

Spec == Init /\ [][Next]_vars

-----------------------------------------------------------------------------
ComType ==
  [alarms : [AlarmFunctions -> Seq(Int)], blank : BOOLEAN, brightness : {0, 40, 80},
   shutdown : BOOLEAN, powerup : BOOLEAN, counter : 0..MaxCounter, launched : BOOLEAN,
   refused : BOOLEAN, mode : {"empty", "charging"},
   power : {"on", "off", "restart"}]

\* The program's globals and the queues keep their types: the brightness is
\* only ever one of the three levels the alarms set.
TypeOK ==
  /\ com \in ComType
  /\ plugged \in BOOLEAN /\ charged \in BOOLEAN /\ held \in BOOLEAN
  /\ keys \in Seq(Keys) /\ presses \in 0..MaxKeys
  /\ uevents \in Seq(Uevents) /\ Len(uevents) <= MaxUevents
  /\ overrun \in BOOLEAN
  /\ unseen \in Nat

Count(d, f) == Len(d.alarms[f])

\* The display cycle never loses or doubles its alarms, whatever keys, alarms
\* and charger events interleave: a dark screen has no display alarm pending,
\* and a lit one has exactly one of alarm1/alarm2 and exactly one animation
\* alarm - except after a restart the kernel refused, which stops them all.
DisplayCycle ==
  Running =>
    LET timers    == Count(com, "alarm1") + Count(com, "alarm2")
        animation == Count(com, "animation")
    IN  IF com.blank THEN timers = 0 /\ animation = 0
        ELSE \/ timers = 1 /\ animation = 1
             \/ com.refused /\ timers = 0 /\ animation = 0

\* A restart is pending only while the power key is held, or its release is
\* still unread in the input queue.
HoldMatchesKey ==
  Running /\ Pending(com, "power_key") =>
    held \/ \E i \in 1..Len(keys) : keys[i] = "POWER_KEY_UP"

\* The program takes the machine down only after it has cleared the mode
\* file, so that the next boot is not told "charging".
ModeCleared == com.power # "on" => com.mode = "empty"

Larger(a, b) == IF a > b THEN a ELSE b

\* A lit screen notices the unplugged charger within one animation period,
\* whatever happens to the uevents.
NoticedInTime ==
  Running /\ Watching => unseen <= Larger(StartTimeout, AnimationTimeout) + MaxLate

\* What the loop owes its queues, and the clock its ticks.
Fairness ==
  /\ WF_vars(alarm_process)
  /\ WF_vars(GetKey)
  /\ WF_vars(GetUevent)
  /\ WF_vars(Tick)

FairSpec == Spec /\ Fairness

\* A lit screen goes dark again (the user presses finitely many keys), unless
\* a refused restart stopped the display cycle.
GoesDark == ~com.blank ~> (com.blank \/ ~Running \/ com.refused)
=============================================================================
