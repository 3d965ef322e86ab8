----------------------------- MODULE UsbdProofs -----------------------------
(***************************************************************************)
(* Proofs about Usbd: its invariants hold for every set of clients, driver *)
(* messages and requests, every bound and every build.                     *)
(***************************************************************************)
EXTENDS Usbd, SequenceTheorems, TLAPS

\* The conjuncts of TypeOK, CableView, NothingLeftBehind and FactoryHolds that
\* speak of the daemon, as predicates on its record, so that they can be shown
\* of what a handler has computed half-way.
Typed(x) == x \in DaemonState

View(x) ==
  /\ x.online = 0 <=> x.cable = "UNKNOWN"
  /\ x.online = 0 => x.state \in {"DEFAULT", "DETACHED"} /\ x.des = 0
  /\ x.online = 1 => x.state \in {"ATTACHED", "ENUM_IN_PROGRESS", "ENUMERATED"}

\* The image is in the lun file only if it can be taken back from there.
Exported(x) == x.mode \in CdModes /\ HasLun /\ (HasBlockDevice \/ x.mounted = 1)

Clean(x) ==
  /\ x.storage = 1 => x.mode \in MscModes
  /\ x.param = 1 <=> x.mode \in CdModes
  /\ "lun" \notin Failures /\ x.lun = 1 => Exported(x)

Factory(x) == x.cable = "FACTORY" => x.mode \in FactoryModes

Core(x) == Typed(x) /\ View(x) /\ Clean(x)

\* y differs from x at most in the application, its inbox and the run state.
SameUsb(x, y) ==
  /\ y.mode = x.mode /\ y.cable = x.cable /\ y.state = x.state /\ y.online = x.online
  /\ y.des = x.des /\ y.storage = x.storage /\ y.param = x.param /\ y.lun = x.lun
  /\ y.mounted = x.mounted /\ y.startup = x.startup /\ y.tether = x.tether

\* The factory modes and the idle mode own no switches.
LEMMA ModeFacts ==
  /\ FactoryModes \subseteq Modes /\ CdModes \subseteq Modes /\ MscModes \subseteq Modes
  /\ BpModes \subseteq Modes
  /\ FactoryModes \cap (CdModes \cup MscModes) = {}
  /\ "MIN" \notin CdModes \cup MscModes
  BY DEF Modes, FactoryModes, CdModes, MscModes, BpModes, TabletModes

\* A change of the application or of its inbox leaves the invariant alone.
LEMMA SameUsbKeeps ==
  ASSUME NEW x, NEW y, Core(x), Typed(y), SameUsb(x, y)
  PROVE  Core(y) /\ (Factory(x) => Factory(y))
  BY DEF Core, View, Clean, Exported, Factory, SameUsb

\* Writing to a client changes at most its inbox and the run state.
LEMMA SendKeeps ==
  ASSUME NEW x, Typed(x), NEW c \in Clients \cup {NoApp},
         NEW what \in {"", "attached", "detached"}
  PROVE  /\ Typed(Send(x, c, what)) /\ SameUsb(x, Send(x, c, what))
         /\ Send(x, c, what).app = x.app
  <1>1. CASE c = NoApp \/ x.run = "killed"
    BY <1>1 DEF Send, SameUsb
  <1>2. CASE ~(c = NoApp \/ x.run = "killed") /\ Gone(c)
    BY <1>2 DEF Typed, DaemonState, SameUsb, Send
  <1>3. CASE ~(c = NoApp \/ x.run = "killed") /\ ~Gone(c)
    <2>1. c \in Clients
      BY <1>3
    <2> DEFINE told == [x.told EXCEPT ![c] = IF what = "" THEN @ ELSE what]
    <2>2. told \in [Clients -> {"nothing", "attached", "detached"}]
      BY <2>1 DEF Typed, DaemonState
    <2>3. Send(x, c, what) = [x EXCEPT !.told = told]
      BY <1>3 DEF Send
    <2> HIDE DEF told
    <2>4. Typed([x EXCEPT !.told = told])
      BY <2>2 DEF Typed, DaemonState
    <2>5. SameUsb(x, [x EXCEPT !.told = told]) /\ [x EXCEPT !.told = told].app = x.app
      BY DEF Typed, DaemonState, SameUsb
    <2> QED
      BY <2>3, <2>4, <2>5
  <1> QED
    BY <1>1, <1>2, <1>3

\* So does writing to the application, which may be dropped.
LEMMA SendOrDropKeeps ==
  ASSUME NEW x, Typed(x), NEW what \in {"", "attached", "detached"}
  PROVE  Typed(SendOrDrop(x, what)) /\ SameUsb(x, SendOrDrop(x, what))
  <1>1. x.app \in Clients \cup {NoApp}
    BY DEF Typed, DaemonState
  <1> DEFINE sent == Send(x, x.app, what)
  <1>2. Typed(sent) /\ SameUsb(x, sent)
    BY <1>1, SendKeeps
  <1>3. Typed([sent EXCEPT !.app = NoApp]) /\ SameUsb(sent, [sent EXCEPT !.app = NoApp])
    BY <1>2 DEF Typed, DaemonState, SameUsb
  <1> QED
    BY <1>2, <1>3 DEF SendOrDrop, SameUsb

-----------------------------------------------------------------------------
(* The hooks *)

\* y differs from x at most in the driver's switches.
SameGlobals(x, y) ==
  /\ y.mode = x.mode /\ y.cable = x.cable /\ y.state = x.state /\ y.online = x.online
  /\ y.des = x.des /\ y.startup = x.startup /\ y.tether = x.tether /\ y.app = x.app
  /\ y.told = x.told /\ y.run = x.run

\* Mounting and unmounting touch the lun file and the loop device only.
LEMMA MountTyped ==
  ASSUME NEW x, Typed(x), NEW mount \in {0, 1}, NEW fails
  PROVE  LET y == cdrom_partition_mount(x, mount, fails)
         IN  /\ Typed(y) /\ SameGlobals(x, y)
             /\ y.storage = x.storage /\ y.param = x.param
  <1> DEFINE Mild(u, v) == /\ Typed(v) /\ SameGlobals(u, v)
                           /\ v.storage = u.storage /\ v.param = u.param
             loop(u, n) == [u EXCEPT !.mounted = n]
             cleared == IF x.mounted = 0 THEN x
                        ELSE loop(SetLun(x, 0, fails), IF "clear" \in fails THEN 1 ELSE 0)
  <1>1. ASSUME NEW u, Typed(u), NEW v \in {0, 1}
        PROVE  Mild(u, SetLun(u, v, fails)) /\ Mild(u, loop(u, v))
    BY <1>1 DEF SetLun, Typed, DaemonState, SameGlobals
  <1>2. Mild(x, x)
    BY DEF SameGlobals
  <1>3. ASSUME NEW u, NEW v, NEW w, Mild(u, v), Mild(v, w)
        PROVE  Mild(u, w)
    BY <1>3 DEF SameGlobals
  <1>4. Mild(x, loop(SetLun(x, 0, fails), 0)) /\ Mild(x, loop(SetLun(x, 0, fails), 1))
    <2>1. Mild(x, SetLun(x, 0, fails))
      BY <1>1
    <2>2. Typed(SetLun(x, 0, fails))
      BY <2>1
    <2> HIDE DEF Mild, loop
    <2> QED
      BY <1>1, <1>3, <2>1, <2>2
  <1>5. Mild(x, cleared)
    <2> HIDE DEF Mild, loop
    <2> QED
      BY <1>2, <1>4
  <1>6. Mild(x, SetLun(loop(cleared, 1), 1, fails))
    <2>1. Typed(cleared)
      BY <1>5
    <2> HIDE DEF cleared
    <2>2. Mild(cleared, loop(cleared, 1))
      BY <1>1, <2>1
    <2>3. Typed(loop(cleared, 1))
      BY <2>2
    <2> HIDE DEF Mild, loop
    <2> QED
      BY <1>1, <1>3, <1>5, <2>1, <2>2, <2>3
  <1>7. Mild(x, SetLun(x, mount, fails))
    BY <1>1
  <1>8. cdrom_partition_mount(x, mount, fails)
          \in {x, cleared, SetLun(x, mount, fails), SetLun(loop(cleared, 1), 1, fails)}
    BY DEF cdrom_partition_mount
  <1> HIDE DEF cleared, loop
  <1> QED
    BY <1>2, <1>5, <1>6, <1>7, <1>8

\* An unmount takes the image back from wherever it can be.
LEMMA MountFacts ==
  ASSUME NEW x, Typed(x), NEW mount \in {0, 1}, NEW fails, "lun" \notin fails,
         x.lun = 1 => HasLun /\ (HasBlockDevice \/ x.mounted = 1)
  PROVE  LET y == cdrom_partition_mount(x, mount, fails)
         IN  y.lun = 1 => mount = 1 /\ HasLun /\ (HasBlockDevice \/ y.mounted = 1)
  <1> DEFINE cleared == IF x.mounted = 0 THEN x
                        ELSE [[x EXCEPT !.lun = 0] EXCEPT !.mounted = IF "clear" \in fails THEN 1 ELSE 0]
  <1>1. Typed(cleared) /\ (cleared.lun = 1 => HasLun /\ HasBlockDevice)
    <2>1. CASE x.mounted = 0
      BY <2>1
    <2>2. CASE x.mounted # 0
      <3>1. cleared = [x EXCEPT !.lun = 0, !.mounted = IF "clear" \in fails THEN 1 ELSE 0]
        BY <2>2 DEF Typed, DaemonState
      <3> HIDE DEF cleared
      <3> DEFINE still == IF "clear" \in fails THEN 1 ELSE 0
      <3>2. still \in {0, 1} /\ cleared = [x EXCEPT !.lun = 0, !.mounted = still]
        BY <3>1
      <3> HIDE DEF still
      <3>3. Typed(cleared) /\ cleared.lun = 0
        BY <3>2 DEF Typed, DaemonState
      <3> QED
        BY <3>3
    <2> QED
      BY <2>1, <2>2
  <1>2. CASE ~HasLun
    BY <1>2 DEF cdrom_partition_mount, SameGlobals
  <1>3. CASE HasLun /\ HasBlockDevice
    BY <1>3 DEF cdrom_partition_mount, SetLun, SameGlobals, Typed, DaemonState
  <1>4. CASE HasLun /\ ~HasBlockDevice /\ (cleared.mounted = 1 \/ mount = 0 \/ "create" \in fails)
    <2>1. cdrom_partition_mount(x, mount, fails) = cleared
      BY <1>4 DEF cdrom_partition_mount, SetLun
    <2> QED
      BY <1>1, <1>4, <2>1
  <1>5. CASE HasLun /\ ~HasBlockDevice /\ ~(cleared.mounted = 1 \/ mount = 0 \/ "create" \in fails)
    <2>1. cdrom_partition_mount(x, mount, fails) = [[cleared EXCEPT !.mounted = 1] EXCEPT !.lun = 1]
      BY <1>5 DEF cdrom_partition_mount, SetLun
    <2>2. mount = 1
      BY <1>5
    <2> DEFINE y == [[cleared EXCEPT !.mounted = 1] EXCEPT !.lun = 1]
    <2> HIDE DEF cleared
    <2>3. y.mounted = 1
      BY <1>1 DEF Typed, DaemonState
    <2> HIDE DEF y
    <2> QED
      BY <1>5, <2>1, <2>2, <2>3 DEF y
  <1> QED
    BY <1>2, <1>3, <1>4, <1>5

\* Leaving a mode switches off everything the mode owns.
LEMMA LeaveFacts ==
  ASSUME NEW x, Core(x), NEW fails \in SUBSET Failures
  PROVE  LET y == DisableDone(PreDisable(x, fails))
         IN  /\ Typed(y) /\ SameGlobals(x, y) /\ y.storage = 0 /\ y.param = 0
             /\ "lun" \notin Failures => y.lun = 0
  <1> DEFINE image == IF x.mode \in CdModes THEN cdrom_partition_mount(x, 0, fails) ELSE x
             pre == PreDisable(x, fails)
  <1>1. /\ Typed(image) /\ SameGlobals(x, image)
        /\ image.storage = x.storage /\ image.param = x.param
    BY MountTyped DEF Core, SameGlobals
  <1>a. ASSUME "lun" \notin Failures
        PROVE  image.lun = 0
    <2>0. "lun" \notin fails
      BY <1>a
    <2>1. CASE x.mode \in CdModes
      BY <1>1, <1>a, <2>0, <2>1, MountFacts DEF Core, Clean, Exported, Typed, DaemonState
    <2>2. CASE x.mode \notin CdModes
      BY <1>a, <2>2 DEF Core, Clean, Exported, Typed, DaemonState
    <2> QED
      BY <2>1, <2>2
  <1>2. pre = IF x.mode \in MscModes THEN [image EXCEPT !.storage = 0] ELSE image
    BY DEF PreDisable
  <1> HIDE DEF image, pre
  <1>3. /\ Typed(pre) /\ SameGlobals(x, pre)
        /\ pre.storage = 0 /\ pre.param = x.param /\ pre.lun = image.lun
    BY <1>1, <1>2 DEF Core, Clean, Exported, Typed, DaemonState, SameGlobals
  <1>4. /\ Typed(DisableDone(pre)) /\ SameGlobals(x, DisableDone(pre))
        /\ DisableDone(pre).storage = 0 /\ DisableDone(pre).param = 0
        /\ DisableDone(pre).lun = image.lun
    BY <1>3 DEF DisableDone, Core, Clean, Exported, Typed, DaemonState, SameGlobals
  <1> QED
    BY <1>4, <1>a DEF pre

\* Setting a mode leaves exactly the new mode's switches on.
LEMMA SetModeFacts ==
  ASSUME NEW x, Core(x), NEW new_mode \in Modes, NEW fails \in SUBSET Failures
  PROVE  LET y == usbd_set_usb_mode(x, new_mode, fails)
         IN  /\ Core(y)
             /\ y.mode = IF x.run = "killed" THEN x.mode ELSE new_mode
             /\ y.cable = x.cable /\ y.tether = x.tether /\ y.startup = x.startup
             /\ y.app = x.app /\ y.told = x.told /\ y.run = x.run
  <1> DEFINE left == DisableDone(PreDisable(x, fails))
             entered == [left EXCEPT !.mode = new_mode]
             on == PreEnable(entered)
  <1>1. CASE x.run = "killed"
    BY <1>1 DEF usbd_set_usb_mode
  <1>2. /\ Typed(left) /\ SameGlobals(x, left) /\ left.storage = 0 /\ left.param = 0
        /\ "lun" \notin Failures => left.lun = 0
    BY LeaveFacts
  <1>3. CASE x.run # "killed" /\ new_mode = "MIN"
    <2>1. usbd_set_usb_mode(x, new_mode, fails) = entered
      BY <1>3 DEF usbd_set_usb_mode
    <2> HIDE DEF left
    <2> QED
      BY <1>2, <1>3, <2>1, ModeFacts DEF SameGlobals, Core, View, Clean, Exported, Typed, DaemonState
  <1>4. CASE x.run # "killed" /\ new_mode # "MIN"
    <2>1. usbd_set_usb_mode(x, new_mode, fails) = [on EXCEPT !.awaiting = 1]
      BY <1>4 DEF usbd_set_usb_mode
    <2> HIDE DEF left
    <2>2. /\ Typed(entered) /\ View(entered) /\ entered.mode = new_mode
          /\ entered.cable = x.cable /\ entered.tether = x.tether /\ entered.app = x.app
          /\ entered.startup = x.startup /\ entered.told = x.told /\ entered.run = x.run
          /\ entered.storage = 0 /\ entered.param = 0
          /\ "lun" \notin Failures => entered.lun = 0
      BY <1>2 DEF SameGlobals, Core, View, Typed, DaemonState
    <2> HIDE DEF entered
    <2>3. Core(on) /\ on.mode = new_mode /\ SameGlobals(entered, on)
      BY <2>2 DEF PreEnable, SameGlobals, Core, View, Clean, Exported, Typed, DaemonState
    <2> HIDE DEF on
    <2>4. Core([on EXCEPT !.awaiting = 1]) /\ SameGlobals(on, [on EXCEPT !.awaiting = 1])
      BY <2>3 DEF SameGlobals, Core, View, Clean, Exported, Typed, DaemonState
    <2> QED
      BY <1>4, <2>1, <2>2, <2>3, <2>4 DEF SameGlobals
  <1> QED
    BY <1>1, <1>3, <1>4

-----------------------------------------------------------------------------
(* The choice of a mode *)

\* The answers the system may give.
LEMMA AnswerFacts ==
  ASSUME NEW k \in Answers
  PROVE  k.fails \in SUBSET Failures /\ k.adb \in {-1, 0, 1}
  BY UsbdAssumption DEF Answers

\* The factory cable leads into a factory mode, whatever was set before.
LEMMA FactoryModeFacts ==
  ASSUME NEW x, Core(x), NEW k \in Answers, x.run = "running"
  PROVE  LET y == FactoryMode(x, k)
         IN  Core(y) /\ Factory(y) /\ y.cable = x.cable /\ y.app = x.app
  <1>1. k.fails \in SUBSET Failures
    BY AnswerFacts
  <1> DEFINE mode == IF k.factory THEN "NETWORK_ADB" ELSE "NETWORK"
  <1>2. mode \in Modes /\ mode \in FactoryModes
    BY DEF Modes, FactoryModes
  <1> HIDE DEF mode
  <1> QED
    BY <1>1, <1>2, SetModeFacts DEF mode, FactoryMode, Factory

\* usb_alt_mode_tlb holds modes only; its indices stay in range.
LEMMA TlbFacts ==
  ASSUME NEW startup \in {"BPTOOLS", "TABLET"}, NEW adb \in {0, 1}, NEW tether \in {0, 1}
  PROVE  AltMode(startup, adb, tether) \in Modes
  BY DEF AltMode, usb_alt_mode_tlb, Modes, BpModes, TabletModes

\* The enable_done hook turns on only what the mode owns.
LEMMA EnableFacts ==
  ASSUME NEW x, Core(x), NEW fails \in SUBSET Failures
  PROVE  LET y == EnableDone(x, fails)
         IN  Core(y) /\ SameGlobals(x, y)
  <1> DEFINE image == IF x.mode \in CdModes THEN cdrom_partition_mount(x, 1, fails) ELSE x
  <1>1. /\ Typed(image) /\ SameGlobals(x, image)
        /\ image.storage = x.storage /\ image.param = x.param
    BY MountTyped DEF Core, SameGlobals
  <1>a. ASSUME "lun" \notin Failures, image.lun = 1
        PROVE  Exported(image)
    <2>0. "lun" \notin fails
      BY <1>a
    <2>1. CASE x.mode \in CdModes
      BY <1>1, <1>a, <2>0, <2>1, MountFacts DEF Core, Clean, Exported, SameGlobals
    <2>2. CASE x.mode \notin CdModes
      BY <1>a, <2>2 DEF Core, Clean, Exported
    <2> QED
      BY <2>1, <2>2
  <1>2. EnableDone(x, fails) = IF x.mode \in MscModes THEN [image EXCEPT !.storage = 1] ELSE image
    BY DEF EnableDone
  <1> HIDE DEF image
  <1>3. Core(image)
    BY <1>1, <1>a DEF Core, View, Clean, Exported, SameGlobals
  <1>4. ASSUME x.mode \in MscModes
        PROVE  Core([image EXCEPT !.storage = 1]) /\ SameGlobals(image, [image EXCEPT !.storage = 1])
    BY <1>1, <1>3, <1>4 DEF Core, Typed, View, Clean, Exported, SameGlobals, DaemonState
  <1> QED
    BY <1>1, <1>2, <1>3, <1>4 DEF SameGlobals

\* A write to a client keeps Core and the factory mode.
LEMMA SendSafe ==
  ASSUME NEW x, Core(x), NEW what \in {"", "attached", "detached"}
  PROVE  /\ Core(SendOrDrop(x, what)) /\ SendOrDrop(x, what).cable = x.cable
         /\ Factory(x) => Factory(SendOrDrop(x, what))
         /\ \A c \in Clients \cup {NoApp} :
              /\ Core(Send(x, c, what)) /\ Send(x, c, what).cable = x.cable
              /\ Factory(x) => Factory(Send(x, c, what))
              /\ Send(x, c, what).app = x.app
  <1>1. Typed(x)
    BY DEF Core
  <1>2. Typed(SendOrDrop(x, what)) /\ SameUsb(x, SendOrDrop(x, what))
    BY <1>1, SendOrDropKeeps
  <1>3. SendOrDrop(x, what).cable = x.cable
    BY <1>2 DEF SameUsb
  <1>4. ASSUME NEW c \in Clients \cup {NoApp}
        PROVE  /\ Core(Send(x, c, what)) /\ Send(x, c, what).cable = x.cable
               /\ Factory(x) => Factory(Send(x, c, what))
               /\ Send(x, c, what).app = x.app
    <2>1. /\ Typed(Send(x, c, what)) /\ SameUsb(x, Send(x, c, what))
          /\ Send(x, c, what).app = x.app
      BY <1>1, SendKeeps
    <2>2. Send(x, c, what).cable = x.cable
      BY <2>1 DEF SameUsb
    <2> QED
      BY <2>1, <2>2, SameUsbKeeps
  <1> QED
    BY <1>2, <1>3, <1>4, SameUsbKeeps

-----------------------------------------------------------------------------
(* What the application knows of the cable *)

\* What a client was told is true of the cable; a factory cable is never announced.
Truth(cable, told) ==
  /\ cable = "USB" => told = "attached"
  /\ cable = "UNKNOWN" => told \in {"nothing", "detached"}

\* The application was told the truth about the cable that usbd saw last.
Informed(x) ==
  \A c \in Clients : x.app = c /\ ~Gone(c) /\ x.run = "running" => Truth(x.cable, x.told[c])

\* y has the cable of x, its application or none, wrote to no other client, and
\* left the application as well informed as it was.
Serves(x, y) ==
  /\ Typed(y) /\ y.startup = x.startup /\ y.cable = x.cable
  /\ y.app \in {x.app, NoApp}
  /\ \A c \in Clients \ {x.app} : y.told[c] = x.told[c]
  /\ Informed(x) => Informed(y)

\* y is in the mode of x and knows the same of tethering.
SameMode(x, y) == y.mode = x.mode /\ y.tether = x.tether /\ y.startup = x.startup

\* What touches neither the cable nor the clients serves.
LEMMA SameServes ==
  ASSUME NEW x, NEW y, Typed(y), y.startup = x.startup, y.cable = x.cable,
         y.app = x.app, y.told = x.told, y.run = x.run
  PROVE  Serves(x, y)
  BY DEF Serves, Informed

\* A handler serves when each of its steps does.
LEMMA ServesTrans ==
  ASSUME NEW x, NEW y, NEW z, Serves(x, y), Serves(y, z)
  PROVE  Serves(x, z)
  <1>1. y.app \in {x.app, NoApp} /\ z.app \in {y.app, NoApp}
    BY DEF Serves
  <1>2. \A c \in Clients \ {x.app} : c # y.app
    BY <1>1, UsbdAssumption
  <1> QED
    BY <1>1, <1>2 DEF Serves

\* y is x after a write of what to client c: it reaches that inbox and no other.
Wrote(x, y, c, what) ==
  /\ \A e \in Clients \ {c} : y.told[e] = x.told[e]
  /\ what = "" => y.told = x.told
  /\ c \in Clients /\ ~Gone(c) /\ y.run = "running" /\ what # "" => y.told[c] = what
  /\ y.run = "running" => x.run = "running"

\* That is what Send does.
LEMMA SendFields ==
  ASSUME NEW x, Typed(x), NEW c \in Clients \cup {NoApp},
         NEW what \in {"", "attached", "detached"}
  PROVE  Wrote(x, Send(x, c, what), c, what)
  <1>1. CASE c = NoApp \/ x.run = "killed"
    <2>1. Send(x, c, what) = x
      BY <1>1 DEF Send
    <2>2. ~(c \in Clients /\ x.run = "running")
      BY <1>1, UsbdAssumption
    <2> QED
      BY <2>1, <2>2 DEF Wrote
  <1>2. CASE ~(c = NoApp \/ x.run = "killed") /\ Gone(c)
    BY <1>2 DEF Typed, DaemonState, Send, Wrote
  <1>3. CASE ~(c = NoApp \/ x.run = "killed") /\ ~Gone(c)
    <2>1. c \in Clients /\ x.run = "running" /\ x.told \in [Clients -> {"nothing", "attached", "detached"}]
      BY <1>3 DEF Typed, DaemonState
    <2> DEFINE told == [x.told EXCEPT ![c] = IF what = "" THEN @ ELSE what]
    <2>2. /\ \A e \in Clients \ {c} : told[e] = x.told[e]
          /\ what = "" => told = x.told
          /\ what # "" => told[c] = what
      BY <2>1
    <2>3. Send(x, c, what) = [x EXCEPT !.told = told]
      BY <1>3 DEF Send
    <2> HIDE DEF told
    <2>4. [x EXCEPT !.told = told].told = told /\ [x EXCEPT !.told = told].run = x.run
      BY DEF Typed, DaemonState
    <2> QED
      BY <2>1, <2>2, <2>3, <2>4 DEF Wrote
  <1> QED
    BY <1>1, <1>2, <1>3

\* A write to the application about something else, or about the cable that is
\* in, serves; so does dropping the application when the write fails.
LEMMA SendServes ==
  ASSUME NEW x, Core(x), NEW what \in {"", "attached"}, what = "attached" => x.cable = "USB"
  PROVE  /\ Serves(x, Send(x, x.app, what)) /\ SameMode(x, Send(x, x.app, what))
         /\ Serves(x, SendOrDrop(x, what)) /\ SameMode(x, SendOrDrop(x, what))
  <1>1. x.app \in Clients \cup {NoApp} /\ Typed(x)
    BY DEF Core, Typed, DaemonState
  <1> DEFINE sent == Send(x, x.app, what)
             dropped == [sent EXCEPT !.app = NoApp]
  <1>2. Typed(sent) /\ SameUsb(x, sent) /\ sent.app = x.app
    BY <1>1, SendKeeps
  <1>3. Wrote(x, sent, x.app, what)
    BY <1>1, SendFields
  <1>4. SendOrDrop(x, what) \in {sent, dropped}
    BY DEF SendOrDrop
  <1> HIDE DEF sent
  <1>5. Informed(x) => Informed(sent)
    <2>1. CASE what = ""
      BY <1>2, <1>3, <2>1 DEF Wrote, Informed, SameUsb
    <2>2. CASE what = "attached"
      BY <1>2, <1>3, <2>2 DEF Wrote, Informed, Truth, SameUsb
    <2> QED
      BY <2>1, <2>2
  <1>6. Serves(x, sent) /\ SameMode(x, sent)
    BY <1>2, <1>3, <1>5 DEF Wrote, Serves, SameUsb, SameMode
  <1>7. /\ Typed(dropped) /\ SameUsb(sent, dropped) /\ dropped.app = NoApp
        /\ dropped.told = sent.told
    BY <1>1, <1>2 DEF Typed, DaemonState, SameUsb
  <1> HIDE DEF dropped
  <1>8. Informed(dropped)
    BY <1>7, UsbdAssumption DEF Informed
  <1>9. Serves(x, dropped) /\ SameMode(x, dropped)
    BY <1>2, <1>3, <1>7, <1>8 DEF Wrote, Serves, SameUsb, SameMode
  <1> QED
    BY <1>4, <1>6, <1>9 DEF sent

\* The announcement that follows a change of the cable leaves the application
\* informed, or leaves usbd without one.
LEMMA Announced ==
  ASSUME NEW x, Core(x), x.state \in {"ATTACHED", "DETACHED"}
  PROVE  LET y == SendOrDrop(x, Says(x.state))
         IN  /\ Informed(y) /\ y.app \in {x.app, NoApp}
             /\ \A c \in Clients \ {x.app} : y.told[c] = x.told[c]
             /\ SameMode(x, y) /\ y.cable = x.cable
  <1>1. x.app \in Clients \cup {NoApp} /\ Typed(x)
    BY DEF Core, Typed, DaemonState
  <1> DEFINE what == Says(x.state)
             sent == Send(x, x.app, what)
             dropped == [sent EXCEPT !.app = NoApp]
  <1>2. what \in {"attached", "detached"} /\ Truth(x.cable, what)
    BY DEF Says, Truth, Core, View, Typed, DaemonState
  <1> HIDE DEF what
  <1>3. Typed(sent) /\ SameUsb(x, sent) /\ sent.app = x.app
    BY <1>1, <1>2, SendKeeps
  <1>4. Wrote(x, sent, x.app, what)
    BY <1>1, <1>2, SendFields
  <1>5. SendOrDrop(x, what) \in {sent, dropped}
    BY DEF SendOrDrop
  <1> HIDE DEF sent
  <1>6. Informed(sent)
    BY <1>2, <1>3, <1>4 DEF Wrote, Informed, SameUsb
  <1>7. /\ SameUsb(sent, dropped) /\ dropped.app = NoApp /\ dropped.told = sent.told
    BY <1>1, <1>3 DEF Typed, DaemonState, SameUsb
  <1> HIDE DEF dropped
  <1>8. Informed(dropped)
    BY <1>7, UsbdAssumption DEF Informed
  <1> QED
    BY <1>3, <1>4, <1>5, <1>6, <1>7, <1>8 DEF Wrote, SameUsb, SameMode, what

-----------------------------------------------------------------------------
(* Who changes the mode *)

\* The conclusion of AppDecides for a handler that ran without a request.
Decided(x, y) ==
  ~Alt(x) /\ y.cable # "FACTORY" /\ y.mode # x.mode =>
    x.mode \in {"CDROM", "CDROM2"} \/ y.mode = "CDROM2"

\* TetherTracked of a daemon record.
Tethered(x) ==
  x.startup = "BPTOOLS" /\ x.mode \in BpModes =>
    (x.mode \in {"RNDIS_BPTOOLS_ETH", "RNDIS_BPTOOLS_ETH_ADB"} <=> x.tether = 1)

\* Setting a mode tells nobody and forgets nothing.
LEMMA ModeServes ==
  ASSUME NEW x, Core(x), NEW mode \in Modes, NEW fails \in SUBSET Failures
  PROVE  LET y == usbd_set_usb_mode(x, mode, fails)
         IN  /\ Core(y) /\ Serves(x, y) /\ y.tether = x.tether
             /\ x.run = "running" => y.mode = mode
             /\ y.mode \in {x.mode, mode}
  <1> DEFINE y == usbd_set_usb_mode(x, mode, fails)
  <1>1. /\ Core(y)
        /\ y.mode = IF x.run = "killed" THEN x.mode ELSE mode
        /\ y.cable = x.cable /\ y.tether = x.tether /\ y.startup = x.startup
        /\ y.app = x.app /\ y.told = x.told /\ y.run = x.run
    BY SetModeFacts
  <1> HIDE DEF y
  <1>2. Serves(x, y)
    BY <1>1, SameServes DEF Core
  <1> QED
    BY <1>1, <1>2 DEF y

\* The modes that usbd enters of its own accord, and those a PC can ask for,
\* are not the tethering modes of the BP tools.
LEMMA OtherModes ==
  /\ {"BPTOOLS_ETH_ADB", "BPTOOLS_ETH"} \cap {"RNDIS_BPTOOLS_ETH", "RNDIS_BPTOOLS_ETH_ADB"} = {}
  /\ (FactoryModes \cup TabletModes \cup {"CDROM", "CDROM2", "NGP", "NGP_ADB", "RNDIS", "RNDIS_ADB"})
       \cap BpModes = {}
  /\ "CDROM2" \in Modes /\ "NGP" \in Modes /\ "NGP_ADB" \in Modes
  /\ "RNDIS" \in Modes /\ "RNDIS_ADB" \in Modes /\ TabletModes \subseteq Modes
  BY DEF FactoryModes, TabletModes, BpModes, Modes

\* The default mode of an alternate start-up: no tethering yet.
LEMMA DefaultServes ==
  ASSUME NEW x, Core(x), NEW k \in Answers
  PROVE  LET y == usbd_enumerate_default_mode(x, k)
         IN  /\ Core(y) /\ Serves(x, y)
             /\ ~Alt(x) => y.mode = x.mode
             /\ x.tether = 0 /\ x.run = "running" => Tethered(y)
  <1>1. k.fails \in SUBSET Failures
    BY AnswerFacts
  <1> DEFINE to(with, without) ==
        usbd_set_usb_mode(x, IF k.adb # 0 THEN with ELSE without, k.fails)
  <1>2. ASSUME NEW with \in Modes, NEW without \in Modes
        PROVE  /\ Core(to(with, without)) /\ Serves(x, to(with, without))
               /\ to(with, without).tether = x.tether
               /\ x.run = "running" => to(with, without).mode \in {with, without}
    <2> DEFINE mode == IF k.adb # 0 THEN with ELSE without
    <2>1. mode \in Modes /\ mode \in {with, without}
      OBVIOUS
    <2>2. to(with, without) = usbd_set_usb_mode(x, mode, k.fails)
      OBVIOUS
    <2> HIDE DEF mode, to
    <2> QED
      BY <1>1, <2>1, <2>2, ModeServes
  <1>3. "MSC_ADB" \in Modes /\ "MSC" \in Modes /\ "BPTOOLS_ETH_ADB" \in Modes /\ "BPTOOLS_ETH" \in Modes
        /\ "TABLET_NETWORK_MTP_ADB" \in Modes /\ "CDROM" \in Modes
    BY DEF Modes, BpModes, TabletModes
  <1> HIDE DEF to
  <1>4. CASE x.startup = "DEBUG"
    <2> DEFINE y == to("MSC_ADB", "MSC")
    <2>1. usbd_enumerate_default_mode(x, k) = y
      BY <1>4 DEF usbd_enumerate_default_mode, to
    <2>2. /\ Core(y) /\ Serves(x, y) /\ y.tether = x.tether
          /\ x.run = "running" => y.mode \in {"MSC_ADB", "MSC"}
      BY <1>2, <1>3
    <2> HIDE DEF y
    <2>3. Alt(x) /\ y.startup = x.startup
      BY <1>4, <2>2 DEF Alt, Serves
    <2>4. x.tether = 0 /\ x.run = "running" => Tethered(y)
      BY <1>4, <2>2, <2>3 DEF Tethered
    <2> QED
      BY <2>1, <2>2, <2>3, <2>4
  <1>5. CASE x.startup = "BPTOOLS"
    <2> DEFINE y == to("BPTOOLS_ETH_ADB", "BPTOOLS_ETH")
    <2>1. usbd_enumerate_default_mode(x, k) = y
      BY <1>5 DEF usbd_enumerate_default_mode, to
    <2>2. /\ Core(y) /\ Serves(x, y) /\ y.tether = x.tether
          /\ x.run = "running" => y.mode \in {"BPTOOLS_ETH_ADB", "BPTOOLS_ETH"}
      BY <1>2, <1>3
    <2> HIDE DEF y
    <2>3. Alt(x) /\ y.startup = x.startup
      BY <1>5, <2>2 DEF Alt, Serves
    <2>4. x.tether = 0 /\ x.run = "running" => Tethered(y)
      BY <1>5, <2>2, <2>3, OtherModes DEF Tethered
    <2> QED
      BY <2>1, <2>2, <2>3, <2>4
  <1>6. CASE x.startup = "TABLET"
    <2> DEFINE y == to("TABLET_NETWORK_MTP_ADB", "CDROM")
    <2>1. usbd_enumerate_default_mode(x, k) = y
      BY <1>6 DEF usbd_enumerate_default_mode, to
    <2>2. /\ Core(y) /\ Serves(x, y) /\ y.tether = x.tether
          /\ x.run = "running" => y.mode \in {"TABLET_NETWORK_MTP_ADB", "CDROM"}
      BY <1>2, <1>3
    <2> HIDE DEF y
    <2>3. Alt(x) /\ y.startup = x.startup
      BY <1>6, <2>2 DEF Alt, Serves
    <2>4. x.tether = 0 /\ x.run = "running" => Tethered(y)
      BY <1>6, <2>2, <2>3 DEF Tethered
    <2> QED
      BY <2>1, <2>2, <2>3, <2>4
  <1>7. CASE x.startup \notin {"DEBUG", "BPTOOLS", "TABLET"}
    <2>1. usbd_enumerate_default_mode(x, k) = x
      BY <1>7 DEF usbd_enumerate_default_mode
    <2>2. Serves(x, x)
      BY SameServes DEF Core
    <2> QED
      BY <1>7, <2>1, <2>2 DEF Tethered
  <1> QED
    BY <1>4, <1>5, <1>6, <1>7

\* The factory mode is entered for every start-up.
LEMMA FactoryServes ==
  ASSUME NEW x, Core(x), NEW k \in Answers, x.run = "running"
  PROVE  LET y == FactoryMode(x, k)
         IN  Core(y) /\ Serves(x, y) /\ Tethered(y)
  <1>1. k.fails \in SUBSET Failures
    BY AnswerFacts
  <1> DEFINE mode == IF k.factory THEN "NETWORK_ADB" ELSE "NETWORK"
  <1>2. mode \in Modes /\ mode \in FactoryModes
    BY DEF Modes, FactoryModes
  <1>3. mode \notin BpModes
    BY <1>2, OtherModes
  <1> HIDE DEF mode
  <1>4. FactoryMode(x, k) = usbd_set_usb_mode(x, mode, k.fails)
    BY DEF FactoryMode, mode
  <1> QED
    BY <1>1, <1>2, <1>3, <1>4, ModeServes DEF Tethered

\* The row of the BP tools in usb_alt_mode_tlb: its second column tethers.
LEMMA TlbTethers ==
  ASSUME NEW adb \in {0, 1}, NEW tether \in {0, 1}
  PROVE  AltMode("BPTOOLS", adb, tether) \in {"RNDIS_BPTOOLS_ETH", "RNDIS_BPTOOLS_ETH_ADB"}
           <=> tether = 1
  BY DEF AltMode, usb_alt_mode_tlb

\* A change of ADB or tethering in an alternate start-up: the mode follows the
\* tethering, unless the ADB property cannot be read.
LEMMA AltServes ==
  ASSUME NEW x, Core(x), Alt(x), x.run = "running", NEW k \in Answers, NEW adb_buf, NEW tether_buf
  PROVE  LET y == usbd_alt_mode_set(x, adb_buf, tether_buf, k)
         IN  Core(y) /\ Serves(x, y) /\ (-1 \notin AdbAnswers /\ Tethered(x) => Tethered(y))
  <1> DEFINE adb == CASE adb_buf = "enable" -> 1 [] adb_buf = "disable" -> 0 [] OTHER -> k.adb
             t == CASE tether_buf = "enable" -> 1 [] tether_buf = "disable" -> 0 [] OTHER -> x.tether
             tethers == CASE tether_buf = "enable"  -> [x EXCEPT !.tether = 1]
                          [] tether_buf = "disable" -> [x EXCEPT !.tether = 0]
                          [] OTHER                  -> x
  <1>1. k.fails \in SUBSET Failures /\ adb \in {-1, 0, 1}
    BY AnswerFacts
  <1>2. -1 \notin AdbAnswers => adb \in {0, 1}
    BY UsbdAssumption DEF Answers
  <1>3. tethers = [x EXCEPT !.tether = t] /\ t \in {0, 1}
    BY DEF Core, Typed, DaemonState
  <1>4. x.startup \in {"DEBUG", "BPTOOLS", "TABLET"}
    BY DEF Core, Typed, DaemonState, Alt, Startups
  <1> HIDE DEF adb, t, tethers
  <1>5. Core(tethers)
    BY <1>3 DEF Core, Typed, View, Clean, Exported, DaemonState
  <1>6. /\ tethers.startup = x.startup /\ tethers.cable = x.cable /\ tethers.app = x.app
        /\ tethers.told = x.told /\ tethers.run = x.run /\ tethers.tether = t
    BY <1>3 DEF Core, Typed, DaemonState
  <1>7. Serves(x, tethers)
    BY <1>5, <1>6, SameServes DEF Core
  <1>8. ASSUME NEW mode \in Modes
        PROVE  LET y == usbd_set_usb_mode(tethers, mode, k.fails)
               IN  Core(y) /\ Serves(x, y) /\ y.mode = mode /\ y.tether = t
    <2> DEFINE y == usbd_set_usb_mode(tethers, mode, k.fails)
    <2>1. Core(y) /\ Serves(tethers, y) /\ y.mode = mode /\ y.tether = t
      BY <1>1, <1>5, <1>6, ModeServes
    <2> HIDE DEF y
    <2> QED
      BY <1>7, <2>1, ServesTrans DEF y
  <1>9. CASE adb_buf = "none" /\ tether_buf = "none"
    <2>1. Serves(x, x)
      BY SameServes DEF Core
    <2>2. usbd_alt_mode_set(x, adb_buf, tether_buf, k) = x
      BY <1>9 DEF usbd_alt_mode_set
    <2> QED
      BY <2>1, <2>2
  <1>10. CASE ~(adb_buf = "none" /\ tether_buf = "none") /\ x.startup = "DEBUG"
    <2> DEFINE mode == IF adb_buf = "enable" \/ tether_buf = "enable" THEN "MSC_ADB" ELSE "MSC"
    <2>1. mode \in Modes
      BY DEF Modes
    <2>2. usbd_alt_mode_set(x, adb_buf, tether_buf, k) = usbd_set_usb_mode(tethers, mode, k.fails)
      BY <1>10 DEF usbd_alt_mode_set, tethers
    <2> HIDE DEF mode
    <2> DEFINE y == usbd_set_usb_mode(tethers, mode, k.fails)
    <2>3. Core(y) /\ Serves(x, y)
      BY <1>8, <2>1
    <2> HIDE DEF y
    <2>4. Tethered(y)
      BY <1>10, <2>3 DEF Serves, Tethered
    <2> QED
      BY <2>2, <2>3, <2>4 DEF y
  <1>11. CASE ~(adb_buf = "none" /\ tether_buf = "none") /\ x.startup # "DEBUG" /\ adb < 0
    <2>1. usbd_alt_mode_set(x, adb_buf, tether_buf, k) = tethers
      BY <1>11 DEF usbd_alt_mode_set, tethers, adb
    <2> QED
      BY <1>2, <1>5, <1>7, <1>11, <2>1
  <1>12. CASE ~(adb_buf = "none" /\ tether_buf = "none") /\ x.startup # "DEBUG" /\ ~(adb < 0)
    <2> DEFINE mode == AltMode(x.startup, adb, t)
    <2>1. adb \in {0, 1} /\ x.startup \in {"BPTOOLS", "TABLET"}
      BY <1>1, <1>4, <1>12
    <2>2. mode \in Modes
      BY <1>3, <2>1, TlbFacts
    <2>3. usbd_alt_mode_set(x, adb_buf, tether_buf, k) = usbd_set_usb_mode(tethers, mode, k.fails)
      BY <1>6, <1>12 DEF usbd_alt_mode_set, tethers, adb
    <2>4. x.startup = "BPTOOLS" =>
            (mode \in {"RNDIS_BPTOOLS_ETH", "RNDIS_BPTOOLS_ETH_ADB"} <=> t = 1)
      BY <1>3, <2>1, TlbTethers
    <2> HIDE DEF mode
    <2> DEFINE y == usbd_set_usb_mode(tethers, mode, k.fails)
    <2>5. Core(y) /\ Serves(x, y) /\ y.mode = mode /\ y.tether = t
      BY <1>8, <2>2
    <2> HIDE DEF y
    <2>6. Tethered(y)
      BY <2>4, <2>5 DEF Serves, Tethered
    <2> QED
      BY <2>3, <2>5, <2>6 DEF y
  <1> QED
    BY <1>9, <1>10, <1>11, <1>12

\* The wish of a PC: only out of the CD-ROM, or into CDROM2, is it granted.
LEMMA SwitchServes ==
  ASSUME NEW x, Core(x), NEW k \in Answers, NEW tag
  PROVE  LET y == usb_req_mode_switch(x, tag, k)
         IN  /\ Core(y) /\ Serves(x, y)
             /\ y.mode # x.mode => x.mode \in {"CDROM", "CDROM2"} \/ y.mode = "CDROM2"
             /\ Tethered(x) => Tethered(y)
  <1>1. k.fails \in SUBSET Failures
    BY AnswerFacts
  <1> DEFINE Granted == {"CDROM2", "NGP_ADB", "NGP", "RNDIS_ADB", "RNDIS"} \cup TabletModes
  <1>2. Granted \subseteq Modes /\ Granted \cap BpModes = {}
    BY OtherModes
  <1>3. CASE usb_req_mode_switch(x, tag, k) = x
    <2>1. Serves(x, x)
      BY SameServes DEF Core
    <2> QED
      BY <1>3, <2>1
  <1>4. CASE usb_req_mode_switch(x, tag, k) = SendOrDrop(x, "")
    <2>1. Core(SendOrDrop(x, "")) /\ Serves(x, SendOrDrop(x, "")) /\ SameMode(x, SendOrDrop(x, ""))
      BY SendSafe, SendServes
    <2> QED
      BY <1>4, <2>1 DEF SameMode, Tethered
  <1>5. ASSUME NEW mode \in Granted,
               usb_req_mode_switch(x, tag, k) = usbd_set_usb_mode(x, mode, k.fails),
               x.mode \in {"CDROM", "CDROM2"} \/ mode = "CDROM2"
        PROVE  LET y == usb_req_mode_switch(x, tag, k)
               IN  /\ Core(y) /\ Serves(x, y)
                   /\ y.mode # x.mode => x.mode \in {"CDROM", "CDROM2"} \/ y.mode = "CDROM2"
                   /\ Tethered(x) => Tethered(y)
    <2> DEFINE y == usbd_set_usb_mode(x, mode, k.fails)
    <2>1. mode \in Modes /\ mode \notin BpModes
      BY <1>2
    <2> HIDE DEF Granted
    <2>2. Core(y) /\ Serves(x, y) /\ y.tether = x.tether /\ y.mode \in {x.mode, mode}
      BY <1>1, <2>1, ModeServes
    <2> HIDE DEF y
    <2>3. Tethered(x) => Tethered(y)
      BY <2>1, <2>2 DEF Tethered, Serves
    <2>4. y.mode # x.mode => x.mode \in {"CDROM", "CDROM2"} \/ y.mode = "CDROM2"
      BY <1>5, <2>2
    <2> QED
      BY <1>5, <2>2, <2>3, <2>4 DEF y
  <1>6. \/ usb_req_mode_switch(x, tag, k) = x
        \/ usb_req_mode_switch(x, tag, k) = SendOrDrop(x, "")
        \/ \E mode \in Granted :
             /\ usb_req_mode_switch(x, tag, k) = usbd_set_usb_mode(x, mode, k.fails)
             /\ x.mode \in {"CDROM", "CDROM2"} \/ mode = "CDROM2"
    BY DEF usb_req_mode_switch, TabletModes
  <1> HIDE DEF Granted
  <1> QED
    BY <1>3, <1>4, <1>5, <1>6

\* The first and the last message of an enumeration leave the mode alone and
\* tell the application nothing but that the cable is in.
LEMMA EnumerationServes ==
  ASSUME NEW x, Core(x), x.cable = "USB", NEW k \in Answers
  PROVE  /\ Serves(x, GetDescriptor(x)) /\ SameMode(x, GetDescriptor(x))
         /\ Serves(x, Enumerated(x, k)) /\ SameMode(x, Enumerated(x, k))
  <1>0. x.online = 1
    BY DEF Core, View, Typed, DaemonState
  <1>1. Serves(x, GetDescriptor(x)) /\ SameMode(x, GetDescriptor(x))
    <2> DEFINE counted == [x EXCEPT !.des = IF @ < MaxDes THEN @ + 1 ELSE @]
               moved == [counted EXCEPT !.state = "ENUM_IN_PROGRESS"]
    <2>1. /\ Core(counted) /\ counted.online = 1 /\ counted.cable = "USB" /\ SameMode(x, counted)
          /\ counted.app = x.app /\ counted.told = x.told /\ counted.run = x.run
      BY <1>0, UsbdAssumption DEF Core, Typed, View, Clean, Exported, DaemonState, SameMode
    <2>2. GetDescriptor(x) \in {counted, SendOrDrop(moved, "attached")}
      BY DEF GetDescriptor
    <2> HIDE DEF counted
    <2>3. /\ Core(moved) /\ moved.cable = "USB" /\ SameMode(counted, moved)
          /\ moved.app = counted.app /\ moved.told = counted.told /\ moved.run = counted.run
      BY <2>1 DEF Core, Typed, View, Clean, Exported, DaemonState, SameMode
    <2> HIDE DEF moved
    <2>4. Serves(x, counted) /\ Serves(counted, moved)
      BY <2>1, <2>3, SameServes DEF Core, SameMode
    <2>5. Serves(moved, SendOrDrop(moved, "attached")) /\ SameMode(moved, SendOrDrop(moved, "attached"))
      BY <2>3, SendServes
    <2>6. Serves(x, SendOrDrop(moved, "attached"))
      BY <2>4, <2>5, ServesTrans
    <2> QED
      BY <2>1, <2>2, <2>3, <2>4, <2>5, <2>6 DEF SameMode
  <1>2. Serves(x, Enumerated(x, k)) /\ SameMode(x, Enumerated(x, k))
    <2> DEFINE state == [x EXCEPT !.state = "ENUMERATED"]
               enabled == EnableDone(state, k.fails)
    <2>1. /\ Core(state) /\ state.cable = x.cable /\ SameMode(x, state)
          /\ state.app = x.app /\ state.told = x.told /\ state.run = x.run
      BY <1>0 DEF Core, Typed, View, Clean, Exported, DaemonState, SameMode
    <2>2. Enumerated(x, k) \in {enabled, SendOrDrop(enabled, "")}
      BY DEF Enumerated
    <2> HIDE DEF state
    <2>3. Core(enabled) /\ SameGlobals(state, enabled)
      BY <2>1, AnswerFacts, EnableFacts
    <2> HIDE DEF enabled
    <2>4. Serves(x, state) /\ Serves(state, enabled) /\ SameMode(state, enabled)
      BY <2>1, <2>3, SameServes DEF Core, SameGlobals, SameMode
    <2>5. Serves(enabled, SendOrDrop(enabled, "")) /\ SameMode(enabled, SendOrDrop(enabled, ""))
      BY <2>3, SendServes
    <2>6. Serves(x, enabled) /\ Serves(x, SendOrDrop(enabled, ""))
      BY <2>4, <2>5, ServesTrans
    <2> QED
      BY <2>1, <2>2, <2>4, <2>5, <2>6 DEF SameMode
  <1> QED
    BY <1>1, <1>2

\* The part of DeviceEvent that handles ADB and tethering.
Status(x, m, k) ==
  LET told == IF m.adb = "none" THEN x ELSE Send(x, x.app, "")
  IN  IF Alt(x) /\ x.online = 1 THEN usbd_alt_mode_set(x, m.adb, m.tether, k)
      ELSE IF m.tether = "none" THEN told ELSE Send(told, x.app, "")

\* In normal mode it tells the application and leaves the mode alone.
LEMMA StatusServes ==
  ASSUME NEW x, Core(x), x.run = "running", NEW m, NEW k \in Answers
  PROVE  LET y == Status(x, m, k)
         IN  /\ Core(y) /\ Serves(x, y)
             /\ ~Alt(x) => y.mode = x.mode
             /\ -1 \notin AdbAnswers /\ Tethered(x) => Tethered(y)
  <1>1. CASE Alt(x) /\ x.online = 1
    BY <1>1, AltServes DEF Status
  <1>2. CASE ~(Alt(x) /\ x.online = 1)
    <2> DEFINE told == IF m.adb = "none" THEN x ELSE Send(x, x.app, "")
               again == Send(told, x.app, "")
    <2>1. x.app \in Clients \cup {NoApp}
      BY DEF Core, Typed, DaemonState
    <2>2. Serves(x, x) /\ SameMode(x, x)
      BY SameServes DEF Core, SameMode
    <2>3. Core(told) /\ Serves(x, told) /\ SameMode(x, told) /\ told.app = x.app
      BY <2>1, <2>2, SendSafe, SendServes
    <2>4. Status(x, m, k) \in {told, again}
      BY <1>2 DEF Status
    <2> HIDE DEF told
    <2>5. Core(again) /\ Serves(told, again) /\ SameMode(told, again)
      <3>1. again = Send(told, told.app, "")
        BY <2>3
      <3>2. Core(Send(told, told.app, "")) /\ Serves(told, Send(told, told.app, ""))
            /\ SameMode(told, Send(told, told.app, ""))
        BY <2>1, <2>3, SendSafe, SendServes
      <3> QED
        BY <3>1, <3>2
    <2> HIDE DEF again
    <2>6. Serves(x, again)
      BY <2>3, <2>5, ServesTrans
    <2> QED
      BY <2>3, <2>4, <2>5, <2>6 DEF SameMode, Tethered
  <1> QED
    BY <1>1, <1>2

-----------------------------------------------------------------------------
(* The handlers *)

\* Every handler keeps Safe.
Safe(x) == Core(x) /\ Factory(x)

\* Handling a uevent keeps Safe, also across a change of the cable.
LEMMA UeventSafe ==
  ASSUME NEW x, Safe(x), x.run = "running", NEW u \in UeventKind, NEW k \in Answers,
         switch \in Cables
  PROVE  Safe(process_usb_uevent_message(x, u, k))
  <1> DEFINE y == ReadCable(x)
  <1>0. Typed(x) /\ Clean(x)
    BY DEF Safe, Core
  <1>1. Core(y) /\ y.run = "running"
    <2>1. CASE switch = "UNKNOWN"
      <3>1. y = [x EXCEPT !.cable = "UNKNOWN", !.online = 0, !.state = "DETACHED", !.des = 0]
        BY <2>1 DEF ReadCable
      <3>2. 0 \in 0..MaxDes
        BY UsbdAssumption
      <3> HIDE DEF y
      <3>3. Typed(y) /\ y.run = "running"
        BY <1>0, <3>1, <3>2 DEF Typed, DaemonState, Cables
      <3>4. View(y) /\ Clean(y)
        BY <1>0, <3>1 DEF Typed, DaemonState, View, Clean, Exported
      <3> QED
        BY <3>3, <3>4 DEF Core
    <2>2. CASE switch # "UNKNOWN"
      <3>1. y = [x EXCEPT !.cable = switch, !.online = 1, !.state = "ATTACHED"]
        BY <2>2 DEF ReadCable
      <3> HIDE DEF y
      <3>2. Typed(y) /\ y.run = "running"
        BY <1>0, <3>1 DEF Typed, DaemonState
      <3>3. View(y) /\ Clean(y)
        BY <1>0, <2>2, <3>1 DEF Typed, DaemonState, View, Clean, Exported
      <3> QED
        BY <3>2, <3>3 DEF Core
    <2> QED
      BY <2>1, <2>2
  <1>2. Says(y.state) \in {"", "attached", "detached"}
    BY DEF Says
  <1>3. Core([y EXCEPT !.tether = 0]) /\ [y EXCEPT !.tether = 0].cable = y.cable
    BY <1>1 DEF Core, Typed, View, Clean, Exported, DaemonState
  <1> HIDE DEF y
  <1>4. Safe(CableChanged(y, k))
    <2>1. CASE y.cable = "FACTORY"
      BY <1>1, <2>1, FactoryModeFacts DEF CableChanged, Safe
    <2>2. CASE y.cable # "FACTORY" /\ ~Alt(y)
      BY <1>1, <1>2, <2>2, SendSafe DEF CableChanged, Safe, Factory
    <2>3. CASE y.cable = "USB" /\ Alt(y)
      BY <1>3, <2>3, DefaultServes DEF CableChanged, Safe, Factory, Serves
    <2>4. CASE y.cable # "FACTORY" /\ y.cable # "USB" /\ Alt(y)
      BY <1>1, <2>4 DEF CableChanged, Safe, Factory
    <2> QED
      BY <2>1, <2>2, <2>3, <2>4
  <1>5. Safe(Send(x, x.app, ""))
    <2>1. Core(x) /\ Factory(x)
      BY DEF Safe
    <2>2. x.app \in Clients \cup {NoApp}
      BY <1>0 DEF Typed, DaemonState
    <2> QED
      BY <2>1, <2>2, SendSafe DEF Safe
  <1> QED
    BY <1>4, <1>5 DEF process_usb_uevent_message, y

\* Handling a message of the driver keeps Safe.
LEMMA DeviceSafe ==
  ASSUME NEW x, Safe(x), x.run = "running", NEW m, NEW k \in Answers
  PROVE  Safe(DeviceEvent(x, m, k))
  <1> DEFINE told == IF m.adb = "none" THEN x ELSE Send(x, x.app, "")
             status == IF Alt(x) /\ x.online = 1 THEN usbd_alt_mode_set(x, m.adb, m.tether, k)
                       ELSE IF m.tether = "none" THEN told ELSE Send(told, x.app, "")
             switched == IF m.pc = "none" THEN status ELSE usb_req_mode_switch(status, m.pc, k)
  <1>1. k.fails \in SUBSET Failures
    BY AnswerFacts
  <1>2. x.app \in Clients \cup {NoApp}
    BY DEF Safe, Core, Typed, DaemonState
  <1>3. CASE x.cable = "FACTORY"
    <2>2. ASSUME NEW mode \in FactoryModes
          PROVE  Safe(usbd_set_usb_mode(x, mode, k.fails))
      <3>1. mode \in Modes
        BY ModeFacts
      <3> DEFINE y == usbd_set_usb_mode(x, mode, k.fails)
      <3>2. Core(y) /\ y.mode = mode
        BY <1>1, <3>1, SetModeFacts DEF Safe
      <3> HIDE DEF y
      <3> QED
        BY <3>2 DEF y, Safe, Factory
    <2>3. "NETWORK" \in FactoryModes /\ "NETWORK_ADB" \in FactoryModes
      BY DEF FactoryModes
    <2> QED
      BY <1>3, <2>2, <2>3 DEF DeviceEvent
  <1>4. CASE x.cable # "FACTORY"
    <2>1. Core(told) /\ told.cable = x.cable
      BY <1>2, SendSafe DEF Safe
    <2> HIDE DEF told
    <2>2. Core(status) /\ status.cable = x.cable
      <3>1. CASE Alt(x) /\ x.online = 1
        BY <3>1, AltServes DEF Safe, Serves
      <3>2. CASE ~(Alt(x) /\ x.online = 1)
        BY <1>2, <2>1, <3>2, SendSafe
      <3> QED
        BY <3>1, <3>2
    <2> HIDE DEF status
    <2>3. Core(switched) /\ switched.cable = x.cable
      BY <2>2, SwitchServes DEF Serves
    <2> HIDE DEF switched
    <2>4. ASSUME switched.cable = "USB", switched.online = 1
          PROVE  Core(GetDescriptor(switched)) /\ GetDescriptor(switched).cable = x.cable
      <3> DEFINE counted == [switched EXCEPT !.des = IF @ < MaxDes THEN @ + 1 ELSE @]
                 moved == [counted EXCEPT !.state = "ENUM_IN_PROGRESS"]
      <3>1. Core(counted) /\ counted.cable = x.cable
        BY <2>3, <2>4, UsbdAssumption DEF Core, Typed, View, Clean, Exported, DaemonState
      <3>a. counted.online = 1
        BY <2>3, <2>4 DEF Core, Typed, DaemonState
      <3> HIDE DEF counted
      <3>2. Core(moved) /\ moved.cable = x.cable
        BY <3>1, <3>a DEF Core, Typed, View, Clean, Exported, DaemonState
      <3>3. GetDescriptor(switched) \in {counted, SendOrDrop(moved, "attached")}
        BY DEF GetDescriptor, counted
      <3> HIDE DEF moved
      <3>4. Core(SendOrDrop(moved, "attached")) /\ SendOrDrop(moved, "attached").cable = x.cable
        BY <3>2, SendSafe
      <3> QED
        BY <3>1, <3>3, <3>4
    <2>5. ASSUME switched.cable = "USB", switched.online = 1
          PROVE  Core(Enumerated(switched, k)) /\ Enumerated(switched, k).cable = x.cable
      <3> DEFINE state == [switched EXCEPT !.state = "ENUMERATED"]
                 enabled == EnableDone(state, k.fails)
      <3>1. Core(state) /\ state.cable = x.cable
        BY <2>3, <2>5 DEF Core, Typed, View, Clean, Exported, DaemonState
      <3> HIDE DEF state
      <3>2. Core(enabled) /\ enabled.cable = x.cable
        BY <1>1, <3>1, EnableFacts DEF SameGlobals
      <3> HIDE DEF enabled
      <3> QED
        BY <3>2, SendSafe DEF Enumerated, state, enabled
    <2>6. x.cable = "USB" => switched.cable = "USB" /\ switched.online = 1
      BY <2>3 DEF Core, View, Typed, DaemonState
    <2>7. DeviceEvent(x, m, k) \in {status, switched}
          \/ /\ x.cable = "USB"
             /\ DeviceEvent(x, m, k) \in {GetDescriptor(switched), Enumerated(switched, k)}
      BY <1>4 DEF DeviceEvent, told, status, switched
    <2> QED
      BY <1>4, <2>2, <2>3, <2>4, <2>5, <2>6, <2>7 DEF Safe, Factory
  <1> QED
    BY <1>3, <1>4

\* Accepting a connection keeps Safe.
LEMMA ConnectionSafe ==
  ASSUME NEW x, Safe(x), NEW c \in Clients
  PROVE  Safe(NewConnection(x, c))
  <1> DEFINE saved == IF x.app = NoApp THEN [x EXCEPT !.app = c] ELSE x
             adb == Send(saved, c, "")
  <1>1. Typed(saved) /\ SameUsb(x, saved)
    BY DEF Safe, Core, Typed, DaemonState, SameUsb
  <1> HIDE DEF saved
  <1>2. Safe(saved)
    BY <1>1, SameUsbKeeps DEF Safe
  <1>3. Safe(adb)
    BY <1>2, SendSafe DEF Safe
  <1> HIDE DEF adb
  <1>4. Says(x.state) \in {"", "attached", "detached"}
    BY DEF Says
  <1>5. Safe(Send(adb, c, Says(x.state)))
    BY <1>3, <1>4, SendSafe DEF Safe
  <1> QED
    BY <1>3, <1>5 DEF NewConnection, saved, adb

\* Handling a request of the application keeps Safe.
LEMMA RequestSafe ==
  ASSUME NEW x, Safe(x), NEW r, NEW k \in Answers
  PROVE  Safe(usbd_socket_event(x, r, k))
  <1> DEFINE ok == SendOrDrop(x, "")
  <1>1. k.fails \in SUBSET Failures
    BY AnswerFacts
  <1>2. Safe(ok) /\ ok.cable = x.cable /\ Safe(SendOrDrop(ok, ""))
    BY SendSafe DEF Safe
  <1> HIDE DEF ok
  <1>3. ASSUME x.cable # "FACTORY", r \in Requestable
        PROVE  Safe(usbd_set_usb_mode(x, r, k.fails)) /\ Safe(usbd_set_usb_mode(ok, r, k.fails))
    <2>1. r \in Modes
      BY <1>3 DEF Requestable
    <2>2. ASSUME NEW y, Safe(y), y.cable = x.cable
          PROVE  Safe(usbd_set_usb_mode(y, r, k.fails))
      BY <1>1, <1>3, <2>1, <2>2, SetModeFacts DEF Safe, Factory
    <2> QED
      BY <1>2, <2>2
  <1> QED
    BY <1>2, <1>3 DEF usbd_socket_event, ok

-----------------------------------------------------------------------------
(* What the handlers do to the application and to the mode *)

\* A message of the driver, whatever it holds.
LEMMA DeviceServes ==
  ASSUME NEW x, Safe(x), x.run = "running", NEW m, NEW k \in Answers
  PROVE  LET y == DeviceEvent(x, m, k)
         IN  /\ Serves(x, y) /\ Decided(x, y)
             /\ -1 \notin AdbAnswers /\ Tethered(x) => Tethered(y)
  <1> DEFINE status == Status(x, m, k)
             switched == IF m.pc = "none" THEN status ELSE usb_req_mode_switch(status, m.pc, k)
  <1>1. k.fails \in SUBSET Failures /\ Core(x)
    BY AnswerFacts DEF Safe
  <1>2. CASE x.cable = "FACTORY"
    <2>1. ASSUME NEW mode \in FactoryModes
          PROVE  LET y == usbd_set_usb_mode(x, mode, k.fails)
                 IN  Serves(x, y) /\ y.cable = "FACTORY" /\ Tethered(y)
      <3>1. mode \in Modes /\ mode \notin BpModes
        BY ModeFacts, OtherModes
      <3> DEFINE y == usbd_set_usb_mode(x, mode, k.fails)
      <3>2. Serves(x, y) /\ y.mode = mode
        BY <1>1, <3>1, ModeServes
      <3> HIDE DEF y
      <3> QED
        BY <1>2, <3>1, <3>2 DEF y, Serves, Tethered
    <2>2. "NETWORK" \in FactoryModes /\ "NETWORK_ADB" \in FactoryModes
      BY DEF FactoryModes
    <2>3. Serves(x, x)
      BY <1>1, SameServes DEF Core
    <2>4. \/ DeviceEvent(x, m, k) = x
          \/ \E mode \in FactoryModes : DeviceEvent(x, m, k) = usbd_set_usb_mode(x, mode, k.fails)
      BY <1>2, <2>2 DEF DeviceEvent
    <2> QED
      BY <1>2, <2>1, <2>3, <2>4 DEF Decided
  <1>3. CASE x.cable # "FACTORY"
    <2>1. /\ Core(status) /\ Serves(x, status)
          /\ ~Alt(x) => status.mode = x.mode
          /\ -1 \notin AdbAnswers /\ Tethered(x) => Tethered(status)
      BY <1>1, StatusServes
    <2>2. DeviceEvent(x, m, k) \in {status, switched}
          \/ /\ x.cable = "USB"
             /\ DeviceEvent(x, m, k) \in {GetDescriptor(switched), Enumerated(switched, k)}
      BY <1>3 DEF DeviceEvent, Status
    <2> HIDE DEF status
    <2>3. Serves(status, status)
      BY <2>1, SameServes DEF Core
    <2>4. /\ Core(switched) /\ Serves(status, switched)
          /\ switched.mode # status.mode =>
               status.mode \in {"CDROM", "CDROM2"} \/ switched.mode = "CDROM2"
          /\ Tethered(status) => Tethered(switched)
      BY <2>1, <2>3, SwitchServes
    <2> HIDE DEF switched
    <2>5. Serves(x, switched)
      BY <2>1, <2>4, ServesTrans
    <2>6. ASSUME NEW y, y \in {GetDescriptor(switched), Enumerated(switched, k)}, x.cable = "USB"
          PROVE  Serves(x, y) /\ SameMode(switched, y)
      <3>1. switched.cable = "USB"
        BY <2>5, <2>6 DEF Serves
      <3>2. Serves(switched, y) /\ SameMode(switched, y)
        BY <2>4, <2>6, <3>1, EnumerationServes
      <3> QED
        BY <2>5, <3>2, ServesTrans
    <2> QED
      BY <2>1, <2>2, <2>4, <2>5, <2>6 DEF Decided, SameMode, Tethered
  <1> QED
    BY <1>2, <1>3

\* y is x after a uevent that left usbd with this cable.
Heard(x, y, cable) ==
  /\ y.startup = x.startup /\ y.app \in {x.app, NoApp} /\ y.cable = cable
  /\ \A c \in Clients \ {x.app} : y.told[c] = x.told[c]
  /\ Informed(x) => Informed(y)

\* A uevent.  A cable change that could be read is the cable from then on, and
\* the application knows it at once.
LEMMA UeventServes ==
  ASSUME NEW x, Safe(x), x.run = "running", NEW u \in UeventKind, NEW k \in Answers,
         switch \in Cables, Alt(x) => x.app = NoApp
  PROVE  LET y == process_usb_uevent_message(x, u, k)
         IN  /\ Heard(x, y, IF u = "switch" /\ "read" \notin k.fails THEN switch ELSE x.cable)
             /\ Decided(x, y)
             /\ Tethered(x) => Tethered(y)
  <1>1. Core(x) /\ Typed(x)
    BY DEF Safe, Core
  <1>2. CASE u = "other" \/ (u = "switch" /\ "read" \in k.fails)
    <2>1. process_usb_uevent_message(x, u, k) = x
      BY <1>2 DEF process_usb_uevent_message
    <2> QED
      BY <1>2, <2>1 DEF Decided, Heard
  <1>3. CASE u = "scsi"
    <2> DEFINE y == Send(x, x.app, "")
    <2>1. process_usb_uevent_message(x, u, k) = y
      BY <1>3 DEF process_usb_uevent_message
    <2>2. Serves(x, y) /\ SameMode(x, y)
      BY <1>1, SendServes
    <2> HIDE DEF y
    <2> QED
      BY <1>3, <2>1, <2>2 DEF Heard, Serves, SameMode, Decided, Tethered
  <1>4. CASE u = "switch" /\ "read" \notin k.fails
    <2> DEFINE y == ReadCable(x)
               z == CableChanged(y, k)
    <2>1. process_usb_uevent_message(x, u, k) = z
      BY <1>4 DEF process_usb_uevent_message
    <2>2. /\ Typed(y) /\ SameMode(x, y) /\ y.cable = switch
          /\ y.app = x.app /\ y.told = x.told /\ y.run = "running"
          /\ y.state \in {"ATTACHED", "DETACHED"}
      <3>1. CASE switch = "UNKNOWN"
        <4>1. y = [x EXCEPT !.cable = "UNKNOWN", !.online = 0, !.state = "DETACHED", !.des = 0]
          BY <3>1 DEF ReadCable
        <4>2. 0 \in 0..MaxDes
          BY UsbdAssumption
        <4> HIDE DEF y
        <4> QED
          BY <1>1, <3>1, <4>1, <4>2 DEF Typed, DaemonState, SameMode, Cables
      <3>2. CASE switch # "UNKNOWN"
        <4>1. y = [x EXCEPT !.cable = switch, !.online = 1, !.state = "ATTACHED"]
          BY <3>2 DEF ReadCable
        <4> HIDE DEF y
        <4> QED
          BY <1>1, <4>1 DEF Typed, DaemonState, SameMode
      <3> QED
        BY <3>1, <3>2
    <2>3. View(y) /\ Clean(y)
      BY <1>1 DEF ReadCable, Core, View, Clean, Exported, Typed, DaemonState, Cables
    <2> HIDE DEF y
    <2>4. Core(y)
      BY <2>2, <2>3 DEF Core
    <2>5. CASE y.cable = "FACTORY"
      <3>1. z = FactoryMode(y, k)
        BY <2>5 DEF CableChanged
      <3>2. Serves(y, z) /\ Tethered(z)
        BY <2>2, <2>4, <3>1, FactoryServes
      <3> HIDE DEF z
      <3>3. Informed(y)
        BY <2>5 DEF Informed, Truth
      <3> QED
        BY <1>4, <2>1, <2>2, <2>5, <3>2, <3>3 DEF Heard, Serves, SameMode, Decided
    <2>6. CASE y.cable # "FACTORY" /\ ~Alt(y)
      <3>1. z = SendOrDrop(y, Says(y.state))
        BY <2>6 DEF CableChanged
      <3>2. /\ Informed(z) /\ z.app \in {y.app, NoApp}
            /\ \A c \in Clients \ {y.app} : z.told[c] = y.told[c]
            /\ SameMode(y, z) /\ z.cable = y.cable
        BY <2>2, <2>4, <3>1, Announced
      <3> HIDE DEF z
      <3> QED
        BY <1>4, <2>1, <2>2, <3>2 DEF Heard, SameMode, Decided, Tethered
    <2>7. CASE y.cable = "USB" /\ Alt(y)
      <3> DEFINE off == [y EXCEPT !.tether = 0]
      <3>1. z = usbd_enumerate_default_mode(off, k)
        BY <2>7 DEF CableChanged
      <3>2. /\ Core(off) /\ off.tether = 0 /\ off.run = "running" /\ off.cable = y.cable
            /\ off.app = y.app /\ off.told = y.told /\ off.startup = y.startup
        BY <2>2, <2>4 DEF Core, Typed, View, Clean, Exported, DaemonState
      <3> HIDE DEF off
      <3>3. Serves(off, z) /\ Tethered(z)
        BY <3>1, <3>2, DefaultServes
      <3> HIDE DEF z
      <3>4. x.app = NoApp /\ off.app = NoApp
        BY <2>2, <2>7, <3>2 DEF SameMode, Alt
      <3>5. Informed(off)
        BY <3>4, UsbdAssumption DEF Informed
      <3>6. Alt(x)
        BY <2>2, <2>7 DEF Alt, SameMode
      <3>7. /\ z.startup = x.startup /\ z.app \in {x.app, NoApp} /\ z.cable = switch
            /\ \A c \in Clients \ {x.app} : z.told[c] = x.told[c]
            /\ Informed(z)
        BY <2>2, <3>2, <3>3, <3>5 DEF Serves, SameMode
      <3>8. Decided(x, z)
        BY <3>6 DEF Decided
      <3> QED
        BY <1>4, <2>1, <3>3, <3>7, <3>8 DEF Heard
    <2>8. CASE y.cable # "FACTORY" /\ y.cable # "USB" /\ Alt(y)
      <3>1. z = y
        BY <2>8 DEF CableChanged
      <3>2. y.app = NoApp
        BY <2>2, <2>8 DEF SameMode, Alt
      <3>3. Informed(y)
        BY <3>2, UsbdAssumption DEF Informed
      <3> QED
        BY <1>4, <2>1, <2>2, <3>1, <3>3 DEF Heard, SameMode, Decided, Tethered
    <2> QED
      BY <2>5, <2>6, <2>7, <2>8
  <1> QED
    BY <1>2, <1>3, <1>4 DEF UeventKind

\* A request of the application.
LEMMA RequestServes ==
  ASSUME NEW x, Core(x), NEW r, NEW k \in Answers
  PROVE  Serves(x, usbd_socket_event(x, r, k))
  <1> DEFINE ok == SendOrDrop(x, "")
  <1>1. k.fails \in SUBSET Failures
    BY AnswerFacts
  <1>2. Core(ok) /\ Serves(x, ok)
    BY SendSafe, SendServes
  <1>3. Serves(x, x)
    BY SameServes DEF Core
  <1> HIDE DEF ok
  <1>4. Serves(x, SendOrDrop(ok, ""))
    <2>1. Serves(ok, SendOrDrop(ok, ""))
      BY <1>2, SendServes
    <2> QED
      BY <1>2, <2>1, ServesTrans
  <1>5. ASSUME r \in Requestable
        PROVE  /\ Serves(x, usbd_set_usb_mode(x, r, k.fails))
               /\ Serves(x, usbd_set_usb_mode(ok, r, k.fails))
    <2>1. r \in Modes
      BY <1>5 DEF Requestable
    <2>2. Serves(x, usbd_set_usb_mode(x, r, k.fails)) /\ Serves(ok, usbd_set_usb_mode(ok, r, k.fails))
      BY <1>1, <1>2, <2>1, ModeServes
    <2> QED
      BY <1>2, <2>2, ServesTrans
  <1> QED
    BY <1>2, <1>3, <1>4, <1>5 DEF usbd_socket_event, ok

\* A new connection.  Either the application stays what it was, or c is the
\* application and was told the truth.
LEMMA ConnectionServes ==
  ASSUME NEW x, Core(x), NEW c \in Clients, c # x.app, Informed(x),
         ~Gone(c) => x.told[c] = "nothing"
  PROVE  LET y == NewConnection(x, c)
         IN  /\ SameMode(x, y) /\ y.cable = x.cable /\ Informed(y)
             /\ y.app \in {x.app, c}
             /\ \A e \in Clients \ {c} : y.told[e] = x.told[e]
  <1> DEFINE saved == IF x.app = NoApp THEN [x EXCEPT !.app = c] ELSE x
             adb == Send(saved, c, "")
             y == Send(adb, c, Says(x.state))
  <1>1. Says(x.state) \in {"attached", "detached"} /\ Typed(x)
    BY DEF Says, Core
  <1>2. /\ Typed(saved) /\ SameUsb(x, saved) /\ saved.told = x.told /\ saved.run = x.run
        /\ saved.app = IF x.app = NoApp THEN c ELSE x.app
    BY <1>1 DEF Typed, DaemonState, SameUsb
  <1> HIDE DEF saved
  <1>3. Typed(adb) /\ SameUsb(saved, adb) /\ adb.app = saved.app /\ Wrote(saved, adb, c, "")
    BY <1>2, SendKeeps, SendFields
  <1> HIDE DEF adb
  <1>4. Typed(y) /\ SameUsb(adb, y) /\ y.app = adb.app /\ Wrote(adb, y, c, Says(x.state))
    BY <1>1, <1>3, SendKeeps, SendFields
  <1>5. NewConnection(x, c) = IF x.cable = "FACTORY" \/ x.state = "DEFAULT" THEN adb ELSE y
    BY DEF NewConnection, saved, adb
  <1>6. ASSUME NEW z, z \in {adb, y}
        PROVE  /\ SameMode(x, z) /\ z.cable = x.cable /\ z.app = saved.app
               /\ \A e \in Clients \ {c} : z.told[e] = x.told[e]
               /\ z.run = "running" => x.run = "running"
    <2> HIDE DEF y
    <2>1. adb.told = x.told /\ (adb.run = "running" => x.run = "running")
      BY <1>2, <1>3 DEF Wrote
    <2>2. /\ \A e \in Clients \ {c} : y.told[e] = adb.told[e]
          /\ y.run = "running" => adb.run = "running"
      BY <1>4 DEF Wrote
    <2>3. SameMode(x, adb) /\ adb.cable = x.cable
      BY <1>2, <1>3 DEF SameUsb, SameMode
    <2>4. SameMode(adb, y) /\ y.cable = adb.cable
      BY <1>4 DEF SameUsb, SameMode
    <2> QED
      BY <1>3, <1>4, <1>6, <2>1, <2>2, <2>3, <2>4 DEF SameMode
  <1>7. adb.told[c] = x.told[c]
    BY <1>2, <1>3 DEF Wrote
  <1>8. ~Gone(c) /\ y.run = "running" => y.told[c] = Says(x.state)
    BY <1>1, <1>4 DEF Wrote
  <1> HIDE DEF y
  <1>9. x.app # NoApp => Informed(adb) /\ Informed(y)
    <2>1. ASSUME NEW z, z \in {adb, y}, x.app # NoApp
          PROVE  Informed(z)
      BY <1>2, <1>6, <2>1 DEF Informed
    <2> QED
      BY <2>1
  <1>10. x.app = NoApp /\ (x.cable = "FACTORY" \/ x.state = "DEFAULT") => Informed(adb)
    <2>1. x.state = "DEFAULT" => x.cable # "USB"
      BY DEF Core, View, Typed, DaemonState
    <2> QED
      BY <1>2, <1>6, <1>7, <2>1 DEF Informed, Truth
  <1>11. x.app = NoApp /\ ~(x.cable = "FACTORY" \/ x.state = "DEFAULT") => Informed(y)
    <2>1. ~(x.cable = "FACTORY" \/ x.state = "DEFAULT") => Truth(x.cable, Says(x.state))
      BY DEF Core, View, Typed, DaemonState, Says, Truth
    <2> QED
      BY <1>2, <1>6, <1>8, <2>1 DEF Informed
  <1>12. saved.app \in {x.app, c}
    BY <1>2
  <1> QED
    BY <1>5, <1>6, <1>9, <1>10, <1>11, <1>12

-----------------------------------------------------------------------------
(* The invariant *)

\* main() reaches its loop in a state that satisfies Safe, with the cable that
\* is in and with no application.
LEMMA StartedSafe ==
  ASSUME NEW startup \in Startups, NEW cable \in Cables, NEW k \in Answers
  PROVE  LET y == Started(startup, cable, k)
         IN  Safe(y) /\ y.cable = cable /\ y.app = NoApp /\ Tethered(y)
  <1> DEFINE fresh == [startup |-> startup, mode |-> "MIN", cable |-> cable,
                state |-> IF cable = "UNKNOWN" THEN "DEFAULT" ELSE "ATTACHED",
                online |-> IF cable = "UNKNOWN" THEN 0 ELSE 1,
                des |-> 0, tether |-> 0, app |-> NoApp, told |-> [c \in Clients |-> "nothing"],
                storage |-> 0, param |-> 0, lun |-> 0, mounted |-> 0, awaiting |-> 0,
                run |-> "running"]
  <1>1. 0 \in 0..MaxDes /\ "MIN" \in Modes
    BY UsbdAssumption DEF Modes
  <1>2. Typed(fresh) /\ fresh.run = "running" /\ fresh.cable = cable /\ fresh.app = NoApp /\ fresh.tether = 0
    BY <1>1 DEF Typed, DaemonState
  <1>3. View(fresh) /\ Clean(fresh) /\ fresh.mode \notin BpModes
    <2>1. /\ fresh.mode = "MIN" /\ fresh.cable = cable /\ fresh.des = 0
          /\ fresh.online = IF cable = "UNKNOWN" THEN 0 ELSE 1
          /\ fresh.state = IF cable = "UNKNOWN" THEN "DEFAULT" ELSE "ATTACHED"
          /\ fresh.storage = 0 /\ fresh.param = 0 /\ fresh.lun = 0
      OBVIOUS
    <2> HIDE DEF fresh
    <2>2. View(fresh)
      BY <2>1 DEF View
    <2>3. Clean(fresh)
      BY <2>1, ModeFacts DEF Clean
    <2>4. fresh.mode \notin BpModes
      BY <2>1 DEF BpModes
    <2> QED
      BY <2>2, <2>3, <2>4
  <1>4. Started(startup, cable, k) = IF cable = "FACTORY" THEN FactoryMode(fresh, k)
                                     ELSE IF cable = "USB" THEN usbd_enumerate_default_mode(fresh, k)
                                     ELSE fresh
    BY DEF Started
  <1> HIDE DEF fresh
  <1>5. Core(fresh)
    BY <1>2, <1>3 DEF Core
  <1>6. CASE cable = "FACTORY"
    BY <1>2, <1>4, <1>5, <1>6, FactoryModeFacts, FactoryServes DEF Safe
  <1>7. CASE cable = "USB"
    BY <1>2, <1>4, <1>5, <1>7, DefaultServes DEF Safe, Factory, Serves
  <1>8. CASE cable = "UNKNOWN"
    BY <1>2, <1>3, <1>4, <1>5, <1>8 DEF Safe, Factory, Tethered
  <1> QED
    BY <1>6, <1>7, <1>8 DEF Cables

\* The driver's note of what it owes, the inboxes and the application are not
\* part of what Safe speaks about.
LEMMA OtherFieldsSafe ==
  ASSUME NEW x, Safe(x)
  PROVE  /\ \A b \in {0, 1} : Safe([x EXCEPT !.awaiting = b])
         /\ \A c \in Clients : Safe([x EXCEPT !.told[c] = "nothing"])
         /\ Safe([x EXCEPT !.app = NoApp])
  <1>1. Typed(x)
    BY DEF Safe, Core
  <1>2. ASSUME NEW b \in {0, 1}
        PROVE  Safe([x EXCEPT !.awaiting = b])
    <2>1. Typed([x EXCEPT !.awaiting = b]) /\ SameUsb(x, [x EXCEPT !.awaiting = b])
      BY <1>1 DEF Typed, DaemonState, SameUsb
    <2> QED
      BY <2>1, SameUsbKeeps DEF Safe
  <1>3. ASSUME NEW c \in Clients
        PROVE  Safe([x EXCEPT !.told[c] = "nothing"])
    <2> DEFINE told == [x.told EXCEPT ![c] = "nothing"]
    <2>1. told \in [Clients -> {"nothing", "attached", "detached"}]
      BY <1>1 DEF Typed, DaemonState
    <2>2. [x EXCEPT !.told[c] = "nothing"] = [x EXCEPT !.told = told]
      OBVIOUS
    <2> HIDE DEF told
    <2>3. Typed([x EXCEPT !.told = told]) /\ SameUsb(x, [x EXCEPT !.told = told])
      BY <1>1, <2>1 DEF Typed, DaemonState, SameUsb
    <2> QED
      BY <2>2, <2>3, SameUsbKeeps DEF Safe
  <1>4. Safe([x EXCEPT !.app = NoApp])
    <2>1. Typed([x EXCEPT !.app = NoApp]) /\ SameUsb(x, [x EXCEPT !.app = NoApp])
      BY <1>1 DEF Typed, DaemonState, SameUsb
    <2> QED
      BY <2>1, SameUsbKeeps DEF Safe
  <1> QED
    BY <1>2, <1>3, <1>4

\* What surrounds the daemon has its type.
Rest ==
  /\ ready \subseteq {"uevent", "device", "server", "app"}
  /\ switch \in Cables
  /\ uevents \in Seq(UeventKind)
  /\ missed \in BOOLEAN
  /\ device \in Seq(DeviceMessages)
  /\ conn \in [Clients -> {"idle", "waiting", "open", "aborted", "gone"}]
  /\ requests \in [Clients -> Seq(Requests)]

Inv == Rest /\ NeverBlocks /\ Safe(d)

\* The inductive invariant implies the properties.
LEMMA InvImplies ==
  ASSUME Inv
  PROVE  /\ TypeOK /\ CableView /\ FactoryHolds /\ NeverBlocks
         /\ "lun" \notin Failures => NothingLeftBehind
  <1>1. TypeOK
    BY DEF Inv, Rest, TypeOK, Safe, Core, Typed
  <1>2. CableView
    BY DEF Inv, Safe, Core, View, CableView
  <1>3. FactoryHolds
    BY DEF Inv, Safe, Factory, FactoryHolds
  <1>4. ASSUME "lun" \notin Failures
        PROVE  NothingLeftBehind
    BY <1>4 DEF Inv, Safe, Core, Clean, Exported, NothingLeftBehind
  <1> QED
    BY <1>1, <1>2, <1>3, <1>4 DEF Inv

\* It holds when the loop is entered.
LEMMA InvInit ==
  ASSUME Init
  PROVE  Inv
  <1>1. Safe(d)
    BY StartedSafe, UsbdAssumption DEF Init
  <1>2. uevents \in Seq(UeventKind) /\ device \in Seq(DeviceMessages)
    BY DEF Init
  <1>3. requests \in [Clients -> Seq(Requests)]
    BY DEF Init
  <1>4. conn \in [Clients -> {"idle", "waiting", "open", "aborted", "gone"}]
    BY DEF Init
  <1>5. NeverBlocks /\ ready \subseteq {} /\ switch \in Cables /\ missed \in BOOLEAN
    BY DEF Init, NeverBlocks
  <1> QED
    BY <1>1, <1>2, <1>3, <1>4, <1>5 DEF Inv, Rest

\* Every step of the daemon and of its surroundings keeps it.
LEMMA InvNext ==
  ASSUME Inv, [Next]_vars
  PROVE  Inv'
  <1>0. Rest /\ NeverBlocks /\ Safe(d) /\ d.app \in Clients \cup {NoApp}
    BY DEF Inv, Safe, Core, Typed, DaemonState
  <1>1. CASE Select
    <2>1. ready' = Readable /\ UNCHANGED <<d, switch, uevents, missed, device, conn, requests>>
      BY <1>1 DEF Select
    <2>2. UNCHANGED Waiting
      BY <2>1 DEF Waiting
    <2>3. Rest'
      BY <1>0, <2>1 DEF Rest, Readable
    <2>4. NeverBlocks'
      BY <2>1, <2>2 DEF NeverBlocks, Readable
    <2> QED
      BY <1>0, <2>1, <2>3, <2>4 DEF Inv
  <1>2. CASE OnUevent
    <2>1. Head(uevents) \in UeventKind /\ Tail(uevents) \in Seq(UeventKind)
      <3>1. uevents \in Seq(UeventKind) /\ uevents # <<>>
        BY <1>0, <1>2 DEF Rest, NeverBlocks, OnUevent
      <3> QED
        BY <3>1
    <2>2. Safe(d)'
      BY <1>0, <1>2, <2>1, UeventSafe DEF OnUevent, Running, Rest
    <2>a. missed' \in BOOLEAN
      <3>1. PICK k \in Answers :
              missed' = IF Head(uevents) = "switch" THEN "read" \in k.fails ELSE missed
        BY <1>2 DEF OnUevent
      <3> DEFINE lost == "read" \in k.fails
      <3>a. lost \in BOOLEAN
        OBVIOUS
      <3>b. missed' = IF Head(uevents) = "switch" THEN lost ELSE missed
        BY <3>1
      <3> HIDE DEF lost
      <3>2. CASE Head(uevents) = "switch"
        BY <3>2, <3>a, <3>b
      <3>3. CASE Head(uevents) # "switch"
        BY <1>0, <3>1, <3>3, Zenon DEF Rest
      <3> QED
        BY <3>2, <3>3
    <2>b. ready' \subseteq ready
      BY <1>2 DEF OnUevent, Visited
    <2>3. Rest'
      BY <1>0, <1>2, <2>1, <2>a, <2>b DEF OnUevent, Rest
    <2>4. NeverBlocks'
      BY <1>0, <1>2 DEF OnUevent, NeverBlocks, Visited, Waiting
    <2> QED
      BY <2>2, <2>3, <2>4 DEF Inv
  <1>3. CASE OnDevice
    <2>1. Tail(device) \in Seq(DeviceMessages)
      <3>1. device \in Seq(DeviceMessages) /\ device # <<>>
        BY <1>0, <1>3 DEF Rest, NeverBlocks, OnDevice
      <3> QED
        BY <3>1
    <2>2. Safe(d)'
      BY <1>0, <1>3, DeviceSafe DEF OnDevice, Running
    <2>3. Rest'
      BY <1>0, <1>3, <2>1 DEF OnDevice, Rest, Visited
    <2>4. NeverBlocks'
      BY <1>0, <1>3 DEF OnDevice, NeverBlocks, Visited, Waiting
    <2> QED
      BY <2>2, <2>3, <2>4 DEF Inv
  <1>4. CASE OnServer
    <2>1. Safe(d)'
      BY <1>0, <1>4, ConnectionSafe DEF OnServer, Waiting
    <2>2. Rest'
      BY <1>0, <1>4 DEF OnServer, Rest, Visited, Waiting
    <2>3. NeverBlocks'
      <3>1. /\ ready' \subseteq {"app"} /\ UNCHANGED requests
            /\ "app" \in ready' => "app" \in ready /\ d'.app = d.app
        BY <1>0, <1>4 DEF OnServer, Rest, Visited
      <3>2. PICK c \in Waiting : conn' = [conn EXCEPT ![c] = IF @ = "waiting" THEN "open" ELSE "gone"]
        BY <1>4 DEF OnServer
      <3>3. ASSUME NEW a \in Clients, conn[a] = "gone"
            PROVE  conn'[a] = "gone"
        BY <1>0, <3>2, <3>3 DEF Rest, Waiting
      <3>4. "app" \in ready => d.app # NoApp /\ d.app \in Clients
        BY <1>0 DEF NeverBlocks, Safe, Core, Typed, DaemonState
      <3> QED
        BY <1>0, <3>1, <3>3, <3>4 DEF NeverBlocks
    <2> QED
      BY <2>1, <2>2, <2>3 DEF Inv
  <1>5. CASE OnRequest
    <2>1. Safe(d)'
      BY <1>0, <1>5, RequestSafe DEF OnRequest
    <2>a. d.app \in Clients
      BY <1>0, <1>5 DEF OnRequest, NeverBlocks
    <2>b. requests' \in [Clients -> Seq(Requests)]
      BY <1>0, <1>5, <2>a DEF OnRequest, Rest
    <2>c. ready' \subseteq ready
      BY <1>5 DEF OnRequest, Visited
    <2>2. Rest'
      BY <1>0, <1>5, <2>b, <2>c DEF OnRequest, Rest
    <2>3. NeverBlocks'
      BY <1>0, <1>5 DEF OnRequest, NeverBlocks, Visited, Waiting
    <2> QED
      BY <2>1, <2>2, <2>3 DEF Inv
  <1>6. CASE OnHangup
    <2>1. Safe(d)'
      BY <1>0, <1>6, OtherFieldsSafe DEF OnHangup
    <2>2. Rest'
      BY <1>0, <1>6 DEF OnHangup, Rest, Visited
    <2>3. NeverBlocks'
      BY <1>0, <1>6 DEF OnHangup, NeverBlocks, Visited, Waiting
    <2> QED
      BY <2>1, <2>2, <2>3 DEF Inv
  <1>7. CASE Cable
    <2>1. Safe(d)'
      BY <1>0, <1>7, OtherFieldsSafe DEF Cable
    <2>a. missed' \in BOOLEAN
      BY <1>0, <1>7 DEF Cable, Rest
    <2>b. uevents' \in Seq(UeventKind)
      <3>1. "switch" \in UeventKind
        BY DEF UeventKind
      <3>2. uevents' \in {Append(uevents, "switch"), uevents}
        BY <1>7 DEF Cable
      <3>3. uevents \in Seq(UeventKind)
        BY <1>0 DEF Rest
      <3>4. Append(uevents, "switch") \in Seq(UeventKind)
        BY <3>1, <3>3
      <3> QED
        BY <3>2, <3>3, <3>4
    <2>2. Rest'
      BY <1>0, <1>7, <2>a, <2>b DEF Cable, Rest
    <2>3. NeverBlocks'
      BY <1>0, <1>7 DEF Cable, Rest, NeverBlocks, Waiting
    <2> QED
      BY <2>1, <2>2, <2>3 DEF Inv
  <1>8. CASE OtherUevent
    <2>1. PICK u \in UeventKinds : uevents' = Append(uevents, u)
      BY <1>8 DEF OtherUevent
    <2>2. uevents' \in Seq(UeventKind) /\ uevents' # <<>>
      BY <1>0, <2>1, UsbdAssumption DEF Rest
    <2>3. UNCHANGED <<d, ready, switch, missed, device, conn, requests>>
      BY <1>8 DEF OtherUevent
    <2> QED
      BY <1>0, <2>2, <2>3 DEF Rest, NeverBlocks, Waiting, Inv
  <1>9. ASSUME NEW m \in DeviceMessages, Driver(m)
        PROVE  Inv'
    <2>1. Safe(d)'
      BY <1>0, <1>9, OtherFieldsSafe DEF Driver
    <2>2. Rest'
      BY <1>0, <1>9 DEF Driver, Rest
    <2>a. device' # <<>>
      BY <1>0, <1>9 DEF Driver, Rest
    <2>b. d'.app = d.app
      BY <1>0, <1>9 DEF Driver, Safe, Core, Typed, DaemonState
    <2>3. NeverBlocks'
      BY <1>0, <1>9, <2>a, <2>b DEF Driver, NeverBlocks, Waiting
    <2> QED
      BY <2>1, <2>2, <2>3 DEF Inv
  <1>10. ASSUME NEW c \in Clients, Connect(c)
         PROVE  Inv'
    <2>1. Safe(d)'
      BY <1>0, <1>10, OtherFieldsSafe DEF Connect
    <2>2. Rest'
      BY <1>0, <1>10 DEF Connect, Rest
    <2>3. NeverBlocks'
      BY <1>0, <1>10 DEF Connect, Rest, NeverBlocks, Waiting
    <2> QED
      BY <2>1, <2>2, <2>3 DEF Inv
  <1>11. ASSUME NEW c \in Clients, Request(c)
         PROVE  Inv'
    <2>1. Rest'
      BY <1>0, <1>11 DEF Request, Rest
    <2>a. PICK r \in Requests : requests' = [requests EXCEPT ![c] = Append(@, r)]
      BY <1>11 DEF Request
    <2>b. requests \in [Clients -> Seq(Requests)]
      BY <1>0 DEF Rest
    <2>d. ASSUME NEW q \in Seq(Requests)
          PROVE  Append(q, r) # <<>>
      BY AppendProperties
    <2>c. \A e \in Clients : requests[e] # <<>> => requests'[e] # <<>>
      BY <2>a, <2>b, <2>d
    <2>2. NeverBlocks'
      BY <1>0, <1>11, <2>c DEF Request, NeverBlocks, Waiting
    <2> QED
      BY <1>0, <1>11, <2>1, <2>2 DEF Request, Inv
  <1>12. ASSUME NEW c \in Clients, Close(c)
         PROVE  Inv'
    <2>1. Rest'
      BY <1>0, <1>12 DEF Close, Rest
    <2>2. NeverBlocks'
      BY <1>0, <1>12 DEF Close, Rest, NeverBlocks, Waiting
    <2> QED
      BY <1>0, <1>12, <2>1, <2>2 DEF Close, Inv
  <1>13. CASE UNCHANGED vars
    BY <1>0, <1>13 DEF vars, Rest, NeverBlocks, Waiting, Inv
  <1> QED
    BY <1>1, <1>2, <1>3, <1>4, <1>5, <1>6, <1>7, <1>8, <1>9, <1>10, <1>11, <1>12, <1>13
    DEF Next, Daemon, Environment

-----------------------------------------------------------------------------
(* The application's view of the cable is inductive *)

NoSwitch(q) == \A i \in DOMAIN q : q[i] # "switch"

\* An alternate start-up has no application.
AltAlone == Alt(d) => d.app = NoApp /\ \A c \in Clients : conn[c] = "idle"

\* The application was accepted, and who waits was told nothing.
Accepted ==
  \A c \in Clients :
    /\ d.app = c => conn[c] \in {"open", "gone"}
    /\ conn[c] = "waiting" => d.told[c] = "nothing"

\* usbd knows the cable unless a change waits to be read or was lost.
Fresh == ~missed /\ NoSwitch(uevents) => d.cable = switch

AppInv == Informed(d) /\ AltAlone /\ Accepted /\ Fresh

\* A cable change in the queue is at its head or behind it.
LEMMA NoSwitchTail ==
  ASSUME NEW q \in Seq(UeventKind), q # <<>>, Head(q) # "switch", NoSwitch(Tail(q))
  PROVE  NoSwitch(q)
  <1> SUFFICES ASSUME NEW i \in DOMAIN q
               PROVE  q[i] # "switch"
    BY DEF NoSwitch
  <1>1. CASE i = 1
    BY <1>1
  <1>2. CASE i # 1
    <2>1. i - 1 \in DOMAIN Tail(q) /\ Tail(q)[i - 1] = q[i]
      BY <1>2
    <2> QED
      BY <2>1 DEF NoSwitch
  <1> QED
    BY <1>1, <1>2

\* A uevent that arrives hides none.
LEMMA NoSwitchAppend ==
  ASSUME NEW q \in Seq(UeventKind), NEW u \in UeventKind, NoSwitch(Append(q, u))
  PROVE  NoSwitch(q) /\ u # "switch"
  <1> DEFINE r == Append(q, u)
  <1>1. Len(q) + 1 \in DOMAIN r /\ r[Len(q) + 1] = u
    BY AppendProperties
  <1>2. \A i \in DOMAIN q : i \in DOMAIN r /\ r[i] = q[i]
    BY AppendProperties
  <1> HIDE DEF r
  <1>3. NoSwitch(r)
    BY DEF r
  <1> QED
    BY <1>1, <1>2, <1>3 DEF NoSwitch

\* The properties follow.
LEMMA AppImplies ==
  ASSUME AppInv
  PROVE  AppUpToDate
  BY DEF AppInv, Informed, Truth, Fresh, NoSwitch, AppUpToDate, Running

\* A handler that serves the application, or informs it, keeps the invariant.
LEMMA HandlerKeeps ==
  ASSUME Inv, AppInv, conn' = conn, d'.startup = d.startup, d'.app \in {d.app, NoApp},
         \A c \in Clients \ {d.app} : d'.told[c] = d.told[c],
         Informed(d'), Fresh'
  PROVE  AppInv'
  <1>1. Informed(d)'
    BY DEF Informed, Gone
  <1>2. AltAlone'
    BY DEF AppInv, AltAlone, Alt
  <1>3. Accepted'
    <2> SUFFICES ASSUME NEW c \in Clients
                 PROVE  /\ d'.app = c => conn[c] \in {"open", "gone"}
                        /\ conn[c] = "waiting" => d'.told[c] = "nothing"
      BY DEF Accepted
    <2>1. d'.app = c => d.app = c
      BY UsbdAssumption
    <2>2. conn[c] = "waiting" => d.app # c /\ d.told[c] = "nothing"
      BY DEF AppInv, Accepted
    <2> QED
      BY <2>1, <2>2 DEF AppInv, Accepted
  <1> QED
    BY <1>1, <1>2, <1>3 DEF AppInv

\* It holds when the loop is entered.
LEMMA AppInit ==
  ASSUME Init
  PROVE  AppInv
  <1>1. PICK startup \in BootedAs, k \in Answers : d = Started(startup, switch, k)
    BY DEF Init
  <1>2. d.cable = switch /\ d.app = NoApp
    BY <1>1, StartedSafe, UsbdAssumption DEF Init
  <1>3. conn = [c \in Clients |-> "idle"]
    BY DEF Init
  <1>4. Informed(d)
    BY <1>2, UsbdAssumption DEF Informed
  <1>5. AltAlone
    BY <1>2, <1>3 DEF AltAlone
  <1>6. Accepted
    BY <1>2, <1>3, UsbdAssumption DEF Accepted
  <1>7. Fresh
    BY <1>2 DEF Fresh
  <1> QED
    BY <1>4, <1>5, <1>6, <1>7 DEF AppInv

\* Every step keeps it.
LEMMA AppNext ==
  ASSUME Inv, AppInv, [Next]_vars
  PROVE  AppInv'
  <1>0. /\ Rest /\ NeverBlocks /\ Safe(d) /\ Core(d) /\ Typed(d)
        /\ d.app \in Clients \cup {NoApp} /\ NoApp \notin Clients
    BY UsbdAssumption DEF Inv, Safe, Core, Typed, DaemonState
  <1>a. Informed(d) /\ AltAlone /\ Accepted /\ Fresh
    BY DEF AppInv
  <1>b. ASSUME conn' = conn, Serves(d, d'), UNCHANGED <<uevents, missed, switch>>
        PROVE  AppInv'
    <2>1. Fresh'
      BY <1>a, <1>b DEF Fresh, Serves
    <2> QED
      BY <1>a, <1>b, <2>1, HandlerKeeps DEF Serves
  <1>c. Serves(d, d)
    BY <1>0, SameServes
  <1>1. CASE Select
    BY <1>1, <1>b, <1>c DEF Select
  <1>2. CASE OnUevent
    <2> DEFINE u == Head(uevents)
    <2>1. uevents \in Seq(UeventKind) /\ uevents # <<>> /\ u \in UeventKind
      <3>1. uevents \in Seq(UeventKind) /\ uevents # <<>>
        BY <1>0, <1>2 DEF Rest, NeverBlocks, OnUevent
      <3> QED
        BY <3>1
    <2>2. PICK k \in Answers :
            /\ d' = process_usb_uevent_message(d, u, k)
            /\ missed' = IF u = "switch" THEN "read" \in k.fails ELSE missed
      BY <1>2 DEF OnUevent
    <2>3. uevents' = Tail(uevents) /\ switch' = switch /\ conn' = conn
      BY <1>2 DEF OnUevent
    <2> HIDE DEF u
    <2>4. /\ d.run = "running" /\ switch \in Cables /\ (Alt(d) => d.app = NoApp)
      BY <1>0, <1>2, <1>a DEF OnUevent, Running, Rest, AltAlone
    <2>5. /\ d'.startup = d.startup /\ d'.app \in {d.app, NoApp}
          /\ \A c \in Clients \ {d.app} : d'.told[c] = d.told[c]
          /\ Informed(d) => Informed(d')
          /\ d'.cable = IF u = "switch" /\ "read" \notin k.fails THEN switch ELSE d.cable
      <3> DEFINE cable == IF u = "switch" /\ "read" \notin k.fails THEN switch ELSE d.cable
      <3>1. Heard(d, d', cable)
        BY <1>0, <2>1, <2>2, <2>4, UeventServes
      <3> HIDE DEF cable
      <3> QED
        BY <3>1 DEF Heard, cable
    <2>6. Fresh'
      <3>1. CASE u = "switch"
        BY <2>2, <2>3, <2>5, <3>1 DEF Fresh
      <3>2. CASE u # "switch"
        <4>1. NoSwitch(Tail(uevents)) => NoSwitch(uevents)
          BY <2>1, <3>2, NoSwitchTail DEF u
        <4> QED
          BY <1>a, <2>2, <2>3, <2>5, <3>2, <4>1 DEF Fresh
      <3> QED
        BY <3>1, <3>2
    <2> QED
      BY <1>a, <2>3, <2>5, <2>6, HandlerKeeps
  <1>3. CASE OnDevice
    <2>1. Serves(d, d')
      BY <1>0, <1>3, DeviceServes DEF OnDevice, Running
    <2> QED
      BY <1>3, <1>b, <2>1 DEF OnDevice
  <1>4. CASE OnServer
    <2>1. PICK c \in Waiting :
            /\ d' = NewConnection(d, c)
            /\ conn' = [conn EXCEPT ![c] = IF @ = "waiting" THEN "open" ELSE "gone"]
      BY <1>4 DEF OnServer
    <2>2. UNCHANGED <<uevents, missed, switch>>
      BY <1>4 DEF OnServer
    <2>3. c \in Clients /\ conn[c] \in {"waiting", "aborted"}
      BY <2>1 DEF Waiting
    <2>4. c # d.app /\ (~Gone(c) => d.told[c] = "nothing")
      BY <1>a, <2>3, UsbdAssumption DEF Accepted, Gone
    <2>5. /\ SameMode(d, d') /\ d'.cable = d.cable /\ Informed(d')
          /\ d'.app \in {d.app, c}
          /\ \A e \in Clients \ {c} : d'.told[e] = d.told[e]
      BY <1>0, <1>a, <2>1, <2>3, <2>4, ConnectionServes
    <2>6. /\ \A e \in Clients \ {c} : conn'[e] = conn[e]
          /\ conn'[c] = IF conn[c] = "waiting" THEN "open" ELSE "gone"
      BY <1>0, <2>1, <2>3 DEF Rest
    <2>7. Informed(d)'
      <3>1. ASSUME NEW e \in Clients, ~Gone(e)'
            PROVE  ~Gone(e)
        BY <2>3, <2>6, <3>1, UsbdAssumption DEF Gone
      <3> QED
        BY <2>5, <3>1 DEF Informed
    <2>8. AltAlone'
      BY <1>a, <2>3, <2>5 DEF AltAlone, Alt, SameMode
    <2>9. Accepted'
      BY <1>a, <2>5, <2>6 DEF Accepted
    <2>10. Fresh'
      BY <1>a, <2>2, <2>5 DEF Fresh
    <2> QED
      BY <2>7, <2>8, <2>9, <2>10 DEF AppInv
  <1>5. CASE OnRequest
    <2>1. Serves(d, d')
      BY <1>0, <1>5, RequestServes DEF OnRequest
    <2> QED
      BY <1>5, <1>b, <2>1 DEF OnRequest
  <1>6. CASE OnHangup
    <2>1. d' = [d EXCEPT !.app = NoApp] /\ UNCHANGED <<uevents, missed, switch>>
      BY <1>6 DEF OnHangup
    <2>2. /\ d'.app = NoApp /\ d'.told = d.told /\ d'.startup = d.startup /\ d'.cable = d.cable
      BY <1>0, <2>1 DEF Typed, DaemonState
    <2>3. d.app \in Clients
      BY <1>0, <1>6 DEF OnHangup, NeverBlocks
    <2>4. /\ \A e \in Clients \ {d.app} : conn'[e] = conn[e]
          /\ conn'[d.app] \in {"idle", conn[d.app]}
      BY <1>0, <1>6, <2>3 DEF OnHangup, Rest
    <2>5. conn[d.app] \in {"open", "gone"}
      BY <1>a, <2>3 DEF Accepted
    <2>6. Informed(d)'
      BY <1>0, <2>2 DEF Informed
    <2>7. AltAlone'
      BY <1>a, <2>2, <2>4 DEF AltAlone, Alt
    <2>8. Accepted'
      BY <1>0, <1>a, <2>2, <2>4, <2>5 DEF Accepted
    <2>9. Fresh'
      BY <1>a, <2>1, <2>2 DEF Fresh
    <2> QED
      BY <2>6, <2>7, <2>8, <2>9 DEF AppInv
  <1>7. CASE Cable
    <2>1. /\ conn' = conn /\ Typed(d') /\ d'.startup = d.startup /\ d'.cable = d.cable
          /\ d'.app = d.app /\ d'.told = d.told /\ d'.run = d.run
      BY <1>0, <1>7 DEF Cable, Typed, DaemonState
    <2>2. Serves(d, d')
      BY <2>1, SameServes
    <2>3. missed' \/ uevents' = Append(uevents, "switch")
      BY <1>7 DEF Cable
    <2>4. ~NoSwitch(Append(uevents, "switch"))
      <3>1. uevents \in Seq(UeventKind) /\ "switch" \in UeventKind
        BY <1>0 DEF Rest, UeventKind
      <3> QED
        BY <3>1, NoSwitchAppend
    <2>5. Fresh'
      BY <2>3, <2>4 DEF Fresh
    <2> QED
      BY <1>a, <2>1, <2>2, <2>5, HandlerKeeps DEF Serves
  <1>8. CASE OtherUevent
    <2>1. PICK u \in UeventKinds : uevents' = Append(uevents, u)
      BY <1>8 DEF OtherUevent
    <2>2. UNCHANGED <<d, switch, missed, conn>>
      BY <1>8 DEF OtherUevent
    <2>3. NoSwitch(uevents)' => NoSwitch(uevents)
      <3>1. uevents \in Seq(UeventKind) /\ u \in UeventKind
        BY <1>0, UsbdAssumption DEF Rest
      <3>2. NoSwitch(uevents)' = NoSwitch(Append(uevents, u))
        BY <2>1 DEF NoSwitch
      <3> QED
        BY <3>1, <3>2, NoSwitchAppend
    <2>4. Fresh'
      BY <1>a, <2>2, <2>3 DEF Fresh
    <2> QED
      BY <1>a, <1>c, <2>2, <2>4, HandlerKeeps DEF Serves
  <1>9. ASSUME NEW m \in DeviceMessages, Driver(m)
        PROVE  AppInv'
    <2>1. /\ Typed(d') /\ d'.startup = d.startup /\ d'.cable = d.cable
          /\ d'.app = d.app /\ d'.told = d.told /\ d'.run = d.run
      BY <1>0, <1>9 DEF Driver, Typed, DaemonState
    <2>2. Serves(d, d')
      BY <2>1, SameServes
    <2> QED
      BY <1>9, <1>b, <2>2 DEF Driver
  <1>10. ASSUME NEW c \in Clients, Connect(c)
         PROVE  AppInv'
    <2>1. /\ conn[c] = "idle" /\ conn' = [conn EXCEPT ![c] = "waiting"] /\ ~Alt(d)
          /\ d' = [d EXCEPT !.told[c] = "nothing"] /\ UNCHANGED <<uevents, missed, switch>>
      BY <1>10 DEF Connect
    <2>2. /\ d'.startup = d.startup /\ d'.cable = d.cable /\ d'.app = d.app /\ d'.run = d.run
          /\ d'.told = [d.told EXCEPT ![c] = "nothing"]
      BY <1>0, <2>1 DEF Typed, DaemonState
    <2>3. d.app # c
      BY <1>a, <2>1 DEF Accepted
    <2>4. /\ \A e \in Clients \ {c} : conn'[e] = conn[e] /\ d'.told[e] = d.told[e]
          /\ d'.told[c] = "nothing"
      BY <1>0, <2>1, <2>2 DEF Rest, Typed, DaemonState
    <2>5. Informed(d)'
      BY <1>a, <2>2, <2>3, <2>4 DEF Informed, Gone
    <2>6. AltAlone'
      BY <2>1, <2>2 DEF AltAlone, Alt
    <2>7. Accepted'
      BY <1>a, <2>2, <2>3, <2>4 DEF Accepted
    <2>8. Fresh'
      BY <1>a, <2>1, <2>2 DEF Fresh
    <2> QED
      BY <2>5, <2>6, <2>7, <2>8 DEF AppInv
  <1>11. ASSUME NEW c \in Clients, Request(c)
         PROVE  AppInv'
    BY <1>11, <1>b, <1>c DEF Request
  <1>12. ASSUME NEW c \in Clients, Close(c)
         PROVE  AppInv'
    <2>1. /\ conn[c] \in {"waiting", "open"} /\ UNCHANGED <<d, uevents, missed, switch>>
          /\ conn' = [conn EXCEPT ![c] = IF @ = "waiting" THEN "aborted" ELSE "gone"]
      BY <1>12 DEF Close
    <2>2. /\ \A e \in Clients \ {c} : conn'[e] = conn[e]
          /\ conn'[c] = IF conn[c] = "waiting" THEN "aborted" ELSE "gone"
      BY <1>0, <2>1 DEF Rest
    <2>3. Informed(d)'
      <3>1. ASSUME NEW e \in Clients, ~Gone(e)'
            PROVE  ~Gone(e)
        BY <2>1, <2>2, <3>1 DEF Gone
      <3> QED
        BY <1>a, <2>1, <3>1 DEF Informed
    <2>4. AltAlone'
      BY <1>a, <2>1, <2>2 DEF AltAlone
    <2>5. Accepted'
      BY <1>a, <2>1, <2>2 DEF Accepted
    <2>6. Fresh'
      BY <1>a, <2>1 DEF Fresh
    <2> QED
      BY <2>3, <2>4, <2>5, <2>6 DEF AppInv
  <1>13. CASE UNCHANGED vars
    BY <1>13, <1>b, <1>c DEF vars
  <1> QED
    BY <1>1, <1>2, <1>3, <1>4, <1>5, <1>6, <1>7, <1>8, <1>9, <1>10, <1>11, <1>12, <1>13
    DEF Next, Daemon, Environment

\* Every step but a request of the application decides as AppDecides says.
LEMMA StepDecides ==
  ASSUME Inv, AppInv, [Next]_vars
  PROVE  requests' # requests \/ Decided(d, d')
  <1>0. /\ Rest /\ NeverBlocks /\ Safe(d) /\ Core(d) /\ Typed(d)
        /\ d.app \in Clients \cup {NoApp}
    BY DEF Inv, Safe, Core, Typed, DaemonState
  <1>a. AltAlone /\ Accepted /\ Informed(d)
    BY DEF AppInv
  <1>b. ASSUME d'.mode = d.mode
        PROVE  Decided(d, d')
    BY <1>b DEF Decided
  <1>1. CASE OnUevent
    <2>1. Head(uevents) \in UeventKind
      <3>1. uevents \in Seq(UeventKind) /\ uevents # <<>>
        BY <1>0, <1>1 DEF Rest, NeverBlocks, OnUevent
      <3> QED
        BY <3>1
    <2>2. PICK k \in Answers : d' = process_usb_uevent_message(d, Head(uevents), k)
      BY <1>1 DEF OnUevent
    <2>3. d.run = "running" /\ switch \in Cables /\ (Alt(d) => d.app = NoApp)
      BY <1>0, <1>1, <1>a DEF OnUevent, Running, Rest, AltAlone
    <2> QED
      BY <1>0, <2>1, <2>2, <2>3, UeventServes
  <1>2. CASE OnDevice
    BY <1>0, <1>2, DeviceServes DEF OnDevice, Running
  <1>3. CASE OnServer
    <2>1. PICK c \in Waiting : d' = NewConnection(d, c)
      BY <1>3 DEF OnServer
    <2>2. c \in Clients /\ conn[c] \in {"waiting", "aborted"}
      BY <2>1 DEF Waiting
    <2>3. c # d.app /\ (~Gone(c) => d.told[c] = "nothing")
      BY <1>a, <2>2, UsbdAssumption DEF Accepted, Gone
    <2>4. SameMode(d, d')
      BY <1>0, <1>a, <2>1, <2>2, <2>3, ConnectionServes
    <2> QED
      BY <1>b, <2>4 DEF SameMode
  <1>4. CASE OnRequest
    <2>1. d.app \in Clients /\ requests[d.app] # <<>>
      BY <1>0, <1>4 DEF OnRequest, NeverBlocks
    <2>2. requests'[d.app] = <<>>
      BY <1>0, <1>4, <2>1 DEF OnRequest, Rest
    <2> QED
      BY <2>1, <2>2
  <1>5. CASE OnHangup \/ Cable \/ \E m \in DeviceMessages : Driver(m)
    <2>1. d'.mode = d.mode
      BY <1>0, <1>5 DEF OnHangup, Cable, Driver, Typed, DaemonState
    <2> QED
      BY <1>b, <2>1
  <1>6. CASE \E c \in Clients : Connect(c)
    <2>1. d'.mode = d.mode
      BY <1>0, <1>6 DEF Connect, Typed, DaemonState
    <2> QED
      BY <1>b, <2>1
  <1>7. CASE Select \/ OtherUevent \/ (\E c \in Clients : Request(c) \/ Close(c)) \/ UNCHANGED vars
    BY <1>7, <1>b DEF Select, OtherUevent, Request, Close, vars
  <1> QED
    BY <1>1, <1>2, <1>3, <1>4, <1>5, <1>6, <1>7 DEF Next, Daemon, Environment

\* The mode follows the tethering in every step, provided that the ADB property
\* can always be read.
LEMMA StepTethers ==
  ASSUME -1 \notin AdbAnswers, Inv, AppInv, Tethered(d), [Next]_vars
  PROVE  Tethered(d')
  <1>0. /\ Rest /\ NeverBlocks /\ Safe(d) /\ Core(d) /\ Typed(d)
        /\ d.app \in Clients \cup {NoApp}
    BY DEF Inv, Safe, Core, Typed, DaemonState
  <1>a. AltAlone /\ Accepted /\ Informed(d)
    BY DEF AppInv
  <1>b. ASSUME SameMode(d, d')
        PROVE  Tethered(d')
    BY <1>b DEF SameMode, Tethered
  <1>1. CASE OnUevent
    <2>1. Head(uevents) \in UeventKind
      <3>1. uevents \in Seq(UeventKind) /\ uevents # <<>>
        BY <1>0, <1>1 DEF Rest, NeverBlocks, OnUevent
      <3> QED
        BY <3>1
    <2>2. PICK k \in Answers : d' = process_usb_uevent_message(d, Head(uevents), k)
      BY <1>1 DEF OnUevent
    <2>3. d.run = "running" /\ switch \in Cables /\ (Alt(d) => d.app = NoApp)
      BY <1>0, <1>1, <1>a DEF OnUevent, Running, Rest, AltAlone
    <2> QED
      BY <1>0, <2>1, <2>2, <2>3, UeventServes
  <1>2. CASE OnDevice
    BY <1>0, <1>2, DeviceServes DEF OnDevice, Running
  <1>3. CASE OnServer
    <2>1. PICK c \in Waiting : d' = NewConnection(d, c)
      BY <1>3 DEF OnServer
    <2>2. c \in Clients /\ conn[c] \in {"waiting", "aborted"}
      BY <2>1 DEF Waiting
    <2>3. c # d.app /\ (~Gone(c) => d.told[c] = "nothing")
      BY <1>a, <2>2, UsbdAssumption DEF Accepted, Gone
    <2>4. SameMode(d, d')
      BY <1>0, <1>a, <2>1, <2>2, <2>3, ConnectionServes
    <2> QED
      BY <1>b, <2>4
  <1>4. CASE OnRequest
    <2>1. d.app # NoApp
      BY <1>0, <1>4 DEF OnRequest, NeverBlocks
    <2>2. d.startup = "NORMAL"
      BY <1>a, <2>1 DEF AltAlone, Alt
    <2>3. Serves(d, d')
      BY <1>0, <1>4, RequestServes DEF OnRequest
    <2> QED
      BY <2>2, <2>3 DEF Serves, Tethered
  <1>5. CASE OnHangup \/ Cable \/ \E m \in DeviceMessages : Driver(m)
    <2>1. SameMode(d, d')
      BY <1>0, <1>5 DEF OnHangup, Cable, Driver, Typed, DaemonState, SameMode
    <2> QED
      BY <1>b, <2>1
  <1>6. CASE \E c \in Clients : Connect(c)
    <2>1. SameMode(d, d')
      BY <1>0, <1>6 DEF Connect, Typed, DaemonState, SameMode
    <2> QED
      BY <1>b, <2>1
  <1>7. CASE Select \/ OtherUevent \/ (\E c \in Clients : Request(c) \/ Close(c)) \/ UNCHANGED vars
    BY <1>7 DEF Select, OtherUevent, Request, Close, vars
  <1> QED
    BY <1>1, <1>2, <1>3, <1>4, <1>5, <1>6, <1>7 DEF Next, Daemon, Environment

-----------------------------------------------------------------------------
(* The theorems *)

\* The variables of usbd keep their types, whatever the clients, the driver
\* and the kernel send, and whichever of the system's calls fail.
THEOREM UsbdTyped == Spec => []TypeOK
  BY InvInit, InvNext, InvImplies, PTL DEF Spec

\* The globals that describe the cable agree in every reachable state.
THEOREM UsbdCableView == Spec => []CableView
  BY InvInit, InvNext, InvImplies, PTL DEF Spec

\* No handler of the loop blocks on a descriptor that select() reported, also
\* when an earlier handler of the same round dropped the application.
THEOREM UsbdNeverBlocks == Spec => []NeverBlocks
  BY InvInit, InvNext, InvImplies, PTL DEF Spec

\* With a factory cable the phone is in a factory mode, always.
THEOREM UsbdFactoryHolds == Spec => []FactoryHolds
  BY InvInit, InvNext, InvImplies, PTL DEF Spec

\* No mode leaves its switches behind, provided that the mass storage function
\* never refuses a write to its lun file; the loop device may fail at will.
THEOREM UsbdNothingLeftBehind ==
  ASSUME "lun" \notin Failures
  PROVE  Spec => []NothingLeftBehind
  <1>1. Inv => NothingLeftBehind
    BY InvImplies
  <1> QED
    BY <1>1, InvInit, InvNext, PTL DEF Spec

\* Whatever connects, hangs up, fails or arrives in between: once every cable
\* change was read, what the application was told last is true of the cable.
THEOREM UsbdAppUpToDate == Spec => []AppUpToDate
  BY InvInit, InvNext, AppInit, AppNext, AppImplies, PTL DEF Spec

\* In normal mode, away from a factory cable, only a request of the application
\* changes the mode, except out of the CD-ROM and into CDROM2.
THEOREM UsbdAppDecides == Spec => AppDecides
  <1>1. ASSUME Inv, AppInv, [Next]_vars
        PROVE  [ ~Alt(d) /\ d'.cable # "FACTORY" /\ d'.mode # d.mode =>
                   requests' # requests \/ d.mode \in {"CDROM", "CDROM2"}
                     \/ d'.mode = "CDROM2" ]_vars
    BY <1>1, StepDecides DEF Decided
  <1> QED
    BY <1>1, InvInit, InvNext, AppInit, AppNext, PTL DEF Spec, AppDecides

\* In BP-tools mode the phone tethers exactly when the last tethering message
\* since the cable came in asked for it, provided that usbd can read the ADB
\* property; usbd_alt_mode_set gives up half-way when it cannot.
THEOREM UsbdTetherTracked ==
  ASSUME -1 \notin AdbAnswers
  PROVE  Spec => []TetherTracked
  <1>1. Init => Tethered(d)
    <2> SUFFICES ASSUME Init
                 PROVE  Tethered(d)
      OBVIOUS
    <2>1. PICK startup \in BootedAs, k \in Answers : d = Started(startup, switch, k)
      BY DEF Init
    <2>2. startup \in Startups /\ switch \in Cables
      BY UsbdAssumption DEF Init
    <2> QED
      BY <2>1, <2>2, StartedSafe
  <1>2. Inv /\ AppInv /\ Tethered(d) /\ [Next]_vars => Tethered(d)'
    <2> SUFFICES ASSUME Inv, AppInv, Tethered(d), [Next]_vars
                 PROVE  Tethered(d)'
      OBVIOUS
    <2>1. Tethered(d')
      BY StepTethers
    <2> QED
      BY <2>1 DEF Tethered
  <1>3. Tethered(d) => TetherTracked
    BY DEF Tethered, TetherTracked
  <1> QED
    BY <1>1, <1>2, <1>3, InvInit, InvNext, AppInit, AppNext, PTL DEF Spec
=============================================================================
