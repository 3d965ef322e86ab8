-------------------------------- MODULE Usbd --------------------------------
(***************************************************************************)
(* The USB daemon usbd (usbd/usb_app.c): its select loop and handlers, the *)
(* switches of the USB driver it sets, the applications that connect to    *)
(* its socket, and the cable.                                              *)
(*                                                                         *)
(* The daemon's globals, the driver's switches and what was written to     *)
(* each client are the record d; every function of the daemon that changes *)
(* them is an operator from d to d.  A handler is one step.  The loop      *)
(* visits the descriptors that select() found readable in a fixed order;   *)
(* what becomes readable meanwhile waits for the next round.               *)
(***************************************************************************)
EXTENDS UsbModes, Sequences, FiniteSets

CONSTANTS
  BootedAs,        \* the start-up modes usbd may find itself in
  Clients,         \* applications that may connect
  NoApp,           \* usbd_app_fd = -1
  HasLun,          \* CDROMIO_DEVNODE can be opened
  HasBlockDevice,  \* CDROM_BLOCK_DEVICE exists
  SigpipeKills,    \* SIGPIPE keeps its default action; usbd never changes it
  UeventKinds,     \* the uevents the kernel sends: "switch", "scsi", "other"
  AdbAnswers,      \* what usbd_get_adb_property may return
  Failures,        \* what may fail: writes to the lun file, LOOP_CLR_FD, loop_create
                   \* and the read of the switch: "lun", "clear", "create", "read"
  DeviceMessages,  \* the messages the driver may send
  Requests,        \* the messages an application may send
  MaxUevents,      \* bound: uevents waiting on the socket
  MaxDevice,       \* bound: driver messages waiting
  MaxDes,          \* bound on the count of get_desc; the code only tests for 1
  MaxRequests      \* bound: requests waiting on one connection

\* A change of the cable, a disk that comes or goes, and all else.
UeventKind == {"switch", "scsi", "other"}
Cables == {"USB", "FACTORY", "UNKNOWN"}
Message == [pc : Modes \cup {"none"}, adb : {"none", "enable", "disable"},
            tether : {"none", "enable", "disable"}, enu : {"none", "get_desc", "enumerated"}]

ASSUME UsbdAssumption ==
  /\ BootedAs \subseteq Startups
  /\ NoApp \notin Clients
  /\ {MsdCdrom, HasLun, HasBlockDevice, SigpipeKills} \subseteq BOOLEAN
  /\ UeventKinds \subseteq UeventKind
  /\ AdbAnswers \subseteq {-1, 0, 1}
  /\ Failures \subseteq {"lun", "clear", "create", "read"}
  /\ DeviceMessages \subseteq Message
  /\ {MaxUevents, MaxDevice, MaxDes, MaxRequests} \subseteq Nat \ {0}

VARIABLES
  d,         \* the daemon, the driver's switches, the clients' inboxes
  ready,     \* rset: the descriptors still to be visited in this round
  switch,    \* what the driver's usb_connected/state says
  uevents,   \* uevents waiting
  missed,    \* history: a cable change was lost (overrun) or unreadable
  device,    \* messages of the driver waiting to be read
  conn,      \* the clients' ends of their connections
  requests   \* per client, the requests waiting on its connection

vars == <<d, ready, switch, uevents, missed, device, conn, requests>>

\* The answers of the system within one handler: the two properties, and
\* which calls fail.
Answers == [adb : AdbAnswers, factory : BOOLEAN, fails : SUBSET Failures]

Alt(x) == x.startup # "NORMAL"

-----------------------------------------------------------------------------
(* Writes to an application *)

Gone(c) == c # NoApp /\ conn[c] \in {"aborted", "gone"}

\* write() to client c; what is the cable state the message tells, if any.
Send(x, c, what) ==
  IF c = NoApp \/ x.run = "killed" THEN x
  ELSE IF Gone(c) THEN [x EXCEPT !.run = IF SigpipeKills THEN "killed" ELSE @]
  ELSE [x EXCEPT !.told[c] = IF what = "" THEN @ ELSE what]

\* The same to the application, which is dropped when the write fails.
SendOrDrop(x, what) ==
  LET sent == Send(x, x.app, what)
  IN  IF Gone(x.app) /\ sent.run = "running" THEN [sent EXCEPT !.app = NoApp] ELSE sent

\* What the message for the state says of the cable.
Says(state) == IF state = "DETACHED" THEN "detached" ELSE "attached"

-----------------------------------------------------------------------------
(* Modes *)

\* A write to the lun file of the mass storage function.
SetLun(x, v, fails) == IF "lun" \in fails THEN x ELSE [x EXCEPT !.lun = v]

cdrom_partition_mount(x, mount, fails) ==
  LET cleared == IF x.mounted = 0 THEN x
                 ELSE [SetLun(x, 0, fails) EXCEPT !.mounted = IF "clear" \in fails THEN 1 ELSE 0]
  IN  IF ~HasLun THEN x
      ELSE IF HasBlockDevice THEN SetLun(x, mount, fails)
      ELSE IF cleared.mounted = 1 \/ mount = 0 \/ "create" \in fails THEN cleared
      ELSE SetLun([cleared EXCEPT !.mounted = 1], 1, fails)

\* MSC with a CD-ROM forgets to take the image back.
PreDisableKeepImage(x, fails) ==
  LET image == IF x.mode \in CdModes \ MscModes THEN cdrom_partition_mount(x, 0, fails) ELSE x
  IN  IF x.mode \in MscModes THEN [image EXCEPT !.storage = 0] ELSE image

\* The pre_disable hook of the current mode.
PreDisable(x, fails) ==
  LET image == IF x.mode \in CdModes THEN cdrom_partition_mount(x, 0, fails) ELSE x
  IN  IF x.mode \in MscModes THEN [image EXCEPT !.storage = 0] ELSE image

\* The disable_done hook of the current mode.
DisableDone(x) == IF x.mode \in CdModes THEN [x EXCEPT !.param = 0] ELSE x

\* The pre_enable hook of the current mode.
PreEnable(x) == IF x.mode \in CdModes THEN [x EXCEPT !.param = 1] ELSE x

\* The enable_done hook of the current mode.
EnableDone(x, fails) ==
  LET image == IF x.mode \in CdModes THEN cdrom_partition_mount(x, 1, fails) ELSE x
  IN  IF x.mode \in MscModes THEN [image EXCEPT !.storage = 1] ELSE image

usbd_set_usb_mode(x, new_mode, fails) ==
  LET left == DisableDone(PreDisable(x, fails))
  IN  IF x.run = "killed" THEN x
      ELSE IF new_mode = "MIN" THEN [left EXCEPT !.mode = new_mode]
      ELSE [PreEnable([left EXCEPT !.mode = new_mode]) EXCEPT !.awaiting = 1]

usbd_enumerate_default_mode(x, k) ==
  LET to(with, without) == usbd_set_usb_mode(x, IF k.adb # 0 THEN with ELSE without, k.fails)
  IN  CASE x.startup = "DEBUG"   -> to("MSC_ADB", "MSC")
        [] x.startup = "BPTOOLS" -> to("BPTOOLS_ETH_ADB", "BPTOOLS_ETH")
        [] x.startup = "TABLET"  -> to("TABLET_NETWORK_MTP_ADB", "CDROM")
        [] OTHER                 -> x

FactoryMode(x, k) ==
  usbd_set_usb_mode(x, IF k.factory THEN "NETWORK_ADB" ELSE "NETWORK", k.fails)

\* The mode of the table is taken with the tethering of before the message.
AltModeSetStale(x, adb_buf, tether_buf, k) ==
  LET adb     == CASE adb_buf = "enable" -> 1 [] adb_buf = "disable" -> 0 [] OTHER -> k.adb
      tethers == CASE tether_buf = "enable"  -> [x EXCEPT !.tether = 1]
                   [] tether_buf = "disable" -> [x EXCEPT !.tether = 0]
                   [] OTHER                  -> x
  IN  IF adb_buf = "none" /\ tether_buf = "none" THEN x
      ELSE IF x.startup = "DEBUG"
      THEN usbd_set_usb_mode(tethers,
             IF adb_buf = "enable" \/ tether_buf = "enable" THEN "MSC_ADB" ELSE "MSC", k.fails)
      ELSE IF adb < 0 THEN tethers
      ELSE usbd_set_usb_mode(tethers, AltMode(x.startup, adb, x.tether), k.fails)

usbd_alt_mode_set(x, adb_buf, tether_buf, k) ==
  LET adb     == CASE adb_buf = "enable" -> 1 [] adb_buf = "disable" -> 0 [] OTHER -> k.adb
      tethers == CASE tether_buf = "enable"  -> [x EXCEPT !.tether = 1]
                   [] tether_buf = "disable" -> [x EXCEPT !.tether = 0]
                   [] OTHER                  -> x
  IN  IF adb_buf = "none" /\ tether_buf = "none" THEN x
      ELSE IF x.startup = "DEBUG"
      THEN usbd_set_usb_mode(tethers,
             IF adb_buf = "enable" \/ tether_buf = "enable" THEN "MSC_ADB" ELSE "MSC", k.fails)
      ELSE IF adb < 0 THEN tethers
      ELSE usbd_set_usb_mode(tethers, AltMode(x.startup, adb, tethers.tether), k.fails)

\* The PC's wish is granted whatever the current mode is.
SwitchFromAnyMode(x, tag, k) ==
  IF k.adb < 0 \/ tag \notin SwitchModes THEN x
  ELSE usbd_set_usb_mode(x, IF k.adb = 1 THEN "NGP_ADB" ELSE "NGP", k.fails)

\* A PC asks for a mode: from the CD-ROM it is entered at once, otherwise the
\* application is told of the wish.
usb_req_mode_switch(x, tag, k) ==
  IF k.adb < 0 THEN x
  ELSE IF tag = "CDROM2" THEN usbd_set_usb_mode(x, "CDROM2", k.fails)
  ELSE IF tag \notin SwitchModes THEN x
  ELSE IF x.mode \notin {"CDROM", "CDROM2"} THEN SendOrDrop(x, "")
  ELSE IF x.startup # "TABLET"
  THEN usbd_set_usb_mode(x, IF k.adb = 1 THEN "NGP_ADB" ELSE "NGP", k.fails)
  ELSE IF x.tether = 1
  THEN usbd_set_usb_mode(x, IF k.adb = 1 THEN "RNDIS_ADB" ELSE "RNDIS", k.fails)
  ELSE usbd_set_usb_mode(x,
         IF k.adb = 1 THEN "TABLET_NETWORK_MTP_ADB" ELSE "TABLET_NETWORK_MTP", k.fails)

\* get_desc: only the first one after an attach moves the state.
GetDescriptor(x) ==
  LET counted == [x EXCEPT !.des = IF @ < MaxDes THEN @ + 1 ELSE @]
  IN  IF x.des = 0 THEN SendOrDrop([counted EXCEPT !.state = "ENUM_IN_PROGRESS"], "attached")
      ELSE counted

\* The hook is skipped when there is no application to tell.
EnumeratedNoApp(x, k) ==
  LET state == [x EXCEPT !.state = "ENUMERATED"]
      enabled == EnableDone(state, k.fails)
  IN  IF x.app = NoApp THEN state
      ELSE IF x.mode \in DoneModes THEN SendOrDrop(enabled, "") ELSE enabled

\* enumerated: usbd_enum_process.
Enumerated(x, k) ==
  LET enabled == EnableDone([x EXCEPT !.state = "ENUMERATED"], k.fails)
  IN  IF x.mode \in DoneModes THEN SendOrDrop(enabled, "") ELSE enabled

-----------------------------------------------------------------------------
(* The handlers of the loop *)

\* usbd_handle_cable_status_change.
CableChanged(x, k) ==
  IF x.cable = "FACTORY" THEN FactoryMode(x, k)
  ELSE IF ~Alt(x) THEN SendOrDrop(x, Says(x.state))
  ELSE IF x.cable = "USB" THEN usbd_enumerate_default_mode([x EXCEPT !.tether = 0], k)
  ELSE x

\* The count of descriptors survives the detach.
ReadCableKeepCount(x) ==
  IF switch = "UNKNOWN"
  THEN [x EXCEPT !.cable = switch, !.online = 0, !.state = "DETACHED"]
  ELSE [x EXCEPT !.cable = switch, !.online = 1, !.state = "ATTACHED"]

\* The cable as a successful read of the switch's state shows it.
ReadCable(x) ==
  IF switch = "UNKNOWN"
  THEN [x EXCEPT !.cable = switch, !.online = 0, !.state = "DETACHED", !.des = 0]
  ELSE [x EXCEPT !.cable = switch, !.online = 1, !.state = "ATTACHED"]

\* process_usb_uevent_message, and usbd_handle_cable_status_change after it.
process_usb_uevent_message(x, u, k) ==
  IF u = "other" THEN x
  ELSE IF u = "scsi" THEN Send(x, x.app, "")
  ELSE IF "read" \in k.fails THEN x
  ELSE CableChanged(ReadCable(x), k)

\* A message of the driver.
DeviceEvent(x, m, k) ==
  LET factory == CASE k.factory /\ m.adb = "enable" -> usbd_set_usb_mode(x, "NETWORK_ADB", k.fails)
                   [] m.adb = "disable"             -> usbd_set_usb_mode(x, "NETWORK", k.fails)
                   [] OTHER                         -> x
      told    == IF m.adb = "none" THEN x ELSE Send(x, x.app, "")
      status  == IF Alt(x) /\ x.online = 1 THEN usbd_alt_mode_set(x, m.adb, m.tether, k)
                 ELSE IF m.tether = "none" THEN told ELSE Send(told, x.app, "")
      switched == IF m.pc = "none" THEN status ELSE usb_req_mode_switch(status, m.pc, k)
  IN  IF x.cable = "FACTORY" THEN factory
      ELSE IF x.cable # "USB" \/ x.online = 0 \/ status.run = "killed" THEN status
      ELSE IF m.enu = "none" \/ switched.run = "killed" THEN switched
      ELSE IF m.enu = "get_desc" THEN GetDescriptor(switched)
      ELSE Enumerated(switched, k)

\* Only the ADB status is sent to a new application.
NewConnectionNoStatus(x, c) ==
  Send(IF x.app = NoApp THEN [x EXCEPT !.app = c] ELSE x, c, "")

\* A new connection c: saved unless there is an application already, and told
\* the ADB status and the cable either way.
NewConnection(x, c) ==
  LET saved == IF x.app = NoApp THEN [x EXCEPT !.app = c] ELSE x
      adb   == Send(saved, c, "")
  IN  IF x.cable = "FACTORY" \/ x.state = "DEFAULT" THEN adb ELSE Send(adb, c, Says(x.state))

\* A factory cable does not keep the application from choosing the mode.
SocketEventFactory(x, r, k) ==
  LET ok == SendOrDrop(x, "")
  IN  IF r \notin Requestable THEN x
      ELSE IF Gone(x.app) THEN ok
      ELSE IF x.mode # r /\ x.online = 1 THEN usbd_set_usb_mode(ok, r, k.fails) ELSE ok

\* A message of the application.
usbd_socket_event(x, r, k) ==
  LET ok == SendOrDrop(x, "")
  IN  IF x.cable = "FACTORY" \/ r \notin Requestable THEN x
      ELSE IF r = "MIN" THEN usbd_set_usb_mode(x, r, k.fails)
      ELSE IF Gone(x.app) THEN ok
      ELSE IF x.mode # r THEN IF x.online = 1 THEN usbd_set_usb_mode(ok, r, k.fails) ELSE ok
      ELSE IF r \in DoneModes THEN SendOrDrop(ok, "") ELSE ok

-----------------------------------------------------------------------------
(* The daemon *)

\* main() up to its loop, with the cable that is in at that time.
Started(startup, cable, k) ==
  LET fresh == [startup |-> startup, mode |-> "MIN", cable |-> cable,
                state |-> IF cable = "UNKNOWN" THEN "DEFAULT" ELSE "ATTACHED",
                online |-> IF cable = "UNKNOWN" THEN 0 ELSE 1,
                des |-> 0, tether |-> 0, app |-> NoApp, told |-> [c \in Clients |-> "nothing"],
                storage |-> 0, param |-> 0, lun |-> 0, mounted |-> 0, awaiting |-> 0,
                run |-> "running"]
  IN  IF cable = "FACTORY" THEN FactoryMode(fresh, k)
      ELSE IF cable = "USB" THEN usbd_enumerate_default_mode(fresh, k)
      ELSE fresh

Init ==
  /\ switch \in Cables
  /\ \E startup \in BootedAs, k \in Answers : d = Started(startup, switch, k)
  /\ ready = {} /\ uevents = <<>> /\ missed = FALSE /\ device = <<>>
  /\ conn = [c \in Clients |-> "idle"]
  /\ requests = [c \in Clients |-> <<>>]

Running == d.run = "running"

Waiting == {c \in Clients : conn[c] \in {"waiting", "aborted"}}

\* What select() would report.
Readable ==
  {f \in {"uevent", "device", "server", "app"} :
     \/ f = "uevent" /\ uevents # <<>>
     \/ f = "device" /\ device # <<>>
     \/ f = "server" /\ Waiting # {}
     \/ f = "app" /\ d.app # NoApp /\ (requests[d.app] # <<>> \/ conn[d.app] = "gone")}

\* The loop goes back to select() after the first descriptor it served.
SelectFirst ==
  /\ Running
  /\ ready = {} /\ Readable # {}
  /\ ready' = {CHOOSE f \in Readable :
                 /\ f # "uevent" => "uevent" \notin Readable
                 /\ f \notin {"uevent", "device"} => "device" \notin Readable
                 /\ f = "app" => "server" \notin Readable}
  /\ UNCHANGED <<d, switch, uevents, missed, device, conn, requests>>

Select ==
  /\ Running
  /\ ready = {} /\ Readable # {}
  /\ ready' = Readable
  /\ UNCHANGED <<d, switch, uevents, missed, device, conn, requests>>

\* The application is visited even if it was dropped on the way.
VisitedKeepApp(f) == ready' = ready \ {f}

\* The visit to f is over; an application dropped on the way is not visited.
Visited(f) == ready' = (ready \ {f}) \ (IF d'.app = d.app THEN {} ELSE {"app"})

OnUevent ==
  /\ Running
  /\ "uevent" \in ready
  /\ \E k \in Answers :
       /\ d' = process_usb_uevent_message(d, Head(uevents), k)
       /\ missed' = IF Head(uevents) = "switch" THEN "read" \in k.fails ELSE missed
  /\ uevents' = Tail(uevents)
  /\ Visited("uevent")
  /\ UNCHANGED <<switch, device, conn, requests>>

OnDevice ==
  /\ Running
  /\ "device" \in ready /\ "uevent" \notin ready
  /\ \E k \in Answers : d' = DeviceEvent(d, Head(device), k)
  /\ device' = Tail(device)
  /\ Visited("device")
  /\ UNCHANGED <<switch, uevents, missed, conn, requests>>

OnServer ==
  /\ Running
  /\ "server" \in ready /\ ready \cap {"uevent", "device"} = {}
  /\ \E c \in Waiting :
       /\ d' = NewConnection(d, c)
       /\ conn' = [conn EXCEPT ![c] = IF @ = "waiting" THEN "open" ELSE "gone"]
  /\ Visited("server")
  /\ UNCHANGED <<switch, uevents, missed, device, requests>>

\* One read() takes everything that waits; only the first string is looked at.
OnRequest ==
  /\ Running
  /\ ready = {"app"}
  /\ requests[d.app] # <<>>
  /\ \E k \in Answers : d' = usbd_socket_event(d, Head(requests[d.app]), k)
  /\ requests' = [requests EXCEPT ![d.app] = <<>>]
  /\ Visited("app")
  /\ UNCHANGED <<switch, uevents, missed, device, conn>>

\* The application has closed its end: read() returns 0 and the daemon closes
\* its own, or fails and the descriptor stays open.
OnHangup ==
  /\ Running
  /\ ready = {"app"}
  /\ requests[d.app] = <<>>
  /\ d' = [d EXCEPT !.app = NoApp]
  /\ \/ conn' = [conn EXCEPT ![d.app] = "idle"]
     \/ conn' = conn
  /\ Visited("app")
  /\ UNCHANGED <<switch, uevents, missed, device, requests>>

Daemon == Select \/ OnUevent \/ OnDevice \/ OnServer \/ OnRequest \/ OnHangup

-----------------------------------------------------------------------------
(* The cable, the driver and the applications *)

Cable ==
  /\ Running
  /\ \E s \in Cables \ {switch} :
       /\ switch' = s
       /\ d' = IF s = "UNKNOWN" THEN d ELSE [d EXCEPT !.awaiting = 1]
  /\ IF Len(uevents) < MaxUevents
     THEN uevents' = Append(uevents, "switch") /\ missed' = missed
     ELSE uevents' = uevents /\ missed' = TRUE
  /\ UNCHANGED <<ready, device, conn, requests>>

OtherUevent ==
  /\ Running
  /\ Len(uevents) < MaxUevents
  /\ \E u \in UeventKinds \ {"switch"} : uevents' = Append(uevents, u)
  /\ UNCHANGED <<d, ready, switch, missed, device, conn, requests>>

\* A host asks and enumerates only with a cable in.
Driver(m) ==
  /\ Running
  /\ Len(device) < MaxDevice
  /\ m.enu # "none" \/ m.pc # "none" => switch # "UNKNOWN"
  /\ device' = Append(device, m)
  /\ d' = IF m.enu = "enumerated" THEN [d EXCEPT !.awaiting = 0] ELSE d
  /\ UNCHANGED <<ready, switch, uevents, missed, conn, requests>>

Connect(c) ==
  /\ Running
  /\ ~Alt(d)
  /\ conn[c] = "idle"
  /\ conn' = [conn EXCEPT ![c] = "waiting"]
  /\ d' = [d EXCEPT !.told[c] = "nothing"]
  /\ UNCHANGED <<ready, switch, uevents, missed, device, requests>>

Request(c) ==
  /\ Running
  /\ conn[c] \in {"waiting", "open"}
  /\ Len(requests[c]) < MaxRequests
  /\ \E r \in Requests : requests' = [requests EXCEPT ![c] = Append(@, r)]
  /\ UNCHANGED <<d, ready, switch, uevents, missed, device, conn>>

Close(c) ==
  /\ Running
  /\ conn[c] \in {"waiting", "open"}
  /\ conn' = [conn EXCEPT ![c] = IF @ = "waiting" THEN "aborted" ELSE "gone"]
  /\ UNCHANGED <<d, ready, switch, uevents, missed, device, requests>>

Environment ==
  \/ Cable \/ OtherUevent
  \/ \E m \in DeviceMessages : Driver(m)
  \/ \E c \in Clients : Connect(c) \/ Request(c) \/ Close(c)

Next == Daemon \/ Environment

Spec == Init /\ [][Next]_vars

-----------------------------------------------------------------------------
(* Properties *)

DaemonState ==
  [startup : Startups, mode : Modes, cable : Cables,
   state : {"DEFAULT", "DETACHED", "ATTACHED", "ENUM_IN_PROGRESS", "ENUMERATED"},
   online : {0, 1}, des : 0..MaxDes, tether : {0, 1}, app : Clients \cup {NoApp},
   told : [Clients -> {"nothing", "attached", "detached"}],
   storage : {0, 1}, param : {0, 1}, lun : {0, 1}, mounted : {0, 1}, awaiting : {0, 1},
   run : {"running", "killed"}]

\* The variables of the daemon stay within their types: the mode is always a
\* row of usb_mode_list, whatever the applications and the driver send.
TypeOK ==
  /\ d \in DaemonState
  /\ ready \subseteq {"uevent", "device", "server", "app"}
  /\ switch \in Cables
  /\ uevents \in Seq(UeventKind)
  /\ missed \in BOOLEAN
  /\ device \in Seq(DeviceMessages)
  /\ conn \in [Clients -> {"idle", "waiting", "open", "aborted", "gone"}]
  /\ requests \in [Clients -> Seq(Requests)]

\* The four globals that describe the cable agree: usbd is online exactly when
\* a cable is known to be in, only then can enumeration have begun, and the
\* first get_desc after a detach is announced because the count starts anew.
CableView ==
  /\ d.online = 0 <=> d.cable = "UNKNOWN"
  /\ d.online = 0 => d.state \in {"DEFAULT", "DETACHED"} /\ d.des = 0
  /\ d.online = 1 => d.state \in {"ATTACHED", "ENUM_IN_PROGRESS", "ENUMERATED"}

\* Every descriptor still to be visited in this round has something to read, so
\* no handler blocks in read(), recvmsg() or accept() while others wait.
NeverBlocks ==
  /\ "uevent" \in ready => uevents # <<>>
  /\ "device" \in ready => device # <<>>
  /\ "server" \in ready => Waiting # {}
  /\ "app" \in ready => d.app # NoApp /\ (requests[d.app] # <<>> \/ conn[d.app] = "gone")

\* As long as usbd sees a factory cable the phone is in a factory mode: no
\* request, driver message or tethering change gets it out of there.
FactoryHolds == d.cable = "FACTORY" => d.mode \in FactoryModes

\* Whatever modes are entered, in any order and with the loop device failing,
\* none leaves its switches behind: the mass storage function is on only in
\* the modes that own it, the cdrom parameter is raised exactly in the CD-ROM
\* modes, and the image is exported only there.
NothingLeftBehind ==
  /\ d.storage = 1 => d.mode \in MscModes
  /\ d.param = 1 <=> d.mode \in CdModes
  /\ d.lun = 1 => d.mode \in CdModes

\* What the connected application was last told about the cable is true once
\* no cable change is waiting to be read and none was lost.  A factory cable is
\* never announced, and neither is the absence of a cable since start-up.
AppUpToDate ==
  \A c \in Clients :
    /\ d.app = c /\ ~Gone(c) /\ Running
    /\ ~missed /\ \A i \in DOMAIN uevents : uevents[i] # "switch"
    => CASE switch = "USB"     -> d.told[c] = "attached"
         [] switch = "UNKNOWN" -> d.told[c] \in {"nothing", "detached"}
         [] OTHER              -> TRUE

\* In BP-tools mode the phone tethers exactly when the last tethering message
\* since the cable came in asked for it, whatever ADB did in between.
TetherTracked ==
  d.startup = "BPTOOLS" /\ d.mode \in BpModes =>
    (d.mode \in {"RNDIS_BPTOOLS_ETH", "RNDIS_BPTOOLS_ETH_ADB"} <=> d.tether = 1)

\* In normal mode, away from a factory cable, only a request of the application
\* changes the mode; the PC does so only out of the CD-ROM or into CDROM2.
AppDecides ==
  [][ ~Alt(d) /\ d'.cable # "FACTORY" /\ d'.mode # d.mode =>
        requests' # requests \/ d.mode \in {"CDROM", "CDROM2"} \/ d'.mode = "CDROM2" ]_vars

\* The loop goes on as long as a descriptor is readable.  Nothing else is
\* assumed: the order of the visits must give every input its turn.
FairSpec == Spec /\ WF_vars(Daemon)

\* A request on the watched connection is read, however many uevents, driver
\* messages and other connections keep coming, unless a write to a closed
\* connection ends the daemon first.
RequestsServed ==
  \A c \in Clients :
    d.app = c /\ requests[c] # <<>> ~> d.app # c \/ requests[c] = <<>> \/ ~Running

\* The driver reports the enumeration it owes; the message waits until the
\* queue has room.
Enumerates == d.awaiting = 1 /\ \E m \in DeviceMessages : m.enu = "enumerated" /\ Driver(m)

LiveSpec == FairSpec /\ SF_vars(Enumerates)

\* When the cable stays in and a mass storage mode stays selected, the storage
\* is exported in the end, with or without an application to tell.
StorageExported ==
  <>[](switch = "USB" /\ d.mode \in MscModes /\ ~missed /\ Running) => <>(d.storage = 1)
=============================================================================
