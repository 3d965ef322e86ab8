------------------------------ MODULE BootMode ------------------------------
(***************************************************************************)
(* What decides whether the phone comes up in charge-only mode (COM): the  *)
(* boot-time program mot_boot_mode, and the mark "charging" that           *)
(* charge_only_mode keeps in /data/chargeonlymode so that a panic or a     *)
(* watchdog reset in COM leads back to COM.                                *)
(*                                                                         *)
(* The mark lives in the page cache (file) and on flash (disk): it is      *)
(* written without fsync and cleared with sync, and whatever takes the     *)
(* machine down keeps only what is on flash.  ChargeOnlyMode models the    *)
(* program behind the phases "com" and "leaving" in detail.                *)
(***************************************************************************)
EXTENDS Integers

CONSTANT Failures   \* what may fail: save_mode's and clear_mode's file operations

ASSUME BootModeAssumption == Failures \subseteq {"save", "clear"}

VARIABLES
  phase,   \* "off", or what runs: COM before its mark, COM, COM on its way out,
           \* Android, the TCMD recovery boot
  cause,   \* what the boot loader will report as the cause of the next boot
  file,    \* /data/chargeonlymode as programs see it
  disk,    \* and as it is on flash
  was,     \* history: what ran before the last reset
  last     \* history: what became of the mark of the latest COM run

vars == <<phase, cause, file, disk, was, last>>

Abnormal == {"kpanic", "wdreset", "wdcpcap"}
Causes == Abnormal \cup {"charger", "powerkey", "warm", "outofcharge"}
Contents == {"absent", "empty", "charging"}

\* ro.bootmode, and POWERUPREASON and CID_RECOVER_BOOT of /proc/bootinfo.  The
\* cause is in the property, in bootinfo or in both.
BootInfo(c) ==
  {b \in [bootmode : {c, "unknown", "cidtcmd"}, reason : {c, "unreadable"}, cid : BOOLEAN] :
     b.bootmode = c \/ b.reason = c}

\* Looks at the property only.
AbnormalByProperty(b) == b.bootmode \in Abnormal

check_abnormal_reboot(b) == b.bootmode \in Abnormal \/ b.reason \in Abnormal

\* The ftruncate() and close() at its end are never reached.
check_com_reset(f) == f = "charging"

boot_reason_charge_only(b, f) ==
  \/ b.bootmode = "charger" \/ b.reason = "charger"
  \/ check_abnormal_reboot(b) /\ check_com_reset(f)

check_cid_recover_boot(b) == b.bootmode = "cidtcmd" \/ b.cid

\* main() of mot_boot_mode.  init itself starts COM when ro.bootmode says
\* "charger", without asking it.
mot_boot_mode(b, f) ==
  IF b.bootmode = "charger" THEN "starting"
  ELSE IF check_cid_recover_boot(b) THEN "tcmd"
  ELSE IF boot_reason_charge_only(b, f) THEN "starting"
  ELSE "normal"

Init ==
  /\ phase = "off" /\ cause \in {"charger", "powerkey"}
  /\ file \in {"absent", "empty"} /\ disk = file
  /\ was = "normal" /\ last = "never"

Boot ==
  /\ phase = "off"
  /\ \E b \in BootInfo(cause) : phase' = mot_boot_mode(b, file)
  /\ UNCHANGED <<cause, file, disk, was, last>>

\* save_mode(): open() may fail, or create the file and write() fail.
save_mode ==
  /\ phase = "starting"
  /\ phase' = "com" /\ last' = IF disk = "charging" THEN "marked" ELSE "unmarked"
  /\ \/ file' = "charging"
     \/ "save" \in Failures /\ file' \in {file, IF file = "absent" THEN "empty" ELSE file}
  /\ UNCHANGED <<cause, disk, was>>

\* The truncation is left to the kernel to write back.
ClearModeNoSync ==
  /\ phase = "com"
  /\ phase' = "leaving" /\ last' = "cleared"
  /\ file' = IF file = "absent" THEN file ELSE "empty"
  /\ UNCHANGED <<cause, disk, was>>

\* clear_mode(): truncate(), whose failure is ignored, then sync().
clear_mode ==
  /\ phase = "com"
  /\ phase' = "leaving"
  /\ \/ file' = (IF file = "absent" THEN file ELSE "empty") /\ last' = "cleared"
     \/ "clear" \in Failures /\ file' = file /\ last' = last
  /\ disk' = file'
  /\ UNCHANGED <<cause, was>>

\* The machine goes down for cause c.
Down(c) ==
  /\ phase' = "off" /\ cause' = c
  /\ file' = disk
  /\ was' = phase
  /\ UNCHANGED <<disk, last>>

\* COM powers off or restarts into the boot loader with "outofcharge", or the
\* kernel refuses and COM goes on, its mark cleared.
Leave ==
  /\ phase = "leaving"
  /\ \/ \E c \in {"charger", "powerkey", "outofcharge"} : Down(c)
     \/ phase' = "com" /\ UNCHANGED <<cause, file, disk, was, last>>

-----------------------------------------------------------------------------
(* The surroundings *)

WriteBack ==
  /\ phase # "off" /\ file # disk
  /\ disk' = file
  /\ last' = IF phase = "com" /\ file = "charging" THEN "marked" ELSE last
  /\ UNCHANGED <<phase, cause, file, was>>

\* A panic or a watchdog, at any time.
Panic == phase # "off" /\ \E c \in Abnormal : Down(c)

\* The battery is pulled or runs out.
PowerLost == phase # "off" /\ \E c \in {"charger", "powerkey"} : Down(c)

\* Android and the recovery boot power off and restart.
Shutdown ==
  /\ phase \in {"normal", "tcmd"}
  /\ file = disk
  /\ \E c \in {"charger", "powerkey", "warm"} : Down(c)

Next == Boot \/ save_mode \/ clear_mode \/ Leave \/ WriteBack \/ Panic \/ PowerLost \/ Shutdown

Spec == Init /\ [][Next]_vars

-----------------------------------------------------------------------------
\* The mark is one that mot_boot_mode can read back, and every boot ends in
\* one of the modes.
TypeOK ==
  /\ phase \in {"off", "starting", "com", "leaving", "normal", "tcmd"}
  /\ cause \in Causes
  /\ file \in Contents /\ disk \in Contents
  /\ was \in {"starting", "com", "leaving", "normal", "tcmd"}
  /\ last \in {"never", "unmarked", "marked", "cleared"}

\* A panic or watchdog reset in COM leads back to COM, whichever way the boot
\* loader reports it, once the mark has reached the flash.
ComResumes ==
  [][ phase = "off" /\ phase' # "off" /\ was = "com" /\ last = "marked" /\ cause \in Abnormal =>
        phase' \in {"starting", "tcmd"} ]_vars

\* COM that never ran, or took its mark back on the way out, is not entered by
\* a later reset, however many there are: only a charger boot leads into it.
NotTrapped ==
  [][ phase' = "starting" /\ phase = "off" /\ last \in {"never", "cleared"} =>
        cause = "charger" ]_vars
=============================================================================
