------------------------------- MODULE Motobox -------------------------------
(***************************************************************************)
(* motobox's setconfig and masterclear: two tools that leave work for the  *)
(* next recovery boot, in the bootloader message on the misc partition, in *)
(* /cache/recovery/command, in /cache/recovery/new-config-id and in the    *)
(* package copied to /cache.                                               *)
(*                                                                         *)
(* The tools run one at a time, every file operation may fail, and power   *)
(* may be cut between any two of them: what is not synced survives or not, *)
(* item by item.  The recovery program is external.  It takes the options  *)
(* of the bootloader message and the lines of the command file, which is   *)
(* what the tools write them for.                                          *)
(***************************************************************************)
EXTENDS Integers, Sequences

CONSTANTS
  Ids,          \* valid config-ids
  NoId,
  MaxCalls,     \* bound: tool calls
  MaxFaults,    \* bound: operations that fail
  MaxCuts,      \* bound: power cuts
  MaxCommand    \* bound: the command file, in tokens

ASSUME MotoboxAssumption ==
  /\ NoId \notin Ids /\ Ids # {}
  /\ {MaxCalls, MaxFaults, MaxCuts, MaxCommand} \subseteq Nat

VARIABLES
  pc,
  call,       \* the running call: tool, config-id, option, old_confid, status
  files,      \* bcb, command, config, package and noerasedata as programs see them
  disk,       \* and as they are on flash
  installed,  \* what getconfig reads in /system/multiconfig
  calls, faults, cuts,
  wipe,       \* history: a masterclear that returned 0 waits for recovery
  update,     \* history: the config-id of a setconfig that returned 0, likewise
  glued,      \* history: an option was appended to a line that had not ended
  undone      \* history: a call took back or wrote over what the earlier setconfig had left

counts == <<calls, faults, cuts>>
history == <<wipe, update, glued, undone>>
vars == <<pc, call, files, disk, installed, counts, history>>

NoCall == [tool |-> "none", id |-> NoId, mode |-> "none", old |-> NoId, status |-> "NONE"]
Clean == [command |-> "none", recovery |-> {}]

Init ==
  /\ pc = "idle" /\ call = NoCall
  /\ \E b \in {Clean, [command |-> "other", recovery |-> {}]} :
       files = [bcb |-> b, command |-> <<>>, config |-> "absent",
                package |-> "absent", noerase |-> "absent"]
  /\ disk = files
  /\ installed \in Ids \cup {NoId}
  /\ calls = 0 /\ faults = 0 /\ cuts = 0
  /\ wipe = FALSE /\ update = NoId /\ glued = FALSE /\ undone = FALSE

Fault == faults < MaxFaults /\ faults' = faults + 1
Worked == UNCHANGED faults

\* A step of the running tool to label l that changes files to f.
Step(l, f) ==
  /\ pc' = l /\ files' = f
  /\ UNCHANGED <<disk, installed, calls, cuts>>

\* The call ends; a failed setconfig after a successful one takes its package
\* and its config-id away.
Return(status) ==
  /\ call' = NoCall
  /\ wipe' = (wipe \/ (call.tool = "masterclear" /\ status = "NONE"))
  /\ update' = IF call.tool = "setconfig" /\ status = "NONE" THEN call.id ELSE update
  /\ undone' = IF call.tool # "setconfig" THEN undone
               ELSE status # "NONE" /\ (undone \/ update # NoId)

-----------------------------------------------------------------------------
(* setconfig *)

Modes == {"none", "-norecovery", "-no_erase_data"}

\* setconfig_main() up to its first file operation; getconfig reads the
\* installed config-id and not the pending one.
setconfig_main(id, mode) ==
  /\ pc = "idle" /\ calls < MaxCalls
  /\ calls' = calls + 1
  /\ call' = [tool |-> "setconfig", id |-> id, mode |-> mode, old |-> installed, status |-> "NONE"]
  /\ pc' = "copy"
  /\ UNCHANGED <<files, disk, installed, faults, cuts, history>>

\* A failed copy leaves what it wrote.
copy_bota_package_to_cache ==
  /\ pc = "copy"
  /\ \/ /\ Worked /\ Step("unlink", [files EXCEPT !.package = "whole"])
        /\ UNCHANGED <<call, history>>
     \/ /\ Fault /\ Return("FILE_OPERATION")
        /\ \E p \in {files.package, "partial"} : Step("idle", [files EXCEPT !.package = p])
        /\ UNCHANGED glued

isSetRecovery == call.mode # "-norecovery"

\* set_config(confid), or set_config(old_confid) once the status is an error.
Reverting == call.status # "NONE"
Target == IF Reverting THEN call.old ELSE call.id

\* set_config failed: with the new config-id nothing is put back.
ConfigFailed(f) ==
  /\ Fault /\ Step("remove", f)
  /\ call' = [call EXCEPT !.status = IF Reverting THEN "NEEDS_RECONFIG" ELSE "FILE_OPERATION"]
  /\ UNCHANGED history

UnlinkConfig ==
  /\ pc = "unlink"
  /\ \/ /\ Worked /\ Step("write", [files EXCEPT !.config = "absent"])
        /\ UNCHANGED <<call, history>>
     \/ ConfigFailed(files)

WriteConfig ==
  /\ pc = "write"
  /\ \/ /\ Worked
        /\ Step(IF Reverting THEN "remove" ELSE IF isSetRecovery THEN "message" ELSE "append",
                [files EXCEPT !.config = Target])
        /\ UNCHANGED <<call, history>>
     \/ \E c \in {"absent", "partial"} : ConfigFailed([files EXCEPT !.config = c])

\* No way back to the old config-id.
RecoveryFailedKeep(status, f) ==
  IF call.tool = "masterclear"
  THEN Step("idle", f) /\ Return(status)
  ELSE /\ Step("remove", f)
       /\ call' = [call EXCEPT !.status = status]
       /\ UNCHANGED <<wipe, update, undone>>

\* Setting the recovery mode failed: back to the old config-id, if it is known.
RecoveryFailed(status, f) ==
  IF call.tool = "masterclear"
  THEN Step("idle", f) /\ Return(status)
  ELSE /\ Step(IF call.old # NoId THEN "unlink" ELSE "remove", f)
       /\ call' = [call EXCEPT !.status = status]
       /\ UNCHANGED <<wipe, update, undone>>

\* Nobody looks at what rm returns.
remove_bota_package_from_cache ==
  /\ pc = "remove"
  /\ \/ Worked /\ Step("idle", [files EXCEPT !.package = "absent"])
     \/ Fault /\ Step("idle", files)
  /\ Return(call.status)
  /\ UNCHANGED glued

-----------------------------------------------------------------------------
(* Both tools: the bootloader message and the command file *)

Option == IF call.tool = "masterclear" THEN "wipe" ELSE "update"
Finish == IF call.mode = "-no_erase_data" THEN "flag" ELSE "sync"
Error == IF isSetRecovery THEN "SET_RECOVERY" ELSE "FILE_OPERATION"

masterclear_main ==
  /\ pc = "idle" /\ calls < MaxCalls
  /\ calls' = calls + 1
  /\ call' = [NoCall EXCEPT !.tool = "masterclear"]
  /\ pc' = "message"
  /\ UNCHANGED <<files, disk, installed, faults, cuts, history>>

\* get_bootloader_message(); masterclear does not look at its result.
ReadMessage ==
  /\ pc = "message"
  /\ \/ /\ Worked /\ files.bcb.command = "none"
        /\ Step("store", files) /\ UNCHANGED <<call, history>>
     \/ /\ Worked /\ files.bcb.command = "boot-recovery"
        /\ Step("append", files) /\ UNCHANGED <<call, history>>
     \/ /\ Worked /\ files.bcb.command = "other"
        /\ RecoveryFailed("SET_RECOVERY", files) /\ UNCHANGED glued
     \/ /\ Fault /\ call.tool = "setconfig"
        /\ RecoveryFailed("SET_RECOVERY", files) /\ UNCHANGED glued
     \/ /\ Fault /\ call.tool = "masterclear"
        /\ Step("store", files) /\ UNCHANGED <<call, history>>

\* Overwrites the options of a message that asks for recovery already.
StoreMessageAlways ==
  /\ pc \in {"store", "append"}
  /\ \/ /\ Worked
        /\ Step(Finish, [files EXCEPT !.bcb = [command |-> "boot-recovery", recovery |-> {Option}]])
        /\ undone' = (undone \/ (Option = "wipe" /\ "update" \in files.bcb.recovery))
        /\ UNCHANGED <<call, wipe, update, glued>>
     \/ Fault /\ RecoveryFailed("SET_RECOVERY", files) /\ UNCHANGED glued

\* set_bootloader_message().
StoreMessage ==
  /\ pc = "store"
  /\ \/ /\ Worked
        /\ Step(Finish, [files EXCEPT !.bcb = [command |-> "boot-recovery", recovery |-> {Option}]])
        /\ undone' = (undone \/ (Option = "wipe" /\ "update" \in files.bcb.recovery))
        /\ UNCHANGED <<call, wipe, update, glued>>
     \/ Fault /\ RecoveryFailed("SET_RECOVERY", files) /\ UNCHANGED glued

\* set_cache_command() and set_wipe_command(); only the latter ends its line.
AppendCommand ==
  LET c     == files.command
      text  == IF Option = "wipe" THEN <<"wipe", "newline">> ELSE <<"update">>
      ended == c = <<>> \/ c[Len(c)] = "newline"
  IN  /\ pc = "append" /\ Len(c) + 2 <= MaxCommand
      /\ \/ /\ Worked /\ Step(Finish, [files EXCEPT !.command = c \o text])
            /\ glued' = (glued \/ ~ended)
            /\ UNCHANGED <<call, wipe, update, undone>>
         \/ /\ Fault /\ RecoveryFailed(Error, files) /\ UNCHANGED glued
         \/ /\ Fault /\ RecoveryFailed(Error, [files EXCEPT !.command = c \o <<"junk">>])
            /\ glued' = (glued \/ ~ended)

\* set_no_erase_data_flag(): its failures are not reported.
set_no_erase_data_flag ==
  /\ pc = "flag"
  /\ \/ Worked /\ Step("sync", [files EXCEPT !.noerase = "whole"])
     \/ /\ Fault
        /\ \E n \in {files.noerase, "partial"} : Step("sync", [files EXCEPT !.noerase = n])
  /\ UNCHANGED <<call, history>>

\* setconfig calls sync() only after it has set the flag.
SyncAfterFlag ==
  /\ pc = "sync"
  /\ Return("NONE")
  /\ pc' = "idle"
  /\ disk' = IF call.tool = "setconfig" /\ call.mode # "-no_erase_data" THEN disk ELSE files
  /\ UNCHANGED <<files, installed, counts, glued>>

\* sync(), and the return of success.
Sync ==
  /\ pc = "sync"
  /\ Return("NONE")
  /\ pc' = "idle"
  /\ disk' = files
  /\ UNCHANGED <<files, installed, counts, glued>>

-----------------------------------------------------------------------------
(* The environment *)

\* Power is cut: of every item either the flushed or the latest version is left.
PowerCut ==
  /\ cuts < MaxCuts
  /\ cuts' = cuts + 1
  /\ \E kept \in SUBSET DOMAIN files :
       files' = [k \in DOMAIN files |-> IF k \in kept THEN files[k] ELSE disk[k]]
  /\ disk' = files'
  /\ pc' = "idle" /\ call' = NoCall
  /\ undone' = (undone \/ (call.tool = "setconfig" /\ update # NoId))
  /\ UNCHANGED <<installed, calls, faults, wipe, update, glued>>

HasLine(c, o) ==
  \E k \in DOMAIN c : c[k] = o /\ (k = 1 \/ c[k - 1] = "newline") /\ (k = Len(c) \/ c[k + 1] = "newline")

Requested(f, o) == o \in f.bcb.recovery \/ HasLine(f.command, o)

\* The phone boots, into recovery when the message says so or the caller of
\* setconfig -norecovery does: it carries out the requests and clears them.
Reboot ==
  /\ pc = "idle"
  /\ files.bcb # Clean \/ files.command # <<>>
  /\ LET f == [files EXCEPT !.bcb = Clean]
     IN  IF files.bcb.command = "other"
         THEN files' = f /\ disk' = f /\ UNCHANGED <<installed, history>>
         ELSE /\ installed' = IF Requested(files, "update") /\ files.package = "whole"
                                   /\ files.config \in Ids
                              THEN files.config ELSE installed
              /\ files' = [f EXCEPT !.command = <<>>, !.config = "absent", !.package = "absent",
                                  !.noerase = "absent"]
              /\ disk' = files'
              /\ wipe' = FALSE /\ update' = NoId /\ glued' = FALSE /\ undone' = FALSE
  /\ UNCHANGED <<pc, call, counts>>

Next ==
  \/ \E id \in Ids, mode \in Modes : setconfig_main(id, mode)
  \/ masterclear_main
  \/ copy_bota_package_to_cache \/ UnlinkConfig \/ WriteConfig \/ remove_bota_package_from_cache
  \/ ReadMessage \/ StoreMessage \/ AppendCommand \/ set_no_erase_data_flag \/ Sync
  \/ PowerCut \/ Reboot

Spec == Init /\ [][Next]_vars

-----------------------------------------------------------------------------
(* Properties *)

Files ==
  [bcb : [command : {"none", "boot-recovery", "other"}, recovery : SUBSET {"wipe", "update"}],
   command : Seq({"wipe", "update", "newline", "junk"}),
   config : Ids \cup {"absent", "partial"},
   package : {"absent", "partial", "whole"},
   noerase : {"absent", "partial", "whole"}]

ToolCall ==
  [tool : {"none", "setconfig", "masterclear"}, id : Ids \cup {NoId}, mode : Modes,
   old : Ids \cup {NoId}, status : {"NONE", "FILE_OPERATION", "SET_RECOVERY", "NEEDS_RECONFIG"}]

\* The files hold what the tools write, a bootloader message without the
\* boot-recovery command asks recovery for nothing, and only masterclear may
\* go on to store a message over one that is in use.
TypeOK ==
  /\ pc \in {"idle", "copy", "unlink", "write", "remove", "message", "store", "append", "flag", "sync"}
  /\ call \in ToolCall
  /\ files \in Files /\ disk \in Files
  /\ installed \in Ids \cup {NoId}
  /\ calls \in 0..MaxCalls /\ faults \in 0..MaxFaults /\ cuts \in 0..MaxCuts
  /\ wipe \in BOOLEAN /\ glued \in BOOLEAN /\ undone \in BOOLEAN
  /\ update \in Ids \cup {NoId}
  /\ \A f \in {files, disk} : f.bcb.command # "boot-recovery" => f.bcb.recovery = {}
  /\ pc = "store" /\ call.tool = "setconfig" => files.bcb.command = "none"

\* masterclear_main() that returned 0 has its effect: until recovery has run,
\* no later setconfig or masterclear, failed operation or power cut loses the
\* request to wipe, in the files or on flash.  The exception is a line that
\* set_cache_command() or a failed write() left without its end.
WipeStands ==
  wipe /\ ~glued => Requested(files, "wipe") /\ Requested(disk, "wipe")

\* setconfig_main() that returned 0 has its effect: until recovery has run,
\* the request to install, the whole package and the new config-id are on
\* flash, whatever masterclear and the power do, unless a later setconfig was
\* not completed or masterclear could not read the message it replaced.
UpdateStands ==
  update # NoId /\ ~undone /\ ~glued /\ call.tool # "setconfig" =>
    /\ Requested(disk, "update") /\ Requested(files, "update")
    /\ disk.package = "whole" /\ files.package = "whole"
    /\ disk.config = update /\ files.config = update

\* "Set to recovery mode failed, so revert back to older config-id": when
\* setconfig_main() is about to report that recovery could not be set, the
\* new config-id is the old one again if there is one; a revert that failed
\* half-way is reported as NEEDS_RECONFIG instead.
ConfigReverted ==
  pc = "remove" /\ call.status = "SET_RECOVERY" /\ call.old # NoId => files.config = call.old
=============================================================================
