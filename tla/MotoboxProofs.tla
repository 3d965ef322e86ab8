---------------------------- MODULE MotoboxProofs ----------------------------
(***************************************************************************)
(* Proofs about Motobox, for every set of config-ids and every number of   *)
(* calls, failures and power cuts.  The two properties are not inductive:  *)
(* what makes them so is how far the running call has got, and that the    *)
(* flash never holds a request the files have lost, which is what makes a  *)
(* power cut harmless that keeps one item and not the other.               *)
(***************************************************************************)
EXTENDS Motobox, TLAPS

Tokens == {"wipe", "update", "newline", "junk"}
Ended(c) == c = <<>> \/ c[Len(c)] = "newline"

\* Where the running call is and what it knows.
Progress ==
  /\ pc = "idle" => call = NoCall
  /\ pc # "idle" => call.tool \in {"setconfig", "masterclear"}
  /\ pc \in {"copy", "unlink", "write", "remove", "flag"} => call.tool = "setconfig"
  /\ call.tool = "setconfig" => call.id \in Ids
  /\ call.tool = "masterclear" => call.mode = "none"
  /\ pc \in {"unlink", "write"} /\ call.status # "NONE" => call.old \in Ids
  /\ pc \in {"copy", "message", "store", "append", "flag", "sync"} => call.status = "NONE"
  /\ pc = "remove" => call.status # "NONE"

Asking == {"message", "store", "append", "flag", "sync"}

\* What setconfig has written before it asks for recovery, and what either
\* tool has asked for before it reports success.
Written ==
  /\ call.tool = "setconfig" /\ pc \in {"unlink", "write"} \cup Asking /\ call.status = "NONE" =>
       files.package = "whole"
  /\ call.tool = "setconfig" /\ pc \in Asking => files.config = call.id
  /\ pc \in {"flag", "sync"} /\ ~glued => Requested(files, Option)

\* No request is on flash only.
Behind ==
  /\ "wipe" \in disk.bcb.recovery => "wipe" \in files.bcb.recovery
  /\ ~undone /\ "update" \in disk.bcb.recovery => "update" \in files.bcb.recovery
  /\ ~glued => \A o \in {"wipe", "update"} : HasLine(disk.command, o) => HasLine(files.command, o)

Inv == TypeOK /\ Progress /\ Written /\ Behind /\ WipeStands /\ UpdateStands /\ ConfigReverted

-----------------------------------------------------------------------------
(* The command file *)

\* What is appended to a file whose last line has ended leaves its lines whole.
LEMMA AppendKeepsLine ==
  ASSUME NEW c \in Seq(Tokens), NEW t \in Seq(Tokens), NEW o, o # "newline",
         Ended(c), HasLine(c, o)
  PROVE  HasLine(c \o t, o)
<1>1. PICK k \in DOMAIN c :
        c[k] = o /\ (k = 1 \/ c[k - 1] = "newline") /\ (k = Len(c) \/ c[k + 1] = "newline")
  BY DEF HasLine
<1>2. k \in 1..Len(c) /\ Len(c) \in Nat /\ Len(t) \in Nat
  OBVIOUS
<1>3. c # <<>>
  BY <1>2
<1>4. k # Len(c)
  BY <1>1, <1>3 DEF Ended
<1>5. k + 1 \in 1..Len(c) /\ k \in 1..Len(c) /\ (k # 1 => k - 1 \in 1..Len(c))
  BY <1>2, <1>4
<1>6. Len(c \o t) = Len(c) + Len(t) /\ \A i \in 1..Len(c) : (c \o t)[i] = c[i]
  OBVIOUS
<1>7. k \in DOMAIN (c \o t)
  BY <1>2, <1>6
<1>8. (c \o t)[k] = o /\ (k = 1 \/ (c \o t)[k - 1] = "newline") /\ (c \o t)[k + 1] = "newline"
  BY <1>1, <1>4, <1>5, <1>6
<1> QED
  BY <1>7, <1>8 DEF HasLine

\* set_wipe_command() adds a line of its own after a line that has ended.
LEMMA AppendAddsWipe ==
  ASSUME NEW c \in Seq(Tokens), Ended(c)
  PROVE  HasLine(c \o <<"wipe", "newline">>, "wipe")
<1> DEFINE d == c \o <<"wipe", "newline">>
           k == Len(c) + 1
<1>1. Len(c) \in Nat /\ Len(d) = Len(c) + 2
  OBVIOUS
<1>2. k \in DOMAIN d
  BY <1>1
<1>3. d[k] = "wipe" /\ d[k + 1] = "newline"
  OBVIOUS
<1>4. k = 1 \/ d[k - 1] = "newline"
  <2>1. CASE c = <<>>
    BY <2>1
  <2>2. CASE c # <<>> /\ c[Len(c)] = "newline"
    BY <2>2, <1>1
  <2> QED
    BY <2>1, <2>2 DEF Ended
<1> HIDE DEF d, k
<1>5. HasLine(d, "wipe")
  BY <1>2, <1>3, <1>4 DEF HasLine
<1> QED
  BY <1>5 DEF d

\* So does set_cache_command(), although it does not end it.
LEMMA AppendAddsUpdate ==
  ASSUME NEW c \in Seq(Tokens), Ended(c)
  PROVE  HasLine(c \o <<"update">>, "update")
<1> DEFINE d == c \o <<"update">>
           k == Len(c) + 1
<1>1. Len(c) \in Nat /\ Len(d) = Len(c) + 1
  OBVIOUS
<1>2. k \in DOMAIN d /\ k = Len(d)
  BY <1>1
<1>3. d[k] = "update"
  OBVIOUS
<1>4. k = 1 \/ d[k - 1] = "newline"
  <2>1. CASE c = <<>>
    BY <2>1
  <2>2. CASE c # <<>> /\ c[Len(c)] = "newline"
    BY <2>2, <1>1
  <2> QED
    BY <2>1, <2>2 DEF Ended
<1> HIDE DEF d, k
<1>5. HasLine(d, "update")
  BY <1>2, <1>3, <1>4 DEF HasLine
<1> QED
  BY <1>5 DEF d

-----------------------------------------------------------------------------
(* Every step keeps the invariant *)

Parts == {"absent", "partial", "whole"}

\* A change of one file leaves the others alone.
LEMMA EditPackage ==
  ASSUME NEW f \in Files, NEW p \in Parts, NEW g, g = [f EXCEPT !.package = p]
  PROVE  /\ g \in Files /\ g.package = p
         /\ g.bcb = f.bcb /\ g.command = f.command /\ g.config = f.config
BY DEF Files, Parts

\* The same of new-config-id.
LEMMA EditConfig ==
  ASSUME NEW f \in Files, NEW c \in Ids \cup {"absent", "partial"}, NEW g, g = [f EXCEPT !.config = c]
  PROVE  /\ g \in Files /\ g.config = c
         /\ g.bcb = f.bcb /\ g.command = f.command /\ g.package = f.package
BY DEF Files

\* The same of the no-erase-data flag.
LEMMA EditFlag ==
  ASSUME NEW f \in Files, NEW p \in Parts, NEW g, g = [f EXCEPT !.noerase = p]
  PROVE  /\ g \in Files
         /\ g.bcb = f.bcb /\ g.command = f.command /\ g.config = f.config /\ g.package = f.package
BY DEF Files, Parts

\* The same of the command file.
LEMMA EditCommand ==
  ASSUME NEW f \in Files, NEW c \in Seq(Tokens), NEW g, g = [f EXCEPT !.command = c]
  PROVE  /\ g \in Files /\ g.command = c
         /\ g.bcb = f.bcb /\ g.config = f.config /\ g.package = f.package
BY DEF Files, Tokens

\* The same of the bootloader message.
LEMMA EditMessage ==
  ASSUME NEW f \in Files, NEW o \in {"wipe", "update"},
         NEW g, g = [f EXCEPT !.bcb = [command |-> "boot-recovery", recovery |-> {o}]]
  PROVE  /\ g \in Files /\ g.bcb.command = "boot-recovery" /\ g.bcb.recovery = {o}
         /\ g.command = f.command /\ g.config = f.config /\ g.package = f.package
BY DEF Files

\* Between calls there is no call.
LEMMA NoCallTyped == NoCall \in ToolCall
BY DEF NoCall, ToolCall, Modes

\* What the end of a call leaves of the histories.
LEMMA ReturnTyped ==
  ASSUME TypeOK, NEW status, Return(status)
  PROVE  /\ call' = NoCall /\ call' \in ToolCall
         /\ wipe' \in BOOLEAN /\ undone' \in BOOLEAN /\ update' \in Ids \cup {NoId}
         /\ status # "NONE" => wipe' = wipe /\ update' = update
         /\ status # "NONE" /\ call.tool = "setconfig" => undone' = (undone \/ update # NoId)
         /\ call.tool # "setconfig" => undone' = undone
<1>1. call' = NoCall /\ call' \in ToolCall
  BY NoCallTyped DEF Return
<1>2. wipe' \in BOOLEAN /\ (status # "NONE" => wipe' = wipe)
  BY DEF Return, TypeOK
<1>3. update' \in Ids \cup {NoId} /\ (status # "NONE" => update' = update)
  BY DEF Return, TypeOK, ToolCall
<1>4. /\ undone' \in BOOLEAN
      /\ status # "NONE" /\ call.tool = "setconfig" => undone' = (undone \/ update # NoId)
      /\ call.tool # "setconfig" => undone' = undone
  BY Zenon DEF Return, TypeOK
<1> QED
  BY <1>1, <1>2, <1>3, <1>4

\* A failed operation is counted.
LEMMA FaultTyped ==
  ASSUME TypeOK, Fault \/ Worked
  PROVE  faults' \in 0..MaxFaults
BY MotoboxAssumption DEF TypeOK, Fault, Worked

\* The files start without a request.
LEMMA InvInit == Init => Inv
<1> SUFFICES ASSUME Init PROVE Inv
  OBVIOUS
<1>1. TypeOK
  <2>1. files \in Files /\ disk \in Files /\ files.bcb.recovery = {} /\ disk.bcb.recovery = {}
    BY DEF Init, Files, Clean
  <2>2. call \in ToolCall
    BY NoCallTyped DEF Init
  <2>3. calls \in 0..MaxCalls /\ faults \in 0..MaxFaults /\ cuts \in 0..MaxCuts
    BY MotoboxAssumption DEF Init
  <2> QED
    BY <2>1, <2>2, <2>3 DEF Init, TypeOK
<1>2. Progress /\ Written /\ ConfigReverted
  BY DEF Init, Progress, Written, ConfigReverted, NoCall, Asking
<1>3. Behind
  BY DEF Init, Behind
<1>4. WipeStands /\ UpdateStands
  BY DEF Init, WipeStands, UpdateStands
<1> QED
  BY <1>1, <1>2, <1>3, <1>4 DEF Inv

\* The beginning of a call: setconfig's with nothing written, masterclear's
\* with nothing of setconfig's touched.
LEMMA SetconfigKeeps ==
  ASSUME Inv, NEW id \in Ids, NEW mode \in Modes, setconfig_main(id, mode)
  PROVE  Inv'
<1> USE MotoboxAssumption DEF setconfig_main, Inv, counts, history
<1>1. TypeOK'
  BY DEF TypeOK, ToolCall
<1>2. Progress' /\ ConfigReverted'
  BY DEF TypeOK, Progress, ConfigReverted
<1>3. Written' /\ Behind'
  BY DEF Written, Behind, Asking
<1>4. WipeStands' /\ UpdateStands'
  BY DEF WipeStands, UpdateStands
<1> QED
  BY <1>1, <1>2, <1>3, <1>4 DEF Inv

\* masterclear_main() begins.
LEMMA MasterclearKeeps ==
  ASSUME Inv, masterclear_main
  PROVE  Inv'
<1> USE MotoboxAssumption DEF masterclear_main, Inv, counts, history
<1>1. TypeOK'
  BY DEF TypeOK, ToolCall, NoCall, Modes
<1>2. Progress' /\ ConfigReverted'
  BY DEF TypeOK, Progress, ConfigReverted, NoCall
<1>3. Written' /\ Behind'
  BY DEF Written, Behind, NoCall, Asking
<1>4. WipeStands' /\ UpdateStands'
  BY DEF WipeStands, UpdateStands, NoCall, Progress
<1> QED
  BY <1>1, <1>2, <1>3, <1>4 DEF Inv

\* Steps that take no request out of the files and leave the flash alone.
LEMMA RequestsKept ==
  ASSUME Inv, files'.bcb = files.bcb, glued => glued',
         ~glued' => \A o \in {"wipe", "update"} :
                      HasLine(files.command, o) => HasLine(files'.command, o),
         disk' = disk, wipe' = wipe, undone => undone'
  PROVE  Behind' /\ WipeStands'
<1> USE DEF Inv, Requested
<1>1. Behind'
  BY DEF Behind
<1>2. WipeStands'
  BY DEF WipeStands
<1> QED
  BY <1>1, <1>2

\* In particular the steps that touch neither the message nor the command file.
LEMMA QuietStep ==
  ASSUME Inv, files'.bcb = files.bcb, files'.command = files.command,
         disk' = disk, glued' = glued, wipe' = wipe, undone => undone'
  PROVE  Behind' /\ WipeStands'
BY RequestsKept

\* A step of masterclear that leaves setconfig's files alone.
LEMMA UpdateKept ==
  ASSUME Inv, files'.bcb = files.bcb, glued => glued',
         ~glued' => \A o \in {"wipe", "update"} :
                      HasLine(files.command, o) => HasLine(files'.command, o),
         files'.package = files.package, files'.config = files.config,
         disk' = disk, update' = update, undone => undone', call.tool # "setconfig"
  PROVE  UpdateStands'
BY DEF Inv, Requested, UpdateStands

\* The counters and the flash are as they were.
LEMMA StepTyped ==
  ASSUME Inv, NEW l, NEW f, Step(l, f), Fault \/ Worked, f \in Files, f.bcb = files.bcb,
         l \in {"idle", "unlink", "write", "remove", "message", "append", "flag", "sync"},
         call' \in ToolCall, wipe' \in BOOLEAN, glued' \in BOOLEAN, undone' \in BOOLEAN,
         update' \in Ids \cup {NoId}
  PROVE  TypeOK'
<1>1. faults' \in 0..MaxFaults
  BY FaultTyped DEF Inv
<1> QED
  BY <1>1 DEF Inv, Step, TypeOK

\* The package is setconfig's own: a failed copy undoes an earlier success.
LEMMA CopyKeeps ==
  ASSUME Inv, copy_bota_package_to_cache
  PROVE  Inv'
<1>0. call.tool = "setconfig" /\ pc = "copy" /\ call.status = "NONE" /\ TypeOK
  BY DEF Inv, Progress, copy_bota_package_to_cache
<1>1. CASE Worked /\ Step("unlink", [files EXCEPT !.package = "whole"]) /\ UNCHANGED <<call, history>>
  <2> DEFINE g == [files EXCEPT !.package = "whole"]
  <2>1. g \in Files /\ g.package = "whole" /\ g.bcb = files.bcb /\ g.command = files.command
    BY <1>0, EditPackage DEF TypeOK, Parts
  <2>2. files' = g /\ pc' = "unlink" /\ disk' = disk
    BY <1>1 DEF Step
  <2>3. call' = call /\ wipe' = wipe /\ glued' = glued /\ undone' = undone /\ update' = update
    BY <1>1 DEF history
  <2> HIDE DEF g
  <2>4. TypeOK'
    BY <1>0, <1>1, <2>1, <2>3, StepTyped DEF TypeOK, g
  <2>5. Behind' /\ WipeStands'
    BY <2>1, <2>2, <2>3, QuietStep
  <2>6. Progress' /\ Written' /\ UpdateStands' /\ ConfigReverted'
    BY <1>0, <2>1, <2>2, <2>3 DEF Inv, Progress, Written, UpdateStands, ConfigReverted, Asking
  <2> QED
    BY <2>4, <2>5, <2>6 DEF Inv
<1>2. CASE /\ Fault /\ Return("FILE_OPERATION") /\ UNCHANGED glued
           /\ \E p \in {files.package, "partial"} : Step("idle", [files EXCEPT !.package = p])
  <2>1. PICK p \in Parts : Step("idle", [files EXCEPT !.package = p])
    BY <1>0, <1>2 DEF TypeOK, Files, Parts
  <2> DEFINE g == [files EXCEPT !.package = p]
  <2>2. g \in Files /\ g.bcb = files.bcb /\ g.command = files.command
    BY <1>0, EditPackage DEF TypeOK
  <2>3. files' = g /\ pc' = "idle" /\ disk' = disk
    BY <2>1 DEF Step
  <2> HIDE DEF g
  <2>4. /\ call' = NoCall /\ call' \in ToolCall /\ wipe' = wipe /\ glued' = glued
        /\ wipe' \in BOOLEAN /\ undone' \in BOOLEAN /\ update' \in Ids \cup {NoId}
        /\ undone' = (undone \/ update # NoId) /\ update' = update
    BY <1>0, <1>2, ReturnTyped
  <2>5. TypeOK'
    BY <1>0, <1>2, <2>1, <2>2, <2>4, StepTyped DEF TypeOK, g
  <2>6. Behind' /\ WipeStands'
    BY <2>2, <2>3, <2>4, QuietStep
  <2>7. Progress' /\ Written' /\ UpdateStands' /\ ConfigReverted'
    BY <2>3, <2>4 DEF Progress, Written, UpdateStands, ConfigReverted, Asking, NoCall
  <2> QED
    BY <2>5, <2>6, <2>7 DEF Inv
<1> QED
  BY <1>1, <1>2 DEF copy_bota_package_to_cache

\* set_config() failed: nothing of setconfig's is left to keep.
LEMMA ConfigFailedKeeps ==
  ASSUME Inv, pc \in {"unlink", "write"}, NEW f \in Files, f.bcb = files.bcb,
         f.command = files.command, ConfigFailed(f)
  PROVE  Inv'
<1>0. call.tool = "setconfig" /\ TypeOK
  BY DEF Inv, Progress
<1>1. files' = f /\ pc' = "remove" /\ disk' = disk /\ Fault /\ Step("remove", f)
  BY DEF ConfigFailed, Step
<1>2. wipe' = wipe /\ glued' = glued /\ undone' = undone /\ update' = update
  BY DEF ConfigFailed, history
<1>3. /\ call' \in ToolCall /\ call'.tool = "setconfig" /\ call'.id = call.id
      /\ call'.status \in {"NEEDS_RECONFIG", "FILE_OPERATION"}
  BY <1>0 DEF ConfigFailed, TypeOK, ToolCall
<1>4. TypeOK'
  BY <1>0, <1>1, <1>2, <1>3, StepTyped DEF TypeOK
<1>5. Behind' /\ WipeStands'
  BY <1>1, <1>2, QuietStep
<1>6. Progress' /\ Written' /\ UpdateStands' /\ ConfigReverted'
  BY <1>0, <1>1, <1>2, <1>3 DEF Inv, Progress, Written, UpdateStands, ConfigReverted, Asking
<1> QED
  BY <1>4, <1>5, <1>6 DEF Inv

\* set_config() removes new-config-id.
LEMMA UnlinkKeeps ==
  ASSUME Inv, UnlinkConfig
  PROVE  Inv'
<1>0. call.tool = "setconfig" /\ TypeOK /\ pc = "unlink"
  BY DEF Inv, Progress, UnlinkConfig
<1>1. CASE Worked /\ Step("write", [files EXCEPT !.config = "absent"]) /\ UNCHANGED <<call, history>>
  <2> DEFINE g == [files EXCEPT !.config = "absent"]
  <2>1. g \in Files /\ g.package = files.package /\ g.bcb = files.bcb /\ g.command = files.command
    BY <1>0, EditConfig DEF TypeOK
  <2>2. files' = g /\ pc' = "write" /\ disk' = disk
    BY <1>1 DEF Step
  <2>3. call' = call /\ wipe' = wipe /\ glued' = glued /\ undone' = undone /\ update' = update
    BY <1>1 DEF history
  <2> HIDE DEF g
  <2>4. TypeOK'
    BY <1>0, <1>1, <2>1, <2>3, StepTyped DEF TypeOK, g
  <2>5. Behind' /\ WipeStands'
    BY <2>1, <2>2, <2>3, QuietStep
  <2>6. Progress' /\ Written' /\ UpdateStands' /\ ConfigReverted'
    BY <1>0, <2>1, <2>2, <2>3 DEF Inv, Progress, Written, UpdateStands, ConfigReverted, Asking
  <2> QED
    BY <2>4, <2>5, <2>6 DEF Inv
<1>2. CASE ConfigFailed(files)
  BY <1>0, <1>2, ConfigFailedKeeps DEF TypeOK
<1> QED
  BY <1>1, <1>2 DEF UnlinkConfig

\* set_config() writes the new config-id, or the old one again.
LEMMA WriteKeeps ==
  ASSUME Inv, WriteConfig
  PROVE  Inv'
<1>0. call.tool = "setconfig" /\ TypeOK /\ pc = "write"
  BY DEF Inv, Progress, WriteConfig
<1> DEFINE l == IF Reverting THEN "remove" ELSE IF isSetRecovery THEN "message" ELSE "append"
<1>1. CASE Worked /\ Step(l, [files EXCEPT !.config = Target]) /\ UNCHANGED <<call, history>>
  <2>0. /\ Target \in Ids
        /\ Reverting => Target = call.old /\ l = "remove"
        /\ ~Reverting => Target = call.id /\ l \in {"message", "append"}
    BY <1>0 DEF Inv, Progress, Target, Reverting
  <2> DEFINE g == [files EXCEPT !.config = Target]
  <2>1. /\ g \in Files /\ g.config = Target /\ g.package = files.package
        /\ g.bcb = files.bcb /\ g.command = files.command
    BY <1>0, <2>0, EditConfig DEF TypeOK
  <2>2. files' = g /\ pc' = l /\ disk' = disk
    BY <1>1 DEF Step
  <2>3. call' = call /\ wipe' = wipe /\ glued' = glued /\ undone' = undone /\ update' = update
    BY <1>1 DEF history
  <2> HIDE DEF g, l
  <2>4. TypeOK'
    BY <1>0, <1>1, <2>0, <2>1, <2>3, StepTyped DEF TypeOK, g
  <2>5. Behind' /\ WipeStands'
    BY <2>1, <2>2, <2>3, QuietStep
  <2>6. Progress' /\ Written' /\ UpdateStands' /\ ConfigReverted'
    BY <1>0, <2>0, <2>1, <2>2, <2>3
    DEF Inv, Progress, Written, UpdateStands, ConfigReverted, Asking, Reverting
  <2> QED
    BY <2>4, <2>5, <2>6 DEF Inv
<1>2. CASE \E c \in {"absent", "partial"} : ConfigFailed([files EXCEPT !.config = c])
  <2>1. PICK c \in {"absent", "partial"} : ConfigFailed([files EXCEPT !.config = c])
    BY <1>2
  <2> DEFINE g == [files EXCEPT !.config = c]
  <2>2. g \in Files /\ g.bcb = files.bcb /\ g.command = files.command
    BY <1>0, EditConfig DEF TypeOK
  <2> QED
    BY <1>0, <2>1, <2>2, ConfigFailedKeeps
<1> QED
  BY <1>1, <1>2 DEF WriteConfig

\* The package is removed on the way out of a failed setconfig.
LEMMA RemoveKeeps ==
  ASSUME Inv, remove_bota_package_from_cache
  PROVE  Inv'
<1>0. call.tool = "setconfig" /\ TypeOK /\ pc = "remove" /\ call.status # "NONE"
  BY DEF Inv, Progress, remove_bota_package_from_cache
<1>1. PICK p \in Parts : Step("idle", [files EXCEPT !.package = p]) /\ (Fault \/ Worked)
  <2>1. files = [files EXCEPT !.package = files.package] /\ files.package \in Parts
    BY <1>0 DEF TypeOK, Files, Parts
  <2> QED
    BY <2>1 DEF remove_bota_package_from_cache, Parts
<1> DEFINE g == [files EXCEPT !.package = p]
<1>2. g \in Files /\ g.bcb = files.bcb /\ g.command = files.command
  BY <1>0, EditPackage DEF TypeOK
<1>3. files' = g /\ pc' = "idle" /\ disk' = disk
  BY <1>1 DEF Step
<1> HIDE DEF g
<1>4. /\ call' = NoCall /\ call' \in ToolCall /\ wipe' = wipe /\ glued' = glued
      /\ wipe' \in BOOLEAN /\ undone' \in BOOLEAN /\ update' \in Ids \cup {NoId}
      /\ undone' = (undone \/ update # NoId) /\ update' = update
  BY <1>0, ReturnTyped DEF remove_bota_package_from_cache
<1>5. TypeOK'
  BY <1>0, <1>1, <1>2, <1>4, StepTyped DEF TypeOK, g
<1>6. Behind' /\ WipeStands'
  BY <1>2, <1>3, <1>4, QuietStep
<1>7. Progress' /\ Written' /\ UpdateStands' /\ ConfigReverted'
  BY <1>3, <1>4 DEF Progress, Written, UpdateStands, ConfigReverted, Asking, NoCall
<1> QED
  BY <1>5, <1>6, <1>7 DEF Inv

\* Recovery could not be set: setconfig goes back, masterclear gives up.
LEMMA RecoveryFailedKeeps ==
  ASSUME Inv, pc \in {"message", "store", "append"}, NEW status \in {"SET_RECOVERY", "FILE_OPERATION"},
         NEW f \in Files, f.bcb = files.bcb, f.package = files.package, f.config = files.config,
         RecoveryFailed(status, f), Fault \/ Worked, glued' \in BOOLEAN, glued => glued',
         ~glued' => \A o \in {"wipe", "update"} : HasLine(files.command, o) => HasLine(f.command, o)
  PROVE  Inv'
<1>0. TypeOK /\ call.tool \in {"setconfig", "masterclear"}
  BY DEF Inv, Progress
<1>1. CASE call.tool = "masterclear"
  <2>1. Step("idle", f) /\ Return(status) /\ files' = f /\ pc' = "idle" /\ disk' = disk
    BY <1>1 DEF RecoveryFailed, Step
  <2>2. /\ call' = NoCall /\ call' \in ToolCall /\ wipe' = wipe /\ update' = update
        /\ wipe' \in BOOLEAN /\ undone' \in BOOLEAN /\ update' \in Ids \cup {NoId}
        /\ undone' = undone
    BY <1>0, <1>1, <2>1, ReturnTyped
  <2>3. TypeOK'
    BY <2>1, <2>2, StepTyped
  <2>4. Behind' /\ WipeStands'
    BY <2>1, <2>2, RequestsKept
  <2>5. UpdateStands'
    BY <1>1, <2>1, <2>2, UpdateKept
  <2>6. Progress' /\ Written' /\ ConfigReverted'
    BY <2>1, <2>2 DEF Progress, Written, ConfigReverted, Asking, NoCall
  <2> QED
    BY <2>3, <2>4, <2>5, <2>6 DEF Inv
<1>2. CASE call.tool = "setconfig"
  <2> DEFINE l == IF call.old # NoId THEN "unlink" ELSE "remove"
  <2>1. Step(l, f) /\ files' = f /\ pc' = l /\ disk' = disk
    BY <1>2 DEF RecoveryFailed, Step
  <2>2. wipe' = wipe /\ update' = update /\ undone' = undone
    BY <1>2 DEF RecoveryFailed
  <2>3. /\ call' \in ToolCall /\ call'.tool = "setconfig" /\ call'.id = call.id
        /\ call'.old = call.old /\ call'.status = status
    BY <1>0, <1>2 DEF RecoveryFailed, TypeOK, ToolCall
  <2>4. /\ l \in {"unlink", "remove"} /\ (l = "unlink" => call.old \in Ids)
        /\ (l = "remove" => call.old = NoId)
    BY <1>0 DEF TypeOK, ToolCall
  <2> HIDE DEF l
  <2>5. TypeOK'
    BY <1>0, <2>1, <2>2, <2>3, <2>4, StepTyped DEF TypeOK
  <2>6. Behind' /\ WipeStands'
    BY <2>1, <2>2, RequestsKept
  <2>7. Progress' /\ Written' /\ UpdateStands' /\ ConfigReverted'
    BY <1>2, <2>1, <2>2, <2>3, <2>4
    DEF Inv, Progress, Written, UpdateStands, ConfigReverted, Asking
  <2> QED
    BY <2>5, <2>6, <2>7 DEF Inv
<1> QED
  BY <1>0, <1>1, <1>2

\* Reading the message changes nothing; setconfig goes on to store one only
\* when there is none.
LEMMA ReadMessageKeeps ==
  ASSUME Inv, ReadMessage
  PROVE  Inv'
<1>0. TypeOK /\ pc = "message" /\ call.tool \in {"setconfig", "masterclear"} /\ files \in Files
  BY DEF Inv, Progress, ReadMessage, TypeOK
<1>1. CASE /\ \E l \in {"store", "append"} :
                Step(l, files) /\ (l = "store" /\ call.tool = "setconfig" => files.bcb.command = "none")
           /\ Fault \/ Worked
           /\ UNCHANGED <<call, history>>
  <2>1. PICK l \in {"store", "append"} :
          Step(l, files) /\ (l = "store" /\ call.tool = "setconfig" => files.bcb.command = "none")
    BY <1>1
  <2>2. files' = files /\ pc' = l /\ disk' = disk
    BY <2>1 DEF Step
  <2>3. call' = call /\ wipe' = wipe /\ glued' = glued /\ undone' = undone /\ update' = update
    BY <1>1 DEF history
  <2>4. faults' \in 0..MaxFaults
    BY <1>0, <1>1, FaultTyped
  <2>5. TypeOK'
    BY <1>0, <2>1, <2>2, <2>3, <2>4 DEF TypeOK, Step
  <2>6. Behind' /\ WipeStands'
    BY <2>2, <2>3, QuietStep
  <2>7. Progress' /\ Written' /\ UpdateStands' /\ ConfigReverted'
    BY <1>0, <2>2, <2>3 DEF Inv, Progress, Written, UpdateStands, ConfigReverted, Asking
  <2> QED
    BY <2>5, <2>6, <2>7 DEF Inv
<1>2. CASE RecoveryFailed("SET_RECOVERY", files) /\ (Fault \/ Worked) /\ UNCHANGED glued
  BY <1>0, <1>2, RecoveryFailedKeeps DEF TypeOK
<1> QED
  BY <1>0, <1>1, <1>2 DEF ReadMessage

\* A message in use is replaced only by masterclear.
LEMMA StoreKeeps ==
  ASSUME Inv, StoreMessage
  PROVE  Inv'
<1>0. TypeOK /\ pc = "store" /\ call.tool \in {"setconfig", "masterclear"} /\ files \in Files
  BY DEF Inv, Progress, StoreMessage, TypeOK
<1> DEFINE g == [files EXCEPT !.bcb = [command |-> "boot-recovery", recovery |-> {Option}]]
<1>1. CASE /\ Worked /\ Step(Finish, g)
           /\ undone' = (undone \/ (Option = "wipe" /\ "update" \in files.bcb.recovery))
           /\ UNCHANGED <<call, wipe, update, glued>>
  <2>1. /\ Option \in {"wipe", "update"}
        /\ (Option = "update" <=> call.tool = "setconfig") /\ (Option = "wipe" <=> call.tool = "masterclear")
        /\ Finish \in {"flag", "sync"} /\ (call.tool = "masterclear" => Finish = "sync")
    BY <1>0 DEF Option, Finish, Inv, Progress
  <2>2. /\ g \in Files /\ g.bcb.command = "boot-recovery" /\ g.bcb.recovery = {Option}
        /\ g.command = files.command /\ g.config = files.config /\ g.package = files.package
    BY <1>0, <2>1, EditMessage
  <2>3. files' = g /\ pc' = Finish /\ disk' = disk
    BY <1>1 DEF Step
  <2> HIDE DEF g
  <2>4. call' = call /\ wipe' = wipe /\ update' = update /\ glued' = glued
    BY <1>1
  <2>5. undone' \in BOOLEAN /\ (~undone' => ~undone /\ ~(Option = "wipe" /\ "update" \in files.bcb.recovery))
    BY <1>0, <1>1, Zenon DEF TypeOK
  <2>6. faults' \in 0..MaxFaults
    BY <1>0, <1>1, FaultTyped
  <2>7. TypeOK'
    BY <1>0, <1>1, <2>1, <2>2, <2>3, <2>4, <2>5, <2>6 DEF TypeOK, Step
  <2>8. Option = "update" => files.bcb.recovery = {}
    BY <1>0, <2>1 DEF TypeOK
  <2>9. Behind'
    BY <2>1, <2>2, <2>3, <2>4, <2>5, <2>8 DEF Inv, Behind
  <2>10. WipeStands'
    BY <2>1, <2>2, <2>3, <2>4, <2>8 DEF Inv, WipeStands, Requested
  <2>11. UpdateStands'
    BY <2>1, <2>2, <2>3, <2>4, <2>5 DEF Inv, UpdateStands, Requested
  <2>12. Option' = Option
    BY <2>4 DEF Option
  <2>13. Progress' /\ Written' /\ ConfigReverted'
    BY <1>0, <2>1, <2>2, <2>3, <2>4, <2>12
    DEF Inv, Progress, Written, ConfigReverted, Asking, Requested
  <2> QED
    BY <2>7, <2>9, <2>10, <2>11, <2>13 DEF Inv
<1>2. CASE Fault /\ RecoveryFailed("SET_RECOVERY", files) /\ UNCHANGED glued
  BY <1>0, <1>2, RecoveryFailedKeeps DEF TypeOK
<1> QED
  BY <1>1, <1>2 DEF StoreMessage

\* A line that had ended before is still a line.
LEMMA AppendKeeps ==
  ASSUME Inv, AppendCommand
  PROVE  Inv'
<1> DEFINE c     == files.command
           text  == IF Option = "wipe" THEN <<"wipe", "newline">> ELSE <<"update">>
           n     == c \o text
           g     == [files EXCEPT !.command = n]
           m     == c \o <<"junk">>
           j     == [files EXCEPT !.command = m]
<1>0. /\ TypeOK /\ pc = "append" /\ call.tool \in {"setconfig", "masterclear"}
      /\ files \in Files /\ c \in Seq(Tokens) /\ Error \in {"SET_RECOVERY", "FILE_OPERATION"}
  BY DEF Inv, Progress, AppendCommand, TypeOK, Files, Tokens, Error
<1>1. CASE /\ Worked /\ Step(Finish, g)
           /\ glued' = (glued \/ ~Ended(c))
           /\ UNCHANGED <<call, wipe, update, undone>>
  <2>0. /\ Option \in {"wipe", "update"}
        /\ Finish \in {"flag", "sync"} /\ (call.tool = "masterclear" => Finish = "sync")
    BY <1>0 DEF Option, Finish, Inv, Progress
  <2>1. text \in Seq(Tokens)
    <3>1. <<"wipe", "newline">> \in Seq(Tokens) /\ <<"update">> \in Seq(Tokens)
      BY DEF Tokens
    <3> QED
      BY <3>1
  <2>2. n \in Seq(Tokens)
    <3> HIDE DEF text, c
    <3> QED
      BY <1>0, <2>1
  <2>3. /\ g \in Files /\ g.command = n
        /\ g.bcb = files.bcb /\ g.config = files.config /\ g.package = files.package
    <3> HIDE DEF n
    <3> QED
      BY <1>0, <2>2, EditCommand
  <2>4. Ended(c) => /\ \A o \in {"wipe", "update"} : HasLine(c, o) => HasLine(c \o text, o)
                    /\ HasLine(c \o text, Option)
    <3> SUFFICES ASSUME Ended(c)
                 PROVE  /\ \A o \in {"wipe", "update"} : HasLine(c, o) => HasLine(c \o text, o)
                        /\ HasLine(c \o text, Option)
      OBVIOUS
    <3>1. \A o \in {"wipe", "update"} : HasLine(c, o) => HasLine(c \o text, o)
      <4> HIDE DEF text, c
      <4> QED
        BY <1>0, <2>1, AppendKeepsLine
    <3>2. HasLine(c \o text, Option)
      <4>1. CASE Option = "wipe"
        BY <1>0, <4>1, AppendAddsWipe
      <4>2. CASE Option = "update"
        BY <1>0, <4>2, AppendAddsUpdate
      <4> QED
        BY <2>0, <4>1, <4>2
    <3> QED
      BY <3>1, <3>2
  <2>5. files' = g /\ pc' = Finish /\ disk' = disk /\ files.command = c
    BY <1>1 DEF Step
  <2> HIDE DEF g, text, c
  <2>6. call' = call /\ wipe' = wipe /\ update' = update /\ undone' = undone
    BY <1>1
  <2>7. glued' \in BOOLEAN /\ (glued => glued') /\ (~glued' => Ended(c))
    BY <1>0, <1>1, Zenon DEF TypeOK
  <2>8. TypeOK'
    BY <1>0, <1>1, <2>0, <2>3, <2>6, <2>7, StepTyped DEF TypeOK
  <2>9. Behind' /\ WipeStands'
    BY <2>3, <2>4, <2>5, <2>6, <2>7, RequestsKept
  <2>10. UpdateStands'
    <3>1. CASE call.tool = "setconfig"
      BY <3>1, <2>6 DEF UpdateStands
    <3>2. CASE call.tool # "setconfig"
      BY <3>2, <2>3, <2>4, <2>5, <2>6, <2>7, UpdateKept
    <3> QED
      BY <3>1, <3>2
  <2>11. Option' = Option
    BY <2>6 DEF Option
  <2>12. Progress' /\ Written' /\ ConfigReverted'
    BY <1>0, <2>0, <2>3, <2>4, <2>5, <2>6, <2>7, <2>11
    DEF Inv, Progress, Written, ConfigReverted, Asking, Requested
  <2> QED
    BY <2>8, <2>9, <2>10, <2>12 DEF Inv
<1>2. CASE Fault /\ RecoveryFailed(Error, files) /\ UNCHANGED glued
  BY <1>0, <1>2, RecoveryFailedKeeps DEF TypeOK
<1>3. CASE Fault /\ RecoveryFailed(Error, j) /\ glued' = (glued \/ ~Ended(c))
  <2>1. <<"junk">> \in Seq(Tokens) /\ m \in Seq(Tokens)
    BY <1>0 DEF Tokens
  <2>2. /\ j \in Files /\ j.command = m
        /\ j.bcb = files.bcb /\ j.config = files.config /\ j.package = files.package
    <3> HIDE DEF m
    <3> QED
      BY <1>0, <2>1, EditCommand
  <2>3. glued' \in BOOLEAN /\ (glued => glued') /\ (~glued' => Ended(c))
    BY <1>0, <1>3, Zenon DEF TypeOK
  <2>4. Ended(c) => \A o \in {"wipe", "update"} : HasLine(c, o) => HasLine(c \o <<"junk">>, o)
    BY <1>0, <2>1, AppendKeepsLine
  <2>5. ~glued' => \A o \in {"wipe", "update"} : HasLine(files.command, o) => HasLine(j.command, o)
    BY <2>2, <2>3, <2>4
  <2> HIDE DEF j
  <2> QED
    BY <1>0, <1>3, <2>2, <2>3, <2>5, RecoveryFailedKeeps
<1> QED
  BY <1>1, <1>2, <1>3 DEF AppendCommand, Ended

\* The flag is no part of a request.
LEMMA FlagKeeps ==
  ASSUME Inv, set_no_erase_data_flag
  PROVE  Inv'
<1>0. TypeOK /\ pc = "flag" /\ call.tool = "setconfig" /\ files \in Files
  BY DEF Inv, Progress, set_no_erase_data_flag, TypeOK
<1>1. PICK n \in Parts : Step("sync", [files EXCEPT !.noerase = n]) /\ (Fault \/ Worked)
  BY <1>0 DEF set_no_erase_data_flag, Files, Parts
<1> DEFINE g == [files EXCEPT !.noerase = n]
<1>2. /\ g \in Files /\ g.bcb = files.bcb /\ g.command = files.command
      /\ g.config = files.config /\ g.package = files.package
  BY <1>0, EditFlag
<1>3. files' = g /\ pc' = "sync" /\ disk' = disk
  BY <1>1 DEF Step
<1> HIDE DEF g
<1>4. call' = call /\ wipe' = wipe /\ glued' = glued /\ undone' = undone /\ update' = update
  BY DEF set_no_erase_data_flag, history
<1>5. TypeOK'
  BY <1>0, <1>1, <1>2, <1>4, StepTyped DEF TypeOK, g
<1>6. Behind' /\ WipeStands'
  BY <1>2, <1>3, <1>4, QuietStep
<1>7. Option' = Option
  BY <1>4 DEF Option
<1>8. Progress' /\ Written' /\ UpdateStands' /\ ConfigReverted'
  BY <1>0, <1>2, <1>3, <1>4, <1>7
  DEF Inv, Progress, Written, UpdateStands, ConfigReverted, Asking, Requested
<1> QED
  BY <1>5, <1>6, <1>8 DEF Inv

\* What is reported as done is on flash.
LEMMA SyncKeeps ==
  ASSUME Inv, Sync
  PROVE  Inv'
<1>0. TypeOK /\ pc = "sync" /\ call.tool \in {"setconfig", "masterclear"} /\ call.status = "NONE"
  BY DEF Inv, Progress, Sync
<1>1. /\ files' = files /\ disk' = files /\ pc' = "idle" /\ glued' = glued
      /\ installed' = installed /\ calls' = calls /\ faults' = faults /\ cuts' = cuts
  BY DEF Sync, counts
<1>2. /\ call' = NoCall /\ call' \in ToolCall
      /\ wipe' \in BOOLEAN /\ undone' \in BOOLEAN /\ update' \in Ids \cup {NoId}
      /\ call.tool # "setconfig" => undone' = undone
  BY <1>0, ReturnTyped DEF Sync
<1>3. TypeOK'
  BY <1>0, <1>1, <1>2 DEF TypeOK
<1>4. Behind'
  BY <1>1 DEF Behind
<1>5. WipeStands'
  <2>1. wipe' => wipe \/ call.tool = "masterclear"
    BY Zenon DEF Sync, Return
  <2> QED
    BY <1>0, <1>1, <2>1 DEF Inv, Written, WipeStands, Requested, Option
<1>6. UpdateStands'
  <2>1. CASE call.tool = "setconfig"
    <3>1. update' = call.id
      BY <2>1 DEF Sync, Return
    <3> QED
      BY <1>0, <1>1, <2>1, <3>1 DEF Inv, Written, UpdateStands, Requested, Option, Asking
  <2>2. CASE call.tool = "masterclear"
    <3>1. update' = update /\ undone' = undone
      BY <1>2, <2>2 DEF Sync, Return
    <3> QED
      BY <1>1, <2>2, <3>1 DEF Inv, UpdateStands, Requested
  <2> QED
    BY <1>0, <2>1, <2>2
<1>7. Progress' /\ Written' /\ ConfigReverted'
  BY <1>1, <1>2 DEF Progress, Written, ConfigReverted, Asking, NoCall
<1> QED
  BY <1>3, <1>4, <1>5, <1>6, <1>7 DEF Inv

\* A power cut keeps a request that both versions of the files hold.
LEMMA PowerCutKeeps ==
  ASSUME Inv, PowerCut
  PROVE  Inv'
<1>0. TypeOK /\ files \in Files /\ disk \in Files
  BY DEF Inv, TypeOK
<1>1. PICK kept \in SUBSET DOMAIN files :
        files' = [k \in DOMAIN files |-> IF k \in kept THEN files[k] ELSE disk[k]]
  BY DEF PowerCut
<1>2. /\ files' \in Files /\ files'.bcb \in {files.bcb, disk.bcb}
      /\ files'.command \in {files.command, disk.command}
      /\ files'.config \in {files.config, disk.config}
      /\ files'.package \in {files.package, disk.package}
  BY <1>0, <1>1 DEF Files
<1>3. disk' = files' /\ pc' = "idle" /\ call' = NoCall /\ wipe' = wipe /\ update' = update /\ glued' = glued
  BY DEF PowerCut
<1>4. /\ undone' \in BOOLEAN
      /\ ~undone' => ~undone /\ ~(call.tool = "setconfig" /\ update # NoId)
  BY <1>0, Zenon DEF PowerCut, TypeOK
<1>5. cuts' \in 0..MaxCuts /\ calls' = calls /\ faults' = faults /\ installed' = installed
  <2>1. cuts \in 0..MaxCuts /\ MaxCuts \in Nat
    BY <1>0, MotoboxAssumption DEF TypeOK
  <2> QED
    BY <2>1 DEF PowerCut
<1>6. TypeOK'
  <2>1. files'.bcb.command # "boot-recovery" => files'.bcb.recovery = {}
    BY <1>0, <1>2 DEF TypeOK
  <2> QED
    BY <1>0, <1>2, <1>3, <1>4, <1>5, <2>1, NoCallTyped DEF TypeOK
<1>7. Behind'
  BY <1>3 DEF Behind
<1>8. WipeStands'
  BY <1>2, <1>3 DEF Inv, Behind, WipeStands, Requested
<1>9. UpdateStands'
  BY <1>2, <1>3, <1>4 DEF Inv, Behind, UpdateStands, Requested
<1>10. Progress' /\ Written' /\ ConfigReverted'
  BY <1>3 DEF Progress, Written, ConfigReverted, Asking, NoCall
<1> QED
  BY <1>6, <1>7, <1>8, <1>9, <1>10 DEF Inv

\* Recovery carries the requests out; another boot command leaves the lines.
LEMMA RebootKeeps ==
  ASSUME Inv, Reboot
  PROVE  Inv'
<1>0. TypeOK /\ pc = "idle" /\ call = NoCall /\ files \in Files
  BY DEF Inv, Progress, Reboot, TypeOK
<1> DEFINE f == [files EXCEPT !.bcb = Clean]
<1>1. pc' = pc /\ call' = call /\ calls' = calls /\ faults' = faults /\ cuts' = cuts /\ disk' = files'
  BY DEF Reboot, counts
<1>2. /\ f \in Files /\ f.bcb.recovery = {} /\ f.command = files.command
      /\ f.config = files.config /\ f.package = files.package
  BY <1>0 DEF Files, Clean
<1>3. Progress' /\ Written' /\ ConfigReverted'
  BY <1>0, <1>1 DEF Progress, Written, ConfigReverted, Asking, NoCall
<1>4. Behind'
  BY <1>1 DEF Behind
<1>5. CASE files.bcb.command = "other"
  <2>1. files' = f /\ installed' = installed
    BY <1>5 DEF Reboot
  <2>2. wipe' = wipe /\ update' = update /\ glued' = glued /\ undone' = undone
    BY <1>5 DEF Reboot, history
  <2> HIDE DEF f
  <2>3. files.bcb.recovery = {}
    BY <1>0, <1>5 DEF TypeOK
  <2>4. TypeOK'
    BY <1>0, <1>1, <1>2, <2>1, <2>2 DEF TypeOK
  <2>5. WipeStands' /\ UpdateStands'
    BY <1>1, <1>2, <2>1, <2>2, <2>3 DEF Inv, WipeStands, UpdateStands, Requested
  <2> QED
    BY <1>3, <1>4, <2>4, <2>5 DEF Inv
<1>6. CASE files.bcb.command # "other"
  <2> DEFINE h == [f EXCEPT !.command = <<>>, !.config = "absent", !.package = "absent",
                            !.noerase = "absent"]
  <2>1. files' = h /\ wipe' = FALSE /\ update' = NoId /\ glued' = FALSE /\ undone' = FALSE
    BY <1>6 DEF Reboot
  <2>2. h \in Files /\ h.bcb.recovery = {}
    <3> DEFINE e  == <<>>
               h1 == [f EXCEPT !.command = e]
               h2 == [h1 EXCEPT !.config = "absent"]
               h3 == [h2 EXCEPT !.package = "absent"]
    <3> HIDE DEF f
    <3>0. e \in Seq(Tokens)
      OBVIOUS
    <3>1. h1 \in Files /\ h1.bcb = f.bcb
      <4> HIDE DEF e
      <4> QED
        BY <1>2, <3>0, EditCommand
    <3>2. h2 \in Files /\ h2.bcb = f.bcb
      <4> HIDE DEF h1
      <4> QED
        BY <3>1, EditConfig
    <3>3. h3 \in Files /\ h3.bcb = f.bcb
      <4> HIDE DEF h2
      <4> QED
        BY <3>2, EditPackage DEF Parts
    <3>4. [h3 EXCEPT !.noerase = "absent"] \in Files /\ [h3 EXCEPT !.noerase = "absent"].bcb = f.bcb
      <4> HIDE DEF h3
      <4> QED
        BY <3>3, EditFlag DEF Parts
    <3>5. h = [h3 EXCEPT !.noerase = "absent"]
      BY Zenon
    <3> HIDE DEF h, h3
    <3> QED
      BY <1>2, <3>4, <3>5
  <2>3. installed' \in Ids \cup {NoId}
    BY <1>0, <1>6 DEF Reboot, TypeOK
  <2> HIDE DEF h, f
  <2>4. TypeOK'
    BY <1>0, <1>1, <2>1, <2>2, <2>3 DEF TypeOK
  <2>5. WipeStands' /\ UpdateStands'
    BY <2>1 DEF WipeStands, UpdateStands
  <2> QED
    BY <1>3, <1>4, <2>4, <2>5 DEF Inv
<1> QED
  BY <1>5, <1>6

\* The invariant is inductive.
LEMMA InvNext == Inv /\ [Next]_vars => Inv'
<1> SUFFICES ASSUME Inv, [Next]_vars PROVE Inv'
  OBVIOUS
<1>1. CASE Next
  BY <1>1, SetconfigKeeps, MasterclearKeeps, CopyKeeps, UnlinkKeeps, WriteKeeps, RemoveKeeps,
     ReadMessageKeeps, StoreKeeps, AppendKeeps, FlagKeeps, SyncKeeps, PowerCutKeeps, RebootKeeps
  DEF Next
<1>2. CASE UNCHANGED vars
  <2> USE <1>2 DEF vars, counts, history, Inv
  <2>1. TypeOK'
    BY DEF TypeOK
  <2>2. Progress' /\ Written' /\ ConfigReverted'
    BY DEF Progress, Written, ConfigReverted, Option
  <2>3. Behind' /\ WipeStands' /\ UpdateStands'
    BY DEF Behind, WipeStands, UpdateStands
  <2> QED
    BY <2>1, <2>2, <2>3
<1> QED
  BY <1>1, <1>2

\* setconfig and masterclear keep the inductive invariant.
LEMMA InvAlways == Spec => []Inv
BY InvInit, InvNext, PTL DEF Spec

-----------------------------------------------------------------------------
(* The results *)

\* The files stay well formed: a bootloader message without boot-recovery
\* holds no option, and setconfig_main() never stores its message over
\* another one.
THEOREM MotoboxTyped == Spec => []TypeOK
<1>1. Inv => TypeOK
  BY DEF Inv
<1> QED
  BY <1>1, InvAlways, PTL

\* Once masterclear_main() has returned 0 nothing loses its request before
\* recovery has run, but for an unended line of the command file.
THEOREM MotoboxWipeStands == Spec => []WipeStands
<1>1. Inv => WipeStands
  BY DEF Inv
<1> QED
  BY <1>1, InvAlways, PTL

\* Once setconfig_main() has returned 0 its request, its package and its
\* config-id are on flash until recovery has run or a later call undoes it.
THEOREM MotoboxUpdateStands == Spec => []UpdateStands
<1>1. Inv => UpdateStands
  BY DEF Inv
<1> QED
  BY <1>1, InvAlways, PTL

\* A setconfig_main() that could not set recovery has put the old config-id
\* back before it reports so.
THEOREM MotoboxConfigReverted == Spec => []ConfigReverted
<1>1. Inv => ConfigReverted
  BY DEF Inv
<1> QED
  BY <1>1, InvAlways, PTL
=============================================================================
