------------------------------ MODULE MCUsbd --------------------------------
(***************************************************************************)
(* Instances of Usbd for TLC.  The driver's messages are the single        *)
(* changes it reports and a few combined ones; the requests are one mode   *)
(* of each kind of hook, the unload request and an unknown string.         *)
(***************************************************************************)
EXTENDS Usbd

CONSTANT c1

Quiet == [pc |-> "none", adb |-> "none", tether |-> "none", enu |-> "none"]

EnumerationMessages == {[Quiet EXCEPT !.enu = e] : e \in {"get_desc", "enumerated"}}
SwitchMessages ==
  {[Quiet EXCEPT !.pc = p] : p \in {"MTP", "CDROM2"}}
    \cup {[Quiet EXCEPT !.pc = "NGP", !.enu = "enumerated"]}
StatusMessages ==
  {[Quiet EXCEPT !.adb = a, !.tether = t] :
     a \in {"none", "enable", "disable"}, t \in {"none", "enable", "disable"}}
AllMessages == EnumerationMessages \cup SwitchMessages \cup StatusMessages
FewMessages ==
  EnumerationMessages \cup {[Quiet EXCEPT !.pc = p] : p \in {"MTP", "CDROM2"}}
    \cup {[Quiet EXCEPT !.adb = "enable"]}

EnumeratedOnly == {[Quiet EXCEPT !.enu = "enumerated"]}

\* adb_status: an error, off, on.
AnyAnswer == {-1, 0, 1}

AllRequests == {"MIN", "CDROM", "MSC", "MSC_ADB", "MTP", "CHARGE_ONLY", "other"}
FewRequests == {"MIN", "CDROM", "MSC", "other"}
=============================================================================
