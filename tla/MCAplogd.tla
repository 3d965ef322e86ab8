------------------------------ MODULE MCAplogd ------------------------------
(***************************************************************************)
(* One Android log and the kernel's log.                                   *)
(***************************************************************************)
EXTENDS Aplogd

MCInputs == <<"main", "kernel">>
MCMax == [s \in Storages |-> IF s = "USERDATA" THEN 3 ELSE 4]
=============================================================================
