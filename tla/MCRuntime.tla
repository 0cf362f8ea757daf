------------------------------ MODULE MCRuntime ------------------------------
(***************************************************************************)
(* Options for MirRuntime.                                                 *)
(***************************************************************************)
EXTENDS MirRuntime

AllOptions == [enable_recorder : BOOLEAN, idle_task : BOOLEAN]
RecorderOn == {[enable_recorder |-> TRUE, idle_task |-> FALSE]}
=============================================================================
