------------------------------- MODULE MCIpc --------------------------------
(***************************************************************************)
(* The bootstrap task, the objects it creates and the tasks it spawns.     *)
(***************************************************************************)
EXTENDS Ipc
=============================================================================
