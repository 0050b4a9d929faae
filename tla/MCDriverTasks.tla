--------------------------- MODULE MCDriverTasks ----------------------------
(***************************************************************************)
(* Two EHCI controllers that share an interrupt line and a virtio GPU with *)
(* MSI-X, their three drivers, and the bootstrap task.  One driver lives   *)
(* in the address space of the bootstrap task.                             *)
(***************************************************************************)
EXTENDS DriverTasks

MCSpace == [t \in 0 .. 3 |-> IF t <= 1 THEN "a" ELSE IF t = 2 THEN "b" ELSE "c"]

SharedLine == [d \in 1 .. 3 |-> IF d <= 2 THEN 48 ELSE 49]

OwnVectors == [d \in 1 .. 2 |-> 47 + d]

OwnTask == [d \in 1 .. NumDevices |-> d]
=============================================================================
