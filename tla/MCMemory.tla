------------------------------ MODULE MCMemory ------------------------------
(***************************************************************************)
(* Four parts of memory management side by side: the physical memory       *)
(* manager, calls on page tables, the address spaces of the running        *)
(* kernel, and booting.  They share no state (`focus` says which part a    *)
(* behaviour is about), so the states to explore are the sum of those of   *)
(* the parts.                                                              *)
(***************************************************************************)
EXTENDS BuddyAllocator, Paging, AddressSpaces, Seed

VARIABLE focus

mvars == <<focus, vars, pvars, avars, svars>>

MCInit ==
    /\ focus \in {"frames", "tables", "spaces", "boot"}
    /\ Init /\ PagingInit /\ AddressSpacesInit /\ SeedInit

MCNext ==
    \/ focus = "frames" /\ Next /\ UNCHANGED <<focus, pvars, avars, svars>>
    \/ focus = "tables" /\ PagingNext /\ UNCHANGED <<focus, vars, avars, svars>>
    \/ focus = "spaces" /\ AddressSpacesNext /\ UNCHANGED <<focus, vars, pvars, svars>>
    \/ focus = "boot" /\ SeedNext /\ UNCHANGED <<focus, vars, pvars, avars>>

\* Calls of the physical memory manager run to their end.
MCSpec ==
    /\ MCInit /\ [][MCNext]_mvars
    /\ WF_mvars(focus = "frames" /\ Call /\ UNCHANGED <<focus, pvars, avars, svars>>)

-----------------------------------------------------------------------------
\* Orders 0 to 3, and a memory map whose holes leave frames, and a block, without
\* a buddy.
MCSize == [k \in 0 .. MAX_ORDER |-> 2 ^ k]
MCUsable == {2, 3} \cup (8 .. 15)

\* Areas that start and end on and off the boundaries of larger pages, in and
\* out of phase with their frames, and that collide with each other.
MCAreas ==
    { <<0, 0, 27>>, <<0, 9, 10>>, <<1, 1, 11>>, <<3, 6, 5>>, <<4, 2, 1>>, <<5, 3, 4>>,
      <<8, 8, 2>>, <<9, 18, 9>> }

MCHalFlags == { {"writable", "cached"}, {"executable", "user_accessible"} }

\* Device trees with memory in several pieces and reservations that touch, split
\* and overlap them: in order, in one piece, out of order, with a piece that joins
\* two others, and one without a ramdisk.
Ram(base, size) == Region("Usable", base, size)

MCFdts ==
    { [memory |-> <<Ram(0, 12), Ram(12, 3), Ram(17, 10)>>,
       reserved |-> <<Region("Firmware", 0, 2), Region("Unknown", 5, 1)>>,
       seed |-> Region("Seed", 2, 2), tree |-> Region("DeviceTree", 20, 1),
       ramdisk |-> <<Region("Ramdisk", 22, 2)>>],
      [memory |-> <<Ram(1, 26)>>,
       reserved |-> <<Region("Firmware", 1, 1), Region("Firmware", 2, 1),
                      Region("Unknown", 18, 3)>>,
       seed |-> Region("Seed", 3, 1), tree |-> Region("DeviceTree", 19, 1),
       ramdisk |-> <<Region("Ramdisk", 26, 1)>>],
      [memory |-> <<Ram(17, 10), Ram(0, 8), Ram(12, 5), Ram(8, 2)>>,
       reserved |-> <<Region("Unknown", 6, 3), Region("Firmware", 0, 1)>>,
       seed |-> Region("Seed", 1, 2), tree |-> Region("DeviceTree", 16, 2),
       ramdisk |-> <<Region("Ramdisk", 26, 1)>>],
      [memory |-> <<Ram(15, 12), Ram(0, 10), Ram(10, 5)>>,
       reserved |-> <<Region("Firmware", 0, 2)>>,
       seed |-> Region("Seed", 2, 2), tree |-> Region("DeviceTree", 25, 1),
       ramdisk |-> <<Region("Ramdisk", 26, 1)>>],
      [memory |-> <<Ram(3, 20)>>, reserved |-> <<>>,
       seed |-> Region("Seed", 3, 1), tree |-> Region("DeviceTree", 22, 1),
       ramdisk |-> <<>>] }

MCUefiMaps ==
    { [f \in 0 .. 26 |->
         CASE f = 0 -> "RESERVED"
           [] f \in 1 .. 2 -> "BOOT_SERVICES"
           [] f \in 3 .. 4 -> "LOADER"
           [] f = 11 -> "ACPI_RECLAIM"
           [] f = 26 -> "RUNTIME_SERVICES"
           [] OTHER -> "CONVENTIONAL"] }

\* An image whose second segment can be a large page, and one whose segments are
\* not in the order of their addresses.
MCKernels ==
    { [segments |-> <<<<54, 1>>, <<57, 3>>>>, guard |-> 58],
      [segments |-> <<<<56, 2>>, <<54, 1>>>>, guard |-> 56] }

MCUserImages == { <<1, 1>>, <<1, 1, 1, 1>> }
=============================================================================
