-------------------------------- MODULE Seed --------------------------------
(***************************************************************************)
(* Booting, from the memory the firmware describes to the kernel's first   *)
(* allocations: the bootloaders of seed/seed_riscv and seed/seed_uefi and  *)
(* the EarlyFrameAllocator of kernel/src/bootinfo.rs.                      *)
(*                                                                         *)
(* Memory is counted in frames.  On RISC-V, Seed sorts the memory of the   *)
(* device tree into regions and allocates from a list of its own; under    *)
(* UEFI the firmware allocates, and page tables come from a pool.  `mem`   *)
(* is the allocator in charge together with the kernel's page tables.      *)
(* Loading is sequential: `stage` says how far it has come.                *)
(***************************************************************************)
EXTENDS PageTables, FiniteSets

CONSTANTS
    Fdts,       \* device trees: [memory, reserved, seed, tree, ramdisk], lists of regions
    UefiMaps,   \* UEFI memory maps: functions from frames to memory types
    Kernels,    \* kernel images: [segments, guard], a segment is <<page, pages>>
    UserImages, \* lists of the segment sizes of user images
    PoolFrames, \* frames of the BootFrameAllocator
    InfoPages,  \* pages of the boot info
    HeapPages,  \* pages of Seed's heap and of the kernel's first heap
    PHYSICAL_MAPPING_BASE, PHYSICAL_MAP_SIZE, KERNEL_IMAGE_BASE,
    LOADED_IMAGE_MAX_SEGMENTS

VARIABLES
    stage,      \* how far booting has come
    machine,    \* the machine: its allocator, and its device tree or UEFI map
    regions,    \* MemoryRegions
    mem,        \* [from, nodes, firmware, map, pool, tables, allocs, panic]
    kernel,     \* the kernel image that is being loaded
    loaded,     \* its segments that are loaded, with their frames
    next        \* next_available_address, next_safe_address

svars == <<stage, machine, regions, mem, kernel, loaded, next>>

Span(base, size) == base .. base + size - 1

-----------------------------------------------------------------------------
\* MemoryRegions (RISC-V).

Region(typ, base, size) == [typ |-> typ, base |-> base, size |-> size]

End(r) == r.base + r.size

encompasses(r, other) == other.base >= r.base /\ End(other) <= End(r)
intersects(r, other) == r.base < End(other) /\ End(r) > other.base

\* Mutant: the region keeps the part that `other` covers.
split_keeps(r, other) == <<r>>

\* The parts of r before and after `other`.
split(r, other) ==
    (IF r.base >= other.base THEN <<>> ELSE <<Region(r.typ, r.base, other.base - r.base)>>)
    \o (IF End(r) <= End(other) THEN <<>> ELSE <<Region(r.typ, End(other), End(r) - End(other))>>)

add_region(rs, new) ==
    LET merges(r) == encompasses(r, new) \/ End(new) = r.base \/ End(r) = new.base
        merged(r) == CASE encompasses(r, new) -> r
                       [] ~encompasses(r, new) /\ End(new) = r.base ->
                            Region(r.typ, new.base, r.size + new.size)
                       [] ~encompasses(r, new) /\ End(new) # r.base /\ End(r) = new.base ->
                            Region(r.typ, r.base, r.size + new.size)
                       [] OTHER -> r
        kept(r) == CASE r.typ = new.typ -> <<merged(r)>>
                     [] r.typ # new.typ /\ intersects(r, new) -> split(r, new)
                     [] OTHER -> <<r>>
        all == Through(LAMBDA acc, r : acc \o kept(r), <<>>, rs)
    IN IF \E i \in DOMAIN rs : rs[i].typ = new.typ /\ merges(rs[i]) THEN all
       ELSE Append(all, new)

\* MemoryRegions::new, and the ramdisk that seed_main adds.
MemoryRegions_new(fdt) ==
    Through(add_region, <<>>,
            fdt.memory \o fdt.reserved \o <<fdt.seed, fdt.tree>> \o fdt.ramdisk)

\* MemoryManager::init: the free list, in the order of the regions.
FreeList(rs) == SelectSeq(rs, LAMBDA r : r.typ = "Usable")

-----------------------------------------------------------------------------
\* Allocators.  Each takes the frames at `base` for `use`.

Fitting(list, n) == { k \in DOMAIN list : list[k].typ = "Usable" /\ list[k].size >= n }
FirstFit(list, n) == CHOOSE k \in Fitting(list, n) : \A j \in Fitting(list, n) : k <= j

\* MemoryManager::allocate_n: the end of the first node that is large enough.
\* When that uses the node up, the list starts after it.
manager_allocate_n(nodes, n) ==
    LET k == FirstFit(nodes, n)
    IN IF nodes[k].size = n THEN SubSeq(nodes, k + 1, Len(nodes))
       ELSE [nodes EXCEPT ![k].size = @ - n]

\* EarlyFrameAllocator::allocate_n: the end of the first entry of the memory map
\* that is large enough.
early_allocate_n(map, n) == [map EXCEPT ![FirstFit(map, n)].size = @ - n]

\* Where `n` frames can come from.
Places(m, n) ==
    LET list == IF m.from = "manager" THEN m.nodes ELSE m.map
    IN IF m.from = "uefi"
       THEN { f \in DOMAIN m.firmware : \A g \in Span(f, n) :
                g \in DOMAIN m.firmware /\ m.firmware[g] = "CONVENTIONAL" }
       ELSE { End(list[FirstFit(list, n)]) - n : k \in Fitting(list, n) }

Take(m, base, n, use) ==
    [m EXCEPT !.allocs = Append(@, Region(use, base, n)),
              !.nodes = IF m.from = "manager" THEN manager_allocate_n(@, n) ELSE @,
              !.map = IF m.from = "early" THEN early_allocate_n(@, n) ELSE @,
              !.firmware = [f \in DOMAIN @ |->
                  IF m.from = "uefi" /\ f \in Span(base, n) THEN "RESERVED" ELSE @[f]]]

\* One frame for a page table; under UEFI it comes from the BootFrameAllocator.
TakeTable(m) ==
    IF m.from = "uefi" THEN [m EXCEPT !.pool = @ - 1, !.panic = IF m.pool > 0 THEN @ ELSE "no memory"]
    ELSE IF Places(m, 1) = {} THEN [m EXCEPT !.panic = "no memory"]
    ELSE Take(m, CHOOSE f \in Places(m, 1) : TRUE, 1, "table")

\* map_area(..).unwrap() on the kernel's page tables.
MapIn(m, v, frame, n) ==
    LET a == machine.arch
        r == map_area(a, m.tables, <<v, frame, n>>, {"writable"})
        new == Len(r.ts) - Len(m.tables)
        paid == Through(LAMBDA x, i : TakeTable(x), m, [i \in 1 .. new |-> i])
    IN [paid EXCEPT !.tables = r.ts, !.panic = IF r.ok THEN @ ELSE "already mapped"]

-----------------------------------------------------------------------------
\* Steps.  A panic of the loader stays in `mem.panic`.

Booting(at) == stage = at /\ mem.panic = "no"

SeedInit ==
    /\ stage = "firmware"
    /\ machine = [arch |-> "none"]
    /\ regions = <<>> /\ kernel = [segments |-> <<>>, guard |-> 0]
    /\ loaded = <<>> /\ next = KERNEL_IMAGE_BASE
    /\ mem = [from |-> "none", nodes |-> <<>>, firmware |-> <<>>, map |-> <<>>,
              pool |-> 0, tables |-> <<ZeroTable>>, allocs |-> <<>>, panic |-> "no"]

\* seed_main up to load_kernel: the regions, the heap, the top table.  Without a
\* ramdisk there is no config file and Seed panics.
StartRiscV ==
    /\ Booting("firmware")
    /\ \E fdt \in Fdts, image \in Kernels :
        LET rs == MemoryRegions_new(fdt)
            m == [mem EXCEPT !.from = "manager", !.nodes = FreeList(rs),
                             !.panic = IF fdt.ramdisk = <<>> THEN "no config" ELSE "no"]
            heap == CHOOSE f \in Places(m, HeapPages) : TRUE
        IN /\ machine' = [arch |-> "sv48", fdt |-> fdt]
           /\ regions' = rs
           /\ mem' = TakeTable(Take(m, heap, HeapPages, "seed heap"))
           /\ kernel' = image
    /\ stage' = "kernel"
    /\ UNCHANGED <<loaded, next>>

\* main up to load_kernel: the pool of page tables and the top table.
StartUefi ==
    /\ Booting("firmware")
    /\ machine' = [arch |-> "x86_64"]
    /\ \E map \in UefiMaps, image \in Kernels :
        LET m == [mem EXCEPT !.from = "uefi", !.firmware = map, !.pool = PoolFrames]
        IN /\ \E base \in Places(m, PoolFrames) :
                mem' = TakeTable(Take(m, base, PoolFrames, "table"))
           /\ kernel' = image
    /\ stage' = "kernel"
    /\ UNCHANGED <<regions, loaded, next>>

\* Mutant: the last segment decides, not the highest.
safe_after_last(end) == end + 1

\* The next safe address once a segment ends at `end`.
safe_after(end) == IF end > next THEN end + 1 ELSE next

\* load_segment, its mapping, and the rest of the loop of load_kernel.
LoadKernelSegment ==
    /\ Booting("kernel") /\ Len(loaded) < Len(kernel.segments)
    /\ LET seg == kernel.segments[Len(loaded) + 1]
       IN /\ IF Places(mem, seg[2]) = {}
             THEN mem' = [mem EXCEPT !.panic = "no memory"] /\ UNCHANGED loaded
             ELSE \E base \in Places(mem, seg[2]) :
                    /\ mem' = MapIn(Take(mem, base, seg[2], "kernel"), seg[1], base, seg[2])
                    /\ loaded' = Append(loaded, <<seg[1], base, seg[2]>>)
          /\ next' = safe_after(seg[1] + seg[2])
    /\ UNCHANGED <<stage, machine, regions, kernel>>

RiscVLoadsKernel == machine.arch # "x86_64" /\ LoadKernelSegment
UefiLoadsKernel == machine.arch = "x86_64" /\ LoadKernelSegment

\* The end of load_kernel: the stack's guard page.
UnmapGuardPage ==
    /\ Booting("kernel") /\ Len(loaded) = Len(kernel.segments)
    /\ mem' = [mem EXCEPT !.tables = unmap(machine.arch, @, kernel.guard)]
    /\ stage' = "boot info"
    /\ UNCHANGED <<machine, regions, kernel, loaded, next>>

CreateBootInfo ==
    /\ Booting("boot info")
    /\ IF Places(mem, InfoPages) = {} THEN mem' = [mem EXCEPT !.panic = "no memory"]
       ELSE \E base \in Places(mem, InfoPages) :
              mem' = MapIn(Take(mem, base, InfoPages, "boot info"), next, base, InfoPages)
    /\ next' = next + InfoPages
    /\ stage' = "images"
    /\ UNCHANGED <<machine, regions, kernel, loaded>>

RiscVBootInfo == machine.arch # "x86_64" /\ CreateBootInfo
UefiBootInfo == machine.arch = "x86_64" /\ CreateBootInfo

\* load_image for the tasks of the config file; the firmware's choice of frames
\* no longer matters.
LoadSegments(m, sizes) ==
    Through(LAMBDA x, n :
                IF x.panic # "no" THEN x
                ELSE IF Places(x, n) = {} THEN [x EXCEPT !.panic = "no memory"]
                ELSE Take(x, CHOOSE f \in Places(x, n) : TRUE, n, "image"),
            [m EXCEPT !.panic = IF Len(sizes) > LOADED_IMAGE_MAX_SEGMENTS
                                THEN "too many segments" ELSE "no"],
            sizes)

LoadImage ==
    /\ Booting("images")
    /\ \E sizes \in UserImages : mem' = LoadSegments(mem, sizes)
    /\ stage' = "mapping"
    /\ UNCHANGED <<machine, regions, kernel, loaded, next>>

RiscVLoadsImage == machine.arch # "x86_64" /\ LoadImage
UefiLoadsImage == machine.arch = "x86_64" /\ LoadImage

-----------------------------------------------------------------------------
\* The memory map.

RiscVType(typ) ==
    CASE typ \in {"Seed", "Ramdisk"} -> "Usable"
      [] typ = "DeviceTree" -> "DeviceTree"
      [] typ \in {"Firmware", "Unknown"} -> "Reserved"

\* populate_memory_map: the reserved regions, then what is left of the free list.
populate_memory_map(rs, nodes) ==
    LET reserved == SelectSeq(rs, LAMBDA r : r.typ # "Usable")
    IN [i \in DOMAIN reserved |->
          Region(RiscVType(reserved[i].typ), reserved[i].base, reserved[i].size)] \o nodes

UefiType(typ) ==
    CASE typ \in {"CONVENTIONAL", "LOADER", "BOOT_SERVICES"} -> "Usable"
      [] typ = "RUNTIME_SERVICES" -> "UefiRuntimeServices"
      [] typ = "ACPI_RECLAIM" -> "AcpiReclaimable"
      [] typ = "ACPI_NON_VOLATILE" -> "AcpiNvs"
      [] OTHER -> "Reserved"

\* The entries exit_boot_services returns: runs of frames of one type, in order.
UefiEntries(firmware) ==
    LET starts == { f \in DOMAIN firmware :
                      f - 1 \in DOMAIN firmware => firmware[f - 1] # firmware[f] }
        length(f) == CHOOSE n \in 1 .. Cardinality(DOMAIN firmware) :
                       /\ \A g \in Span(f, n) : g \in DOMAIN firmware /\ firmware[g] = firmware[f]
                       /\ f + n \in DOMAIN firmware => firmware[f + n] # firmware[f]
    IN [i \in 1 .. Cardinality(starts) |->
          LET f == CHOOSE f \in starts : Cardinality({ g \in starts : g <= f }) = i
          IN Region(firmware[f], f, length(f))]

\* The physical map, the identity map of Seed, the memory map, and the jump.
FinishRiscV ==
    /\ Booting("mapping") /\ machine.arch # "x86_64"
    /\ LET seed == machine.fdt.seed
           m == MapIn(MapIn(mem, PHYSICAL_MAPPING_BASE, 0, PHYSICAL_MAP_SIZE),
                      seed.base, seed.base, seed.size)
       IN mem' = [m EXCEPT !.map = populate_memory_map(regions, m.nodes),
                           !.nodes = <<>>, !.from = "early"]
    /\ stage' = "handed over"
    /\ UNCHANGED <<machine, regions, kernel, loaded, next>>

\* The identity map of the loader, the physical map up to the top of memory in
\* whole 1GiB pages, the memory map, and the jump.
FinishUefi ==
    /\ Booting("mapping") /\ machine.arch = "x86_64"
    /\ LET entries == UefiEntries(mem.firmware)
           own == SelectSeq(entries, LAMBDA r : r.typ = "LOADER")
           ram == { i \in DOMAIN entries :
                      UefiType(entries[i].typ) \in {"Usable", "AcpiReclaimable", "AcpiNvs"} }
           giga == Fanout ^ 2
           top == CHOOSE t \in { ((End(entries[i]) + giga - 1) \div giga) * giga : i \in ram } :
                      \A i \in ram : End(entries[i]) <= t
           m == Through(LAMBDA x, r : MapIn(x, r.base, r.base, r.size), mem, own)
       IN mem' = [MapIn(m, PHYSICAL_MAPPING_BASE, 0, top) EXCEPT
                    !.map = [i \in DOMAIN entries |->
                               Region(UefiType(entries[i].typ), entries[i].base, entries[i].size)],
                    !.from = "early"]
    /\ stage' = "handed over"
    /\ UNCHANGED <<machine, regions, kernel, loaded, next>>

\* kentry: the first heap and the tables that map it come out of the memory map
\* before the physical memory manager takes the map over.
KernelHeap ==
    /\ Booting("handed over")
    /\ IF Places(mem, HeapPages) = {} THEN mem' = [mem EXCEPT !.panic = "no memory"]
       ELSE \E base \in Places(mem, HeapPages) :
              mem' = MapIn(Take(mem, base, HeapPages, "heap"), next, base, HeapPages)
    /\ stage' = "running"
    /\ UNCHANGED <<machine, regions, kernel, loaded, next>>

SeedNext ==
    \/ StartRiscV \/ RiscVLoadsKernel \/ RiscVBootInfo \/ RiscVLoadsImage \/ FinishRiscV
    \/ StartUefi \/ UefiLoadsKernel \/ UefiBootInfo \/ UefiLoadsImage \/ FinishUefi
    \/ UnmapGuardPage \/ KernelHeap

SeedSpec == SeedInit /\ [][SeedNext]_svars

-----------------------------------------------------------------------------
\* Properties.

Overlap(r, q) == Span(r.base, r.size) \cap Span(q.base, q.size) # {}

\* The memory nobody may allocate or call usable: what firmware and the device
\* tree occupy.  Seed and the ramdisk are given up when the kernel takes over.
Precious ==
    IF machine.arch # "sv48" THEN {}
    ELSE { machine.fdt.reserved[i] : i \in DOMAIN machine.fdt.reserved } \cup {machine.fdt.tree}
SeedOwn ==
    IF machine.arch # "sv48" THEN {}
    ELSE {machine.fdt.seed} \cup { machine.fdt.ramdisk[i] : i \in DOMAIN machine.fdt.ramdisk }

\* Some region of memory lies between two that came before it.  add_region merges
\* it with both and leaves them as they are, overlapping (the TODO there asks "do
\* we care?").
JoinsTwo(memory) ==
    \E k \in DOMAIN memory :
        LET rs == Through(add_region, <<>>, SubSeq(memory, 1, k - 1))
        IN /\ \E i \in DOMAIN rs : End(rs[i]) = memory[k].base
           /\ \E i \in DOMAIN rs : rs[i].base = End(memory[k])

\* No frame is given away twice on the way from the firmware's description of
\* memory to the kernel's physical memory manager, whatever order reservations
\* and allocations come in, and in every order of the regions of memory in which
\* none of them joins two earlier ones: allocations are apart from each other and
\* from reserved memory, and the entries the kernel is told are usable are apart
\* from each other, from reserved memory and from all that is loaded.
MemoryGivenOnce ==
    LET allocs == mem.allocs
        usable == SelectSeq(mem.map, LAMBDA r : r.typ = "Usable")
    IN (machine.arch = "sv48" => ~JoinsTwo(machine.fdt.memory)) =>
       /\ \A i, j \in DOMAIN allocs : i # j => ~Overlap(allocs[i], allocs[j])
       /\ \A i \in DOMAIN allocs :
            /\ \A r \in Precious : ~Overlap(allocs[i], r)
            /\ stage # "running" => \A r \in SeedOwn : ~Overlap(allocs[i], r)
       /\ \A i \in DOMAIN usable :
            /\ \A j \in DOMAIN usable \ {i} : ~Overlap(usable[i], usable[j])
            /\ \A j \in DOMAIN allocs : ~Overlap(usable[i], allocs[j])
            /\ \A r \in Precious : ~Overlap(usable[i], r)

\* The kernel finds its image where it was linked: every page of a segment shows
\* the frame it was loaded to, in whatever order the segments come, nothing Seed
\* or the kernel maps after it lands on it, and the guard page under the stack
\* faults (unless a larger page covers it: `unmap` does not split pages).
KernelImageMapped ==
    /\ mem.panic # "already mapped"
    /\ stage \in {"boot info", "running"} =>
        \A k \in DOMAIN loaded : \A i \in 0 .. loaded[k][3] - 1 :
            LET page == loaded[k][1] + i
                seen == Mmu(machine.arch, mem.tables, page)
                p1 == IF machine.arch = "x86_64" THEN x86_table_at(mem.tables, page, 1)
                      ELSE riscv_table_at(mem.tables, 4, page, 1)
            IN IF page = kernel.guard /\ p1 # Wild THEN seen = Unmapped
               ELSE seen # Unmapped /\ seen[1] = loaded[k][2] + i
=============================================================================
