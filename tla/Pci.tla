-------------------------------- MODULE Pci ---------------------------------
(***************************************************************************)
(* The PCI devices of a machine.  On RISC-V, Seed finds them and gives     *)
(* memory to their BARs out of the ranges that the device tree reports     *)
(* (seed_riscv/src/pci.rs); the kernel finds them again, reads their BARs  *)
(* and chooses how each interrupts (kernel/src/pci.rs); the platform bus   *)
(* asks for the list, with a memory object for every BAR (the system call  *)
(* pci_get_info and poplar's ddk/pci.rs).                                  *)
(*                                                                         *)
(* What the configuration space of a function says is a record: the kind   *)
(* of header, the multi-function bit, six BARs, the capabilities in order, *)
(* and the interrupt pin.  Memory is counted in the smallest BAR size.     *)
(***************************************************************************)
EXTENDS Integers, Sequences, FiniteSets

CONSTANTS
    PciMachines,      \* [ranges : Seq([space, base, size]), functions : address -> function]
    NumBuses,         \* 8
    NumSlots,         \* 32 devices on a bus
    NumFunctions      \* 8

VARIABLES
    machinery,        \* the machine, <<>> before it is chosen
    scanner,          \* who is looking, and the functions it has still to check
    ranges,           \* Seed's HostMemoryRanges
    decoded,          \* what each function decodes: <<address, BAR>> -> base
    enabled,          \* the functions with MEMORY_ENABLE set
    devices_found,    \* the kernel's PciInfo
    listing           \* the platform bus's pci_get_info_vec

pcivars == <<machinery, scanner, ranges, decoded, enabled, devices_found, listing>>

MAX_BARS == 6
NoBar == [kind |-> "none", size |-> 0]

\* Sizes are not negative and a BAR for memory has one. A window of the host bridge
\* starts at a multiple of the size of every BAR it is for: allocate aligns the
\* offset in the window, not the address.
ASSUME PciAssumption ==
    /\ <<>> \notin PciMachines
    /\ \A m \in PciMachines :
         /\ DOMAIN m.ranges = 1 .. Len(m.ranges) /\ Len(m.ranges) \in Nat
         /\ \A k \in DOMAIN m.ranges : m.ranges[k].base \in Nat /\ m.ranges[k].size \in Nat
         /\ \A a \in DOMAIN m.functions : \A i \in 1 .. MAX_BARS :
              LET bar == m.functions[a].bars[i]
              IN bar.kind \in {"mem32", "mem64"} =>
                    /\ bar.size \in Nat \ {0}
                    /\ \A k \in DOMAIN m.ranges :
                          m.ranges[k].space = bar.kind => m.ranges[k].base % bar.size = 0

-----------------------------------------------------------------------------
\* Finding functions.

Present(m, a) == a \in DOMAIN m.functions

\* A read of a function that is not there gives all ones, and so a header with
\* the bit set.
has_multiple_functions(m, a) == Present(m, a) => m.functions[a].multi

\* The functions both scans check: of the buses, of the devices on a bus, and of
\* a device.
check_device(m, bus, slot) ==
    0 .. (IF has_multiple_functions(m, <<bus, slot, 0>>) THEN NumFunctions ELSE 1) - 1

check_bus(m, bus) ==
    UNION { {<<bus, slot, f>> : f \in check_device(m, bus, slot)} : slot \in 0 .. NumSlots - 1 }

resolve(m) ==
    UNION { check_bus(m, bus) :
              bus \in 0 .. (IF has_multiple_functions(m, <<0, 0, 0>>) THEN NumBuses ELSE 1) - 1 }

\* The order they are checked in.
Earlier(a, b) ==
    \/ a[1] < b[1]
    \/ a[1] = b[1] /\ a[2] < b[2]
    \/ a[1] = b[1] /\ a[2] = b[2] /\ a[3] < b[3]

\* The BARs both scans see: skip_next is never cleared, so those after a 64-bit
\* one are not looked at.
bars_of(f) ==
    [i \in 1 .. MAX_BARS |->
        IF \E j \in 1 .. i - 1 : f.bars[j].kind = "mem64" THEN NoBar ELSE f.bars[i]]

\* A map with an entry added or replaced.
Entered(f, x, v) == [y \in DOMAIN f \cup {x} |-> IF y = x THEN v ELSE f[y]]

-----------------------------------------------------------------------------
\* Seed.

\* HostMemoryRange::allocate, -1 for None: the padding is put before the block,
\* but the offset advances by the size alone.
Padding_for(r, size) == (0 - r.offset) % size

\* Mutant: a BAR is placed wherever the last one ended.
range_allocate_unaligned(r, size) ==
    IF size + Padding_for(r, size) > r.size - r.offset THEN -1 ELSE r.base + r.offset

range_allocate(r, size) ==
    IF size + Padding_for(r, size) > r.size - r.offset THEN -1
    ELSE r.base + r.offset + Padding_for(r, size)

\* The first range of the BAR's kind that can give memory for it, 0 when none can.
FindRange(rs, bar) ==
    LET able == { k \in DOMAIN rs : /\ bar.kind \in {"mem32", "mem64"} /\ rs[k].space = bar.kind
                                    /\ range_allocate(rs[k], bar.size) # -1 }
    IN IF able = {} THEN 0 ELSE CHOOSE k \in able : \A j \in able : k <= j

\* Memory for one BAR of a function, and for all of them in turn. I/O BARs are not
\* implemented.
AllocateBar(f, a, i, s) ==
    LET bar == bars_of(f)[i]
        k == FindRange(s.rs, bar)
    IN IF ~s.ok \/ bar.kind = "none" THEN s
       ELSE IF k = 0 THEN [s EXCEPT !.ok = FALSE]
       ELSE [s EXCEPT !.rs[k].offset = @ + bar.size,
                      !.at = Entered(@, <<a, i>>, range_allocate(s.rs[k], bar.size))]

AllocateBars(f, a) ==
    LET after[i \in 0 .. MAX_BARS] ==
            IF i = 0 THEN [rs |-> ranges, at |-> decoded, ok |-> TRUE]
            ELSE AllocateBar(f, a, i, after[i - 1])
    IN after[MAX_BARS]

Scans(who) == machinery # <<>> /\ scanner.who = who
IsNext(a) == \A b \in scanner.left : ~Earlier(b, a)
GoesOn(a) == scanner' = [scanner EXCEPT !.left = @ \ {a}]
PciPanic == scanner' = [who |-> "panic", left |-> {}]

SeedChecks(a) ==
    /\ Scans("seed") /\ IsNext(a)
    /\ \/ ~Present(machinery, a) /\ GoesOn(a) /\ UNCHANGED <<ranges, decoded, enabled>>
       \/ /\ Present(machinery, a)
          /\ LET f == machinery.functions[a]
                 r == AllocateBars(f, a)
             IN IF f.header # "endpoint" THEN PciPanic /\ UNCHANGED <<ranges, decoded, enabled>>
                ELSE /\ ranges' = r.rs /\ decoded' = r.at
                     /\ enabled' = IF r.ok /\ \E i \in 1 .. MAX_BARS : bars_of(f)[i] # NoBar
                                   THEN enabled \cup {a} ELSE enabled
                     /\ IF r.ok THEN GoesOn(a) ELSE PciPanic
    /\ UNCHANGED <<machinery, devices_found, listing>>

-----------------------------------------------------------------------------
\* The kernel.

EntersKernel ==
    /\ Scans("seed") /\ scanner.left = {}
    /\ scanner' = [who |-> "kernel", left |-> resolve(machinery)]
    /\ UNCHANGED <<machinery, ranges, decoded, enabled, devices_found, listing>>

\* How a function will interrupt: by its first MSI or MSI-X capability, else by
\* its pin. An MSI-X table has to be in a BAR the scan has seen.
InterruptOf(f) ==
    LET able == { i \in DOMAIN f.capabilities : f.capabilities[i].kind \in {"msi", "msix"} }
        first == f.capabilities[CHOOSE i \in able : \A j \in able : i <= j]
    IN CASE able = {} /\ f.pin = 0 -> "none"
         [] able = {} /\ f.pin \in 1 .. 4 -> "legacy"
         [] able = {} /\ f.pin > 4 -> "panic"
         [] able # {} /\ first.kind = "msi" -> "msi"
         [] able # {} /\ first.kind = "msix" ->
              IF bars_of(f)[first.table] = NoBar THEN "panic" ELSE "msix"

KernelChecks(a) ==
    /\ Scans("kernel") /\ IsNext(a)
    /\ \/ ~Present(machinery, a) /\ GoesOn(a) /\ UNCHANGED devices_found
       \/ /\ Present(machinery, a)
          /\ LET f == machinery.functions[a]
             IN IF f.header # "endpoint" \/ InterruptOf(f) = "panic"
                THEN PciPanic /\ UNCHANGED devices_found
                ELSE /\ devices_found' =
                          Entered(devices_found, a, [bars |-> bars_of(f), interrupt |-> InterruptOf(f)])
                     /\ GoesOn(a)
    /\ UNCHANGED <<machinery, ranges, decoded, enabled, listing>>

-----------------------------------------------------------------------------
\* The system call, and the platform bus that makes it twice.

\* The status in bits 0..16 and the count in bits 16..48 of the result.
PciWord(status, count) == [low |-> status, middle |-> count]

\* The memory objects for the BARs of a device; those for I/O are left out.
Descriptor(a) ==
    [address |-> a, interrupt |-> devices_found[a].interrupt,
     objects |-> { [bar |-> i, base |-> decoded[<<a, i>>], size |-> devices_found[a].bars[i].size] :
                   i \in { j \in 1 .. MAX_BARS :
                             devices_found[a].bars[j].kind \in {"mem32", "mem64"} } }]

NumDescriptors == Cardinality(DOMAIN devices_found)

\* pci_get_info: the result, and what is written to the buffer.
pci_get_info(buffer, size) ==
    IF size > 0 /\ buffer # 0
    THEN IF size < NumDescriptors THEN [word |-> PciWord(3, NumDescriptors), written |-> {}]
         ELSE [word |-> PciWord(0, NumDescriptors),
               written |-> { Descriptor(a) : a \in DOMAIN devices_found }]
    ELSE [word |-> PciWord(3, NumDescriptors), written |-> {}]

\* pci_get_info_vec: ask how many, then for that many.
AsksHowMany ==
    /\ Scans("kernel") /\ scanner.left = {} /\ listing.phase = "idle"
    /\ LET result == pci_get_info(0, 0).word
       IN listing' = IF result.low = 3 THEN [listing EXCEPT !.phase = "counted", !.count = result.middle]
                     ELSE [listing EXCEPT !.phase = "panic"]
    /\ UNCHANGED <<machinery, scanner, ranges, decoded, enabled, devices_found>>

Fetches ==
    /\ listing.phase = "counted"
    /\ LET r == pci_get_info(1, listing.count)
       IN listing' = IF r.word.low = 0 /\ r.word.middle = listing.count
                     THEN [phase |-> "done", count |-> listing.count, descriptors |-> r.written]
                     ELSE [listing EXCEPT !.phase = "panic"]
    /\ UNCHANGED <<machinery, scanner, ranges, decoded, enabled, devices_found>>

-----------------------------------------------------------------------------
PciInit ==
    /\ machinery = <<>> /\ scanner = [who |-> "seed", left |-> {}]
    /\ ranges = <<>> /\ decoded = <<>> /\ enabled = {} /\ devices_found = <<>>
    /\ listing = [phase |-> "idle", count |-> 0, descriptors |-> {}]

\* PciResolver::initialize reads the ranges of the device tree.
Initialize ==
    /\ machinery = <<>>
    /\ machinery' \in PciMachines
    /\ ranges' = [k \in DOMAIN machinery'.ranges |->
                    [space |-> machinery'.ranges[k].space, base |-> machinery'.ranges[k].base,
                     size |-> machinery'.ranges[k].size, offset |-> 0]]
    /\ scanner' = [who |-> "seed", left |-> resolve(machinery')]
    /\ UNCHANGED <<decoded, enabled, devices_found, listing>>

PciNext ==
    \/ Initialize \/ EntersKernel \/ AsksHowMany \/ Fetches
    \/ \E a \in scanner.left : SeedChecks(a) \/ KernelChecks(a)

PciSpec == PciInit /\ [][PciNext]_pcivars

-----------------------------------------------------------------------------
\* Every BAR for which a driver is given a memory object (pci_get_info) decodes
\* memory that Seed chose as the comment in its check_function asks: inside a
\* range of the host bridge of the BAR's kind, aligned to its size, of the size
\* the device wants, in a function whose memory decoding is switched on; and no
\* endpoint with such BARs is missing from the list.
BarsUsable ==
    listing.phase = "done" =>
        /\ { d.address : d \in listing.descriptors } =
             { a \in DOMAIN machinery.functions : a \in resolve(machinery) }
        /\ \A d \in listing.descriptors : \A o \in d.objects :
              LET bar == machinery.functions[d.address].bars[o.bar]
              IN /\ o.size = bar.size /\ o.base % o.size = 0
                 /\ d.address \in enabled
                 /\ \E k \in DOMAIN machinery.ranges :
                       LET r == machinery.ranges[k]
                       IN r.space = bar.kind /\ r.base <= o.base /\ o.base + o.size <= r.base + r.size

\* No two BARs decode the same memory (range.allocate in check_function: "It's
\* our responsibility to allocate memory for the BARs of PCI devices").
BarsApart ==
    \A x, y \in DOMAIN decoded :
        LET size(z) == machinery.functions[z[1]].bars[z[2]].size
        IN x # y => decoded[x] + size(x) <= decoded[y] \/ decoded[y] + size(y) <= decoded[x]
=============================================================================
