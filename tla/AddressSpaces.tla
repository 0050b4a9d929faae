---------------------------- MODULE AddressSpaces ---------------------------
(***************************************************************************)
(* Address spaces, memory objects and the virtual memory of the kernel:    *)
(* kernel/src/object/{address_space,memory_object}.rs, kernel/src/vmm,     *)
(* Task::new, load_userspace and the system calls that work on memory      *)
(* (kernel/src/syscall/mod.rs).                                            *)
(*                                                                         *)
(* Addresses are counted in pages.  Of page tables the module keeps what   *)
(* PageMap promises: which page shows which frame.  An address space also  *)
(* copies the entries of the upper half of the kernel's top table when it  *)
(* is created; an entry stands for the tables below it, which are shared.  *)
(* Frames are numbered as the physical memory manager hands them out; none *)
(* of this code frees one.  System calls do not overlap on the only CPU.   *)
(***************************************************************************)
EXTENDS Integers, Sequences, FiniteSets

CONSTANTS
    UserPages,      \* the pages user tasks map objects at
    StackBase,      \* USER_STACK_BASE, beyond UserPages
    SlotPages,      \* pages of a stack slot, USER_STACK_SLOT_SIZE
    StackPages,     \* pages of a slot that are mapped at first
    SlotBits,       \* bits of slot_bitmap
    KernelSpan,     \* pages under one entry of the top table
    KernelPages,    \* pages of the kernel's dynamic area
    ObjectSizes,    \* the sizes of the memory objects tasks create, in pages
    MaxObjects, MaxSpaces, MaxTasks, MaxSystemCalls     \* bounds

ASSUME SlotAssumption ==
    /\ StackBase \in Nat /\ StackPages \in Nat /\ SlotPages \in Nat /\ StackPages < SlotPages
    /\ SlotBits \in Nat /\ SlotBits >= 2
    /\ UserPages \subseteq Nat /\ UserPages # {}
    /\ \A page \in UserPages : 0 < page /\ page < StackBase

\* Boot and load_userspace find room in the dynamic area for a page and a stack.
ASSUME KernelAssumption ==
    /\ KernelSpan \in Nat \ {0}
    /\ KernelPages \in Nat /\ 1 + SlotPages <= KernelPages

ASSUME ObjectAssumption == ObjectSizes \subseteq Nat

VARIABLES
    objects,    \* the memory objects: [size, backing], backing a list of <<frame, pages>>
    spaces,     \* the address spaces: [view, mappings, slots, top]
    tasks,      \* the tasks: [space, slot, kernel], kernel the bottom of the kernel stack
    kview,      \* the kernel's dynamic area: page -> frame, 0 when not mapped
    ktop,       \* the entries of the kernel's top table that exist
    knext,      \* kernel_dynamic_next_available
    frames,     \* the number of frames handed out
    short,      \* history: the mappings <<space, page>> a resize left short
    kernel_panicked, \* why the kernel panicked, "no" while it has not
    made        \* the number of system calls made

avars == <<objects, spaces, tasks, kview, ktop, knext, frames, short, kernel_panicked, made>>

NoFrame == 0
AllPages == 0 .. StackBase + SlotBits * SlotPages - 1
TopEntry(page) == page \div KernelSpan

\* The number of pages in the first k pieces of an object's memory.
Below(backing) ==
    LET sum[k \in 0 .. Len(backing)] == IF k = 0 THEN 0 ELSE sum[k - 1] + backing[k][2]
    IN sum

\* The memory of an object, page by page.
FramesOf(object) ==
    LET below == Below(object.backing)
    IN [i \in 0 .. object.size - 1 |->
          LET k == CHOOSE k \in DOMAIN object.backing : below[k - 1] <= i /\ i < below[k]
          IN object.backing[k][1] + i - below[k - 1]]

-----------------------------------------------------------------------------
\* Page tables, as PageMap promises them: the possible results of map_area.

Show(view, v, frame, n) ==
    [page \in DOMAIN view |-> IF page \in v .. v + n - 1 THEN frame + page - v
                                                        ELSE view[page]]

area_results(view, v, frame, n) ==
    LET used == { i \in 0 .. n - 1 : view[v + i] # NoFrame }
    IN IF used = {} THEN {[view |-> Show(view, v, frame, n), ok |-> TRUE]}
       ELSE { [view |-> Show(view, v, frame, k), ok |-> FALSE] :
                k \in { k \in 0 .. n : \A i \in used : k <= i } }

\* Mutant: the kernel's half is not copied.
empty_task_page_tables == [view |-> [page \in AllPages |-> NoFrame], top |-> {}]

\* PageTableImpl::new and the copy of the kernel's entries.
new_task_page_tables == [view |-> [page \in AllPages |-> NoFrame], top |-> ktop]

-----------------------------------------------------------------------------
\* Vmm: every allocation takes the counter forward, a refused one too.

\* Mutant: a slot is as long as the stack in it.
alloc_kernel_tight(size) == knext' = knext + (IF size > StackPages THEN StackPages ELSE size)

alloc_kernel(size) == knext' = knext + size
Refused(size) == knext + size > KernelPages

\* map_kernel, used at boot for device memory and tables of the firmware.
map_kernel(size) ==
    /\ alloc_kernel(size)
    /\ IF Refused(size) THEN UNCHANGED <<kview, ktop, frames>>
       ELSE /\ kview' = Show(kview, knext, frames + 1, size)
            /\ ktop' = ktop \cup { TopEntry(knext + i) : i \in 0 .. size - 1 }
            /\ frames' = frames + size

\* alloc_kernel_stack, for a stack whose frames start after `taken` others.
alloc_kernel_stack(taken) ==
    LET bottom == knext + SlotPages - StackPages
    IN /\ kview' = Show(kview, bottom, frames + taken + 1, StackPages)
       /\ ktop' = ktop \cup { TopEntry(bottom + i) : i \in 0 .. StackPages - 1 }
       /\ alloc_kernel(SlotPages)

-----------------------------------------------------------------------------
\* Address spaces.

NewSpace ==
    [view |-> new_task_page_tables.view, top |-> new_task_page_tables.top,
     mappings |-> <<>>, slots |-> {}]

\* The possible results of mapping the backings one after another, the first
\* error ending the call; only a call without error records the mapping.
map_memory_object(space, id, object, v) ==
    LET after[k \in 0 .. Len(object.backing)] ==
            IF k = 0 THEN {[view |-> space.view, ok |-> TRUE, at |-> v]}
            ELSE UNION { IF ~r.ok THEN {r}
                         ELSE { [view |-> m.view, ok |-> m.ok,
                                 at |-> r.at + object.backing[k][2]] :
                                m \in area_results(r.view, r.at, object.backing[k][1],
                                               object.backing[k][2]) } :
                         r \in after[k - 1] }
    IN { [ok |-> r.ok,
          space |-> [space EXCEPT
              !.view = r.view,
              !.mappings = IF r.ok
                  THEN [p \in DOMAIN @ \cup {v} |-> IF p = v THEN id ELSE @[p]]
                  ELSE @]] :
         r \in after[Len(object.backing)] }

\* Bitmap::alloc(1): the loop ends one bit early, so the last bit stays unset.
FreeBits(slots) == (0 .. SlotBits - 2) \ slots
alloc_bit(slots) == CHOOSE i \in FreeBits(slots) : \A j \in FreeBits(slots) : i <= j

StackBottom(slot) == StackBase + (slot + 1) * SlotPages - StackPages

-----------------------------------------------------------------------------

AddressSpacesInit ==
    /\ objects = <<>> /\ spaces = <<>> /\ tasks = <<>>
    /\ kview = [page \in 0 .. KernelPages - 1 |-> NoFrame]
    /\ ktop = {} /\ knext = 0 /\ frames = 0
    /\ short = {}
    /\ kernel_panicked = "no"
    /\ made = 0

\* Boot maps the tables of ACPI, the APICs and the configuration space of PCI
\* before there is an address space.
BootMapsDevices ==
    /\ knext = 0
    /\ map_kernel(1)
    /\ UNCHANGED <<objects, spaces, tasks, short, kernel_panicked, made>>

\* A running task makes a system call.
SystemCall ==
    /\ spaces # <<>> /\ kernel_panicked = "no"
    /\ made < MaxSystemCalls /\ made' = made + 1

\* Task::new: a slot, a user stack, a kernel stack.
NewTask(s, space) ==
    IF FreeBits(space.slots) = {}
    THEN /\ kernel_panicked' = "address space full"
         /\ UNCHANGED <<tasks, kview, ktop, knext, frames>>
         /\ spaces' = [spaces EXCEPT ![s] = space]
    ELSE LET slot == alloc_bit(space.slots)
         IN \E m \in area_results(space.view, StackBottom(slot), frames + 1, StackPages) :
              LET full == ~m.ok \/ Refused(SlotPages)
              IN /\ spaces' = [spaces EXCEPT ![s] =
                                 [space EXCEPT !.slots = @ \cup {slot}, !.view = m.view]]
                 /\ kernel_panicked' = IF ~m.ok THEN "stack area in use"
                                ELSE IF full THEN "no kernel stack" ELSE "no"
                 /\ IF full
                    THEN UNCHANGED <<tasks, kview, ktop, knext, frames>>
                    ELSE /\ alloc_kernel_stack(StackPages)
                         /\ frames' = frames + 2 * StackPages
                         /\ tasks' = Append(tasks, [space |-> s, slot |-> slot,
                                                    kernel |-> knext + SlotPages - StackPages])

\* load_userspace: the objects of the images, the address space and the task of
\* the first.  Its segment is loaded at the first user page.
LoadUserspace ==
    /\ knext > 0 /\ spaces = <<>> /\ kernel_panicked = "no"
    /\ objects' = <<[size |-> 1, backing |-> <<<<frames + 1, 1>>>>]>>
    /\ LET v == CHOOSE v \in UserPages : \A w \in UserPages : v <= w
           r == CHOOSE r \in map_memory_object(NewSpace, 1, objects'[1], v) : TRUE
           slot == alloc_bit({})
       IN /\ spaces' = <<[r.space EXCEPT !.slots = {slot},
                              !.view = Show(@, StackBottom(slot), frames + 2, StackPages)]>>
          /\ alloc_kernel_stack(1 + StackPages)
          /\ frames' = frames + 1 + 2 * StackPages
          /\ tasks' = <<[space |-> 1, slot |-> slot,
                         kernel |-> knext + SlotPages - StackPages]>>
    /\ UNCHANGED <<short, kernel_panicked, made>>

CreateMemoryObject ==
    /\ SystemCall /\ Len(objects) < MaxObjects
    /\ \E size \in ObjectSizes :
        /\ objects' = Append(objects, [size |-> size,
                                       backing |-> <<<<frames + 1, size>>>>])
        /\ frames' = frames + size
    /\ UNCHANGED <<spaces, tasks, kview, ktop, knext, short, kernel_panicked>>

\* The address space is the caller's own or one it has a handle to.
MapMemoryObject ==
    /\ SystemCall
    /\ \E s \in DOMAIN spaces, id \in DOMAIN objects, v \in UserPages :
        \E r \in map_memory_object(spaces[s], id, objects[id], v) :
            /\ v + objects[id].size - 1 \in AllPages
            /\ spaces' = [spaces EXCEPT ![s] = r.space]
            /\ short' = IF r.ok THEN short \ {<<s, v>>} ELSE short
    /\ UNCHANGED <<objects, tasks, kview, ktop, knext, frames, kernel_panicked>>

CreateAddressSpace ==
    /\ SystemCall /\ Len(spaces) < MaxSpaces
    /\ spaces' = Append(spaces, NewSpace)
    /\ UNCHANGED <<objects, tasks, kview, ktop, knext, frames, short, kernel_panicked>>

SpawnTask ==
    /\ SystemCall /\ Len(tasks) < MaxTasks
    /\ \E s \in DOMAIN spaces : NewTask(s, spaces[s])
    /\ UNCHANGED <<objects, short>>

\* Mutant: the size is read after the object has grown.
new_part_late(v, old, more) == v + old + more

\* Where the new part of an object mapped at v goes.
new_part(v, old, more) == v + old

\* The object grows before the new part is mapped, at the lowest place where the
\* caller's own address space has it and nowhere else.
ResizeMemoryObject ==
    /\ SystemCall
    /\ \E t \in DOMAIN tasks, id \in DOMAIN objects, more \in ObjectSizes \ {0} :
        LET s == tasks[t].space
            old == objects[id].size
            at == { v \in DOMAIN spaces[s].mappings : spaces[s].mappings[v] = id }
            first == CHOOSE v \in at : \A w \in at : v <= w
            all == { m \in (DOMAIN spaces) \X UserPages :
                       /\ m[2] \in DOMAIN spaces[m[1]].mappings
                       /\ spaces[m[1]].mappings[m[2]] = id }
        IN /\ objects' = [objects EXCEPT ![id] =
                 [size |-> old + more, backing |-> Append(@.backing, <<frames + 1, more>>)]]
           /\ frames' = frames + more
           /\ IF at = {} THEN spaces' = spaces /\ short' = short \cup all
              ELSE /\ first + old + 2 * more - 1 \in AllPages
                   /\ \E m \in area_results(spaces[s].view, new_part(first, old, more),
                                            frames + 1, more) :
                        /\ spaces' = [spaces EXCEPT ![s].view = m.view]
                        /\ short' = IF m.ok THEN short \cup (all \ {<<s, first>>})
                                            ELSE short \cup all
    /\ UNCHANGED <<tasks, kview, ktop, knext, kernel_panicked>>

\* An object mapped without an address, or made smaller, reaches a todo!().
Unimplemented ==
    /\ SystemCall
    /\ kernel_panicked' = "todo"
    /\ UNCHANGED <<objects, spaces, tasks, kview, ktop, knext, frames, short>>

AddressSpacesNext ==
    \/ BootMapsDevices \/ LoadUserspace
    \/ CreateMemoryObject \/ MapMemoryObject \/ CreateAddressSpace \/ SpawnTask
    \/ ResizeMemoryObject \/ Unimplemented

AddressSpacesSpec == AddressSpacesInit /\ [][AddressSpacesNext]_avars

-----------------------------------------------------------------------------
\* Properties.

\* A task that was told its object is mapped, or that it grew, sees all of it:
\* page i of the object at page i of the mapping, whatever was mapped, refused
\* or resized around it.  The exceptions are the mappings a resize leaves short.
MappedObjectsVisible ==
    \A s \in DOMAIN spaces : \A v \in DOMAIN spaces[s].mappings :
        LET object == objects[spaces[s].mappings[v]]
        IN <<s, v>> \notin short =>
             \A i \in 0 .. object.size - 1 : spaces[s].view[v + i] = FramesOf(object)[i]

\* A trap can find its kernel stack in whatever address space it happens: each
\* one shows all the kernel has mapped in its dynamic area, as long as the area
\* has not outgrown the first entry of the top table that boot created.
KernelSeenEverywhere ==
    knext <= KernelSpan =>
        \A s \in DOMAIN spaces : \A page \in DOMAIN kview :
            kview[page] # NoFrame => TopEntry(page) \in spaces[s].top

\* No two tasks share a stack, all of a task's stack is mapped, and the page
\* under a kernel stack never is, so that an overflow of one faults instead of
\* reaching the stack of another task.
StacksApart ==
    \A t \in DOMAIN tasks :
        /\ \A u \in DOMAIN tasks \ {t} :
             /\ tasks[t].space = tasks[u].space => tasks[t].slot # tasks[u].slot
             /\ tasks[t].kernel # tasks[u].kernel
        /\ kview[tasks[t].kernel - 1] = NoFrame
        /\ \A i \in 0 .. StackPages - 1 :
             /\ kview[tasks[t].kernel + i] # NoFrame
             /\ spaces[tasks[t].space].view[StackBottom(tasks[t].slot) + i] # NoFrame
=============================================================================
