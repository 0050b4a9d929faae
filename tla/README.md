# A TLA+ model of Poplar

Poplar is a microkernel operating system. This project models the parts of it
that are hard to test: memory allocation over long histories, page tables,
lock-free queues, the movement of handles between tasks, the meeting of
interrupts, drivers and a scheduler that never preempts, the protocols between
the programs of userspace, devices that read memory while a driver writes it,
and compilers and parsers over all combinations of small inputs. TLC checks the
models on small instances; TLAPS proves the central invariants and two
refinements for every value of the constants.

`PROJECT.json` lists the components, the runs, the source lines each definition
models, the hazards and the theorems. Paths below are relative to the repository.

## The system and its parts

* **Kernel** (`kernel/src`): a physical memory manager, kernel virtual memory,
  kernel objects (address spaces, memory objects, tasks, channels, interrupts,
  events) that tasks name by handles, seventeen system calls, a cooperative
  scheduler for one CPU, asynchronous tasklets inside the kernel, and PCI
  enumeration. `kernel_x86_64` and `kernel_riscv` hold what depends on the
  platform: trap entry, interrupt controllers, the routing of PCI interrupts,
  the serial port, clocks.
* **Libraries** (`lib`): hardware layers and page tables (`hal*`), `mulch`
  (bitmaps, ranges, the bi-partite queue), `ptah` (serialisation of messages and
  their handles), `poplar` (the userspace side of system calls, an asynchronous
  runtime with a reactor, DMA helpers), `virtio`, `usb`, `gfxconsole`, parsers.
* **Userspace** (`user`): `service_host` starts the other tasks and connects
  clients to services; `platform_bus` matches devices to drivers; drivers for
  EHCI, xHCI, HID and the virtio GPU; consoles.
* **Boot and tools** (`seed`, `tools`, `ginkgo`): bootloaders for UEFI and
  RISC-V, a TFTP server to boot from, build tools, a language prototype.

How they meet: Seed sorts memory, loads the images, gives PCI devices their
memory and hands a map to the kernel, whose allocator gives out frames to page
tables, address spaces and stacks. A device raises an interrupt, the handler
triggers `Interrupt` objects, a driver that waits on one is found ready the next
time it has the CPU, and it gets the CPU only if every other task yields. Tasks
exchange everything else, devices included, as handles in messages over
channels: the service host introduces a driver to the platform bus, the bus
hands it a device, the EHCI driver registers devices of its own, the HID driver
takes some of them and feeds the console, and the console has the GPU driver
show what it drew.

## Modules

| Module | Models | State and actions |
| --- | --- | --- |
| `FrameOwnership` | the promise of `FrameAllocator` (`lib/hal/src/memory/mod.rs`) | who holds which run of frames |
| `BuddyAllocator` | `kernel/src/pmm` | `bins` are the free lists; one step per level of the recursion of `allocate_block` and `free_block` |
| `PageMap` | the promise of the trait `PageTable` | a partial map from pages to frames with rights |
| `PageTables` | page tables of x86-64, Sv48 and Sv39 | operators on lists of tables: create, map, choose page sizes, unmap, translate, and the walk of the hardware |
| `Paging` | calls on one set of tables | `New`, `MapArea`, `Unmap` |
| `AddressSpaces` | `object/{address_space,memory_object}.rs`, `vmm`, `Task::new`, `load_userspace`, the memory system calls | what every address space and the kernel see, memory objects with their backings, tasks with their stacks; one step per call |
| `Seed` | `seed_riscv`, `seed_uefi`, `EarlyFrameAllocator` | regions, allocators and the kernel's tables through the stages of booting |
| `ByteStream` | a FIFO of bytes | committed and released counts |
| `BipQueue` | `lib/mulch/src/bipqueue.rs` | the four atomics, the two grants, and the local copies each side works with; one step per access the other side can observe |
| `SpscQueue` | `kernel/src/tasklets/queue.rs` | two wait cells and two tasklets on top of `BipQueue`; the cells are the maitake library's, modelled from their use |
| `Ipc` | `kernel/src/object`, the creating, sending and receiving calls of `kernel/src/syscall` | handle tables, queues and the references messages hold; one step per system call |
| `Scheduler` | `kernel/src/scheduler.rs`, `AddressSpace::switch_*`, `TaskletScheduler::tick` | the running task, the queues, task and address-space states, the assertions on the way |
| `Interrupts` | `kernel_x86_64/src/{pci,interrupts}.rs`, `object/interrupt.rs` | masks, routing table, locks, status registers, triggers; configuration at boot, the handler, rearming |
| `DriverTasks` | composition of the two above with drivers | EHCI's asynchronous wait and virtio_gpu's blocking wait, step by step |
| `Pci` | `seed_riscv/src/pci.rs`, `kernel/src/pci.rs`, `pci_get_info`, `ddk/pci.rs` | the scan of Seed and of the kernel function by function, the BARs, the list userspace gets in two calls |
| `Runtime` | `lib/poplar/src/rt`, the waits on channels, events and interrupts, `poll_interest` | what objects have for their futures, the reactor's interests, the run queue, and where the loop is; signals come between any two calls |
| `ServiceHost` | `user/service_host` and the turns of the tasks it starts | the scheduler's queue, channels to the host, registrations, who waits |
| `PlatformBus` | `user/platform_bus`, the queries usb_hid answers | devices, drivers, filters and the messages on their channels; one future per channel |
| `Ehci` | `user/usb_bus_ehci`, `ddk/dma.rs` | ports, addresses, queue heads and transfer descriptors in memory that the controller follows, tokens, the interrupt task |
| `Virtio` | `lib/virtio/src/virtqueue.rs`, its use in `virtio_gpu` and `seed_riscv` | descriptors, both rings, indices that wrap, the device between them, and interrupts that are for a chain or for anything else |
| `Hid` | `lib/usb/src/hid/report.rs`, `user/usb_hid` | a device by the bytes of its report descriptor; offer, hand-off, reports and the events they cause |
| `Console` | `user/fb_console`, `lib/gfxconsole`, its end of `virtio_gpu` | cells, pixels with the trail of the pointer, cursor, line, and the channels to both sides |
| `Ptah` | `lib/ptah`, typed channels of `lib/poplar` | a message, its bytes and handles on the way, and what the reader makes of them |
| `Picotoml` | `lib/picotoml` | a configuration as words, quoted strings and single characters; the lexer, and the reader under a type |
| `GinkgoCompiler`, `GinkgoVm` | `ginkgo/src` | lexer and compiler as operators, the virtual machine one operation at a time, a session line by line |
| `Tftp` | `tools/tftp_serve` | sessions with the number of their block, packets in flight, and a client |

`MC*` modules give constants their values. `MCMemory` puts the four memory parts
side by side and `MCUserspace` the twelve parts of userspace, boot and tools
(`MCDevices`, `MCConsole`, `MCPci`, `MCFormats` and `MCGinkgo` hold their
instances). The parts of such a run share no state: a variable `focus` says which
part a behaviour is about, so that the states to explore are a sum and not a
product. Composition that matters, of parts that do interact, is inside modules:
`SpscQueue` over `BipQueue`, `DriverTasks` over `Scheduler` and `Interrupts`,
`Paging` and `Seed` over `PageTables`, `GinkgoVm` over `GinkgoCompiler`, and in
`Console`, `Pci`, `Ehci`, `ServiceHost` and `PlatformBus` both ends of each
channel or memory.

Proofs: `BuddyProofs`; `QueueProofs` (both byte queues); `IpcProofs`;
`DriverProofs` (scheduler, interrupts and drivers, and the platform bus);
`SpaceProofs`; `EhciProofs`; `DeviceProofs` (virtqueues, and the console);
`BootProofs` (BARs, and file transfers).

Definitions named as mutants in their comments are not part of any
specification: each is a plausible mistake in the operator that follows it, and
shows that the property it is paired with in `PROJECT.json` can fail.

### What makes a step

Calls into the buddy allocator hold its lock, so they never overlap, but their
recursion is unfolded to check the states in between. The bi-partite queue has
no lock, so every shared access is a step. A system call on handles, channels,
page tables or address spaces is one step: its tables belong to one task or are
locked for the whole of it, and there is one CPU. Interrupt handlers run with
interrupts off and are one step; system calls on x86-64 run with interrupts on,
so `ack_interrupt`, the driver's reads and writes of its device, and
configuration at boot are split wherever an interrupt may come between. A future
of userspace runs up to its next await, except where a device, or a task that
signals, sees what it writes in between: `Ehci`, `Virtio` and `Runtime` split
there. Parsers and compilers run to their end in a step; what runs their result
does not.

## Runs

Runs that pass:

| Run | Parts and instance | What it shows |
| --- | --- | --- |
| `queues` | a buffer of 4 bytes, a stream of 8 | every interleaving of one producer and one consumer: grants never overlap, reads see the stream in order, `IsFifo` is the refinement of `ByteStream`; no wake-up is lost and all bytes are read, with one exception that the properties name (a `read` that wraps) |
| `ipc` | 7 objects, 6 handles a task, 2 messages of up to 2 handles, one failing send | a sent handle is moved and not copied, a queue keeps its messages and their objects in order through receives that fail, a stale handle number never names another object |
| `drivers` | the bootstrap task and three drivers; two EHCI controllers on one line, a virtio GPU with MSI-X; two tasks in one address space | no task is overtaken, the address space follows the task, no interrupt is lost, no handler panics, everybody makes progress unless a driver is caught on the shared line |
| `memory` | *frames*: orders 0 to 3, a memory map with holes, requests of 1, 2, 3, 8 and 9 frames | every history of calls: `KeepsPromise` is the refinement of `FrameOwnership`, `alloc` fails only if no aligned run of that order is free, every call returns |
| | *tables*: three architectures, tables of 3 entries, eight areas, three calls | `TablesKeepPageMap` is the refinement of `PageMap` by what the hardware walk sees; `translate` agrees with it, except in pages of 1GiB as its TODO says |
| | *spaces*: 2 objects, 2 address spaces, 3 tasks, 5 system calls | a mapped object is visible in full, the kernel's memory is seen from every address space, stacks are apart with a guard under each |
| | *boot*: five device trees, a UEFI memory map, two kernels, two user images | no frame is given away twice on the way to the kernel's allocator, and the kernel's image is mapped where it was linked, with its guard page open |
| `userspace` | *host*: every manifest with the platform bus before its clients | every request to the service host is answered |
| | *bus*: two controllers, one of which two drivers would take, two USB devices with one name, three drivers | a device goes to one driver at most, whoever answers first, and one that a driver wants is claimed unless another has replaced it |
| | *pci*: machines with a host bridge, a card and a disk, four sets of capabilities, windows that suffice and do not | every BAR a driver is given lies in a window of its kind, aligned, of its size and switched on; no endpoint is missing |
| | *ehci*: five ports, two high-speed devices, five requests | the schedule the controller follows is whole at every write and what it may access is allocated; transfers reach their own device; completions are noticed |
| | *virtio*: a queue of 6, an index modulo 12, interrupts at any time | the device meets only chains the driver built, across wraps, for both drivers, until the GPU driver takes an interrupt for something else as the end of its request |
| | *hid*: keyboard, mouse, wheel, stick, pad, a device that is none, and two with items the parser does not handle | every field of a report is read as its layout says; key events are exactly the changes |
| | *runtime*: a channel, an event and an interrupt, two signals each | no future waits for ever for what is there |
| | *console*: 3 by 2 characters, four inputs | the screen shows the prompt and the line that will be interpreted, under the trail of the pointer; the display catches up with what was drawn |
| | *ginkgo*: pairs of operators grouped both ways, sessions with scopes, loops and calls, the scripts of the repository and the console's prelude, and lines with errors | what is printed and the globals are what the syntax tree means, as long as a session keeps to what the compiler and the machine get right |
| | *ptah*: seventeen messages of every kind of type, four of them at the limits of a receiver's buffer and of the kernel's queue, cut and extended | what is read is what was written, or an error; a receiver refuses exactly what is longer than its buffer |
| | *toml*: 180 spellings of a configuration | it reads back as it was meant, unless a comment has a `\|` in it |
| | *tftp*: three files, seven requests, two repetitions, one loss, four block numbers | a finished transfer has the bytes of the file, if there are numbers for its blocks |

Runs that end in a counterexample, each a disagreement of the code with what
the repository says of it (quoted in `PROJECT.json` under `findings`):

| Run | What happens |
| --- | --- |
| `spscqueue_sleep` | `BipQueue::read` moves its index to the front of the buffer but computes the length from its old copy, finds nothing, and the consumer sleeps although bytes are there |
| `ipc_null_buffer` | `get_message` with a null buffer for handles takes a message that carries some, and drops them; the book documents an error |
| `drivers_shared_line` | a driver woken by its neighbour on the line acknowledges, is woken again at once, and never yields to the driver that could quieten the line |
| `drivers_message` | with MSI, an interrupt between the driver's write to its status register and `ack_interrupt` is forgotten by `Interrupt::rearm` |
| `drivers_boot` | a device that firmware left enabled asserts its line after `configure_gsi` unmasks it and before its `Interrupt` is in the routing table: the handler panics |
| `console_pointer` | the mouse pointer moves without a limit, and the rectangle drawn for it fails the assertion of `draw_rect` at the edge of the screen |
| `pci_bars` | Seed's `allocate` does not count the padding in front of an aligned BAR: the next BAR overlaps it |

### Bounds and why they are enough

* *frames*: the holes give pairs whose buddy pair does not exist (2, 3) and a
  block of the largest order that can be split down to frames and merged again.
  3 is not a power of two (`alloc` rounds it up, `free` asserts); 9 exceeds the
  largest order. The proofs do not depend on the bounds.
* *tables*: with three entries a table, "2MiB" is 3 pages and "1GiB" is 9. The
  areas start and end on and off these boundaries, in and out of phase with
  their frames, and collide; three calls are enough to map, unmap, and map again.
* *spaces*: an object of no size and one of two pages, mapped where they touch,
  overlap each other or a stack; a kernel area of 12 pages of which 8 lie under
  the first entry of the top table, so that tasks run into its end and past it.
  The proofs do not depend on the bounds.
* *boot*: reservations touch, split and overlap memory and each other, memory
  comes in and out of order, in one device tree with a piece that joins two
  others, and one has no ramdisk; segments are in and out of order of their addresses
  and one is large enough for a larger page.
* `queues`: `MaxBytes` is twice `N`, so both indices wrap, with every split of
  the stream into grants. The safety proofs do not depend on the bounds.
* `ipc`: seven objects are the bootstrap task's three and two channels, or one
  channel and a spawned task with its address space. Two messages are enough for
  one to overtake the other, two handles for a list that names one twice or the
  channel itself. The proofs hold for every bound.
* `drivers`: a line with two devices shows sharing, a third device the other
  kind of interrupt and of wait. One status bit is enough because a driver clears
  the bits it read together; what matters is one that is set again in between.
* *bus*: two devices of one name are what makes a hand-off ambiguous, and two
  drivers that both take a controller make their answers race. *ehci*: two
  devices are enough to share the default address; the other ports are low-speed,
  full-speed and empty. *virtio*: the index has twice as many values as the queue
  has places, and wraps any number of times. *runtime*: one object of each kind,
  as each has its own wait; one future waits on each object, as in the programs
  (a second would replace the first's waker, `reactor.rs:17`).
* *console*: with three columns and two rows, four inputs wrap and scroll, and the
  pointer can lie over two rows. *tftp*: a file of five bytes and blocks of two
  has a short last block, one of four has an empty one, one of ten has more blocks
  than there are numbers; one repeated request already starts a second session.
  *ptah*: the buffer of a receiver (28 bytes here, 2048 in the code) is smaller
  than what the kernel queues (32, 4096); messages have 28, 29, 32 and 33 bytes.
* *ginkgo*, *toml*, *ptah*, *hid*, *pci*: the inputs are listed in the MC modules,
  each chosen for an alternative in the code.

The bounds of histories are `MaxCalls`, `MaxSystemCalls`, `MaxObjects`,
`MaxSpaces`, `MaxTasks`, `MaxBytes`, `MaxHandles`, `MaxSpawn`, `MaxSent`,
`MaxFailed`, `MaxSignals`, `MaxInput`, `MaxPending`, `MaxRepeats` and `MaxLosses`.
All runs but those of `DriverTasks` switch the deadlock check off: allocation
stops when a caller's `unwrap` panics, streams and sessions end, and these bounds
run out.

### Fairness

* `memory`: weak fairness of the steps inside a call of the allocator. A call runs
  under the allocator's lock and waits for nothing.
* `queues`: weak fairness of the consumer tasklet and of a producer that has
  begun; the executor polls whatever has been woken. No byte has to be produced.
* `drivers`: weak fairness of the CPU as a whole, which executes the task that
  is on it, and of the delivery of each pending interrupt. There is no fairness
  between tasks: that a ready task runs is what `ProgressUnlessStorm` checks, and
  it follows from the queue and from the yields in the drivers' loops. Devices
  are not fair; progress is claimed once they have reported all they will.
* `userspace`: weak fairness of the programs' own steps, and of the delivery of
  EHCI's interrupt. A program in this run yields in its loop, so the scheduler
  comes back to it (the subject of `drivers`). The service host's tasks take turns
  in the order of the scheduler's queue, not in a fair order that is assumed.
  Nothing is assumed of devices, of the network, or of whoever signals an object.

The liveness properties of `userspace` have the form "time and again nothing is
left to do" (`[]<>`): programs make finitely many requests in the instance, so
this says that each one is served in the end.

## Proofs

The theorems of `PROJECT.json` hold for every value of the constants that
satisfies the `ASSUME`s of the modules; TLC evaluates those on every run.

**The buddy allocator** (`BuddyProofs`; assumes a number of orders, block sizes
that start at one frame and double, and that frames and counts are naturals). The
properties are about blocks in bins, blocks of callers and the block a call has
in its hands, and none is inductive without the others. `Inv` says that all of
these together are a partition of the usable frames into aligned blocks
(`Partition`), that the search of a call stays between the order it wants and the
largest and that a caller's block has the order of its count (`Calls`), and that
a free block is never beside its free buddy (`Merged`). The proof rests on lemmas
about aligned blocks: a block is the disjoint union of its two halves, the buddy
of an aligned block is aligned, and splitting a block or merging two keeps a
partition one. `PartitionKept` is the invariant; `NeverShared`, `NeverLost`,
`AssertionHolds` and `AlwaysMerged` follow, and so does the refinement
`PromiseKept`, where a step inside a call is a stutter and the step that returns
a block is an allocation of `FrameOwnership`. `ExhaustedWhenItFails` says what it
means that `alloc` fails: not only are the bins it looked in empty, but no
aligned run of the order exists whose frames are all free. It is an induction
over orders, made as an argument about the least order that contradicts it: if
all of an aligned run is free and the run is not inside one free block, then both
its halves are free blocks or contain such a run, and two free halves would have
been merged.

**Address spaces** (`SpaceProofs`; assumes that user pages lie below the stacks,
that a stack is shorter than its slot, a bitmap of at least two bits, and room in
the kernel's dynamic area for what boot maps and for the first stack). `Inv` says
that the counter of the dynamic area is ahead of everything mapped there and that
boot's entry is in every top table (`KernelInv`), and that each task has a slot of
its own, its user stack mapped, and a kernel stack below the counter and above an
open page (`StackInv`). It is kept because page tables only gain pages and a new
stack lies beyond the counter; `StacksStayApart` and `KernelStaysVisible` follow.
`VisibleInv` adds that the pieces of an object are as long as the object and that
each mapping shows them one after the other, unless a resize left it short. It
needs what the recursion over the pieces in `map_memory_object` computes: as
above, by the least number of pieces for which it would be wrong (`MapGrows`,
`BelowSums`). `ObjectsStayVisible` follows.

**The bi-partite queue** (`QueueProofs`; assumes `N > 0`). None of
the safety properties is inductive: each depends on what the other side may still
be about to do with an index it loaded earlier. `IInv` adds, to types and flags,
where the indices lie with respect to each other (`IndexInv`: the data are in one
piece from `read` to `write`, or in two with the watermark as the end of the
first), what a producer in the middle of a grant or commit knows
(`ProducerInv`), what the consumer's loaded copies still guarantee although the
producer has gone on (`ConsumerInv`), and which bytes are where (`DataInv`). The
proof is one step per atomic access. `NoDataRace`, `InOrder`, `NoUnderflow` and
`HalfFits` follow from it. `StreamKept` is the refinement of `ByteStream`, by the
further invariant that the queue's contents are the bytes committed and not
released (`StreamInv`).

**Waiting for bytes** (`QueueProofs`). The asynchronous queue implements the
bi-partite one (`ImplementsQueue`), so all of the above carries over.
`OnlyWrapsSleep` needs to know that whoever looks at the queue is already
subscribed (`Listening`), and what a sleeper with no wake on its way knows: a
consumer has seen the last committed index (`ConsumerWaits`), a producer had no
space when it looked, and only the index that wrapped can have made some since
(`ProducerWaits`). It holds whether or not a wait cell remembers a wake that finds
no subscriber (`WakesKept`).

**Handles and channels** (`IpcProofs`). `IInv` says that
the counters are ahead of every number in use (handles, objects and message
tags), that a dropped channel end has no mail, and that each object in a message
belongs to a message in a queue; with it, `NeverDuplicated` and
`MessagesInOrder` are inductive. The proof has one lemma per system call and
conjunct. It assumes that a table hands out fewer than 2^32 handles
(`MaxHandles < HandleLimit`), because `Handles::add` wraps there.

**Scheduler, interrupts, drivers** (`DriverProofs`). `SchedulerInv` is inductive
for the scheduler by itself (`TasksKept`, `QueueIsFair`), and the composition
implements the scheduler's specification (`ImplementsScheduler`: a step of the
system is a step of the scheduler or leaves its variables alone), so its
properties carry over (`NoTaskLost`, `RightAddressSpace`). For the interrupts
the invariant has two layers. `BootInv` says how far enumeration has come: which
lock is held, which devices are routed and which lines are open. It gives
`HandlersNeverPanic`, on the assumption `Early = {}`: firmware leaves no device
able to interrupt. `LineInv` relates masks to drivers: a masked line is one of
which every driver has either been told or has taken note and will unmask it.
With it `InterruptsArrive` follows, on the further assumption that drivers of
devices with messages wait inside the kernel for one answer at a time
(`Msi \subseteq Blocking`). The runs `drivers_boot` and `drivers_message` show
that neither assumption can be dropped.

**The platform bus** (`DriverProofs`; assumes that devices can be told apart,
whatever their names, and that a device the kernel did not find is registered by
the driver of the device it hangs off). That a device is handed to one driver at
most depends on a device being registered once: a second registration would make a
claimed device unclaimed again. `BusInv` therefore adds to `HandedOffOnce` that a
device that waits to be registered waits in one queue, once, and has not been met
(`RegisteredOnce`); that no device is met before the one it hangs off is driven
(`Led`), which is why no driver registers its devices twice; and that the answers
and hand-offs in the queues are about devices the bus knows. `BusKept` is the
invariant, `DevicesHandedOffOnce` the property. Several drivers may have been
asked about one device and all of them may answer: the second answer finds the
device claimed.

**BARs** (`BootProofs`; assumes of each machine that a memory BAR has a size and
that a window of the host bridge starts at a multiple of the sizes of the BARs of
its kind, because `HostMemoryRange::allocate` aligns the offset and not the
address). `PciInv` follows Seed's scan, in which the functions already checked
have all their BARs in a window, aligned and decoding, and the kernel's scan, in
which those already checked are listed with the BARs Seed programmed. What the
loop over the BARs of one function gives is argued over the six BARs
(`BarsInTurn`). `DriversGetUsableBars` follows. That BARs do not overlap is not
provable: the run `pci_bars` shows that they do.

**File transfers** (`BootProofs`; assumes that lengths and block sizes are
naturals). A session holds two blocks, the one that is on its way and the one it
has already read, and swaps its buffers at each acknowledgement. `TftpInv` says
for each session where in the file its two buffers stand (`Sending`), for each
packet on the wire that it carries the block it is numbered with, of a session
with the block size it announced, however late it arrives (`PacketInv`), and for
the client that its bytes are the beginning of the file up to the last block it
took (`ClientInv`). The number of a block is a `u16`, so all of this is modulo the
count of numbers (`BlockNumbers`), and the step past the last number panics in a
build with overflow checks and wraps in one without: both are in the model.
`FilesArriveIntact` follows, for files and blocks of any size and any number of
sessions, as long as the file has fewer blocks than there are numbers
(`Numbered`); the client cannot tell a wrapped number from a repeated block.

**The EHCI driver** (`EhciProofs`; `EhciAssumption`: there are no more ports than
addresses, and the driver of a device opens its endpoint once and before it reads
from it, as `usb_hid` does (`main.rs:200`, `226`); `handle_request` panics at an
endpoint that was not opened, `main.rs:130`). The controller is one more actor
here: it follows the links, executes descriptors and reports errors between any
two steps of the driver, whose interrupt task and whose adding of a queue are
split where the controller may see what is half done. Besides types and the
requests sent so far (`RequestInv`), `EhciInv` has four parts. `RingInv` says that
the links follow the order in which queues were added, also while
`add_to_async_schedule` is half way through; from it `RingIsQueues` derives that
following links from `ASYNCADDR` leads through all queues. `QueueInv` says that a
queue is empty and left alone, or has the one transfer its port's future waits
for: its descriptors are allocated, those the driver has counted are done, those
the controller has before it are not, and the token of its buffer is out
(`UnderWay`, `Pending`). `PortInv` gives device and queue head of each port their
address for every stage of bringing a device up; in the stage `set_address` it
depends on whether the controller is through with the transfer. `AddressInv` says
that ports are looked at one after the other, and that the next free address is
reserved for the device that is being brought up. The proof separates what a step
does from what it leaves alone: a step touches the objects of one queue, and
everything said of other queues and ports is kept with their memory (`StepKeeps`).
`EhciKept` is the invariant; `ScheduleStaysSound` and `TransfersReach` follow.

**Virtqueues** (`DeviceProofs`; assumes that the size of the queue divides the
range of the index, as powers of two do, and that a request of the GPU driver fits). The
two drivers keep the ring whole for different reasons, and `VirtioInv` has a part
for each. The GPU driver has at most one request, so `GpuInv` follows it: written
but not published, published, with the device, answered; otherwise all
descriptors are free and the indices of driver and device agree. The block driver
never gives a descriptor back, so `BlockInv` says where the chain of its `k`th read
lies and that it is still as it was built. `DeviceMeetsWholeChains` is the property.
An interrupt may come at any time for anything (`OtherInterrupt`), and
`wait_for_request` takes whichever comes as the end of its request, without a look
at the used ring (the TODO at `virtio_gpu/src/main.rs:200`). From the first time it
takes one that was for something else (`early`) it frees descriptors the device
may still own, so that the theorem is about what comes before. Neither driver
looks whether the device is done; nothing is claimed of the data of the block
driver, which says of itself that it does not (`seed_riscv/src/block/virtio.rs:154`).

**The console** (`DeviceProofs`; assumes a grid of at least one cell).
`ConsoleInv` says that the grid spells the prompt and the line before the cursor
and is blank behind it (`LineSpelt`), and that a drawing the display does not show
has a message or a flush on its way (`Told`). Each kind of character has a lemma
(`WriteSpells`, `NewlineSpells`, `DeleteSpells`, and `ScrollSpells` for the row
that is lost), the pointer only adds its own mark to pixels, and what a string of
any length does is argued by the first character that would break it.
`LineIsShown` and `DisplayFollows` follow; like the run, they say nothing of a
line after a deletion across the start of a row, and nothing of the marks the
pointer leaves where it was: these are not removed (the comment at
`fb_console/src/main.rs:129` says so) until the cell is drawn again.

Some invariants that are proved are not among the properties of a run
(`IInv`, `OnePlace`, `BlocksDisjoint`, `FramesConserved`, `NeverFreedTwice`,
`Coalesced`, `LengthNeverUnderflows`, `HalfFitsWhenEmpty`): the theorem says more
than an instance would.

**Only model-checked.** Liveness (`CallsReturn`, `DrainedOrWrapped`,
`ProgressUnlessStorm`, `EveryRequestAnswered`, `WantedDevicesClaimed`,
`CompletionsNoticed`, `EverySignalServed`), which is beyond the prover.
`TranslateAgrees`, the refinement of `PageMap` (`TablesKeepPageMap`),
`MemoryGivenOnce` and `KernelImageMapped`: they rest on the recursion of
`map_area` over page sizes and of the walk over levels, and on bit fields of
addresses. `ProgramsMeanWhatTheySay`, `MessagesSurvive`, `ConfigReadBack`,
`ReportsReadRight` and `KeyEventsAreChanges`: parsers, compilers and wire formats
are recursive over nested data, where an argument by the least counterexample has
no number to be least in, and the key events are computed from what the parser of
reports returned.

## What is not modelled, and why

`PROJECT.json` gives the reason for each part. In short:

* Register layouts, single instructions and descriptor formats have no state to
  check: `hal*` apart from paging, `volatile`, the layouts of `virtio`, `usb`,
  `gpt` and `mer`, the APIC and PLIC registers, ACPI glue, clocks, logging.
* The maitake executor and timer wheel, the heap behind DMA pools, the
  ACPI interpreter and the Rust port are libraries, seen only through their use.
* The kernel runs one CPU (start-up of the others is not in the code), so there
  is no multiprocessor model.
* `usb_bus_xhci` is unfinished and says so; `simple_fb` and `hello_world` are
  demonstrations; `xtask` runs compilers and copies files; `d1_boot0` initialises
  one board.
* The interrupt controllers of RISC-V: what is specific to them is register
  programming with fixed message numbers. The part behind them, `Interrupt`
  objects and drivers, is that of x86-64.
* Message payloads, names and the contents of memory objects are left out where
  no property depends on them. Validation of user pointers is left out.

### What the properties except

Where the code leaves something unfinished, the models do what the code does, and
the property says by name in which case it does not hold. Each of these cases is
in the instance: without its exception the property is violated.

* `MemoryGivenOnce`, `JoinsTwo`: a region of memory that joins two earlier ones is
  merged with both, which then overlap (`seed_riscv/src/memory.rs:130`, a TODO).
  The lists of free frames that result are kept apart in the model; in memory
  their headers would overwrite each other.
* `WantedDevicesClaimed`, `Replaced`: a device that registers under the name of
  another takes its place, and the bus forgets the first
  (`platform_bus/src/main.rs:99`). The documentation of `RegisterInterest` says that
  "all of the `Filter`s must be fulfilled" (`platform_bus/src/lib.rs:208`), where
  `check_devices` is satisfied with one (`main.rs:116`); the model and `Wanted`
  follow the code, and so does `fb_console`, of whose three filters no device fulfils all.
* `ChainsIntact`, `early`: see virtqueues above.
* `TypedLineShown`, `Pointer`: the mark of the pointer, see the console above.
* `ProgramsMeanWhatTheySay`, `beyond`: the literal `0` panics (`lex.rs:99`), and so
  does a base without digits; assignment to a local and calls inside expressions
  use the wrong slots (`vm.rs:330`, `vm.rs:372`); a local cannot be initialised from
  a variable of its own name, `{ let a = a; }` (`parse.rs:73`); `while` leaves its
  condition on the stack, also for later lines (`parse.rs:132`); nested functions
  leave a value behind (`parse.rs:223`); a function without `return` runs off its
  code (`parse.rs:212`). The evaluator of meanings finds out whether a session has
  done one of these. Three of the repository's own scripts do, `while.ginkgo`,
  `fibonacci.ginkgo` and `test.ginkgo`: they stop at their literal `0`, and with
  `0x0` for it at the next of these limits. `function.ginkgo` and the prelude of
  the console keep within them. After a line with an error the stack stays as it is
  (`vm.rs:225`); `Misfits` are such sessions, in which the property claims nothing.
* `MessagesSurvive`, `ReceiveError`: a message that the kernel queues and that is
  longer than the receiver's buffer is refused, exactly then.
* `ConfigReadBack`, `BarInComment`: the set of characters that may stand in a
  comment excludes `|` (`lexer.rs:18`), which is then skipped or ends the line
  (`lexer.rs:27`, `51`); the rest of the comment is read as a key.
* `FileIntact`, `Numbered`: see file transfers above.

The following are outside of the instances, because the code marks them as
unfinished, panics, or reports an error:

* `picotoml`: an array of tables after a table, a second array of tables, and a
  comment behind a value (`de.rs:92`, `600`, `703`).
* `ginkgo`: a letter for a base is taken after any digit (`lex.rs:283`), so `1b1` is
  no number; it is among the `Misfits`.
* `pci`: bridges are `todo!()`, a 64-bit BAR hides all later ones
  (`kernel/src/pci.rs:135`), a machine without devices makes `pci_get_info_vec`
  panic (`ddk/pci.rs:58`).
* `tftp_serve`: no retransmission, and a late acknowledgement ends the server
  (`main.rs:230`); so `FileIntact` is about transfers that finish.
* `resize_memory_object` maps the new part at one mapping of the current address
  space (`syscall/mod.rs:636`); `MappedObjectsVisible` excepts the others.
* `usb_hid`: items of a report descriptor that the parser has as `todo!()`, and
  reserved ones, end the driver (`Unhandled`); two devices of the instance have some.
* `usb_bus_ehci`: after a transfer error nobody is woken (`queue.rs:287`);
  `usb_hid` panics for a selector that is no key (`main.rs:516`).
