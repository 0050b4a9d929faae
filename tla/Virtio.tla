------------------------------- MODULE Virtio -------------------------------
\* Split virtqueues (lib/virtio/src/virtqueue.rs) with the two drivers that use
\* them: the GPU driver (user/virtio_gpu), which takes the next interrupt after a
\* request, whatever it is for, as the end of it, and the block driver of the
\* RISC-V loader (seed_riscv), which does not wait. The device reads the rings
\* while the driver runs. The index of the available ring runs on and wraps (a
\* u16, IndexModulus here).
EXTENDS Naturals, Sequences, FiniteSets

CONSTANTS
    QueueSize,    \* 64 in both drivers
    IndexModulus, \* 2^16
    Slots         \* request slots and data slots of the block driver

\* The index may wrap at any time: the entry it stands for stays the same. A
\* request of the GPU driver takes two descriptors.
ASSUME QueueAssumption ==
    /\ QueueSize \in Nat /\ QueueSize >= 2
    /\ IndexModulus \in Nat \ {0} /\ IndexModulus % QueueSize = 0
    /\ Slots \in Nat

VARIABLES
    driver,  \* "off", "gpu" or "block": which driver has set the queue up
    freeList,\* free_entries
    table,   \* the descriptor table: what a descriptor points at, and the next one
    avail,   \* the entries of the available ring
    index,   \* its index
    pushed,  \* a chain that is in the ring but not yet published, or NoChain
    taken,   \* the device: its own index, and the chain it works on
    finished,\* heads of the chains the device has put in the used ring
    event,   \* what the pending interrupt is for: "completed" chains, or anything "other"
    early,   \* the GPU driver has gone on after an interrupt that was for no completed chain
    buffers, \* the objects the descriptors point at and what they hold
    commander, \* the GPU driver: which command it is at, and whether it waits
    screen,  \* the GPU: the state of the resource
    wrong,   \* the GPU driver read an answer that was not Ok
    slots,   \* the free request and data slots of the block driver
    tokens   \* the reads whose blocks were not freed

qvars == <<driver, freeList, table, avail, index, pushed, taken, finished, event, early,
           buffers, commander, screen, wrong, slots, tokens>>

NoChain == QueueSize
End == QueueSize
Indices == 0 .. QueueSize - 1

VirtioInit ==
    /\ driver = "off" /\ freeList = <<>> /\ table = <<>> /\ avail = <<>> /\ index = 0
    /\ pushed = NoChain
    /\ taken = [index |-> 0, head |-> NoChain]
    /\ finished = {} /\ event = {} /\ early = FALSE /\ buffers = <<>>
    /\ commander = [command |-> 1, waits |-> FALSE]
    /\ screen = {} /\ wrong = FALSE
    /\ slots = [request |-> <<>>, data |-> <<>>]
    /\ tokens = {}

-----------------------------------------------------------------------------
\* Virtqueue.

Virtqueue_new ==
    /\ freeList' = [i \in 1 .. QueueSize |-> i - 1]
    /\ table' = [i \in Indices |-> [object |-> "none", writes |-> FALSE, next |-> End]]
    /\ avail' = [i \in Indices |-> 0]

\* alloc_descriptor takes from the back: the first k descriptors that come.
Allocated(k) == [i \in 1 .. k |-> freeList[Len(freeList) + 1 - i]]

Remaining(k) == SubSeq(freeList, 1, Len(freeList) - k)

\* push_descriptor for each of a chain: its objects in order, and which of them
\* the device may write.
Chained(ds, objects, writes) ==
    [i \in Indices |->
        IF \E k \in DOMAIN ds : ds[k] = i
        THEN LET k == CHOOSE k \in DOMAIN ds : ds[k] = i
             IN [object |-> objects[k], writes |-> writes[k],
                 next |-> IF k < Len(ds) THEN ds[k + 1] ELSE End]
        ELSE table[i]]

\* Mutant: one entry further than the device looks.
entry_of_next(i) == (i + 1) % QueueSize

entry_of(i) == i % QueueSize

\* make_descriptor_available writes the entry first ...
push_entry(head) ==
    /\ avail' = [avail EXCEPT ![entry_of(index)] = head]
    /\ pushed' = head

\* ... and then the index.
Publish ==
    /\ pushed # NoChain
    /\ index' = (index + 1) % IndexModulus
    /\ pushed' = NoChain
    /\ UNCHANGED <<driver, freeList, table, avail, taken, finished, event, early, buffers, commander,
                   screen, wrong, slots, tokens>>

-----------------------------------------------------------------------------
\* The GPU driver.

\* The handshake over the configuration registers, with the queue installed.
GpuStarts ==
    /\ driver = "off" /\ driver' = "gpu"
    /\ Virtqueue_new
    /\ UNCHANGED <<index, pushed, taken, finished, event, early, buffers, commander, screen, wrong,
                   slots, tokens>>

\* The commands of main; the last two are repeated for every message.
Commands == <<"get_scanout_info", "create_resource", "attach_backing", "set_scanout",
              "transfer_to_host_2d", "flush_resource">>

NextCommand(c) == IF c = Len(Commands) THEN c - 1 ELSE c + 1

\* make_request, up to the wait.
make_request ==
    /\ driver = "gpu" /\ ~commander.waits /\ pushed = NoChain /\ ~wrong
    /\ LET ds == Allocated(2)
       IN /\ buffers' = [request |-> Commands[commander.command], response |-> "uninitialised"]
          /\ freeList' = Remaining(2)
          /\ table' = Chained(ds, <<"request", "response">>, <<FALSE, TRUE>>)
          /\ push_entry(ds[1])
    /\ commander' = [commander EXCEPT !.waits = TRUE]
    /\ UNCHANGED <<driver, index, taken, finished, event, early, screen, wrong, slots, tokens>>

\* Any interrupt will do: the used ring is not looked at.
wait_for_request == event # {}

\* The rest of make_request: the descriptors go back in the order they were
\* taken, the answer is read and the objects are dropped. The memory of an answer
\* the device has not written may hold an earlier one.
finish_request ==
    /\ driver = "gpu" /\ commander.waits /\ pushed = NoChain
    /\ wait_for_request
    /\ event' = {}
    /\ early' = (early \/ "completed" \notin event)
    /\ freeList' = freeList \o <<avail[entry_of(index + IndexModulus - 1)],
                         table[avail[entry_of(index + IndexModulus - 1)]].next>>
    /\ wrong' \in IF buffers.response = "uninitialised" THEN BOOLEAN ELSE {buffers.response # "Ok"}
    /\ commander' = [command |-> NextCommand(commander.command), waits |-> FALSE]
    /\ UNCHANGED <<driver, table, avail, index, pushed, taken, finished, buffers, screen, slots, tokens>>

-----------------------------------------------------------------------------
\* The block driver.

BlockStarts ==
    /\ driver = "off" /\ driver' = "block"
    /\ Virtqueue_new
    /\ slots' = [request |-> [i \in 1 .. Slots |-> i], data |-> [i \in 1 .. Slots |-> i]]
    /\ buffers' = [o \in {"request", "data"} \X (1 .. Slots) |-> "zero"]
    /\ UNCHANGED <<index, pushed, taken, finished, event, early, commander, screen, wrong, tokens>>

\* The data is returned at once; the descriptors are not given back.
read_block ==
    /\ driver = "block" /\ pushed = NoChain
    /\ slots.request # <<>> /\ slots.data # <<>> /\ Len(freeList) >= 3
    /\ LET ds == Allocated(3)
           r == slots.request[Len(slots.request)]
           d == slots.data[Len(slots.data)]
       IN /\ buffers' = [buffers EXCEPT ![<<"request", r>>] = "read"]
          /\ freeList' = Remaining(3)
          /\ table' = Chained(ds, <<<<"request", r>>, <<"data", d>>, <<"request", r>>>>,
                                  <<FALSE, TRUE, TRUE>>)
          /\ push_entry(ds[1])
          /\ tokens' = tokens \cup {[request |-> r, data |-> d]}
          /\ slots' = [request |-> SubSeq(slots.request, 1, Len(slots.request) - 1),
                       data |-> SubSeq(slots.data, 1, Len(slots.data) - 1)]
    /\ UNCHANGED <<driver, index, taken, finished, event, early, commander, screen, wrong>>

free_read_block(t) ==
    /\ pushed = NoChain
    /\ tokens' = tokens \ {t}
    /\ slots' = [request |-> Append(slots.request, t.request), data |-> Append(slots.data, t.data)]
    /\ UNCHANGED <<driver, freeList, table, avail, index, pushed, taken, finished, event, early,
                   buffers, commander, screen, wrong>>

-----------------------------------------------------------------------------
\* The device.

TakeChain ==
    /\ taken.head = NoChain /\ taken.index # index
    /\ taken' = [index |-> (taken.index + 1) % IndexModulus,
                 head |-> avail[taken.index % QueueSize]]
    /\ UNCHANGED <<driver, freeList, table, avail, index, pushed, finished, event, early, buffers,
                   commander, screen, wrong, slots, tokens>>

\* What a GPU asks of the resource before each command, and what it then has.
Needs(c) ==
    CASE c = "attach_backing" -> {"created"} [] c = "set_scanout" -> {"created"}
      [] c = "transfer_to_host_2d" -> {"created", "backed"}
      [] c = "flush_resource" -> {"created", "shown"} [] OTHER -> {}

Gives(c) ==
    CASE c = "create_resource" -> {"created"} [] c = "attach_backing" -> {"backed"}
      [] c = "set_scanout" -> {"shown"} [] OTHER -> {}

\* The device executes the chain it took, and interrupts.
CompleteChain ==
    /\ taken.head # NoChain
    /\ taken' = [taken EXCEPT !.head = NoChain]
    /\ finished' = finished \cup {taken.head}
    /\ event' = event \cup {"completed"}
    /\ IF driver = "gpu"
       THEN /\ screen' = screen \cup Gives(buffers.request)
            /\ buffers' = [buffers EXCEPT !.response =
                            IF Needs(buffers.request) \subseteq screen THEN "Ok" ELSE "Err"]
       ELSE /\ buffers' = [o \in DOMAIN buffers |->
                 IF \E i \in Indices : table[i].writes /\ table[i].object = o
                                       /\ table[taken.head].next = i
                 THEN "read" ELSE buffers[o]]
            /\ UNCHANGED screen
    /\ UNCHANGED <<driver, freeList, table, avail, index, pushed, early, commander, wrong, slots, tokens>>

\* An interrupt of the GPU for anything else, at any time.
OtherInterrupt ==
    /\ driver = "gpu" /\ "other" \notin event
    /\ event' = event \cup {"other"}
    /\ UNCHANGED <<driver, freeList, table, avail, index, pushed, taken, finished, early, buffers,
                   commander, screen, wrong, slots, tokens>>

VirtioNext ==
    \/ GpuStarts \/ make_request \/ Publish \/ finish_request
    \/ BlockStarts \/ read_block \/ \E t \in tokens : free_read_block(t)
    \/ TakeChain \/ CompleteChain \/ OtherInterrupt

VirtioSpec == VirtioInit /\ [][VirtioNext]_qvars

-----------------------------------------------------------------------------
\* Properties.

\* The descriptors of the chain that starts at one.
Chain(head) ==
    LET along[k \in 0 .. 3] ==
            IF k = 0 THEN head
            ELSE IF along[k - 1] = End THEN End ELSE table[along[k - 1]].next
    IN { along[k] : k \in 0 .. 3 } \ {End}

\* The chains the device may still read: the ones published and not taken, and
\* the one it works on.
Visible ==
    { avail[(taken.index + k) % QueueSize] :
        k \in 0 .. ((index + IndexModulus - taken.index) % IndexModulus) - 1 }
    \cup ({taken.head} \ {NoChain})

\* Across every wrap of the index, the device meets only chains the driver
\* built: no descriptor of a chain it can see is free, none belongs to two of
\* them, and the GPU's objects are alive; and when an interrupt is for a completed
\* chain, the GPU driver waits for it and the device has nothing more of it. This
\* ends when the GPU driver takes an interrupt for something else as the end of its
\* request (wait_for_request): it frees what the device still reads.
ChainsIntact ==
    driver # "off" /\ ~early =>
        /\ (index + IndexModulus - taken.index) % IndexModulus <= QueueSize
        /\ \A h \in Visible :
             /\ \A i \in Chain(h) : \A k \in DOMAIN freeList : freeList[k] # i
             /\ \A g \in Visible \ {h} : Chain(h) \cap Chain(g) = {}
             /\ \A i \in Chain(h) : table[i].object \in DOMAIN buffers
             /\ driver = "gpu" => commander.waits
        /\ driver = "gpu" /\ "completed" \in event => commander.waits /\ Visible = {}
=============================================================================
