-------------------------------- MODULE Ehci --------------------------------
\* The EHCI driver (user/usb_bus_ehci/src) and the memory it shares with the
\* controller (lib/poplar/src/ddk/dma.rs). The futures of the driver run one at a
\* time, each up to its next await; the controller runs beside them and follows
\* the queue heads and transfer descriptors it finds in memory. A transfer is
\* named by the queue and the request it is for, so a later transfer for the same
\* request uses the same memory again, as the allocator may arrange.
EXTENDS Integers, Sequences, FiniteSets

CONSTANTS
    NumPorts,
    Attached(_), \* what is at a port: "none", "low", "full" or "high" speed
    Requests(_)  \* the requests the driver of a device sends, in order

Ports == 1 .. NumPorts

\* There is an address for each port. The driver of a device opens its endpoint
\* once, before it reads from it.
ASSUME EhciAssumption ==
    /\ NumPorts \in 1 .. 127
    /\ \A p \in Ports :
         LET rs == Requests(p)
         IN /\ Len(rs) \in Nat /\ DOMAIN rs = 1 .. Len(rs)
            /\ \A i \in DOMAIN rs :
                  /\ rs[i] \in {"configuration", "interface", "descriptor", "endpoint", "report"}
                  /\ rs[i] = "report" => \E j \in 1 .. i - 1 : rs[j] = "endpoint"
                  /\ rs[i] = "endpoint" => \A j \in 1 .. i - 1 : rs[j] # "endpoint"

VARIABLES
    status,   \* the bits of the status register that are set
    irq,      \* the interrupt: "armed", "event" once signalled, "masked" until acked
    handler,  \* the interrupt task: where it is, the status it read, its queue
    ring,     \* ASYNCADDR: the first queue head, or Nothing
    memory,   \* the objects allocated in the schedule pool, and what they hold
    schedule, \* async_schedule
    queues,   \* the transactions of each queue
    adding,   \* the queue that add_to_async_schedule is half way through adding
    free,     \* free_addresses is 1 .. free
    task,     \* what the future for each port or device is doing
    woken,    \* the futures that were woken
    inbox,    \* the request in a device's channel
    sent,     \* how many requests a device got
    replied,  \* the last response of each device
    address,  \* the address each device answers to, -1 while its port is off
    registered, \* the address in the name each device has on the platform bus, or -1
    dead      \* the driver panicked

software == <<handler, schedule, queues, adding, free, task, woken, inbox, sent, replied, registered>>
evars == <<status, irq, ring, memory, address, dead, software>>

Nothing == <<>>
Terminate == <<>>

Control(p) == <<p, 0>>
In(p) == <<p, 1>>

\* The objects of the pool.
QueueHead(q) == <<"head", q, "none">>
Setup(q, r) == <<"setup", q, r>>
Descriptors(q, r) == <<"descriptors", q, r>>
Buffer(q, r) == <<"buffer", q, r>>

EhciInit ==
    /\ status = { b \in {"PORT_CHANGE"} : \E p \in Ports : Attached(p) # "none" }
    /\ irq = "armed"
    /\ handler = [at |-> "wait", seen |-> {}, queue |-> 0]
    /\ ring = Nothing /\ memory = <<>> /\ schedule = <<>> /\ queues = <<>>
    /\ adding = Nothing
    /\ free = 127
    /\ task = [p \in Ports |-> "unchecked"]
    /\ woken = {}
    /\ inbox = [p \in Ports |-> "none"]
    /\ sent = [p \in Ports |-> 0]
    /\ replied = [p \in Ports |-> "none"]
    /\ address = [p \in Ports |-> -1]
    /\ registered = [p \in Ports |-> -1]
    /\ dead = FALSE

\* Some future of the driver is free to run: no other is between two awaits.
Idle == handler.at = "wait" /\ adding = Nothing /\ ~dead

-----------------------------------------------------------------------------
\* The pool: allocation adds objects, dropping removes them. A buffer holds
\* whether its token is out.

create(m, object, value) == [o \in DOMAIN m \cup {object} |-> IF o = object THEN value ELSE m[o]]
drop(m, objects) == [o \in DOMAIN m \ objects |-> m[o]]
token(m, buffer) == [m EXCEPT ![buffer] = "token held"]
release(m, buffer) == IF buffer \in DOMAIN m THEN [m EXCEPT ![buffer] = "free"] ELSE m

\* DmaBuffer::read and drop assert that the token is back.
Accessible(m, buffer) == m[buffer] = "free"

create_queue(m, q, device) ==
    create(m, QueueHead(q), [link |-> Nothing, reclaim |-> FALSE, next |-> Terminate,
                         device |-> device, halted |-> FALSE])

set_next_td(m, q, r) == [m EXCEPT ![QueueHead(q)].next = <<r, 1>>]

-----------------------------------------------------------------------------
\* The queues.

HasData(r) == r \notin {"set_address", "configuration", "interface"}

\* The transaction of r is queued, and started when it is the only one.
enqueue(q, r, m) ==
    /\ queues' = [queues EXCEPT ![q] = Append(@, [request |-> r, complete |-> 0])]
    /\ memory' = IF queues[q] = <<>> THEN set_next_td(m, q, r) ELSE m

\* A setup stage, the data if there is any, and a status stage.
control_transfer(q, r, m) ==
    LET stages == IF HasData(r) THEN 3 ELSE 2
    IN enqueue(q, r, create(create(m, Setup(q, r), "packet"),
                            Descriptors(q, r), [i \in 1 .. stages |-> "active"]))

interrupt_transfer(q, r, m) ==
    enqueue(q, r, create(m, Descriptors(q, r), <<"active">>))

\* The buffer of the data, with its token given to the transfer.
with_buffer(q, r, m) ==
    IF HasData(r) THEN token(create(m, Buffer(q, r), "free"), Buffer(q, r)) ELSE m

do_control_transfer(p, r, m) ==
    /\ control_transfer(Control(p), r, with_buffer(Control(p), r, m))
    /\ task' = [task EXCEPT ![p] = r]

do_interrupt_transfer(p, r, m) ==
    /\ interrupt_transfer(In(p), r, with_buffer(In(p), r, m))
    /\ task' = [task EXCEPT ![p] = r]

\* Dropping a transaction frees what it owns and gives the token back.
drop_transaction(m, q, r) ==
    release(drop(m, {Setup(q, r), Descriptors(q, r)}), Buffer(q, r))

-----------------------------------------------------------------------------
\* The schedule. The new queue head becomes the last of the ring and the head of
\* the reclamation list; the controller may look between the two halves.

add_to_async_schedule(q, m) ==
    /\ adding' = q
    /\ IF schedule = <<>>
       THEN /\ memory' = [m EXCEPT ![QueueHead(q)].reclaim = TRUE, ![QueueHead(q)].link = q]
            /\ ring' = q
       ELSE LET last == schedule[Len(schedule)]
            IN /\ m[QueueHead(last)].reclaim
               /\ memory' = [m EXCEPT ![QueueHead(q)].link = schedule[1],
                                      ![QueueHead(q)].reclaim = TRUE,
                                      ![QueueHead(last)].link = q]
               /\ UNCHANGED ring
    /\ queues' = create(queues, q, <<>>)

\* The end of it: the old last one is no reclamation head any more.
Linked(q) ==
    IF schedule = <<>> THEN memory
    ELSE [memory EXCEPT ![QueueHead(schedule[Len(schedule)])].reclaim = FALSE]

-----------------------------------------------------------------------------
\* Connecting devices.

\* Controller::initialize, and the futures that new spawns, come before this: the
\* ports are checked in order, one at a time.
Checked(p) == task[p] \in {"companion", "empty", "ready", "descriptor", "configuration",
                           "interface", "endpoint", "report"}

\* handle_device_connect resets the port and, for a high-speed device, makes a
\* queue for its control endpoint and gives it an address.
handle_device_connect(p) ==
    IF Attached(p) = "high"
    THEN /\ address' = [address EXCEPT ![p] = 0]
         /\ free' = free - 1
         /\ add_to_async_schedule(Control(p), create_queue(memory, Control(p), 0))
         /\ task' = [task EXCEPT ![p] = "connect"]
    ELSE /\ task' = [task EXCEPT ![p] = "companion"]
         /\ UNCHANGED <<address, free, memory, ring, adding, queues>>

check_ports(p) ==
    /\ Idle /\ task[p] = "unchecked" /\ \A q \in 1 .. p - 1 : Checked(q)
    /\ \/ /\ Attached(p) = "none"
          /\ task' = [task EXCEPT ![p] = "empty"]
          /\ UNCHANGED <<address, free, memory, ring, adding, queues>>
       \/ /\ Attached(p) = "low"
          /\ task' = [task EXCEPT ![p] = "companion"]
          /\ UNCHANGED <<address, free, memory, ring, adding, queues>>
       \/ /\ Attached(p) \in {"full", "high"}
          /\ handle_device_connect(p)
    /\ UNCHANGED <<status, irq, dead, handler, schedule, woken, inbox, sent, replied, registered>>

\* The rest of add_to_async_schedule, and what its caller does next.
FinishAdding ==
    /\ adding # Nothing /\ ~dead
    /\ schedule' = Append(schedule, adding)
    /\ adding' = Nothing
    /\ LET p == adding[1]
       IN IF task[p] = "connect" THEN do_control_transfer(p, "header", Linked(adding))
          ELSE /\ memory' = Linked(adding)
               /\ task' = [task EXCEPT ![p] = "ready"]
               /\ UNCHANGED queues
    /\ UNCHANGED <<status, irq, ring, address, dead, handler, free, woken, inbox, sent, replied,
                   registered>>

\* Mutant: the queue keeps the default address.
set_address_forgotten(m, q, a) == m

set_address(m, q, a) == [m EXCEPT ![QueueHead(q)].device = a]

\* The transfer after each of those that bring a device up.
Following == [header |-> "set_address", set_address |-> "device", device |-> "config",
              config |-> "hierarchy"]

\* The device is announced to the platform bus under a name made of the bus, which
\* is always 0, and its address, and served from now on.
create_device(p, a) ==
    /\ registered' = [registered EXCEPT ![p] = a]
    /\ task' = [task EXCEPT ![p] = "ready"]

\* The next part of handle_device_connect, up to create_device. The buffer that was read goes out of scope
\* (the configuration descriptor's only after the hierarchy was read).
Connecting(p) ==
    LET r == task[p]
        q == Control(p)
        m == CASE r = "set_address" -> set_address(memory, q, free + 1)
             [] r = "config" -> memory
             [] r = "hierarchy" -> drop(memory, {Buffer(q, r), Buffer(q, "config")})
             [] OTHER -> drop(memory, {Buffer(q, r)})
    IN /\ r \in DOMAIN Following \cup {"hierarchy"}
       /\ HasData(r) => Accessible(memory, Buffer(q, r))
       /\ IF r = "hierarchy"
          THEN memory' = m /\ create_device(p, free + 1) /\ UNCHANGED queues
          ELSE do_control_transfer(p, Following[r], m) /\ UNCHANGED registered
       /\ UNCHANGED replied

\* The end of handle_request: the response is sent and the buffer dropped.
Responding(p) ==
    LET r == task[p]
        q == IF r = "report" THEN In(p) ELSE Control(p)
    IN /\ r \in {"configuration", "interface", "descriptor", "report"}
       /\ HasData(r) => Accessible(memory, Buffer(q, r))
       /\ memory' = drop(memory, {Buffer(q, r)})
       /\ task' = [task EXCEPT ![p] = "ready"]
       /\ replied' = [replied EXCEPT ![p] = IF HasData(r) THEN r ELSE @]
       /\ UNCHANGED <<queues, registered>>

\* The executor polls a future that was woken.
Resume(p) ==
    /\ Idle /\ p \in woken
    /\ woken' = woken \ {p}
    /\ Connecting(p) \/ Responding(p)
    /\ UNCHANGED <<status, irq, ring, address, dead, handler, schedule, adding, free, inbox, sent>>

-----------------------------------------------------------------------------
\* Requests of the driver that a device was handed to.

\* The client sends its next request when the last one was served.
SendRequest(p) ==
    /\ sent[p] < Len(Requests(p)) /\ inbox[p] = "none" /\ task[p] = "ready"
    /\ inbox' = [inbox EXCEPT ![p] = Requests(p)[sent[p] + 1]]
    /\ sent' = [sent EXCEPT ![p] = @ + 1]
    /\ UNCHANGED <<status, irq, ring, memory, address, dead, handler, schedule, queues,
                   adding, free, task, woken, replied, registered>>

OpenEndpoint(p) ==
    /\ add_to_async_schedule(In(p), create_queue(memory, In(p), memory[QueueHead(Control(p))].device))
    /\ task' = [task EXCEPT ![p] = "endpoint"]

\* The future of a device serves requests once every port has been checked.
handle_request(p) ==
    /\ Idle /\ task[p] = "ready" /\ \A q \in Ports : Checked(q)
    /\ inbox[p] # "none"
    /\ inbox' = [inbox EXCEPT ![p] = "none"]
    /\ \/ inbox[p] \in {"configuration", "interface", "descriptor"}
          /\ do_control_transfer(p, inbox[p], memory) /\ UNCHANGED <<adding, ring>>
       \/ inbox[p] = "endpoint" /\ OpenEndpoint(p)
       \/ inbox[p] = "report"
          /\ do_interrupt_transfer(p, inbox[p], memory) /\ UNCHANGED <<adding, ring>>
    /\ UNCHANGED <<status, irq, address, dead, handler, schedule, free, woken, sent, replied,
                   registered>>

-----------------------------------------------------------------------------
\* The interrupt task.

\* Mutant: the queues are looked through before the status is cleared.
HandlerStep_late(at) ==
    CASE at = "wait" -> "check" [] at = "check" -> "clear" [] at = "clear" -> "ack" [] OTHER -> "wait"

\* The order of its steps.
HandlerStep(at) ==
    CASE at = "wait" -> "clear" [] at = "clear" -> "ack" [] at = "ack" -> "check" [] OTHER -> "wait"

unhandled == <<ring, address, schedule, adding, free, task, inbox, sent, replied, registered>>

ReadStatus ==
    /\ Idle /\ irq = "event"
    /\ irq' = "masked"
    /\ handler' = [at |-> HandlerStep("wait"), seen |-> status, queue |-> 1]
    /\ UNCHANGED <<status, memory, queues, woken, dead, unhandled>>

ClearStatus ==
    /\ handler.at = "clear" /\ ~dead
    /\ status' = status \ handler.seen
    /\ handler' = [handler EXCEPT !.at = HandlerStep("clear")]
    /\ UNCHANGED <<irq, memory, queues, woken, dead, unhandled>>

Ack ==
    /\ handler.at = "ack" /\ ~dead
    /\ irq' = "armed"
    /\ dead' = ("ERR" \in handler.seen)
    /\ handler' = [handler EXCEPT
         !.at = IF HandlerStep("ack") = "check" /\ "INTERRUPT" \notin handler.seen THEN "wait"
                ELSE HandlerStep("ack")]
    /\ UNCHANGED <<status, memory, queues, woken, unhandled>>

\* Mutant: the last descriptor is not waited for.
all_complete_early(t, tds) == t.complete >= Len(tds) - 1

\* Every descriptor of the transaction was seen inactive.
all_complete(t, tds) == t.complete = Len(tds)

NextQueue == handler' = [handler EXCEPT !.queue = @ + 1]

\* check_progress of a queue reads one descriptor after the other.
check_progress ==
    /\ handler.at = "check" /\ handler.queue <= Len(schedule) /\ ~dead
    /\ LET q == schedule[handler.queue]
       IN IF queues[q] = <<>> THEN NextQueue /\ UNCHANGED <<memory, queues, woken>>
          ELSE LET t == Head(queues[q])
                   tds == memory[Descriptors(q, t.request)]
                   left == Tail(queues[q])
                   m == drop_transaction(memory, q, t.request)
               IN \/ /\ all_complete(t, tds)
                     /\ queues' = [queues EXCEPT ![q] = left]
                     /\ woken' = woken \cup {q[1]}
                     /\ memory' = IF left = <<>> THEN m ELSE set_next_td(m, q, Head(left).request)
                     /\ NextQueue
                  \/ /\ ~all_complete(t, tds) /\ tds[t.complete + 1] = "done"
                     /\ queues' = [queues EXCEPT ![q][1].complete = @ + 1]
                     /\ UNCHANGED <<memory, woken, handler>>
                  \/ /\ ~all_complete(t, tds) /\ tds[t.complete + 1] = "active"
                     /\ NextQueue /\ UNCHANGED <<memory, queues, woken>>
                  \/ /\ ~all_complete(t, tds) /\ tds[t.complete + 1] = "halted"
                     /\ queues' = [queues EXCEPT ![q] = left]
                     /\ memory' = m
                     /\ NextQueue /\ UNCHANGED woken
    /\ UNCHANGED <<status, irq, dead, unhandled>>

AllChecked ==
    /\ handler.at = "check" /\ handler.queue > Len(schedule) /\ ~dead
    /\ handler' = [handler EXCEPT !.at = HandlerStep("check"), !.queue = 0]
    /\ UNCHANGED <<status, irq, memory, queues, woken, dead, unhandled>>

-----------------------------------------------------------------------------
\* The controller, the kernel and the devices.

\* The kernel delivers the level of the line as an event and masks it.
DeliverInterrupt ==
    /\ irq = "armed" /\ status # {}
    /\ irq' = "event"
    /\ UNCHANGED <<status, ring, memory, address, dead, software>>

\* The queue heads the controller comes past on its way through the links. Those
\* of the schedule and the one being added are all there are.
InRing ==
    { q \in DOMAIN queues :
        \E n \in 1 .. Len(schedule) + 1 : \E path \in [1 .. n -> DOMAIN queues] :
          /\ path[1] = ring /\ path[n] = q
          /\ \A i \in 1 .. n - 1 : memory[QueueHead(path[i])].link = path[i + 1] }

Working(q) == memory[QueueHead(q)].next # Terminate /\ ~memory[QueueHead(q)].halted

Answering(a) == { p \in Ports : address[p] = a }

\* The controller executes the next descriptor of a queue in its ring; the
\* device that is meant may report an error, and nobody answers to an address no
\* device has.
Execute(q) ==
    /\ q \in InRing /\ Working(q)
    /\ LET head == memory[QueueHead(q)]
           r == head.next[1]
           i == head.next[2]
           tds == Descriptors(q, r)
           stages == Len(memory[tds])
       IN /\ tds \in DOMAIN memory
          /\ \/ /\ Answering(head.device) = {q[1]}
                /\ memory' = [memory EXCEPT ![tds][i] = "done",
                     ![QueueHead(q)].next = IF i < stages THEN <<r, i + 1>> ELSE Terminate]
                /\ status' = status \cup {"INTERRUPT"}
                /\ address' = IF r = "set_address" /\ i = stages
                              THEN [address EXCEPT ![q[1]] = free + 1] ELSE address
             \/ /\ memory' = [memory EXCEPT ![tds][i] = "halted", ![QueueHead(q)].halted = TRUE]
                /\ status' = status \cup {"ERR"}
                /\ UNCHANGED address
    /\ UNCHANGED <<irq, ring, dead, software>>

DriverStep ==
    \/ \E p \in Ports : check_ports(p) \/ Resume(p) \/ handle_request(p)
    \/ FinishAdding \/ ReadStatus \/ ClearStatus \/ Ack \/ check_progress \/ AllChecked

EhciNext ==
    \/ DriverStep
    \/ DeliverInterrupt
    \/ \E p \in Ports : SendRequest(p)
    \/ \E q \in DOMAIN queues : Execute(q)

EhciSpec == EhciInit /\ [][EhciNext]_evars

-----------------------------------------------------------------------------
\* Properties.

\* The links the controller follows lead through every scheduled queue; outside
\* add_to_async_schedule only the last one is head of the reclamation list. What
\* the controller can still execute is allocated, and the token of a data stage's
\* buffer is out: the driver neither reads nor frees it meanwhile.
ScheduleSound ==
    /\ \A i \in DOMAIN schedule : schedule[i] \in InRing
    /\ adding = Nothing => \A i \in DOMAIN schedule :
         memory[QueueHead(schedule[i])].reclaim <=> i = Len(schedule)
    /\ \A q \in InRing : Working(q) =>
         LET r == memory[QueueHead(q)].next[1]
         IN /\ Descriptors(q, r) \in DOMAIN memory
            /\ HasData(r) => Buffer(q, r) \in DOMAIN memory /\ memory[Buffer(q, r)] = "token held"

\* A transfer under way goes to one device, the one its queue was made for: no
\* two devices have the default address at once, because ports are enabled one
\* after the other, and a queue follows the address its device was given. That is
\* also the address in the name the platform bus knows the device by.
TransfersReachTheirDevice ==
    /\ \A q \in InRing : Working(q) => Answering(memory[QueueHead(q)].device) = {q[1]}
    /\ \A p \in Ports : registered[p] # -1 => Answering(registered[p]) = {p}

\* The controller has finished the transaction a queue is at.
Unnoticed(q) ==
    LET tds == memory[Descriptors(q, Head(queues[q]).request)]
    IN queues[q] # <<>> /\ \A i \in DOMAIN tds : tds[i] = "done"

\* When the controller has finished a transaction the driver notices and wakes its
\* future, unless an error made it panic: clearing the status before looking at
\* the queues loses no completion that comes in between. Devices are sent finitely
\* many requests, so that time and again every completion has been noticed.
CompletionsNoticed == []<>(dead \/ \A q \in DOMAIN queues : ~Unnoticed(q))

=============================================================================
