----------------------------- MODULE Interrupts -----------------------------
(***************************************************************************)
(* Interrupts of PCI devices on x86-64, from the device to the `Interrupt` *)
(* object a driver waits on: kernel/kernel_x86_64/src/{pci,interrupts}.rs  *)
(* and kernel/src/object/interrupt.rs.                                     *)
(*                                                                         *)
(* A device without MSI has an interrupt pin, routed to a level-triggered  *)
(* line of the IO APIC that it may share; the line is masked when it fires *)
(* and unmasked when a driver acknowledges the interrupt.  A device with   *)
(* MSI or MSI-X sends a message on a vector of its own, which is not       *)
(* masked.  Handlers run with interrupts off on the only CPU, so a handler *)
(* is one step.  System calls run with interrupts on.                      *)
(***************************************************************************)
EXTENDS Integers, FiniteSets

CONSTANTS
    NumDevices, \* the PCI functions with interrupts, in the order of enumeration
    Vector,     \* Vector[d]: the platform interrupt of device d
    Msi,        \* the devices that use MSI or MSI-X
    Bits,       \* the conditions a device reports in its status register
    Early       \* devices the firmware left with interrupts enabled

Devices == 1 .. NumDevices
Vectors == { Vector[d] : d \in Devices }
On(v) == { d \in Devices : Vector[d] = v }

ASSUME DevicesAssumption ==
    /\ NumDevices \in Nat
    /\ Msi \subseteq Devices
    /\ Early \subseteq Devices
    /\ \A d \in Msi : On(Vector[d]) = {d}

VARIABLES
    configuring,    \* the device enumeration has come to; NumDevices + 1 at the end
    phase,          \* how far its interrupt is configured
    controller,     \* is INTERRUPT_CONTROLLER locked?
    routes,         \* is INTERRUPT_ROUTING locked?
    routing,        \* INTERRUPT_ROUTING: the devices whose Interrupt a vector triggers
    masked,         \* the mask of each line; a vector for MSI is masked until enabled
    work,           \* the bits set in each device's status register
    sent,           \* the devices whose message the local APIC holds
    triggered,      \* Interrupt::triggered, the set of devices for which it is true
    stuck           \* how the kernel stopped, "no" while it has not

ivars == <<configuring, phase, controller, routes, routing, masked, work, sent,
           triggered, stuck>>
boot == <<configuring, phase, controller, routes, routing>>

Booted == configuring > NumDevices

InterruptsInit ==
    /\ configuring = 1
    /\ phase = "find"
    /\ controller = FALSE /\ routes = FALSE
    /\ routing = [v \in Vectors |-> {}]
    /\ masked = Vectors
    /\ work = [d \in Devices |-> {}]
    /\ sent = {}
    /\ triggered = {}
    /\ stuck = "no"

-----------------------------------------------------------------------------

\* configure_legacy: a line that another device uses is already configured.
\* Otherwise, and for MSI, the controller is locked to allocate a vector.
BootFind ==
    /\ stuck = "no" /\ ~Booted /\ phase = "find"
    /\ IF routing[Vector[configuring]] # {}
         THEN phase' = "lock" /\ UNCHANGED controller
         ELSE phase' = "allocate" /\ controller' = TRUE
    /\ UNCHANGED <<configuring, routes, routing, masked, work, sent, triggered, stuck>>

\* Mutant of BootAllocate: the controller stays locked.
AllocateKeepsLock ==
    /\ stuck = "no" /\ ~Booted /\ phase = "allocate"
    /\ masked' = IF configuring \in Msi THEN masked ELSE masked \ {Vector[configuring]}
    /\ phase' = "lock"
    /\ UNCHANGED <<configuring, controller, routes, routing, work, sent, triggered, stuck>>

\* allocate_platform_interrupt; configure_gsi goes on to write the line's entry
\* in the IO APIC, not masked.
BootAllocate ==
    /\ stuck = "no" /\ ~Booted /\ phase = "allocate"
    /\ masked' = IF configuring \in Msi THEN masked ELSE masked \ {Vector[configuring]}
    /\ controller' = FALSE
    /\ phase' = "lock"
    /\ UNCHANGED <<configuring, routes, routing, work, sent, triggered, stuck>>

BootLockRoutes ==
    /\ stuck = "no" /\ ~Booted /\ phase = "lock"
    /\ routes' = TRUE
    /\ phase' = "route"
    /\ UNCHANGED <<configuring, controller, routing, masked, work, sent, triggered, stuck>>

\* The device's Interrupt is added to those its vector triggers.
BootRoute ==
    /\ stuck = "no" /\ ~Booted /\ phase = "route"
    /\ routing' = [routing EXCEPT ![Vector[configuring]] = @ \cup {configuring}]
    /\ routes' = FALSE
    /\ IF configuring \in Msi
         THEN phase' = "enable" /\ UNCHANGED configuring
         ELSE phase' = "find" /\ configuring' = configuring + 1
    /\ UNCHANGED <<controller, masked, work, sent, triggered, stuck>>

\* configure_msi and configure_msix let the device send its message.
BootEnable ==
    /\ stuck = "no" /\ ~Booted /\ phase = "enable"
    /\ masked' = masked \ {Vector[configuring]}
    /\ phase' = "find"
    /\ configuring' = configuring + 1
    /\ UNCHANGED <<controller, routes, routing, work, sent, triggered, stuck>>

-----------------------------------------------------------------------------

\* A device has something to report.  With MSI it also sends its message.
Raise(d, bit) ==
    /\ stuck = "no"
    /\ Booted \/ d \in Early
    /\ bit \notin work[d]
    /\ work' = [work EXCEPT ![d] = @ \cup {bit}]
    /\ sent' = IF d \in Msi /\ Vector[d] \notin masked THEN sent \cup {d} ELSE sent
    /\ UNCHANGED <<boot, masked, triggered, stuck>>

\* The interrupt controller has an interrupt to deliver on this vector: a level
\* that is asserted on an unmasked line, or a message.
Asserted(v) ==
    /\ v \notin masked
    /\ \E d \in On(v) : IF d \in Msi THEN d \in sent ELSE work[d] # {}

\* handle_pci_interrupt triggers the Interrupt of every device on the vector,
\* and the line is masked.
Deliver(v) ==
    /\ triggered' = triggered \cup routing[v]
    /\ masked' = IF v \in { Vector[d] : d \in Msi } THEN masked ELSE masked \cup {v}
    /\ sent' = sent \ On(v)

\* handle_platform_interrupt.  It takes the lock of the controller only if it
\* is free, and spins on the lock of the routing table with interrupts off.
HandlePlatformInterrupt(v) ==
    /\ stuck = "no"
    /\ Asserted(v)
    /\ IF controller \/ routes \/ routing[v] = {}
         THEN /\ stuck' = IF controller THEN "controller is locked"
                          ELSE IF routes THEN "routing table is locked"
                          ELSE "unhandled PCI interrupt"
              /\ UNCHANGED <<triggered, masked, sent>>
         ELSE /\ Deliver(v)
              /\ UNCHANGED stuck
    /\ UNCHANGED <<boot, work>>

-----------------------------------------------------------------------------

\* wait_for_interrupt finds the interrupt triggered and clears it.
TakeTrigger(d) ==
    /\ stuck = "no"
    /\ d \in triggered
    /\ triggered' = triggered \ {d}
    /\ UNCHANGED <<boot, masked, work, sent, stuck>>

\* The driver writes a one to each bit it read in the status register.
WriteStatus(d, bits) ==
    /\ stuck = "no"
    /\ work' = [work EXCEPT ![d] = @ \ bits]
    /\ UNCHANGED <<boot, masked, sent, triggered, stuck>>

\* ack_interrupt and Interrupt::rearm, up to rearm_interrupt.
RearmClear(d) ==
    /\ stuck = "no"
    /\ triggered' = triggered \ {d}
    /\ UNCHANGED <<boot, masked, work, sent, stuck>>

\* rearm_interrupt, with interrupts off: unmask the line.  An Interrupt for a
\* message has nothing to unmask.
RearmInterrupt(d) ==
    /\ stuck = "no"
    /\ masked' = IF d \in Msi THEN masked ELSE masked \ {Vector[d]}
    /\ UNCHANGED <<boot, work, sent, triggered, stuck>>

-----------------------------------------------------------------------------

\* Type correctness of the interrupt state.
InterruptsTypeOK ==
    /\ configuring \in 1 .. NumDevices + 1
    /\ phase \in {"find", "allocate", "lock", "route", "enable"}
    /\ controller \in BOOLEAN /\ routes \in BOOLEAN
    /\ routing \in [Vectors -> SUBSET Devices]
    /\ masked \in SUBSET Vectors
    /\ work \in [Devices -> SUBSET Bits]
    /\ sent \in SUBSET Msi
    /\ triggered \in SUBSET Devices

\* How far the configuration of a device has come.
Routed(d) == d < configuring \/ (d = configuring /\ phase = "enable")

\* What enumeration has set up at each point of it, if the firmware left no
\* device enabled: a lock is held only where the code holds it, the routing
\* table has the devices configured so far, and their lines are open.  No
\* interrupt comes before the end.
BootInv ==
    /\ Booted => phase = "find"
    /\ phase # "allocate" => ~controller
    /\ phase # "route" => ~routes
    /\ \A d \in Devices : Routed(d) => d \in routing[Vector[d]]
    /\ \A v \in Vectors : \A d \in routing[v] : Vector[d] = v /\ Routed(d)
    /\ \A d \in Msi : d < configuring => Vector[d] \notin masked
    /\ ~Booted =>
         /\ sent = {}
         /\ \A d \in Devices : work[d] = {}
         /\ \A d \in Devices \ Msi :
              (d < configuring \/ (d = configuring /\ phase \in {"lock", "route"}))
                => Vector[d] \notin masked

\* Once the devices are configured, an interrupt always finds the controller
\* free and somebody to tell: neither the `unwrap` of handle_platform_interrupt
\* nor the panic of handle_pci_interrupt is reached.
HandlersSafe == stuck = "no"
=============================================================================
