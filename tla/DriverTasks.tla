---------------------------- MODULE DriverTasks -----------------------------
(***************************************************************************)
(* Device drivers as tasks: the scheduler, the interrupts and the two ways *)
(* in which user/ drivers wait for them.                                   *)
(*                                                                         *)
(* usb_bus_ehci waits in the asynchronous runtime (lib/poplar/src/rt): the *)
(* wait does not block, and the runtime's loop yields and asks the kernel  *)
(* with poll_interest before it polls the wait again.  It reads its status *)
(* register, clears the bits it read, and acknowledges the interrupt.      *)
(* virtio_gpu waits inside the kernel, for the answer to the one request   *)
(* it has made, and acknowledges the interrupt before it goes on.          *)
(***************************************************************************)
EXTENDS Scheduler, Interrupts

CONSTANTS
    Driver,     \* Driver[d]: the task that drives device d
    Blocking    \* the devices whose driver waits inside the kernel

ASSUME DriversAssumption ==
    /\ Blocking \subseteq Devices
    /\ \A d \in Devices : Driver[d] \in Tasks
    /\ \A d, e \in Devices : Driver[d] = Driver[e] => d = e

VARIABLES
    pc,         \* where each driver is
    status      \* what it read in the status register

dvars == <<pc, status>>
vars == <<svars, ivars, dvars>>

Init ==
    /\ SchedulerInit
    /\ InterruptsInit
    /\ pc = [d \in Devices |-> IF d \in Blocking THEN "idle" ELSE "poll"]
    /\ status = [d \in Devices |-> {}]

Goto(d, where) == pc' = [pc EXCEPT ![d] = where]

\* The driver of device d is on the CPU, at this place in its code.
At(d, where) == running_task = Driver[d] /\ pc[d] = where

-----------------------------------------------------------------------------

\* The asynchronous wait_for_interrupt: the future is polled, and leaves its
\* waker with the reactor if there is no interrupt.
PollInterrupt(d) ==
    /\ d \notin Blocking
    /\ At(d, "poll")
    /\ \/ TakeTrigger(d) /\ Goto(d, "status")
       \/ d \notin triggered /\ Goto(d, "yield") /\ UNCHANGED ivars
    /\ UNCHANGED <<svars, status>>

\* enter_loop gives the CPU up on every turn.
EnterLoopYield(d) ==
    /\ At(d, "yield")
    /\ YieldSyscall
    /\ Goto(d, "interest")
    /\ UNCHANGED <<ivars, status>>

\* Reactor::poll: poll_interest says whether to wake the future.
ReactorPoll(d) ==
    /\ At(d, "interest")
    /\ Goto(d, IF d \in triggered THEN "poll" ELSE "yield")
    /\ UNCHANGED <<svars, ivars, status>>

\* virtio_gpu makes a request, or has none to make.
MakeRequest(d) ==
    /\ d \in Blocking
    /\ At(d, "idle")
    /\ \/ Goto(d, "poll") /\ UNCHANGED svars
       \/ YieldSyscall /\ UNCHANGED pc
    /\ UNCHANGED <<ivars, status>>

\* The blocking wait_for_interrupt: the loop in the kernel gives the CPU up
\* until it finds the interrupt triggered.
WaitForInterrupt(d) ==
    /\ d \in Blocking
    /\ At(d, "poll")
    /\ \/ TakeTrigger(d) /\ Goto(d, "ack") /\ UNCHANGED svars
       \/ d \notin triggered /\ YieldSyscall /\ UNCHANGED <<ivars, pc>>
    /\ UNCHANGED status

ReadStatus(d) ==
    /\ At(d, "status")
    /\ status' = [status EXCEPT ![d] = work[d]]
    /\ Goto(d, "clear")
    /\ UNCHANGED <<svars, ivars>>

ClearStatus(d) ==
    /\ At(d, "clear")
    /\ WriteStatus(d, status[d])
    /\ Goto(d, "ack")
    /\ UNCHANGED <<svars, status>>

\* Mutant of Ack: the line is unmasked first and the flag cleared after it.
AckUnmasksFirst(d) ==
    /\ \/ At(d, "ack") /\ RearmInterrupt(d) /\ Goto(d, "unmask")
       \/ /\ At(d, "unmask")
          /\ RearmClear(d)
          /\ Goto(d, IF d \in Blocking THEN "response" ELSE "poll")
    /\ UNCHANGED <<svars, status>>

\* ack_interrupt clears the flag, then unmasks the line; an interrupt may come
\* between the two.
Ack(d) ==
    /\ \/ At(d, "ack") /\ RearmClear(d) /\ Goto(d, "unmask")
       \/ /\ At(d, "unmask")
          /\ RearmInterrupt(d)
          /\ Goto(d, IF d \in Blocking THEN "response" ELSE "poll")
    /\ UNCHANGED <<svars, status>>

\* virtio_gpu reads the device's answer: the request is done with.
ReadResponse(d) ==
    /\ At(d, "response")
    /\ WriteStatus(d, work[d])
    /\ Goto(d, "idle")
    /\ UNCHANGED <<svars, status>>

DriverStep(d) ==
    \/ PollInterrupt(d) \/ EnterLoopYield(d) \/ ReactorPoll(d)
    \/ MakeRequest(d) \/ WaitForInterrupt(d)
    \/ ReadStatus(d) \/ ClearStatus(d) \/ Ack(d) \/ ReadResponse(d)

-----------------------------------------------------------------------------

\* Kernel initialisation: the devices, then the bootstrap task.
Boot ==
    \/ /\ BootFind \/ BootAllocate \/ BootLockRoutes \/ BootRoute \/ BootEnable
       /\ UNCHANGED <<svars, dvars>>
    \/ /\ Booted /\ stuck = "no"
       /\ LoadUserspace \/ StartScheduling
       /\ UNCHANGED <<ivars, dvars>>

\* A task that is not a driver starts another task or yields.
OtherTask ==
    /\ stuck = "no"
    /\ running_task \notin { Driver[d] : d \in Devices }
    /\ YieldSyscall \/ \E t \in Tasks : SpawnTask(t)
    /\ UNCHANGED <<ivars, dvars>>

\* A device reports something; one with a blocking driver answers its request.
Device ==
    /\ panicked = "no"
    /\ \E d \in Devices : \E bit \in Bits :
        /\ Raise(d, bit)
        /\ d \in Blocking => pc[d] = "poll" /\ work[d] = {}
    /\ UNCHANGED <<svars, dvars>>

Interrupt(v) ==
    /\ panicked = "no"
    /\ HandlePlatformInterrupt(v)
    /\ UNCHANGED <<svars, dvars>>

WakeTasklet ==
    /\ stuck = "no"
    /\ \E tasklet \in Tasklets : Wake(tasklet)
    /\ UNCHANGED <<ivars, dvars>>

CpuStep ==
    \/ Boot
    \/ OtherTask
    \/ stuck = "no" /\ \E d \in Devices : DriverStep(d)

Next == CpuStep \/ Device \/ (\E v \in Vectors : Interrupt(v)) \/ WakeTasklet

Spec == Init /\ [][Next]_vars

\* The CPU executes whatever task is on it, and the tasks of user/ yield in
\* their loops; a pending interrupt is taken in the end.
FairSpec == Spec /\ WF_vars(CpuStep) /\ \A v \in Vectors : WF_vars(Interrupt(v))

-----------------------------------------------------------------------------

Waiting(d) == pc[d] \in {"poll", "yield", "interest"}

\* No interrupt is lost: a driver that waits while its device has something to
\* report either has its Interrupt triggered, or the interrupt is still to
\* come, because the line is not masked or the message has been sent.  Line
\* sharing, spurious triggers and interrupts in the middle of ack_interrupt
\* are all covered.
NoLostInterrupt ==
    \A d \in Devices :
        (Waiting(d) /\ work[d] # {}) =>
            \/ d \in triggered
            \/ IF d \in Msi THEN d \in sent ELSE Vector[d] \notin masked

\* A driver is on the CPU and another device asserts the line its own is on.
Storm ==
    \E d, e \in Devices :
        d # e /\ Vector[d] = Vector[e] /\ running_task = Driver[d] /\ work[e] # {}

\* The devices have reported all they will: a device whose driver is kept busy
\* for ever is not the scheduler's doing.
FallQuiet == <>[][~Device]_vars

\* The documented purpose of schedule: CPU time is shared between all tasks
\* that are ready, and tasklets that need attention are polled.
SharesCpu ==
    FallQuiet =>
        /\ \A t \in Tasks : state[t] = "Ready" ~> running_task = t
        /\ \A k \in Tasklets : k \in woken ~> k \notin woken

\* Every ready task runs in the end, every woken tasklet is polled, and what a
\* device reports to a driver that has been started is read by it, although no
\* task is ever taken off the CPU.  The one exception is a driver that keeps
\* the CPU because of a device that shares its interrupt line.
ProgressUnlessStorm ==
    FallQuiet =>
        \/ <>[]Storm
        \/ /\ \A t \in Tasks : state[t] = "Ready" ~> running_task = t
           /\ \A k \in Tasklets : k \in woken ~> k \notin woken
           /\ \A d \in Devices : \A bit \in Bits :
                (bit \in work[d] /\ state[Driver[d]] # "none") ~> bit \notin work[d]

\* Type correctness of the composed state.
TypeOK ==
    /\ InterruptsTypeOK
    /\ pc \in [Devices -> {"idle", "poll", "yield", "interest", "status", "clear",
                           "ack", "unmask", "response"}]
    /\ status \in [Devices -> SUBSET Bits]

\* Why no interrupt is lost.  A masked line is one that its every driver has
\* been told of, or has taken note of and will unmask; a message is in the
\* local APIC until its driver, which waits for this one answer, is told.
LineInv ==
    /\ \A d \in Blocking : pc[d] \in {"idle", "poll", "ack", "unmask", "response"}
    /\ Booted => \A d \in Devices \ Msi :
         \/ Vector[d] \notin masked
         \/ d \in triggered
         \/ pc[d] \in {"status", "clear", "ack", "unmask"}
    /\ \A d \in Msi :
         /\ pc[d] = "idle" => work[d] = {}
         /\ (pc[d] = "poll" /\ work[d] # {}) => (d \in triggered \/ d \in sent)

\* The inductive invariant behind the proofs, for machines whose firmware
\* leaves no device enabled and on which drivers that wait for messages wait
\* inside the kernel.
IInv == SchedulerInv /\ TypeOK /\ BootInv /\ LineInv
=============================================================================
