---------------------------- MODULE DriverProofs ----------------------------
(***************************************************************************)
(* Proofs about the scheduler, about the interrupts that drivers wait for, *)
(* and about the bus that hands devices to the drivers: for any number of  *)
(* tasks, address spaces, devices, drivers and lines.                      *)
(*                                                                         *)
(* The argument for the bus: a device is registered by the driver of the   *)
(* one it hangs off when that driver starts to drive it, which happens     *)
(* once; and it is handed over only while it is unclaimed.                 *)
(***************************************************************************)
EXTENDS DriverTasks, PlatformBus, TLAPS

-----------------------------------------------------------------------------
\* The scheduler.

\* The kernel starts with no task at all.
LEMMA SchedulerInitInv == SchedulerInit => SchedulerInv
  BY TasksAssumption
     DEF SchedulerInit, SchedulerInv, SchedulerTypeOK, OnePlace, SpaceFollowsTask

\* add_task puts a task that is nowhere yet at the end of the ready queue.
LEMMA AddTaskInv ==
  ASSUME NEW t \in Tasks, SchedulerInv, AddTask(t)
  PROVE  SchedulerInv'
<1> USE TasksAssumption DEF SchedulerInv
<1>1. SchedulerTypeOK'
  BY DEF SchedulerTypeOK, AddTask
<1>2. OnePlace'
  <2>1. Len(ready_queue') = Len(ready_queue) + 1
        /\ ready_queue'[Len(ready_queue) + 1] = t
        /\ \A i \in DOMAIN ready_queue : ready_queue'[i] = ready_queue[i]
    BY DEF SchedulerTypeOK, AddTask
  <2>2. /\ state' = [state EXCEPT ![t] = "Ready"] /\ state[t] = "none"
        /\ running_task' = running_task /\ blocked_queue' = blocked_queue
    BY DEF AddTask
  <2>3. \A i \in DOMAIN ready_queue : ready_queue[i] \in Tasks /\ ready_queue[i] # t
    BY <2>2 DEF SchedulerTypeOK, OnePlace
  <2>4. DOMAIN ready_queue = 1 .. Len(ready_queue) /\ Len(ready_queue) \in Nat
        /\ DOMAIN ready_queue' = 1 .. Len(ready_queue) + 1
    BY <1>1, <2>1 DEF SchedulerTypeOK
  <2> QED
    BY <2>1, <2>2, <2>3, <2>4, SMTT(30) DEF SchedulerTypeOK, OnePlace
<1>3. SpaceFollowsTask'
  BY DEF SpaceFollowsTask, AddTask
<1> QED
  BY <1>1, <1>2, <1>3

\* The queue without its head, when the head is given the CPU.
LEMMA TailOfQueue ==
  ASSUME SchedulerInv, ready_queue # <<>>
  PROVE  /\ Head(ready_queue) = ready_queue[1] /\ Head(ready_queue) \in Tasks
         /\ state[Head(ready_queue)] = "Ready"
         /\ Tail(ready_queue) \in Seq(Tasks)
         /\ Len(ready_queue) \in Nat /\ Len(ready_queue) >= 1
         /\ Len(Tail(ready_queue)) = Len(ready_queue) - 1
         /\ \A i \in 1 .. Len(ready_queue) - 1 :
               /\ Tail(ready_queue)[i] = ready_queue[i + 1]
               /\ state[Tail(ready_queue)[i]] = "Ready"
               /\ Tail(ready_queue)[i] # Head(ready_queue)
  BY DEF SchedulerInv, SchedulerTypeOK, OnePlace

\* start_scheduling finds what it asserts, and gives the head the CPU.
LEMMA StartSchedulingInv ==
  ASSUME SchedulerInv, StartScheduling
  PROVE  SchedulerInv'
<1> DEFINE t == Head(ready_queue)
<1>0. ready_queue # <<>> /\ running_task = NoTask
  BY DEF StartScheduling
<1>1. /\ t = ready_queue[1] /\ t \in Tasks /\ state[t] = "Ready"
      /\ Tail(ready_queue) \in Seq(Tasks) /\ Len(ready_queue) \in Nat
      /\ Len(ready_queue) >= 1 /\ Len(Tail(ready_queue)) = Len(ready_queue) - 1
      /\ \A i \in 1 .. Len(ready_queue) - 1 :
            /\ Tail(ready_queue)[i] = ready_queue[i + 1]
            /\ state[Tail(ready_queue)[i]] = "Ready"
            /\ Tail(ready_queue)[i] # t
  BY <1>0, TailOfQueue
<1>2. Space[t] \in Spaces /\ space_state[Space[t]] = "NotActive"
  BY <1>0, <1>1 DEF SchedulerInv, SchedulerTypeOK, SpaceFollowsTask, Spaces
<1>3. /\ ready_queue' = Tail(ready_queue) /\ state' = [state EXCEPT ![t] = "Running"]
      /\ running_task' = t /\ page_table' = Space[t]
      /\ space_state' = [space_state EXCEPT ![Space[t]] = "Active"]
      /\ blocked_queue' = blocked_queue /\ panicked' = panicked /\ woken' = {}
  BY <1>1, <1>2 DEF StartScheduling, Tick
<1> HIDE DEF t
<1>4. SchedulerTypeOK'
  BY <1>1, <1>2, <1>3 DEF SchedulerInv, SchedulerTypeOK
<1>5. OnePlace'
  <2>1. \A i \in DOMAIN ready_queue : ready_queue[i] \in Tasks
    BY DEF SchedulerInv, SchedulerTypeOK
  <2>2. DOMAIN ready_queue = 1 .. Len(ready_queue)
        /\ DOMAIN ready_queue' = 1 .. Len(ready_queue) - 1
    BY <1>1, <1>3, <1>4 DEF SchedulerInv, SchedulerTypeOK
  <2>3. \A i \in DOMAIN ready_queue' : state'[ready_queue'[i]] = "Ready"
    BY <1>1, <1>3, <2>1, <2>2 DEF SchedulerInv, SchedulerTypeOK
  <2>4. \A i, j \in DOMAIN ready_queue' : ready_queue'[i] = ready_queue'[j] => i = j
    BY <1>1, <1>3, <2>2 DEF SchedulerInv, OnePlace
  <2>5. ASSUME NEW u \in Tasks, state'[u] = "Ready"
        PROVE  \E i \in DOMAIN ready_queue' : ready_queue'[i] = u
    <3>1. state[u] = "Ready" /\ u # t
      BY <1>1, <1>3, <2>5 DEF SchedulerInv, SchedulerTypeOK
    <3>2. PICK k \in DOMAIN ready_queue : ready_queue[k] = u
      BY <3>1 DEF SchedulerInv, OnePlace
    <3>3. k # 1
      BY <3>1, <3>2, <1>1
    <3>4. k - 1 \in DOMAIN ready_queue' /\ ready_queue'[k - 1] = u
      BY <1>1, <1>3, <2>2, <3>2, <3>3
    <3> QED
      BY <3>4
  <2>6. \A u \in Tasks : state[u] # "Running" /\ state[u] # "Blocked"
    BY <1>0, TasksAssumption DEF SchedulerInv, OnePlace
  <2>7. /\ state'[t] = "Running" /\ blocked_queue' = <<>>
        /\ \A u \in Tasks : u # t => state'[u] # "Running" /\ state'[u] # "Blocked"
    BY <1>1, <1>3, <2>6 DEF SchedulerInv, SchedulerTypeOK, OnePlace
  <2> QED
    BY <1>3, <2>3, <2>4, <2>5, <2>7 DEF OnePlace
<1>6. SpaceFollowsTask'
  BY <1>0, <1>1, <1>2, <1>3, TasksAssumption
     DEF SchedulerInv, SchedulerTypeOK, SpaceFollowsTask
<1> QED
  BY <1>4, <1>5, <1>6 DEF SchedulerInv

\* What a switch does, once the facts it asserts are known to hold: the head of
\* the ready queue runs, and the task that yields is queued behind the rest.
LEMMA SwitchStep ==
  ASSUME SchedulerInv, YieldSyscall, ready_queue # <<>>
  PROVE  /\ running_task \in Tasks /\ running_task # Head(ready_queue)
         /\ running_task' = Head(ready_queue)
         /\ state' = [state EXCEPT ![Head(ready_queue)] = "Running", ![running_task] = "Ready"]
         /\ ready_queue' = Append(Tail(ready_queue), running_task)
         /\ blocked_queue' = blocked_queue /\ panicked' = panicked /\ woken' = {}
         /\ Space[running_task] \in Spaces /\ Space[Head(ready_queue)] \in Spaces
         /\ page_table' = Space[Head(ready_queue)]
         /\ space_state' = [[space_state EXCEPT ![Space[running_task]] = "NotActive"]
                              EXCEPT ![Space[Head(ready_queue)]] = "Active"]
<1> DEFINE c == running_task
           n == Head(ready_queue)
<1>1. n \in Tasks /\ state[n] = "Ready"
  BY TailOfQueue
<1>2. c \in Tasks /\ state[c] = "Running"
  BY DEF YieldSyscall, Schedule, SchedulerInv, SchedulerTypeOK, OnePlace
<1>3. SwitchTo(c, n, "Ready") /\ woken' = {}
  BY DEF YieldSyscall, Schedule, Tick
<1>4. /\ running_task' = n
      /\ state' = [state EXCEPT ![n] = "Running", ![c] = "Ready"]
      /\ Requeue(c, "Ready")
      /\ SwitchSpaces(Space[c], Space[n])
  BY <1>1, <1>2, <1>3 DEF SwitchTo
<1>5. ready_queue' = Append(Tail(ready_queue), c) /\ blocked_queue' = blocked_queue
  BY <1>4 DEF Requeue
<1>6. Space[c] \in Spaces /\ Space[n] \in Spaces
  BY <1>1, <1>2 DEF Spaces
<1>7. /\ space_state[Space[c]] = "Active"
      /\ [space_state EXCEPT ![Space[c]] = "NotActive"][Space[n]] = "NotActive"
  BY <1>2, <1>6, TasksAssumption DEF SchedulerInv, SchedulerTypeOK, SpaceFollowsTask
<1>8. /\ page_table' = Space[n] /\ panicked' = panicked
      /\ space_state' = [[space_state EXCEPT ![Space[c]] = "NotActive"]
                          EXCEPT ![Space[n]] = "Active"]
  BY <1>4, <1>7, Zenon DEF SwitchSpaces
<1> QED
  BY <1>1, <1>2, <1>3, <1>4, <1>5, <1>6, <1>8

\* The queue a switch leaves: every task that waited is one place further on,
\* and the one that yielded is the last.
LEMMA SwitchQueue ==
  ASSUME SchedulerInv, YieldSyscall, ready_queue # <<>>
  PROVE  /\ ready_queue' \in Seq(Tasks) /\ Len(ready_queue) \in Nat
         /\ Len(ready_queue) >= 1
         /\ DOMAIN ready_queue = 1 .. Len(ready_queue)
         /\ DOMAIN ready_queue' = 1 .. Len(ready_queue)
         /\ ready_queue'[Len(ready_queue)] = running_task
         /\ \A i \in 1 .. Len(ready_queue) - 1 : ready_queue'[i] = ready_queue[i + 1]
<1> DEFINE tail == Tail(ready_queue)
<1>1. /\ tail \in Seq(Tasks) /\ Len(ready_queue) \in Nat /\ Len(ready_queue) >= 1
      /\ Len(tail) = Len(ready_queue) - 1
      /\ \A i \in 1 .. Len(ready_queue) - 1 : tail[i] = ready_queue[i + 1]
  BY TailOfQueue
<1>2. ready_queue' = Append(tail, running_task) /\ running_task \in Tasks
  BY SwitchStep
<1>3. DOMAIN ready_queue = 1 .. Len(ready_queue)
  BY DEF SchedulerInv, SchedulerTypeOK
<1> HIDE DEF tail
<1>4. /\ ready_queue' \in Seq(Tasks) /\ Len(ready_queue') = Len(tail) + 1
      /\ ready_queue'[Len(tail) + 1] = running_task
      /\ \A i \in 1 .. Len(tail) : ready_queue'[i] = tail[i]
  BY <1>1, <1>2
<1> QED
  BY <1>1, <1>3, <1>4

\* yield and schedule: with no other task ready nothing changes hands.
LEMMA YieldInv ==
  ASSUME SchedulerInv, YieldSyscall
  PROVE  SchedulerInv'
<1>1. CASE ready_queue = <<>>
  BY <1>1 DEF YieldSyscall, Schedule, Tick, SchedulerInv, SchedulerTypeOK, OnePlace,
              SpaceFollowsTask
<1>2. CASE ready_queue # <<>>
  <2> DEFINE c == running_task
             n == Head(ready_queue)
             L == Len(ready_queue)
  <2>1. /\ c \in Tasks /\ c # n /\ running_task' = n
        /\ state' = [state EXCEPT ![n] = "Running", ![c] = "Ready"]
        /\ blocked_queue' = blocked_queue /\ panicked' = panicked /\ woken' = {}
        /\ Space[c] \in Spaces /\ Space[n] \in Spaces /\ page_table' = Space[n]
        /\ space_state' = [[space_state EXCEPT ![Space[c]] = "NotActive"]
                             EXCEPT ![Space[n]] = "Active"]
    BY <1>2, SwitchStep
  <2>2. /\ ready_queue' \in Seq(Tasks) /\ L \in Nat /\ L >= 1
        /\ DOMAIN ready_queue = 1 .. L /\ DOMAIN ready_queue' = 1 .. L
        /\ ready_queue'[L] = c
        /\ \A i \in 1 .. L - 1 : ready_queue'[i] = ready_queue[i + 1]
    BY <1>2, SwitchQueue
  <2>3. n = ready_queue[1] /\ n \in Tasks
    BY <1>2, TailOfQueue
  <2> HIDE DEF c, n, L
  <2>4. SchedulerTypeOK'
    BY <2>1, <2>2, <2>3 DEF SchedulerInv, SchedulerTypeOK
  <2>5. /\ state'[n] = "Running" /\ state'[c] = "Ready"
        /\ \A u \in Tasks : u # n /\ u # c => state'[u] = state[u]
    BY <2>1, <2>3 DEF SchedulerInv, SchedulerTypeOK
  <2>6. \A i \in 1 .. L : /\ ready_queue[i] \in Tasks
                          /\ state[ready_queue[i]] = "Ready" /\ ready_queue[i] # c
    <3>1. state[c] = "Running"
      BY <2>1, TasksAssumption DEF SchedulerInv, OnePlace, c
    <3>2. ready_queue \in Seq(Tasks) /\ \A i \in 1 .. L : state[ready_queue[i]] = "Ready"
      BY <2>2, Zenon DEF SchedulerInv, SchedulerTypeOK, OnePlace
    <3> QED
      BY <2>2, <3>1, <3>2
  <2>7. \A i, j \in 1 .. L : ready_queue[i] = ready_queue[j] => i = j
    BY <2>2 DEF SchedulerInv, OnePlace
  <2>8. \A i \in 1 .. L : state'[ready_queue'[i]] = "Ready"
    BY <2>2, <2>3, <2>5, <2>6, <2>7
  <2>9. \A i, j \in 1 .. L : ready_queue'[i] = ready_queue'[j] => i = j
    BY <2>2, <2>6, <2>7
  <2>10. ASSUME NEW u \in Tasks, state'[u] = "Ready"
         PROVE  \E i \in 1 .. L : ready_queue'[i] = u
    <3>1. CASE u = c
      BY <3>1, <2>2
    <3>2. CASE u # c
      <4>1. u # n /\ state[u] = "Ready"
        BY <2>5, <2>10, <3>2
      <4>2. PICK k \in 1 .. L : ready_queue[k] = u
        BY <4>1, <2>2 DEF SchedulerInv, OnePlace
      <4>3. k - 1 \in 1 .. L - 1 /\ ready_queue'[k - 1] = u
        BY <2>2, <2>3, <4>1, <4>2
      <4> QED
        BY <4>3, <2>2
    <3> QED
      BY <3>1, <3>2
  <2>11. /\ blocked_queue' = <<>>
         /\ \A u \in Tasks : state'[u] # "Blocked" /\ (state'[u] = "Running" => u = n)
    BY <2>1, <2>5, ZenonT(30) DEF SchedulerInv, OnePlace, c
  <2>12. OnePlace'
    BY <2>1, <2>2, <2>5, <2>8, <2>9, <2>10, <2>11, ZenonT(30) DEF OnePlace
  <2>13. SpaceFollowsTask'
    <3>1. \A s \in Spaces : space_state[s] = "Active" <=> s = Space[c]
      BY <2>1, TasksAssumption DEF SchedulerInv, SpaceFollowsTask, c
    <3>2. \A s \in Spaces : space_state'[s] = "Active" <=> s = Space[n]
      BY <2>1, <3>1 DEF SchedulerInv, SchedulerTypeOK
    <3> QED
      BY <2>1, <2>3, <3>2, TasksAssumption, Zenon DEF SchedulerInv, SpaceFollowsTask
  <2> QED
    BY <2>4, <2>12, <2>13 DEF SchedulerInv
<1> QED
  BY <1>1, <1>2

\* Every step of the scheduler keeps its invariant.
LEMMA SchedulerNextInv ==
  ASSUME SchedulerInv, [SchedulerNext]_svars
  PROVE  SchedulerInv'
<1>1. CASE LoadUserspace
  BY <1>1, AddTaskInv, TasksAssumption DEF LoadUserspace
<1>2. CASE \E t \in Tasks : SpawnTask(t)
  BY <1>2, AddTaskInv DEF SpawnTask
<1>3. CASE StartScheduling
  BY <1>3, StartSchedulingInv
<1>4. CASE YieldSyscall
  BY <1>4, YieldInv
<1>5. CASE \E tasklet \in Tasklets : Wake(tasklet)
  BY <1>5 DEF Wake, SchedulerInv, SchedulerTypeOK, OnePlace, SpaceFollowsTask
<1>6. CASE UNCHANGED svars
  BY <1>6, Zenon DEF svars, SchedulerInv, SchedulerTypeOK, OnePlace, SpaceFollowsTask
<1> QED
  BY <1>1, <1>2, <1>3, <1>4, <1>5, <1>6 DEF SchedulerNext

\* No step lets a waiting task be overtaken.
LEMMA NextKeepsOrder ==
  ASSUME SchedulerInv, [SchedulerNext]_svars,
         NEW i \in DOMAIN ready_queue, svars' # svars
  PROVE  \/ i = 1 /\ running_task' = ready_queue[i]
         \/ running_task' = running_task /\ i \in DOMAIN ready_queue'
            /\ ready_queue'[i] = ready_queue[i]
         \/ running_task' # running_task /\ i > 1
            /\ i - 1 \in DOMAIN ready_queue' /\ ready_queue'[i - 1] = ready_queue[i]
<1>0. ready_queue # <<>> /\ i \in 1 .. Len(ready_queue) /\ Len(ready_queue) \in Nat
  BY DEF SchedulerInv, SchedulerTypeOK
<1>1. ASSUME NEW t \in Tasks, AddTask(t)
      PROVE  running_task' = running_task /\ i \in DOMAIN ready_queue'
             /\ ready_queue'[i] = ready_queue[i]
  BY <1>0, <1>1 DEF AddTask, SchedulerInv, SchedulerTypeOK
<1>2. CASE StartScheduling
  <2>1. /\ running_task = NoTask
        /\ Head(ready_queue) \in Tasks /\ state[Head(ready_queue)] = "Ready"
        /\ Head(ready_queue) = ready_queue[1]
    BY <1>0, <1>2, TailOfQueue DEF StartScheduling
  <2>2. space_state[Space[Head(ready_queue)]] = "NotActive"
    BY <2>1 DEF SchedulerInv, SchedulerTypeOK, SpaceFollowsTask, Spaces
  <2>3. running_task' = ready_queue[1] /\ ready_queue' = Tail(ready_queue)
    BY <1>2, <2>1, <2>2 DEF StartScheduling
  <2>4. running_task' # running_task
    BY <2>1, <2>3, TasksAssumption
  <2>5. i > 1 => i - 1 \in DOMAIN ready_queue' /\ ready_queue'[i - 1] = ready_queue[i]
    BY <1>0, <2>3 DEF SchedulerInv, SchedulerTypeOK
  <2> QED
    BY <1>0, <2>3, <2>4, <2>5
<1>3. CASE YieldSyscall
  <2>1. running_task' = ready_queue[1] /\ running_task' # running_task
    BY <1>0, <1>3, SwitchStep, TailOfQueue
  <2>2. i > 1 => i - 1 \in DOMAIN ready_queue' /\ ready_queue'[i - 1] = ready_queue[i]
    BY <1>0, <1>3, SwitchQueue
  <2> QED
    BY <1>0, <2>1, <2>2
<1>4. CASE \E tasklet \in Tasklets : Wake(tasklet)
  BY <1>4 DEF Wake
<1>5. CASE LoadUserspace
  BY <1>1, <1>5, TasksAssumption DEF LoadUserspace
<1>6. CASE \E t \in Tasks : SpawnTask(t)
  BY <1>1, <1>6 DEF SpawnTask
<1> QED
  BY <1>2, <1>3, <1>4, <1>5, <1>6 DEF SchedulerNext

\* No task is ever lost, queued twice or left without its address space, by any
\* number of tasks that spawn, yield and share address spaces.
THEOREM TasksKept == SchedulerSpec => []SchedulerInv
<1> QED
  BY SchedulerInitInv, SchedulerNextInv, PTL DEF SchedulerSpec

\* The ready queue is fair: a task waits for those before it and no others.
THEOREM QueueIsFair == SchedulerSpec => NoOvertaking
<1>1. ASSUME SchedulerInv, [SchedulerNext]_svars
      PROVE  [\A t \in Tasks : \A i \in DOMAIN ready_queue :
                ready_queue[i] = t =>
                   \/ i = 1 /\ running_task' = t
                   \/ running_task' = running_task /\ i \in DOMAIN ready_queue'
                      /\ ready_queue'[i] = t
                   \/ running_task' # running_task /\ i > 1
                      /\ i - 1 \in DOMAIN ready_queue' /\ ready_queue'[i - 1] = t]_svars
  BY <1>1, NextKeepsOrder
<1> QED
  BY <1>1, TasksKept, PTL DEF SchedulerSpec, NoOvertaking

\* What drivers, devices, interrupts and enumeration do to the scheduler is
\* nothing but what its own specification allows.
THEOREM ImplementsScheduler == Spec => SchedulerSpec
<1>1. Init => SchedulerInit
  BY DEF Init
<1>2. ASSUME [Next]_vars
      PROVE  [SchedulerNext]_svars
  <2>1. CASE UNCHANGED vars
    BY <2>1 DEF vars
  <2>2. CASE Boot
    BY <2>2 DEF Boot, SchedulerNext
  <2>3. CASE OtherTask
    BY <2>3 DEF OtherTask, SchedulerNext
  <2>4. ASSUME NEW d \in Devices, DriverStep(d)
        PROVE  YieldSyscall \/ UNCHANGED svars
    BY <2>4 DEF DriverStep, PollInterrupt, EnterLoopYield, ReactorPoll, MakeRequest,
                WaitForInterrupt, ReadStatus, ClearStatus, Ack, ReadResponse
  <2>5. CASE Device
    BY <2>5 DEF Device
  <2>6. CASE \E v \in Vectors : Interrupt(v)
    BY <2>6 DEF Interrupt
  <2>7. CASE WakeTasklet
    BY <2>7 DEF WakeTasklet, SchedulerNext
  <2> QED
    BY <1>2, <2>1, <2>2, <2>3, <2>4, <2>5, <2>6, <2>7 DEF Next, CpuStep, SchedulerNext
<1> QED
  BY <1>1, <1>2, PTL DEF Spec, SchedulerSpec

\* In the whole system, too, every task is in one place.
THEOREM NoTaskLost == Spec => []OnePlace
<1>1. SchedulerInv => OnePlace
  BY DEF SchedulerInv
<1> QED
  BY <1>1, TasksKept, ImplementsScheduler, PTL

\* In the whole system, too, the address space is that of the running task, and
\* no assertion of the scheduler fails.
THEOREM RightAddressSpace == Spec => []SpaceFollowsTask
<1>1. SchedulerInv => SpaceFollowsTask
  BY DEF SchedulerInv
<1> QED
  BY <1>1, TasksKept, ImplementsScheduler, PTL

-----------------------------------------------------------------------------
\* The interrupts.

\* A device is told a vector of the range kept for devices.
LEMMA VectorOf == \A d \in Devices : Vector[d] \in Vectors
  BY DEF Vectors

\* A device that uses messages shares its vector with no other.
LEMMA MessageAlone ==
  \A d \in Msi : d \in Devices /\ \A e \in Devices : Vector[e] = Vector[d] => e = d
<1> SUFFICES ASSUME NEW d \in Msi, NEW e \in Devices, Vector[e] = Vector[d]
             PROVE  e = d
  BY DevicesAssumption
<1>1. On(Vector[d]) = {d} /\ e \in On(Vector[d])
  BY DevicesAssumption DEF On
<1> QED
  BY <1>1

\* Each step of the configuration of a device at boot.
LEMMA BootSteps ==
  ASSUME InterruptsTypeOK, BootInv,
         BootFind \/ BootAllocate \/ BootLockRoutes \/ BootRoute \/ BootEnable
  PROVE  InterruptsTypeOK' /\ BootInv'
<1> DEFINE c == configuring
           v == Vector[configuring]
<1> USE DEF Devices
<1>1. c \in Devices /\ v \in Vectors /\ ~Booted /\ NumDevices \in Nat
      /\ Msi \subseteq Devices
  BY DevicesAssumption, VectorOf
     DEF InterruptsTypeOK, Booted, BootFind, BootAllocate, BootLockRoutes, BootRoute,
         BootEnable
<1>2. CASE BootFind
  <2>1. routing[v] # {} => \A d \in Devices \ Msi : d = c => v \notin masked
    <3> SUFFICES ASSUME routing[v] # {}, c \notin Msi
                 PROVE  v \notin masked
      OBVIOUS
    <3>1. PICK e \in routing[v] : TRUE
      OBVIOUS
    <3>2. e \in Devices /\ Vector[e] = v /\ e < c
      BY <1>1, <1>2, <3>1, Zenon DEF InterruptsTypeOK, BootInv, Routed, BootFind
    <3>3. e \notin Msi
      BY <1>1, <3>2, MessageAlone DEF InterruptsTypeOK
    <3> QED
      BY <1>1, <3>2, <3>3, Zenon DEF BootInv
  <2>2. InterruptsTypeOK'
    BY <1>2, Zenon DEF BootFind, InterruptsTypeOK
  <2> QED
    BY <1>1, <1>2, <2>1, <2>2, Zenon DEF BootFind, BootInv, Booted, Routed, InterruptsTypeOK
<1>3. CASE BootAllocate
  <2>1. /\ masked' \subseteq masked /\ (c \notin Msi => v \notin masked')
        /\ controller' = FALSE /\ phase' = "lock"
        /\ UNCHANGED <<configuring, routes, routing, work, sent, triggered>>
    BY <1>3 DEF BootAllocate
  <2>2. InterruptsTypeOK'
    BY <2>1, Zenon DEF InterruptsTypeOK
  <2> QED
    BY <1>1, <1>3, <2>1, <2>2 DEF BootAllocate, InterruptsTypeOK, BootInv, Booted, Routed
<1>4. CASE BootLockRoutes
  BY <1>1, <1>4, Zenon DEF BootLockRoutes, InterruptsTypeOK, BootInv, Booted, Routed
<1>5. CASE BootRoute
  <2>1. InterruptsTypeOK'
    <3>1. configuring' \in 1 .. NumDevices + 1 /\ phase' \in {"find", "enable"}
      BY <1>1, <1>5 DEF BootRoute, InterruptsTypeOK
    <3>2. routing' \in [Vectors -> SUBSET Devices]
      BY <1>1, <1>5, Zenon DEF BootRoute, InterruptsTypeOK
    <3> QED
      BY <1>5, <3>1, <3>2, ZenonT(30) DEF BootRoute, InterruptsTypeOK
  <2>2. \A d \in Devices : /\ Routed(d) <=> d < c
                           /\ (d < configuring' \/ (d = configuring' /\ phase' = "enable"))
                                <=> (d < c \/ d = c)
    BY <1>1, <1>5 DEF BootRoute, InterruptsTypeOK, Routed
  <2>3. \A u \in Vectors : routing'[u] = IF u = v THEN routing[u] \cup {c} ELSE routing[u]
    BY <1>1, <1>5, ZenonT(30) DEF BootRoute, InterruptsTypeOK
  <2>4. \A d \in Devices : Routed(d)' => d \in routing'[Vector[d]]
    <3>1. \A d \in Devices : d < c \/ d = c => d \in routing'[Vector[d]]
      <4>1. \A d \in Devices : d < c => d \in routing[Vector[d]]
        BY <2>2, Zenon DEF BootInv
      <4> HIDE DEF Devices, c, v
      <4> QED
        BY <4>1, <2>3, VectorOf, Zenon DEF c, v
    <3> QED
      BY <2>2, <3>1 DEF Routed
  <2>5. \A u \in Vectors : \A d \in routing'[u] : Vector[d] = u /\ Routed(d)'
    <3>1. \A u \in Vectors : \A d \in routing'[u] :
             d \in Devices /\ Vector[d] = u /\ (d < c \/ d = c)
      <4>1. \A u \in Vectors : \A d \in routing[u] : d \in Devices /\ Vector[d] = u /\ d < c
        <5>1. \A u \in Vectors : \A d \in routing[u] : d \in Devices
          BY DEF InterruptsTypeOK
        <5> QED
          BY <2>2, <5>1 DEF BootInv
      <4> SUFFICES ASSUME NEW u \in Vectors, NEW d \in routing'[u]
                   PROVE  d \in Devices /\ Vector[d] = u /\ (d < c \/ d = c)
        OBVIOUS
      <4>2. d \in routing[u] \/ (u = v /\ d = c)
        BY <2>3, Zenon
      <4> QED
        BY <1>1, <4>1, <4>2
    <3> QED
      BY <2>2, <3>1, Zenon DEF Routed
  <2>6. /\ Booted' => phase' = "find"
        /\ ~controller' /\ ~routes' /\ phase' \in {"find", "enable"}
        /\ sent' = {} /\ \A d \in Devices : work'[d] = {}
    BY <1>1, <1>5, Zenon DEF BootRoute, InterruptsTypeOK, BootInv, Booted
  <2>7. \A d \in Msi : d < configuring' => Vector[d] \notin masked'
    BY <1>1, <1>5 DEF BootRoute, InterruptsTypeOK, BootInv
  <2>8. \A d \in Devices \ Msi : d < configuring' => Vector[d] \notin masked'
    BY <1>1, <1>5 DEF BootRoute, InterruptsTypeOK, BootInv
  <2>9. \A d \in Devices \ Msi : d = configuring' => phase' \notin {"lock", "route"}
    BY <2>6
  <2> QED
    BY <2>1, <2>4, <2>5, <2>6, <2>7, <2>8, <2>9, Zenon DEF BootInv
<1>6. CASE BootEnable
  BY <1>1, <1>6 DEF BootEnable, InterruptsTypeOK, BootInv, Booted, Routed
<1> QED
  BY <1>2, <1>3, <1>4, <1>5, <1>6

\* Devices and the handler, once devices have something to report only after
\* enumeration.
LEMMA DeviceSteps ==
  ASSUME Early = {}, InterruptsTypeOK, BootInv,
         \/ \E d \in Devices, bit \in Bits : Raise(d, bit)
         \/ \E v \in Vectors : HandlePlatformInterrupt(v)
  PROVE  InterruptsTypeOK' /\ BootInv'
<1>1. ASSUME NEW d \in Devices, NEW bit \in Bits, Raise(d, bit)
      PROVE  InterruptsTypeOK' /\ BootInv'
  BY <1>1 DEF Raise, boot, InterruptsTypeOK, BootInv, Booted, Routed
<1>2. ASSUME NEW v \in Vectors, HandlePlatformInterrupt(v)
      PROVE  InterruptsTypeOK' /\ BootInv'
  <2>0. Booted
    BY <1>2, ZenonT(30) DEF HandlePlatformInterrupt, Asserted, On, BootInv
  <2>1. InterruptsTypeOK'
    BY <1>2, ZenonT(30) DEF HandlePlatformInterrupt, Deliver, boot, InterruptsTypeOK
  <2>2. \A d \in Msi : Vector[d] \in masked' => Vector[d] \in masked
    BY <1>2, ZenonT(30) DEF HandlePlatformInterrupt, Deliver
  <2> QED
    BY <1>2, <2>0, <2>1, <2>2, Zenon DEF HandlePlatformInterrupt, boot, BootInv, Booted, Routed
<1> QED
  BY <1>1, <1>2

\* What system calls and drivers do to the interrupts.
LEMMA DriverSteps ==
  ASSUME InterruptsTypeOK, BootInv, NEW d \in Devices,
         \/ TakeTrigger(d) \/ RearmClear(d) \/ RearmInterrupt(d)
         \/ \E bits \in SUBSET Bits : WriteStatus(d, bits)
  PROVE  InterruptsTypeOK' /\ BootInv'
<1>1. CASE TakeTrigger(d)
  BY <1>1, Zenon DEF TakeTrigger, boot, InterruptsTypeOK, BootInv, Booted, Routed
<1>2. CASE RearmClear(d)
  BY <1>2, Zenon DEF RearmClear, boot, InterruptsTypeOK, BootInv, Booted, Routed
<1>3. CASE RearmInterrupt(d)
  BY <1>3, Zenon DEF RearmInterrupt, boot, InterruptsTypeOK, BootInv, Booted, Routed
<1>4. ASSUME NEW bits \in SUBSET Bits, WriteStatus(d, bits)
      PROVE  InterruptsTypeOK' /\ BootInv'
  BY <1>4 DEF WriteStatus, boot, InterruptsTypeOK, BootInv, Booted, Routed
<1> QED
  BY <1>1, <1>2, <1>3, <1>4

\* Boot ends with every line open; nothing has been reported by then.
LEMMA BootLine ==
  ASSUME TypeOK, BootInv, LineInv, Boot
  PROVE  LineInv'
<1> USE DEF Devices
<1>1. CASE BootFind \/ BootAllocate \/ BootLockRoutes \/ BootRoute \/ BootEnable
  <2>1. /\ pc' = pc /\ work' = work /\ triggered' = triggered /\ sent' = sent
        /\ ~Booted /\ masked' \subseteq masked
    BY <1>1, SMTT(30) DEF Boot, Booted, dvars, BootFind, BootAllocate, BootLockRoutes, BootRoute,
                BootEnable, LoadUserspace, StartScheduling, ivars
  <2>2. configuring \in Devices /\ NumDevices \in Nat
    BY <2>1, DevicesAssumption DEF TypeOK, InterruptsTypeOK, Booted
  <2>3. ASSUME Booted', NEW d \in Devices \ Msi
        PROVE  Vector[d] \notin masked'
    <3>1. CASE BootRoute
      BY <2>1, <2>2, <2>3, <3>1 DEF BootRoute, BootInv, Booted
    <3>2. CASE BootEnable
      BY <2>1, <2>2, <2>3, <3>2 DEF BootEnable, BootInv, Booted
    <3> QED
      BY <1>1, <2>1, <2>3, <3>1, <3>2, Zenon
         DEF Booted, BootFind, BootAllocate, BootLockRoutes
  <2> QED
    BY <2>1, <2>3, Zenon DEF LineInv
<1>2. CASE UNCHANGED <<ivars, dvars>>
  BY <1>2, Zenon DEF LineInv, ivars, dvars, Booted
<1> QED
  BY <1>1, <1>2 DEF Boot

\* A device that reports to a driver which waits for a message sends it.
LEMMA DeviceLine ==
  ASSUME Early = {}, Msi \subseteq Blocking, TypeOK, BootInv, LineInv, Device
  PROVE  LineInv'
<1>1. PICK d \in Devices, bit \in Bits :
        Raise(d, bit) /\ (d \in Blocking => pc[d] = "poll" /\ work[d] = {})
  BY Zenon DEF Device
<1>2. /\ pc' = pc /\ triggered' = triggered /\ masked' = masked
      /\ configuring' = configuring /\ sent \subseteq sent'
      /\ work' = [work EXCEPT ![d] = @ \cup {bit}] /\ Booted
  BY <1>1, ZenonT(30) DEF Raise, boot, Device, dvars
<1>3. ASSUME NEW e \in Msi
      PROVE  /\ pc'[e] = "idle" => work'[e] = {}
             /\ (pc'[e] = "poll" /\ work'[e] # {}) => (e \in triggered' \/ e \in sent')
  <2>0. e \in Devices
    BY DevicesAssumption
  <2>1. CASE e = d
    <3>1. Vector[d] \notin masked
      BY <1>2, <2>1, DevicesAssumption DEF BootInv, Booted, Devices, TypeOK, InterruptsTypeOK
    <3>2. d \in sent'
      BY <1>1, <2>1, <3>1, Zenon DEF Raise
    <3> QED
      BY <1>1, <1>2, <2>1, <3>2
  <2>2. CASE e # d
    <3>1. work'[e] = work[e]
      BY <1>2, <2>0, <2>2 DEF TypeOK, InterruptsTypeOK
    <3> QED
      BY <1>2, <3>1, Zenon DEF LineInv
  <2> QED
    BY <2>1, <2>2, Zenon
<1> QED
  BY <1>2, <1>3, Zenon DEF LineInv, Booted

\* The handler tells every driver on the line before it leaves it masked.
LEMMA InterruptLine ==
  ASSUME TypeOK, BootInv, LineInv, NEW v \in Vectors, Interrupt(v)
  PROVE  LineInv'
<1>1. CASE UNCHANGED <<triggered, masked, sent>>
  BY <1>1, ZenonT(30) DEF Interrupt, HandlePlatformInterrupt, boot, dvars, LineInv, Booted
<1>2. CASE Deliver(v)
  <2>0. Booted
    BY ZenonT(30) DEF Interrupt, HandlePlatformInterrupt, Asserted, On, BootInv
  <2>1. pc' = pc /\ work' = work /\ configuring' = configuring
    BY Zenon DEF Interrupt, HandlePlatformInterrupt, boot, dvars
  <2>2. \A d \in Devices : Vector[d] = v => d \in triggered'
    BY <1>2, <2>0, DevicesAssumption, SMTT(30)
       DEF Deliver, BootInv, Routed, Booted, Devices, TypeOK, InterruptsTypeOK
  <2>3. triggered \subseteq triggered' /\ masked' \subseteq masked \cup {v}
        /\ sent' = sent \ On(v)
    BY <1>2, Zenon DEF Deliver
  <2>4. \A d \in Msi : d \in sent => (d \in triggered' \/ d \in sent')
    BY <2>2, <2>3, DevicesAssumption DEF On
  <2>5. \A d \in Devices \ Msi :
          \/ Vector[d] \notin masked' \/ d \in triggered'
          \/ pc[d] \in {"status", "clear", "ack", "unmask"}
    BY <2>0, <2>2, <2>3, Zenon DEF LineInv
  <2> QED
    BY <2>1, <2>3, <2>4, <2>5, Zenon DEF LineInv
<1> QED
  BY <1>1, <1>2, ZenonT(30) DEF Interrupt, HandlePlatformInterrupt

\* A driver's step touches only its own place, its own flag and register, and
\* masks no line: it is enough to look at its own device.
LEMMA OwnDeviceOnly ==
  ASSUME TypeOK, LineInv, NEW d \in Devices,
         configuring' = configuring, sent' = sent,
         masked' \subseteq masked, triggered \ {d} \subseteq triggered',
         \A e \in Devices : e # d => pc'[e] = pc[e] /\ work'[e] = work[e],
         d \in Blocking => pc'[d] \in {"idle", "poll", "ack", "unmask", "response"},
         (Booted /\ d \notin Msi) =>
            \/ Vector[d] \notin masked' \/ d \in triggered'
            \/ pc'[d] \in {"status", "clear", "ack", "unmask"},
         d \in Msi =>
            /\ pc'[d] = "idle" => work'[d] = {}
            /\ (pc'[d] = "poll" /\ work'[d] # {}) => (d \in triggered' \/ d \in sent')
  PROVE  LineInv'
<1>1. \A e \in Blocking : pc'[e] \in {"idle", "poll", "ack", "unmask", "response"}
  BY DriversAssumption, Zenon DEF LineInv
<1>2. Booted => \A e \in Devices \ Msi :
         \/ Vector[e] \notin masked' \/ e \in triggered'
         \/ pc'[e] \in {"status", "clear", "ack", "unmask"}
  BY Zenon DEF LineInv
<1>3. ASSUME NEW e \in Msi
      PROVE  /\ pc'[e] = "idle" => work'[e] = {}
             /\ (pc'[e] = "poll" /\ work'[e] # {}) => (e \in triggered' \/ e \in sent')
  BY DevicesAssumption, Zenon DEF LineInv
<1> QED
  BY <1>1, <1>2, <1>3, Zenon DEF LineInv, Booted

\* A driver is always at one of the places in its code.
LEMMA DriverPlaces ==
  ASSUME TypeOK, NEW d \in Devices, DriverStep(d)
  PROVE  /\ pc' \in [Devices -> {"idle", "poll", "yield", "interest", "status", "clear",
                                 "ack", "unmask", "response"}]
         /\ status' \in [Devices -> SUBSET Bits]
<1>1. \/ pc' = pc
      \/ \E w \in {"idle", "poll", "yield", "interest", "status", "clear", "ack",
                   "unmask", "response"} : pc' = [pc EXCEPT ![d] = w]
  BY DEF DriverStep, PollInterrupt, EnterLoopYield, ReactorPoll, MakeRequest, Goto,
         WaitForInterrupt, ReadStatus, ClearStatus, Ack, ReadResponse
<1>2. status' = status \/ status' = [status EXCEPT ![d] = work[d]]
  BY DEF DriverStep, PollInterrupt, EnterLoopYield, ReactorPoll, MakeRequest,
         WaitForInterrupt, ReadStatus, ClearStatus, Ack, ReadResponse
<1> QED
  BY <1>1, <1>2 DEF TypeOK, InterruptsTypeOK

\* Every step of a driver.
LEMMA DriverLine ==
  ASSUME Msi \subseteq Blocking, TypeOK, LineInv, NEW d \in Devices, DriverStep(d)
  PROVE  LineInv'
<1> DEFINE Places == {"idle", "poll", "yield", "interest", "status", "clear", "ack",
                      "unmask", "response"}
           Keeps(w) == /\ pc' = [pc EXCEPT ![d] = w] /\ w \in Places
                       /\ configuring' = configuring /\ sent' = sent
                       /\ masked' \subseteq masked /\ triggered \ {d} \subseteq triggered'
                       /\ \A e \in Devices : e # d => work'[e] = work[e]
<1>0. /\ pc \in [Devices -> Places] /\ status \in [Devices -> SUBSET Bits]
      /\ work \in [Devices -> SUBSET Bits]
      /\ d \in Blocking => pc[d] \in {"idle", "poll", "ack", "unmask", "response"}
      /\ (Booted /\ d \notin Msi) =>
            \/ Vector[d] \notin masked \/ d \in triggered
            \/ pc[d] \in {"status", "clear", "ack", "unmask"}
      /\ d \in Msi => /\ pc[d] = "idle" => work[d] = {}
                      /\ (pc[d] = "poll" /\ work[d] # {}) => (d \in triggered \/ d \in sent)
  BY Zenon DEF TypeOK, InterruptsTypeOK, LineInv
<1>1. ASSUME NEW w, Keeps(w),
             d \in Blocking => w \in {"idle", "poll", "ack", "unmask", "response"},
             (Booted /\ d \notin Msi) =>
                \/ Vector[d] \notin masked' \/ d \in triggered'
                \/ w \in {"status", "clear", "ack", "unmask"},
             d \in Msi =>
                /\ w = "idle" => work'[d] = {}
                /\ (w = "poll" /\ work'[d] # {}) => (d \in triggered' \/ d \in sent')
      PROVE  LineInv'
  <2>1. pc'[d] = w /\ \A e \in Devices : e # d => pc'[e] = pc[e]
    BY <1>0, <1>1, Zenon
  <2> QED
    BY <1>1, <2>1, OwnDeviceOnly, Zenon
<1>2. CASE /\ UNCHANGED ivars
           /\ \E w \in {"poll", "yield", "interest"} :
                 Goto(d, w) /\ d \notin Blocking /\ pc[d] \in {"poll", "yield", "interest"}
  <2>1. PICK w \in {"poll", "yield", "interest"} :
          Goto(d, w) /\ d \notin Blocking /\ pc[d] \in {"poll", "yield", "interest"}
    BY <1>2
  <2>2. Keeps(w) /\ masked' = masked /\ triggered' = triggered
    BY <1>2, <2>1, ZenonT(30) DEF Goto, ivars
  <2> QED
    BY <1>0, <1>1, <1>2, <2>1, <2>2, ZenonT(30)
<1>3. CASE PollInterrupt(d)
  <2>1. CASE TakeTrigger(d) /\ Goto(d, "status")
    <3>1. Keeps("status") /\ d \notin Blocking
      BY <1>3, <2>1, Zenon DEF PollInterrupt, TakeTrigger, boot, Goto
    <3> QED
      BY <1>1, <3>1, ZenonT(30)
  <2> QED
    BY <1>2, <1>3, <2>1, Zenon DEF PollInterrupt, At
<1>4. CASE EnterLoopYield(d)
  BY <1>0, <1>2, <1>4, Zenon DEF EnterLoopYield, At
<1>5. CASE ReactorPoll(d)
  BY <1>0, <1>2, <1>5, Zenon DEF ReactorPoll, At
<1>6. CASE MakeRequest(d)
  <2>1. CASE Goto(d, "poll")
    <3>1. /\ Keeps("poll") /\ work' = work /\ triggered' = triggered
          /\ masked' = masked /\ pc[d] = "idle"
      BY <1>6, <2>1, Zenon DEF MakeRequest, Goto, ivars, At
    <3> QED
      BY <1>0, <1>1, <3>1, ZenonT(30)
  <2>2. CASE UNCHANGED pc
    BY <1>0, <1>6, <2>2, Zenon DEF MakeRequest, ivars, LineInv, Booted
  <2> QED
    BY <1>6, <2>1, <2>2 DEF MakeRequest
<1>7. CASE WaitForInterrupt(d)
  <2>1. CASE TakeTrigger(d) /\ Goto(d, "ack")
    <3>1. Keeps("ack")
      BY <1>7, <2>1 DEF WaitForInterrupt, TakeTrigger, boot, Goto
    <3> QED
      BY <1>1, <3>1, ZenonT(30)
  <2>2. CASE UNCHANGED <<ivars, pc>>
    BY <1>0, <1>7, <2>2, Zenon DEF WaitForInterrupt, ivars, LineInv, Booted
  <2> QED
    BY <1>7, <2>1, <2>2 DEF WaitForInterrupt
<1>8. CASE ReadStatus(d)
  <2>1. /\ pc' = [pc EXCEPT ![d] = "clear"] /\ pc[d] = "status"
        /\ configuring' = configuring /\ sent' = sent /\ work' = work
        /\ masked' = masked /\ triggered' = triggered
    BY <1>8, Zenon DEF ReadStatus, At, Goto, ivars
  <2>2. pc'[d] = "clear" /\ \A e \in Devices : e # d => pc'[e] = pc[e]
    BY <1>0, <2>1, Zenon
  <2>3. d \notin Blocking
    BY <1>0, <2>1, Zenon
  <2> QED
    BY <2>1, <2>2, <2>3, OwnDeviceOnly, Zenon
<1>9. CASE ClearStatus(d)
  <2>1. Keeps("ack")
    BY <1>0, <1>9, Zenon DEF ClearStatus, WriteStatus, boot, Goto
  <2> QED
    BY <1>1, <2>1, Zenon
<1>10. CASE Ack(d)
  <2>1. CASE At(d, "ack") /\ RearmClear(d) /\ Goto(d, "unmask")
    <3>1. Keeps("unmask")
      BY <1>10, <2>1, Zenon DEF Ack, RearmClear, boot, Goto
    <3> QED
      BY <1>1, <3>1, ZenonT(30)
  <2>2. CASE At(d, "unmask") /\ RearmInterrupt(d)
             /\ Goto(d, IF d \in Blocking THEN "response" ELSE "poll")
    <3> DEFINE w == IF d \in Blocking THEN "response" ELSE "poll"
    <3>1. /\ Keeps(w)
          /\ d \notin Msi => Vector[d] \notin masked'
      BY <1>10, <2>2, Zenon DEF Ack, RearmInterrupt, boot, Goto
    <3>2. (d \in Blocking => w = "response") /\ (d \notin Blocking => d \notin Msi)
      OBVIOUS
    <3> HIDE DEF w
    <3> QED
      BY <1>1, <3>1, <3>2, ZenonT(30)
  <2> QED
    BY <1>10, <2>1, <2>2 DEF Ack
<1>11. CASE ReadResponse(d)
  <2>1. /\ Keeps("idle") /\ triggered' = triggered
        /\ masked' = masked /\ work'[d] = {} /\ pc[d] = "response"
    BY <1>0, <1>11, Zenon DEF ReadResponse, WriteStatus, boot, Goto, At
  <2> QED
    BY <1>0, <1>1, <2>1, ZenonT(30)
<1> QED
  BY <1>3, <1>4, <1>5, <1>6, <1>7, <1>8, <1>9, <1>10, <1>11, Zenon DEF DriverStep

\* The state a machine is switched on in.
LEMMA InitIInv == Init => IInv /\ HandlersSafe
<1> SUFFICES ASSUME Init PROVE IInv /\ HandlersSafe
  OBVIOUS
<1>1. SchedulerInv
  BY SchedulerInitInv DEF Init
<1>2. TypeOK
  <2>1. InterruptsTypeOK
    <3>1. configuring \in 1 .. NumDevices + 1
      BY DevicesAssumption DEF Init, InterruptsInit
    <3>2. /\ routing \in [Vectors -> SUBSET Devices] /\ work \in [Devices -> SUBSET Bits]
          /\ masked \in SUBSET Vectors /\ sent \in SUBSET Msi /\ triggered \in SUBSET Devices
      BY DEF Init, InterruptsInit
    <3>3. phase = "find" /\ controller \in BOOLEAN /\ routes \in BOOLEAN
      BY Zenon DEF Init, InterruptsInit
    <3> QED
      BY <3>1, <3>2, <3>3 DEF InterruptsTypeOK
  <2>2. pc \in [Devices -> {"idle", "poll"}] /\ status \in [Devices -> SUBSET Bits]
    BY DEF Init
  <2> QED
    BY <2>1, <2>2 DEF TypeOK
<1>3. BootInv
  BY DevicesAssumption
     DEF Init, InterruptsInit, BootInv, Booted, Routed, Devices
<1>4. LineInv
  <2>1. Booted => Devices = {}
    BY DevicesAssumption DEF Init, InterruptsInit, Booted, Devices
  <2> QED
    BY <2>1, DevicesAssumption, DriversAssumption, Zenon DEF Init, InterruptsInit, LineInv
<1> QED
  BY <1>1, <1>2, <1>3, <1>4 DEF IInv, HandlersSafe, Init, InterruptsInit

\* The interrupts' own state, through every step of the system.
LEMMA NextInterrupts ==
  ASSUME Early = {}, TypeOK, BootInv, [Next]_vars
  PROVE  InterruptsTypeOK' /\ BootInv'
<1>0. InterruptsTypeOK
  BY DEF TypeOK
<1>1. CASE UNCHANGED ivars
  BY <1>0, <1>1, Zenon DEF ivars, InterruptsTypeOK, BootInv, Booted, Routed
<1>2. CASE Boot
  BY <1>0, <1>1, <1>2, BootSteps DEF Boot
<1>3. CASE Device
  BY <1>0, <1>3, DeviceSteps, Zenon DEF Device
<1>4. CASE \E v \in Vectors : Interrupt(v)
  BY <1>0, <1>4, DeviceSteps DEF Interrupt
<1>5. ASSUME NEW d \in Devices, DriverStep(d)
      PROVE  \/ UNCHANGED ivars
             \/ TakeTrigger(d) \/ RearmClear(d) \/ RearmInterrupt(d)
             \/ WriteStatus(d, status[d]) \/ WriteStatus(d, work[d])
  BY <1>5 DEF DriverStep, PollInterrupt, EnterLoopYield, ReactorPoll, MakeRequest,
              WaitForInterrupt, ReadStatus, ClearStatus, Ack, ReadResponse
<1>6. ASSUME NEW d \in Devices, DriverStep(d)
      PROVE  InterruptsTypeOK' /\ BootInv'
  <2>1. status[d] \in SUBSET Bits /\ work[d] \in SUBSET Bits
    BY DEF TypeOK, InterruptsTypeOK
  <2> QED
    BY <1>0, <1>1, <1>5, <1>6, <2>1, DriverSteps, Zenon
<1>7. CASE OtherTask \/ WakeTasklet
  BY <1>1, <1>7, Zenon DEF OtherTask, WakeTasklet
<1> QED
  BY <1>1, <1>2, <1>3, <1>4, <1>6, <1>7 DEF Next, CpuStep, vars

\* A step of a driver, or one that leaves all drivers where they are.
LEMMA NextIsDriver ==
  [Next]_vars => UNCHANGED dvars \/ \E d \in Devices : DriverStep(d)
  BY Zenon DEF Next, CpuStep, vars, Boot, OtherTask, Device, Interrupt, WakeTasklet

\* Every step keeps the types and what enumeration has set up.
LEMMA NextBootInv ==
  ASSUME Early = {}, TypeOK, BootInv, [Next]_vars
  PROVE  TypeOK' /\ BootInv'
<1>1. InterruptsTypeOK' /\ BootInv'
  BY NextInterrupts
<1> QED
  BY <1>1, NextIsDriver, DriverPlaces DEF TypeOK, dvars

\* Every step keeps the relation between lines and drivers.
LEMMA NextLineInv ==
  ASSUME Early = {}, Msi \subseteq Blocking, TypeOK, BootInv, LineInv, [Next]_vars
  PROVE  LineInv'
<1>1. CASE UNCHANGED <<ivars, dvars>>
  BY <1>1, Zenon DEF ivars, dvars, LineInv, Booted
<1>2. CASE \E d \in Devices : DriverStep(d)
  BY <1>2, DriverLine
<1> QED
  BY <1>1, <1>2, BootLine, DeviceLine, InterruptLine, Zenon
     DEF Next, CpuStep, vars, OtherTask, WakeTasklet

\* On every machine whose firmware leaves no device enabled, the types are
\* right, and enumeration sets up what the handler relies on.
THEOREM BootKept ==
  ASSUME Early = {}
  PROVE  Spec => [](TypeOK /\ BootInv)
<1>1. Init => TypeOK /\ BootInv
  BY InitIInv DEF IInv
<1>2. TypeOK /\ BootInv /\ [Next]_vars => (TypeOK /\ BootInv)'
  BY NextBootInv
<1> QED
  BY <1>1, <1>2, PTL DEF Spec

\* The invariant holds on every machine whose firmware leaves no device enabled
\* and whose drivers for devices with messages wait inside the kernel.
THEOREM LinesKept ==
  ASSUME Early = {}, Msi \subseteq Blocking
  PROVE  Spec => []IInv
<1>1. Init => LineInv
  BY InitIInv DEF IInv
<1>2. TypeOK /\ BootInv /\ LineInv /\ [Next]_vars => LineInv'
  BY NextLineInv
<1>3. SchedulerInv /\ TypeOK /\ BootInv /\ LineInv => IInv
  BY DEF IInv
<1> QED
  BY <1>1, <1>2, <1>3, BootKept, TasksKept, ImplementsScheduler, PTL DEF Spec

\* No interrupt is lost, with any number of devices on any lines: the order of
\* clearing the flag and unmasking the line in Interrupt::rearm is right.
THEOREM InterruptsArrive ==
  ASSUME Early = {}, Msi \subseteq Blocking
  PROVE  Spec => []NoLostInterrupt
<1>1. ASSUME IInv
      PROVE  NoLostInterrupt
  <2> SUFFICES ASSUME NEW d \in Devices, Waiting(d), work[d] # {}
               PROVE  \/ d \in triggered
                      \/ IF d \in Msi THEN d \in sent ELSE Vector[d] \notin masked
    BY Zenon DEF NoLostInterrupt
  <2>1. Booted
    BY <1>1, Zenon DEF IInv, BootInv
  <2>2. CASE d \in Msi
    BY <1>1, <2>2, Zenon DEF IInv, LineInv, Waiting
  <2>3. CASE d \notin Msi
    BY <1>1, <2>1, <2>3, Zenon DEF IInv, LineInv, Waiting
  <2> QED
    BY <2>2, <2>3, Zenon
<1> QED
  BY <1>1, LinesKept, PTL

\* The handler always finds the locks free and somebody to tell, if no device
\* was left enabled by the firmware: neither of its panics is reached.
THEOREM HandlersNeverPanic ==
  ASSUME Early = {}
  PROVE  Spec => []HandlersSafe
<1>1. Init => HandlersSafe
  BY InitIInv
<1>2. ASSUME TypeOK, BootInv, HandlersSafe, [Next]_vars
      PROVE  HandlersSafe'
  <2>1. ASSUME NEW v \in Vectors, HandlePlatformInterrupt(v)
        PROVE  stuck' = stuck
    <3>1. Booted
      BY <1>2, <2>1, ZenonT(30) DEF HandlePlatformInterrupt, Asserted, On, BootInv
    <3>2. ~controller /\ ~routes
      BY <1>2, <3>1, Zenon DEF BootInv
    <3>3. PICK d \in Devices : v = Vector[d]
      BY DEF Vectors
    <3>4. routing[v] # {}
      BY <1>2, <3>1, <3>3, DevicesAssumption
         DEF BootInv, Routed, Booted, Devices, TypeOK, InterruptsTypeOK
    <3> QED
      BY <2>1, <3>2, <3>4, ZenonT(30) DEF HandlePlatformInterrupt
  <2>2. CASE UNCHANGED stuck
    BY <1>2, <2>2 DEF HandlersSafe
  <2>3. ASSUME NEW d \in Devices, DriverStep(d)
        PROVE  UNCHANGED stuck
    BY <2>3, Zenon DEF DriverStep, PollInterrupt, EnterLoopYield, ReactorPoll, MakeRequest,
                WaitForInterrupt, ReadStatus, ClearStatus, Ack, ReadResponse, ivars,
                TakeTrigger, RearmClear, RearmInterrupt, WriteStatus
  <2>4. CASE Boot
    BY <2>2, <2>4, SMTT(30) DEF Boot, BootFind, BootAllocate, BootLockRoutes, BootRoute, BootEnable,
                      ivars
  <2>5. CASE Device
    BY <2>2, <2>5, Zenon DEF Device, Raise
  <2>6. CASE \E v \in Vectors : Interrupt(v)
    BY <2>1, <2>2, <2>6 DEF Interrupt
  <2>7. CASE OtherTask \/ WakeTasklet \/ UNCHANGED vars
    BY <2>2, <2>7, Zenon DEF OtherTask, WakeTasklet, vars, ivars
  <2> QED
    BY <1>2, <2>2, <2>3, <2>4, <2>5, <2>6, <2>7 DEF Next, CpuStep
<1> QED
  BY <1>1, <1>2, BootKept, PTL DEF Spec


-----------------------------------------------------------------------------
\* The platform bus: where a device is.

\* What devices are registered under.
Names == { x.name : x \in BusDevices }

\* The messages of a device driver, and those to one.
Verdicts == { Supports(d, x.properties) : d \in DeviceDrivers, x \in BusDevices }
Interests == { [kind |-> "RegisterInterest", filters |-> Filters[d]] : d \in DeviceDrivers }
Answers == Interests \cup [kind : {"CanSupport"}, name : Names, supported : Verdicts]
Orders == [kind : {"QuerySupport", "HandoffDevice"}, name : Names, device : BusDevices]

\* Every queue holds the messages it is for.
BusTypes ==
    /\ fromBus \in [DeviceDrivers -> Seq(BusDevices)]
    /\ toBus \in [DeviceDrivers -> Seq(Answers)]
    /\ toDriver \in [DeviceDrivers -> Seq(Orders)]
    /\ driving \in [DeviceDrivers -> SUBSET BusDevices]
    /\ \A name \in DOMAIN devices :
         /\ devices[name].device \in BusDevices /\ devices[name].device.name = name
         /\ devices[name].by \in DeviceDrivers \cup {None}

\* The messages of a queue name devices of the bus.
AnswersKnown(q, names) == \A i \in DOMAIN q : q[i].kind = "CanSupport" => q[i].name \in names
OrdersKnown(q, names) == \A i \in DOMAIN q : q[i].name \in names

\* A device is in a queue of registrations; it is handed over in a queue of
\* orders; and not twice.
Within(q, x) == \E i \in DOMAIN q : q[i] = x
NotTwice(q) == \A i, j \in DOMAIN q : q[i] = q[j] => i = j
HandsOver(m, x) == m.kind = "HandoffDevice" /\ m.device = x
HandedIn(q, x) == \E i \in DOMAIN q : HandsOver(q[i], x)
NotTwiceHanded(q, x) == \A i, j \in DOMAIN q : HandsOver(q[i], x) /\ HandsOver(q[j], x) => i = j

\* The bus knows a device.
OnBus(x) == x.name \in DOMAIN devices /\ devices[x.name].device = x

\* A device that has been met anywhere ...
Met(x) == OnBus(x) \/ \E d \in DeviceDrivers : Within(fromBus[d], x) \/ GivenTo(x, d)

\* ... hangs off a device that is driven, or the kernel found it.
Driven(x) == \E p \in BusDevices, d \in DeviceDrivers : p.id = x.parent /\ p \in driving[d]

\* Before the bus has enumerated the devices of the kernel.
Quiet ==
    /\ clients = {}
    /\ \A d \in DeviceDrivers : fromBus[d] = <<>> /\ toDriver[d] = <<>> /\ driving[d] = {}

\* A device waits to be registered, or it is on the bus, or it was replaced there
\* by another one of its name; it is given away after it was on the bus, once.
GivenOnce ==
    /\ \A x \in BusDevices : \A d, e \in DeviceDrivers : GivenTo(x, d) /\ GivenTo(x, e) => d = e
    /\ \A x \in BusDevices, d \in DeviceDrivers : x \in driving[d] => ~HandedIn(toDriver[d], x)
    /\ \A x \in BusDevices, d \in DeviceDrivers : NotTwiceHanded(toDriver[d], x)
    /\ \A name \in DOMAIN devices, d \in DeviceDrivers :
         GivenTo(devices[name].device, d) <=> devices[name].by = d

\* A device that waits to be registered waits in one place, and was never met.
RegisteredOnce ==
    /\ \A x \in BusDevices, d, e \in DeviceDrivers :
         Within(fromBus[d], x) => ~OnBus(x) /\ ~GivenTo(x, e)
    /\ \A d \in DeviceDrivers : NotTwice(fromBus[d])
    /\ \A x \in BusDevices, d, e \in DeviceDrivers :
         Within(fromBus[d], x) /\ Within(fromBus[e], x) => d = e

\* No device is met before the one it hangs off is driven.
Led == \A x \in BusDevices : Met(x) => x \in KernelDevices \/ Driven(x)

\* The inductive invariant.
BusInv ==
    /\ BusTypes
    /\ \A d \in DeviceDrivers : AnswersKnown(toBus[d], DOMAIN devices)
    /\ \A d \in DeviceDrivers : OrdersKnown(toDriver[d], DOMAIN devices)
    /\ devices = <<>> => Quiet
    /\ GivenOnce
    /\ RegisteredOnce
    /\ Led

-----------------------------------------------------------------------------
\* Queues.

\* The devices in a queue of registrations without the first one.
LEMMA RegistrationsAfter ==
    ASSUME NEW S, NEW q \in Seq(S), q # <<>>, NotTwice(q)
    PROVE  /\ Head(q) \in S /\ Tail(q) \in Seq(S) /\ NotTwice(Tail(q))
           /\ \A x : Within(q, x) <=> Within(Tail(q), x) \/ x = Head(q)
           /\ ~Within(Tail(q), Head(q))
<1>1. /\ Head(q) \in S /\ Tail(q) \in Seq(S) /\ Head(q) = q[1] /\ 1 \in DOMAIN q
  OBVIOUS
<1>2. \A i \in DOMAIN Tail(q) : i \in Nat \ {0} /\ i + 1 \in DOMAIN q /\ Tail(q)[i] = q[i + 1]
  OBVIOUS
<1>3. \A i \in DOMAIN q : i # 1 => i - 1 \in DOMAIN Tail(q) /\ Tail(q)[i - 1] = q[i]
  OBVIOUS
<1>4. NotTwice(Tail(q))
  BY <1>2 DEF NotTwice
<1>5. \A x : Within(q, x) <=> Within(Tail(q), x) \/ x = Head(q)
  <2>1. ASSUME NEW x, Within(Tail(q), x) PROVE Within(q, x)
    BY <1>2, <2>1, Zenon DEF Within
  <2>2. ASSUME NEW x, Within(q, x), x # Head(q) PROVE Within(Tail(q), x)
    BY <1>1, <1>3, <2>2, Zenon DEF Within
  <2>3. Within(q, Head(q))
    BY <1>1, Zenon DEF Within
  <2> QED
    BY <2>1, <2>2, <2>3, Zenon
<1>6. ~Within(Tail(q), Head(q))
  <2> SUFFICES ASSUME NEW i \in DOMAIN Tail(q), Tail(q)[i] = Head(q) PROVE FALSE
    BY Zenon DEF Within
  <2>1. i + 1 = 1
    BY <1>1, <1>2, Zenon DEF NotTwice
  <2> QED
    BY <1>2, <2>1
<1> QED
  BY <1>1, <1>4, <1>5, <1>6, Zenon

\* The elements of two sequences in a row.
InARow(p, q, r) ==
    /\ \A i \in DOMAIN p : i \in DOMAIN r /\ r[i] = p[i]
    /\ \A j \in DOMAIN q : Len(p) + j \in DOMAIN r /\ r[Len(p) + j] = q[j]
    /\ \A i \in DOMAIN r : \/ i \in DOMAIN p /\ r[i] = p[i]
                           \/ \E j \in DOMAIN q : i = Len(p) + j /\ r[i] = q[j]

LEMMA RowElements ==
    ASSUME NEW S, NEW p \in Seq(S), NEW q \in Seq(S)
    PROVE  p \o q \in Seq(S) /\ InARow(p, q, p \o q)
<1>1. p \o q \in Seq(S) /\ Len(p) \in Nat /\ Len(q) \in Nat
  OBVIOUS
<1>2. DOMAIN p = 1 .. Len(p) /\ DOMAIN q = 1 .. Len(q) /\ DOMAIN (p \o q) = 1 .. Len(p) + Len(q)
  OBVIOUS
<1>3. ASSUME NEW i \in 1 .. Len(p) PROVE (p \o q)[i] = p[i]
  OBVIOUS
<1>4. ASSUME NEW j \in 1 .. Len(q) PROVE (p \o q)[Len(p) + j] = q[j]
  OBVIOUS
<1>5. ASSUME NEW i \in DOMAIN (p \o q)
      PROVE  \/ i \in DOMAIN p /\ (p \o q)[i] = p[i]
             \/ \E j \in DOMAIN q : i = Len(p) + j /\ (p \o q)[i] = q[j]
  <2>1. CASE i <= Len(p)
    BY <1>1, <1>2, <1>3, <2>1
  <2>2. CASE ~(i <= Len(p))
    <3>1. i - Len(p) \in 1 .. Len(q) /\ i = Len(p) + (i - Len(p))
      BY <1>1, <1>2, <2>2
    <3> QED
      BY <1>2, <1>4, <3>1, Zenon
  <2> QED
    BY <2>1, <2>2, Zenon
<1>6. /\ \A i \in 1 .. Len(p) : i \in 1 .. Len(p) + Len(q)
      /\ \A j \in 1 .. Len(q) : Len(p) + j \in 1 .. Len(p) + Len(q)
  BY <1>1
<1> QED
  BY <1>1, <1>2, <1>3, <1>4, <1>5, <1>6, Zenon DEF InARow

\* Devices that wait to be registered after others.
LEMMA MoreRegistrations ==
    ASSUME NEW S, NEW p \in Seq(S), NEW q \in Seq(S), NotTwice(p), NotTwice(q),
           \A x \in S : ~(Within(p, x) /\ Within(q, x))
    PROVE  /\ p \o q \in Seq(S) /\ NotTwice(p \o q)
           /\ \A x : Within(p \o q, x) <=> Within(p, x) \/ Within(q, x)
<1>1. PICK r : r = p \o q
  BY Zenon
<1>2. r \in Seq(S) /\ InARow(p, q, r)
  BY <1>1, RowElements, Zenon
<1>3. \A x : Within(r, x) <=> Within(p, x) \/ Within(q, x)
  <2>1. ASSUME NEW x, Within(p, x) PROVE Within(r, x)
    BY <1>2, <2>1, Zenon DEF Within, InARow
  <2>2. ASSUME NEW x, Within(q, x) PROVE Within(r, x)
    BY <1>2, <2>2, Zenon DEF Within, InARow
  <2>3. ASSUME NEW x, Within(r, x) PROVE Within(p, x) \/ Within(q, x)
    BY <1>2, <2>3, Zenon DEF Within, InARow
  <2> QED
    BY <2>1, <2>2, <2>3, Zenon
<1>4. \A i \in DOMAIN p : p[i] \in S
  OBVIOUS
<1>5. ASSUME NEW i \in DOMAIN r, NEW j \in DOMAIN r, r[i] = r[j] PROVE i = j
  <2>1. CASE i \in DOMAIN p /\ r[i] = p[i] /\ j \in DOMAIN p /\ r[j] = p[j]
    BY <1>5, <2>1, Zenon DEF NotTwice
  <2>2. ASSUME NEW k \in DOMAIN p, NEW l \in DOMAIN q, p[k] = q[l] PROVE FALSE
    BY <1>4, <2>2, Zenon DEF Within
  <2>3. ASSUME NEW k \in DOMAIN q, i = Len(p) + k, r[i] = q[k],
               NEW l \in DOMAIN q, j = Len(p) + l, r[j] = q[l]
        PROVE  i = j
    BY <1>5, <2>3, Zenon DEF NotTwice
  <2> QED
    BY <1>2, <1>5, <2>1, <2>2, <2>3, Zenon DEF InARow
<1>6. NotTwice(r)
  BY <1>5, Zenon DEF NotTwice
<1> QED
  BY <1>1, <1>2, <1>3, <1>6, Zenon

\* Queries hand nothing over.
LEMMA QueriesSent ==
    ASSUME NEW q \in Seq(Orders), NEW s \in Seq(Orders),
           \A i \in DOMAIN s : s[i].kind = "QuerySupport"
    PROVE  /\ q \o s \in Seq(Orders)
           /\ \A x : HandedIn(q \o s, x) <=> HandedIn(q, x)
           /\ \A x : NotTwiceHanded(q, x) => NotTwiceHanded(q \o s, x)
           /\ \A names : OrdersKnown(q, names) /\ OrdersKnown(s, names) => OrdersKnown(q \o s, names)
<1>1. PICK r : r = q \o s
  BY Zenon
<1>2. r \in Seq(Orders) /\ InARow(q, s, r)
  BY <1>1, RowElements, Zenon
<1>3. /\ \A i \in DOMAIN q : i \in DOMAIN r /\ r[i] = q[i]
      /\ \A i \in DOMAIN r : \/ i \in DOMAIN q /\ r[i] = q[i]
                             \/ \E j \in DOMAIN s : r[i] = s[j]
  BY <1>2, Zenon DEF InARow
<1>4. r \in Seq(Orders)
  BY <1>2, Zenon
<1>5. \A i \in DOMAIN r : \A x : HandsOver(r[i], x) => i \in DOMAIN q /\ HandsOver(q[i], x)
  BY <1>3, Zenon DEF HandsOver
<1>6. \A x : HandedIn(r, x) <=> HandedIn(q, x)
  BY <1>3, <1>5, Zenon DEF HandedIn
<1>7. \A x : NotTwiceHanded(q, x) => NotTwiceHanded(r, x)
  BY <1>5, Zenon DEF NotTwiceHanded
<1>8. \A names : OrdersKnown(q, names) /\ OrdersKnown(s, names) => OrdersKnown(r, names)
  BY <1>3, Zenon DEF OrdersKnown
<1> QED
  BY <1>1, <1>4, <1>6, <1>7, <1>8, Zenon

\* The elements of a queue that one more was put into.
LEMMA AppendElements ==
    ASSUME NEW S, NEW q \in Seq(S), NEW e \in S
    PROVE  /\ Append(q, e) \in Seq(S)
           /\ \A i \in DOMAIN q : i \in DOMAIN Append(q, e) /\ Append(q, e)[i] = q[i]
           /\ \A i \in DOMAIN Append(q, e) : \/ i \in DOMAIN q /\ Append(q, e)[i] = q[i]
                                             \/ i = Len(q) + 1 /\ Append(q, e)[i] = e
           /\ Len(q) + 1 \in DOMAIN Append(q, e) /\ Append(q, e)[Len(q) + 1] = e
<1>1. Append(q, e) \in Seq(S) /\ Len(q) \in Nat
  OBVIOUS
<1>2. DOMAIN q = 1 .. Len(q) /\ DOMAIN Append(q, e) = 1 .. Len(q) + 1
  OBVIOUS
<1>3. \A i \in 1 .. Len(q) : Append(q, e)[i] = q[i]
  OBVIOUS
<1>4. Append(q, e)[Len(q) + 1] = e
  OBVIOUS
<1> QED
  BY <1>1, <1>2, <1>3, <1>4

\* One more order.
LEMMA OrderSent ==
    ASSUME NEW q \in Seq(Orders), NEW m \in Orders
    PROVE  /\ Append(q, m) \in Seq(Orders)
           /\ \A x : HandedIn(Append(q, m), x) <=> HandedIn(q, x) \/ HandsOver(m, x)
           /\ \A x : NotTwiceHanded(q, x) /\ ~(HandedIn(q, x) /\ HandsOver(m, x))
                        => NotTwiceHanded(Append(q, m), x)
           /\ \A names : OrdersKnown(q, names) /\ m.name \in names => OrdersKnown(Append(q, m), names)
<1>1. PICK r : r = Append(q, m)
  BY Zenon
<1>2. /\ r \in Seq(Orders)
      /\ \A i \in DOMAIN q : i \in DOMAIN r /\ r[i] = q[i]
      /\ \A i \in DOMAIN r : \/ i \in DOMAIN q /\ r[i] = q[i]
                             \/ i = Len(q) + 1 /\ r[i] = m
      /\ Len(q) + 1 \in DOMAIN r /\ r[Len(q) + 1] = m
  BY <1>1, AppendElements
<1>3. \A x : HandedIn(r, x) <=> HandedIn(q, x) \/ HandsOver(m, x)
  BY <1>2, Zenon DEF HandedIn
<1>4. ASSUME NEW x, NotTwiceHanded(q, x), ~(HandedIn(q, x) /\ HandsOver(m, x)),
             NEW i \in DOMAIN r, NEW j \in DOMAIN r, HandsOver(r[i], x), HandsOver(r[j], x)
      PROVE  i = j
  <2>1. CASE HandsOver(m, x)
    <3>1. i = Len(q) + 1 /\ j = Len(q) + 1
      BY <1>2, <1>4, <2>1, Zenon DEF HandedIn
    <3> QED
      BY <3>1, Zenon
  <2>2. CASE ~HandsOver(m, x)
    BY <1>2, <1>4, <2>2, Zenon DEF NotTwiceHanded
  <2> QED
    BY <2>1, <2>2, Zenon
<1>5. \A x : NotTwiceHanded(q, x) /\ ~(HandedIn(q, x) /\ HandsOver(m, x)) => NotTwiceHanded(r, x)
  BY <1>4, Zenon DEF NotTwiceHanded
<1>6. \A names : OrdersKnown(q, names) /\ m.name \in names => OrdersKnown(r, names)
  BY <1>2, Zenon DEF OrdersKnown
<1> QED
  BY <1>1, <1>2, <1>3, <1>5, <1>6, Zenon

\* The orders after the first one.
LEMMA OrdersAfter ==
    ASSUME NEW q \in Seq(Orders), q # <<>>
    PROVE  /\ Head(q) \in Orders /\ Tail(q) \in Seq(Orders)
           /\ \A x : HandedIn(q, x) <=> HandedIn(Tail(q), x) \/ HandsOver(Head(q), x)
           /\ \A x : NotTwiceHanded(q, x) => /\ NotTwiceHanded(Tail(q), x)
                                             /\ ~(HandsOver(Head(q), x) /\ HandedIn(Tail(q), x))
           /\ \A names : OrdersKnown(q, names) => OrdersKnown(Tail(q), names) /\ Head(q).name \in names
<1>1. Head(q) \in Orders /\ Tail(q) \in Seq(Orders) /\ 1 \in DOMAIN q /\ Head(q) = q[1]
  OBVIOUS
<1>2. \A i \in DOMAIN Tail(q) : i \in Nat \ {0} /\ i + 1 \in DOMAIN q /\ Tail(q)[i] = q[i + 1]
  OBVIOUS
<1>3. \A i \in DOMAIN q : i # 1 => i - 1 \in DOMAIN Tail(q) /\ Tail(q)[i - 1] = q[i]
  OBVIOUS
<1>4. PICK t, m : t = Tail(q) /\ m = Head(q)
  BY Zenon
<1>5. /\ m = q[1]
      /\ \A i \in DOMAIN t : i + 1 \in DOMAIN q /\ t[i] = q[i + 1]
      /\ \A i \in DOMAIN q : i # 1 => i - 1 \in DOMAIN t /\ t[i - 1] = q[i]
  BY <1>1, <1>2, <1>3, <1>4, Zenon
<1>6. \A i, j \in DOMAIN t : i + 1 # 1 /\ (i + 1 = j + 1 => i = j)
  BY <1>2, <1>4
<1>7. \A x : HandedIn(q, x) <=> HandedIn(t, x) \/ HandsOver(m, x)
  BY <1>1, <1>5, Zenon DEF HandedIn
<1>8. ASSUME NEW x, NotTwiceHanded(q, x)
      PROVE  NotTwiceHanded(t, x) /\ ~(HandsOver(m, x) /\ HandedIn(t, x))
  <2>1. NotTwiceHanded(t, x)
    BY <1>5, <1>6, <1>8, Zenon DEF NotTwiceHanded
  <2>2. ~(HandsOver(m, x) /\ HandedIn(t, x))
    BY <1>1, <1>5, <1>6, <1>8, Zenon DEF NotTwiceHanded, HandedIn
  <2> QED
    BY <2>1, <2>2, Zenon
<1>9. \A names : OrdersKnown(q, names) => OrdersKnown(t, names) /\ m.name \in names
  BY <1>1, <1>5, Zenon DEF OrdersKnown
<1> QED
  BY <1>1, <1>4, <1>7, <1>8, <1>9, Zenon

\* The answers of a driver, with one more.
LEMMA AnswerSent ==
    ASSUME NEW q \in Seq(Answers), NEW m \in Answers
    PROVE  /\ Append(q, m) \in Seq(Answers)
           /\ \A names : AnswersKnown(q, names) /\ (m.kind = "CanSupport" => m.name \in names)
                            => AnswersKnown(Append(q, m), names)
BY AppendElements DEF AnswersKnown

\* The answers of a driver without the first.
LEMMA AnswersAfter ==
    ASSUME NEW q \in Seq(Answers), q # <<>>
    PROVE  /\ Head(q) \in Answers /\ Tail(q) \in Seq(Answers)
           /\ \A names : AnswersKnown(q, names) =>
                /\ AnswersKnown(Tail(q), names)
                /\ Head(q).kind = "CanSupport" => Head(q).name \in names
<1>1. Head(q) \in Answers /\ Tail(q) \in Seq(Answers) /\ 1 \in DOMAIN q /\ Head(q) = q[1]
  OBVIOUS
<1>2. \A i \in DOMAIN Tail(q) : i + 1 \in DOMAIN q /\ Tail(q)[i] = q[i + 1]
  OBVIOUS
<1> QED
  BY <1>1, <1>2, Zenon DEF AnswersKnown

\* A list holds what it lists once.
LEMMA ListedOnce ==
    ASSUME NEW T, NEW S, S \subseteq T, NEW s \in Listings(S)
    PROVE  s \in Seq(T) /\ NotTwice(s) /\ \A i \in DOMAIN s : s[i] \in S
<1>1. PICK n \in 0 .. MaxDevices :
        s \in { t \in [1 .. n -> S] : \A i, j \in DOMAIN t : i # j => t[i] # t[j] }
  BY Zenon DEF Listings
<1>2. n \in Nat
  BY BusAssumption
<1>3. s \in [1 .. n -> T] /\ \A i \in DOMAIN s : s[i] \in S
  BY <1>1
<1>4. s \in Seq(T)
  BY <1>2, <1>3
<1>5. NotTwice(s)
  BY <1>1, Zenon DEF NotTwice
<1> QED
  BY <1>3, <1>4, <1>5, Zenon

-----------------------------------------------------------------------------
\* The steps.

\* A device is given to a driver that drives it or has been sent it.
LEMMA GivenIs ==
    ASSUME NEW x, NEW d
    PROVE  /\ GivenTo(x, d) <=> x \in driving[d] \/ HandedIn(toDriver[d], x)
           /\ GivenTo(x, d)' <=> x \in driving'[d] \/ HandedIn(toDriver'[d], x)
BY Zenon DEF GivenTo, HandedIn, HandsOver

\* check_devices sends queries about devices of the bus, and nothing else.
LEMMA Checked ==
    ASSUME NEW ds, NEW fs, check_devices(ds, fs), toDriver \in [DeviceDrivers -> Seq(Orders)],
           \A name \in DOMAIN ds : ds[name].device \in BusDevices /\ ds[name].device.name = name
    PROVE  /\ toDriver' \in [DeviceDrivers -> Seq(Orders)]
           /\ \A d \in DeviceDrivers : \A x : HandedIn(toDriver'[d], x) <=> HandedIn(toDriver[d], x)
           /\ \A d \in DeviceDrivers : \A x :
                NotTwiceHanded(toDriver[d], x) => NotTwiceHanded(toDriver'[d], x)
           /\ \A d \in DeviceDrivers :
                OrdersKnown(toDriver[d], DOMAIN ds) => OrdersKnown(toDriver'[d], DOMAIN ds)
<1> DEFINE Query(name) == [kind |-> "QuerySupport", name |-> name, device |-> ds[name].device]
           Queries(s) == [i \in DOMAIN s |-> Query(s[i])]
<1>1. PICK names :
        /\ \A d \in DeviceDrivers : names[d] \in InOrder(Asked(ds, fs, d))
        /\ toDriver' = [d \in DeviceDrivers |-> toDriver[d] \o Queries(names[d])]
  <2>1. PICK lists \in { [d \in DeviceDrivers |-> InOrder(Asked(ds, fs, d))] } :
          \E names \in [DeviceDrivers -> UNION { lists[d] : d \in DeviceDrivers }] :
            /\ \A d \in DeviceDrivers : names[d] \in lists[d]
            /\ toDriver' = [d \in DeviceDrivers |-> toDriver[d] \o Queries(names[d])]
    BY Zenon DEF check_devices
  <2>2. PICK names :
          /\ \A d \in DeviceDrivers : names[d] \in lists[d]
          /\ toDriver' = [d \in DeviceDrivers |-> toDriver[d] \o Queries(names[d])]
    BY <2>1, Zenon
  <2>3. \A d \in DeviceDrivers : names[d] \in InOrder(Asked(ds, fs, d))
    BY <2>1, <2>2, Zenon
  <2> QED
    BY <2>2, <2>3, Zenon
<1>2. ASSUME NEW name \in DOMAIN ds
      PROVE  Query(name) \in Orders /\ Query(name).name = name /\ Query(name).kind = "QuerySupport"
  BY DEF Orders, Names
<1> HIDE DEF Query
<1>3. ASSUME NEW d \in DeviceDrivers
      PROVE  /\ Queries(names[d]) \in Seq(Orders) /\ OrdersKnown(Queries(names[d]), DOMAIN ds)
             /\ \A i \in DOMAIN Queries(names[d]) : Queries(names[d])[i].kind = "QuerySupport"
  <2>1. PICK s : s = names[d]
    BY Zenon
  <2>2. s \in Listings(Asked(ds, fs, d)) /\ Asked(ds, fs, d) \subseteq DOMAIN ds
    BY <1>1, <2>1, Zenon DEF InOrder, Asked
  <2>3. s \in Seq(DOMAIN ds)
    BY <2>2, ListedOnce, Zenon
  <2>4. \A i \in DOMAIN s : s[i] \in DOMAIN ds
    BY <2>3
  <2>5. \A i \in DOMAIN s : Query(s[i]) \in Orders
    BY <1>2, <2>4, Zenon
  <2>0. DOMAIN s = 1 .. Len(s) /\ Len(s) \in Nat
    BY <2>3
  <2>7. Queries(s) \in Seq(Orders)
    BY <2>5, <2>0
  <2>8. \A i \in DOMAIN Queries(s) : Queries(s)[i].kind = "QuerySupport" /\ Queries(s)[i].name \in DOMAIN ds
    BY <1>2, <2>4, Zenon
  <2> HIDE DEF Queries
  <2> QED
    BY <2>1, <2>7, <2>8, Zenon DEF OrdersKnown
<1> HIDE DEF Queries
<1>4. ASSUME NEW d \in DeviceDrivers
      PROVE  /\ toDriver'[d] \in Seq(Orders)
             /\ \A x : HandedIn(toDriver'[d], x) <=> HandedIn(toDriver[d], x)
             /\ \A x : NotTwiceHanded(toDriver[d], x) => NotTwiceHanded(toDriver'[d], x)
             /\ OrdersKnown(toDriver[d], DOMAIN ds) => OrdersKnown(toDriver'[d], DOMAIN ds)
  <2>1. toDriver'[d] = toDriver[d] \o Queries(names[d]) /\ toDriver[d] \in Seq(Orders)
    BY <1>1, Zenon
  <2>2. PICK q, s : q = toDriver[d] /\ s = Queries(names[d])
    BY Zenon
  <2>3. toDriver'[d] = q \o s /\ q \in Seq(Orders) /\ s \in Seq(Orders)
    BY <1>3, <2>1, <2>2, Zenon
  <2>4. OrdersKnown(s, DOMAIN ds) /\ \A i \in DOMAIN s : s[i].kind = "QuerySupport"
    BY <1>3, <2>2, Zenon
  <2>5. /\ q \o s \in Seq(Orders)
        /\ \A x : HandedIn(q \o s, x) <=> HandedIn(q, x)
        /\ \A x : NotTwiceHanded(q, x) => NotTwiceHanded(q \o s, x)
        /\ \A ns : OrdersKnown(q, ns) /\ OrdersKnown(s, ns) => OrdersKnown(q \o s, ns)
    BY <2>3, <2>4, QueriesSent, Zenon
  <2> QED
    BY <2>2, <2>3, <2>4, <2>5, Zenon
<1>5. toDriver' \in [DeviceDrivers -> Seq(Orders)]
  BY <1>1, <1>4, Zenon
<1> QED
  BY <1>4, <1>5, Zenon

\* A step that moves no device.
LEMMA NothingMoves ==
    ASSUME BusInv, UNCHANGED <<devices, fromBus, driving>>,
           \A d \in DeviceDrivers : \A x : HandedIn(toDriver'[d], x) <=> HandedIn(toDriver[d], x),
           \A d \in DeviceDrivers : \A x :
              NotTwiceHanded(toDriver[d], x) => NotTwiceHanded(toDriver'[d], x)
    PROVE  GivenOnce' /\ RegisteredOnce' /\ Led'
<1>1. devices' = devices /\ fromBus' = fromBus /\ driving' = driving
  BY Zenon
<1>2. ASSUME NEW d \in DeviceDrivers, NEW x PROVE GivenTo(x, d)' <=> GivenTo(x, d)
  BY <1>1, GivenIs, Zenon
<1>3. ASSUME NEW x PROVE (OnBus(x)' <=> OnBus(x)) /\ (Driven(x)' <=> Driven(x))
  BY <1>1, Zenon DEF OnBus, Driven
<1>4. ASSUME NEW x PROVE Met(x)' <=> Met(x)
  BY <1>1, <1>2, <1>3, Zenon DEF Met
<1>5. GivenOnce'
  <2>1. GivenOnce
    BY Zenon DEF BusInv
  <2> QED
    BY <1>1, <1>2, <2>1, Zenon DEF GivenOnce
<1>6. RegisteredOnce'
  <2>1. RegisteredOnce
    BY Zenon DEF BusInv
  <2> QED
    BY <1>1, <1>2, <1>3, <2>1, Zenon DEF RegisteredOnce
<1>7. Led'
  BY <1>3, <1>4, Zenon DEF BusInv, Led
<1> QED
  BY <1>5, <1>6, <1>7, Zenon

\* The bus starts with no device, and nothing is sent.
LEMMA BusInitially == PlatformBusInit => BusInv
<1> SUFFICES ASSUME PlatformBusInit PROVE BusInv
  BY Zenon
<1>1. DOMAIN devices = {}
  BY DEF PlatformBusInit
<1>2. \A S : <<>> \in Seq(S) /\ DOMAIN <<>> = {}
  OBVIOUS
<1>3. \A d \in DeviceDrivers : fromBus[d] = <<>> /\ toBus[d] = <<>> /\ toDriver[d] = <<>> /\ driving[d] = {}
  BY Zenon DEF PlatformBusInit
<1>4. BusTypes
  BY <1>1, <1>2, Zenon DEF PlatformBusInit, BusTypes
<1>5. \A d \in DeviceDrivers : /\ AnswersKnown(toBus[d], DOMAIN devices)
                              /\ OrdersKnown(toDriver[d], DOMAIN devices)
  BY <1>2, <1>3, Zenon DEF AnswersKnown, OrdersKnown
<1>6. \A d \in DeviceDrivers : \A x : ~Within(fromBus[d], x) /\ ~HandedIn(toDriver[d], x) /\ ~GivenTo(x, d)
  BY <1>2, <1>3, GivenIs, Zenon DEF Within, HandedIn
<1>7. GivenOnce
  BY <1>1, <1>2, <1>3, <1>6, Zenon DEF GivenOnce, NotTwiceHanded
<1>8. RegisteredOnce
  BY <1>2, <1>3, <1>6, Zenon DEF RegisteredOnce, NotTwice
<1>9. Led
  BY <1>1, <1>6, Zenon DEF Led, Met, OnBus
<1>10. Quiet
  BY <1>3, Zenon DEF Quiet, PlatformBusInit
<1> QED
  BY <1>4, <1>5, <1>7, <1>8, <1>9, <1>10, Zenon DEF BusInv

\* The devices of the kernel come before everything else.
LEMMA EnumeratePciInv == ASSUME BusInv, EnumeratePci PROVE BusInv'
<1>1. /\ devices = <<>> /\ Quiet
      /\ clients' = clients /\ fromBus' = fromBus /\ toBus' = toBus /\ toDriver' = toDriver
      /\ driving' = driving
  BY Zenon DEF EnumeratePci, BusInv
<1>2. ASSUME NEW name \in DOMAIN devices'
      PROVE  /\ devices'[name].device \in KernelDevices /\ devices'[name].device.name = name
             /\ devices'[name].by = None
  <2>1. PICK x \in KernelDevices : x.name = name
    BY <1>2, Zenon DEF EnumeratePci
  <2>2. PICK y : y = CHOOSE z \in KernelDevices : z.name = name
    BY Zenon
  <2>3. y \in KernelDevices /\ y.name = name
    BY <2>1, <2>2, Zenon
  <2>4. devices'[name] = Unclaimed(y)
    BY <2>1, <2>2, Zenon DEF EnumeratePci
  <2> QED
    BY <2>3, <2>4 DEF Unclaimed
<1>3. \A S : <<>> \in Seq(S) /\ DOMAIN <<>> = {}
  OBVIOUS
<1>4. \A d \in DeviceDrivers : \A x : ~Within(fromBus'[d], x) /\ ~HandedIn(toDriver'[d], x) /\ ~GivenTo(x, d)'
  BY <1>1, <1>3, GivenIs, Zenon DEF Within, HandedIn, Quiet
<1>5. BusTypes'
  BY <1>1, <1>2, BusAssumption, Zenon DEF BusInv, BusTypes
<1>6. ASSUME NEW d \in DeviceDrivers
      PROVE  AnswersKnown(toBus'[d], DOMAIN devices') /\ OrdersKnown(toDriver'[d], DOMAIN devices')
  BY <1>1, <1>3, Zenon DEF BusInv, AnswersKnown, OrdersKnown
<1>7. GivenOnce'
  <2>1. \A d \in DeviceDrivers : \A x : NotTwiceHanded(toDriver'[d], x)
    BY <1>4, Zenon DEF HandedIn, NotTwiceHanded
  <2>2. \A name \in DOMAIN devices', d \in DeviceDrivers : devices'[name].by # d
    BY <1>2, BusAssumption, Zenon
  <2> QED
    BY <1>4, <2>1, <2>2, Zenon DEF GivenOnce
<1>8. RegisteredOnce'
  BY <1>4, Zenon DEF RegisteredOnce, NotTwice, Within
<1>9. Led'
  BY <1>2, <1>4, Zenon DEF Led, Met, OnBus
<1>10. Quiet'
  BY <1>1, Zenon DEF Quiet
<1> QED
  BY <1>5, <1>6, <1>7, <1>8, <1>9, <1>10, Zenon DEF BusInv

\* A client, or an interest, moves no device.
LEMMA NewClientInv ==
    ASSUME BusInv, NEW service, NEW d, NewClient(service, d)
    PROVE  BusInv'
<1>1. /\ devices' = devices /\ devices # <<>> /\ fromBus' = fromBus /\ toBus' = toBus
      /\ toDriver' = toDriver /\ driving' = driving
  BY Zenon DEF NewClient
<1>2. GivenOnce' /\ RegisteredOnce' /\ Led'
  BY <1>1, NothingMoves, Zenon
<1>3. BusTypes'
  BY <1>1, Zenon DEF BusInv, BusTypes
<1> QED
  BY <1>1, <1>2, <1>3, Zenon DEF BusInv

\* A driver says which devices it is interested in.
LEMMA RegisterInterestInv ==
    ASSUME BusInv, NEW d \in DeviceDrivers, RegisterInterest(d)
    PROVE  BusInv'
<1>1. /\ devices' = devices /\ clients' = clients /\ fromBus' = fromBus
      /\ toDriver' = toDriver /\ driving' = driving
  BY Zenon DEF RegisterInterest
<1>2. GivenOnce' /\ RegisteredOnce' /\ Led'
  BY <1>1, NothingMoves, Zenon
<1>3. PICK m : m = [kind |-> "RegisterInterest", filters |-> Filters[d]]
  BY Zenon
<1>4. m \in Answers /\ m.kind # "CanSupport"
  BY <1>3 DEF Answers, Interests
<1>5. toBus \in [DeviceDrivers -> Seq(Answers)] /\ toBus' = [toBus EXCEPT ![d] = Append(@, m)]
  BY <1>3, Zenon DEF BusInv, BusTypes, RegisterInterest
<1>6. toBus[d] \in Seq(Answers)
  BY <1>5, Zenon
<1>7. /\ Append(toBus[d], m) \in Seq(Answers)
      /\ \A names : AnswersKnown(toBus[d], names) => AnswersKnown(Append(toBus[d], m), names)
  BY <1>4, <1>6, AnswerSent, Zenon
<1>8. toBus' \in [DeviceDrivers -> Seq(Answers)]
  BY <1>5, <1>7, Zenon
<1>9. \A e \in DeviceDrivers : toBus'[e] = IF e = d THEN Append(toBus[d], m) ELSE toBus[e]
  BY <1>5, Zenon
<1>10. \A e \in DeviceDrivers : AnswersKnown(toBus'[e], DOMAIN devices')
  BY <1>1, <1>7, <1>9, Zenon DEF BusInv
<1>11. BusTypes'
  BY <1>1, <1>8, Zenon DEF BusInv, BusTypes
<1>12. Quiet => Quiet'
  BY <1>1, Zenon DEF Quiet
<1> QED
  BY <1>1, <1>2, <1>10, <1>11, <1>12, Zenon DEF BusInv

\* RegisterDevice: the first device of a queue goes to the bus, in the place of
\* one of its name; it was given to nobody yet.
LEMMA RegisterDeviceInv ==
    ASSUME BusInv, NEW d \in DeviceDrivers, RegisterDevice(d)
    PROVE  BusInv'
<1>1. /\ fromBus[d] # <<>> /\ fromBus' = [fromBus EXCEPT ![d] = Tail(@)]
      /\ clients' = clients /\ toBus' = toBus /\ driving' = driving
  BY Zenon DEF RegisterDevice
<1>2. PICK x0, ds : x0 = Head(fromBus[d]) /\ ds = register_device(devices, x0)
  BY Zenon
<1>3. devices' = ds /\ check_devices(ds, filters)
  BY <1>2, Zenon DEF RegisterDevice
<1>4. /\ fromBus \in [DeviceDrivers -> Seq(BusDevices)] /\ fromBus[d] \in Seq(BusDevices)
      /\ NotTwice(fromBus[d])
  BY Zenon DEF BusInv, BusTypes, RegisteredOnce
<1>5. /\ x0 \in BusDevices /\ Tail(fromBus[d]) \in Seq(BusDevices) /\ NotTwice(Tail(fromBus[d]))
      /\ \A x : Within(fromBus[d], x) <=> Within(Tail(fromBus[d]), x) \/ x = x0
      /\ ~Within(Tail(fromBus[d]), x0)
  BY <1>1, <1>2, <1>4, RegistrationsAfter, Zenon
<1>6. /\ fromBus' \in [DeviceDrivers -> Seq(BusDevices)]
      /\ \A e \in DeviceDrivers : fromBus'[e] = IF e = d THEN Tail(fromBus[d]) ELSE fromBus[e]
  BY <1>1, <1>4, <1>5, Zenon
<1>7. ASSUME NEW e \in DeviceDrivers, NEW x, Within(fromBus'[e], x)
      PROVE  Within(fromBus[e], x) /\ x # x0
  BY <1>5, <1>6, <1>7, Zenon DEF BusInv, RegisteredOnce
<1>8. /\ DOMAIN devices' = DOMAIN devices \cup {x0.name} /\ devices'[x0.name] = Unclaimed(x0)
      /\ \A name \in DOMAIN devices : name # x0.name => devices'[name] = devices[name]
  BY <1>2, <1>3, Zenon DEF register_device
<1>9. Unclaimed(x0).device = x0 /\ Unclaimed(x0).by = None
  BY Zenon DEF Unclaimed
<1>10. \A name \in DOMAIN devices' :
         /\ devices'[name].device \in BusDevices /\ devices'[name].device.name = name
         /\ devices'[name].by \in DeviceDrivers \cup {None}
  BY <1>5, <1>8, <1>9, Zenon DEF BusInv, BusTypes
<1>11. /\ toDriver' \in [DeviceDrivers -> Seq(Orders)]
       /\ \A e \in DeviceDrivers : \A x : HandedIn(toDriver'[e], x) <=> HandedIn(toDriver[e], x)
       /\ \A e \in DeviceDrivers : \A x :
             NotTwiceHanded(toDriver[e], x) => NotTwiceHanded(toDriver'[e], x)
       /\ \A e \in DeviceDrivers :
             OrdersKnown(toDriver[e], DOMAIN devices') => OrdersKnown(toDriver'[e], DOMAIN devices')
  <2>1. toDriver \in [DeviceDrivers -> Seq(Orders)]
    BY Zenon DEF BusInv, BusTypes
  <2> QED
    BY <1>3, <1>10, <2>1, Checked, Zenon
<1>12. ASSUME NEW e \in DeviceDrivers, NEW x PROVE GivenTo(x, e)' <=> GivenTo(x, e)
  BY <1>1, <1>11, GivenIs, Zenon
<1>13. ASSUME NEW x, OnBus(x)' PROVE x = x0 \/ OnBus(x)
  BY <1>8, <1>9, <1>13, Zenon DEF OnBus
<1>14. BusTypes'
  BY <1>1, <1>6, <1>10, <1>11, Zenon DEF BusInv, BusTypes
<1>15. ASSUME NEW e \in DeviceDrivers
       PROVE  AnswersKnown(toBus'[e], DOMAIN devices') /\ OrdersKnown(toDriver'[e], DOMAIN devices')
  <2>1. AnswersKnown(toBus[e], DOMAIN devices) /\ OrdersKnown(toDriver[e], DOMAIN devices)
    BY Zenon DEF BusInv
  <2>2. AnswersKnown(toBus[e], DOMAIN devices') /\ OrdersKnown(toDriver[e], DOMAIN devices')
    BY <1>8, <2>1, Zenon DEF AnswersKnown, OrdersKnown
  <2> QED
    BY <1>1, <1>11, <2>2, Zenon
<1>16. devices' # <<>>
  <2>1. DOMAIN <<>> = {}
    OBVIOUS
  <2> QED
    BY <1>8, <2>1, Zenon
<1>17. \A e \in DeviceDrivers : ~GivenTo(x0, e)
  BY <1>5, Zenon DEF BusInv, RegisteredOnce
<1>18. GivenOnce'
  <2>1. GivenOnce
    BY Zenon DEF BusInv
  <2>2. ASSUME NEW name \in DOMAIN devices', NEW e \in DeviceDrivers
        PROVE  (GivenTo(devices[name].device, e) <=> devices[name].by = e)'
    <3>1. PICK y : y = devices'[name].device
      BY Zenon
    <3>2. GivenTo(devices[name].device, e)' <=> GivenTo(y, e)
      <4>1. GivenTo(devices[name].device, e)' <=> GivenTo(y, e)'
        BY <3>1, Zenon DEF GivenTo
      <4> QED
        BY <1>12, <4>1, Zenon
    <3>3. CASE name = x0.name
      BY <1>8, <1>9, <1>17, <3>1, <3>2, <3>3, BusAssumption, Zenon
    <3>4. CASE name # x0.name
      <4>1. name \in DOMAIN devices /\ devices'[name] = devices[name]
        BY <1>8, <3>4, Zenon
      <4>2. GivenTo(y, e) <=> devices[name].by = e
        BY <2>1, <3>1, <4>1, Zenon DEF GivenOnce
      <4> QED
        BY <3>2, <4>1, <4>2, Zenon
    <3> QED
      BY <3>3, <3>4, Zenon
  <2> QED
    BY <1>1, <1>11, <1>12, <2>1, <2>2, Zenon DEF GivenOnce
<1>19. RegisteredOnce'
  <2>1. RegisteredOnce
    BY Zenon DEF BusInv
  <2>2. \A e \in DeviceDrivers : NotTwice(fromBus'[e])
    BY <1>5, <1>6, <2>1, Zenon DEF RegisteredOnce
  <2> QED
    BY <1>7, <1>12, <1>13, <2>1, <2>2, Zenon DEF RegisteredOnce
<1>20. Led'
  <2>1. Met(x0)
    BY <1>5, Zenon DEF Met
  <2>2. ASSUME NEW x, Met(x)' PROVE Met(x)
    BY <1>7, <1>12, <1>13, <2>1, <2>2, Zenon DEF Met
  <2>3. ASSUME NEW x, Driven(x) PROVE Driven(x)'
    BY <1>1, <2>3, Zenon DEF Driven
  <2> QED
    BY <2>2, <2>3, Zenon DEF BusInv, Led
<1> QED
  BY <1>14, <1>15, <1>16, <1>18, <1>19, <1>20, Zenon DEF BusInv

\* The bus reads a message of a driver: the queue without it.
LEMMA AnswerRead ==
    ASSUME BusInv, NEW d \in DeviceDrivers, toBus[d] # <<>>, toBus' = [toBus EXCEPT ![d] = Tail(@)]
    PROVE  /\ toBus' \in [DeviceDrivers -> Seq(Answers)]
           /\ \A e \in DeviceDrivers : AnswersKnown(toBus'[e], DOMAIN devices)
           /\ Head(toBus[d]).kind = "CanSupport" => Head(toBus[d]).name \in DOMAIN devices
<1>1. /\ toBus \in [DeviceDrivers -> Seq(Answers)] /\ toBus[d] \in Seq(Answers)
      /\ \A e \in DeviceDrivers : AnswersKnown(toBus[e], DOMAIN devices)
  BY Zenon DEF BusInv, BusTypes
<1>2. /\ Tail(toBus[d]) \in Seq(Answers)
      /\ AnswersKnown(Tail(toBus[d]), DOMAIN devices)
      /\ Head(toBus[d]).kind = "CanSupport" => Head(toBus[d]).name \in DOMAIN devices
  BY <1>1, AnswersAfter, Zenon
<1>3. \A e \in DeviceDrivers : toBus'[e] = IF e = d THEN Tail(toBus[d]) ELSE toBus[e]
  BY <1>1, Zenon
<1> QED
  BY <1>1, <1>2, <1>3, Zenon

\* ServeDriver: a driver that says yes gets a device that nobody has claimed, and
\* so one that was given to nobody.
LEMMA ClaimInv ==
    ASSUME BusInv, NEW d \in DeviceDrivers, NEW name \in DOMAIN devices, devices[name].by = None,
           devices' = [devices EXCEPT ![name] = Claimed(@.device, d)],
           toDriver' = [toDriver EXCEPT ![d] = Append(@,
               [kind |-> "HandoffDevice", name |-> name, device |-> devices[name].device])],
           fromBus' = fromBus, driving' = driving, clients' = clients,
           toBus' \in [DeviceDrivers -> Seq(Answers)],
           \A e \in DeviceDrivers : AnswersKnown(toBus'[e], DOMAIN devices)
    PROVE  BusInv'
<1>1. PICK x0 : x0 = devices[name].device
  BY Zenon
<1>2. PICK m : m = [kind |-> "HandoffDevice", name |-> name, device |-> x0]
  BY Zenon
<1>3. x0 \in BusDevices /\ x0.name = name
  BY <1>1, Zenon DEF BusInv, BusTypes
<1>4. m \in Orders /\ m.name = name /\ \A x : HandsOver(m, x) <=> x = x0
  BY <1>2, <1>3 DEF Orders, Names, HandsOver
<1>5. /\ DOMAIN devices' = DOMAIN devices
      /\ \A n \in DOMAIN devices : devices'[n] = IF n = name THEN Claimed(x0, d) ELSE devices[n]
  BY <1>1, Zenon
<1>6. Claimed(x0, d).device = x0 /\ Claimed(x0, d).by = d
  BY Zenon DEF Claimed
<1>7. \A n \in DOMAIN devices : devices'[n].device = devices[n].device
  BY <1>1, <1>5, <1>6, Zenon
<1>8. toDriver \in [DeviceDrivers -> Seq(Orders)] /\ toDriver[d] \in Seq(Orders)
  BY Zenon DEF BusInv, BusTypes
<1>9. \A e \in DeviceDrivers : toDriver'[e] = IF e = d THEN Append(toDriver[d], m) ELSE toDriver[e]
  BY <1>1, <1>2, <1>8, Zenon
<1>10. /\ Append(toDriver[d], m) \in Seq(Orders)
       /\ \A x : HandedIn(Append(toDriver[d], m), x) <=> HandedIn(toDriver[d], x) \/ x = x0
       /\ \A x : NotTwiceHanded(toDriver[d], x) /\ ~(HandedIn(toDriver[d], x) /\ x = x0)
                    => NotTwiceHanded(Append(toDriver[d], m), x)
       /\ \A names : OrdersKnown(toDriver[d], names) /\ name \in names
                        => OrdersKnown(Append(toDriver[d], m), names)
  BY <1>4, <1>8, OrderSent, Zenon
<1>11. toDriver' \in [DeviceDrivers -> Seq(Orders)]
  BY <1>1, <1>2, <1>8, <1>10, Zenon
<1>12. \A e \in DeviceDrivers : ~GivenTo(x0, e)
  BY <1>1, BusAssumption, Zenon DEF BusInv, GivenOnce
<1>13. \A e \in DeviceDrivers : \A x :
         HandedIn(toDriver'[e], x) <=> HandedIn(toDriver[e], x) \/ (e = d /\ x = x0)
  BY <1>9, <1>10, Zenon
<1>14. ASSUME NEW e \in DeviceDrivers, NEW x
       PROVE  GivenTo(x, e)' <=> GivenTo(x, e) \/ (e = d /\ x = x0)
  BY <1>13, GivenIs, Zenon
<1>15. ASSUME NEW x PROVE (OnBus(x)' <=> OnBus(x)) /\ (Driven(x)' <=> Driven(x))
  BY <1>5, <1>7, Zenon DEF OnBus, Driven
<1>16. BusTypes'
  <2>1. ASSUME NEW n \in DOMAIN devices'
        PROVE  /\ devices'[n].device \in BusDevices /\ devices'[n].device.name = n
               /\ devices'[n].by \in DeviceDrivers \cup {None}
    <3>1. /\ n \in DOMAIN devices /\ devices[n].device \in BusDevices /\ devices[n].device.name = n
          /\ devices[n].by \in DeviceDrivers \cup {None}
      BY <1>5, Zenon DEF BusInv, BusTypes
    <3>2. devices'[n].by \in DeviceDrivers \cup {None}
      BY <1>5, <1>6, <3>1, Zenon
    <3> QED
      BY <1>7, <3>1, <3>2, Zenon
  <2> QED
    BY <1>11, <2>1, Zenon DEF BusInv, BusTypes
<1>17. ASSUME NEW e \in DeviceDrivers
       PROVE  AnswersKnown(toBus'[e], DOMAIN devices') /\ OrdersKnown(toDriver'[e], DOMAIN devices')
  BY <1>5, <1>9, <1>10, Zenon DEF BusInv
<1>18. devices' # <<>>
  <2>1. DOMAIN <<>> = {}
    OBVIOUS
  <2> QED
    BY <1>5, <2>1, Zenon
<1>19. GivenOnce'
  <2>1. GivenOnce
    BY Zenon DEF BusInv
  <2>2. ASSUME NEW n \in DOMAIN devices', NEW e \in DeviceDrivers
        PROVE  (GivenTo(devices[n].device, e) <=> devices[n].by = e)'
    <3>1. PICK y : y = devices'[n].device
      BY Zenon
    <3>2. GivenTo(devices[n].device, e)' <=> GivenTo(y, e)'
      BY <3>1, Zenon DEF GivenTo
    <3>3. CASE n = name
      BY <1>5, <1>6, <1>12, <1>14, <3>1, <3>2, <3>3, Zenon
    <3>4. CASE n # name
      <4>1. n \in DOMAIN devices /\ devices'[n] = devices[n] /\ y.name = n
        BY <1>5, <3>1, <3>4, Zenon DEF BusInv, BusTypes
      <4>2. GivenTo(y, e) <=> devices[n].by = e
        BY <2>1, <3>1, <4>1, Zenon DEF GivenOnce
      <4> QED
        BY <1>3, <1>14, <3>2, <3>4, <4>1, <4>2, Zenon
    <3> QED
      BY <3>3, <3>4, Zenon
  <2>0. \A e \in DeviceDrivers : x0 \notin driving[e] /\ ~HandedIn(toDriver[e], x0)
    BY <1>12, GivenIs, Zenon
  <2>3. \A x \in BusDevices, e \in DeviceDrivers : x \in driving'[e] => ~HandedIn(toDriver'[e], x)
    <3> SUFFICES ASSUME NEW x \in BusDevices, NEW e \in DeviceDrivers, x \in driving'[e]
                 PROVE  ~HandedIn(toDriver'[e], x)
      BY Zenon
    <3>1. x \in driving[e]
      BY Zenon
    <3>2. x # x0 /\ ~HandedIn(toDriver[e], x)
      BY <2>0, <2>1, <3>1, Zenon DEF GivenOnce
    <3> QED
      BY <1>13, <3>2, Zenon
  <2>4. \A x \in BusDevices, e \in DeviceDrivers : NotTwiceHanded(toDriver'[e], x)
    <3> SUFFICES ASSUME NEW x \in BusDevices, NEW e \in DeviceDrivers
                 PROVE  NotTwiceHanded(toDriver'[e], x)
      BY Zenon
    <3>1. NotTwiceHanded(toDriver[e], x)
      BY <2>1, Zenon DEF GivenOnce
    <3>2. CASE e # d
      BY <1>9, <3>1, <3>2, Zenon
    <3>3. CASE e = d
      <4>1. NotTwiceHanded(Append(toDriver[d], m), x)
        BY <1>10, <2>0, <3>1, <3>3, Zenon
      <4> QED
        BY <1>9, <3>3, <4>1, Zenon
    <3> QED
      BY <3>2, <3>3, Zenon
  <2>5. \A x \in BusDevices : \A e, f \in DeviceDrivers : GivenTo(x, e)' /\ GivenTo(x, f)' => e = f
    <3> SUFFICES ASSUME NEW x \in BusDevices, NEW e \in DeviceDrivers, NEW f \in DeviceDrivers,
                        GivenTo(x, e)', GivenTo(x, f)'
                 PROVE  e = f
      BY Zenon
    <3>1. GivenTo(x, e) \/ (e = d /\ x = x0)
      BY <1>14, Zenon
    <3>2. GivenTo(x, f) \/ (f = d /\ x = x0)
      BY <1>14, Zenon
    <3>3. GivenTo(x, e) /\ GivenTo(x, f) => e = f
      BY <2>1, Zenon DEF GivenOnce
    <3> QED
      BY <1>12, <3>1, <3>2, <3>3, Zenon
  <2> QED
    BY <2>2, <2>3, <2>4, <2>5, Zenon DEF GivenOnce
<1>20. OnBus(x0)
  BY <1>1, <1>3, Zenon DEF OnBus
<1>21. RegisteredOnce'
  <2>1. RegisteredOnce
    BY Zenon DEF BusInv
  <2> QED
    BY <1>3, <1>14, <1>15, <1>20, <2>1, Zenon DEF RegisteredOnce
<1>22. Led'
  <2>1. ASSUME NEW x, Met(x)' PROVE Met(x)
    BY <1>14, <1>15, <1>20, <2>1, Zenon DEF Met
  <2> QED
    BY <1>15, <2>1, Zenon DEF BusInv, Led
<1> QED
  BY <1>16, <1>17, <1>18, <1>19, <1>21, <1>22, Zenon DEF BusInv

\* ServeDriver: the filters of a driver are asked for, or it answers.
LEMMA ServeDriverInv ==
    ASSUME BusInv, NEW d \in DeviceDrivers, ServeDriver(d)
    PROVE  BusInv'
<1>1. /\ toBus[d] # <<>> /\ toBus' = [toBus EXCEPT ![d] = Tail(@)]
      /\ clients' = clients /\ fromBus' = fromBus /\ driving' = driving
  BY Zenon DEF ServeDriver
<1>2. PICK m : m = Head(toBus[d])
  BY Zenon
<1>3. /\ toBus' \in [DeviceDrivers -> Seq(Answers)]
      /\ \A e \in DeviceDrivers : AnswersKnown(toBus'[e], DOMAIN devices)
      /\ m.kind = "CanSupport" => m.name \in DOMAIN devices
  BY <1>1, <1>2, AnswerRead, Zenon
<1>4. ASSUME devices' = devices, toDriver' \in [DeviceDrivers -> Seq(Orders)],
             \A e \in DeviceDrivers : \A x : HandedIn(toDriver'[e], x) <=> HandedIn(toDriver[e], x),
             \A e \in DeviceDrivers : \A x :
                NotTwiceHanded(toDriver[e], x) => NotTwiceHanded(toDriver'[e], x),
             \A e \in DeviceDrivers :
                OrdersKnown(toDriver[e], DOMAIN devices) => OrdersKnown(toDriver'[e], DOMAIN devices)
      PROVE  BusInv'
  <2>1. GivenOnce' /\ RegisteredOnce' /\ Led'
    BY <1>1, <1>4, NothingMoves, Zenon
  <2>2. BusTypes'
    BY <1>1, <1>3, <1>4, Zenon DEF BusInv, BusTypes
  <2>3. \A e \in DeviceDrivers :
          AnswersKnown(toBus'[e], DOMAIN devices') /\ OrdersKnown(toDriver'[e], DOMAIN devices')
    BY <1>3, <1>4, Zenon DEF BusInv
  <2>4. devices # <<>>
    BY Zenon DEF BusInv, Quiet, ServeDriver
  <2> QED
    BY <1>4, <2>1, <2>2, <2>3, <2>4, Zenon DEF BusInv
<1>5. CASE m.kind = "RegisterInterest" /\ set_filters(d, m.filters) /\ devices' = devices
  <2>1. PICK fs : fs = filters'
    BY Zenon
  <2>2. check_devices(devices, fs)
    BY <1>5, <2>1, Zenon DEF set_filters
  <2>3. /\ toDriver \in [DeviceDrivers -> Seq(Orders)]
        /\ \A name \in DOMAIN devices : /\ devices[name].device \in BusDevices
                                         /\ devices[name].device.name = name
    BY Zenon DEF BusInv, BusTypes
  <2> QED
    BY <1>4, <1>5, <2>2, <2>3, Checked, Zenon
<1>6. CASE m.kind = "CanSupport" /\ claims(d, m.name)
           /\ devices' = [devices EXCEPT ![m.name] = Claimed(@.device, d)]
           /\ toDriver' = [toDriver EXCEPT ![d] = Append(@,
                  [kind |-> "HandoffDevice", name |-> m.name, device |-> devices[m.name].device])]
  <2>1. PICK name : name = m.name
    BY Zenon
  <2>2. name \in DOMAIN devices /\ devices[name].by = None
    BY <1>3, <1>6, <2>1, Zenon DEF claims
  <2> QED
    BY <1>1, <1>3, <1>6, <2>1, <2>2, ClaimInv, Zenon
<1>7. CASE devices' = devices /\ toDriver' = toDriver
  BY <1>4, <1>7, Zenon DEF BusInv, BusTypes
<1> QED
  BY <1>2, <1>5, <1>6, <1>7, Zenon DEF ServeDriver

\* A driver answers a query.
LEMMA AnswerQueryInv ==
    ASSUME BusInv, NEW d \in DeviceDrivers, DriverReceives(d), AnswerQuery(d, Head(toDriver[d]))
    PROVE  BusInv'
<1>1. PICK m : m = Head(toDriver[d])
  BY Zenon
<1>2. /\ m.kind = "QuerySupport" /\ driving' = driving /\ fromBus' = fromBus
      /\ devices' = devices /\ clients' = clients
      /\ toDriver[d] # <<>> /\ toDriver' = [toDriver EXCEPT ![d] = Tail(@)]
  BY <1>1, Zenon DEF DriverReceives, AnswerQuery
<1>3. PICK a : a = [kind |-> "CanSupport", name |-> m.name,
                    supported |-> Supports(d, m.device.properties)]
  BY Zenon
<1>4. toBus' = [toBus EXCEPT ![d] = Append(@, a)]
  BY <1>1, <1>3, Zenon DEF AnswerQuery
<1>5. /\ toDriver \in [DeviceDrivers -> Seq(Orders)] /\ toDriver[d] \in Seq(Orders)
      /\ toBus \in [DeviceDrivers -> Seq(Answers)] /\ toBus[d] \in Seq(Answers)
  BY Zenon DEF BusInv, BusTypes
<1>6. /\ m \in Orders /\ Tail(toDriver[d]) \in Seq(Orders)
      /\ \A x : HandedIn(toDriver[d], x) <=> HandedIn(Tail(toDriver[d]), x) \/ HandsOver(m, x)
      /\ \A x : NotTwiceHanded(toDriver[d], x) => NotTwiceHanded(Tail(toDriver[d]), x)
      /\ \A names : OrdersKnown(toDriver[d], names) =>
                        OrdersKnown(Tail(toDriver[d]), names) /\ m.name \in names
  BY <1>1, <1>2, <1>5, OrdersAfter, Zenon
<1>7. \A x : ~HandsOver(m, x)
  BY <1>2, Zenon DEF HandsOver
<1>8. m.name \in Names /\ m.device \in BusDevices
  BY <1>6 DEF Orders
<1>9. a \in Answers /\ a.name = m.name
  <2>1. Supports(d, m.device.properties) \in Verdicts
    BY <1>8 DEF Verdicts
  <2> QED
    BY <1>3, <1>8, <2>1, Zenon DEF Answers
<1>10. /\ toDriver' \in [DeviceDrivers -> Seq(Orders)]
       /\ \A e \in DeviceDrivers : toDriver'[e] = IF e = d THEN Tail(toDriver[d]) ELSE toDriver[e]
  BY <1>2, <1>5, <1>6, Zenon
<1>11. GivenOnce' /\ RegisteredOnce' /\ Led'
  <2>1. \A e \in DeviceDrivers : \A x :
          /\ HandedIn(toDriver'[e], x) <=> HandedIn(toDriver[e], x)
          /\ NotTwiceHanded(toDriver[e], x) => NotTwiceHanded(toDriver'[e], x)
    BY <1>6, <1>7, <1>10, Zenon
  <2> QED
    BY <1>2, <2>1, NothingMoves, Zenon
<1>12. /\ OrdersKnown(Tail(toDriver[d]), DOMAIN devices) /\ m.name \in DOMAIN devices
  BY <1>6, Zenon DEF BusInv
<1>13. Append(toBus[d], a) \in Seq(Answers) /\ AnswersKnown(Append(toBus[d], a), DOMAIN devices)
  <2>1. AnswersKnown(toBus[d], DOMAIN devices)
    BY Zenon DEF BusInv
  <2> QED
    BY <1>5, <1>9, <1>12, <2>1, AnswerSent, Zenon
<1>14. /\ toBus' \in [DeviceDrivers -> Seq(Answers)]
       /\ \A e \in DeviceDrivers : toBus'[e] = IF e = d THEN Append(toBus[d], a) ELSE toBus[e]
  BY <1>4, <1>5, <1>13, Zenon
<1>15. BusTypes'
  BY <1>2, <1>10, <1>14, Zenon DEF BusInv, BusTypes
<1>16. \A e \in DeviceDrivers :
         AnswersKnown(toBus'[e], DOMAIN devices') /\ OrdersKnown(toDriver'[e], DOMAIN devices')
  BY <1>2, <1>10, <1>12, <1>13, <1>14, Zenon DEF BusInv
<1>17. devices # <<>>
  BY <1>2, Zenon DEF BusInv, Quiet
<1> QED
  BY <1>2, <1>11, <1>15, <1>16, <1>17, Zenon DEF BusInv

\* A driver starts to drive a device: the ones it leads to were not met before,
\* since nobody drove it.
LEMMA StartDrivingInv ==
    ASSUME BusInv, NEW d \in DeviceDrivers, DriverReceives(d), StartDriving(d, Head(toDriver[d]))
    PROVE  BusInv'
<1>1. PICK m : m = Head(toDriver[d])
  BY Zenon
<1>2. PICK x0 : x0 = m.device
  BY Zenon
<1>3. /\ m.kind = "HandoffDevice" /\ driving' = [driving EXCEPT ![d] = @ \cup {x0}] /\ toBus' = toBus
      /\ devices' = devices /\ clients' = clients
      /\ toDriver[d] # <<>> /\ toDriver' = [toDriver EXCEPT ![d] = Tail(@)]
  BY <1>1, <1>2, Zenon DEF DriverReceives, StartDriving
<1>4. PICK below : below = { x \in BusDevices : x.parent = x0.id }
  BY Zenon
<1>5. PICK s \in Listings(below) : fromBus' = [fromBus EXCEPT ![d] = @ \o s]
  BY <1>1, <1>2, <1>4, Zenon DEF StartDriving
<1>6. s \in Seq(BusDevices) /\ NotTwice(s) /\ \A i \in DOMAIN s : s[i] \in below
  BY <1>4, <1>5, ListedOnce, Zenon
<1>7. /\ toDriver \in [DeviceDrivers -> Seq(Orders)] /\ toDriver[d] \in Seq(Orders)
      /\ fromBus \in [DeviceDrivers -> Seq(BusDevices)] /\ fromBus[d] \in Seq(BusDevices)
      /\ driving \in [DeviceDrivers -> SUBSET BusDevices]
  BY Zenon DEF BusInv, BusTypes
<1>8. /\ m \in Orders /\ Tail(toDriver[d]) \in Seq(Orders)
      /\ \A x : HandedIn(toDriver[d], x) <=> HandedIn(Tail(toDriver[d]), x) \/ HandsOver(m, x)
      /\ \A x : NotTwiceHanded(toDriver[d], x) =>
                   /\ NotTwiceHanded(Tail(toDriver[d]), x)
                   /\ ~(HandsOver(m, x) /\ HandedIn(Tail(toDriver[d]), x))
      /\ \A names : OrdersKnown(toDriver[d], names) => OrdersKnown(Tail(toDriver[d]), names)
  BY <1>1, <1>3, <1>7, OrdersAfter, Zenon
<1>9. x0 \in BusDevices /\ \A x : HandsOver(m, x) <=> x = x0
  <2>1. m.device \in BusDevices
    BY <1>8 DEF Orders
  <2> QED
    BY <1>2, <1>3, <2>1, Zenon DEF HandsOver
<1>10. /\ toDriver' \in [DeviceDrivers -> Seq(Orders)]
       /\ \A e \in DeviceDrivers : toDriver'[e] = IF e = d THEN Tail(toDriver[d]) ELSE toDriver[e]
  BY <1>3, <1>7, <1>8, Zenon
<1>11. \A e \in DeviceDrivers : driving'[e] = IF e = d THEN driving[d] \cup {x0} ELSE driving[e]
  BY <1>3, <1>7, Zenon
<1>12. driving' \in [DeviceDrivers -> SUBSET BusDevices]
  BY <1>3, <1>7, <1>9, Zenon
<1>13. GivenOnce /\ RegisteredOnce /\ Led
  BY Zenon DEF BusInv
<1>14. HandedIn(toDriver[d], x0) /\ GivenTo(x0, d) /\ x0 \notin driving[d] /\ ~HandedIn(Tail(toDriver[d]), x0)
  BY <1>8, <1>9, <1>13, GivenIs, Zenon DEF GivenOnce
<1>15. ASSUME NEW e \in DeviceDrivers, NEW x PROVE GivenTo(x, e)' <=> GivenTo(x, e)
  <2>1. GivenTo(x, e) <=> x \in driving[e] \/ HandedIn(toDriver[e], x)
    BY GivenIs, Zenon
  <2>2. GivenTo(x, e)' <=> x \in driving'[e] \/ HandedIn(toDriver'[e], x)
    BY GivenIs, Zenon
  <2>3. CASE e = d
    BY <1>8, <1>9, <1>10, <1>11, <2>1, <2>2, <2>3, Zenon
  <2>4. CASE e # d
    BY <1>10, <1>11, <2>1, <2>2, <2>4, Zenon
  <2> QED
    BY <2>3, <2>4, Zenon
<1>16. ASSUME NEW x \in below PROVE x \in BusDevices /\ x.parent = x0.id /\ ~Met(x)
  <2>1. x \in BusDevices /\ x.parent = x0.id
    BY <1>4, Zenon
  <2>2. x \notin KernelDevices
    BY <1>9, <2>1, BusAssumption, Zenon
  <2>3. ASSUME Driven(x) PROVE FALSE
    <3>1. PICK p \in BusDevices, e \in DeviceDrivers : p.id = x.parent /\ p \in driving[e]
      BY <2>3, Zenon DEF Driven
    <3>2. p = x0
      BY <1>9, <2>1, <3>1, BusAssumption, Zenon
    <3>3. GivenTo(x0, e)
      BY <3>1, <3>2, GivenIs, Zenon
    <3>4. e = d
      BY <1>9, <1>13, <1>14, <3>3, Zenon DEF GivenOnce
    <3> QED
      BY <1>14, <3>1, <3>2, <3>4, Zenon
  <2> QED
    BY <1>13, <2>1, <2>2, <2>3, Zenon DEF Led
<1>17. \A x : Within(s, x) => x \in below
  BY <1>6, Zenon DEF Within
<1>18. \A x \in below : ~OnBus(x) /\ \A e \in DeviceDrivers : ~Within(fromBus[e], x) /\ ~GivenTo(x, e)
  BY <1>16, Zenon DEF Met
<1>19. /\ fromBus[d] \o s \in Seq(BusDevices) /\ NotTwice(fromBus[d] \o s)
       /\ \A x : Within(fromBus[d] \o s, x) <=> Within(fromBus[d], x) \/ Within(s, x)
  <2>1. NotTwice(fromBus[d]) /\ \A x \in BusDevices : ~(Within(fromBus[d], x) /\ Within(s, x))
    BY <1>13, <1>17, <1>18, Zenon DEF RegisteredOnce
  <2> QED
    BY <1>6, <1>7, <2>1, MoreRegistrations, Zenon
<1>20. /\ fromBus' \in [DeviceDrivers -> Seq(BusDevices)]
       /\ \A e \in DeviceDrivers : fromBus'[e] = IF e = d THEN fromBus[d] \o s ELSE fromBus[e]
  BY <1>5, <1>7, <1>19, Zenon
<1>21. ASSUME NEW e \in DeviceDrivers, NEW x
       PROVE  Within(fromBus'[e], x) <=> Within(fromBus[e], x) \/ (e = d /\ Within(s, x))
  BY <1>19, <1>20, Zenon
<1>22. ASSUME NEW x PROVE OnBus(x)' <=> OnBus(x)
  BY <1>3, Zenon DEF OnBus
<1>23. GivenOnce'
  <2>1. ASSUME NEW x \in BusDevices, NEW e \in DeviceDrivers, x \in driving'[e] PROVE ~HandedIn(toDriver'[e], x)
    <3>1. CASE e = d
      BY <1>8, <1>10, <1>11, <1>13, <1>14, <2>1, <3>1, Zenon DEF GivenOnce
    <3>2. CASE e # d
      BY <1>10, <1>11, <1>13, <2>1, <3>2, Zenon DEF GivenOnce
    <3> QED
      BY <3>1, <3>2, Zenon
  <2>2. \A x \in BusDevices, e \in DeviceDrivers : NotTwiceHanded(toDriver'[e], x)
    <3>1. \A x \in BusDevices, e \in DeviceDrivers : NotTwiceHanded(toDriver[e], x)
      BY <1>13, Zenon DEF GivenOnce
    <3> QED
      BY <1>8, <1>10, <3>1, Zenon
  <2>3. \A name \in DOMAIN devices', e \in DeviceDrivers :
          (GivenTo(devices[name].device, e) <=> devices[name].by = e)'
    BY <1>3, <1>13, <1>15, Zenon DEF GivenOnce
  <2> QED
    BY <1>13, <1>15, <2>1, <2>2, <2>3, Zenon DEF GivenOnce
<1>24. RegisteredOnce'
  <2>1. \A e \in DeviceDrivers : NotTwice(fromBus'[e])
    BY <1>13, <1>19, <1>20, Zenon DEF RegisteredOnce
  <2>2. ASSUME NEW x \in BusDevices, NEW e \in DeviceDrivers, NEW f \in DeviceDrivers, Within(fromBus'[e], x)
        PROVE  ~OnBus(x)' /\ ~GivenTo(x, f)'
    BY <1>13, <1>15, <1>17, <1>18, <1>21, <1>22, <2>2, Zenon DEF RegisteredOnce
  <2>3. ASSUME NEW x \in BusDevices, NEW e \in DeviceDrivers, NEW f \in DeviceDrivers,
               Within(fromBus'[e], x), Within(fromBus'[f], x)
        PROVE  e = f
    BY <1>13, <1>17, <1>18, <1>21, <2>3, Zenon DEF RegisteredOnce
  <2> QED
    BY <2>1, <2>2, <2>3, Zenon DEF RegisteredOnce
<1>25. Led'
  <2>1. ASSUME NEW x, Driven(x) PROVE Driven(x)'
    BY <1>11, <2>1, Zenon DEF Driven
  <2>2. ASSUME NEW x \in below PROVE Driven(x)'
    BY <1>9, <1>11, <1>16, Zenon DEF Driven
  <2>3. ASSUME NEW x, Met(x)' PROVE Met(x) \/ x \in below
    BY <1>15, <1>17, <1>21, <1>22, <2>3, Zenon DEF Met
  <2> QED
    BY <1>13, <2>1, <2>2, <2>3, Zenon DEF Led
<1>26. BusTypes'
  BY <1>3, <1>10, <1>12, <1>20, Zenon DEF BusInv, BusTypes
<1>27. \A e \in DeviceDrivers :
         AnswersKnown(toBus'[e], DOMAIN devices') /\ OrdersKnown(toDriver'[e], DOMAIN devices')
  BY <1>3, <1>8, <1>10, Zenon DEF BusInv
<1>28. devices # <<>>
  BY <1>3, Zenon DEF BusInv, Quiet
<1> QED
  BY <1>3, <1>23, <1>24, <1>25, <1>26, <1>27, <1>28, Zenon DEF BusInv

-----------------------------------------------------------------------------

\* Along every behaviour of the bus and its drivers, each device waits to be
\* registered in one queue at most, and is given away only after it was on the
\* bus; a driver registers the devices below one when it starts to drive it.
THEOREM BusKept == PlatformBusSpec => []BusInv
<1>1. BusInv /\ [PlatformBusNext]_bvars => BusInv'
  <2> SUFFICES ASSUME BusInv, [PlatformBusNext]_bvars PROVE BusInv'
    BY Zenon
  <2>1. CASE EnumeratePci
    BY <2>1, EnumeratePciInv, Zenon
  <2>2. ASSUME NEW d, NEW service, NewClient(service, d) PROVE BusInv'
    BY <2>2, NewClientInv, Zenon
  <2>3. ASSUME NEW d \in DeviceDrivers, RegisterInterest(d) PROVE BusInv'
    BY <2>3, RegisterInterestInv, Zenon
  <2>4. ASSUME NEW d \in DeviceDrivers, RegisterDevice(d) PROVE BusInv'
    BY <2>4, RegisterDeviceInv, Zenon
  <2>5. ASSUME NEW d \in DeviceDrivers, ServeDriver(d) PROVE BusInv'
    BY <2>5, ServeDriverInv, Zenon
  <2>6. ASSUME NEW d \in DeviceDrivers, DriverReceives(d) PROVE BusInv'
    BY <2>6, AnswerQueryInv, StartDrivingInv, Zenon DEF DriverReceives
  <2>7. CASE UNCHANGED bvars
    <3>1. /\ devices' = devices /\ clients' = clients /\ fromBus' = fromBus /\ toBus' = toBus
          /\ toDriver' = toDriver /\ driving' = driving
      BY <2>7, Zenon DEF bvars
    <3>2. GivenOnce' /\ RegisteredOnce' /\ Led'
      BY <3>1, NothingMoves, Zenon
    <3>3. BusTypes'
      BY <3>1, Zenon DEF BusInv, BusTypes
    <3>4. Quiet => Quiet'
      BY <3>1, Zenon DEF Quiet
    <3> QED
      BY <3>1, <3>2, <3>3, <3>4, Zenon DEF BusInv
  <2> QED
    BY <2>1, <2>2, <2>3, <2>4, <2>5, <2>6, <2>7, Zenon DEF PlatformBusNext, FutureReads
<1> QED
  BY <1>1, BusInitially, PTL DEF PlatformBusSpec

\* A device is given to one driver at most, to nobody while the bus holds it as
\* unclaimed, and to its claimant once it is claimed, for any number of devices
\* and drivers, whatever they answer, and in whatever order.
THEOREM DevicesHandedOffOnce == PlatformBusSpec => []HandedOffOnce
<1>1. BusInv => HandedOffOnce
  BY Zenon DEF BusInv, GivenOnce, HandedOffOnce
<1> QED
  BY <1>1, BusKept, PTL
=============================================================================
