----------------------------- MODULE Scheduler ------------------------------
(***************************************************************************)
(* The kernel's scheduler (kernel/src/scheduler.rs): one CPU, a queue of   *)
(* ready tasks, and the address space that is installed while a task runs. *)
(* A task gives the CPU up only in a system call; nothing preempts it.     *)
(* Scheduling is done under the scheduler's lock by the only CPU, so a     *)
(* call of schedule is one step.  An assertion that fails stops the kernel *)
(* and is remembered in `panicked`.                                        *)
(***************************************************************************)
EXTENDS Integers, Sequences

CONSTANTS
    Tasks,      \* every task there can be
    Bootstrap,  \* the one load_userspace makes
    NoTask,     \* `None` in place of a task
    Space,      \* Space[t]: the address space task t lives in
    Tasklets    \* the kernel's asynchronous tasklets

ASSUME TasksAssumption == Bootstrap \in Tasks /\ NoTask \notin Tasks

Spaces == { Space[t] : t \in Tasks }

VARIABLES
    running_task,   \* the task on the CPU
    ready_queue,
    blocked_queue,
    state,          \* Task::state, "none" before the task is created
    space_state,    \* AddressSpace::state
    page_table,     \* the address space whose page table is installed
    woken,          \* the tasklets that are to be polled
    panicked        \* the assertion that failed, "no" while none has

svars == <<running_task, ready_queue, blocked_queue, state, space_state,
           page_table, woken, panicked>>

SchedulerInit ==
    /\ running_task = NoTask
    /\ ready_queue = <<>>
    /\ blocked_queue = <<>>
    /\ state = [t \in Tasks |-> "none"]
    /\ space_state = [s \in Spaces |-> "NotActive"]
    /\ page_table = NoTask
    /\ woken = {}
    /\ panicked = "no"

-----------------------------------------------------------------------------

\* TaskletScheduler::tick polls every tasklet that has been woken.
Tick == woken' = {}

\* A waker wakes a tasklet, from an interrupt handler or a timer.
Wake(tasklet) ==
    /\ panicked = "no"
    /\ tasklet \notin woken
    /\ woken' = woken \cup {tasklet}
    /\ UNCHANGED <<running_task, ready_queue, blocked_queue, state, space_state,
                   page_table, panicked>>

\* Mutant of AddTask: the new task goes to the front of the queue.
AddTaskFirst(task) ==
    /\ state[task] = "none"
    /\ state' = [state EXCEPT ![task] = "Ready"]
    /\ ready_queue' = <<task>> \o ready_queue
    /\ UNCHANGED <<running_task, blocked_queue, space_state, page_table, woken, panicked>>

\* Task::new makes the task Ready, and add_task queues it.
AddTask(task) ==
    /\ state[task] = "none"
    /\ state' = [state EXCEPT ![task] = "Ready"]
    /\ ready_queue' = Append(ready_queue, task)
    /\ UNCHANGED <<running_task, blocked_queue, space_state, page_table, woken, panicked>>

\* load_userspace, before scheduling starts.
LoadUserspace ==
    /\ panicked = "no"
    /\ running_task = NoTask
    /\ AddTask(Bootstrap)

\* spawn_task: the running task starts another one.
SpawnTask(task) ==
    /\ panicked = "no"
    /\ running_task # NoTask
    /\ AddTask(task)

\* start_scheduling and drop_to_userspace; there is at least the bootstrap task.
StartScheduling ==
    /\ panicked = "no"
    /\ running_task = NoTask
    /\ ready_queue # <<>>
    /\ LET task == Head(ready_queue) IN
       IF state[task] # "Ready" \/ space_state[Space[task]] # "NotActive"
         THEN /\ panicked' = "start_scheduling"
              /\ Tick
              /\ UNCHANGED <<running_task, ready_queue, blocked_queue, state,
                             space_state, page_table>>
         ELSE /\ Tick
              /\ ready_queue' = Tail(ready_queue)
              /\ state' = [state EXCEPT ![task] = "Running"]
              /\ running_task' = task
              /\ page_table' = Space[task]
              /\ space_state' = [space_state EXCEPT ![Space[task]] = "Active"]
              /\ UNCHANGED <<blocked_queue, panicked>>

\* Mutant of SwitchSpaces: the new address space is entered before the old one
\* is left.
EnterThenLeave(from, to) ==
    IF space_state[from] # "Active" \/ space_state[to] # "NotActive"
      THEN panicked' = "address space" /\ UNCHANGED <<space_state, page_table>>
      ELSE /\ space_state' = [[space_state EXCEPT ![to] = "Active"] EXCEPT ![from] = "NotActive"]
           /\ page_table' = to
           /\ UNCHANGED panicked

\* AddressSpace::switch_from, then AddressSpace::switch_to; the two may be the
\* same address space.
SwitchSpaces(from, to) ==
    LET left == [space_state EXCEPT ![from] = "NotActive"] IN
    IF space_state[from] # "Active" \/ left[to] # "NotActive"
      THEN panicked' = "address space" /\ UNCHANGED <<space_state, page_table>>
      ELSE /\ space_state' = [left EXCEPT ![to] = "Active"]
           /\ page_table' = to
           /\ UNCHANGED panicked

\* Mutant of Requeue: the task that gives up the CPU goes back to the front.
RequeueFirst(task, new_state) ==
    /\ ready_queue' = IF new_state = "Ready" THEN <<task>> \o Tail(ready_queue)
                                             ELSE Tail(ready_queue)
    /\ blocked_queue' = IF new_state = "Blocked" THEN Append(blocked_queue, task)
                                                 ELSE blocked_queue

\* The task that was running goes to the end of the queue its new state says;
\* the one at the head of the ready queue has been taken from it.
Requeue(task, new_state) ==
    /\ ready_queue' = IF new_state = "Ready" THEN Append(Tail(ready_queue), task)
                                             ELSE Tail(ready_queue)
    /\ blocked_queue' = IF new_state = "Blocked" THEN Append(blocked_queue, task)
                                                 ELSE blocked_queue

\* Scheduler::switch_to.
SwitchTo(current, next, new_state) ==
    IF state[current] # "Running" \/ state[next] # "Ready"
      THEN /\ panicked' = "switch_to"
           /\ UNCHANGED <<running_task, ready_queue, blocked_queue, state,
                          space_state, page_table>>
      ELSE /\ running_task' = next
           /\ state' = [state EXCEPT ![next] = "Running", ![current] = new_state]
           /\ Requeue(current, new_state)
           /\ SwitchSpaces(Space[current], Space[next])

\* Scheduler::schedule: poll the tasklets, then switch to the next ready task,
\* or go on with the current one if there is no other.
Schedule(new_state) ==
    /\ panicked = "no"
    /\ running_task # NoTask
    /\ Tick
    /\ IF ready_queue = <<>>
         THEN UNCHANGED <<running_task, ready_queue, blocked_queue, state,
                          space_state, page_table, panicked>>
         ELSE SwitchTo(running_task, Head(ready_queue), new_state)

\* The yield system call.
YieldSyscall == Schedule("Ready")

SchedulerNext ==
    \/ LoadUserspace
    \/ StartScheduling
    \/ YieldSyscall
    \/ \E t \in Tasks : SpawnTask(t)
    \/ \E tasklet \in Tasklets : Wake(tasklet)

\* The scheduler by itself, under tasks that start others and yield at will.
SchedulerSpec == SchedulerInit /\ [][SchedulerNext]_svars

-----------------------------------------------------------------------------

\* Type correctness of the scheduler's state.
SchedulerTypeOK ==
    /\ running_task \in Tasks \cup {NoTask}
    /\ ready_queue \in Seq(Tasks)
    /\ blocked_queue \in Seq(Tasks)
    /\ state \in [Tasks -> {"none", "Ready", "Running", "Blocked"}]
    /\ space_state \in [Spaces -> {"NotActive", "Active"}]
    /\ page_table \in Spaces \cup {NoTask}
    /\ woken \in SUBSET Tasklets

\* Every task there is, is in exactly one place, once: on the CPU if its state
\* is Running, in the ready queue if it is Ready.  Through every spawn and
\* every switch no task is lost and none is queued twice.
OnePlace ==
    /\ running_task # NoTask => state[running_task] = "Running"
    /\ \A i \in DOMAIN ready_queue : state[ready_queue[i]] = "Ready"
    /\ \A i, j \in DOMAIN ready_queue : ready_queue[i] = ready_queue[j] => i = j
    /\ \A t \in Tasks : state[t] = "Running" => t = running_task
    /\ \A t \in Tasks : state[t] = "Ready" => \E i \in DOMAIN ready_queue : ready_queue[i] = t
    /\ \A t \in Tasks : state[t] # "Blocked"
    /\ blocked_queue = <<>>

\* The installed page table is always that of the running task, its address
\* space is the one that is Active and no other is, also when two tasks share
\* an address space; so the assertions of AddressSpace::switch_to and
\* switch_from never fail.
SpaceFollowsTask ==
    /\ panicked = "no"
    /\ \A s \in Spaces :
        space_state[s] = "Active" <=> (running_task # NoTask /\ s = Space[running_task])
    /\ running_task # NoTask => page_table = Space[running_task]

\* What every step of the scheduler keeps.
SchedulerInv == SchedulerTypeOK /\ OnePlace /\ SpaceFollowsTask

\* The queue is a fair one: a step never lets another task overtake one that
\* is waiting, and a step that puts a task on the CPU moves every waiting task
\* one place forward.
NoOvertaking ==
    [][\A t \in Tasks : \A i \in DOMAIN ready_queue :
         ready_queue[i] = t =>
            \/ i = 1 /\ running_task' = t
            \/ running_task' = running_task /\ i \in DOMAIN ready_queue' /\ ready_queue'[i] = t
            \/ running_task' # running_task /\ i > 1
               /\ i - 1 \in DOMAIN ready_queue' /\ ready_queue'[i - 1] = t]_svars
=============================================================================
