----------------------------- MODULE ServiceHost -----------------------------
\* service_host, the first task of userspace, starts the others and keeps the
\* registry of services (user/service_host/src). A task asks it to register or
\* to subscribe to a service and yields until the answer arrives. A request to
\* subscribe to a service nobody has registered yet is dropped and never
\* answered, so whether the system comes up depends on who runs when: on the
\* round-robin turns of the kernel, which nothing preempts, on the order of the
\* tasks in the manifest, and on what each task does in its first turns. A turn
\* is one action here.
EXTENDS Naturals, Sequences

CONSTANTS
    Manifests,  \* the orders in which the tasks may be listed
    Program     \* the first steps of every task, by task

VARIABLES
    order,      \* the manifest, <<>> until the host has started the tasks
    turn,       \* whose turn it is: 0 for the host, i for the task order[i]
    reached,    \* the step of its program every task has reached
    waiting,    \* the tasks inside receive_blocking
    requests,   \* the queue from every task to the host
    responses,  \* the queue from the host to every task
    services,   \* the task that registered each service
    announced   \* the clients announced on the channel of each service

hvars == <<order, turn, reached, waiting, requests, responses, services, announced>>

HostTasks == DOMAIN Program

HostInit ==
    /\ order = <<>> /\ turn = 0
    /\ reached = [t \in HostTasks |-> 1]
    /\ waiting = {}
    /\ requests = [t \in HostTasks |-> <<>>]
    /\ responses = [t \in HostTasks |-> <<>>]
    /\ services = <<>>
    /\ announced = <<>>

\* A function with one more argument, or with another value at one.
With(f, x, v) == [y \in DOMAIN f \cup {x} |-> IF y = x THEN v ELSE f[y]]

\* service_host's main up to its loop: an address space, the segments, a channel
\* and spawn_task for every task of the manifest, in order. Then it yields.
StartTasks ==
    /\ order = <<>>
    /\ order' \in Manifests
    /\ turn' = 1
    /\ UNCHANGED <<reached, waiting, requests, responses, services, announced>>

-----------------------------------------------------------------------------
\* The turn of the host.

\* The queues and the registry as one value, while the host goes round.
Registry == [requests |-> requests, responses |-> responses,
             services |-> services, clients |-> announced]

RegisterService(r, t, name) ==
    [r EXCEPT !.services = With(@, name, t),
              !.clients = With(@, name, <<>>),
              !.responses[t] = Append(@, "ServiceRegistered")]

SubscribeService(r, t, name) ==
    IF name \in DOMAIN r.services
    THEN [r EXCEPT !.clients[name] = Append(@, t),
                   !.responses[t] = Append(@, "SubscribedToService")]
    ELSE r

\* One look at the channel of a task.
HandleRequest(r, t) ==
    IF r.requests[t] = <<>> THEN r
    ELSE LET request == Head(r.requests[t])
             rest == [r EXCEPT !.requests[t] = Tail(@)]
         IN CASE request[1] = "register" -> RegisterService(rest, t, request[2])
              [] request[1] = "subscribe" -> SubscribeService(rest, t, request[2])

\* Mutant: the last task of the manifest is looked at first.
Visited_last_first(i) == order[Len(order) + 1 - i]

\* The i-th task the loop looks at.
Visited(i) == order[i]

\* The body of the loop.
HostTurn ==
    /\ order # <<>> /\ turn = 0
    /\ LET after[i \in 0 .. Len(order)] ==
             IF i = 0 THEN Registry
             ELSE LET before == after[i - 1] IN HandleRequest(before, Visited(i))
       IN \E r \in {after[Len(order)]} :
          /\ requests' = r.requests /\ responses' = r.responses
          /\ services' = r.services /\ announced' = r.clients
    /\ turn' = 1
    /\ UNCHANGED <<order, reached, waiting>>

-----------------------------------------------------------------------------
\* The turn of a task, from one yield to the next.

Expected(step) == IF step[1] = "register" THEN "ServiceRegistered" ELSE "SubscribedToService"

\* The task goes on at step i: it makes a request and yields in receive_blocking,
\* or it yields in enter_loop, where it may wait any number of turns for an
\* event, or it has done all that concerns the host and only yields.
RunFrom(t, i) ==
    IF i > Len(Program[t])
    THEN /\ reached' = [reached EXCEPT ![t] = i]
         /\ waiting' = waiting \ {t}
         /\ UNCHANGED requests
    ELSE IF Program[t][i][1] \in {"yield", "event"}
    THEN /\ reached' = [reached EXCEPT ![t] = i + 1]
         /\ waiting' = waiting \ {t}
         /\ UNCHANGED requests
    ELSE /\ reached' = [reached EXCEPT ![t] = i]
         /\ waiting' = waiting \cup {t}
         /\ requests' = [requests EXCEPT ![t] = Append(@, Program[t][i])]

\* receive_blocking: the answer, or another yield.
ReceiveBlocking(t) ==
    /\ t \in waiting
    /\ \/ /\ responses[t] = <<>>
          /\ UNCHANGED <<reached, waiting, requests, responses>>
       \/ /\ responses[t] # <<>> /\ Head(responses[t]) = Expected(Program[t][reached[t]])
          /\ responses' = [responses EXCEPT ![t] = Tail(@)]
          /\ RunFrom(t, reached[t] + 1)

\* enter_loop: yield first, then poll the reactor and run what is ready. A task
\* that waits for an event of its own may stay where it is.
Continue(t) ==
    /\ t \notin waiting
    /\ \/ RunFrom(t, reached[t])
       \/ /\ reached[t] > 1 /\ Program[t][reached[t] - 1][1] = "event"
          /\ UNCHANGED <<reached, waiting, requests>>
    /\ UNCHANGED responses

TaskTurn ==
    /\ turn # 0
    /\ LET t == order[turn] IN ReceiveBlocking(t) \/ Continue(t)
    /\ turn' = (turn + 1) % (Len(order) + 1)
    /\ UNCHANGED <<order, services, announced>>

HostNext == StartTasks \/ HostTurn \/ TaskTurn

-----------------------------------------------------------------------------
\* Properties.

\* Every request to the host is answered, so that time and again nobody waits for
\* it (every program makes finitely many requests): no task subscribes to a service before
\* the host has seen it registered and so waits forever in receive_blocking
\* (service_host/src/main.rs, the branch that only warns), although the only
\* thing that orders the tasks is their place in the manifest and that
\* enter_loop yields before it runs the first future.
EveryRequestAnswered == []<>(waiting = {})

=============================================================================
