----------------------------- MODULE IpcProofs ------------------------------
(***************************************************************************)
(* Handles are never reused or duplicated and messages stay in order, for  *)
(* any number of objects, tasks, handles and messages.  The invariant IInv *)
(* holds at the start; the system calls that create kernel objects keep    *)
(* it; sending and receiving are steps that move objects between handle    *)
(* tables and queues, and such steps keep it.                              *)
(***************************************************************************)
EXTENDS Ipc, Integers, TLAPS

-----------------------------------------------------------------------------
\* The system calls that create kernel objects.

\* A message, and what a queue of them is a sequence of.
Message == [tag : Nat, size : Sizes, num_handles : 0 .. MaxTransfer]

\* load_userspace leaves the tables in the state IInv describes.
LEMMA InitIInv == Init => IInv
<1> SUFFICES ASSUME Init PROVE IInv
  OBVIOUS
<1> USE BoundsAssumption DEF Init, Ids
<1>1. TypeOK
  <2>1. <<>> \in Seq(Message)
    OBVIOUS
  <2>2. queue \in [Ids -> Seq(Message)]
    BY <2>1
  <2> QED
    BY <2>2 DEF TypeOK, Types, Message
<1>2. TablesOK
  BY DEF TablesOK
<1>3. MailOK
  BY DEF MailOK
<1>4. NeverDuplicated
  BY DEF NeverDuplicated
<1>5. MessagesInOrder
  BY DEF MessagesInOrder
<1> QED
  BY <1>1, <1>2, <1>3, <1>4, <1>5, Zenon DEF IInv

\* Handle numbers below the limit of the counter do not wrap.
LEMMA NoWrap ==
    ASSUME NEW k \in Nat, k < HandleLimit
    PROVE  k % HandleLimit = k
  BY BoundsAssumption

\* New entries with numbers the table's counter has not reached displace none.
LEMMA InsertFresh ==
    ASSUME TypeOK, TablesOK,
           NEW entries,
           \A f \in entries : f.task \in Ids /\ f.handle \in Nat
                              /\ (f.task <= created => f.handle >= next[f.task])
    PROVE  Insert(handles, entries) = handles \cup entries
<1>1. ASSUME NEW e \in handles, NEW f \in entries, f.task = e.task, f.handle = e.handle
      PROVE  FALSE
  <2>1. e.task <= created /\ e.handle < next[e.task]
    BY DEF TablesOK
  <2>2. f.handle \in Nat /\ f.task \in Ids /\ f.handle >= next[f.task]
    BY <1>1, <2>1
  <2>3. next[f.task] \in 0 .. MaxHandles
    BY <2>2, Zenon DEF TypeOK
  <2> QED
    BY <1>1, <2>1, <2>2, <2>3, BoundsAssumption
<1> QED
  BY <1>1 DEF Insert

\* A step that creates objects and adds entries at fresh numbers.
Creates(new) ==
    /\ created' \in Ids /\ created <= created'
    /\ typ' \in [Ids -> Types] /\ peer' \in [Ids -> 0 .. MaxObjects]
    /\ next' \in [Ids -> 0 .. MaxHandles]
    /\ \A o \in Ids : /\ typ'[o] = "none" <=> o > created'
                      /\ o <= created => typ'[o] = typ[o] /\ next'[o] >= next[o]
                      /\ o > created => (typ'[o] = "Task" => next'[o] >= 1)
                      /\ typ'[o] = "Channel" => peer'[o] \in Ids
    /\ handles' = handles \cup new
    /\ new \subseteq [task : Ids, handle : 1 .. MaxHandles, object : Ids]
    /\ \A f \in new : /\ f.task <= created' /\ f.object <= created'
                      /\ f.task <= created => f.handle >= next[f.task]
                      /\ f.handle < next'[f.task]
                      /\ f.object <= created => f.object \in shared'
    /\ \A f, g \in new : (f.task = g.task /\ f.handle = g.handle) => f = g
    /\ \A f, g \in new : (f.object = g.object /\ f # g) => f.object \in shared'
    /\ shared \subseteq shared' /\ shared' \subseteq Ids
    /\ UNCHANGED <<queue, carried, freed, sent, got, posted, failed, discarded>>

\* Such a step keeps the invariant.
LEMMA CreatesIInv ==
    ASSUME IInv, NEW new, Creates(new)
    PROVE  IInv'
<1>a. TypeOK /\ TablesOK /\ MailOK /\ NeverDuplicated /\ MessagesInOrder
  BY DEF IInv
<1>b. created \in Nat /\ created' \in Nat /\ MaxObjects \in Nat /\ created <= created'
  BY <1>a, BoundsAssumption DEF TypeOK, Creates, Ids
<1>c. handles \subseteq [task : Ids, handle : 1 .. MaxHandles, object : Ids]
  BY <1>a DEF TypeOK
<1>5. TypeOK'
  <2>1. handles' \subseteq [task : Ids, handle : 1 .. MaxHandles, object : Ids]
    BY <1>c DEF Creates
  <2> QED
    BY <1>a, <2>1, Zenon DEF TypeOK, Creates
<1>6. TablesOK'
  <2>1. ASSUME NEW e \in handles'
        PROVE  e.task <= created' /\ e.object <= created' /\ e.handle < next'[e.task]
    <3>1. CASE e \in new
      BY <3>1 DEF Creates
    <3>2. CASE e \in handles
      <4>1. e.task \in Ids /\ e.object \in Ids /\ e.handle \in Nat /\ e.task \in Nat
            /\ e.object \in Nat
        BY <1>c, <3>2, BoundsAssumption DEF Ids
      <4>2. e.task <= created /\ e.object <= created /\ e.handle < next[e.task]
        BY <1>a, <3>2 DEF TablesOK
      <4>3. next'[e.task] >= next[e.task] /\ next[e.task] \in Nat /\ next'[e.task] \in Nat
        <5>1. next'[e.task] >= next[e.task] /\ next'[e.task] \in 0 .. MaxHandles
          BY <4>1, <4>2 DEF Creates
        <5>2. next[e.task] \in 0 .. MaxHandles
          BY <1>a, <4>1, Zenon DEF TypeOK
        <5> QED
          BY <5>1, <5>2, BoundsAssumption
      <4> QED
        BY <1>b, <4>1, <4>2, <4>3
    <3> QED
      BY <3>1, <3>2 DEF Creates
  <2>2. ASSUME NEW e \in handles', NEW f \in handles', e.task = f.task, e.handle = f.handle
        PROVE  e = f
    <3>1. ASSUME NEW x \in handles, NEW y \in new, x.task = y.task, x.handle = y.handle
          PROVE  FALSE
      <4>1. x.task <= created /\ x.handle < next[x.task]
        BY <1>a, <3>1 DEF TablesOK
      <4>2. y.handle >= next[y.task]
        BY <3>1, <4>1 DEF Creates
      <4>3. x.task \in Ids /\ x.handle \in Nat
        BY <1>c, <3>1, BoundsAssumption
      <4>4. next[x.task] \in Nat
        BY <1>a, <4>3, BoundsAssumption DEF TypeOK
      <4> QED
        BY <3>1, <4>1, <4>2, <4>3, <4>4
    <3>2. \A x, y \in handles : (x.task = y.task /\ x.handle = y.handle) => x = y
      BY <1>a DEF TablesOK
    <3>3. \A x, y \in new : (x.task = y.task /\ x.handle = y.handle) => x = y
      BY DEF Creates
    <3>4. (e \in handles \/ e \in new) /\ (f \in handles \/ f \in new)
      BY DEF Creates
    <3> QED
      BY <2>2, <3>1, <3>2, <3>3, <3>4
  <2>3. \A o \in Ids : /\ typ'[o] = "none" <=> o > created'
                       /\ typ'[o] = "Task" => next'[o] >= 1
                       /\ typ'[o] = "Channel" => peer'[o] \in Ids
    <3> SUFFICES ASSUME NEW o \in Ids, typ'[o] = "Task" PROVE next'[o] >= 1
      BY DEF Creates
    <3>1. CASE o > created
      BY <3>1 DEF Creates
    <3>2. CASE o <= created
      <4>1. typ[o] = "Task" /\ next'[o] >= next[o]
        BY <3>2 DEF Creates
      <4>2. next[o] >= 1 /\ next[o] \in Nat /\ next'[o] \in Nat
        BY <1>a, <4>1, BoundsAssumption DEF TablesOK, TypeOK, Creates
      <4> QED
        BY <4>1, <4>2
    <3> QED
      BY <1>b, <3>1, <3>2 DEF Ids
  <2> QED
    BY <2>1, <2>2, <2>3 DEF TablesOK
<1>7. MailOK'
  <2>1. ASSUME NEW c \in carried PROVE c.object <= created'
    <3>1. c.object <= created /\ c.object \in Nat
      <4>1. c.object <= created
        BY <1>a DEF MailOK
      <4>2. c.object \in 1 .. MaxObjects
        BY <1>a DEF TypeOK, Ids
      <4> QED
        BY <1>b, <4>1, <4>2
    <3> QED
      BY <1>b, <3>1
  <2>2. ASSUME NEW o \in freed PROVE o \in Ids /\ typ'[o] = "Channel"
    <3>1. o \in Ids /\ typ[o] = "Channel"
      BY <1>a DEF MailOK
    <3>2. ~(o > created)
      BY <1>a, <3>1 DEF TablesOK
    <3> QED
      BY <1>b, <3>1, <3>2 DEF Creates, Ids
  <2> QED
    BY <1>a, <2>1, <2>2 DEF MailOK, Creates
<1>8. NeverDuplicated'
  <2>1. ASSUME NEW x \in handles, NEW y \in new, x.object = y.object
        PROVE  x.object \in shared'
    BY <1>a, <2>1 DEF TablesOK, Creates
  <2>2. ASSUME NEW c \in carried, NEW y \in new, c.object = y.object
        PROVE  c.object \in shared'
    BY <1>a, <2>2 DEF MailOK, Creates
  <2> QED
    BY <1>a, <2>1, <2>2 DEF NeverDuplicated, Creates
<1>9. MessagesInOrder'
  <2>1. queue' = queue /\ carried' = carried /\ freed' = freed /\ sent' = sent /\ got' = got
    BY DEF Creates
  <2> QED
    BY <1>a, <2>1 DEF MessagesInOrder
<1> QED
  BY <1>5, <1>6, <1>7, <1>8, <1>9 DEF IInv

\* What is known of the task that makes a system call.
LEMMA CallerTask ==
    ASSUME TypeOK, TablesOK, NEW task \in Tasks
    PROVE  /\ task \in Ids /\ typ[task] = "Task" /\ task <= created
           /\ created \in Nat /\ created >= 1 /\ created <= MaxObjects
           /\ next[task] \in Nat /\ next[task] >= 1 /\ next[task] <= MaxHandles
<1>1. task \in Ids /\ typ[task] = "Task"
  BY DEF Tasks
<1>2. next[task] \in 0 .. MaxHandles /\ created \in 1 .. MaxObjects
  BY <1>1 DEF TypeOK, Ids
<1>3. next[task] >= 1 /\ ~(task > created)
  BY <1>1 DEF TablesOK
<1> QED
  BY <1>1, <1>2, <1>3, BoundsAssumption DEF Ids

\* create_memory_object and create_address_space are such steps.
LEMMA CreateObjectCreates ==
    ASSUME IInv, NEW task \in Tasks, NEW kind \in Creatable, CreateObject(task, kind)
    PROVE  \E new : Creates(new)
<1> DEFINE new == [task |-> task, handle |-> next[task], object |-> created + 1]
<1>a. TypeOK /\ TablesOK
  BY DEF IInv
<1>b. /\ created < MaxObjects /\ next[task] < MaxHandles
      /\ created' = created + 1
      /\ typ' = [typ EXCEPT ![created + 1] = kind]
      /\ UNCHANGED <<peer, queue, carried, freed, sent, got, posted, failed, shared, discarded>>
  BY DEF CreateObject, counts
<1>c. /\ task \in Ids /\ task \in Nat /\ typ[task] = "Task" /\ task <= created
      /\ created \in Nat /\ created >= 1 /\ created + 1 \in Ids
      /\ next[task] \in Nat /\ next[task] >= 1 /\ next[task] < MaxHandles
  BY <1>a, <1>b, CallerTask, BoundsAssumption DEF Ids
<1>1. next[task] % HandleLimit = next[task] /\ (next[task] + 1) % HandleLimit = next[task] + 1
  BY <1>c, BoundsAssumption
<1>2. Entries(task, next[task], {Item(1, created + 1)}) = {new}
  BY <1>c, <1>1 DEF Entries, Item
<1>3. handles' = handles \cup {new}
  <2>1. \A f \in {new} : f.task \in Ids /\ f.handle \in Nat
                          /\ (f.task <= created => f.handle >= next[f.task])
    BY <1>c
  <2>2. Insert(handles, {new}) = handles \cup {new}
    BY <1>a, <2>1, InsertFresh
  <2> QED
    BY <1>2, <2>2, Zenon DEF CreateObject
<1>4. next' = [next EXCEPT ![task] = next[task] + 1]
  BY <1>1, Zenon DEF CreateObject
<1>5. /\ next' \in [Ids -> 0 .. MaxHandles] /\ next'[task] = next[task] + 1
      /\ \A o \in Ids : next'[o] \in Nat /\ next[o] \in Nat /\ next'[o] >= next[o]
  <2>1. next \in [Ids -> 0 .. MaxHandles]
    BY <1>a DEF TypeOK
  <2> QED
    BY <1>c, <1>4, <2>1, BoundsAssumption
<1>6. /\ typ' \in [Ids -> Types]
      /\ typ'[created + 1] \in {"AddressSpace", "MemoryObject"}
      /\ \A o \in Ids : o # created + 1 => typ'[o] = typ[o]
  BY <1>a, <1>b, <1>c, BoundsAssumption, Zenon DEF TypeOK, Types
<1>7. \A o \in Ids : /\ typ'[o] = "none" <=> o > created'
                     /\ o <= created => typ'[o] = typ[o] /\ next'[o] >= next[o]
                     /\ o > created => (typ'[o] = "Task" => next'[o] >= 1)
                     /\ typ'[o] = "Channel" => peer'[o] \in Ids
  BY <1>a, <1>b, <1>c, <1>5, <1>6 DEF TablesOK, Ids
<1>8. Creates({new})
  <2>1. {new} \subseteq [task : Ids, handle : 1 .. MaxHandles, object : Ids]
    BY <1>c, BoundsAssumption, SMTT(30)
  <2>2. \A f \in {new} : /\ f.task <= created' /\ f.object <= created'
                         /\ f.task <= created => f.handle >= next[f.task]
                         /\ f.handle < next'[f.task]
                         /\ f.object <= created => f.object \in shared'
    BY <1>b, <1>c, <1>5
  <2>3. /\ \A f, g \in {new} : (f.task = g.task /\ f.handle = g.handle) => f = g
        /\ \A f, g \in {new} : (f.object = g.object /\ f # g) => f.object \in shared'
    OBVIOUS
  <2>4. peer' \in [Ids -> 0 .. MaxObjects] /\ shared \subseteq shared' /\ shared' \subseteq Ids
    BY <1>a, <1>b, Zenon DEF TypeOK
  <2>5. created' \in Ids /\ created <= created'
    BY <1>b, <1>c
  <2> HIDE DEF new
  <2> QED
    BY <1>b, <1>3, <1>5, <1>6, <1>7, <2>1, <2>2, <2>3, <2>4, <2>5, Zenon DEF Creates
<1> QED
  BY <1>8

\* create_channel is such a step.
LEMMA CreateChannelCreates ==
    ASSUME IInv, NEW task \in Tasks, CreateChannel(task)
    PROVE  \E new : Creates(new)
<1> DEFINE a == [task |-> task, handle |-> next[task], object |-> created + 1]
           b == [task |-> task, handle |-> next[task] + 1, object |-> created + 2]
<1>a. TypeOK /\ TablesOK
  BY DEF IInv
<1>b. /\ created + 2 <= MaxObjects /\ next[task] + 2 <= MaxHandles
      /\ created' = created + 2
      /\ typ' = [typ EXCEPT ![created + 1] = "Channel", ![created + 2] = "Channel"]
      /\ peer' = [peer EXCEPT ![created + 1] = created + 2, ![created + 2] = created + 1]
      /\ UNCHANGED <<queue, carried, freed, sent, got, posted, failed, shared, discarded>>
  BY DEF CreateChannel, counts
<1>c. /\ task \in Ids /\ task \in Nat /\ typ[task] = "Task" /\ task <= created
      /\ created \in Nat /\ created >= 1 /\ created + 1 \in Ids /\ created + 2 \in Ids
      /\ next[task] \in Nat /\ next[task] >= 1
  BY <1>a, <1>b, CallerTask, BoundsAssumption DEF Ids
<1>1. /\ next[task] % HandleLimit = next[task]
      /\ (next[task] + 1) % HandleLimit = next[task] + 1
      /\ (next[task] + 2) % HandleLimit = next[task] + 2
  BY <1>b, <1>c, BoundsAssumption
<1>2. Entries(task, next[task], {Item(1, created + 1), Item(2, created + 2)}) = {a, b}
  BY <1>c, <1>1 DEF Entries, Item
<1>3. handles' = handles \cup {a, b}
  <2>1. \A f \in {a, b} : f.task \in Ids /\ f.handle \in Nat
                           /\ (f.task <= created => f.handle >= next[f.task])
    BY <1>c
  <2>2. Insert(handles, {a, b}) = handles \cup {a, b}
    BY <1>a, <2>1, InsertFresh
  <2> QED
    BY <1>2, <2>2, Zenon DEF CreateChannel
<1>4. next' = [next EXCEPT ![task] = next[task] + 2]
  BY <1>1, Zenon DEF CreateChannel
<1>5. /\ next' \in [Ids -> 0 .. MaxHandles] /\ next'[task] = next[task] + 2
      /\ \A o \in Ids : next'[o] \in Nat /\ next[o] \in Nat /\ next'[o] >= next[o]
  <2>1. next \in [Ids -> 0 .. MaxHandles]
    BY <1>a DEF TypeOK
  <2> QED
    BY <1>b, <1>c, <1>4, <2>1, BoundsAssumption
<1>6. /\ typ' \in [Ids -> Types]
      /\ typ'[created + 1] = "Channel" /\ typ'[created + 2] = "Channel"
      /\ \A o \in Ids : (o # created + 1 /\ o # created + 2) => typ'[o] = typ[o]
  <2>1. typ \in [Ids -> Types] /\ "Channel" \in Types
    BY <1>a DEF TypeOK, Types
  <2> QED
    BY <1>b, <1>c, <2>1
<1>7. /\ peer' \in [Ids -> 0 .. MaxObjects]
      /\ peer'[created + 1] \in Ids /\ peer'[created + 2] \in Ids
      /\ \A o \in Ids : (o # created + 1 /\ o # created + 2) => peer'[o] = peer[o]
  <2>1. peer \in [Ids -> 0 .. MaxObjects] /\ Ids \subseteq 0 .. MaxObjects
    BY <1>a, BoundsAssumption DEF TypeOK, Ids
  <2> QED
    BY <1>b, <1>c, <2>1
<1>8. \A o \in Ids : /\ typ'[o] = "none" <=> o > created'
                     /\ o <= created => typ'[o] = typ[o] /\ next'[o] >= next[o]
                     /\ o > created => (typ'[o] = "Task" => next'[o] >= 1)
                     /\ typ'[o] = "Channel" => peer'[o] \in Ids
  BY <1>a, <1>b, <1>c, <1>5, <1>6, <1>7 DEF TablesOK, Ids
<1>9. Creates({a, b})
  <2>1. {a, b} \subseteq [task : Ids, handle : 1 .. MaxHandles, object : Ids]
    BY <1>b, <1>c, BoundsAssumption, SMTT(30)
  <2>2. \A f \in {a, b} : /\ f.task <= created' /\ f.object <= created'
                          /\ f.task <= created => f.handle >= next[f.task]
                          /\ f.handle < next'[f.task]
                          /\ f.object <= created => f.object \in shared'
    BY <1>b, <1>c, <1>5
  <2>3. a.handle # b.handle /\ a.object # b.object
    BY <1>c
  <2>4. shared \subseteq shared' /\ shared' \subseteq Ids
    BY <1>a, <1>b DEF TypeOK
  <2>5. created' \in Ids /\ created <= created'
    BY <1>b, <1>c
  <2> HIDE DEF a, b
  <2>6. /\ \A f, g \in {a, b} : (f.task = g.task /\ f.handle = g.handle) => f = g
        /\ \A f, g \in {a, b} : (f.object = g.object /\ f # g) => f.object \in shared'
    BY <2>3
  <2> QED
    BY <1>b, <1>3, <1>5, <1>6, <1>7, <1>8, <2>1, <2>2, <2>4, <2>5, <2>6, Zenon DEF Creates
<1> QED
  BY <1>9, Zenon

\* spawn_task is such a step: the child's table is new, and the objects
\* it is given become shared.
LEMMA SpawnTaskCreates ==
    ASSUME IInv, NEW task \in Tasks, NEW address_space,
           NEW transfer \in Transfers(task, MaxSpawn),
           SpawnTask(task, address_space, transfer)
    PROVE  \E new : Creates(new)
<1> DEFINE child == created + 1
<1> DEFINE passed == Behind(task, transfer)
<1>a. TypeOK /\ TablesOK
  BY DEF IInv
<1>n. PICK n \in 0 .. MaxSpawn : transfer \in [1 .. n -> Numbers(task, Types)]
  BY DEF Transfers
<1>l. n \in Nat /\ Len(transfer) = n /\ DOMAIN transfer = 1 .. n
  BY <1>n, BoundsAssumption
<1>s. PICK space \in Get(handles, task, address_space) :
        /\ typ[space] = "AddressSpace"
        /\ created' = child
        /\ typ' = [typ EXCEPT ![child] = "Task"]
        /\ handles' = Insert(handles,
                          Entries(child, 1, {Item(1, space)})
                          \cup Entries(child, 2, passed)
                          \cup Entries(task, next[task], {Item(1, child)}))
        /\ next' = [next EXCEPT ![child] = (Len(transfer) + 2) % HandleLimit,
                                ![task] = (next[task] + 1) % HandleLimit]
        /\ shared' = shared \cup {space} \cup { item.object : item \in passed }
  BY Zenon DEF SpawnTask
<1>b. /\ created < MaxObjects /\ next[task] < MaxHandles /\ n + 2 <= MaxHandles
      /\ UNCHANGED <<peer, queue, carried, freed, sent, got, posted, failed, discarded>>
  BY <1>l, Zenon DEF SpawnTask, counts
<1>c. /\ task \in Ids /\ task \in Nat /\ typ[task] = "Task" /\ task <= created
      /\ created \in Nat /\ created >= 1 /\ child \in Ids /\ child \in Nat /\ child # task
      /\ next[task] \in Nat /\ next[task] >= 1
  BY <1>a, <1>b, CallerTask, BoundsAssumption DEF Ids
<1>p. \A item \in passed : item.slot \in 1 .. n /\ item.object \in Ids /\ item.object <= created
  BY <1>a, <1>l DEF Behind, TablesOK
<1>d. space \in Ids /\ space <= created
  BY <1>a, <1>s, Zenon DEF Get, TypeOK, TablesOK
<1>f. \A x, y \in passed : x.slot = y.slot => x.object = y.object
  BY <1>a DEF Behind, TablesOK
<1> DEFINE first == [task |-> child, handle |-> 1, object |-> space]
           given == { [task |-> child, handle |-> item.slot + 1, object |-> item.object] :
                      item \in passed }
           own == [task |-> task, handle |-> next[task], object |-> child]
           new == {first} \cup given \cup {own}
<1>1. /\ next[task] % HandleLimit = next[task] /\ 1 % HandleLimit = 1
      /\ (next[task] + 1) % HandleLimit = next[task] + 1
      /\ (n + 2) % HandleLimit = n + 2
      /\ \A i \in 1 .. n : (2 + i - 1) % HandleLimit = i + 1
  <2>1. /\ next[task] % HandleLimit = next[task] /\ 1 % HandleLimit = 1
        /\ (next[task] + 1) % HandleLimit = next[task] + 1
        /\ (n + 2) % HandleLimit = n + 2
    <3>1. /\ next[task] \in Nat /\ next[task] < HandleLimit /\ 1 < HandleLimit
          /\ next[task] + 1 \in Nat /\ next[task] + 1 < HandleLimit
          /\ n + 2 \in Nat /\ n + 2 < HandleLimit
      BY <1>b, <1>c, <1>l, BoundsAssumption
    <3> QED
      BY <3>1, NoWrap
  <2>2. ASSUME NEW i \in 1 .. n PROVE (2 + i - 1) % HandleLimit = i + 1
    <3>1. i + 1 \in Nat /\ i + 1 < HandleLimit /\ 2 + i - 1 = i + 1 /\ HandleLimit \in Nat
      BY <1>b, <1>l, BoundsAssumption
    <3>2. (i + 1) % HandleLimit = i + 1
      BY <3>1, NoWrap
    <3> QED
      BY <3>1, <3>2
  <2> QED
    BY <2>1, <2>2
<1>2. /\ Entries(child, 1, {Item(1, space)}) = {first}
      /\ Entries(task, next[task], {Item(1, child)}) = {own}
  BY <1>c, <1>1, SMTT(30) DEF Entries, Item
<1>3. Entries(child, 2, passed) = given
  <2> HIDE DEF passed, child
  <2> QED
    BY <1>p, <1>1, Zenon DEF Entries
<1> HIDE DEF passed
<1>4. \A f \in given : \E item \in passed : /\ f.task = child /\ f.handle = item.slot + 1
                                            /\ f.object = item.object
  BY SMTT(30)
<1>5. \A f \in given : /\ f.task = child /\ f.handle \in 2 .. n + 1 /\ f.object \in Ids
                       /\ f.object <= created /\ f.object \in shared'
  <2> HIDE DEF given, child
  <2> TAKE f \in given
  <2>1. PICK item \in passed : /\ f.task = child /\ f.handle = item.slot + 1
                               /\ f.object = item.object
    BY <1>4
  <2> QED
    BY <1>l, <1>p, <1>s, <2>1, SMTT(30)
<1>6. /\ new \subseteq [task : Ids, handle : 1 .. MaxHandles, object : Ids]
      /\ \A f \in new : f.task <= created => f.handle >= next[f.task]
  <2>1. given \subseteq [task : Ids, handle : 1 .. MaxHandles, object : Ids]
    BY <1>b, <1>c, <1>l, <1>p, BoundsAssumption, SMTT(30)
  <2>2. {first, own} \subseteq [task : Ids, handle : 1 .. MaxHandles, object : Ids]
    BY <1>b, <1>c, <1>d, BoundsAssumption
  <2> HIDE DEF given
  <2> QED
    BY <1>c, <1>5, <2>1, <2>2
<1>7. handles' = handles \cup new
  <2>1. Insert(handles, new) = handles \cup new
    <3> HIDE DEF new
    <3>1. \A f \in new : f.task \in Ids /\ f.handle \in Nat
                          /\ (f.task <= created => f.handle >= next[f.task])
      BY <1>6, BoundsAssumption
    <3> QED
      BY <1>a, <3>1, InsertFresh
  <2> QED
    BY <1>s, <1>2, <1>3, <2>1, Zenon
<1>8. /\ next' \in [Ids -> 0 .. MaxHandles]
      /\ next'[task] = next[task] + 1 /\ next'[child] = n + 2
      /\ \A o \in Ids : o # child => next'[o] \in Nat /\ next[o] \in Nat /\ next'[o] >= next[o]
  <2>1. next \in [Ids -> 0 .. MaxHandles]
    BY <1>a DEF TypeOK
  <2>2. next' = [next EXCEPT ![child] = n + 2, ![task] = next[task] + 1]
    BY <1>l, <1>s, <1>1, Zenon
  <2> QED
    BY <1>b, <1>c, <1>l, <2>1, <2>2, BoundsAssumption, SMTT(30)
<1>9. /\ typ' \in [Ids -> Types] /\ typ'[child] = "Task"
      /\ \A o \in Ids : o # child => typ'[o] = typ[o]
  BY <1>a, <1>c, <1>s, Zenon DEF TypeOK, Types
<1>10. \A o \in Ids : /\ typ'[o] = "none" <=> o > created'
                      /\ o <= created => typ'[o] = typ[o] /\ next'[o] >= next[o]
                      /\ o > created => (typ'[o] = "Task" => next'[o] >= 1)
                      /\ typ'[o] = "Channel" => peer'[o] \in Ids
  <2> SUFFICES ASSUME NEW o \in Ids
               PROVE  /\ typ'[o] = "none" <=> o > created'
                      /\ o <= created => typ'[o] = typ[o] /\ next'[o] >= next[o]
                      /\ o > created => (typ'[o] = "Task" => next'[o] >= 1)
                      /\ typ'[o] = "Channel" => peer'[o] \in Ids
    OBVIOUS
  <2>1. /\ typ[o] = "none" <=> o > created
        /\ typ[o] = "Task" => next[o] >= 1
        /\ typ[o] = "Channel" => peer[o] \in Ids
    BY <1>a DEF TablesOK
  <2>2. CASE o # child
    <3>1. typ'[o] = typ[o]
      BY <1>9, <2>2, Zenon
    <3>2. o > created <=> o > created'
      <4>1. o \in Nat /\ created \in Nat /\ created' = created + 1 /\ o # created + 1
        <5>1. o \in Nat
          BY DEF Ids
        <5> QED
          BY <1>c, <1>s, <2>2, <5>1, Zenon
      <4> QED
        BY <4>1
    <3>3. next'[o] >= next[o]
      BY <1>8, <2>2, Zenon
    <3> QED
      BY <1>b, <2>1, <3>1, <3>2, <3>3, Zenon
  <2>3. CASE o = child
    <3>1. created \in Nat /\ created' = created + 1 /\ o = created + 1
      BY <1>c, <1>s, <2>3, Zenon
    <3>2. ~(o > created') /\ ~(o <= created)
      BY <3>1
    <3>3. next'[o] >= 1
      <4>1. next'[o] = n + 2 /\ n \in Nat
        BY <1>8, <1>l, <2>3, Zenon
      <4> QED
        BY <4>1
    <3> QED
      BY <1>9, <2>3, <3>2, <3>3, Zenon
  <2> QED
    BY <2>2, <2>3, Zenon
<1>11. Creates(new)
  <2>1. \A f \in new : /\ f.task <= created' /\ f.object <= created'
                       /\ f.handle < next'[f.task]
                       /\ f.object <= created => f.object \in shared'
    <3> HIDE DEF given
    <3>1. \A f \in given : /\ f.task <= created' /\ f.object <= created'
                           /\ f.handle < next'[f.task]
      <4> TAKE f \in given
      <4>1. /\ f.task = child /\ f.handle \in 2 .. n + 1 /\ f.object \in Ids
            /\ f.object <= created
        BY <1>5
      <4>2. created' = child /\ next'[child] = n + 2
        BY <1>s, <1>8, Zenon
      <4> QED
        BY <1>c, <1>l, <4>1, <4>2 DEF Ids
    <3>2. \A f \in {first, own} : /\ f.task <= created' /\ f.object <= created'
                                  /\ f.handle < next'[f.task]
                                  /\ f.object <= created => f.object \in shared'
      <4>1. /\ created' = child /\ space \in shared'
            /\ next'[child] = n + 2 /\ next'[task] = next[task] + 1
        BY <1>s, <1>8, Zenon
      <4>2. /\ child <= created' /\ space <= created' /\ task <= created'
            /\ ~(child <= created) /\ 1 < next'[child] /\ next[task] < next'[task]
        <5>1. child = created + 1
          OBVIOUS
        <5> HIDE DEF child
        <5>2. space \in Nat /\ n \in Nat
          BY <1>d, <1>l DEF Ids
        <5> QED
          BY <1>c, <1>d, <4>1, <5>1, <5>2
      <4>3. /\ first.task = child /\ first.handle = 1 /\ first.object = space
            /\ own.task = task /\ own.handle = next[task] /\ own.object = child
        OBVIOUS
      <4> HIDE DEF child, first, own
      <4> QED
        BY <4>1, <4>2, <4>3
    <3>3. \A f \in given : f.object \in shared'
      BY <1>5
    <3> HIDE DEF first, own
    <3> QED
      BY <3>1, <3>2, <3>3
  <2>2. \A f, g \in given : f.handle = g.handle => f = g
    BY <1>p, <1>f
  <2>3. \A f, g \in new : (f.task = g.task /\ f.handle = g.handle) => f = g
    <3> HIDE DEF given
    <3> QED
      BY <1>c, <1>l, <1>5, <2>2, SMTT(30)
  <2>4. \A f, g \in new : (f.object = g.object /\ f # g) => f.object \in shared'
    <3> HIDE DEF given
    <3> QED
      BY <1>c, <1>d, <1>s, <1>5, SMTT(30) DEF Ids
  <2>5. shared \subseteq shared' /\ shared' \subseteq Ids
    <3>1. shared' = shared \cup {space} \cup { item.object : item \in passed }
      BY <1>s, Zenon
    <3>2. shared \subseteq Ids
      BY <1>a, Zenon DEF TypeOK
    <3> QED
      BY <1>d, <1>p, <3>1, <3>2, Zenon
  <2>6. created' \in Ids /\ created <= created' /\ peer' \in [Ids -> 0 .. MaxObjects]
    <3>1. created' = child /\ peer' = peer
      BY <1>b, <1>s, Zenon
    <3>2. peer \in [Ids -> 0 .. MaxObjects]
      BY <1>a, Zenon DEF TypeOK
    <3>3. child \in Ids /\ created <= child
      BY <1>c
    <3> QED
      BY <3>1, <3>2, <3>3, Zenon
  <2> HIDE DEF new, child
  <2> QED
    BY <1>b, <1>6, <1>7, <1>8, <1>9, <1>10, <2>1, <2>3, <2>4, <2>5, <2>6, Zenon DEF Creates
<1> QED
  BY <1>11

-----------------------------------------------------------------------------
\* The system calls that move objects between handle tables and queues: what
\* such a step keeps, and that a send that fails is such a step.

\* Objects are only ever dropped: a freed end stays freed.
LEMMA SettleDrops ==
    ASSUME MailOK, NEW table, NEW cargo, NEW messages, Settle(table, cargo, messages)
    PROVE  /\ freed \subseteq freed' /\ freed' \subseteq { o \in Ids : typ[o] = "Channel" }
           /\ handles' = table
           /\ carried' = { c \in cargo : c.to \notin freed' }
           /\ queue' = [o \in Ids |-> IF o \in freed' THEN <<>> ELSE messages[o]]
<1>1. Referenced(table, cargo) \subseteq Ids \ freed
  BY Zenon DEF Referenced
<1>2. freed' = { o \in Ids : typ[o] = "Channel" } \ Referenced(table, cargo)
  BY DEF Settle
<1>3. freed \subseteq { o \in Ids : typ[o] = "Channel" }
  BY DEF MailOK
<1>4. freed \subseteq freed' /\ freed' \subseteq { o \in Ids : typ[o] = "Channel" }
  BY <1>1, <1>2, <1>3
<1> QED
  BY <1>4, Zenon DEF Settle

\* A step that moves objects between tables and queues, and settles.
Moves(table, cargo, messages) ==
    /\ UNCHANGED <<created, typ, peer, shared>>
    /\ next' \in [Ids -> 0 .. MaxHandles]
    /\ \A o \in Ids : next'[o] >= next[o]
    /\ sent' \in [Ids -> Nat] /\ got' \in [Ids -> Nat]
    /\ posted' \in 0 .. MaxSent /\ failed' \in 0 .. MaxFailed /\ discarded' \subseteq Ids
    /\ table \subseteq [task : Ids, handle : 1 .. MaxHandles, object : Ids]
    /\ \A e \in table : e \in handles \/ e.handle >= next[e.task]
    /\ \A e \in table : e.task <= created /\ e.object <= created /\ e.handle < next'[e.task]
    /\ \A e, f \in table : (e.task = f.task /\ e.handle = f.handle) => e = f
    /\ cargo \subseteq [to : Ids, tag : Nat, slot : 1 .. MaxTransfer, object : Ids]
    /\ \A c \in cargo : c.tag <= sent'[c.to] /\ c.object <= created
    /\ \A c, d \in cargo : (c.to = d.to /\ c.tag = d.tag /\ c.slot = d.slot) => c = d
    /\ \A e, f \in table : (e.object = f.object /\ e # f) => e.object \in shared
    /\ \A c, d \in cargo : (c.object = d.object /\ c # d) => c.object \in shared
    /\ \A e \in table, c \in cargo : e.object = c.object => e.object \in shared
    /\ messages \in [Ids -> Seq(Message)]
    /\ \A o \in Ids \ freed :
          /\ Len(messages[o]) = sent'[o] - got'[o]
          /\ \A i \in 1 .. Len(messages[o]) :
                /\ messages[o][i].tag = got'[o] + i
                /\ { c.slot : c \in { d \in cargo : d.to = o /\ d.tag = got'[o] + i } }
                     = 1 .. messages[o][i].num_handles
    /\ Settle(table, cargo, messages)

\* Such a step keeps the invariant.
LEMMA MovesIInv ==
    ASSUME IInv, NEW table, NEW cargo, NEW messages, Moves(table, cargo, messages)
    PROVE  IInv'
<1>a. TypeOK /\ TablesOK /\ MailOK
  BY DEF IInv
<1>s. Settle(table, cargo, messages)
  BY Zenon DEF Moves
<1>b. /\ freed \subseteq freed' /\ freed' \subseteq { o \in Ids : typ[o] = "Channel" }
      /\ handles' = table
      /\ carried' = { c \in cargo : c.to \notin freed' }
      /\ queue' = [o \in Ids |-> IF o \in freed' THEN <<>> ELSE messages[o]]
  BY <1>a, <1>s, SettleDrops
<1>u. created' = created /\ typ' = typ /\ peer' = peer /\ shared' = shared
  BY Zenon DEF Moves
<1>c. carried' \subseteq cargo
  BY <1>b, Zenon
<1>5. TypeOK'
  <2>1. queue' \in [Ids -> Seq(Message)]
    <3>1. messages \in [Ids -> Seq(Message)]
      BY Zenon DEF Moves
    <3>2. <<>> \in Seq(Message)
      OBVIOUS
    <3> QED
      BY <1>b, <3>1, <3>2
  <2>2. carried' \subseteq [to : Ids, tag : Nat, slot : 1 .. MaxTransfer, object : Ids]
    BY <1>c, Zenon DEF Moves
  <2>3. handles' \subseteq [task : Ids, handle : 1 .. MaxHandles, object : Ids]
    BY <1>b, Zenon DEF Moves
  <2>4. freed' \subseteq Ids
    BY <1>b
  <2>5. created' \in Ids /\ typ' \in [Ids -> Types] /\ peer' \in [Ids -> 0 .. MaxObjects]
        /\ shared' \subseteq Ids
    BY <1>a, <1>u DEF TypeOK
  <2> QED
    BY <2>1, <2>2, <2>3, <2>4, <2>5, Zenon DEF TypeOK, Message, Moves
<1>6. TablesOK'
  <2>1. \A o \in Ids : typ[o] = "Task" => next'[o] >= 1
    <3>1. \A o \in Ids : next'[o] >= next[o] /\ next'[o] \in Nat /\ next[o] \in Nat
      <4>1. next \in [Ids -> 0 .. MaxHandles] /\ next' \in [Ids -> 0 .. MaxHandles]
        BY <1>a, Zenon DEF Moves, TypeOK
      <4>2. \A o \in Ids : next'[o] >= next[o]
        BY Zenon DEF Moves
      <4> QED
        BY <4>1, <4>2, BoundsAssumption
    <3>2. \A o \in Ids : typ[o] = "Task" => next[o] >= 1
      BY <1>a DEF TablesOK
    <3> QED
      BY <3>1, <3>2
  <2>2. \A e \in handles' : e.task <= created /\ e.object <= created /\ e.handle < next'[e.task]
    BY <1>b, Zenon DEF Moves
  <2>3. \A e, f \in handles' : (e.task = f.task /\ e.handle = f.handle) => e = f
    BY <1>b, Zenon DEF Moves
  <2>4. \A o \in Ids : /\ typ[o] = "none" <=> o > created
                       /\ typ[o] = "Channel" => peer[o] \in Ids
    BY <1>a DEF TablesOK
  <2> QED
    BY <1>u, <2>1, <2>2, <2>3, <2>4 DEF TablesOK
<1>7. MailOK'
  <2>1. \A o \in freed' : queue'[o] = <<>>
    BY <1>b
  <2>2. \A c \in carried' : c.to \notin freed' /\ c.tag <= sent'[c.to] /\ c.object <= created
    BY <1>b, Zenon DEF Moves
  <2>3. \A c, d \in carried' : (c.to = d.to /\ c.tag = d.tag /\ c.slot = d.slot) => c = d
    BY <1>c, Zenon DEF Moves
  <2> QED
    BY <1>b, <1>u, <2>1, <2>2, <2>3, Zenon DEF MailOK
<1>8. NeverDuplicated'
  BY <1>b, <1>c, <1>u, Zenon DEF NeverDuplicated, Moves
<1>9. MessagesInOrder'
  <2> SUFFICES ASSUME NEW o \in Ids \ freed'
               PROVE  /\ Len(queue'[o]) = sent'[o] - got'[o]
                      /\ \A i \in 1 .. Len(queue'[o]) :
                            /\ queue'[o][i].tag = got'[o] + i
                            /\ { c.slot : c \in { d \in carried' : d.to = o /\ d.tag = got'[o] + i } }
                                 = 1 .. queue'[o][i].num_handles
    BY Zenon DEF MessagesInOrder
  <2>1. queue'[o] = messages[o] /\ o \in Ids \ freed
    BY <1>b, Zenon
  <2>2. \A t : { d \in carried' : d.to = o /\ d.tag = t } = { d \in cargo : d.to = o /\ d.tag = t }
    BY <1>b
  <2>3. /\ Len(messages[o]) = sent'[o] - got'[o]
        /\ \A i \in 1 .. Len(messages[o]) :
              /\ messages[o][i].tag = got'[o] + i
              /\ { c.slot : c \in { d \in cargo : d.to = o /\ d.tag = got'[o] + i } }
                   = 1 .. messages[o][i].num_handles
    <3> HIDE DEF Message
    <3> QED
      BY <2>1, Zenon DEF Moves
  <2> QED
    BY <2>1, <2>2, <2>3, Zenon
<1> QED
  BY <1>5, <1>6, <1>7, <1>8, <1>9 DEF IInv

\* What send_message's loop leaves is part of the table.
LEMMA LeftBySubset ==
    ASSUME NEW task, NEW transfer
    PROVE  LeftBy(task, transfer) \subseteq handles
  BY DEF LeftBy

\* The part of a step that leaves the tables no fuller.
LEMMA FewerHandles ==
    ASSUME IInv, NEW table \in SUBSET handles
    PROVE  /\ table \subseteq [task : Ids, handle : 1 .. MaxHandles, object : Ids]
           /\ \A e \in table : e.task <= created /\ e.object <= created /\ e.handle < next[e.task]
           /\ \A e, f \in table : (e.task = f.task /\ e.handle = f.handle) => e = f
           /\ \A e, f \in table : (e.object = f.object /\ e # f) => e.object \in shared
           /\ \A e \in table, c \in carried : e.object = c.object => e.object \in shared
  BY Zenon DEF IInv, TypeOK, TablesOK, NeverDuplicated

\* A call of send_message that fails is such a step.
LEMMA SendMessageFailsMoves ==
    ASSUME IInv, NEW task, NEW channel, NEW transfer, SendMessageFails(task, channel, transfer)
    PROVE  \E table, cargo, messages : Moves(table, cargo, messages)
<1> DEFINE table == LeftBy(task, transfer)
<1>1. table \in SUBSET handles
  BY LeftBySubset
<1>2. /\ table \subseteq [task : Ids, handle : 1 .. MaxHandles, object : Ids]
      /\ \A e \in table : e.task <= created /\ e.object <= created /\ e.handle < next[e.task]
      /\ \A e, f \in table : (e.task = f.task /\ e.handle = f.handle) => e = f
      /\ \A e, f \in table : (e.object = f.object /\ e # f) => e.object \in shared
      /\ \A e \in table, c \in carried : e.object = c.object => e.object \in shared
  <2> HIDE DEF table
  <2> QED
    BY <1>1, FewerHandles, Zenon
<1>3. /\ UNCHANGED <<created, typ, peer, next, sent, got, posted, shared, discarded>>
      /\ failed' = failed + 1 /\ failed < MaxFailed
      /\ Settle(table, carried, queue)
  BY Zenon DEF SendMessageFails
<1> HIDE DEF table
<1>4. /\ next' \in [Ids -> 0 .. MaxHandles] /\ \A o \in Ids : next'[o] >= next[o]
      /\ sent' \in [Ids -> Nat] /\ got' \in [Ids -> Nat]
      /\ posted' \in 0 .. MaxSent /\ failed' \in 0 .. MaxFailed /\ discarded' \subseteq Ids
      /\ carried \subseteq [to : Ids, tag : Nat, slot : 1 .. MaxTransfer, object : Ids]
      /\ queue \in [Ids -> Seq(Message)]
  <2>1. TypeOK
    BY DEF IInv
  <2>2. failed' \in 0 .. MaxFailed
    BY <1>3, <2>1, BoundsAssumption DEF TypeOK
  <2>3. \A o \in Ids : next'[o] >= next[o]
    BY <1>3, <2>1, BoundsAssumption DEF TypeOK
  <2> QED
    BY <1>3, <2>1, <2>2, <2>3, Zenon DEF TypeOK, Message
<1>5. /\ \A c \in carried : c.tag <= sent'[c.to] /\ c.object <= created
      /\ \A c, d \in carried : (c.to = d.to /\ c.tag = d.tag /\ c.slot = d.slot) => c = d
      /\ \A c, d \in carried : (c.object = d.object /\ c # d) => c.object \in shared
  BY <1>3, Zenon DEF IInv, MailOK, NeverDuplicated
<1>6. \A o \in Ids \ freed :
        /\ Len(queue[o]) = sent'[o] - got'[o]
        /\ \A i \in 1 .. Len(queue[o]) :
              /\ queue[o][i].tag = got'[o] + i
              /\ { c.slot : c \in { d \in carried : d.to = o /\ d.tag = got'[o] + i } }
                   = 1 .. queue[o][i].num_handles
  BY <1>3, ZenonT(30) DEF IInv, MessagesInOrder
<1>7. Moves(table, carried, queue)
  <2> HIDE DEF Message
  <2>1. UNCHANGED <<created, typ, peer, shared>> /\ next' = next
    BY <1>3
  <2> QED
    BY <1>1, <1>2, <1>3, <1>4, <1>5, <1>6, <2>1, Zenon DEF Moves
<1> QED
  BY <1>7

-----------------------------------------------------------------------------
\* Sequences and numbers.

\* A sequence that is not empty.
LEMMA AnyElement == ASSUME NEW S, NEW q \in Seq(S), q # <<>> PROVE Len(q) \in Nat \ {0}
  OBVIOUS

\* Numbers in order.
LEMMA UpTo == \A a, b, c \in Nat : a <= b /\ c >= b => a <= c
  OBVIOUS

\* A handle number that stays is no less.
LEMMA NoLess == \A h \in 0 .. MaxHandles : h >= h
  BY BoundsAssumption

\* A longer range.
LEMMA LongerRange == \A a, b \in Nat : a <= b => 1 .. a \subseteq 1 .. b
  OBVIOUS

\* A message more was sent.
LEMMA OneMore ==
    \A l, s, g \in Nat : l = s - g => l + 1 = (s + 1) - g /\ g + (l + 1) = s + 1
  OBVIOUS

\* One message of a queue was fetched.
LEMMA OneFewer ==
    \A l, s, g \in Nat : l = s - g => l - 1 = s - (g + 1)
  OBVIOUS

\* A queue with a message more.
LEMMA AtTheEnd ==
    ASSUME NEW S, NEW q \in Seq(S), NEW e \in S
    PROVE  /\ Append(q, e) \in Seq(S) /\ Len(Append(q, e)) = Len(q) + 1
           /\ \A i \in 1 .. Len(q) : Append(q, e)[i] = q[i]
           /\ Append(q, e)[Len(q) + 1] = e
  OBVIOUS

\* A queue without its first message.
LEMMA AfterFirst ==
    ASSUME NEW S, NEW q \in Seq(S), q # <<>>
    PROVE  /\ Head(q) \in S /\ Head(q) = q[1]
           /\ Tail(q) \in Seq(S) /\ Len(Tail(q)) = Len(q) - 1
           /\ \A i \in 1 .. Len(Tail(q)) : Tail(q)[i] = q[i + 1]
<1>1. Head(q) \in S /\ Head(q) = q[1] /\ Tail(q) \in Seq(S)
  OBVIOUS
<1>2. Len(Tail(q)) = Len(q) - 1
  OBVIOUS
<1>3. \A i \in 1 .. Len(Tail(q)) : Tail(q)[i] = q[i + 1]
  OBVIOUS
<1> QED
  BY <1>1, <1>2, <1>3

\* Two sequences in a row.
LEMMA InARow ==
    ASSUME NEW S, NEW p \in Seq(S), NEW q \in Seq(S)
    PROVE  /\ p \o q \in Seq(S) /\ Len(p \o q) = Len(p) + Len(q)
           /\ \A i \in 1 .. Len(p) + Len(q) :
                 (p \o q)[i] = IF i <= Len(p) THEN p[i] ELSE q[i - Len(p)]
<1>1. p \o q \in Seq(S)
  OBVIOUS
<1>2. Len(p \o q) = Len(p) + Len(q)
  OBVIOUS
<1>3. ASSUME NEW i \in 1 .. Len(p) + Len(q), i <= Len(p) PROVE (p \o q)[i] = p[i]
  BY <1>3
<1>4. ASSUME NEW i \in 1 .. Len(p) + Len(q), ~(i <= Len(p))
      PROVE  (p \o q)[i] = q[i - Len(p)]
  BY <1>4
<1> QED
  BY <1>1, <1>2, <1>3, <1>4, Zenon

\* Two sequences with the same elements are one.
LEMMA SameElements ==
    ASSUME NEW S, NEW p \in Seq(S), NEW q \in Seq(S), Len(p) = Len(q),
           \A i \in 1 .. Len(p) : p[i] = q[i]
    PROVE  p = q
  OBVIOUS

-----------------------------------------------------------------------------
\* Sending and receiving.

\* A call of send_message that succeeds is such a step: what leaves the
\* table enters the queue, and the message's tag is new there.
LEMMA SendMessageMoves ==
    ASSUME IInv, NEW task, NEW channel, NEW transfer \in Transfers(task, MaxTransfer),
           NEW size \in Sizes, SendMessage(task, channel, transfer, size)
    PROVE  \E table, cargo, messages : Moves(table, cargo, messages)
<1> DEFINE table == LeftBy(task, transfer)
<1>1. table \in SUBSET handles
  BY LeftBySubset
<1>2. /\ table \subseteq [task : Ids, handle : 1 .. MaxHandles, object : Ids]
      /\ \A e \in table : e.task <= created /\ e.object <= created /\ e.handle < next[e.task]
      /\ \A e, f \in table : (e.task = f.task /\ e.handle = f.handle) => e = f
      /\ \A e, f \in table : (e.object = f.object /\ e # f) => e.object \in shared
      /\ \A e \in table, c \in carried : e.object = c.object => e.object \in shared
  <2> HIDE DEF table
  <2> QED
    BY <1>1, FewerHandles, Zenon
<1>n. PICK n \in 0 .. MaxTransfer : transfer \in [1 .. n -> Numbers(task, Types)]
  BY DEF Transfers
<1>l. n \in Nat /\ n <= MaxTransfer /\ Len(transfer) = n /\ DOMAIN transfer = 1 .. n
  BY <1>n, BoundsAssumption
<1> DEFINE behind == Behind(task, transfer)
<1>e. PICK end \in Get(table, task, channel) :
        /\ typ[end] = "Channel"
        /\ peer[end] \notin freed
        /\ sent' = [sent EXCEPT ![peer[end]] = sent[peer[end]] + 1]
        /\ Settle(table,
                  carried \cup { [to |-> peer[end], tag |-> sent[peer[end]] + 1,
                                 slot |-> item.slot, object |-> item.object] : item \in behind },
                  [queue EXCEPT ![peer[end]] =
                      Append(@, [tag |-> sent[peer[end]] + 1, size |-> size, num_handles |-> n])])
  BY <1>l, Zenon DEF SendMessage
<1> DEFINE to == peer[end]
           tag == sent[to] + 1
           new == { [to |-> to, tag |-> tag, slot |-> item.slot, object |-> item.object] :
                    item \in behind }
           message == [tag |-> tag, size |-> size, num_handles |-> n]
           messages == [queue EXCEPT ![to] = Append(@, message)]
<1>3. /\ UNCHANGED <<created, typ, peer, next, got, failed, shared, discarded>>
      /\ posted' = posted + 1 /\ posted < MaxSent
      /\ Settle(table, carried \cup new, messages)
      /\ sent' = [sent EXCEPT ![to] = tag]
  BY <1>e, Zenon DEF SendMessage
<1>t. /\ \A j \in 1 .. n : \E e \in handles : e.task = task /\ e.handle = transfer[j]
      /\ \A j \in 1 .. n, k \in 1 .. n : k < j => transfer[k] # transfer[j]
  <2> HIDE DEF table, behind, to, tag, new, message, messages
  <2>1. Taken(task, transfer, n)
    BY <1>l, Zenon DEF SendMessage
  <2> QED
    BY <1>l, <2>1, SMTT(30) DEF Taken
<1>g. \A e \in table : ~(e.task = task /\ \E i \in 1 .. n : e.handle = transfer[i])
  <2>1. \A i \in 1 .. n : Taken(task, transfer, i)
    BY <1>l, <1>t DEF Taken
  <2> QED
    BY <1>l, <2>1, Zenon DEF LeftBy
<1>o. end \in Ids /\ to \in Ids /\ to \notin freed
  <2>1. PICK e \in table : e.object = end
    BY Zenon DEF Get
  <2>2. end \in Ids
    BY <1>2, <2>1, Zenon
  <2>3. \A o \in Ids : typ[o] = "Channel" => peer[o] \in Ids
    BY DEF IInv, TablesOK
  <2> QED
    BY <1>e, <2>2, <2>3, Zenon
<1>s. /\ sent \in [Ids -> Nat] /\ tag \in Nat /\ got \in [Ids -> Nat]
      /\ queue \in [Ids -> Seq(Message)]
  <2>1. sent \in [Ids -> Nat] /\ got \in [Ids -> Nat] /\ queue \in [Ids -> Seq(Message)]
    BY Zenon DEF IInv, TypeOK, Message
  <2> QED
    BY <1>o, <2>1, SMTT(30)
<1>b. \A item \in behind : /\ item.slot \in 1 .. n /\ item.object \in Ids
                           /\ [task |-> task, handle |-> transfer[item.slot],
                               object |-> item.object] \in handles
  BY <1>l, Zenon DEF Behind
<1>c. \A i \in 1 .. n : \E item \in behind : item.slot = i
  <2> SUFFICES ASSUME NEW i \in 1 .. n PROVE \E item \in behind : item.slot = i
    OBVIOUS
  <2>1. PICK e \in handles : e.task = task /\ e.handle = transfer[i]
    BY <1>t, Zenon
  <2>2. e \in [task : Ids, handle : 1 .. MaxHandles, object : Ids]
    BY Zenon DEF IInv, TypeOK
  <2>3. e = [task |-> task, handle |-> transfer[i], object |-> e.object] /\ e.object \in Ids
    BY <2>1, <2>2, Zenon
  <2>4. [slot |-> i, object |-> e.object] \in behind
    BY <1>l, <2>3, Zenon DEF Behind
  <2> QED
    BY <2>4
<1> HIDE DEF behind, table
<1>4. \A c \in new : /\ c \in [to : Ids, tag : Nat, slot : 1 .. MaxTransfer, object : Ids]
                     /\ c.to = to /\ c.tag = tag /\ c.slot \in 1 .. n
                     /\ [task |-> task, handle |-> transfer[c.slot],
                         object |-> c.object] \in handles
  <2> SUFFICES ASSUME NEW c \in new
               PROVE  /\ c \in [to : Ids, tag : Nat, slot : 1 .. MaxTransfer, object : Ids]
                      /\ c.to = to /\ c.tag = tag /\ c.slot \in 1 .. n
                      /\ [task |-> task, handle |-> transfer[c.slot],
                          object |-> c.object] \in handles
    BY Zenon
  <2> HIDE DEF to, tag
  <2>1. PICK item \in behind :
          c = [to |-> to, tag |-> tag, slot |-> item.slot, object |-> item.object]
    BY Zenon
  <2>2. item.slot \in 1 .. MaxTransfer
    <3>1. item.slot \in 1 .. n
      BY <1>b, Zenon
    <3> QED
      BY <1>l, <3>1, BoundsAssumption, LongerRange, Zenon
  <2> QED
    BY <1>b, <1>o, <1>s, <2>1, <2>2, Zenon
<1>5. \A i \in 1 .. n : \E c \in new : c.slot = i
  <2> SUFFICES ASSUME NEW i \in 1 .. n PROVE \E c \in new : c.slot = i
    BY Zenon
  <2> HIDE DEF to, tag
  <2>1. PICK item \in behind : item.slot = i
    BY <1>c
  <2>2. [to |-> to, tag |-> tag, slot |-> item.slot, object |-> item.object] \in new
    BY Zenon
  <2> QED
    BY <2>1, <2>2, Zenon
<1> HIDE DEF new
<1>6. /\ next' = next /\ next' \in [Ids -> 0 .. MaxHandles] /\ \A o \in Ids : next'[o] >= next[o]
      /\ got' \in [Ids -> Nat]
      /\ posted' \in 0 .. MaxSent /\ failed' \in 0 .. MaxFailed /\ discarded' \subseteq Ids
      /\ carried \subseteq [to : Ids, tag : Nat, slot : 1 .. MaxTransfer, object : Ids]
      /\ handles \subseteq [task : Ids, handle : 1 .. MaxHandles, object : Ids]
  <2>1. TypeOK
    BY DEF IInv
  <2>2. posted' \in 0 .. MaxSent
    BY <1>3, <2>1, BoundsAssumption DEF TypeOK
  <2>3. \A o \in Ids : next'[o] >= next[o]
    BY <1>3, <2>1, BoundsAssumption DEF TypeOK
  <2> QED
    BY <1>3, <2>1, <2>2, <2>3, Zenon DEF TypeOK
<1>7. /\ sent' \in [Ids -> Nat] /\ sent'[to] = tag /\ \A o \in Ids : o # to => sent'[o] = sent[o]
      /\ \A o \in Ids : sent'[o] >= sent[o]
  <2> HIDE DEF to, message, messages
  <2> QED
    BY <1>3, <1>o, <1>s, SMTT(30)
<1>d. \A d \in carried : d.to \in Ids /\ d.tag \in Nat /\ d.tag <= sent[d.to] /\ d.object <= created
  BY <1>6, Zenon DEF IInv, MailOK
<1>8. /\ \A c \in carried \cup new : c.tag <= sent'[c.to] /\ c.object <= created
      /\ \A c, d \in carried \cup new :
            (c.to = d.to /\ c.tag = d.tag /\ c.slot = d.slot) => c = d
  <2> HIDE DEF to, message, messages
  <2>1. \A c \in carried : c.tag <= sent'[c.to]
    <3>1. \A c \in carried : /\ c.tag \in Nat /\ sent[c.to] \in Nat /\ sent'[c.to] \in Nat
                             /\ c.tag <= sent[c.to] /\ sent'[c.to] >= sent[c.to]
      BY <1>7, <1>d, <1>s, Zenon
    <3> QED
      BY <3>1, UpTo, Zenon
  <2>2. \A c \in new : c.tag <= sent'[c.to] /\ c.object <= created
    <3>1. \A e \in handles : e.object <= created
      BY Zenon DEF IInv, TablesOK
    <3> TAKE c \in new
    <3>2. c.tag = tag /\ c.to = to
      BY <1>4, Zenon
    <3>3. [task |-> task, handle |-> transfer[c.slot], object |-> c.object] \in handles
      BY <1>4, Zenon
    <3>4. c.object <= created
      BY <3>1, <3>3, Zenon
    <3> HIDE DEF tag
    <3> QED
      BY <1>7, <1>s, <3>2, <3>4
  <2>3. \A c \in carried, d \in new : ~(c.to = d.to /\ c.tag = d.tag)
    <3> SUFFICES ASSUME NEW c \in carried, NEW d \in new, c.to = d.to, c.tag = d.tag
                 PROVE  FALSE
      BY Zenon
    <3>1. d.to = to /\ d.tag = sent[to] + 1
      BY <1>4, Zenon
    <3>2. c.tag <= sent[c.to] /\ sent[to] \in Nat
      BY <1>d, <1>o, <1>s, Zenon
    <3> QED
      BY <3>1, <3>2, SMTT(30)
  <2>4. \A c, d \in new : c.slot = d.slot => c = d
    <3> SUFFICES ASSUME NEW c \in new, NEW d \in new, c.slot = d.slot PROVE c = d
      OBVIOUS
    <3>1. c.object = d.object
      <4>1. \A e, f \in handles : (e.task = f.task /\ e.handle = f.handle) => e = f
        BY Zenon DEF IInv, TablesOK
      <4> DEFINE e == [task |-> task, handle |-> transfer[c.slot], object |-> c.object]
                 f == [task |-> task, handle |-> transfer[d.slot], object |-> d.object]
      <4>2. e \in handles /\ f \in handles
        BY <1>4, Zenon
      <4>3. e = f
        BY <4>1, <4>2, Zenon
      <4> QED
        BY <4>3, Zenon
    <3>2. /\ c \in [to : Ids, tag : Nat, slot : 1 .. MaxTransfer, object : Ids]
          /\ d \in [to : Ids, tag : Nat, slot : 1 .. MaxTransfer, object : Ids]
          /\ c.to = d.to /\ c.tag = d.tag
      BY <1>4, Zenon
    <3> QED
      BY <3>1, <3>2
  <2>5. \A c, d \in carried : (c.to = d.to /\ c.tag = d.tag /\ c.slot = d.slot) => c = d
    BY Zenon DEF IInv, MailOK
  <2> QED
    BY <1>d, <2>1, <2>2, <2>3, <2>4, <2>5, Zenon
<1>9. /\ \A c, d \in carried \cup new : (c.object = d.object /\ c # d) => c.object \in shared
      /\ \A e \in table, c \in carried \cup new : e.object = c.object => e.object \in shared
  <2> HIDE DEF to, tag
  <2>0. /\ \A e, f \in handles : (e.object = f.object /\ e # f) => e.object \in shared
        /\ \A c, d \in carried : (c.object = d.object /\ c # d) => c.object \in shared
        /\ \A e \in handles, c \in carried : e.object = c.object => e.object \in shared
    BY Zenon DEF IInv, NeverDuplicated
  <2>1. ASSUME NEW c \in new, NEW d \in carried, c.object = d.object
        PROVE  c.object \in shared
    <3> DEFINE e == [task |-> task, handle |-> transfer[c.slot], object |-> c.object]
    <3>1. e \in handles
      BY <1>4, Zenon
    <3>2. e.object \in shared
      BY <2>0, <2>1, <3>1, Zenon
    <3> QED
      BY <3>2, Zenon
  <2>2. ASSUME NEW c \in new, NEW d \in new, c.object = d.object, c # d
        PROVE  c.object \in shared
    <3> DEFINE e == [task |-> task, handle |-> transfer[c.slot], object |-> c.object]
               f == [task |-> task, handle |-> transfer[d.slot], object |-> d.object]
    <3>1. c.slot # d.slot
      <4>1. /\ c \in [to : Ids, tag : Nat, slot : 1 .. MaxTransfer, object : Ids]
            /\ d \in [to : Ids, tag : Nat, slot : 1 .. MaxTransfer, object : Ids]
            /\ c.to = d.to /\ c.tag = d.tag
        BY <1>4, Zenon
      <4> QED
        BY <2>2, <4>1
    <3>2. c.slot \in 1 .. n /\ d.slot \in 1 .. n
      BY <1>4, Zenon
    <3>3. transfer[c.slot] # transfer[d.slot]
      BY <1>l, <1>t, <3>1, <3>2
    <3>4. e \in handles /\ f \in handles /\ e # f
      BY <1>4, <3>3, Zenon
    <3>5. e.object \in shared
      BY <2>0, <2>2, <3>4, Zenon
    <3> QED
      BY <3>5, Zenon
  <2>3. ASSUME NEW e \in table, NEW c \in new, e.object = c.object
        PROVE  e.object \in shared
    <3> DEFINE f == [task |-> task, handle |-> transfer[c.slot], object |-> c.object]
    <3>1. f \in handles /\ c.slot \in 1 .. n
      BY <1>4, Zenon
    <3>2. e # f
      BY <1>g, <3>1
    <3> QED
      BY <1>1, <2>0, <2>3, <3>1, <3>2, Zenon
  <2> QED
    BY <1>2, <2>0, <2>1, <2>2, <2>3, Zenon
<1>10. /\ messages \in [Ids -> Seq(Message)]
       /\ messages[to] = Append(queue[to], message)
       /\ \A o \in Ids : o # to => messages[o] = queue[o]
  <2> HIDE DEF to, tag
  <2>1. message \in Message
    BY <1>l, <1>s, BoundsAssumption, Zenon DEF Message
  <2> HIDE DEF message, Message
  <2>2. queue[to] \in Seq(Message)
    BY <1>o, <1>s
  <2>3. Append(queue[to], message) \in Seq(Message)
    BY <2>1, <2>2, AtTheEnd, Zenon
  <2> QED
    BY <1>o, <1>s, <2>3, Zenon
<1> DEFINE Slots(all, o, t) == { c.slot : c \in { d \in all : d.to = o /\ d.tag = t } }
<1>11. ASSUME NEW o \in Ids, NEW t, ~(o = to /\ t = tag)
       PROVE  Slots(carried \cup new, o, t) = Slots(carried, o, t)
  <2> HIDE DEF to, tag
  <2>1. \A d \in new : ~(d.to = o /\ d.tag = t)
    BY <1>4, <1>11, Zenon
  <2>2. { d \in carried \cup new : d.to = o /\ d.tag = t } = { d \in carried : d.to = o /\ d.tag = t }
    BY <2>1
  <2> QED
    BY <2>2, Zenon
<1>12. Slots(carried \cup new, to, tag) = 1 .. n
  <2>1. \A d \in carried : ~(d.to = to /\ d.tag = tag)
    <3> HIDE DEF to
    <3> QED
      BY <1>d, <1>o, <1>s
  <2> HIDE DEF to, tag
  <2>2. \A d \in new : d.to = to /\ d.tag = tag
    BY <1>4, Zenon
  <2>3. { d \in carried \cup new : d.to = to /\ d.tag = tag } = new
    BY <2>1, <2>2
  <2>4. Slots(carried \cup new, to, tag) = { c.slot : c \in new }
    BY <2>3, Zenon
  <2>5. { c.slot : c \in new } = 1 .. n
    BY <1>4, <1>5, ZenonT(30)
  <2> QED
    BY <2>4, <2>5, Zenon
<1>13. ASSUME NEW o \in Ids \ freed
       PROVE  /\ Len(messages[o]) = sent'[o] - got[o]
              /\ \A i \in 1 .. Len(messages[o]) :
                    /\ messages[o][i].tag = got[o] + i
                    /\ Slots(carried \cup new, o, got[o] + i) = 1 .. messages[o][i].num_handles
  <2>1. /\ Len(queue[o]) = sent[o] - got[o]
        /\ \A i \in 1 .. Len(queue[o]) :
              /\ queue[o][i].tag = got[o] + i
              /\ Slots(carried, o, got[o] + i) = 1 .. queue[o][i].num_handles
    BY Zenon DEF IInv, MessagesInOrder
  <2>2. CASE o # to
    <3> HIDE DEF to, tag, Slots, messages
    <3>1. messages[o] = queue[o] /\ sent'[o] = sent[o]
      BY <1>7, <1>10, <2>2, Zenon
    <3>2. \A t : Slots(carried \cup new, o, t) = Slots(carried, o, t)
      BY <1>11, <2>2
    <3> QED
      BY <2>1, <3>1, <3>2, Zenon
  <2>3. CASE o = to
    <3> HIDE DEF to, Slots, messages, message
    <3>1. queue[o] \in Seq(Message) /\ sent[o] \in Nat /\ got[o] \in Nat /\ tag = sent[o] + 1
      BY <1>s, <2>3
    <3>2. message.tag = tag /\ message.num_handles = n
      BY Zenon DEF message
    <3> HIDE DEF tag
    <3>3. /\ Len(messages[o]) = Len(queue[o]) + 1
          /\ \A i \in 1 .. Len(queue[o]) : messages[o][i] = queue[o][i]
          /\ messages[o][Len(queue[o]) + 1] = message
      <4> HIDE DEF Message
      <4> message \in Message
        <5> USE DEF message, Message
        <5> QED
          BY <1>l, <1>s, BoundsAssumption, Zenon
      <4> QED
        BY <1>10, <2>3, <3>1, AtTheEnd, SMTT(30)
    <3>4. Len(queue[o]) \in Nat /\ Len(queue[o]) = sent[o] - got[o]
      BY <2>1, <3>1
    <3>5. Len(messages[o]) = sent'[o] - got[o]
      <4>1. sent'[o] = sent[o] + 1
        BY <1>7, <2>3, <3>1, Zenon
      <4>2. Len(queue[o]) + 1 = (sent[o] + 1) - got[o]
        BY <3>1, <3>4, OneMore, Zenon
      <4> QED
        BY <3>3, <4>1, <4>2, Zenon
    <3>6. ASSUME NEW i \in 1 .. Len(messages[o])
          PROVE  /\ messages[o][i].tag = got[o] + i
                 /\ Slots(carried \cup new, o, got[o] + i) = 1 .. messages[o][i].num_handles
      <4>1. CASE i = Len(queue[o]) + 1
        <5>1. messages[o][i] = message /\ got[o] + i = tag
          BY <3>1, <3>3, <3>4, <4>1, OneMore, Zenon
        <5> QED
          BY <1>12, <2>3, <3>2, <5>1, Zenon
      <4>2. CASE i \in 1 .. Len(queue[o])
        <5>0. messages[o][i] = queue[o][i]
          BY <3>3, <4>2, Zenon
        <5>1. messages[o][i] = queue[o][i] /\ got[o] + i # tag
          BY <3>1, <3>4, <4>2, <5>0, SMTT(30)
        <5>2. Slots(carried \cup new, o, got[o] + i) = Slots(carried, o, got[o] + i)
          BY <1>11, <5>1, Zenon
        <5> QED
          BY <2>1, <4>2, <5>1, <5>2, Zenon
      <4> QED
        BY <3>3, <3>4, <4>1, <4>2, SMTT(30)
    <3> QED
      BY <3>5, <3>6, Zenon
  <2> QED
    BY <2>2, <2>3, Zenon
<1>14. Moves(table, carried \cup new, messages)
  <2> HIDE DEF Message, messages, to, tag
  <2>1. UNCHANGED <<created, typ, peer, shared>> /\ got' = got
    BY <1>3
  <2>2. carried \cup new \subseteq [to : Ids, tag : Nat, slot : 1 .. MaxTransfer, object : Ids]
    BY <1>4, <1>6, Zenon
  <2>3. \A o \in Ids \ freed :
          /\ Len(messages[o]) = sent'[o] - got'[o]
          /\ \A i \in 1 .. Len(messages[o]) :
                /\ messages[o][i].tag = got'[o] + i
                /\ { c.slot : c \in { d \in carried \cup new : d.to = o /\ d.tag = got'[o] + i } }
                     = 1 .. messages[o][i].num_handles
    BY <1>13, <2>1, ZenonT(30)
  <2>4. \A e \in table : e.task <= created /\ e.object <= created /\ e.handle < next'[e.task]
    BY <1>2, <1>6, Zenon
  <2>5. Settle(table, carried \cup new, messages)
    BY <1>3, Zenon
  <2> QED
    BY <1>1, <1>2, <1>6, <1>7, <1>8, <1>9, <1>10, <2>1, <2>2, <2>3, <2>4, <2>5, Zenon DEF Moves
<1> QED
  BY <1>14

\* Putting the head back in front of the tail restores the queue.
LEMMA PutBackHead ==
    ASSUME NEW S, NEW q \in Seq(S), q # <<>>
    PROVE  PutBack(Tail(q), Head(q)) = q
<1>1. /\ Head(q) \in S /\ Tail(q) \in Seq(S) /\ Len(Tail(q)) = Len(q) - 1
      /\ \A i \in 1 .. Len(Tail(q)) : Tail(q)[i] = q[i + 1]
  BY AfterFirst
<1>2. Len(q) \in Nat \ {0}
  BY AnyElement
<1>3. <<Head(q)>> \in Seq(S) /\ Len(<<Head(q)>>) = 1 /\ <<Head(q)>>[1] = q[1]
  BY <1>1, <1>2
<1> DEFINE r == <<Head(q)>> \o Tail(q)
<1>4. /\ r \in Seq(S) /\ Len(r) = Len(<<Head(q)>>) + Len(Tail(q))
      /\ \A i \in 1 .. Len(<<Head(q)>>) + Len(Tail(q)) :
            r[i] = IF i <= Len(<<Head(q)>>) THEN <<Head(q)>>[i] ELSE Tail(q)[i - Len(<<Head(q)>>)]
  BY <1>1, <1>3, InARow
<1>5. Len(r) = Len(q)
  BY <1>1, <1>2, <1>3, <1>4
<1> HIDE DEF r
<1>6. ASSUME NEW i \in 1 .. Len(r) PROVE r[i] = q[i]
  <2>1. CASE i = 1
    BY <1>1, <1>2, <1>3, <1>4, <2>1
  <2>2. CASE i # 1
    <3>1. i - 1 \in 1 .. Len(Tail(q)) /\ i - 1 + 1 = i /\ ~(i <= 1)
      BY <1>1, <1>2, <1>5, <2>2
    <3>2. r[i] = Tail(q)[i - 1]
      BY <1>1, <1>2, <1>3, <1>4, <1>5, <3>1, Zenon
    <3> QED
      BY <1>1, <3>1, <3>2
  <2> QED
    BY <2>1, <2>2
<1>7. r = q
  BY <1>4, <1>5, <1>6, SameElements
<1> QED
  BY <1>7 DEF PutBack, r

\* A receive into too small a buffer changes nothing.
LEMMA GetMessageTooSmallUnchanged ==
    ASSUME TypeOK, NEW task, NEW channel, NEW bytes_len, NEW handles_len,
           GetMessageTooSmall(task, channel, bytes_len, handles_len)
    PROVE  UNCHANGED vars
<1>1. PICK end \in Get(handles, task, channel) :
        /\ queue[end] # <<>>
        /\ queue' = [queue EXCEPT ![end] = PutBack(Tail(queue[end]), Head(queue[end]))]
  BY Zenon DEF GetMessageTooSmall
<1>2. end \in Ids
  BY Zenon DEF Get, TypeOK
<1>3. queue \in [Ids -> Seq(Message)]
  BY Zenon DEF TypeOK, Message
<1> HIDE DEF Message
<1>4. PutBack(Tail(queue[end]), Head(queue[end])) = queue[end]
  BY <1>1, <1>2, <1>3, PutBackHead
<1>5. queue' = queue
  BY <1>1, <1>2, <1>3, <1>4
<1> QED
  BY <1>5, Zenon DEF GetMessageTooSmall, vars, counts

-----------------------------------------------------------------------------
\* A receive that succeeds, and what follows for every behaviour.

\* A receive is such a step: the objects of the oldest message move to
\* fresh numbers of the receiver, or are dropped, and the rest stays in order.
LEMMA GetMessageMoves ==
    ASSUME IInv, NEW task \in Tasks, NEW channel, NEW bytes_len, NEW handles_len \in Nat,
           NEW handles_address,
           GetMessage(task, channel, bytes_len, handles_len, handles_address)
    PROVE  \E table, cargo, messages : Moves(table, cargo, messages)
<1>a. TypeOK /\ TablesOK /\ MailOK /\ NeverDuplicated /\ MessagesInOrder
  BY DEF IInv
<1>e. PICK end \in Get(handles, task, channel) :
        /\ queue[end] # <<>>
        /\ next[task] + Head(queue[end]).num_handles <= MaxHandles
        /\ got' = [got EXCEPT ![end] = Head(queue[end]).tag]
        /\ \/ /\ Settle(Insert(handles, Entries(task, next[task],
                                { c \in carried : c.to = end /\ c.tag = Head(queue[end]).tag })),
                        carried \ { c \in carried : c.to = end /\ c.tag = Head(queue[end]).tag },
                        [queue EXCEPT ![end] = Tail(@)])
              /\ next' = [next EXCEPT
                            ![task] = (next[task] + Head(queue[end]).num_handles) % HandleLimit]
              /\ UNCHANGED discarded
           \/ /\ Settle(handles,
                        carried \ { c \in carried : c.to = end /\ c.tag = Head(queue[end]).tag },
                        [queue EXCEPT ![end] = Tail(@)])
              /\ discarded' = discarded \cup
                    { c.object : c \in { d \in carried : d.to = end /\ d.tag = Head(queue[end]).tag } }
              /\ UNCHANGED next
        /\ UNCHANGED <<created, typ, peer, sent, posted, failed, shared>>
  BY Zenon DEF GetMessage
<1> DEFINE message == Head(queue[end])
           cargo == { c \in carried : c.to = end /\ c.tag = message.tag }
           kept == carried \ cargo
           messages == [queue EXCEPT ![end] = Tail(@)]
           n == message.num_handles
           Slots(all, o, t) == { c.slot : c \in { d \in all : d.to = o /\ d.tag = t } }
<1>o. end \in Ids /\ end \notin freed
  BY <1>a, <1>e, Zenon DEF Get, TypeOK, MailOK
<1>s. /\ sent \in [Ids -> Nat] /\ got \in [Ids -> Nat] /\ queue \in [Ids -> Seq(Message)]
      /\ carried \subseteq [to : Ids, tag : Nat, slot : 1 .. MaxTransfer, object : Ids]
      /\ handles \subseteq [task : Ids, handle : 1 .. MaxHandles, object : Ids]
      /\ next \in [Ids -> 0 .. MaxHandles]
      /\ posted \in 0 .. MaxSent /\ failed \in 0 .. MaxFailed /\ discarded \subseteq Ids
  BY <1>a, Zenon DEF TypeOK, Message
<1>q. /\ message \in Message /\ Tail(queue[end]) \in Seq(Message)
      /\ message = queue[end][1]
      /\ Len(queue[end]) \in Nat \ {0}
      /\ Len(Tail(queue[end])) = Len(queue[end]) - 1
      /\ \A i \in 1 .. Len(Tail(queue[end])) : Tail(queue[end])[i] = queue[end][i + 1]
  <2> HIDE DEF Message
  <2>1. queue[end] \in Seq(Message)
    BY <1>o, <1>s, Zenon
  <2>2. message = queue[end][1]
    BY <1>e, <2>1, AfterFirst, Zenon
  <2>3. Len(queue[end]) \in Nat \ {0}
    BY <1>e, <2>1, AnyElement, Zenon
  <2> QED
    BY <1>e, <2>1, <2>2, <2>3, AfterFirst, Zenon
<1>m. /\ Len(queue[end]) = sent[end] - got[end]
      /\ \A i \in 1 .. Len(queue[end]) :
            /\ queue[end][i].tag = got[end] + i
            /\ Slots(carried, end, got[end] + i) = 1 .. queue[end][i].num_handles
  BY <1>a, <1>o, Zenon DEF MessagesInOrder
<1>t. /\ message.tag = got[end] + 1 /\ Slots(carried, end, message.tag) = 1 .. n
      /\ n \in Nat /\ n <= MaxTransfer /\ got[end] \in Nat /\ sent[end] \in Nat
  <2>1. message.tag = got[end] + 1 /\ Slots(carried, end, got[end] + 1) = 1 .. n
    <3> HIDE DEF Slots
    <3> 1 \in 1 .. Len(queue[end])
      BY <1>q
    <3> QED
      BY <1>m, <1>q, Zenon
  <2>2. n \in 0 .. MaxTransfer /\ got[end] \in Nat /\ sent[end] \in Nat
    BY <1>o, <1>q, <1>s, Zenon DEF Message
  <2>3. n \in Nat /\ n <= MaxTransfer
    <3> HIDE DEF n
    <3> QED
      BY <2>2, BoundsAssumption
  <2> QED
    BY <2>1, <2>2, <2>3, Zenon
<1>c. \A c \in cargo : c \in carried /\ c.to = end /\ c.tag = message.tag /\ c.slot \in 1 .. n
  BY <1>t, Zenon
<1>1. /\ messages \in [Ids -> Seq(Message)] /\ messages[end] = Tail(queue[end])
      /\ \A o \in Ids : o # end => messages[o] = queue[o]
  <2> HIDE DEF Message
  <2> QED
    BY <1>o, <1>q, <1>s, Zenon
<1>2. /\ got' \in [Ids -> Nat] /\ got'[end] = got[end] + 1
      /\ \A o \in Ids : o # end => got'[o] = got[o]
  <2> HIDE DEF message
  <2>1. got' = [got EXCEPT ![end] = got[end] + 1]
    BY <1>e, <1>t, Zenon DEF message
  <2> QED
    BY <1>o, <1>s, <1>t, <2>1, SMTT(30)
<1> HIDE DEF message
<1>3. ASSUME NEW o \in Ids \ freed
      PROVE  /\ Len(messages[o]) = sent[o] - got'[o]
             /\ \A i \in 1 .. Len(messages[o]) :
                   /\ messages[o][i].tag = got'[o] + i
                   /\ Slots(kept, o, got'[o] + i) = 1 .. messages[o][i].num_handles
  <2>0. ASSUME NEW t, ~(o = end /\ t = message.tag)
        PROVE  Slots(kept, o, t) = Slots(carried, o, t)
    <3>1. { d \in kept : d.to = o /\ d.tag = t } = { d \in carried : d.to = o /\ d.tag = t }
      BY <2>0, Zenon
    <3> QED
      BY <3>1, Zenon
  <2>1. /\ Len(queue[o]) = sent[o] - got[o]
        /\ \A i \in 1 .. Len(queue[o]) :
              /\ queue[o][i].tag = got[o] + i
              /\ Slots(carried, o, got[o] + i) = 1 .. queue[o][i].num_handles
    BY <1>a, Zenon DEF MessagesInOrder
  <2> HIDE DEF Slots, messages, kept
  <2>2. CASE o # end
    <3>1. messages[o] = queue[o] /\ got'[o] = got[o]
      BY <1>1, <1>2, <2>2, Zenon
    <3>2. \A t : Slots(kept, o, t) = Slots(carried, o, t)
      BY <2>0, <2>2, Zenon
    <3> QED
      BY <2>1, <3>1, <3>2, Zenon
  <2>3. CASE o = end
    <3>1. /\ messages[o] = Tail(queue[o]) /\ got'[o] = got[o] + 1
          /\ Len(messages[o]) = Len(queue[o]) - 1 /\ Len(queue[o]) \in Nat
      BY <1>1, <1>2, <1>q, <2>3, Zenon
    <3>2. Len(messages[o]) = sent[o] - got'[o]
      <4>1. sent[o] \in Nat /\ got[o] \in Nat
        BY <1>t, <2>3, Zenon
      <4>2. Len(queue[o]) - 1 = sent[o] - (got[o] + 1)
        BY <2>1, <3>1, <4>1, OneFewer, Zenon
      <4> QED
        BY <3>1, <4>2, Zenon
    <3>3. ASSUME NEW i \in 1 .. Len(messages[o])
          PROVE  /\ messages[o][i].tag = got'[o] + i
                 /\ Slots(kept, o, got'[o] + i) = 1 .. messages[o][i].num_handles
      <4>1. messages[o][i] = queue[o][i + 1]
        BY <1>q, <2>3, <3>1, Zenon
      <4>2. /\ i + 1 \in 1 .. Len(queue[o]) /\ got'[o] + i = got[o] + (i + 1)
            /\ got'[o] + i # message.tag
        <5>1. sent[o] \in Nat /\ got[o] \in Nat /\ i \in 1 .. Len(queue[o]) - 1
              /\ message.tag = got[o] + 1
          BY <1>t, <2>3, <3>1, Zenon
        <5>2. /\ i + 1 \in 1 .. Len(queue[o]) /\ (got[o] + 1) + i = got[o] + (i + 1)
              /\ (got[o] + 1) + i # got[o] + 1
          <6>1. Len(queue[o]) \in Nat /\ Len(queue[o]) = sent[o] - got[o]
            BY <2>1, <3>1, Zenon
          <6>2. PICK l \in Nat, s \in Nat, g \in Nat :
                  l = Len(queue[o]) /\ s = sent[o] /\ g = got[o]
            BY <5>1, <6>1, Zenon
          <6>3. l = s - g /\ i \in 1 .. l - 1
            BY <5>1, <6>1, <6>2, Zenon
          <6>4. i + 1 \in 1 .. l /\ (g + 1) + i = g + (i + 1) /\ (g + 1) + i # g + 1
            BY <6>3, SMTT(30)
          <6> QED
            BY <6>2, <6>4, Zenon
        <5> QED
          BY <3>1, <5>1, <5>2, Zenon
      <4>3. Slots(kept, o, got'[o] + i) = Slots(carried, o, got'[o] + i)
        BY <2>0, <4>2, Zenon
      <4> QED
        BY <2>1, <4>1, <4>2, <4>3, Zenon
    <3> QED
      BY <3>2, <3>3, Zenon
  <2> QED
    BY <2>2, <2>3, Zenon
<1>d. /\ \A c \in carried : c.tag <= sent[c.to] /\ c.object <= created
      /\ \A c, d \in carried : (c.to = d.to /\ c.tag = d.tag /\ c.slot = d.slot) => c = d
  BY <1>a, Zenon DEF MailOK
<1>f. /\ \A e, f \in handles : (e.object = f.object /\ e # f) => e.object \in shared
      /\ \A c, d \in carried : (c.object = d.object /\ c # d) => c.object \in shared
      /\ \A e \in handles, c \in carried : e.object = c.object => e.object \in shared
  BY <1>a, Zenon DEF NeverDuplicated
<1>4. \A o \in Ids \ freed :
        /\ Len(messages[o]) = sent'[o] - got'[o]
        /\ \A i \in 1 .. Len(messages[o]) :
              /\ messages[o][i].tag = got'[o] + i
              /\ { c.slot : c \in { d \in kept : d.to = o /\ d.tag = got'[o] + i } }
                   = 1 .. messages[o][i].num_handles
  <2>1. sent' = sent
    BY <1>e, Zenon
  <2> HIDE DEF messages, kept
  <2> QED
    BY <1>3, <2>1, Zenon
<1>5. /\ kept \subseteq [to : Ids, tag : Nat, slot : 1 .. MaxTransfer, object : Ids]
      /\ \A c \in kept : c.tag <= sent'[c.to] /\ c.object <= created
      /\ \A c, d \in kept : (c.to = d.to /\ c.tag = d.tag /\ c.slot = d.slot) => c = d
      /\ \A c, d \in kept : (c.object = d.object /\ c # d) => c.object \in shared
      /\ \A e \in handles, c \in kept : e.object = c.object => e.object \in shared
  <2>1. sent' = sent /\ kept \subseteq carried
    BY <1>e, Zenon
  <2> HIDE DEF kept
  <2> QED
    BY <1>s, <1>d, <1>f, <2>1, Zenon
<1>6. /\ UNCHANGED <<created, typ, peer, shared>>
      /\ sent' \in [Ids -> Nat] /\ posted' \in 0 .. MaxSent /\ failed' \in 0 .. MaxFailed
  BY <1>e, <1>s, Zenon
<1>7. /\ \A e \in handles : e.task <= created /\ e.object <= created /\ e.handle < next[e.task]
      /\ \A e, f \in handles : (e.task = f.task /\ e.handle = f.handle) => e = f
  BY <1>a, Zenon DEF TablesOK
<1>8. CASE Settle(handles, kept, messages)
           /\ discarded' = discarded \cup { c.object : c \in cargo } /\ UNCHANGED next
  <2>1. discarded' \subseteq Ids
    <3>1. { c.object : c \in cargo } \subseteq Ids
      BY <1>s, Zenon
    <3> QED
      BY <1>8, <1>s, <3>1, Zenon
  <2> HIDE DEF kept, messages, cargo, Message
  <2>2. next' = next /\ \A o \in Ids : next'[o] >= next[o]
    BY <1>8, <1>s, NoLess, Zenon
  <2>3. Moves(handles, kept, messages)
    BY <1>1, <1>2, <1>4, <1>5, <1>6, <1>7, <1>8, <1>f, <1>s, <2>1, <2>2, Zenon DEF Moves
  <2> QED
    BY <2>3
<1>9. CASE /\ Settle(Insert(handles, Entries(task, next[task], cargo)), kept, messages)
           /\ next' = [next EXCEPT ![task] = (next[task] + n) % HandleLimit]
           /\ UNCHANGED discarded
  <2> DEFINE new == Entries(task, next[task], cargo)
             table == handles \cup new
  <2>1. /\ task \in Ids /\ task \in Nat /\ task <= created /\ created \in Nat
        /\ next[task] \in Nat /\ next[task] >= 1 /\ next[task] + n <= MaxHandles
    <3>1. /\ task \in Ids /\ task <= created /\ created \in Nat
          /\ next[task] \in Nat /\ next[task] >= 1
      BY <1>a, CallerTask, Zenon
    <3>2. task \in Nat
      BY <3>1 DEF Ids
    <3>3. next[task] + n <= MaxHandles
      BY <1>e, Zenon DEF message
    <3> QED
      BY <3>1, <3>2, <3>3, Zenon
  <2>2. /\ next' \in [Ids -> 0 .. MaxHandles] /\ next'[task] = next[task] + n
        /\ \A o \in Ids : o # task => next'[o] = next[o]
        /\ \A o \in Ids : next'[o] \in Nat /\ next[o] \in Nat /\ next'[o] >= next[o]
    <3>1. (next[task] + n) % HandleLimit = next[task] + n
      <4>1. next[task] + n \in Nat /\ next[task] + n < HandleLimit
        BY <1>t, <2>1, BoundsAssumption, SMTT(30)
      <4> QED
        BY <4>1, NoWrap, Zenon
    <3>2. next' = [next EXCEPT ![task] = next[task] + n]
      BY <1>9, <3>1, Zenon
    <3>3. next[task] + n \in 0 .. MaxHandles /\ n \in Nat
      BY <1>t, <2>1, BoundsAssumption, SMTT(30)
    <3> HIDE DEF n
    <3> QED
      <4>1. next \in [Ids -> 0 .. MaxHandles]
        BY <1>s, Zenon
      <4>2. /\ next' \in [Ids -> 0 .. MaxHandles] /\ next'[task] = next[task] + n
            /\ \A o \in Ids : o # task => next'[o] = next[o]
        BY <2>1, <3>2, <3>3, <4>1, Zenon
      <4>3. \A o \in Ids : next[o] \in Nat
        BY <4>1, BoundsAssumption
      <4> QED
        BY <2>1, <3>3, <4>2, <4>3
  <2>3. ASSUME NEW c \in cargo
        PROVE  (next[task] + c.slot - 1) % HandleLimit = next[task] + c.slot - 1
    <3>1. next[task] + c.slot - 1 \in Nat /\ next[task] + c.slot - 1 < HandleLimit
      <4>1. c.slot \in 1 .. n
        BY <1>c, Zenon
      <4> QED
        BY <1>t, <2>1, <4>1, BoundsAssumption, SMTT(30)
    <3> QED
      BY <3>1, NoWrap, Zenon
  <2>4. \A f \in new : \E c \in cargo :
          f = [task |-> task, handle |-> next[task] + c.slot - 1, object |-> c.object]
    <3> HIDE DEF cargo
    <3> QED
      BY <2>3, Zenon DEF Entries
  <2> HIDE DEF new
  <2>5. ASSUME NEW f \in new
        PROVE  /\ f \in [task : Ids, handle : 1 .. MaxHandles, object : Ids]
               /\ f.task = task /\ f.handle >= next[task] /\ f.handle < next[task] + n
               /\ f.object <= created
    <3>1. PICK c \in cargo :
            f = [task |-> task, handle |-> next[task] + c.slot - 1, object |-> c.object]
      BY <2>4, Zenon
    <3>2. c.slot \in 1 .. n /\ c.object \in Ids /\ c.object <= created
      BY <1>c, <1>d, <1>s, Zenon
    <3> HIDE DEF cargo
    <3>3. next[task] + c.slot - 1 \in 1 .. MaxHandles
          /\ next[task] + c.slot - 1 >= next[task] /\ next[task] + c.slot - 1 < next[task] + n
      BY <1>t, <2>1, <3>2, BoundsAssumption, SMTT(30)
    <3> QED
      BY <2>1, <3>1, <3>2, <3>3, Zenon
  <2>6. Settle(table, kept, messages)
    <3>1. \A f \in new : f.task \in Ids /\ f.handle \in Nat
                          /\ (f.task <= created => f.handle >= next[f.task])
      BY <2>5, BoundsAssumption, SMTT(30)
    <3>2. Insert(handles, new) = table
      BY <1>a, <3>1, InsertFresh, Zenon
    <3> QED
      BY <1>9, <3>2, Zenon DEF new
  <2>7. /\ table \subseteq [task : Ids, handle : 1 .. MaxHandles, object : Ids]
        /\ \A e \in table : e \in handles \/ e.handle >= next[e.task]
    BY <1>s, <2>5, Zenon
  <2>8. \A e \in table : e.task <= created /\ e.object <= created /\ e.handle < next'[e.task]
    <3>1. \A e \in handles : e.handle < next'[e.task]
      <4> TAKE e \in handles
      <4>1. e.task \in Ids /\ e.handle \in Nat /\ e.handle < next[e.task]
        BY <1>7, <1>s, BoundsAssumption, SMTT(30)
      <4> QED
        BY <2>2, <4>1, SMTT(30)
    <3> QED
      BY <1>7, <2>1, <2>2, <2>5, <3>1, Zenon
  <2>9. \A e \in handles, f \in new : ~(e.task = f.task /\ e.handle = f.handle)
    <3> SUFFICES ASSUME NEW e \in handles, NEW f \in new, e.task = f.task, e.handle = f.handle
                 PROVE  FALSE
      BY Zenon
    <3>1. e.handle \in Nat /\ e.handle < next[task] /\ f.handle >= next[task]
      <4>1. e.handle < next[e.task] /\ f.task = task /\ f.handle >= next[task]
        BY <1>7, <2>5, Zenon
      <4>2. e \in [task : Ids, handle : 1 .. MaxHandles, object : Ids]
        BY <1>s, Zenon
      <4>3. e.handle \in Nat
        BY <4>2, BoundsAssumption
      <4> QED
        BY <4>1, <4>3, Zenon
    <3> QED
      BY <2>1, <3>1, SMTT(30)
  <2>10. \A e, f \in new : e.handle = f.handle => e = f
    <3> SUFFICES ASSUME NEW e \in new, NEW f \in new, e.handle = f.handle PROVE e = f
      OBVIOUS
    <3>1. PICK c \in cargo :
            e = [task |-> task, handle |-> next[task] + c.slot - 1, object |-> c.object]
      BY <2>4, Zenon
    <3>2. PICK d \in cargo :
            f = [task |-> task, handle |-> next[task] + d.slot - 1, object |-> d.object]
      BY <2>4, Zenon
    <3>3. c.slot \in Nat /\ d.slot \in Nat /\ c \in carried /\ d \in carried
          /\ c.to = d.to /\ c.tag = d.tag
      BY <1>c, <1>t, SMTT(30)
    <3> HIDE DEF cargo
    <3>4. c.slot = d.slot
      BY <2>1, <3>1, <3>2, <3>3
    <3>5. c = d
      BY <1>d, <3>3, <3>4, Zenon
    <3> QED
      BY <3>1, <3>2, <3>5, Zenon
  <2>11. \A e, f \in table : (e.task = f.task /\ e.handle = f.handle) => e = f
    BY <1>7, <2>9, <2>10, Zenon
  <2>12. ASSUME NEW f \in new, NEW e \in handles, e.object = f.object
         PROVE  e.object \in shared
    <3>1. PICK c \in cargo :
            f = [task |-> task, handle |-> next[task] + c.slot - 1, object |-> c.object]
      BY <2>4, Zenon
    <3> QED
      BY <1>f, <2>12, <3>1, Zenon
  <2>13. ASSUME NEW e \in new, NEW f \in new, e.object = f.object, e # f
         PROVE  e.object \in shared
    <3>1. PICK c \in cargo :
            e = [task |-> task, handle |-> next[task] + c.slot - 1, object |-> c.object]
      BY <2>4, Zenon
    <3>2. PICK d \in cargo :
            f = [task |-> task, handle |-> next[task] + d.slot - 1, object |-> d.object]
      BY <2>4, Zenon
    <3>3. c # d /\ c.object = d.object
      BY <2>13, <3>1, <3>2, Zenon
    <3> QED
      BY <1>f, <3>1, <3>3, Zenon
  <2>14. ASSUME NEW f \in new, NEW d \in kept, f.object = d.object
         PROVE  f.object \in shared
    <3>1. PICK c \in cargo :
            f = [task |-> task, handle |-> next[task] + c.slot - 1, object |-> c.object]
      BY <2>4, Zenon
    <3>2. c # d /\ c \in carried /\ d \in carried /\ c.object = d.object
      BY <2>14, <3>1, Zenon
    <3> QED
      BY <1>f, <3>1, <3>2, Zenon
  <2> HIDE DEF kept, messages, cargo, Message
  <2>15. /\ \A e, f \in table : (e.object = f.object /\ e # f) => e.object \in shared
         /\ \A e \in table, c \in kept : e.object = c.object => e.object \in shared
    BY <1>5, <1>f, <2>12, <2>13, <2>14, Zenon
  <2> HIDE DEF table
  <2>16. discarded' \subseteq Ids
    BY <1>9, <1>s, Zenon
  <2>17. Moves(table, kept, messages)
    BY <1>1, <1>2, <1>4, <1>5, <1>6, <2>2, <2>6, <2>7, <2>8, <2>11, <2>15, <2>16, Zenon DEF Moves
  <2> QED
    BY <2>17
<1> QED
  BY <1>e, <1>8, <1>9, Zenon DEF message

-----------------------------------------------------------------------------

\* Every system call creates, moves or changes nothing.
LEMMA EveryStep ==
    ASSUME IInv, [Next]_vars
    PROVE  \/ \E new : Creates(new)
           \/ \E table, cargo, messages : Moves(table, cargo, messages)
           \/ UNCHANGED vars
<1>1. CASE UNCHANGED vars
  BY <1>1
<1>2. CASE Next
  <2>1. PICK task \in Tasks :
        \/ \E kind \in Creatable : CreateObject(task, kind)
        \/ CreateChannel(task)
        \/ \E space \in Numbers(task, {"AddressSpace"}), transfer \in Transfers(task, MaxSpawn) :
              SpawnTask(task, space, transfer)
        \/ \E channel \in Numbers(task, {"Channel"}), transfer \in Transfers(task, MaxTransfer) :
              \/ \E size \in Sizes : SendMessage(task, channel, transfer, size)
              \/ SendMessageFails(task, channel, transfer)
        \/ \E channel \in Numbers(task, {"Channel"}), bytes_len \in {0} \cup Sizes,
              handles_len \in 0 .. MaxTransfer :
              \/ GetMessageTooSmall(task, channel, bytes_len, handles_len)
              \/ \E handles_address \in BOOLEAN :
                    GetMessage(task, channel, bytes_len, handles_len, handles_address)
    BY <1>2, Zenon DEF Next
  <2>2. CASE \E kind \in Creatable : CreateObject(task, kind)
    BY <2>2, CreateObjectCreates
  <2>3. CASE CreateChannel(task)
    BY <2>3, CreateChannelCreates
  <2>4. ASSUME NEW space, NEW transfer \in Transfers(task, MaxSpawn),
               SpawnTask(task, space, transfer)
        PROVE  \E new : Creates(new)
    BY <2>4, SpawnTaskCreates
  <2>5. ASSUME NEW channel, NEW transfer \in Transfers(task, MaxTransfer),
               NEW size \in Sizes, SendMessage(task, channel, transfer, size)
        PROVE  \E table, cargo, messages : Moves(table, cargo, messages)
    BY <2>5, SendMessageMoves, Zenon
  <2>6. ASSUME NEW channel, NEW transfer, SendMessageFails(task, channel, transfer)
        PROVE  \E table, cargo, messages : Moves(table, cargo, messages)
    BY <2>6, SendMessageFailsMoves
  <2>7. ASSUME NEW channel, NEW bytes_len, NEW handles_len,
               GetMessageTooSmall(task, channel, bytes_len, handles_len)
        PROVE  UNCHANGED vars
    BY <2>7, GetMessageTooSmallUnchanged DEF IInv
  <2>8. ASSUME NEW channel, NEW bytes_len, NEW handles_len \in 0 .. MaxTransfer,
               NEW handles_address,
               GetMessage(task, channel, bytes_len, handles_len, handles_address)
        PROVE  \E table, cargo, messages : Moves(table, cargo, messages)
    <3> handles_len \in Nat
      BY BoundsAssumption
    <3> QED
      BY <2>8, GetMessageMoves, Zenon
  <2> QED
    BY <2>1, <2>2, <2>3, <2>4, <2>5, <2>6, <2>7, <2>8, Zenon
<1> QED
  BY <1>1, <1>2

\* The invariant is inductive.
LEMMA NextIInv == IInv /\ [Next]_vars => IInv'
<1> SUFFICES ASSUME IInv, [Next]_vars PROVE IInv'
  OBVIOUS
<1>1. CASE UNCHANGED vars
  <2> USE <1>1 DEF vars, counts
  <2>1. TypeOK'
    BY Zenon DEF IInv, TypeOK
  <2>2. TablesOK'
    BY Zenon DEF IInv, TablesOK
  <2>3. MailOK'
    BY Zenon DEF IInv, MailOK
  <2>4. NeverDuplicated'
    BY Zenon DEF IInv, NeverDuplicated
  <2>5. MessagesInOrder'
    BY SMTT(30) DEF IInv, MessagesInOrder
  <2> QED
    BY <2>1, <2>2, <2>3, <2>4, <2>5, Zenon DEF IInv
<1> QED
  BY <1>1, EveryStep, CreatesIInv, MovesIInv

\* The handle tables and the queues of the kernel always satisfy IInv.
THEOREM TablesKept == Spec => []IInv
<1> QED
  BY InitIInv, NextIInv, PTL DEF Spec

\* Transferring moves: an object the kernel never shared is in one place only.
THEOREM MovedNotCopied == Spec => []NeverDuplicated
<1>1. IInv => NeverDuplicated
  BY DEF IInv
<1> QED
  BY <1>1, TablesKept, PTL

\* A queue holds the messages sent and not received, in order, with their objects.
THEOREM QueuesInOrder == Spec => []MessagesInOrder
<1>1. IInv => MessagesInOrder
  BY DEF IInv
<1> QED
  BY <1>1, TablesKept, PTL

\* A handle number never comes to mean another object: Handles::add only gives
\* out numbers that are ahead of all those in the table.
THEOREM StaleHandlesInvalid == Spec => HandlesNeverReused
<1> DEFINE Step == \A task \in Tasks : \A handle \in 0 .. next[task] - 1 :
                     Get(handles', task, handle) \subseteq Get(handles, task, handle)
<1>1. IInv /\ [Next]_vars => [Step]_vars
  <2> SUFFICES ASSUME IInv, [Next]_vars, ~UNCHANGED vars,
                      NEW task \in Tasks, NEW handle \in 0 .. next[task] - 1,
                      NEW object \in Get(handles', task, handle)
               PROVE  object \in Get(handles, task, handle)
    OBVIOUS
  <2>1. PICK e \in handles' : e.task = task /\ e.handle = handle /\ e.object = object
    BY Zenon DEF Get
  <2>2. task <= created /\ next[task] \in Nat /\ handle \in Int /\ ~(handle >= next[task])
    BY CallerTask DEF IInv
  <2>3. e \in handles
    <3>1. CASE \E new : Creates(new)
      BY <2>1, <2>2, <3>1, Zenon DEF Creates
    <3>2. CASE \E table, cargo, messages : Moves(table, cargo, messages)
      <4>1. PICK table, cargo, messages : Moves(table, cargo, messages)
        BY <3>2
      <4>2. handles' = table
        BY <4>1, Zenon DEF Moves, Settle
      <4> QED
        BY <2>1, <2>2, <4>1, <4>2, Zenon DEF Moves
    <3> QED
      BY <3>1, <3>2, EveryStep, Zenon
  <2> QED
    BY <2>1, <2>3, Zenon DEF Get
<1> QED
  BY <1>1, TablesKept, PTL DEF Spec, HandlesNeverReused
=============================================================================
