-------------------------------- MODULE Ipc ---------------------------------
(***************************************************************************)
(* Kernel objects, the handles tasks hold to them, and the channels that   *)
(* move messages and handles between tasks (kernel/src/object and the      *)
(* system calls of kernel/src/syscall that create, send and receive).      *)
(*                                                                         *)
(* A handle table is used by its own task only, and a channel's queue is   *)
(* locked for the whole of a push or a receive, so a system call is one    *)
(* step.  A handle and a queued message each keep an object alive (an Arc  *)
(* each): `handles` and `carried` are those references, one by one.        *)
(***************************************************************************)
EXTENDS Integers, Sequences

CONSTANTS
    HandleLimit,    \* handle numbers wrap here: 2^32
    MaxTransfer,    \* handles a message may carry: CHANNEL_MAX_NUM_HANDLES
    Sizes,          \* the sizes of messages, on a small scale
    Creatable,      \* the types of the objects tasks create by themselves
    MaxObjects,     \* bound: kernel objects ever created
    MaxHandles,     \* bound: handle numbers a task is ever given
    MaxSpawn,       \* bound: handles passed to spawn_task
    MaxSent,        \* bound: messages ever sent
    MaxFailed       \* bound: calls of send_message that fail

ASSUME BoundsAssumption ==
    /\ HandleLimit \in Nat /\ MaxTransfer \in Nat /\ MaxObjects \in Nat
    /\ MaxHandles \in Nat /\ MaxSpawn \in Nat /\ MaxSent \in Nat /\ MaxFailed \in Nat
    /\ 3 <= MaxObjects
    /\ 2 <= MaxHandles /\ MaxHandles < HandleLimit
    /\ Sizes \subseteq Nat
    /\ Creatable \subseteq {"AddressSpace", "MemoryObject"}

VARIABLES
    created,    \* KERNEL_OBJECT_ID_COUNTER, less one
    typ,        \* the type of each kernel object, "none" before it is created
    peer,       \* the other end of each channel end
    handles,    \* the handle tables: [task, handle, object]
    next,       \* the next handle number of each task
    queue,      \* the messages waiting at each channel end: [tag, size, num_handles]
    carried,    \* the objects in those messages: [to, tag, slot, object]
    freed,      \* the channel ends whose last reference is gone
    sent, got,  \* messages ever added to, and received from, each channel end
    posted,     \* messages ever sent
    failed,     \* calls of send_message that failed
    shared,     \* the objects of which the kernel itself made another handle
    discarded   \* the objects get_message took from a queue and gave to nobody

counts == <<sent, got, posted, failed>>
vars == <<created, typ, peer, handles, next, queue, carried, freed, counts, shared,
          discarded>>

Ids == 1 .. MaxObjects
Types == {"none", "AddressSpace", "MemoryObject", "Task", "Channel"}

\* What load_userspace leaves: a task in its address space, with a handle to
\* the MemoryObject of its one segment.
Init ==
    /\ created = 3
    /\ typ = [o \in Ids |-> IF o = 1 THEN "AddressSpace" ELSE IF o = 2 THEN "MemoryObject"
                            ELSE IF o = 3 THEN "Task" ELSE "none"]
    /\ peer = [o \in Ids |-> 0]
    /\ handles = {[task |-> 3, handle |-> 1, object |-> 2]}
    /\ next = [o \in Ids |-> IF o = 3 THEN 2 ELSE 0]
    /\ queue = [o \in Ids |-> <<>>]
    /\ carried = {} /\ freed = {}
    /\ sent = [o \in Ids |-> 0] /\ got = [o \in Ids |-> 0] /\ posted = 0 /\ failed = 0
    /\ shared = {} /\ discarded = {}

-----------------------------------------------------------------------------

Tasks == { o \in Ids : typ[o] = "Task" }

\* Handles::get
Get(table, task, handle) ==
    { e.object : e \in { f \in table : f.task = task /\ f.handle = handle } }

\* Mutant of Entries: the smallest free number is used.
EntriesSmallest(task, start, items) ==
    LET mine == { e.handle : e \in { f \in handles : f.task = task } }
        free == CHOOSE n \in 1 .. HandleLimit : n \notin mine /\ \A m \in 1 .. n - 1 : m \in mine
    IN { [task |-> task, handle |-> free + item.slot - 1, object |-> item.object] :
         item \in items }

\* Handles::add, for objects numbered by their slots and added in that order.
Entries(task, start, items) ==
    { [task |-> task, handle |-> (start + item.slot - 1) % HandleLimit,
       object |-> item.object] : item \in items }

Item(slot, object) == [slot |-> slot, object |-> object]

Insert(table, entries) ==
    { e \in table : ~\E f \in entries : f.task = e.task /\ f.handle = e.handle }
        \cup entries

\* The channel ends still referenced once the tables are `table` and the queues
\* carry `cargo`.  Dropping an end drops the messages in its queue, and with
\* them their references; ends that hold each other this way are never dropped.
Referenced(table, cargo) ==
    LET held == { e.object : e \in table }
        ends == { o \in Ids \ freed : typ[o] = "Channel" }
    IN UNION { kept \in SUBSET ends :
                 \A o \in kept \ held : \E c \in cargo : c.object = o /\ c.to \in kept }

\* Only channel ends have something to lose when they are dropped.
Settle(table, cargo, messages) ==
    LET gone == { o \in Ids : typ[o] = "Channel" } \ Referenced(table, cargo) IN
    /\ handles' = table
    /\ freed' = gone
    /\ carried' = { c \in cargo : c.to \notin gone }
    /\ queue' = [o \in Ids |-> IF o \in gone THEN <<>> ELSE messages[o]]

-----------------------------------------------------------------------------

\* create_memory_object and create_address_space.
CreateObject(task, kind) ==
    /\ created < MaxObjects
    /\ next[task] < MaxHandles
    /\ created' = created + 1
    /\ typ' = [typ EXCEPT ![created + 1] = kind]
    /\ handles' = Insert(handles, Entries(task, next[task], {Item(1, created + 1)}))
    /\ next' = [next EXCEPT ![task] = (next[task] + 1) % HandleLimit]
    /\ UNCHANGED <<peer, queue, carried, freed, counts, shared, discarded>>

\* create_channel
CreateChannel(task) ==
    LET end_a == created + 1
        end_b == created + 2
    IN
    /\ created + 2 <= MaxObjects
    /\ next[task] + 2 <= MaxHandles
    /\ created' = created + 2
    /\ typ' = [typ EXCEPT ![end_a] = "Channel", ![end_b] = "Channel"]
    /\ peer' = [peer EXCEPT ![end_a] = end_b, ![end_b] = end_a]
    /\ handles' = Insert(handles, Entries(task, next[task], {Item(1, end_a), Item(2, end_b)}))
    /\ next' = [next EXCEPT ![task] = (next[task] + 2) % HandleLimit]
    /\ UNCHANGED <<queue, carried, freed, counts, shared, discarded>>

\* The objects behind a list of handles: empty slots are invalid handles.
Behind(task, transfer) ==
    { item \in [slot : DOMAIN transfer, object : Ids] :
        [task |-> task, handle |-> transfer[item.slot], object |-> item.object] \in handles }

\* spawn_task: the child's table starts with its address space and a second
\* reference to each object transferred; on an error nothing has happened.
SpawnTask(task, address_space, transfer) ==
    /\ created < MaxObjects
    /\ next[task] < MaxHandles
    /\ Len(transfer) + 2 <= MaxHandles
    /\ \A i \in DOMAIN transfer : Get(handles, task, transfer[i]) # {}
    /\ \E space \in Get(handles, task, address_space) :
        LET child == created + 1
            passed == Behind(task, transfer)
        IN
        /\ typ[space] = "AddressSpace"
        /\ created' = child
        /\ typ' = [typ EXCEPT ![child] = "Task"]
        /\ handles' = Insert(handles,
                          Entries(child, 1, {Item(1, space)})
                          \cup Entries(child, 2, passed)
                          \cup Entries(task, next[task], {Item(1, child)}))
        /\ next' = [next EXCEPT ![child] = (Len(transfer) + 2) % HandleLimit,
                                ![task] = (next[task] + 1) % HandleLimit]
        /\ shared' = shared \cup {space} \cup { item.object : item \in passed }
    /\ UNCHANGED <<peer, queue, carried, freed, counts, discarded>>

-----------------------------------------------------------------------------

\* Mutant of Taken: the handles are removed once the loop is over.
TakenTogether(task, transfer, i) ==
    \A j \in 1 .. i : \E e \in handles : e.task = task /\ e.handle = transfer[j]

\* The loop of send_message takes the handles to transfer one after the other
\* out of the table, and stops at the first that is not there (any more).
Taken(task, transfer, i) ==
    \A j \in 1 .. i :
        /\ \E e \in handles : e.task = task /\ e.handle = transfer[j]
        /\ \A k \in 1 .. j - 1 : transfer[k] # transfer[j]

\* The handle table once the loop is over, complete or not.
LeftBy(task, transfer) ==
    LET gone == { transfer[i] : i \in { j \in DOMAIN transfer : Taken(task, transfer, j) } }
    IN { e \in handles : ~(e.task = task /\ e.handle \in gone) }

\* send_message succeeds.
SendMessage(task, channel, transfer, size) ==
    /\ Len(transfer) <= MaxTransfer
    /\ posted < MaxSent
    /\ Taken(task, transfer, Len(transfer))
    /\ \E end \in Get(LeftBy(task, transfer), task, channel) :
        LET to == peer[end]
            tag == sent[to] + 1
            cargo == { [to |-> to, tag |-> tag, slot |-> item.slot, object |-> item.object] :
                       item \in Behind(task, transfer) }
        IN
        /\ typ[end] = "Channel"
        /\ to \notin freed
        /\ sent' = [sent EXCEPT ![to] = tag]
        /\ Settle(LeftBy(task, transfer), carried \cup cargo,
                  [queue EXCEPT ![to] = Append(@, [tag |-> tag, size |-> size,
                                                   num_handles |-> Len(transfer)])])
    /\ posted' = posted + 1
    /\ UNCHANGED <<created, typ, peer, next, got, failed, shared, discarded>>

\* send_message fails after the loop started: a handle to transfer is invalid,
\* the channel's handle is invalid (or was itself transferred) or not a
\* channel's, or the other end is disconnected.  What was taken is dropped.
\* (A call that fails before it took a handle changes nothing.)
SendMessageFails(task, channel, transfer) ==
    /\ Len(transfer) \in 1 .. MaxTransfer
    /\ failed < MaxFailed
    /\ Taken(task, transfer, 1)
    /\ \/ ~Taken(task, transfer, Len(transfer))
       \/ \A end \in Get(LeftBy(task, transfer), task, channel) :
             typ[end] = "Channel" => peer[end] \in freed
    /\ failed' = failed + 1
    /\ Settle(LeftBy(task, transfer), carried, queue)
    /\ UNCHANGED <<created, typ, peer, next, sent, got, posted, shared, discarded>>

-----------------------------------------------------------------------------

\* Mutant of PutBack: the message goes to the other end of the queue.
PutLast(messages, message) == Append(messages, message)

\* ChannelEnd::receive puts a message it could not deliver back.
PutBack(messages, message) == <<message>> \o messages

\* get_message with a buffer too small for the bytes or the handles.
GetMessageTooSmall(task, channel, bytes_len, handles_len) ==
    /\ \E end \in Get(handles, task, channel) :
        /\ typ[end] = "Channel"
        /\ queue[end] # <<>>
        /\ \/ Head(queue[end]).size > bytes_len
           \/ Head(queue[end]).num_handles > handles_len
        /\ queue' = [queue EXCEPT ![end] = PutBack(Tail(@), Head(@))]
    /\ UNCHANGED <<created, typ, peer, handles, next, carried, freed, counts, shared,
                   discarded>>

\* get_message takes the message; `handles_address` says whether the address of
\* the handles buffer is other than null.
GetMessage(task, channel, bytes_len, handles_len, handles_address) ==
    \E end \in Get(handles, task, channel) :
        LET message == Head(queue[end])
            cargo == { c \in carried : c.to = end /\ c.tag = message.tag }
            written == handles_len > 0 /\ handles_address
        IN
        /\ typ[end] = "Channel"
        /\ queue[end] # <<>>
        /\ message.size <= bytes_len
        /\ message.num_handles <= handles_len
        /\ next[task] + message.num_handles <= MaxHandles
        /\ got' = [got EXCEPT ![end] = message.tag]
        /\ IF written
             THEN /\ Settle(Insert(handles, Entries(task, next[task], cargo)),
                            carried \ cargo, [queue EXCEPT ![end] = Tail(@)])
                  /\ next' = [next EXCEPT
                                ![task] = (next[task] + message.num_handles) % HandleLimit]
                  /\ UNCHANGED discarded
             ELSE /\ Settle(handles, carried \ cargo, [queue EXCEPT ![end] = Tail(@)])
                  /\ discarded' = discarded \cup { c.object : c \in cargo }
                  /\ UNCHANGED next
        /\ UNCHANGED <<created, typ, peer, sent, posted, failed, shared>>

-----------------------------------------------------------------------------

\* The numbers a task may pass for a handle to an object of some type: those
\* in its table, and one that stands for all the numbers that are not.
Numbers(task, kinds) ==
    {0} \cup { e.handle : e \in { f \in handles : f.task = task /\ typ[f.object] \in kinds } }

Transfers(task, longest) ==
    UNION { [1 .. n -> Numbers(task, Types)] : n \in 0 .. longest }

Next ==
    \E task \in Tasks :
        \/ \E kind \in Creatable : CreateObject(task, kind)
        \/ CreateChannel(task)
        \/ \E space \in Numbers(task, {"AddressSpace"}), transfer \in Transfers(task, MaxSpawn) :
              SpawnTask(task, space, transfer)
        \/ \E channel \in Numbers(task, {"Channel"}), transfer \in Transfers(task, MaxTransfer) :
              \/ \E size \in Sizes : SendMessage(task, channel, transfer, size)
              \/ SendMessageFails(task, channel, transfer)
        \/ \E channel \in Numbers(task, {"Channel"}), bytes_len \in {0} \cup Sizes,
              handles_len \in 0 .. MaxTransfer :
              \/ GetMessageTooSmall(task, channel, bytes_len, handles_len)
              \/ \E handles_address \in BOOLEAN :
                    GetMessage(task, channel, bytes_len, handles_len, handles_address)

Spec == Init /\ [][Next]_vars

-----------------------------------------------------------------------------

\* Type correctness of the kernel's tables; a handle is never zero.
TypeOK ==
    /\ created \in Ids
    /\ typ \in [Ids -> Types]
    /\ peer \in [Ids -> 0 .. MaxObjects]
    /\ handles \subseteq [task : Ids, handle : 1 .. MaxHandles, object : Ids]
    /\ next \in [Ids -> 0 .. MaxHandles]
    /\ queue \in [Ids -> Seq([tag : Nat, size : Sizes, num_handles : 0 .. MaxTransfer])]
    /\ carried \subseteq [to : Ids, tag : Nat, slot : 1 .. MaxTransfer, object : Ids]
    /\ freed \subseteq Ids
    /\ sent \in [Ids -> Nat] /\ got \in [Ids -> Nat]
    /\ posted \in 0 .. MaxSent /\ failed \in 0 .. MaxFailed
    /\ shared \subseteq Ids
    /\ discarded \subseteq Ids

\* A handle names one object for the whole life of a task: neither a transfer,
\* nor a failed send, nor a receive ever makes a number the task was once given
\* mean another object, so a stale handle is invalid and never wrong.
HandlesNeverReused ==
    [][\A task \in Tasks : \A handle \in 0 .. next[task] - 1 :
          Get(handles', task, handle) \subseteq Get(handles, task, handle)]_vars

\* Transferring a handle moves it: an object of which the kernel never made a
\* second handle is in one table, or in one message, and never in two places,
\* whatever list of handles (with repetitions, or with the channel's own) a
\* task sends.
NeverDuplicated ==
    /\ \A e, f \in handles : (e.object = f.object /\ e # f) => e.object \in shared
    /\ \A c, d \in carried : (c.object = d.object /\ c # d) => c.object \in shared
    /\ \A e \in handles, c \in carried : e.object = c.object => e.object \in shared

\* The queue of a channel end holds exactly the messages sent and not yet
\* received, oldest first, and the objects of each: a receive that fails
\* changes nothing of that.
MessagesInOrder ==
    \A o \in Ids \ freed :
        /\ Len(queue[o]) = sent[o] - got[o]
        /\ \A i \in 1 .. Len(queue[o]) :
              /\ queue[o][i].tag = got[o] + i
              /\ { c.slot : c \in { d \in carried : d.to = o /\ d.tag = got[o] + i } }
                   = 1 .. queue[o][i].num_handles

\* The tables are numbered as the counters say: ids and handles are given out
\* in order, and a number names at most one entry.
TablesOK ==
    /\ \A o \in Ids : /\ typ[o] = "none" <=> o > created
                      /\ typ[o] = "Task" => next[o] >= 1
                      /\ typ[o] = "Channel" => peer[o] \in Ids
    /\ \A e \in handles : e.task <= created /\ e.object <= created /\ e.handle < next[e.task]
    /\ \A e, f \in handles : (e.task = f.task /\ e.handle = f.handle) => e = f

\* A dropped end has no mail, and a carried object belongs to a message sent.
MailOK ==
    /\ freed \subseteq { o \in Ids : typ[o] = "Channel" }
    /\ \A o \in freed : queue[o] = <<>>
    /\ \A c \in carried : c.to \notin freed /\ c.tag <= sent[c.to] /\ c.object <= created
    /\ \A c, d \in carried : (c.to = d.to /\ c.tag = d.tag /\ c.slot = d.slot) => c = d

\* The inductive invariant behind the proofs: the counters are ahead of every
\* number in use, so a new handle or a new message never meets an old one.
IInv == TypeOK /\ TablesOK /\ MailOK /\ NeverDuplicated /\ MessagesInOrder

\* The documented result of get_message: a message that carries handles is not
\* received through a null handles buffer, so no object it carried is lost.
NothingDiscarded == discarded = {}
=============================================================================
