------------------------------ MODULE EhciProofs ------------------------------
(***************************************************************************)
(* Proofs about the EHCI driver and the memory it shares with the          *)
(* controller, for any number of ports, any devices and any requests of    *)
(* their drivers that EhciAssumption allows.                               *)
(***************************************************************************)
EXTENDS Ehci, TLAPS

-----------------------------------------------------------------------------
\* The inductive invariant.

\* What the future of a port is doing: it has found no device for this controller,
\* it waits for a transfer while it brings a device up, or it serves one.
Absent == {"unchecked", "empty", "companion"}
Steps == {"header", "set_address", "device", "config", "hierarchy"}
BringUp == {"connect"} \cup Steps
Answers == {"configuration", "interface", "descriptor", "report"}
Served == {"ready", "endpoint"} \cup Answers
Transfers == Steps \cup Answers

\* The control queue and the interrupt queue of each port.
Queues == Ports \X {0, 1}

\* The queue of the transfer a port's future waits for.
Uses(p) == IF task[p] = "report" THEN In(p) ELSE Control(p)

\* The values of a queue head.
HeadSet == [link : Queues \cup {Nothing}, reclaim : BOOLEAN, next : {Terminate} \cup (Transfers \X Nat),
            device : Int, halted : BOOLEAN]

\* The queue head the controller sees.
HeadOf(q) == memory[QueueHead(q)]

\* The interrupt task counts the queues from the first.
HandlerInv ==
    /\ DOMAIN handler = {"at", "seen", "queue"} /\ handler.queue \in Nat
    /\ handler.at # "wait" => handler.queue >= 1

\* The types of what the driver keeps for each port.
PortTypes ==
    /\ task \in [Ports -> Absent \cup BringUp \cup Served]
    /\ address \in [Ports -> Int] /\ registered \in [Ports -> Int] /\ free \in 0 .. 127
    /\ inbox \in [Ports -> {"none", "endpoint"} \cup Answers] /\ sent \in [Ports -> Nat]

\* Every queue has its head in memory.
HeadTypes == \A q \in DOMAIN queues : QueueHead(q) \in DOMAIN memory /\ HeadOf(q) \in HeadSet

\* The queues in the order of their links, with the one that is half added.
Order == IF adding = Nothing THEN schedule ELSE Append(schedule, adding)

\* The links follow the order in which queues were added, and only the last one
\* added is head of the reclamation list; a queue half added is one too.
RingInv ==
    /\ schedule \in Seq(Queues) /\ adding \in Queues \cup {Nothing}
    /\ \A i, j \in DOMAIN Order : Order[i] = Order[j] => i = j
    /\ DOMAIN queues = { Order[i] : i \in DOMAIN Order }
    /\ ring = IF Order = <<>> THEN Nothing ELSE Order[1]
    /\ \A i \in DOMAIN Order :
         HeadOf(Order[i]).link = IF i = Len(Order) THEN Order[1] ELSE Order[i + 1]
    /\ \A i \in DOMAIN schedule : HeadOf(schedule[i]).reclaim <=> i = Len(schedule)
    /\ adding # Nothing =>
         /\ HeadOf(adding).reclaim
         /\ \/ adding = Control(adding[1]) /\ task[adding[1]] = "connect"
            \/ adding = In(adding[1]) /\ task[adding[1]] = "endpoint"

\* A transfer under way: the driver has seen the first descriptors done; the
\* controller is at one that is not done, or through with all of them.
UnderWay(list, tds, head, r) ==
    /\ tds \in Seq({"active", "done", "halted"}) /\ tds # <<>>
    /\ \E c \in 0 .. Len(tds) : /\ list = <<[request |-> r, complete |-> c]>>
                               /\ \A i \in 1 .. c : tds[i] = "done"
    /\ \A i \in 1 .. Len(tds) : tds[i] = "halted" => head.halted
    /\ head.next # Terminate =>
         /\ head.next[1] = r /\ head.next[2] \in 1 .. Len(tds)
         /\ \A i \in head.next[2] .. Len(tds) : tds[i] # "done"

\* The token of a transfer's buffer is out.
Held(q, r) == Buffer(q, r) \in DOMAIN memory /\ memory[Buffer(q, r)] = "token held"

\* The memory of transfer r of queue q is there, and the transfer under way.
Pending(q, r) ==
    /\ Descriptors(q, r) \in DOMAIN memory
    /\ UnderWay(queues[q], memory[Descriptors(q, r)], HeadOf(q), r)
    /\ HasData(r) => Held(q, r)

\* A queue is empty and the controller leaves it alone, or it has the transfer its
\* port's future waits for.
QueueInv(q) ==
    \/ queues[q] = <<>> /\ ~Working(q)
    \/ /\ task[q[1]] \in Transfers /\ q = Uses(q[1]) /\ q[1] \notin woken
       /\ Pending(q, task[q[1]])

\* Whom the queues of a port are for.
PortInv(p) ==
    /\ Control(p) \in DOMAIN queues <=> task[p] \notin Absent
    /\ In(p) \in DOMAIN queues => task[p] \in Served /\ HeadOf(In(p)).device = address[p]
    /\ task[p] = "report" => In(p) \in DOMAIN queues
    /\ p \in woken => /\ task[p] \in Transfers /\ queues[Uses(p)] = <<>>
                       /\ HeadOf(Uses(p)).next = Terminate
    /\ task[p] \in Absent => address[p] = -1
    /\ task[p] \in {"connect", "header"} => address[p] = 0 /\ HeadOf(Control(p)).device = 0
    /\ task[p] = "set_address" =>
         /\ HeadOf(Control(p)).device = 0
         /\ address[p] = IF HeadOf(Control(p)).next = Terminate THEN free + 1 ELSE 0
    /\ task[p] \in {"device", "config", "hierarchy"} =>
         address[p] = free + 1 /\ HeadOf(Control(p)).device = free + 1
    /\ task[p] \in Served =>
         address[p] > free /\ HeadOf(Control(p)).device = address[p] /\ registered[p] = address[p]
    /\ registered[p] # -1 => task[p] \in Served

\* What the driver of a device has asked for and got: the endpoint is open once
\* the request for it was served.
Asked(p) == IF inbox[p] = "none" THEN sent[p] ELSE sent[p] - 1

\* The request in the channel is the last one sent, and the endpoint's queue exists
\* once the request to open it has been taken.
RequestInv(p) ==
    /\ sent[p] <= Len(Requests(p))
    /\ inbox[p] # "none" => sent[p] >= 1 /\ inbox[p] = Requests(p)[sent[p]]
    /\ In(p) \in DOMAIN queues <=> \E i \in 1 .. Asked(p) : Requests(p)[i] = "endpoint"

\* One port after the other: the address a device will get is reserved while it
\* is brought up, and there is one for each port that was not looked at.
AddressInv ==
    /\ \A p, q \in Ports : p < q /\ ~Checked(p) => task[q] = "unchecked"
    /\ \A p \in Ports : task[p] = "unchecked" => free >= 128 - p
    /\ \A p, q \in Ports : p # q /\ task[p] \in BringUp => address[q] = -1 \/ address[q] > free + 1
    /\ \A p, q \in Ports : p # q /\ address[p] = address[q] => address[p] = -1

\* What holds of each port.
PortSound(p) ==
    /\ \A q \in {Control(p), In(p)} : q \in DOMAIN queues => QueueInv(q)
    /\ PortInv(p)
    /\ RequestInv(p)

\* The inductive invariant.
EhciInv ==
    /\ HandlerInv /\ PortTypes /\ HeadTypes
    /\ RingInv
    /\ \A p \in Ports : PortSound(p)
    /\ AddressInv

-----------------------------------------------------------------------------
\* Names.

\* Queues and objects that have different names are different.
LEMMA QueueNames ==
    /\ \A p \in Ports : /\ Control(p) \in Queues /\ In(p) \in Queues
                        /\ Control(p)[1] = p /\ In(p)[1] = p
    /\ \A p, q \in Ports : /\ Control(p) # In(q) /\ (Control(p) = Control(q) => p = q)
                           /\ (In(p) = In(q) => p = q)
    /\ \A q \in Queues : q # Nothing /\ q[1] \in Ports /\ (q = Control(q[1]) \/ q = In(q[1]))
<1>1. \A p \in Ports : /\ Control(p) \in Queues /\ In(p) \in Queues
                      /\ Control(p)[1] = p /\ In(p)[1] = p
  BY DEF Control, In, Queues
<1>2. \A p, q \in Ports : /\ Control(p) # In(q) /\ (Control(p) = Control(q) => p = q)
                         /\ (In(p) = In(q) => p = q)
  BY DEF Control, In
<1>3. \A q \in Queues : q # Nothing /\ q[1] \in Ports /\ (q = Control(q[1]) \/ q = In(q[1]))
  BY DEF Control, In, Queues, Nothing
<1> QED
  BY <1>1, <1>2, <1>3, Zenon

\* Objects of the pool that have different names are different.
LEMMA ObjectNames ==
    /\ \A q, k, r : QueueHead(q) # Setup(k, r) /\ QueueHead(q) # Descriptors(k, r) /\ QueueHead(q) # Buffer(k, r)
    /\ \A q, k, r, s : /\ Setup(q, r) # Descriptors(k, s) /\ Setup(q, r) # Buffer(k, s)
                       /\ Descriptors(q, r) # Buffer(k, s)
    /\ \A q, k : QueueHead(q) = QueueHead(k) => q = k
    /\ \A q, k, r, s : Descriptors(q, r) = Descriptors(k, s) => q = k /\ r = s
    /\ \A q, k, r, s : Buffer(q, r) = Buffer(k, s) => q = k /\ r = s
<1>1. \A q, k, r : QueueHead(q) # Setup(k, r) /\ QueueHead(q) # Descriptors(k, r) /\ QueueHead(q) # Buffer(k, r)
  BY DEF QueueHead, Setup, Descriptors, Buffer
<1>2. \A q, k, r, s : /\ Setup(q, r) # Descriptors(k, s) /\ Setup(q, r) # Buffer(k, s)
                     /\ Descriptors(q, r) # Buffer(k, s)
  BY DEF Setup, Descriptors, Buffer
<1>3. \A q, k : QueueHead(q) = QueueHead(k) => q = k
  BY DEF QueueHead
<1>4. \A q, k, r, s : Descriptors(q, r) = Descriptors(k, s) => q = k /\ r = s
  BY DEF Descriptors
<1>5. \A q, k, r, s : Buffer(q, r) = Buffer(k, s) => q = k /\ r = s
  BY DEF Buffer
<1> QED
  BY <1>1, <1>2, <1>3, <1>4, <1>5, Zenon

-----------------------------------------------------------------------------
\* The ring.

\* The controller comes past the queues that were made, and no others: the links
\* lead once around them.
LEMMA RingIsQueues ==
    ASSUME RingInv
    PROVE  InRing = DOMAIN queues
<1> SUFFICES ASSUME NEW q \in DOMAIN queues PROVE q \in InRing
  BY Zenon DEF InRing
<1>1. PICK o : o = Order
  OBVIOUS
<1>2. /\ DOMAIN queues = { o[i] : i \in DOMAIN o }
      /\ ring = IF o = <<>> THEN Nothing ELSE o[1]
      /\ \A i \in DOMAIN o : HeadOf(o[i]).link = IF i = Len(o) THEN o[1] ELSE o[i + 1]
  <2>1. DOMAIN queues = { Order[i] : i \in DOMAIN Order }
    BY DEF RingInv
  <2>2. /\ ring = IF Order = <<>> THEN Nothing ELSE Order[1]
        /\ \A i \in DOMAIN Order : HeadOf(Order[i]).link = IF i = Len(Order) THEN Order[1] ELSE Order[i + 1]
    BY Zenon DEF RingInv
  <2> QED
    BY <1>1, <2>1, <2>2
<1>3. PICK n \in DOMAIN o : q = o[n]
  BY <1>2, Zenon
<1>4. o \in Seq(Queues) /\ Len(o) <= Len(schedule) + 1 /\ Len(schedule) \in Nat
  BY <1>1 DEF RingInv, Order
<1>5. PICK l \in Nat : l = Len(o)
  BY <1>4
<1>6. DOMAIN o = 1 .. l
  BY <1>4, <1>5
<1>7. PICK m \in 1 .. l : m = n
  BY <1>3, <1>6, Zenon
<1>8. m \in 1 .. Len(schedule) + 1 /\ o # <<>>
  BY <1>4, <1>5, <1>7
<1> DEFINE path == [i \in 1 .. m |-> o[i]]
<1>9. path \in [1 .. m -> DOMAIN queues]
  <2>1. \A i \in 1 .. m : i \in 1 .. l
    BY <1>7
  <2>2. \A i \in 1 .. m : o[i] \in DOMAIN queues
    BY <1>2, <1>6, <2>1, Zenon
  <2> QED
    BY <2>2
<1>10. path[1] = ring /\ path[m] = q
  <2>1. 1 \in 1 .. m /\ m \in 1 .. m
    BY <1>7
  <2> QED
    BY <1>2, <1>3, <1>7, <1>8, <2>1
<1>11. ASSUME NEW i \in 1 .. m - 1
       PROVE  memory[QueueHead(path[i])].link = path[i + 1]
  <2>1. i \in 1 .. m /\ i + 1 \in 1 .. m /\ i \in 1 .. l /\ i # l
    BY <1>7
  <2>2. path[i] = o[i] /\ path[i + 1] = o[i + 1]
    BY <2>1
  <2> HIDE DEF path
  <2> QED
    BY <1>2, <1>5, <1>6, <2>1, <2>2, Zenon DEF HeadOf
<1> HIDE DEF path
<1> QED
  BY <1>8, <1>9, <1>10, <1>11, Zenon DEF InRing

-----------------------------------------------------------------------------
\* What the invariant says of the controller.

\* Every queue that was made is one of a port.
LEMMA QueueOfPort ==
    ASSUME RingInv, NEW q \in DOMAIN queues
    PROVE  q \in Queues /\ q[1] \in Ports /\ q \in {Control(q[1]), In(q[1])}
<1>1. Order \in Seq(Queues)
  BY DEF RingInv, Order
<1>2. PICK i \in DOMAIN Order : q = Order[i]
  <2>1. DOMAIN queues = { Order[i] : i \in DOMAIN Order }
    BY Zenon DEF RingInv
  <2> QED
    BY <2>1, Zenon
<1>3. q \in Queues
  BY <1>1, <1>2
<1> QED
  BY <1>3, QueueNames, Zenon

\* Every queue is one of a port, so that its invariant holds.
LEMMA QueueSound ==
    ASSUME EhciInv, NEW q \in DOMAIN queues
    PROVE  QueueInv(q)
  BY QueueOfPort, Zenon DEF EhciInv, PortSound

\* The part of a queue whose transfer the controller may still work on.
LEMMA WorkingQueue ==
    ASSUME EhciInv, NEW q \in InRing, Working(q)
    PROVE  /\ q \in DOMAIN queues /\ q[1] \in Ports /\ q = Uses(q[1]) /\ q[1] \notin woken
           /\ task[q[1]] \in Transfers /\ Pending(q, task[q[1]])
<1>1. q \in DOMAIN queues
  BY RingIsQueues, Zenon DEF EhciInv
<1>2. QueueInv(q)
  BY <1>1, QueueSound, Zenon
<1>3. q[1] \in Ports
  BY <1>1, QueueOfPort, Zenon DEF EhciInv
<1> QED
  BY <1>1, <1>2, <1>3, Zenon DEF QueueInv

\* The invariant says of the ring and of the transfers under way what
\* ScheduleSound says.
LEMMA InvImpliesScheduleSound == EhciInv => ScheduleSound
<1> SUFFICES ASSUME EhciInv PROVE ScheduleSound
  OBVIOUS
<1>1. ASSUME NEW i \in DOMAIN schedule PROVE schedule[i] \in InRing
  <2>1. i \in DOMAIN Order /\ Order[i] = schedule[i]
    BY DEF EhciInv, RingInv, Order
  <2>2. schedule[i] \in DOMAIN queues
    BY <2>1 DEF EhciInv, RingInv
  <2> QED
    BY <2>2, RingIsQueues, Zenon DEF EhciInv
<1>2. ASSUME NEW i \in DOMAIN schedule
      PROVE  memory[QueueHead(schedule[i])].reclaim <=> i = Len(schedule)
  BY Zenon DEF EhciInv, RingInv, HeadOf
<1>3. ASSUME NEW q \in InRing, Working(q)
      PROVE  LET r == memory[QueueHead(q)].next[1]
             IN /\ Descriptors(q, r) \in DOMAIN memory
                /\ HasData(r) => Buffer(q, r) \in DOMAIN memory /\ memory[Buffer(q, r)] = "token held"
  <2>1. Pending(q, task[q[1]])
    BY <1>3, WorkingQueue, Zenon
  <2>2. memory[QueueHead(q)].next[1] = task[q[1]]
    BY <1>3, <2>1, Zenon DEF Pending, UnderWay, Working, HeadOf
  <2> QED
    BY <2>1, <2>2, Zenon DEF Pending, Held
<1> QED
  BY <1>1, <1>2, <1>3, Zenon DEF ScheduleSound

\* The addresses the invariant gives devices and queue heads are those
\* TransfersReachTheirDevice needs.
LEMMA InvImpliesTransfersReach == EhciInv => TransfersReachTheirDevice
<1> SUFFICES ASSUME EhciInv PROVE TransfersReachTheirDevice
  OBVIOUS
<1>1. ASSUME NEW p \in Ports, address[p] # -1
      PROVE  Answering(address[p]) = {p}
  BY <1>1 DEF EhciInv, AddressInv, PortTypes, Answering
<1>2. ASSUME NEW q \in InRing, Working(q)
      PROVE  Answering(memory[QueueHead(q)].device) = {q[1]}
  <2> DEFINE p == q[1]
  <2>1. /\ p \in Ports /\ q = Uses(p) /\ task[p] \in Transfers /\ PortInv(p) /\ q \in DOMAIN queues
        /\ memory[QueueHead(q)].next # Terminate
    BY <1>2, WorkingQueue, Zenon DEF EhciInv, PortSound, Working
  <2>2. free \in 0 .. 127 /\ address[p] \in Int
    BY <2>1 DEF EhciInv, PortTypes
  <2>3. memory[QueueHead(q)].device = address[p] /\ address[p] # -1
    <3>1. CASE task[p] = "report"
      <4>1. q = In(p) /\ task[p] \in Served
        BY <2>1, <3>1 DEF Uses, Served, Answers
      <4>2. HeadOf(In(p)).device = address[p] /\ address[p] > free
        BY <2>1, <4>1, Zenon DEF PortInv
      <4> QED
        BY <2>2, <4>1, <4>2 DEF HeadOf
    <3>2. CASE task[p] \in Answers \ {"report"}
      <4>1. q = Control(p) /\ task[p] \in Served
        BY <2>1, <3>2 DEF Uses, Served, Answers
      <4>2. HeadOf(Control(p)).device = address[p] /\ address[p] > free
        BY <2>1, <4>1, Zenon DEF PortInv
      <4> QED
        BY <2>2, <4>1, <4>2 DEF HeadOf
    <3>3. CASE task[p] \in Steps
      <4>1. q = Control(p)
        BY <2>1, <3>3 DEF Uses, Steps
      <4> QED
        BY <2>1, <2>2, <3>3, <4>1 DEF HeadOf, PortInv, Steps
    <3> QED
      BY <2>1, <3>1, <3>2, <3>3 DEF Transfers
  <2> QED
    BY <1>1, <2>1, <2>3, Zenon
<1>3. ASSUME NEW p \in Ports, registered[p] # -1
      PROVE  Answering(registered[p]) = {p}
  <2>1. registered[p] = address[p]
    BY <1>3, Zenon DEF EhciInv, PortSound, PortInv
  <2> QED
    BY <1>1, <1>3, <2>1, Zenon
<1> QED
  BY <1>2, <1>3, Zenon DEF TransfersReachTheirDevice

-----------------------------------------------------------------------------
\* What a step leaves alone.

\* The memory changed in objects of queue q only.
Local(q, m, n) ==
    \A o : o[2] # q => (o \in DOMAIN m <=> o \in DOMAIN n) /\ (o \in DOMAIN m => n[o] = m[o])

\* The objects of queue k are as they were, but for the links of its head.
KeptObjects(k, m, n) ==
    /\ QueueHead(k) \in DOMAIN m =>
         /\ QueueHead(k) \in DOMAIN n
         /\ m[QueueHead(k)] \in HeadSet => n[QueueHead(k)] \in HeadSet
         /\ n[QueueHead(k)].next = m[QueueHead(k)].next
         /\ n[QueueHead(k)].device = m[QueueHead(k)].device
         /\ n[QueueHead(k)].halted = m[QueueHead(k)].halted
    /\ \A r : Descriptors(k, r) \in DOMAIN m =>
         Descriptors(k, r) \in DOMAIN n /\ n[Descriptors(k, r)] = m[Descriptors(k, r)]
    /\ \A r : Buffer(k, r) \in DOMAIN m => Buffer(k, r) \in DOMAIN n /\ n[Buffer(k, r)] = m[Buffer(k, r)]

\* The links of the head of queue k are as they were.
KeptLinks(k, m, n) ==
    n[QueueHead(k)].link = m[QueueHead(k)].link /\ n[QueueHead(k)].reclaim = m[QueueHead(k)].reclaim

\* Queue q and its objects are as they were.
KeptQueue(q) ==
    /\ q \in DOMAIN queues' <=> q \in DOMAIN queues
    /\ q \in DOMAIN queues => queues'[q] = queues[q] /\ KeptObjects(q, memory, memory')

\* The step is none of port k's.
KeptPort(k) ==
    /\ KeptQueue(Control(k)) /\ KeptQueue(In(k))
    /\ task'[k] = task[k] /\ address'[k] = address[k] /\ registered'[k] = registered[k]
    /\ inbox'[k] = inbox[k] /\ sent'[k] = sent[k]
    /\ k \in woken' <=> k \in woken

\* A change to the objects of one queue leaves those of the others alone.
LEMMA LocalKeeps ==
    ASSUME NEW m, NEW n, NEW q, NEW k, k # q, Local(q, m, n)
    PROVE  KeptObjects(k, m, n) /\ (QueueHead(k) \in DOMAIN m => KeptLinks(k, m, n))
<1>1. QueueHead(k)[2] = k /\ \A r : Descriptors(k, r)[2] = k /\ Buffer(k, r)[2] = k
  BY DEF QueueHead, Descriptors, Buffer
<1>2. QueueHead(k) \in DOMAIN m => QueueHead(k) \in DOMAIN n /\ n[QueueHead(k)] = m[QueueHead(k)]
  BY <1>1, Zenon DEF Local
<1>3. \A r : Descriptors(k, r) \in DOMAIN m =>
        Descriptors(k, r) \in DOMAIN n /\ n[Descriptors(k, r)] = m[Descriptors(k, r)]
  BY <1>1, Zenon DEF Local
<1>4. \A r : Buffer(k, r) \in DOMAIN m => Buffer(k, r) \in DOMAIN n /\ n[Buffer(k, r)] = m[Buffer(k, r)]
  BY <1>1, Zenon DEF Local
<1> QED
  BY <1>2, <1>3, <1>4, Zenon DEF KeptObjects, KeptLinks

\* A queue that was kept is as sound as it was.
LEMMA QueueKept ==
    ASSUME EhciInv, NEW k \in Ports, NEW q \in {Control(k), In(k)}, KeptPort(k),
           q \in DOMAIN queues'
    PROVE  QueueInv(q)'
<1>1. q \in DOMAIN queues /\ queues'[q] = queues[q] /\ KeptObjects(q, memory, memory')
  BY Zenon DEF KeptPort, KeptQueue
<1>2. q[1] = k
  BY QueueNames, Zenon
<1>3. task'[k] = task[k] /\ (k \in woken' <=> k \in woken) /\ Uses(k)' = Uses(k)
  <2>1. task'[k] = task[k] /\ (k \in woken' <=> k \in woken)
    BY Zenon DEF KeptPort
  <2> QED
    BY <2>1 DEF Uses, Control, In
<1>4. QueueHead(q) \in DOMAIN memory
  BY <1>1, Zenon DEF EhciInv, HeadTypes
<1>5. /\ HeadOf(q)'.next = HeadOf(q).next /\ HeadOf(q)'.halted = HeadOf(q).halted
  BY <1>1, <1>4, Zenon DEF KeptObjects, HeadOf
<1>6. QueueInv(q)
  BY <1>1, QueueSound, Zenon
<1>7. CASE queues[q] = <<>> /\ ~Working(q)
  BY <1>1, <1>5, <1>7, Zenon DEF QueueInv, Working, HeadOf
<1>8. CASE task[k] \in Transfers /\ q = Uses(k) /\ k \notin woken /\ Pending(q, task[k])
  <2>1. Pending(q, task[k])'
    <3> DEFINE r == task[k]
    <3>1. /\ Descriptors(q, r) \in DOMAIN memory'
          /\ memory'[Descriptors(q, r)] = memory[Descriptors(q, r)]
      BY <1>1, <1>8, Zenon DEF KeptObjects, Pending
    <3>2. HasData(r) => Buffer(q, r) \in DOMAIN memory' /\ memory'[Buffer(q, r)] = "token held"
      BY <1>1, <1>8, Zenon DEF KeptObjects, Pending, Held
    <3>3. UnderWay(queues[q], memory[Descriptors(q, r)], HeadOf(q)', r)
      BY <1>5, <1>8, Zenon DEF Pending, UnderWay
    <3> HIDE DEF r
    <3>4. Pending(q, r)'
      BY <1>1, <1>3, <3>1, <3>2, <3>3, Zenon DEF Pending, Held, r
    <3> QED
      BY <3>4, Zenon DEF r
  <2> QED
    BY <1>2, <1>3, <1>8, <2>1, Zenon DEF QueueInv
<1> QED
  BY <1>2, <1>6, <1>7, <1>8, Zenon DEF QueueInv

\* A port that a step leaves alone is as sound as it was, also when an address is
\* taken that no device is waiting for.
LEMMA PortKept ==
    ASSUME EhciInv, NEW k \in Ports, KeptPort(k), free' \in 0 .. 127,
           free' = free \/ (free' <= free /\ task[k] \notin BringUp)
    PROVE  PortSound(k)'
<1>1. \A q \in {Control(k), In(k)} : q \in DOMAIN queues' => QueueInv(q)'
  BY QueueKept, Zenon
<1>2. /\ task'[k] = task[k] /\ address'[k] = address[k] /\ registered'[k] = registered[k]
      /\ inbox'[k] = inbox[k] /\ sent'[k] = sent[k] /\ (k \in woken' <=> k \in woken)
  BY Zenon DEF KeptPort
<1>3. RequestInv(k)'
  <2>1. RequestInv(k) /\ (In(k) \in DOMAIN queues' <=> In(k) \in DOMAIN queues)
    BY Zenon DEF EhciInv, PortSound, KeptPort, KeptQueue
  <2>2. Asked(k)' = Asked(k)
    BY <1>2, Zenon DEF Asked
  <2> QED
    BY <1>2, <2>1, <2>2, Zenon DEF RequestInv
<1>4. PortInv(k) /\ free \in 0 .. 127 /\ address[k] \in Int
  BY DEF EhciInv, PortSound, PortTypes
<1>5. \A q \in {Control(k), In(k)} :
        /\ q \in DOMAIN queues' <=> q \in DOMAIN queues
        /\ q \in DOMAIN queues =>
             /\ queues'[q] = queues[q]
             /\ HeadOf(q)'.next = HeadOf(q).next /\ HeadOf(q)'.device = HeadOf(q).device
  <2> SUFFICES ASSUME NEW q \in {Control(k), In(k)}
               PROVE  /\ q \in DOMAIN queues' <=> q \in DOMAIN queues
                      /\ q \in DOMAIN queues =>
                           /\ queues'[q] = queues[q]
                           /\ HeadOf(q)'.next = HeadOf(q).next
                           /\ HeadOf(q)'.device = HeadOf(q).device
    BY Zenon
  <2>1. KeptQueue(q)
    BY Zenon DEF KeptPort
  <2>2. q \in DOMAIN queues => QueueHead(q) \in DOMAIN memory
    BY Zenon DEF EhciInv, HeadTypes
  <2> QED
    BY <2>1, <2>2, Zenon DEF KeptQueue, KeptObjects, HeadOf
<1>6. /\ Control(k) \in DOMAIN queues' <=> task'[k] \notin Absent
      /\ In(k) \in DOMAIN queues' => task'[k] \in Served /\ HeadOf(In(k))'.device = address'[k]
      /\ task'[k] = "report" => In(k) \in DOMAIN queues'
  BY <1>2, <1>4, <1>5, Zenon DEF PortInv
<1>7. (k \in woken => /\ task[k] \in Transfers /\ queues[Uses(k)] = <<>>
                       /\ HeadOf(Uses(k)).next = Terminate)'
  <2>1. Uses(k)' = Uses(k)
    BY <1>2 DEF Uses, Control, In
  <2>2. task[k] \in Transfers => task[k] \notin Absent
    BY DEF Transfers, Absent, Steps, Answers
  <2>3. k \in woken => Uses(k) \in DOMAIN queues /\ Uses(k) \in {Control(k), In(k)}
    BY <1>4, <2>2, Zenon DEF PortInv, Uses
  <2> QED
    BY <1>2, <1>4, <1>5, <2>1, <2>3, Zenon DEF PortInv, HeadOf
<1>8. task'[k] \notin Absent => HeadOf(Control(k))'.next = HeadOf(Control(k)).next
                              /\ HeadOf(Control(k))'.device = HeadOf(Control(k)).device
  BY <1>2, <1>4, <1>5, Zenon DEF PortInv
<1>9. task[k] \in BringUp => free' = free
  BY <1>4
<1>10. /\ task[k] \in {"connect", "header", "set_address", "device", "config", "hierarchy"} =>
            task[k] \in BringUp /\ task[k] \notin Absent
       /\ task[k] \in Served => task[k] \notin Absent
  BY DEF BringUp, Steps, Absent, Served, Answers
<1>11. /\ task'[k] \in Absent => address'[k] = -1
       /\ task'[k] \in {"connect", "header"} => address'[k] = 0 /\ HeadOf(Control(k))'.device = 0
       /\ registered'[k] # -1 => task'[k] \in Served
  BY <1>2, <1>4, <1>8, <1>10, Zenon DEF PortInv
<1>12. task'[k] = "set_address" =>
         /\ HeadOf(Control(k))'.device = 0
         /\ address'[k] = IF HeadOf(Control(k))'.next = Terminate THEN free' + 1 ELSE 0
  BY <1>2, <1>4, <1>8, <1>9, <1>10 DEF PortInv
<1>13. task'[k] \in {"device", "config", "hierarchy"} =>
         address'[k] = free' + 1 /\ HeadOf(Control(k))'.device = free' + 1
  BY <1>2, <1>4, <1>8, <1>9, <1>10 DEF PortInv
<1>14. task'[k] \in Served => /\ address'[k] > free' /\ HeadOf(Control(k))'.device = address'[k]
                              /\ registered'[k] = address'[k]
  <2>1. free' \in Int /\ free \in Int /\ free' <= free
    BY <1>4
  <2> QED
    BY <1>2, <1>4, <1>8, <1>10, <2>1 DEF PortInv
<1>15. PortInv(k)'
  BY <1>6, <1>7, <1>11, <1>12, <1>13, <1>14, Zenon DEF PortInv
<1> QED
  BY <1>1, <1>3, <1>15, Zenon DEF PortSound

\* The ring is as it was when no link of it changed.
LEMMA RingKept ==
    ASSUME RingInv, UNCHANGED <<schedule, adding, ring>>, DOMAIN queues' = DOMAIN queues,
           adding = Nothing \/ task' = task,
           \A q \in DOMAIN queues : KeptLinks(q, memory, memory')
    PROVE  RingInv'
<1>1. Order' = Order
  BY Zenon DEF Order
<1>2. \A i \in DOMAIN Order : Order[i] \in DOMAIN queues
  BY Zenon DEF RingInv
<1>3. \A i \in DOMAIN schedule : schedule[i] \in DOMAIN queues
  <2>1. \A i \in DOMAIN schedule : i \in DOMAIN Order /\ Order[i] = schedule[i]
    BY DEF RingInv, Order
  <2> QED
    BY <1>2, <2>1
<1>4. adding # Nothing => adding \in DOMAIN queues
  <2>1. adding # Nothing => Len(Order) \in DOMAIN Order /\ Order[Len(Order)] = adding
    BY DEF RingInv, Order
  <2> QED
    BY <1>2, <2>1
<1>5. \A q \in DOMAIN queues : HeadOf(q)'.link = HeadOf(q).link /\ HeadOf(q)'.reclaim = HeadOf(q).reclaim
  BY Zenon DEF KeptLinks, HeadOf
<1>6. (/\ schedule \in Seq(Queues) /\ adding \in Queues \cup {Nothing}
       /\ \A i, j \in DOMAIN Order : Order[i] = Order[j] => i = j
       /\ DOMAIN queues = { Order[i] : i \in DOMAIN Order }
       /\ ring = IF Order = <<>> THEN Nothing ELSE Order[1])'
  BY <1>1 DEF RingInv
<1>7. (\A i \in DOMAIN Order :
         HeadOf(Order[i]).link = IF i = Len(Order) THEN Order[1] ELSE Order[i + 1])'
  BY <1>1, <1>2, <1>5 DEF RingInv, HeadOf
<1>8. (\A i \in DOMAIN schedule : HeadOf(schedule[i]).reclaim <=> i = Len(schedule))'
  BY <1>3, <1>5 DEF RingInv, HeadOf
<1>9. (adding # Nothing =>
         /\ HeadOf(adding).reclaim
         /\ \/ adding = Control(adding[1]) /\ task[adding[1]] = "connect"
            \/ adding = In(adding[1]) /\ task[adding[1]] = "endpoint")'
  BY <1>4, <1>5 DEF RingInv, HeadOf
<1> QED
  BY <1>6, <1>7, <1>8, <1>9, Zenon DEF RingInv

\* Addresses stay apart when a port's future goes on to something else.
LEMMA AddressKept ==
    ASSUME AddressInv, PortTypes, UNCHANGED <<address, free>>, NEW p \in Ports, NEW t,
           task' = [task EXCEPT ![p] = t], t # "unchecked",
           task[p] # "unchecked" \/ \A q \in 1 .. p - 1 : Checked(q),
           Checked(p) => Checked(p)',
           t \in BringUp => task[p] \in BringUp
    PROVE  AddressInv'
<1>1. \A k \in Ports : k # p => task'[k] = task[k] /\ (Checked(k)' <=> Checked(k))
  BY DEF PortTypes, Checked
<1>2. task'[p] = t
  BY DEF PortTypes
<1>3. \A k, q \in Ports : k < q /\ ~Checked(k)' => task'[q] = "unchecked"
  BY <1>1, <1>2 DEF AddressInv, Ports
<1>4. \A k \in Ports : task'[k] = "unchecked" => free' >= 128 - k
  BY <1>1, <1>2 DEF AddressInv
<1>5. \A k, q \in Ports : k # q /\ task'[k] \in BringUp => address'[q] = -1 \/ address'[q] > free' + 1
  BY <1>1, <1>2 DEF AddressInv
<1> QED
  BY <1>3, <1>4, <1>5, Zenon DEF AddressInv

\* A step that port p makes at its queue q, in the ring as it is.
StepOf(p, q) ==
    /\ q \in {Control(p), In(p)} /\ q \in DOMAIN queues
    /\ Local(q, memory, memory')
    /\ QueueHead(q) \in DOMAIN memory' /\ memory'[QueueHead(q)] \in HeadSet
    /\ KeptLinks(q, memory, memory')
    /\ DOMAIN queues' = DOMAIN queues /\ \A k \in DOMAIN queues : k # q => queues'[k] = queues[k]
    /\ UNCHANGED <<schedule, adding, ring, free>>
    /\ adding = Nothing \/ task' = task
    /\ \A k \in Ports : k # p =>
         /\ task'[k] = task[k] /\ address'[k] = address[k] /\ registered'[k] = registered[k]
         /\ inbox'[k] = inbox[k] /\ sent'[k] = sent[k] /\ (k \in woken' <=> k \in woken)

\* Such a step keeps the other queues, the other ports and the ring.
LEMMA StepKeeps ==
    ASSUME EhciInv, NEW p \in Ports, NEW q, StepOf(p, q)
    PROVE  /\ \A k : k # q => KeptQueue(k)
           /\ HeadTypes' /\ RingInv'
           /\ \A k \in Ports : k # p => PortSound(k)'
<1>1. \A k : k # q => KeptObjects(k, memory, memory') /\ (QueueHead(k) \in DOMAIN memory => KeptLinks(k, memory, memory'))
  BY LocalKeeps, Zenon DEF StepOf
<1>2. \A k : k # q => KeptQueue(k)
  BY <1>1, Zenon DEF StepOf, KeptQueue
<1>3. HeadTypes'
  <2> SUFFICES ASSUME NEW k \in DOMAIN queues'
               PROVE  QueueHead(k) \in DOMAIN memory' /\ memory'[QueueHead(k)] \in HeadSet
    BY Zenon DEF HeadTypes, HeadOf
  <2>1. CASE k = q
    BY <2>1, Zenon DEF StepOf
  <2>2. CASE k # q
    <3>1. QueueHead(k) \in DOMAIN memory /\ memory[QueueHead(k)] \in HeadSet
      BY Zenon DEF StepOf, EhciInv, HeadTypes, HeadOf
    <3> QED
      BY <1>1, <2>2, <3>1, Zenon DEF KeptObjects
  <2> QED
    BY <2>1, <2>2
<1>4. RingInv'
  <2>1. \A k \in DOMAIN queues : KeptLinks(k, memory, memory')
    BY <1>1, Zenon DEF StepOf, EhciInv, HeadTypes
  <2>2. RingInv /\ UNCHANGED <<schedule, adding, ring>> /\ DOMAIN queues' = DOMAIN queues
        /\ (adding = Nothing \/ task' = task)
    BY DEF StepOf, EhciInv
  <2> QED
    BY <2>1, <2>2, RingKept, Zenon
<1>5. ASSUME NEW k \in Ports, k # p PROVE PortSound(k)'
  <2>1. Control(k) # q /\ In(k) # q
    <3>1. q = Control(p) \/ q = In(p)
      BY Zenon DEF StepOf
    <3> QED
      BY <1>5, <3>1, QueueNames
  <2>2. KeptPort(k)
    BY <1>2, <1>5, <2>1, Zenon DEF KeptPort, StepOf
  <2>3. free' = free /\ free' \in 0 .. 127
    BY DEF StepOf, EhciInv, PortTypes
  <2> QED
    BY <2>2, <2>3, PortKept, Zenon
<1> QED
  BY <1>2, <1>3, <1>4, <1>5, Zenon

-----------------------------------------------------------------------------
\* The pool.

\* The memories m and n differ in objects of the set only.
Only(objects, m, n) ==
    \A o : o \notin objects => (o \in DOMAIN m <=> o \in DOMAIN n) /\ (o \in DOMAIN m => n[o] = m[o])

\* An allocation changes the object it allocates.
LEMMA CreateOnly ==
    ASSUME NEW m, NEW o, NEW v
    PROVE  /\ Only({o}, m, create(m, o, v))
           /\ o \in DOMAIN create(m, o, v) /\ create(m, o, v)[o] = v
  BY DEF Only, create

\* Dropping objects changes those objects.
LEMMA DropOnly ==
    ASSUME NEW m, NEW objects
    PROVE  Only(objects, m, drop(m, objects))
  BY DEF Only, drop

\* An assignment to an object changes that object.
LEMMA ChangeOnly ==
    ASSUME NEW m, NEW o, NEW v
    PROVE  /\ Only({o}, m, [m EXCEPT ![o] = v])
           /\ DOMAIN [m EXCEPT ![o] = v] = DOMAIN m
           /\ o \in DOMAIN m => [m EXCEPT ![o] = v][o] = v
  BY DEF Only

\* Two changes one after the other change what either changes.
LEMMA OnlyBoth ==
    ASSUME NEW m, NEW n, NEW k, NEW X, NEW Y, Only(X, m, n), Only(Y, n, k)
    PROVE  Only(X \cup Y, m, k)
  BY Zenon DEF Only

\* A change to objects of one queue is local to it.
LEMMA OnlyLocal ==
    ASSUME NEW m, NEW n, NEW X, NEW q, Only(X, m, n), \A o \in X : o[2] = q
    PROVE  Local(q, m, n)
  BY Zenon DEF Only, Local

\* Whose the objects are.
LEMMA ObjectQueue ==
    \A q : /\ QueueHead(q)[2] = q
          /\ \A r : Setup(q, r)[2] = q /\ Descriptors(q, r)[2] = q /\ Buffer(q, r)[2] = q
  BY DEF QueueHead, Setup, Descriptors, Buffer

-----------------------------------------------------------------------------
\* A transfer that starts.

\* The transfer of r at q is under way, from a memory m in which the queue was idle.
Started(q, r, m) ==
    /\ DOMAIN queues' = DOMAIN queues /\ \A k \in DOMAIN queues : k # q => queues'[k] = queues[k]
    /\ Local(q, m, memory')
    /\ QueueHead(q) \in DOMAIN memory' /\ memory'[QueueHead(q)] = [m[QueueHead(q)] EXCEPT !.next = <<r, 1>>]
    /\ Descriptors(q, r) \in DOMAIN memory'
    /\ UnderWay(queues'[q], memory'[Descriptors(q, r)], memory'[QueueHead(q)], r)
    /\ HasData(r) => Buffer(q, r) \in DOMAIN memory' /\ memory'[Buffer(q, r)] = "token held"

\* with_buffer allocates the buffer of a data stage and gives its token away.
LEMMA BufferGiven ==
    ASSUME NEW q, NEW r, NEW m
    PROVE  /\ Only({Buffer(q, r)}, m, with_buffer(q, r, m))
           /\ HasData(r) => /\ Buffer(q, r) \in DOMAIN with_buffer(q, r, m)
                            /\ with_buffer(q, r, m)[Buffer(q, r)] = "token held"
<1>1. CASE HasData(r)
  <2> DEFINE b == Buffer(q, r)
             n == create(m, b, "free")
  <2>1. Only({b}, m, n) /\ b \in DOMAIN n
    BY CreateOnly, Zenon
  <2>2. with_buffer(q, r, m) = [n EXCEPT ![b] = "token held"]
    BY <1>1, Zenon DEF with_buffer, token
  <2> HIDE DEF b, n
  <2>3. Only({b}, n, with_buffer(q, r, m)) /\ b \in DOMAIN with_buffer(q, r, m)
        /\ with_buffer(q, r, m)[b] = "token held"
    BY <2>1, <2>2, ChangeOnly, ZenonT(30)
  <2>4. Only({b} \cup {b}, m, with_buffer(q, r, m))
    BY <2>1, <2>3, OnlyBoth, Zenon
  <2>5. {b} \cup {b} = {b}
    OBVIOUS
  <2> QED
    BY <2>3, <2>4, <2>5, Zenon DEF b
<1>2. CASE ~HasData(r)
  BY <1>2, Zenon DEF with_buffer, Only
<1> QED
  BY <1>1, <1>2

\* Descriptors that are all active, with the head at the first, are a transfer.
LEMMA FreshTransfer ==
    ASSUME NEW n \in 1 .. 3, NEW head, NEW r, NEW tds,
           head.next = <<r, 1>>, tds = [i \in 1 .. n |-> "active"]
    PROVE  UnderWay(<<[request |-> r, complete |-> 0]>>, tds, head, r)
<1>1. tds \in Seq({"active", "done", "halted"}) /\ tds # <<>> /\ Len(tds) = n
  OBVIOUS
<1>2. \A i \in 1 .. n : tds[i] = "active"
  OBVIOUS
<1>3. head.next[1] = r /\ head.next[2] = 1
  OBVIOUS
<1>4. \E c \in 0 .. Len(tds) : /\ <<[request |-> r, complete |-> 0]>> = <<[request |-> r, complete |-> c]>>
                               /\ \A i \in 1 .. c : tds[i] = "done"
  <2>1. 0 \in 0 .. Len(tds) /\ \A i \in 1 .. 0 : tds[i] = "done"
    BY <1>1
  <2> QED
    BY <2>1, Zenon
<1>5. /\ \A i \in 1 .. Len(tds) : tds[i] # "halted" /\ tds[i] # "done"
      /\ head.next[2] \in 1 .. Len(tds)
  BY <1>1, <1>2, <1>3
<1>6. \A i \in head.next[2] .. Len(tds) : tds[i] # "done"
  BY <1>1, <1>3, <1>5
<1> QED
  BY <1>1, <1>3, <1>4, <1>5, <1>6, Zenon DEF UnderWay

\* What is enqueued on an empty queue is all there is.
LEMMA FirstOfQueue ==
    ASSUME NEW t
    PROVE  Append(<<>>, t) = <<t>>
<1> DEFINE S == {t}
<1>1. t \in S
  OBVIOUS
<1> HIDE DEF S
<1>2. Append(<<>>, t) \in Seq(S) /\ Len(Append(<<>>, t)) = 1 /\ Append(<<>>, t)[1] = t
  BY <1>1
<1>3. <<t>> \in Seq(S) /\ Len(<<t>>) = 1 /\ <<t>>[1] = t
  BY <1>1
<1> QED
  BY <1>2, <1>3

\* Queueing a transaction whose descriptors and buffer are there.
LEMMA EnqueueStarts ==
    ASSUME RingInv, NEW q \in DOMAIN queues, queues[q] = <<>>, NEW r, NEW n \in 1 .. 3, NEW m, NEW m3,
           m[QueueHead(q)] \in HeadSet, QueueHead(q) \in DOMAIN m,
           Only({Buffer(q, r), Setup(q, r), Descriptors(q, r)}, m, m3),
           Descriptors(q, r) \in DOMAIN m3, m3[Descriptors(q, r)] = [i \in 1 .. n |-> "active"],
           HasData(r) => Buffer(q, r) \in DOMAIN m3 /\ m3[Buffer(q, r)] = "token held",
           enqueue(q, r, m3)
    PROVE  Started(q, r, m)
<1> DEFINE o == QueueHead(q)
           X == {Buffer(q, r), Setup(q, r), Descriptors(q, r)}
<1>1. /\ DOMAIN queues' = DOMAIN queues /\ \A k \in DOMAIN queues : k # q => queues'[k] = queues[k]
      /\ queues'[q] = <<[request |-> r, complete |-> 0]>>
  <2>1. PICK t : t = [request |-> r, complete |-> 0]
    OBVIOUS
  <2>2. PICK list : list = <<t>>
    OBVIOUS
  <2>3. Append(queues[q], t) = list
    BY <2>2, FirstOfQueue, Zenon
  <2>4. queues' = [queues EXCEPT ![q] = list]
    BY <2>1, <2>3, Zenon DEF enqueue
  <2>5. DOMAIN queues' = DOMAIN queues /\ queues'[q] = list
        /\ \A k \in DOMAIN queues : k # q => queues'[k] = queues[k]
    BY <2>4
  <2> QED
    BY <2>1, <2>2, <2>5, Zenon
<1>2. o \notin X /\ Buffer(q, r) # o /\ Descriptors(q, r) # o
  BY ObjectNames, Zenon
<1>3. o \in DOMAIN m3 /\ m3[o] = m[o]
  BY <1>2, Zenon DEF Only
<1>4. memory' = [m3 EXCEPT ![o] = [m3[o] EXCEPT !.next = <<r, 1>>]]
  BY DEF enqueue, set_next_td
<1> HIDE DEF o, X
<1>5. /\ Only({o}, m3, memory') /\ DOMAIN memory' = DOMAIN m3
      /\ memory'[o] = [m[o] EXCEPT !.next = <<r, 1>>]
  <2>1. PICK v : v = [m3[o] EXCEPT !.next = <<r, 1>>]
    BY Zenon
  <2> QED
    BY <1>3, <1>4, <2>1, ChangeOnly, Zenon
<1>6. Local(q, m, memory')
  <2>1. Only(X \cup {o}, m, memory')
    BY <1>5, OnlyBoth, Zenon DEF X
  <2>2. o[2] = q /\ Buffer(q, r)[2] = q /\ Setup(q, r)[2] = q /\ Descriptors(q, r)[2] = q
    BY ObjectQueue, Zenon DEF o
  <2>3. \A x \in X \cup {o} : x[2] = q
    BY <2>2, Zenon DEF X
  <2> QED
    BY <2>1, <2>3, OnlyLocal, Zenon
<1>7. /\ Descriptors(q, r) \in DOMAIN memory' /\ memory'[Descriptors(q, r)] = [i \in 1 .. n |-> "active"]
      /\ HasData(r) => Buffer(q, r) \in DOMAIN memory' /\ memory'[Buffer(q, r)] = "token held"
  BY <1>2, <1>5, Zenon DEF Only
<1>8. memory'[o].next = <<r, 1>>
  BY <1>5 DEF HeadSet, o
<1>9. UnderWay(<<[request |-> r, complete |-> 0]>>, memory'[Descriptors(q, r)], memory'[o], r)
  BY <1>7, <1>8, FreshTransfer, Zenon
<1> QED
  BY <1>1, <1>3, <1>5, <1>6, <1>7, <1>9, Zenon DEF Started, o

\* do_control_transfer and do_interrupt_transfer start a transfer.
LEMMA ControlStarts ==
    ASSUME RingInv, NEW q \in DOMAIN queues, queues[q] = <<>>, NEW r, NEW m,
           m[QueueHead(q)] \in HeadSet, QueueHead(q) \in DOMAIN m,
           control_transfer(q, r, with_buffer(q, r, m))
    PROVE  Started(q, r, m)
<1>1. PICK m1 : m1 = with_buffer(q, r, m)
  BY Zenon
<1>2. PICK n \in 1 .. 3 : n = IF HasData(r) THEN 3 ELSE 2
  OBVIOUS
<1>3. PICK tds : tds = [i \in 1 .. n |-> "active"]
  BY Zenon
<1>4. PICK m2 : m2 = create(m1, Setup(q, r), "packet")
  BY Zenon
<1>5. PICK m3 : m3 = create(m2, Descriptors(q, r), tds)
  BY Zenon
<1>6. enqueue(q, r, m3)
  BY <1>1, <1>2, <1>3, <1>4, <1>5, Zenon DEF control_transfer
<1>7. /\ Only({Buffer(q, r)}, m, m1)
      /\ HasData(r) => Buffer(q, r) \in DOMAIN m1 /\ m1[Buffer(q, r)] = "token held"
  BY <1>1, BufferGiven, Zenon
<1>8. Only({Setup(q, r)}, m1, m2)
  BY <1>4, CreateOnly, Zenon
<1>9. Only({Descriptors(q, r)}, m2, m3) /\ Descriptors(q, r) \in DOMAIN m3 /\ m3[Descriptors(q, r)] = tds
  BY <1>5, CreateOnly
<1>10. Only({Buffer(q, r), Setup(q, r), Descriptors(q, r)}, m, m3)
  BY <1>7, <1>8, <1>9, Zenon DEF Only
<1>11. HasData(r) => Buffer(q, r) \in DOMAIN m3 /\ m3[Buffer(q, r)] = "token held"
  <2>1. Buffer(q, r) # Setup(q, r) /\ Buffer(q, r) # Descriptors(q, r)
    BY ObjectNames, Zenon
  <2> QED
    BY <1>7, <1>8, <1>9, <2>1, Zenon DEF Only
<1> QED
  BY <1>3, <1>6, <1>9, <1>10, <1>11, EnqueueStarts, Zenon

\* An interrupt transfer on an idle queue is under way afterwards.
LEMMA InterruptStarts ==
    ASSUME RingInv, NEW q \in DOMAIN queues, queues[q] = <<>>, NEW r, NEW m,
           m[QueueHead(q)] \in HeadSet, QueueHead(q) \in DOMAIN m,
           interrupt_transfer(q, r, with_buffer(q, r, m))
    PROVE  Started(q, r, m)
<1>1. PICK m1 : m1 = with_buffer(q, r, m)
  BY Zenon
<1>2. PICK n \in 1 .. 3 : n = 1
  OBVIOUS
<1>3. PICK tds : tds = [i \in 1 .. n |-> "active"] /\ tds = <<"active">>
  <2>1. [i \in 1 .. n |-> "active"] = <<"active">>
    BY <1>2
  <2> QED
    BY <2>1, Zenon
<1>5. PICK m3 : m3 = create(m1, Descriptors(q, r), tds)
  BY Zenon
<1>6. enqueue(q, r, m3)
  BY <1>1, <1>3, <1>5, Zenon DEF interrupt_transfer
<1>7. /\ Only({Buffer(q, r)}, m, m1)
      /\ HasData(r) => Buffer(q, r) \in DOMAIN m1 /\ m1[Buffer(q, r)] = "token held"
  BY <1>1, BufferGiven, Zenon
<1>9. Only({Descriptors(q, r)}, m1, m3) /\ Descriptors(q, r) \in DOMAIN m3 /\ m3[Descriptors(q, r)] = tds
  BY <1>5, CreateOnly
<1>10. Only({Buffer(q, r), Setup(q, r), Descriptors(q, r)}, m, m3)
  BY <1>7, <1>9, Zenon DEF Only
<1>11. HasData(r) => Buffer(q, r) \in DOMAIN m3 /\ m3[Buffer(q, r)] = "token held"
  <2>1. Buffer(q, r) # Descriptors(q, r)
    BY ObjectNames, Zenon
  <2> QED
    BY <1>7, <1>9, <2>1, Zenon DEF Only
<1> QED
  BY <1>3, <1>6, <1>9, <1>10, <1>11, EnqueueStarts, Zenon

\* A started transfer, seen from the memory before: the head was changed at most
\* in its device.
LEMMA StartedPending ==
    ASSUME NEW q, NEW r \in Transfers, NEW m, Started(q, r, m), m[QueueHead(q)] \in HeadSet
    PROVE  /\ memory'[QueueHead(q)] \in HeadSet /\ KeptLinks(q, m, memory')
           /\ memory'[QueueHead(q)].next = <<r, 1>> /\ <<r, 1>> # Terminate
           /\ memory'[QueueHead(q)].device = m[QueueHead(q)].device
<1>1. PICK h \in HeadSet : h = m[QueueHead(q)]
  OBVIOUS
<1>2. memory'[QueueHead(q)] = [h EXCEPT !.next = <<r, 1>>]
  BY <1>1, Zenon DEF Started
<1>3. <<r, 1>> \in Transfers \X Nat /\ <<r, 1>> # Terminate
  BY DEF Terminate
<1> QED
  BY <1>1, <1>2, <1>3 DEF HeadSet, KeptLinks

\* Port p starts the transfer of r at its queue q, after the memory was changed to m.
StartsAt(p, q, r, m) ==
    /\ q \in DOMAIN queues /\ queues[q] = <<>> /\ q = IF r = "report" THEN In(p) ELSE Control(p)
    /\ Local(q, memory, m) /\ m[QueueHead(q)] \in HeadSet /\ KeptLinks(q, memory, m)
    /\ Started(q, r, m)
    /\ task' = [task EXCEPT ![p] = r] /\ (task[p] \in Transfers => q = Uses(p))
    /\ UNCHANGED <<schedule, adding, ring, free, address>> /\ adding = Nothing
    /\ woken' = woken \ {p}
    /\ \A k \in Ports : k # p =>
         registered'[k] = registered[k] /\ inbox'[k] = inbox[k] /\ sent'[k] = sent[k]

\* A port's future that starts its next transfer leaves its queues sound, and the
\* address of the one it uses is the one written before the transfer was started.
LEMMA TransferAt ==
    ASSUME EhciInv, NEW p \in Ports, NEW q, NEW r \in Transfers, NEW m, StartsAt(p, q, r, m)
    PROVE  /\ StepOf(p, q)
           /\ \A k \in {Control(p), In(p)} : k \in DOMAIN queues' => QueueInv(k)'
           /\ HeadOf(q)'.device = m[QueueHead(q)].device /\ HeadOf(q)'.next # Terminate
           /\ \A k \in DOMAIN queues : k # q => HeadOf(k)'.device = HeadOf(k).device
<1>1. /\ memory'[QueueHead(q)] \in HeadSet /\ KeptLinks(q, m, memory')
      /\ memory'[QueueHead(q)].next = <<r, 1>> /\ <<r, 1>> # Terminate
      /\ memory'[QueueHead(q)].device = m[QueueHead(q)].device
  BY StartedPending, Zenon DEF StartsAt
<1>2. task'[p] = r /\ \A k \in Ports : k # p => task'[k] = task[k]
  BY DEF StartsAt, EhciInv, PortTypes
<1>3. q \in {Control(p), In(p)} /\ Uses(p)' = q /\ q[1] = p
  <2>1. q \in {Control(p), In(p)} /\ Uses(p)' = q
    BY <1>2 DEF StartsAt, Uses, Control, In
  <2> QED
    BY <2>1, QueueNames, Zenon
<1>4. Local(q, memory, memory')
  BY Zenon DEF StartsAt, Started, Local
<1>5. KeptLinks(q, memory, memory')
  BY <1>1, Zenon DEF StartsAt, KeptLinks
<1>6. StepOf(p, q)
  <2>1. /\ UNCHANGED <<schedule, adding, ring, free>> /\ adding = Nothing
        /\ \A k \in Ports : k # p =>
             /\ address'[k] = address[k] /\ registered'[k] = registered[k]
             /\ inbox'[k] = inbox[k] /\ sent'[k] = sent[k] /\ (k \in woken' <=> k \in woken)
    BY DEF StartsAt
  <2>2. q \in DOMAIN queues /\ QueueHead(q) \in DOMAIN memory'
        /\ DOMAIN queues' = DOMAIN queues /\ \A k \in DOMAIN queues : k # q => queues'[k] = queues[k]
    BY Zenon DEF StartsAt, Started
  <2> QED
    BY <1>1, <1>2, <1>3, <1>4, <1>5, <2>1, <2>2, Zenon DEF StepOf
<1>7. \A k : k # q => KeptQueue(k)
  BY <1>6, StepKeeps, Zenon
<1>8. p \notin woken'
  BY DEF StartsAt
<1>9. QueueInv(q)'
  <2>1. Pending(q, r)'
    BY Zenon DEF StartsAt, Started, Pending, Held, HeadOf
  <2>2. Pending(q, task[p])'
    BY <1>2, <2>1, Zenon DEF Pending, Held
  <2> QED
    BY <1>2, <1>3, <1>8, <2>2, Zenon DEF QueueInv
<1>10. ASSUME NEW k \in {Control(p), In(p)}, k \in DOMAIN queues', k # q
       PROVE  QueueInv(k)'
  <2>1. KeptQueue(k) /\ k \in DOMAIN queues /\ k[1] = p
    BY <1>7, <1>10, QueueNames, Zenon DEF KeptQueue
  <2>2. queues[k] = <<>> /\ ~Working(k)
    <3>1. QueueInv(k)
      BY <2>1, QueueSound, Zenon
    <3>2. ~(task[p] \in Transfers /\ k = Uses(p))
      BY <1>10, Zenon DEF StartsAt
    <3> QED
      BY <2>1, <3>1, <3>2, Zenon DEF QueueInv
  <2>3. QueueHead(k) \in DOMAIN memory
    BY <2>1, Zenon DEF EhciInv, HeadTypes
  <2> QED
    BY <2>1, <2>2, <2>3, Zenon DEF KeptQueue, KeptObjects, QueueInv, Working
<1>11. ASSUME NEW k \in DOMAIN queues, k # q PROVE HeadOf(k)'.device = HeadOf(k).device
  <2>1. KeptQueue(k) /\ QueueHead(k) \in DOMAIN memory
    BY <1>7, <1>11, Zenon DEF EhciInv, HeadTypes
  <2> QED
    BY <2>1, Zenon DEF KeptQueue, KeptObjects, HeadOf
<1> QED
  BY <1>1, <1>6, <1>9, <1>10, <1>11, Zenon DEF HeadOf

\* What is left to show of a step of port p.
LEMMA StepSuffices ==
    ASSUME EhciInv, NEW p \in Ports, NEW q, StepOf(p, q),
           HandlerInv', PortTypes', AddressInv', PortSound(p)'
    PROVE  EhciInv'
  BY StepKeeps, Zenon DEF EhciInv

\* A queue that no future waits for is idle.
LEMMA QueueIdle ==
    ASSUME EhciInv, NEW p \in Ports, NEW q \in {Control(p), In(p)}, q \in DOMAIN queues,
           task[p] \notin Transfers \/ q # Uses(p) \/ p \in woken
    PROVE  queues[q] = <<>> /\ ~Working(q)
<1>1. QueueInv(q) /\ q[1] = p
  BY QueueSound, QueueNames, Zenon
<1> QED
  BY <1>1, Zenon DEF QueueInv

\* handle_request, when it starts a transfer.
LEMMA ServeKeeps ==
    ASSUME EhciInv, NEW p \in Ports, NEW r \in Answers, NEW q,
           q = IF r = "report" THEN In(p) ELSE Control(p),
           task[p] = "ready", adding = Nothing, inbox[p] = r,
           inbox' = [inbox EXCEPT ![p] = "none"], task' = [task EXCEPT ![p] = r],
           IF r = "report" THEN interrupt_transfer(q, r, with_buffer(q, r, memory))
           ELSE control_transfer(q, r, with_buffer(q, r, memory)),
           UNCHANGED <<schedule, adding, ring, free, address, woken, sent, registered, handler>>
    PROVE  EhciInv'
<1>1. PortInv(p) /\ RequestInv(p) /\ PortTypes /\ RingInv /\ HeadTypes /\ HandlerInv /\ AddressInv
  BY Zenon DEF EhciInv, PortSound
<1>2. /\ task[p] \notin Absent /\ task[p] \notin Transfers /\ task[p] \in Served
      /\ r \in Transfers /\ r \in Served /\ r \notin Absent /\ r # "endpoint" /\ r # "none"
      /\ r \notin Steps /\ r \notin BringUp
  BY DEF Absent, Transfers, Steps, Answers, Served, BringUp
<1>3. RequestInv(p)' /\ (r = "report" => In(p) \in DOMAIN queues)
  <2>1. sent[p] \in Nat /\ sent[p] >= 1 /\ sent[p] <= Len(Requests(p)) /\ r = Requests(p)[sent[p]]
        /\ Asked(p) = sent[p] - 1
    BY <1>1, <1>2 DEF RequestInv, PortTypes, Asked
  <2>2. sent' = sent /\ inbox'[p] = "none" /\ Asked(p)' = sent[p]
    BY <1>1 DEF Asked, PortTypes
  <2>3. In(p) \in DOMAIN queues <=> \E i \in 1 .. sent[p] - 1 : Requests(p)[i] = "endpoint"
    BY <1>1, <2>1, Zenon DEF RequestInv
  <2>4. (\E i \in 1 .. sent[p] - 1 : Requests(p)[i] = "endpoint")
          <=> \E i \in 1 .. sent[p] : Requests(p)[i] = "endpoint"
    BY <1>2, <2>1
  <2>5. DOMAIN queues' = DOMAIN queues
    BY DEF interrupt_transfer, control_transfer, enqueue
  <2>6. r = "report" => \E i \in 1 .. sent[p] - 1 : Requests(p)[i] = "endpoint"
    <3>1. sent[p] \in DOMAIN Requests(p)
      BY <2>1, EhciAssumption
    <3>2. Requests(p)[sent[p]] = "report" => \E i \in 1 .. sent[p] - 1 : Requests(p)[i] = "endpoint"
      BY <3>1, EhciAssumption, ZenonT(30)
    <3> QED
      BY <2>1, <3>2, Zenon
  <2> QED
    BY <2>1, <2>2, <2>3, <2>4, <2>5, <2>6 DEF RequestInv
<1>4. q \in DOMAIN queues /\ q \in {Control(p), In(p)}
  BY <1>1, <1>2, <1>3, Zenon DEF PortInv
<1>5. queues[q] = <<>> /\ p \notin woken
  BY <1>1, <1>2, <1>4, QueueIdle, Zenon DEF PortInv
<1>6. QueueHead(q) \in DOMAIN memory /\ memory[QueueHead(q)] \in HeadSet
  BY <1>1, <1>4, Zenon DEF HeadTypes, HeadOf
<1>7. Started(q, r, memory)
  BY <1>1, <1>4, <1>5, <1>6, ControlStarts, InterruptStarts, Zenon
<1>8. StartsAt(p, q, r, memory)
  <2>1. Local(q, memory, memory) /\ KeptLinks(q, memory, memory)
    BY Zenon DEF Local, KeptLinks
  <2>2. woken' = woken \ {p}
    BY <1>5
  <2>3. \A k \in Ports : k # p =>
          registered'[k] = registered[k] /\ inbox'[k] = inbox[k] /\ sent'[k] = sent[k]
    BY <1>1 DEF PortTypes
  <2> QED
    BY <1>2, <1>4, <1>5, <1>6, <1>7, <2>1, <2>2, <2>3, Zenon DEF StartsAt
<1>9. /\ StepOf(p, q) /\ \A k \in {Control(p), In(p)} : k \in DOMAIN queues' => QueueInv(k)'
      /\ \A k \in DOMAIN queues : HeadOf(k)'.device = HeadOf(k).device
  BY <1>2, <1>8, TransferAt, ZenonT(30) DEF HeadOf
<1>10. task'[p] = r /\ DOMAIN queues' = DOMAIN queues
  <2>1. DOMAIN queues' = DOMAIN queues
    BY <1>9, Zenon DEF StepOf
  <2> QED
    BY <1>1, <2>1 DEF PortTypes
<1>11. PortInv(p)'
  <2>1. /\ (Control(p) \in DOMAIN queues') /\ task'[p] \notin Absent /\ task'[p] \in Served
        /\ task'[p] \notin BringUp /\ p \notin woken'
        /\ (In(p) \in DOMAIN queues => HeadOf(In(p))'.device = address[p])
        /\ HeadOf(Control(p))'.device = address[p] /\ address[p] > free /\ registered[p] = address[p]
        /\ (r = "report" => In(p) \in DOMAIN queues')
    BY <1>1, <1>2, <1>3, <1>5, <1>9, <1>10, Zenon DEF PortInv
  <2>2. task'[p] \notin {"connect", "header", "set_address", "device", "config", "hierarchy"}
    BY <2>1, Zenon DEF BringUp, Steps
  <2> QED
    BY <1>10, <2>1, <2>2, Zenon DEF PortInv
<1>12. PortSound(p)'
  BY <1>3, <1>9, <1>11, Zenon DEF PortSound
<1>13. PortTypes' /\ HandlerInv'
  <2>1. r \in Absent \cup BringUp \cup Served
    BY <1>2
  <2> QED
    BY <1>1, <2>1 DEF PortTypes, HandlerInv
<1>14. AddressInv'
  <2>1. Checked(p)' /\ r # "unchecked"
    BY <1>10 DEF Checked, Answers
  <2> QED
    BY <1>1, <1>2, <2>1, AddressKept, Zenon
<1> QED
  BY <1>9, <1>12, <1>13, <1>14, StepSuffices, Zenon

\* The end of bringing a device up, and of serving a request: the buffers are
\* dropped and the future waits for a request.
LEMMA ReadyKeeps ==
    ASSUME EhciInv, NEW p \in Ports, NEW q, q = Uses(p), NEW X,
           \A o \in X : \E r : o = Buffer(q, r),
           p \in woken, adding = Nothing,
           memory' = drop(memory, X), task' = [task EXCEPT ![p] = "ready"], woken' = woken \ {p},
           \/ task[p] \in Answers /\ registered' = registered
           \/ task[p] = "hierarchy" /\ registered' = [registered EXCEPT ![p] = free + 1],
           UNCHANGED <<queues, schedule, adding, ring, free, address, inbox, sent, handler>>
    PROVE  EhciInv'
<1>1. PortInv(p) /\ RequestInv(p) /\ PortTypes /\ RingInv /\ HeadTypes /\ HandlerInv /\ AddressInv
  BY Zenon DEF EhciInv, PortSound
<1>2. /\ task[p] \notin Absent /\ task[p] \in Transfers /\ task[p] # "unchecked"
      /\ (task[p] \in Answers => task[p] \in Served) /\ (task[p] = "hierarchy" => task[p] \notin Served)
      /\ "ready" \in Served /\ "ready" \notin Absent /\ "ready" \notin BringUp
      /\ "ready" \notin Steps
  BY DEF Absent, Transfers, Steps, Answers, Served, BringUp
<1>3. q \in {Control(p), In(p)} /\ q \in DOMAIN queues
  BY <1>1, <1>2, Zenon DEF PortInv, Uses
<1>4. Only(X, memory, memory')
  BY DropOnly, Zenon
<1>5. \A k : QueueHead(k) \in DOMAIN memory =>
        QueueHead(k) \in DOMAIN memory' /\ memory'[QueueHead(k)] = memory[QueueHead(k)]
  <2>1. ASSUME NEW k, QueueHead(k) \in X PROVE FALSE
    <3>1. PICK r : QueueHead(k) = Buffer(q, r)
      BY <2>1, Zenon
    <3> QED
      BY <3>1, ObjectNames
  <2> QED
    BY <1>4, <2>1, Zenon DEF Only
<1>6. \A k \in DOMAIN queues : /\ QueueHead(k) \in DOMAIN memory' /\ HeadOf(k)' = HeadOf(k)
                              /\ HeadOf(k) \in HeadSet
  BY <1>1, <1>5, Zenon DEF HeadTypes, HeadOf
<1>7. Local(q, memory, memory')
  <2>1. ASSUME NEW o \in X PROVE o[2] = q
    <3>1. PICK r : o = Buffer(q, r)
      BY Zenon
    <3> QED
      BY <3>1, ObjectQueue, Zenon
  <2> QED
    BY <1>4, <2>1, OnlyLocal, Zenon
<1>8. task'[p] = "ready" /\ \A k \in Ports : k # p => task'[k] = task[k] /\ registered'[k] = registered[k]
  BY <1>1 DEF PortTypes
<1>9. StepOf(p, q)
  <2>1. KeptLinks(q, memory, memory') /\ QueueHead(q) \in DOMAIN memory' /\ memory'[QueueHead(q)] \in HeadSet
    BY <1>3, <1>6, Zenon DEF KeptLinks, HeadOf
  <2>2. \A k \in Ports : k # p => (k \in woken' <=> k \in woken)
    OBVIOUS
  <2> QED
    BY <1>3, <1>7, <1>8, <2>1, <2>2, Zenon DEF StepOf
<1>10. \A k \in {Control(p), In(p)} : k \in DOMAIN queues' => QueueInv(k)'
  <2> SUFFICES ASSUME NEW k \in {Control(p), In(p)}, k \in DOMAIN queues' PROVE QueueInv(k)'
    BY Zenon
  <2>1. queues[k] = <<>> /\ ~Working(k)
    BY QueueIdle, Zenon
  <2> QED
    BY <1>6, <2>1, Zenon DEF QueueInv, Working, HeadOf
<1>11. registered'[p] = address[p] /\ address[p] > free /\ HeadOf(Control(p)).device = address[p]
  <2>1. CASE task[p] \in Answers
    BY <1>1, <1>2, <2>1 DEF PortInv, Served
  <2>2. CASE task[p] = "hierarchy"
    <3>1. registered'[p] = free + 1 /\ free \in Int
      BY <1>1, <2>2 DEF PortTypes, Answers
    <3>2. address[p] = free + 1 /\ HeadOf(Control(p)).device = free + 1
      BY <1>1, <2>2, Zenon DEF PortInv
    <3> QED
      BY <3>1, <3>2
  <2> QED
    BY <2>1, <2>2, Zenon
<1>12. PortInv(p)'
  <2>1. /\ Control(p) \in DOMAIN queues /\ p \notin woken' /\ "ready" # "report"
        /\ (In(p) \in DOMAIN queues => HeadOf(In(p)).device = address[p])
    BY <1>1, <1>2, Zenon DEF PortInv
  <2>2. HeadOf(Control(p))' = HeadOf(Control(p)) /\ (In(p) \in DOMAIN queues => HeadOf(In(p))' = HeadOf(In(p)))
    BY <1>6, <2>1, Zenon
  <2>3. task'[p] \notin {"connect", "header", "set_address", "device", "config", "hierarchy"}
    BY <1>8
  <2> QED
    BY <1>2, <1>8, <1>11, <2>1, <2>2, <2>3, Zenon DEF PortInv
<1>13. RequestInv(p)'
  BY <1>1, Zenon DEF RequestInv, Asked
<1>14. PortTypes' /\ HandlerInv'
  <2>1. registered' \in [Ports -> Int]
    BY <1>1 DEF PortTypes
  <2> QED
    BY <1>1, <1>2, <2>1 DEF PortTypes, HandlerInv
<1>15. AddressInv'
  <2>1. Checked(p)'
    BY <1>8 DEF Checked
  <2> QED
    BY <1>1, <1>2, <2>1, AddressKept, Zenon
<1> QED
  BY <1>9, <1>10, <1>12, <1>13, <1>14, <1>15, StepSuffices, Zenon DEF PortSound

\* What happens to the memory between two transfers that bring a device up.
LEMMA BetweenTransfers ==
    ASSUME EhciInv, NEW q \in DOMAIN queues, NEW r, NEW m,
           \/ r = "set_address" /\ m = set_address(memory, q, free + 1)
           \/ r = "config" /\ m = memory
           \/ r \in {"header", "device"} /\ m = drop(memory, {Buffer(q, r)})
    PROVE  /\ Local(q, memory, m) /\ QueueHead(q) \in DOMAIN m /\ m[QueueHead(q)] \in HeadSet
           /\ KeptLinks(q, memory, m)
           /\ m[QueueHead(q)].device = IF r = "set_address" THEN free + 1 ELSE HeadOf(q).device
<1> DEFINE o == QueueHead(q)
<1>1. o \in DOMAIN memory /\ memory[o] \in HeadSet /\ free \in Int /\ HeadOf(q) = memory[o]
  BY DEF EhciInv, HeadTypes, HeadOf, PortTypes
<1>2. o[2] = q /\ Buffer(q, r)[2] = q /\ o # Buffer(q, r)
  BY ObjectQueue, ObjectNames
<1>3. CASE r = "set_address"
  <2>1. PICK v : v = [memory[o] EXCEPT !.device = free + 1]
    BY Zenon
  <2>2. m = [memory EXCEPT ![o] = v]
    BY <1>3, <2>1 DEF set_address
  <2>3. v \in HeadSet /\ v.device = free + 1 /\ v.link = memory[o].link /\ v.reclaim = memory[o].reclaim
    BY <1>1, <2>1 DEF HeadSet
  <2> HIDE DEF o
  <2>4. Only({o}, memory, m) /\ o \in DOMAIN m /\ m[o] = v
    <3>1. PICK n : n = memory
      BY Zenon
    <3>2. m = [n EXCEPT ![o] = v] /\ o \in DOMAIN n
      BY <1>1, <2>2, <3>1
    <3>3. Only({o}, n, m) /\ o \in DOMAIN m /\ m[o] = v
      BY <3>2, ChangeOnly, Zenon
    <3> QED
      BY <3>1, <3>3, Zenon
  <2>5. Local(q, memory, m)
    BY <1>2, <2>4, Zenon DEF Only, Local
  <2> QED
    BY <1>3, <2>3, <2>4, <2>5, Zenon DEF KeptLinks, o
<1>4. CASE r = "config"
  <2>1. m = memory
    BY <1>4
  <2> QED
    BY <1>1, <1>4, <2>1 DEF Local, KeptLinks
<1>5. CASE r \in {"header", "device"}
  <2>1. m = drop(memory, {Buffer(q, r)})
    BY <1>5
  <2> HIDE DEF o
  <2>2. Only({Buffer(q, r)}, memory, m)
    BY <2>1, DropOnly, Zenon
  <2>3. o \in DOMAIN m /\ m[o] = memory[o]
    BY <1>1, <1>2, <2>2, Zenon DEF Only
  <2>4. Local(q, memory, m)
    BY <1>2, <2>2, Zenon DEF Only, Local
  <2> QED
    BY <1>1, <1>5, <2>3, <2>4, Zenon DEF KeptLinks, o
<1> QED
  BY <1>3, <1>4, <1>5

\* handle_device_connect goes on to the next transfer.
LEMMA BringUpKeeps ==
    ASSUME EhciInv, NEW p \in Ports, NEW q, q = Control(p), NEW r, r = task[p], NEW m,
           NEW t, t = Following[r],
           r \in {"header", "set_address", "device", "config"},
           p \in woken, adding = Nothing,
           \/ r = "set_address" /\ m = set_address(memory, q, free + 1)
           \/ r = "config" /\ m = memory
           \/ r \in {"header", "device"} /\ m = drop(memory, {Buffer(q, r)}),
           control_transfer(q, t, with_buffer(q, t, m)),
           task' = [task EXCEPT ![p] = t], woken' = woken \ {p},
           UNCHANGED <<schedule, adding, ring, free, address, inbox, sent, handler, registered>>
    PROVE  EhciInv'
<1>1. PortInv(p) /\ RequestInv(p) /\ PortTypes /\ RingInv /\ HeadTypes /\ HandlerInv /\ AddressInv
  BY Zenon DEF EhciInv, PortSound
<1>2. /\ r = "header" => t = "set_address"
      /\ r = "set_address" => t = "device"
      /\ r = "device" => t = "config"
      /\ r = "config" => t = "hierarchy"
  BY DEF Following
<1>3. /\ r \notin Absent /\ r \in Transfers /\ r \in BringUp /\ r \notin Served /\ r # "unchecked" /\ r # "report"
      /\ ~Checked(p)
  BY DEF Absent, Transfers, Steps, Answers, Served, BringUp, Checked
<1>4. /\ t \notin Absent /\ t \in Transfers /\ t \in BringUp /\ t \notin Served /\ t # "unchecked" /\ t # "report"
      /\ t \notin {"connect", "header"}
  BY <1>2 DEF Absent, Transfers, Steps, Answers, Served, BringUp
<1>5. q \in DOMAIN queues /\ In(p) \notin DOMAIN queues /\ Uses(p) = q /\ queues[q] = <<>> /\ HeadOf(q).next = Terminate
  BY <1>1, <1>3, Zenon DEF PortInv, Uses
<1>6. /\ Local(q, memory, m) /\ QueueHead(q) \in DOMAIN m /\ m[QueueHead(q)] \in HeadSet
      /\ KeptLinks(q, memory, m)
      /\ m[QueueHead(q)].device = IF r = "set_address" THEN free + 1 ELSE HeadOf(q).device
  BY <1>5, BetweenTransfers, ZenonT(30)
<1>7. Started(q, t, m)
  BY <1>1, <1>5, <1>6, ControlStarts, Zenon
<1>8. StartsAt(p, q, t, m)
  BY <1>4, <1>5, <1>6, <1>7, Zenon DEF StartsAt
<1>9. /\ StepOf(p, q) /\ \A k \in {Control(p), In(p)} : k \in DOMAIN queues' => QueueInv(k)'
      /\ HeadOf(q)'.device = m[QueueHead(q)].device /\ HeadOf(q)'.next # Terminate
  BY <1>4, <1>8, TransferAt, Zenon
<1>10. task'[p] = t /\ DOMAIN queues' = DOMAIN queues /\ p \notin woken'
  BY <1>1, <1>9, Zenon DEF PortTypes, StepOf
<1>11. PortInv(p)'
  <2>1. t = "set_address" => address[p] = 0 /\ HeadOf(q)'.device = 0
    BY <1>1, <1>2, <1>6, <1>9, Zenon DEF PortInv
  <2>2. t # "set_address" => address[p] = free + 1 /\ HeadOf(q)'.device = free + 1
    BY <1>1, <1>2, <1>5, <1>6, <1>9, Zenon DEF PortInv
  <2>3. registered[p] = -1
    BY <1>1, <1>3, Zenon DEF PortInv
  <2> QED
    BY <1>4, <1>5, <1>9, <1>10, <2>1, <2>2, <2>3, Zenon DEF PortInv
<1>12. RequestInv(p)'
  BY <1>1, <1>10, Zenon DEF RequestInv, Asked
<1>13. PortTypes' /\ HandlerInv'
  BY <1>1, <1>4 DEF PortTypes, HandlerInv
<1>14. AddressInv'
  BY <1>1, <1>3, <1>4, AddressKept, Zenon
<1> QED
  BY <1>9, <1>11, <1>12, <1>13, <1>14, StepSuffices, Zenon DEF PortSound

\* The interrupt task between two looks at a queue, and the kernel.
LEMMA UnrelatedKeeps ==
    ASSUME EhciInv, HandlerInv',
           UNCHANGED <<ring, memory, schedule, queues, adding, free, task, woken, inbox, sent, address,
                       registered>>
    PROVE  EhciInv'
<1>1. PortTypes' /\ HeadTypes' /\ AddressInv'
  BY Zenon DEF EhciInv, PortTypes, HeadTypes, HeadOf, AddressInv, Checked
<1>2. RingInv'
  <2>1. \A q \in DOMAIN queues : KeptLinks(q, memory, memory')
    BY Zenon DEF KeptLinks
  <2>2. RingInv /\ UNCHANGED <<schedule, adding, ring>> /\ DOMAIN queues' = DOMAIN queues /\ task' = task
    BY Zenon DEF EhciInv
  <2> QED
    BY <2>1, <2>2, RingKept, Zenon
<1>3. ASSUME NEW k \in Ports PROVE PortSound(k)'
  <2>1. KeptPort(k)
    BY Zenon DEF KeptPort, KeptQueue, KeptObjects
  <2>2. free' = free /\ free' \in 0 .. 127
    BY Zenon DEF EhciInv, PortTypes
  <2> QED
    BY <2>1, <2>2, PortKept, Zenon
<1> QED
  BY <1>1, <1>2, <1>3, Zenon DEF EhciInv

\* A request from the driver of a device keeps the invariant.
LEMMA SendRequestKeeps ==
    ASSUME EhciInv, NEW p \in Ports, SendRequest(p)
    PROVE  EhciInv'
<1> DEFINE q == Control(p)
<1>1. PortInv(p) /\ RequestInv(p) /\ PortTypes /\ RingInv /\ HeadTypes /\ HandlerInv /\ AddressInv
  BY Zenon DEF EhciInv, PortSound
<1>2. UNCHANGED <<ring, memory, schedule, queues, adding, free, task, woken, address, registered, handler>>
  BY Zenon DEF SendRequest
<1>3. q \in DOMAIN queues
  BY <1>1, Zenon DEF SendRequest, PortInv, Absent
<1>4. \A k \in Ports : k # p => inbox'[k] = inbox[k] /\ sent'[k] = sent[k]
  BY <1>1 DEF SendRequest, PortTypes
<1>5. StepOf(p, q)
  <2>1. Local(q, memory, memory') /\ KeptLinks(q, memory, memory')
        /\ QueueHead(q) \in DOMAIN memory' /\ memory'[QueueHead(q)] \in HeadSet
    BY <1>1, <1>2, <1>3, Zenon DEF Local, KeptLinks, HeadTypes, HeadOf
  <2> QED
    BY <1>2, <1>3, <1>4, <2>1, Zenon DEF StepOf
<1>6. \A k \in {Control(p), In(p)} : k \in DOMAIN queues' => QueueInv(k)'
  <2> SUFFICES ASSUME NEW k \in DOMAIN queues PROVE QueueInv(k)'
    BY <1>2, Zenon
  <2>1. QueueInv(k)
    BY QueueSound, Zenon
  <2> QED
    BY <1>2, <2>1, Zenon DEF QueueInv, Working, Uses, Pending, HeadOf, Held
<1>7. PortInv(p)'
  BY <1>1, <1>2, Zenon DEF PortInv, HeadOf, Uses
<1>8. PICK n \in Nat : n = sent[p]
  BY <1>1 DEF PortTypes
<1>9. inbox[p] = "none" /\ n + 1 \in 1 .. Len(Requests(p)) /\ Asked(p) = n
      /\ inbox'[p] = Requests(p)[n + 1] /\ sent'[p] = n + 1
  <2>1. Len(Requests(p)) \in Nat
    BY EhciAssumption, Zenon
  <2> QED
    BY <1>1, <1>8, <2>1 DEF SendRequest, PortTypes, Asked
<1>10. Requests(p)[n + 1] \in {"configuration", "interface", "descriptor", "endpoint", "report"}
  <2>1. n + 1 \in DOMAIN Requests(p)
    BY <1>9, EhciAssumption, Zenon
  <2> QED
    BY <2>1, EhciAssumption, Zenon
<1>11. RequestInv(p)'
  <2>1. Asked(p)' = n
    BY <1>8, <1>9, <1>10 DEF Asked
  <2>2. n + 1 =< Len(Requests(p)) /\ n + 1 >= 1
    BY <1>8, <1>9
  <2>3. In(p) \in DOMAIN queues <=> (\E i \in 1 .. n : Requests(p)[i] = "endpoint")
    BY <1>1, <1>9, Zenon DEF RequestInv
  <2> QED
    BY <1>2, <1>9, <2>1, <2>2, <2>3, Zenon DEF RequestInv
<1>12. PortTypes' /\ HandlerInv'
  <2>1. PICK x, y : x = inbox'[p] /\ y = sent'[p]
    BY Zenon
  <2>2. inbox' = [inbox EXCEPT ![p] = x] /\ sent' = [sent EXCEPT ![p] = y]
    BY <1>1, <1>8, <1>9, <2>1 DEF SendRequest, PortTypes
  <2>3. x \in {"none", "endpoint"} \cup Answers /\ y \in Nat
    BY <1>8, <1>9, <1>10, <2>1 DEF Answers
  <2>4. inbox' \in [Ports -> {"none", "endpoint"} \cup Answers] /\ sent' \in [Ports -> Nat]
    BY <1>1, <2>2, <2>3 DEF PortTypes
  <2> QED
    BY <1>1, <1>2, <2>4, Zenon DEF PortTypes, HandlerInv
<1>13. AddressInv'
  BY <1>1, <1>2, Zenon DEF AddressInv, Checked
<1> QED
  BY <1>5, <1>6, <1>7, <1>11, <1>12, <1>13, StepSuffices, Zenon DEF PortSound

\* The executor goes on with a future whose transfer has completed.
LEMMA ResumeKeeps ==
    ASSUME EhciInv, NEW p \in Ports, Resume(p)
    PROVE  EhciInv'
<1>1. /\ p \in woken /\ adding = Nothing /\ woken' = woken \ {p}
      /\ UNCHANGED <<schedule, adding, ring, free, address, inbox, sent, handler>>
  BY Zenon DEF Resume, Idle
<1>2. PICK r, q : r = task[p] /\ q = Control(p)
  OBVIOUS
<1>3. CASE Connecting(p) /\ r = "hierarchy"
  <2>1. /\ memory' = drop(memory, {Buffer(q, "hierarchy"), Buffer(q, "config")})
        /\ registered' = [registered EXCEPT ![p] = free + 1]
        /\ task' = [task EXCEPT ![p] = "ready"] /\ UNCHANGED queues
    BY <1>2, <1>3 DEF Connecting, create_device
  <2>2. q = Uses(p)
    BY <1>2, <1>3 DEF Uses
  <2>3. PICK X : memory' = drop(memory, X) /\ \A o \in X : \E s : o = Buffer(q, s)
    <3>1. PICK X : X = {Buffer(q, "hierarchy"), Buffer(q, "config")}
      BY Zenon
    <3>2. \A o \in X : \E s : o = Buffer(q, s)
      BY <3>1, Zenon
    <3>3. memory' = drop(memory, X)
      BY <2>1, <3>1, Zenon
    <3> QED
      BY <3>2, <3>3, Zenon
  <2>4. task[p] = "hierarchy"
    BY <1>2, <1>3
  <2> QED
    BY <1>1, <2>1, <2>2, <2>3, <2>4, ReadyKeeps, Zenon
<1>4. CASE Connecting(p) /\ r # "hierarchy"
  <2>1. PICK t : t = Following[r]
    OBVIOUS
  <2>2. r \in {"header", "set_address", "device", "config"}
    BY <1>2, <1>4 DEF Connecting, Following
  <2>3. PICK m : /\ m = CASE r = "set_address" -> set_address(memory, q, free + 1)
                       [] r = "config" -> memory
                       [] r = "hierarchy" -> drop(memory, {Buffer(q, r), Buffer(q, "config")})
                       [] OTHER -> drop(memory, {Buffer(q, r)})
                 /\ do_control_transfer(p, t, m)
    BY <1>2, <1>4, <2>1, <2>2 DEF Connecting
  <2>4. \/ r = "set_address" /\ m = set_address(memory, q, free + 1)
        \/ r = "config" /\ m = memory
        \/ r \in {"header", "device"} /\ m = drop(memory, {Buffer(q, r)})
    BY <2>2, <2>3
  <2>5. control_transfer(q, t, with_buffer(q, t, m)) /\ task' = [task EXCEPT ![p] = t]
    BY <1>2, <2>3 DEF do_control_transfer
  <2>6. UNCHANGED registered
    BY <1>2, <1>4 DEF Connecting
  <2> QED
    BY <1>1, <1>2, <2>1, <2>2, <2>4, <2>5, <2>6, BringUpKeeps, Zenon
<1>5. CASE Responding(p)
  <2>1. PICK k : k = IF r = "report" THEN In(p) ELSE Control(p)
    OBVIOUS
  <2>2. /\ r \in Answers /\ memory' = drop(memory, {Buffer(k, r)})
        /\ task' = [task EXCEPT ![p] = "ready"] /\ UNCHANGED <<queues, registered>>
    BY <1>2, <1>5, <2>1 DEF Responding, Answers
  <2>3. k = Uses(p)
    BY <1>2, <2>1 DEF Uses
  <2>4. PICK X : memory' = drop(memory, X) /\ \A o \in X : \E s : o = Buffer(k, s)
    <3>1. PICK X : X = {Buffer(k, r)}
      BY Zenon
    <3>2. \A o \in X : \E s : o = Buffer(k, s)
      BY <3>1, Zenon
    <3>3. memory' = drop(memory, X)
      BY <2>2, <3>1, Zenon
    <3> QED
      BY <3>2, <3>3, Zenon
  <2>5. task[p] \in Answers
    BY <1>2, <2>2
  <2> QED
    BY <1>1, <2>2, <2>3, <2>4, <2>5, ReadyKeeps, Zenon
<1> QED
  BY <1>3, <1>4, <1>5 DEF Resume

\* A step at the queue whose transfer a port's future waits for.
LEMMA AtQueueKeeps ==
    ASSUME EhciInv, NEW p \in Ports, NEW q, StepOf(p, q), q = Uses(p), task[p] \in Transfers,
           UNCHANGED <<task, registered, inbox, sent>>, HandlerInv', AddressInv', QueueInv(q)',
           HeadOf(q)'.device = HeadOf(q).device,
           \/ /\ address' = address
              /\ task[p] = "set_address" => (HeadOf(q)'.next = Terminate <=> HeadOf(q).next = Terminate)
           \/ /\ task[p] = "set_address" /\ address' = [address EXCEPT ![p] = free + 1]
              /\ HeadOf(q)'.next = Terminate,
           p \in woken' => queues'[q] = <<>> /\ HeadOf(q)'.next = Terminate
    PROVE  EhciInv'
<1>1. PortInv(p) /\ RequestInv(p) /\ PortTypes
  BY Zenon DEF EhciInv, PortSound
<1>2. \A k : k # q => KeptQueue(k)
  BY StepKeeps, Zenon
<1>3. q \in DOMAIN queues /\ DOMAIN queues' = DOMAIN queues /\ free' = free /\ q \in {Control(p), In(p)}
  BY Zenon DEF StepOf
<1>4. ASSUME NEW k \in {Control(p), In(p)}, k \in DOMAIN queues', k # q PROVE QueueInv(k)'
  <2>1. queues[k] = <<>> /\ ~Working(k) /\ QueueHead(k) \in DOMAIN memory
    BY <1>3, <1>4, QueueIdle, Zenon DEF EhciInv, HeadTypes
  <2>2. KeptQueue(k) /\ k \in DOMAIN queues
    BY <1>2, <1>3, <1>4, Zenon
  <2> QED
    BY <2>1, <2>2, Zenon DEF KeptQueue, KeptObjects, QueueInv, Working
<1>5. ASSUME NEW k \in DOMAIN queues PROVE HeadOf(k)'.device = HeadOf(k).device
  <2>1. k # q => KeptQueue(k) /\ QueueHead(k) \in DOMAIN memory
    BY <1>2, Zenon DEF EhciInv, HeadTypes
  <2> QED
    BY <2>1, Zenon DEF KeptQueue, KeptObjects, HeadOf
<1>6. task[p] \notin Absent /\ task[p] # "connect" /\ (task[p] = "set_address" => q = Control(p))
      /\ (task[p] = "set_address" => task[p] \notin Served)
  BY Zenon DEF Absent, Transfers, Steps, Answers, Uses, Served
<1>7. Control(p) \in DOMAIN queues
  BY <1>1, <1>6, Zenon DEF PortInv
<1>8. task[p] # "set_address" => address'[p] = address[p]
  BY Zenon
<1>9. task[p] = "set_address" =>
        /\ HeadOf(Control(p))'.device = 0
        /\ address'[p] = IF HeadOf(Control(p))'.next = Terminate THEN free + 1 ELSE 0
  BY <1>1, <1>5, <1>6, <1>7, Zenon DEF PortInv, PortTypes
<1>10. Uses(p)' = q
  BY Zenon DEF Uses, Control, In
<1>11. PortInv(p)'
  <2>1. /\ Control(p) \in DOMAIN queues' <=> task'[p] \notin Absent
        /\ In(p) \in DOMAIN queues' => task'[p] \in Served /\ HeadOf(In(p))'.device = address'[p]
        /\ task'[p] = "report" => In(p) \in DOMAIN queues'
    BY <1>1, <1>3, <1>5, <1>6, <1>8, Zenon DEF PortInv
  <2>2. (p \in woken => /\ task[p] \in Transfers /\ queues[Uses(p)] = <<>>
                        /\ HeadOf(Uses(p)).next = Terminate)'
    BY <1>10, Zenon DEF HeadOf
  <2>3. /\ task'[p] \in Absent => address'[p] = -1
        /\ task'[p] \in {"connect", "header"} => address'[p] = 0 /\ HeadOf(Control(p))'.device = 0
        /\ task'[p] \in {"device", "config", "hierarchy"} =>
             address'[p] = free' + 1 /\ HeadOf(Control(p))'.device = free' + 1
    BY <1>1, <1>3, <1>5, <1>6, <1>7, <1>8, Zenon DEF PortInv
  <2>4. /\ task'[p] \in Served =>
             address'[p] > free' /\ HeadOf(Control(p))'.device = address'[p] /\ registered'[p] = address'[p]
        /\ registered'[p] # -1 => task'[p] \in Served
    BY <1>1, <1>3, <1>5, <1>6, <1>7, <1>8, Zenon DEF PortInv
  <2> QED
    BY <1>3, <1>9, <2>1, <2>2, <2>3, <2>4, Zenon DEF PortInv
<1>12. RequestInv(p)'
  BY <1>1, <1>3, Zenon DEF RequestInv, Asked
<1>13. PortTypes'
  <2>1. address' \in [Ports -> Int] /\ free' \in 0 .. 127
    <3>1. address \in [Ports -> Int] /\ free \in 0 .. 127 /\ free + 1 \in Int
      BY <1>1 DEF PortTypes
    <3>2. address' = address \/ address' = [address EXCEPT ![p] = free + 1]
      BY Zenon
    <3> QED
      BY <1>3, <3>1, <3>2, Zenon
  <2> QED
    BY <1>1, <2>1, Zenon DEF PortTypes
<1> QED
  BY <1>4, <1>11, <1>12, <1>13, StepSuffices, Zenon DEF PortSound

\* Dropping a transaction takes its descriptors and leaves the queue head.
LEMMA DropTransaction ==
    ASSUME NEW m, NEW q, NEW r, NEW n, n = drop_transaction(m, q, r)
    PROVE  /\ Local(q, m, n)
           /\ QueueHead(q) \in DOMAIN m => QueueHead(q) \in DOMAIN n /\ n[QueueHead(q)] = m[QueueHead(q)]
<1> DEFINE X == {Setup(q, r), Descriptors(q, r)}
           b == Buffer(q, r)
<1>1. PICK d : d = drop(m, X)
  BY Zenon
<1>2. Only(X, m, d)
  BY <1>1, DropOnly, Zenon
<1>3. n = IF b \in DOMAIN d THEN [d EXCEPT ![b] = "free"] ELSE d
  BY <1>1, Zenon DEF drop_transaction, release
<1> HIDE DEF b, X
<1>4. Only({b}, d, n)
  <2>1. CASE b \in DOMAIN d
    BY <1>3, <2>1, ChangeOnly, ZenonT(30)
  <2>2. CASE b \notin DOMAIN d
    <3>1. n = d
      BY <1>3, <2>2, Zenon
    <3> QED
      BY <3>1, Zenon DEF Only
  <2> QED
    BY <2>1, <2>2
<1>5. Only(X \cup {b}, m, n)
  BY <1>2, <1>4, OnlyBoth, Zenon
<1>6. \A o \in X \cup {b} : o[2] = q /\ o # QueueHead(q)
  <2>1. /\ Setup(q, r)[2] = q /\ Descriptors(q, r)[2] = q /\ b[2] = q
        /\ Setup(q, r) # QueueHead(q) /\ Descriptors(q, r) # QueueHead(q) /\ b # QueueHead(q)
    BY ObjectQueue, ObjectNames, Zenon DEF b
  <2> QED
    BY <2>1, Zenon DEF X
<1>7. Local(q, m, n)
  BY <1>5, <1>6, OnlyLocal, Zenon
<1> QED
  BY <1>5, <1>6, <1>7, Zenon DEF Only

\* The driver is through with a transfer: its queue is empty again.
LEMMA PoppedKeeps ==
    ASSUME EhciInv, NEW p \in Ports, NEW q \in DOMAIN queues, q = Uses(p), task[p] \in Transfers,
           NEW r, memory' = drop_transaction(memory, q, r), queues' = [queues EXCEPT ![q] = <<>>],
           ~Working(q),
           \/ woken' = woken /\ p \notin woken
           \/ woken' = woken \cup {p} /\ HeadOf(q).next = Terminate,
           UNCHANGED <<ring, address, schedule, adding, free, task, inbox, sent, registered>>, HandlerInv'
    PROVE  EhciInv'
<1>1. QueueHead(q) \in DOMAIN memory /\ HeadOf(q) \in HeadSet
  BY Zenon DEF EhciInv, HeadTypes
<1>2. Local(q, memory, memory') /\ QueueHead(q) \in DOMAIN memory' /\ HeadOf(q)' = HeadOf(q)
  <2>1. PICK n : n = memory'
    BY Zenon
  <2>2. /\ Local(q, memory, n)
        /\ QueueHead(q) \in DOMAIN memory =>
             QueueHead(q) \in DOMAIN n /\ n[QueueHead(q)] = memory[QueueHead(q)]
    BY <2>1, DropTransaction
  <2> QED
    BY <1>1, <2>1, <2>2, Zenon DEF HeadOf
<1>3. /\ DOMAIN queues' = DOMAIN queues /\ queues'[q] = <<>>
      /\ \A k \in DOMAIN queues : k # q => queues'[k] = queues[k]
  OBVIOUS
<1>4. StepOf(p, q)
  <2>1. q \in {Control(p), In(p)}
    BY Zenon DEF Uses
  <2>2. \A k \in Ports : k # p => (k \in woken' <=> k \in woken)
    BY Zenon
  <2>3. KeptLinks(q, memory, memory') /\ memory'[QueueHead(q)] \in HeadSet
    BY <1>1, <1>2, Zenon DEF KeptLinks, HeadOf
  <2> QED
    BY <1>2, <1>3, <2>1, <2>2, <2>3, Zenon DEF StepOf
<1>5. QueueInv(q)'
  BY <1>2, <1>3, Zenon DEF QueueInv, Working, HeadOf
<1>6. AddressInv'
  BY Zenon DEF EhciInv, AddressInv, Checked
<1>7. p \in woken' => queues'[q] = <<>> /\ HeadOf(q)'.next = Terminate
  BY <1>2, <1>3, Zenon
<1> QED
  BY <1>2, <1>4, <1>5, <1>6, <1>7, AtQueueKeeps, Zenon

\* The driver has seen another descriptor done.
LEMMA CountedKeeps ==
    ASSUME EhciInv, NEW p \in Ports, NEW q \in DOMAIN queues, q = Uses(p), task[p] \in Transfers,
           p \notin woken, Pending(q, task[p]),
           NEW c \in Nat, queues[q] = <<[request |-> task[p], complete |-> c]>>,
           c # Len(memory[Descriptors(q, task[p])]), memory[Descriptors(q, task[p])][c + 1] = "done",
           queues' = [queues EXCEPT ![q][1].complete = @ + 1],
           UNCHANGED <<memory, woken, handler, ring, address, schedule, adding, free, task, inbox, sent,
                       registered>>
    PROVE  EhciInv'
<1>1. QueueHead(q) \in DOMAIN memory /\ HeadOf(q) \in HeadSet /\ HandlerInv /\ AddressInv
  BY Zenon DEF EhciInv, HeadTypes
<1>2. PICK r, tds : r = task[p] /\ tds = memory[Descriptors(q, task[p])]
  BY Zenon
<1>3. PICK list : list = [queues[q] EXCEPT ![1].complete = @ + 1]
  BY Zenon
<1>4. list = <<[request |-> r, complete |-> c + 1]>>
  BY <1>2, <1>3
<1>5. queues' = [queues EXCEPT ![q] = list]
  BY <1>3
<1>6. /\ DOMAIN queues' = DOMAIN queues /\ queues'[q] = list
      /\ \A k \in DOMAIN queues : k # q => queues'[k] = queues[k]
  BY <1>5
<1>7. StepOf(p, q)
  <2>1. q \in {Control(p), In(p)}
    BY Zenon DEF Uses
  <2>2. KeptLinks(q, memory, memory') /\ memory'[QueueHead(q)] \in HeadSet /\ Local(q, memory, memory')
    BY <1>1, Zenon DEF KeptLinks, HeadOf, Local
  <2> QED
    BY <1>1, <1>6, <2>1, <2>2, Zenon DEF StepOf
<1>8. UnderWay(list, tds, HeadOf(q), r)
  <2>1. UnderWay(queues[q], tds, HeadOf(q), r)
    BY <1>2, Zenon DEF Pending
  <2>2. PICK d \in 0 .. Len(tds) : /\ queues[q] = <<[request |-> r, complete |-> d]>>
                                   /\ \A i \in 1 .. d : tds[i] = "done"
    BY <2>1, Zenon DEF UnderWay
  <2>3. d = c
    BY <1>2, <2>2
  <2>4. Len(tds) \in Nat
    BY <2>1 DEF UnderWay
  <2>5. c + 1 \in 0 .. Len(tds) /\ \A i \in 1 .. c + 1 : tds[i] = "done"
    BY <1>2, <2>2, <2>3, <2>4
  <2> QED
    BY <1>4, <2>1, <2>5, Zenon DEF UnderWay
<1>9. QueueInv(q)'
  <2>1. Pending(q, task[p])'
    BY <1>2, <1>6, <1>8, Zenon DEF Pending, HeadOf, Held
  <2>2. q[1] = p /\ Uses(p)' = q
    BY QueueNames, Zenon DEF Uses
  <2> QED
    BY <2>1, <2>2, Zenon DEF QueueInv
<1>10. AddressInv' /\ HandlerInv'
  BY <1>1, Zenon DEF AddressInv, Checked, HandlerInv
<1> QED
  BY <1>7, <1>9, <1>10, AtQueueKeeps, Zenon DEF HeadOf

\* Going on to the next queue keeps the handler's part of the invariant.
LEMMA NextQueueKeeps ==
    ASSUME HandlerInv, NextQueue
    PROVE  HandlerInv'
  BY DEF HandlerInv, NextQueue

\* Looking at a queue for descriptors that are done keeps the invariant.
LEMMA CheckProgressKeeps ==
    ASSUME EhciInv, check_progress
    PROVE  EhciInv'
<1>1. HandlerInv /\ RingInv
  BY Zenon DEF EhciInv
<1>2. PICK q : q = schedule[handler.queue]
  BY Zenon
<1>3. q \in DOMAIN queues
  <2>1. handler.queue \in DOMAIN schedule
    <3>1. handler.at = "check" /\ handler.queue <= Len(schedule)
      BY Zenon DEF check_progress
    <3>2. handler.queue \in Nat /\ handler.queue >= 1 /\ schedule \in Seq(Queues)
      BY <1>1, <3>1 DEF HandlerInv, RingInv
    <3> QED
      BY <3>1, <3>2
  <2>2. handler.queue \in DOMAIN Order /\ Order[handler.queue] = q
    BY <1>1, <1>2, <2>1 DEF RingInv, Order
  <2> QED
    BY <1>1, <2>2 DEF RingInv
<1>4. UNCHANGED <<ring, address, schedule, adding, free, task, inbox, sent, registered>>
  BY Zenon DEF check_progress, unhandled
<1>5. CASE queues[q] = <<>>
  <2>1. NextQueue /\ UNCHANGED <<memory, queues, woken>>
    BY <1>2, <1>5 DEF check_progress
  <2> QED
    BY <1>1, <1>4, <2>1, NextQueueKeeps, UnrelatedKeeps, Zenon
<1>6. CASE queues[q] # <<>>
  <2>1. PICK p : p = q[1]
    BY Zenon
  <2>2. /\ p \in Ports /\ task[p] \in Transfers /\ q = Uses(p) /\ p \notin woken /\ Pending(q, task[p])
    BY <1>1, <1>3, <1>6, <2>1, QueueSound, QueueOfPort, Zenon DEF QueueInv
  <2>3. PICK r, tds, head : r = task[p] /\ tds = memory[Descriptors(q, r)] /\ head = HeadOf(q)
    BY Zenon
  <2>4. UnderWay(queues[q], tds, head, r)
    BY <2>2, <2>3, Zenon DEF Pending
  <2>5. PICK c \in 0 .. Len(tds) : /\ queues[q] = <<[request |-> r, complete |-> c]>>
                                   /\ \A i \in 1 .. c : tds[i] = "done"
    BY <2>4, Zenon DEF UnderWay
  <2>6. PICK t : t = Head(queues[q])
    BY Zenon
  <2>7. t.request = r /\ t.complete = c /\ Tail(queues[q]) = <<>> /\ c \in Nat /\ Len(tds) \in Nat
    BY <2>4, <2>5, <2>6 DEF UnderWay
  <2>8. PICK m : m = drop_transaction(memory, q, r)
    BY Zenon
  <2>9. \/ /\ c = Len(tds) /\ queues' = [queues EXCEPT ![q] = <<>>] /\ woken' = woken \cup {p}
           /\ memory' = m /\ NextQueue
        \/ /\ c # Len(tds) /\ tds[c + 1] = "done"
           /\ queues' = [queues EXCEPT ![q][1].complete = @ + 1] /\ UNCHANGED <<memory, woken, handler>>
        \/ NextQueue /\ UNCHANGED <<memory, queues, woken>>
        \/ /\ c # Len(tds) /\ tds[c + 1] = "halted" /\ queues' = [queues EXCEPT ![q] = <<>>]
           /\ memory' = m /\ NextQueue /\ UNCHANGED woken
    <3>1. \/ /\ all_complete(t, tds) /\ queues' = [queues EXCEPT ![q] = Tail(queues[q])]
             /\ woken' = woken \cup {q[1]}
             /\ memory' = IF Tail(queues[q]) = <<>> THEN drop_transaction(memory, q, t.request)
                          ELSE set_next_td(drop_transaction(memory, q, t.request), q,
                                           Head(Tail(queues[q])).request)
             /\ NextQueue
          \/ /\ ~all_complete(t, tds) /\ tds[t.complete + 1] = "done"
             /\ queues' = [queues EXCEPT ![q][1].complete = @ + 1]
             /\ UNCHANGED <<memory, woken, handler>>
          \/ /\ ~all_complete(t, tds) /\ tds[t.complete + 1] = "active"
             /\ NextQueue /\ UNCHANGED <<memory, queues, woken>>
          \/ /\ ~all_complete(t, tds) /\ tds[t.complete + 1] = "halted"
             /\ queues' = [queues EXCEPT ![q] = Tail(queues[q])]
             /\ memory' = drop_transaction(memory, q, t.request)
             /\ NextQueue /\ UNCHANGED woken
      BY <1>2, <1>6, <2>3, <2>6, <2>7, Zenon DEF check_progress
    <3> QED
      BY <2>1, <2>7, <2>8, <3>1, Zenon DEF all_complete
  <2>10. CASE /\ c = Len(tds) /\ queues' = [queues EXCEPT ![q] = <<>>] /\ woken' = woken \cup {p}
              /\ memory' = m /\ NextQueue
    <3>1. head.next = Terminate
      <4>1. SUFFICES ASSUME head.next # Terminate PROVE FALSE
        OBVIOUS
      <4>2. head.next[2] \in 1 .. Len(tds) /\ \A i \in head.next[2] .. Len(tds) : tds[i] # "done"
        BY <2>4, <4>1, Zenon DEF UnderWay
      <4> QED
        BY <2>5, <2>7, <2>10, <4>2
    <3>2. ~Working(q) /\ HeadOf(q).next = Terminate
      BY <2>3, <3>1, Zenon DEF Working, HeadOf
    <3> QED
      BY <1>1, <1>3, <1>4, <2>2, <2>8, <2>10, <3>2, NextQueueKeeps, PoppedKeeps, Zenon
  <2>11. CASE /\ c # Len(tds) /\ tds[c + 1] = "done"
              /\ queues' = [queues EXCEPT ![q][1].complete = @ + 1] /\ UNCHANGED <<memory, woken, handler>>
    BY <1>3, <1>4, <2>2, <2>3, <2>5, <2>7, <2>11, CountedKeeps, Zenon
  <2>12. CASE NextQueue /\ UNCHANGED <<memory, queues, woken>>
    BY <1>1, <1>4, <2>12, NextQueueKeeps, UnrelatedKeeps, Zenon
  <2>13. CASE /\ c # Len(tds) /\ tds[c + 1] = "halted" /\ queues' = [queues EXCEPT ![q] = <<>>]
              /\ memory' = m /\ NextQueue /\ UNCHANGED woken
    <3>1. c + 1 \in 1 .. Len(tds)
      BY <2>5, <2>7, <2>13
    <3>2. head.halted
      BY <2>4, <2>13, <3>1, Zenon DEF UnderWay
    <3>3. ~Working(q)
      BY <2>3, <3>2, Zenon DEF Working, HeadOf
    <3> QED
      BY <1>1, <1>3, <1>4, <2>2, <2>8, <2>13, <3>3, NextQueueKeeps, PoppedKeeps, Zenon
  <2> QED
    BY <2>9, <2>10, <2>11, <2>12, <2>13, Zenon
<1> QED
  BY <1>5, <1>6

\* The steps of the interrupt task that read or clear the registers.
LEMMA HandlerKeeps ==
    ASSUME EhciInv, ReadStatus \/ ClearStatus \/ Ack \/ AllChecked \/ DeliverInterrupt
    PROVE  EhciInv'
<1>1. UNCHANGED <<ring, memory, schedule, queues, adding, free, task, woken, inbox, sent, address, registered>>
  BY Zenon DEF ReadStatus, ClearStatus, Ack, AllChecked, DeliverInterrupt, unhandled, software
<1>2. HandlerInv
  BY Zenon DEF EhciInv
<1>3. HandlerInv'
  <2>1. CASE ReadStatus
    BY <2>1 DEF ReadStatus, HandlerInv
  <2>2. CASE ClearStatus
    BY <1>2, <2>2 DEF ClearStatus, HandlerInv
  <2>3. CASE Ack
    BY <1>2, <2>3 DEF Ack, HandlerInv
  <2>4. CASE AllChecked
    <3>1. HandlerStep("check") = "wait"
      BY DEF HandlerStep
    <3> QED
      BY <1>2, <2>4, <3>1 DEF AllChecked, HandlerInv
  <2>5. CASE DeliverInterrupt
    BY <1>2, <2>5, Zenon DEF DeliverInterrupt, software, HandlerInv
  <2> QED
    BY <2>1, <2>2, <2>3, <2>4, <2>5
<1> QED
  BY <1>1, <1>3, UnrelatedKeeps, Zenon

\* Addresses stay apart when a device takes the one that was reserved for it.
LEMMA AddressTaken ==
    ASSUME AddressInv, PortTypes, NEW p \in Ports, task[p] = "set_address",
           address' = [address EXCEPT ![p] = free + 1], UNCHANGED <<task, free>>
    PROVE  AddressInv'
<1>1. task[p] \in BringUp /\ ~Checked(p)
  BY DEF BringUp, Steps, Checked
<1>2. ASSUME NEW k \in Ports, k # p PROVE task[k] \notin BringUp
  <2>1. CASE k < p
    <3>1. Checked(k)
      BY <1>1, <2>1 DEF AddressInv
    <3> QED
      BY <3>1 DEF Checked, BringUp, Steps
  <2>2. CASE p < k
    <3>1. task[k] = "unchecked"
      BY <1>1, <2>2 DEF AddressInv
    <3> QED
      BY <3>1 DEF BringUp, Steps
  <2> QED
    BY <1>2, <2>1, <2>2 DEF Ports
<1>3. address'[p] = free + 1 /\ free \in Nat /\ \A k \in Ports : k # p => address'[k] = address[k] /\ address[k] \in Int
  BY DEF PortTypes
<1>4. \A k \in Ports : k # p => address[k] = -1 \/ address[k] > free + 1
  BY <1>1 DEF AddressInv
<1>5. \A k, q \in Ports : k # q /\ task'[k] \in BringUp => address'[q] = -1 \/ address'[q] > free' + 1
  BY <1>2, <1>3, <1>4
<1>6. \A k, q \in Ports : k # q /\ address'[k] = address'[q] => address'[k] = -1
  BY <1>3, <1>4 DEF AddressInv
<1>7. /\ \A k, q \in Ports : k < q /\ ~Checked(k)' => task'[q] = "unchecked"
      /\ \A k \in Ports : task'[k] = "unchecked" => free' >= 128 - k
  BY Zenon DEF AddressInv, Checked
<1> QED
  BY <1>5, <1>6, <1>7, Zenon DEF AddressInv

\* The controller marks the descriptor its head is at and moves on, or halts the queue.
Advances(tds, u, r, head, new) ==
    \E mark \in {"done", "halted"} :
        LET i == head.next[2]
        IN /\ u = [tds EXCEPT ![i] = mark]
           /\ \/ /\ mark = "done" /\ new.halted = head.halted
                 /\ new.next = IF i < Len(tds) THEN <<r, i + 1>> ELSE Terminate
              \/ mark = "halted" /\ new.halted /\ new.next = head.next

\* A transfer is still under way when the controller is through with the
\* descriptor it was at, with success or with an error.
LEMMA DescriptorMarked ==
    ASSUME NEW list, NEW tds, NEW head, NEW r, NEW u, NEW new,
           UnderWay(list, tds, head, r), head.next # Terminate, Advances(tds, u, r, head, new)
    PROVE  UnderWay(list, u, new, r)
<1>0. PICK mark, i :
        /\ mark \in {"done", "halted"} /\ i = head.next[2] /\ u = [tds EXCEPT ![i] = mark]
        /\ \/ /\ mark = "done" /\ new.halted = head.halted
              /\ new.next = IF i < Len(tds) THEN <<r, i + 1>> ELSE Terminate
           \/ mark = "halted" /\ new.halted /\ new.next = head.next
  BY Zenon DEF Advances
<1>1. /\ tds \in Seq({"active", "done", "halted"}) /\ tds # <<>>
      /\ head.next[1] = r /\ i \in 1 .. Len(tds) /\ \A j \in i .. Len(tds) : tds[j] # "done"
      /\ \A j \in 1 .. Len(tds) : tds[j] = "halted" => head.halted
  BY <1>0, Zenon DEF UnderWay
<1>2. PICK c \in 0 .. Len(tds) : list = <<[request |-> r, complete |-> c]>> /\ \A j \in 1 .. c : tds[j] = "done"
  BY Zenon DEF UnderWay
<1>3. Len(tds) \in Nat /\ Len(tds) >= 1 /\ i \in Nat
  BY <1>1
<1>4. u \in Seq({"active", "done", "halted"}) /\ Len(u) = Len(tds) /\ u # <<>>
  BY <1>0, <1>1, <1>3
<1>5. u[i] = mark /\ \A j \in 1 .. Len(tds) : j # i => u[j] = tds[j]
  BY <1>0, <1>1, <1>3
<1>6. c < i
  BY <1>1, <1>2, <1>3
<1>7. \A j \in 1 .. c : u[j] = "done"
  BY <1>2, <1>3, <1>5, <1>6
<1>8. \A j \in 1 .. Len(u) : u[j] = "halted" => new.halted
  BY <1>0, <1>1, <1>4, <1>5
<1>9. new.next # Terminate =>
        /\ new.next[1] = r /\ new.next[2] \in 1 .. Len(u)
        /\ \A j \in new.next[2] .. Len(u) : u[j] # "done"
  <2>1. CASE mark = "done" /\ i < Len(tds)
    <3>1. new.next[1] = r /\ new.next[2] = i + 1
      BY <1>0, <2>1
    <3> QED
      BY <1>1, <1>3, <1>4, <1>5, <2>1, <3>1
  <2>2. CASE mark = "done" /\ ~(i < Len(tds))
    BY <1>0, <2>2
  <2>3. CASE mark = "halted"
    <3>1. new.next = head.next
      BY <1>0, <2>3
    <3>2. new.next[1] = r /\ new.next[2] = i
      BY <1>0, <1>1, <3>1, Zenon
    <3> QED
      BY <1>1, <1>3, <1>4, <1>5, <2>3, <3>2
  <2> QED
    BY <1>0, <2>1, <2>2, <2>3
<1>10. c \in 0 .. Len(u)
  BY <1>4
<1> QED
  BY <1>2, <1>4, <1>7, <1>8, <1>9, <1>10, Zenon DEF UnderWay

\* Two objects that change, the descriptors of a transfer and the head of its queue.
Marked(q, r, m, n, u, v) ==
    /\ DOMAIN n = DOMAIN m /\ n[Descriptors(q, r)] = u /\ n[QueueHead(q)] = v
    /\ \A o \in DOMAIN m : o # Descriptors(q, r) /\ o # QueueHead(q) => n[o] = m[o]

\* The controller and a device.
LEMMA ExecuteKeeps ==
    ASSUME EhciInv, NEW q, Execute(q)
    PROVE  EhciInv'
<1>1. q \in InRing /\ Working(q)
  BY Zenon DEF Execute
<1>2. PICK p : p = q[1]
  BY Zenon
<1>3. /\ q \in DOMAIN queues /\ p \in Ports /\ q = Uses(p) /\ p \notin woken
      /\ task[p] \in Transfers /\ Pending(q, task[p])
  BY <1>1, <1>2, WorkingQueue, Zenon
<1>4. PICK head, i, D, tds, r : /\ head = memory[QueueHead(q)] /\ i = head.next[2]
                               /\ r = head.next[1]
                               /\ D = Descriptors(q, r) /\ tds = memory[D]
  BY Zenon
<1>5. head.next # Terminate /\ r = task[p] /\ D \in DOMAIN memory /\ UnderWay(queues[q], tds, head, r)
      /\ (HasData(r) => Buffer(q, r) \in DOMAIN memory /\ memory[Buffer(q, r)] = "token held")
  <2>1. head.next # Terminate /\ head = HeadOf(q)
    BY <1>1, <1>4, Zenon DEF Working, HeadOf
  <2>2. head.next[1] = task[p]
    BY <1>3, <2>1, Zenon DEF Pending, UnderWay
  <2> QED
    BY <1>3, <1>4, <2>1, <2>2, Zenon DEF Pending, Held
<1>6. QueueHead(q) \in DOMAIN memory /\ head \in HeadSet /\ HandlerInv /\ AddressInv /\ PortTypes
  BY <1>3, <1>4, Zenon DEF EhciInv, HeadTypes, HeadOf
<1>7. UNCHANGED <<ring, handler, schedule, queues, adding, free, task, woken, inbox, sent, registered>>
  BY Zenon DEF Execute, software
<1>8. PICK mark, u, v :
        /\ mark \in {"done", "halted"} /\ u = [tds EXCEPT ![i] = mark]
        /\ Marked(q, r, memory, memory', u, v)
        /\ \/ /\ mark = "done"
              /\ v = [head EXCEPT !.next = IF i < Len(tds) THEN <<r, i + 1>> ELSE Terminate]
              /\ address' = IF r = "set_address" /\ i = Len(tds) THEN [address EXCEPT ![p] = free + 1]
                            ELSE address
           \/ mark = "halted" /\ v = [head EXCEPT !.halted = TRUE] /\ address' = address
  <2>0. D # QueueHead(q)
    BY <1>4, ObjectNames
  <2>1. \/ /\ memory' = [memory EXCEPT ![D][i] = "done",
                 ![QueueHead(q)].next = IF i < Len(tds) THEN <<r, i + 1>> ELSE Terminate]
           /\ address' = IF r = "set_address" /\ i = Len(tds) THEN [address EXCEPT ![q[1]] = free + 1]
                         ELSE address
        \/ /\ memory' = [memory EXCEPT ![D][i] = "halted", ![QueueHead(q)].halted = TRUE]
           /\ UNCHANGED address
    BY <1>4, Zenon DEF Execute
  <2>2. CASE /\ memory' = [memory EXCEPT ![D][i] = "done",
                 ![QueueHead(q)].next = IF i < Len(tds) THEN <<r, i + 1>> ELSE Terminate]
             /\ address' = IF r = "set_address" /\ i = Len(tds) THEN [address EXCEPT ![q[1]] = free + 1]
                           ELSE address
    <3>1. PICK u, v : /\ u = [tds EXCEPT ![i] = "done"]
                      /\ v = [head EXCEPT !.next = IF i < Len(tds) THEN <<r, i + 1>> ELSE Terminate]
      BY Zenon
    <3>2. memory' = [memory EXCEPT ![D] = u, ![QueueHead(q)] = v]
      BY <1>4, <2>0, <2>2, <3>1, Zenon
    <3>3. Marked(q, r, memory, memory', u, v)
      BY <1>4, <1>5, <1>6, <2>0, <3>2 DEF Marked
    <3> QED
      BY <1>2, <2>2, <3>1, <3>3, Zenon
  <2>3. CASE /\ memory' = [memory EXCEPT ![D][i] = "halted", ![QueueHead(q)].halted = TRUE]
             /\ UNCHANGED address
    <3>1. PICK u, v : u = [tds EXCEPT ![i] = "halted"] /\ v = [head EXCEPT !.halted = TRUE]
      BY Zenon
    <3>2. memory' = [memory EXCEPT ![D] = u, ![QueueHead(q)] = v]
      BY <1>4, <2>0, <2>3, <3>1, Zenon
    <3>3. Marked(q, r, memory, memory', u, v)
      BY <1>4, <1>5, <1>6, <2>0, <3>2 DEF Marked
    <3> QED
      BY <2>3, <3>1, <3>3, Zenon
  <2> QED
    BY <2>1, <2>2, <2>3, Zenon
<1>9. /\ v \in HeadSet /\ v.link = head.link /\ v.reclaim = head.reclaim /\ v.device = head.device
      /\ \/ /\ mark = "done" /\ v.halted = head.halted
            /\ v.next = IF i < Len(tds) THEN <<r, i + 1>> ELSE Terminate
         \/ mark = "halted" /\ v.halted /\ v.next = head.next
  <2>1. i \in Nat /\ r \in Transfers
    BY <1>4, <1>5, <1>6, Zenon DEF HeadSet, Transfers
  <2>2. PICK x : x = IF i < Len(tds) THEN <<r, i + 1>> ELSE Terminate
    BY Zenon
  <2>3. x \in {Terminate} \cup (Transfers \X Nat)
    BY <2>1, <2>2
  <2>4. CASE mark = "done"
    <3>1. v = [head EXCEPT !.next = x]
      BY <1>8, <2>2, <2>4
    <3> QED
      BY <1>6, <2>2, <2>3, <2>4, <3>1 DEF HeadSet
  <2>5. CASE mark = "halted"
    <3>1. v = [head EXCEPT !.halted = TRUE]
      BY <1>8, <2>5
    <3> QED
      BY <1>6, <2>5, <3>1, Zenon DEF HeadSet
  <2> QED
    BY <1>8, <2>4, <2>5, Zenon
<1>10. UnderWay(queues[q], u, v, r) /\ i \in 1 .. Len(tds) /\ Len(tds) \in Nat
  <2>1. Advances(tds, u, r, head, v)
    BY <1>4, <1>8, <1>9, Zenon DEF Advances
  <2>2. UnderWay(queues[q], tds, head, r) /\ head.next # Terminate
    BY <1>5, Zenon
  <2>3. UnderWay(queues[q], u, v, r)
    BY <2>1, <2>2, DescriptorMarked, Zenon
  <2>4. i \in 1 .. Len(tds) /\ tds \in Seq({"active", "done", "halted"})
    BY <1>4, <2>2, Zenon DEF UnderWay
  <2> QED
    BY <2>3, <2>4
<1>11. /\ Local(q, memory, memory') /\ DOMAIN memory' = DOMAIN memory
       /\ memory'[D] = u /\ memory'[QueueHead(q)] = v
       /\ \A s : Buffer(q, s) \in DOMAIN memory => memory'[Buffer(q, s)] = memory[Buffer(q, s)]
  <2>1. Marked(q, r, memory, memory', u, v)
    BY <1>8, Zenon
  <2>2. Descriptors(q, r)[2] = q /\ QueueHead(q)[2] = q
    BY ObjectQueue, Zenon
  <2>3. \A s : Buffer(q, s) # Descriptors(q, r) /\ Buffer(q, s) # QueueHead(q)
    BY ObjectNames, Zenon
  <2>4. Local(q, memory, memory')
    BY <2>1, <2>2, Zenon DEF Local, Marked
  <2> QED
    BY <1>4, <2>1, <2>3, <2>4, Zenon DEF Marked
<1>12. StepOf(p, q)
  <2>1. q \in {Control(p), In(p)}
    BY <1>3, Zenon DEF Uses
  <2>2. KeptLinks(q, memory, memory')
    BY <1>4, <1>9, <1>11, Zenon DEF KeptLinks
  <2>3. \A k \in Ports : k # p => address'[k] = address[k]
    BY <1>6, <1>8 DEF PortTypes
  <2> QED
    BY <1>3, <1>6, <1>7, <1>9, <1>11, <2>1, <2>2, <2>3, Zenon DEF StepOf
<1>13. QueueInv(q)'
  <2>1. Pending(q, task[p])'
    BY <1>4, <1>5, <1>7, <1>10, <1>11, Zenon DEF Pending, Held, HeadOf
  <2>2. Uses(p)' = q /\ q[1] = p
    BY <1>2, <1>3, <1>7, Zenon DEF Uses
  <2> QED
    BY <1>3, <1>7, <2>1, <2>2, Zenon DEF QueueInv
<1>14. HeadOf(q) = head /\ HeadOf(q)' = v
  BY <1>4, <1>11, Zenon DEF HeadOf
<1>15. <<r, i + 1>> # Terminate
  BY DEF Terminate
<1>16. \/ /\ address' = address
          /\ task[p] = "set_address" => (HeadOf(q)'.next = Terminate <=> HeadOf(q).next = Terminate)
       \/ /\ task[p] = "set_address" /\ address' = [address EXCEPT ![p] = free + 1]
          /\ HeadOf(q)'.next = Terminate
  <2>1. CASE mark = "done" /\ i < Len(tds)
    <3>1. i # Len(tds)
      BY <1>10, <2>1
    <3>2. address' = address
      BY <1>8, <2>1, <3>1
    <3>3. v.next = <<r, i + 1>>
      BY <1>9, <2>1
    <3> QED
      BY <1>5, <1>14, <1>15, <3>2, <3>3, Zenon
  <2>2. CASE mark = "done" /\ ~(i < Len(tds))
    <3>1. i = Len(tds)
      BY <1>10, <2>2
    <3> QED
      BY <1>5, <1>8, <1>9, <1>14, <2>2, <3>1, Zenon
  <2>3. CASE mark = "halted"
    BY <1>8, <1>9, <1>14, <2>3
  <2> QED
    BY <1>8, <2>1, <2>2, <2>3, Zenon
<1>17. AddressInv'
  <2>1. CASE address' = address
    BY <1>6, <1>7, <2>1, Zenon DEF AddressInv, Checked
  <2>2. CASE task[p] = "set_address" /\ address' = [address EXCEPT ![p] = free + 1]
    BY <1>3, <1>6, <1>7, <2>2, AddressTaken, Zenon
  <2> QED
    BY <1>16, <2>1, <2>2
<1>18. HandlerInv' /\ p \notin woken' /\ HeadOf(q)'.device = HeadOf(q).device
  BY <1>3, <1>6, <1>7, <1>9, <1>14, Zenon DEF HandlerInv
<1> QED
  BY <1>3, <1>7, <1>12, <1>13, <1>16, <1>17, <1>18, AtQueueKeeps, Zenon

\* A port without a device for this controller.
LEMMA AbsentKeeps ==
    ASSUME EhciInv, NEW p \in Ports, NEW t \in {"empty", "companion"}, task[p] = "unchecked",
           adding = Nothing, \A q \in 1 .. p - 1 : Checked(q), task' = [task EXCEPT ![p] = t],
           UNCHANGED <<ring, memory, schedule, queues, adding, free, woken, inbox, sent, address,
                       registered, handler>>
    PROVE  EhciInv'
<1>1. PortInv(p) /\ RequestInv(p) /\ PortTypes /\ RingInv /\ HeadTypes /\ HandlerInv /\ AddressInv
  BY Zenon DEF EhciInv, PortSound
<1>2. task'[p] = t /\ \A k \in Ports : k # p => task'[k] = task[k]
  BY <1>1 DEF PortTypes
<1>3. /\ task[p] \in Absent /\ task[p] \notin Served /\ task[p] \notin Transfers
      /\ t \in Absent /\ t \notin Served /\ t \notin BringUp /\ t # "report" /\ t # "unchecked"
      /\ t \notin {"connect", "header", "set_address", "device", "config", "hierarchy"}
  BY DEF Absent, Served, Answers, Transfers, Steps, BringUp
<1>4. Control(p) \notin DOMAIN queues /\ In(p) \notin DOMAIN queues /\ p \notin woken /\ registered[p] = -1 /\ address[p] = -1
  BY <1>1, <1>3, Zenon DEF PortInv
<1>5. PortSound(p)'
  <2>1. PortInv(p)'
    BY <1>2, <1>3, <1>4, Zenon DEF PortInv
  <2>2. RequestInv(p)'
    BY <1>1, Zenon DEF RequestInv, Asked
  <2> QED
    BY <1>4, <2>1, <2>2, Zenon DEF PortSound
<1>6. ASSUME NEW k \in Ports, k # p PROVE PortSound(k)'
  <2>1. KeptPort(k)
    BY <1>2, <1>6, Zenon DEF KeptPort, KeptQueue, KeptObjects
  <2>2. free' = free /\ free' \in 0 .. 127
    BY <1>1, Zenon DEF PortTypes
  <2> QED
    BY <2>1, <2>2, PortKept, Zenon
<1>7. RingInv'
  <2>1. \A q \in DOMAIN queues : KeptLinks(q, memory, memory')
    BY Zenon DEF KeptLinks
  <2>2. UNCHANGED <<schedule, adding, ring>> /\ DOMAIN queues' = DOMAIN queues
    BY Zenon
  <2> QED
    BY <1>1, <2>1, <2>2, RingKept, Zenon
<1>8. HeadTypes' /\ HandlerInv'
  BY <1>1, Zenon DEF HeadTypes, HandlerInv, HeadOf
<1>9. PortTypes'
  <2>1. task' \in [Ports -> Absent \cup BringUp \cup Served]
    BY <1>1, <1>3 DEF PortTypes
  <2> QED
    BY <1>1, <2>1, Zenon DEF PortTypes
<1>10. AddressInv'
  <2>1. Checked(p)'
    BY <1>2 DEF Checked
  <2> QED
    BY <1>1, <1>3, <2>1, AddressKept, Zenon
<1> QED
  BY <1>5, <1>6, <1>7, <1>8, <1>9, <1>10, Zenon DEF EhciInv

\* What add_to_async_schedule makes of the memory up to its await: the new head,
\* and a link to it from the last one.
NewHead(q, device, m, n) ==
    /\ QueueHead(q) \in DOMAIN n
    /\ n[QueueHead(q)] = [link |-> IF schedule = <<>> THEN q ELSE schedule[1], reclaim |-> TRUE,
                          next |-> Terminate, device |-> device, halted |-> FALSE]
    /\ \A o : o # QueueHead(q) =>
         /\ o \in DOMAIN n <=> o \in DOMAIN m
         /\ o \in DOMAIN m =>
              n[o] = IF schedule # <<>> /\ o = QueueHead(schedule[Len(schedule)])
                     THEN [m[o] EXCEPT !.link = q] ELSE m[o]

\* The first half of add_to_async_schedule: the new head links to the first queue,
\* the last head to the new one.
LEMMA HeadAdded ==
    ASSUME NEW q, NEW device, NEW m, m = create_queue(memory, q, device),
           schedule \in Seq(Queues), \A i \in DOMAIN schedule : schedule[i] # q,
           add_to_async_schedule(q, m)
    PROVE  NewHead(q, device, memory, memory')
<1> DEFINE H == QueueHead(q)
<1>1. PICK h : h = [link |-> Nothing, reclaim |-> FALSE, next |-> Terminate, device |-> device, halted |-> FALSE]
  BY Zenon
<1>2. PICK f : f = IF schedule = <<>> THEN q ELSE schedule[1]
  BY Zenon
<1>3. PICK g : g = [link |-> f, reclaim |-> TRUE, next |-> Terminate, device |-> device, halted |-> FALSE]
  BY Zenon
<1>4. m = create(memory, H, h)
  BY <1>1, Zenon DEF create_queue
<1> HIDE DEF H
<1>5. H \in DOMAIN m /\ m[H] = h /\ \A o : o # H => (o \in DOMAIN m <=> o \in DOMAIN memory)
                                                   /\ (o \in DOMAIN memory => m[o] = memory[o])
  BY <1>4 DEF create
<1>6. CASE schedule = <<>>
  <2>1. memory' = [m EXCEPT ![H].reclaim = TRUE, ![H].link = q]
    BY <1>6, Zenon DEF add_to_async_schedule, H
  <2>2. DOMAIN memory' = DOMAIN m /\ \A o \in DOMAIN m : o # H => memory'[o] = m[o]
    BY <2>1
  <2>3. memory'[H] = [h EXCEPT !.reclaim = TRUE, !.link = q]
    BY <1>5, <2>1
  <2>4. memory'[H] = g
    BY <1>1, <1>2, <1>3, <1>6, <2>3, Zenon
  <2> QED
    BY <1>2, <1>3, <1>5, <1>6, <2>2, <2>4, Zenon DEF NewHead, H
<1>7. CASE schedule # <<>>
  <2>1. PICK last : last = schedule[Len(schedule)]
    BY Zenon
  <2>2. PICK L : L = QueueHead(last)
    BY Zenon
  <2>3. last # q
    BY <1>7, <2>1
  <2>4. L # H
    BY <2>2, <2>3, ObjectNames, Zenon DEF H
  <2>5. memory' = [m EXCEPT ![H].link = schedule[1], ![H].reclaim = TRUE, ![L].link = q]
    BY <1>7, <2>1, <2>2, Zenon DEF add_to_async_schedule, H
  <2>6. DOMAIN memory' = DOMAIN m /\ \A o \in DOMAIN m : o # H /\ o # L => memory'[o] = m[o]
    BY <2>5
  <2>7. memory'[H] = [h EXCEPT !.link = schedule[1], !.reclaim = TRUE]
    BY <1>5, <2>4, <2>5
  <2>8. memory'[H] = g
    BY <1>1, <1>2, <1>3, <1>7, <2>7, Zenon
  <2>9. L \in DOMAIN m => memory'[L] = [m[L] EXCEPT !.link = q]
    BY <2>4, <2>5
  <2>10. \A o : o # H =>
         /\ o \in DOMAIN memory' <=> o \in DOMAIN memory
         /\ o \in DOMAIN memory => memory'[o] = IF o = L THEN [memory[o] EXCEPT !.link = q] ELSE memory[o]
    BY <1>5, <2>4, <2>6, <2>9
  <2> QED
    BY <1>2, <1>3, <1>5, <1>7, <2>1, <2>2, <2>6, <2>8, <2>10, Zenon DEF NewHead, H
<1> QED
  BY <1>6, <1>7

\* The ring after a step, in terms of the new order of the queues.
LEMMA RingAgain ==
    ASSUME NEW o, Order' = o, schedule' \in Seq(Queues), adding' \in Queues \cup {Nothing},
           \A i, j \in DOMAIN o : o[i] = o[j] => i = j,
           DOMAIN queues' = { o[i] : i \in DOMAIN o },
           ring' = IF o = <<>> THEN Nothing ELSE o[1],
           \A i \in DOMAIN o : memory'[QueueHead(o[i])].link = IF i = Len(o) THEN o[1] ELSE o[i + 1],
           (\A i \in DOMAIN schedule : HeadOf(schedule[i]).reclaim <=> i = Len(schedule))',
           (adding # Nothing =>
              /\ HeadOf(adding).reclaim
              /\ \/ adding = Control(adding[1]) /\ task[adding[1]] = "connect"
                 \/ adding = In(adding[1]) /\ task[adding[1]] = "endpoint")'
    PROVE  RingInv'
<1>1. (\A i, j \in DOMAIN Order : Order[i] = Order[j] => i = j)'
  BY Zenon
<1>2. (DOMAIN queues = { Order[i] : i \in DOMAIN Order })'
  OBVIOUS
<1>3. (ring = IF Order = <<>> THEN Nothing ELSE Order[1])'
  BY Zenon
<1>4. (\A i \in DOMAIN Order : HeadOf(Order[i]).link = IF i = Len(Order) THEN Order[1] ELSE Order[i + 1])'
  BY Zenon DEF HeadOf
<1> QED
  BY <1>1, <1>2, <1>3, <1>4, Zenon DEF RingInv

\* A queue was added and is idle; every other one is kept.
Added(q, device) ==
    /\ HeadTypes' /\ RingInv'
    /\ DOMAIN queues' = DOMAIN queues \cup {q} /\ queues'[q] = <<>>
    /\ \A k : k # q => KeptQueue(k)
    /\ HeadOf(q)'.next = Terminate /\ HeadOf(q)'.device = device

\* What pushing a queue onto the schedule does to the sequence.
LEMMA Pushed ==
    ASSUME NEW s \in Seq(Queues), NEW x \in Queues, NEW n, n = Len(s), NEW o, o = Append(s, x)
    PROVE  /\ o \in Seq(Queues) /\ Len(o) = n + 1 /\ DOMAIN o = 1 .. n + 1 /\ o[n + 1] = x /\ o # <<>>
           /\ \A i \in 1 .. n : o[i] = s[i]
  OBVIOUS

\* The queues are the members of the ring's order, each once, and the ring starts
\* at the first.
LEMMA RingOrder ==
    ASSUME RingInv, NEW o, Order = o
    PROVE  /\ \A i, j \in DOMAIN o : o[i] = o[j] => i = j
           /\ DOMAIN queues = { o[i] : i \in DOMAIN o }
           /\ \A k : k \in DOMAIN queues <=> \E i \in DOMAIN o : k = o[i]
           /\ ring = IF o = <<>> THEN Nothing ELSE o[1]
<1>1. \A i, j \in DOMAIN o : o[i] = o[j] => i = j
  BY DEF RingInv
<1>2. DOMAIN queues = { o[i] : i \in DOMAIN o }
  BY DEF RingInv
<1>3. ring = IF o = <<>> THEN Nothing ELSE o[1]
  BY DEF RingInv
<1> QED
  BY <1>1, <1>2, <1>3, Zenon

\* The new queue is in the ring, empty, and the other queues are as they were.
LEMMA QueueAdded ==
    ASSUME EhciInv, NEW p \in Ports, NEW q \in {Control(p), In(p)}, q \notin DOMAIN queues,
           adding = Nothing, NEW device \in Int, UNCHANGED schedule,
           add_to_async_schedule(q, create_queue(memory, q, device)),
           (q = Control(p) /\ task'[p] = "connect") \/ (q = In(p) /\ task'[p] = "endpoint")
    PROVE  Added(q, device)
<1>1. RingInv /\ HeadTypes /\ Order = schedule /\ schedule \in Seq(Queues) /\ q \in Queues /\ q[1] = p /\ q # Nothing
  <2>1. q \in Queues /\ q[1] = p /\ q # Nothing
    BY QueueNames, Zenon
  <2> QED
    BY <2>1, Zenon DEF EhciInv, RingInv, Order
<1>2. \A i \in DOMAIN schedule : schedule[i] \in DOMAIN queues /\ schedule[i] # q
  <2>1. \A k : k \in DOMAIN queues <=> \E i \in DOMAIN schedule : k = schedule[i]
    BY <1>1, RingOrder, Zenon
  <2> QED
    BY <2>1, Zenon
<1>3. PICK n, L : n = Len(schedule) /\ L = QueueHead(schedule[Len(schedule)])
  BY Zenon
<1>4. NewHead(q, device, memory, memory')
  <2>1. PICK m : m = create_queue(memory, q, device)
    BY Zenon
  <2>2. add_to_async_schedule(q, m)
    BY <2>1, Zenon
  <2> QED
    BY <1>1, <1>2, <2>1, <2>2, HeadAdded, Zenon
<1>5. n \in Nat /\ DOMAIN schedule = 1 .. n /\ (schedule = <<>> <=> n = 0)
  BY <1>1, <1>3
<1>6. DOMAIN queues' = DOMAIN queues \cup {q} /\ queues'[q] = <<>> /\ \A k \in DOMAIN queues : queues'[k] = queues[k]
  BY DEF add_to_async_schedule, create
<1>7. HeadOf(q)' = [link |-> IF schedule = <<>> THEN q ELSE schedule[1], reclaim |-> TRUE,
                    next |-> Terminate, device |-> device, halted |-> FALSE]
      /\ QueueHead(q) \in DOMAIN memory'
  BY <1>4, Zenon DEF NewHead, HeadOf
<1>8. HeadOf(q)' \in HeadSet
  <2>1. PICK f : f = IF schedule = <<>> THEN q ELSE schedule[1]
    BY Zenon
  <2>2. f \in Queues
    <3>1. \A i \in DOMAIN schedule : schedule[i] \in Queues
      BY <1>1
    <3>2. schedule # <<>> => 1 \in DOMAIN schedule
      BY <1>5
    <3> QED
      BY <1>1, <2>1, <3>1, <3>2, Zenon
  <2>3. HeadOf(q)' = [link |-> f, reclaim |-> TRUE, next |-> Terminate, device |-> device, halted |-> FALSE]
    BY <1>7, <2>1, Zenon
  <2> QED
    BY <2>2, <2>3 DEF HeadSet
<1>9. ASSUME NEW k \in DOMAIN queues, k # q PROVE KeptObjects(k, memory, memory')
  <2>1. QueueHead(k) # QueueHead(q) /\ \A r : Descriptors(k, r) # QueueHead(q) /\ Buffer(k, r) # QueueHead(q)
    BY <1>9, ObjectNames, Zenon
  <2>2. \A r, j : Descriptors(k, r) # QueueHead(j) /\ Buffer(k, r) # QueueHead(j)
    BY ObjectNames, Zenon
  <2>3. \A r : Descriptors(k, r) \in DOMAIN memory =>
          Descriptors(k, r) \in DOMAIN memory' /\ memory'[Descriptors(k, r)] = memory[Descriptors(k, r)]
    BY <1>4, <2>1, <2>2, Zenon DEF NewHead
  <2>4. \A r : Buffer(k, r) \in DOMAIN memory =>
          Buffer(k, r) \in DOMAIN memory' /\ memory'[Buffer(k, r)] = memory[Buffer(k, r)]
    BY <1>4, <2>1, <2>2, Zenon DEF NewHead
  <2>5. QueueHead(k) \in DOMAIN memory /\ memory[QueueHead(k)] \in HeadSet
    BY <1>1, Zenon DEF HeadTypes, HeadOf
  <2>6. PICK h, g : h \in HeadSet /\ h = memory[QueueHead(k)] /\ g = memory'[QueueHead(k)]
    BY <2>5, Zenon
  <2>7. QueueHead(k) \in DOMAIN memory' /\ (g = [h EXCEPT !.link = q] \/ g = h)
    BY <1>4, <2>1, <2>5, <2>6, Zenon DEF NewHead
  <2>8. g \in HeadSet /\ g.next = h.next /\ g.device = h.device /\ g.halted = h.halted
    BY <1>1, <2>6, <2>7 DEF HeadSet
  <2> QED
    BY <2>3, <2>4, <2>6, <2>7, <2>8, Zenon DEF KeptObjects
<1>10. \A k : k # q => KeptQueue(k)
  BY <1>6, <1>9, Zenon DEF KeptQueue
<1>11. HeadTypes'
  <2> SUFFICES ASSUME NEW k \in DOMAIN queues'
               PROVE  QueueHead(k) \in DOMAIN memory' /\ memory'[QueueHead(k)] \in HeadSet
    BY Zenon DEF HeadTypes, HeadOf
  <2>1. CASE k = q
    BY <1>7, <1>8, <2>1, Zenon DEF HeadOf
  <2>2. CASE k # q
    <3>1. k \in DOMAIN queues
      BY <1>6, <2>2
    <3>2. QueueHead(k) \in DOMAIN memory /\ memory[QueueHead(k)] \in HeadSet
      BY <1>1, <3>1, Zenon DEF HeadTypes, HeadOf
    <3> QED
      BY <1>9, <2>2, <3>1, <3>2, Zenon DEF KeptObjects
  <2> QED
    BY <2>1, <2>2
<1>12. RingInv'
  <2>1. adding' = q /\ Order' = Append(schedule, q) /\ schedule' = schedule
    BY <1>1 DEF add_to_async_schedule, Order
  <2>2. PICK o : o = Append(schedule, q)
    BY Zenon
  <2>3. /\ o \in Seq(Queues) /\ Len(o) = n + 1 /\ DOMAIN o = 1 .. n + 1 /\ o[n + 1] = q /\ o # <<>>
        /\ \A i \in 1 .. n : o[i] = schedule[i]
    <3>1. schedule \in Seq(Queues) /\ q \in Queues /\ n = Len(schedule) /\ o = Append(schedule, q)
      BY <1>1, <1>3, <2>2, Zenon
    <3> QED
      BY <3>1, Pushed
  <2>4. o[1] = IF schedule = <<>> THEN q ELSE schedule[1]
    BY <1>5, <2>3
  <2>5. \A i, j \in DOMAIN o : o[i] = o[j] => i = j
    <3>1. \A i, j \in 1 .. n : schedule[i] = schedule[j] => i = j
      BY <1>1, <1>5, Zenon DEF RingInv
    <3> QED
      BY <1>2, <1>5, <2>3, <3>1
  <2>6. DOMAIN queues' = { o[i] : i \in DOMAIN o }
    <3>1. \A k : k \in DOMAIN queues <=> \E i \in DOMAIN schedule : k = schedule[i]
      BY <1>1, RingOrder, Zenon
    <3>2. n + 1 \in DOMAIN o /\ \A i \in DOMAIN o : i = n + 1 \/ i \in DOMAIN schedule
      BY <1>5, <2>3
    <3>3. \A i \in DOMAIN schedule : i \in DOMAIN o /\ o[i] = schedule[i]
      BY <1>5, <2>3
    <3>4. ASSUME NEW k \in DOMAIN queues' PROVE \E i \in DOMAIN o : k = o[i]
      <4>1. CASE k = q
        BY <2>3, <3>2, <4>1, Zenon
      <4>2. CASE k \in DOMAIN queues
        BY <3>1, <3>3, <4>2, Zenon
      <4> QED
        BY <1>6, <3>4, <4>1, <4>2, Zenon
    <3>5. ASSUME NEW i \in DOMAIN o PROVE o[i] \in DOMAIN queues'
      BY <1>6, <2>3, <3>1, <3>2, <3>3, <3>5, Zenon
    <3> QED
      BY <3>4, <3>5
  <2>7. ring' = o[1]
    <3>1. CASE schedule = <<>>
      BY <2>4, <3>1 DEF add_to_async_schedule
    <3>2. CASE schedule # <<>>
      BY <1>1, <2>4, <3>2 DEF add_to_async_schedule, RingInv
    <3> QED
      BY <3>1, <3>2
  <2>8. \A i \in 1 .. n : /\ HeadOf(schedule[i]).link = IF i = n THEN schedule[1] ELSE schedule[i + 1]
                          /\ HeadOf(schedule[i]).reclaim <=> i = n
    BY <1>1, <1>3, <1>5, Zenon DEF RingInv
  <2>9. ASSUME NEW i \in 1 .. n
        PROVE  memory'[QueueHead(schedule[i])] = IF i = n THEN [HeadOf(schedule[i]) EXCEPT !.link = q]
                                                 ELSE HeadOf(schedule[i])
    <3>1. PICK k : k = schedule[i]
      BY Zenon
    <3>2. k \in DOMAIN queues /\ k # q /\ schedule # <<>>
      BY <1>2, <1>5, <3>1
    <3>3. QueueHead(k) # QueueHead(q) /\ QueueHead(k) \in DOMAIN memory
      BY <1>1, <3>2, ObjectNames, Zenon DEF HeadTypes
    <3>4. QueueHead(k) = QueueHead(schedule[Len(schedule)]) <=> i = n
      <4>1. QueueHead(k) = QueueHead(schedule[n]) => k = schedule[n]
        BY ObjectNames, Zenon
      <4>2. schedule[i] = schedule[n] => i = n
        <5>1. i \in DOMAIN schedule /\ n \in DOMAIN schedule
          BY <1>5
        <5> QED
          BY <1>1, <5>1, Zenon DEF RingInv
      <4> QED
        BY <1>3, <3>1, <4>1, <4>2
    <3> QED
      BY <1>4, <3>1, <3>2, <3>3, <3>4, Zenon DEF NewHead, HeadOf
  <2>10. \A i \in 1 .. n : HeadOf(schedule[i]) \in HeadSet
    BY <1>1, <1>2, <1>5, Zenon DEF HeadTypes
  <2>11. \A i \in 1 .. n : /\ memory'[QueueHead(schedule[i])].link = IF i = n THEN q ELSE schedule[i + 1]
                           /\ memory'[QueueHead(schedule[i])].reclaim <=> i = n
    <3> SUFFICES ASSUME NEW i \in 1 .. n
                 PROVE  /\ memory'[QueueHead(schedule[i])].link = IF i = n THEN q ELSE schedule[i + 1]
                        /\ memory'[QueueHead(schedule[i])].reclaim <=> i = n
      BY Zenon
    <3>1. PICK h \in HeadSet : h = HeadOf(schedule[i])
      BY <2>10, Zenon
    <3>2. (i # n => h.link = schedule[i + 1]) /\ (h.reclaim <=> i = n)
      BY <2>8, <3>1
    <3>3. memory'[QueueHead(schedule[i])] = IF i = n THEN [h EXCEPT !.link = q] ELSE h
      BY <2>9, <3>1, Zenon
    <3> QED
      BY <3>2, <3>3 DEF HeadSet
  <2>12. memory'[QueueHead(q)].link = o[1] /\ memory'[QueueHead(q)].reclaim
    <3>1. PICK g, h : g = o[1] /\ h = memory'[QueueHead(q)]
      BY Zenon
    <3>2. h = [link |-> g, reclaim |-> TRUE, next |-> Terminate, device |-> device, halted |-> FALSE]
      BY <1>7, <2>4, <3>1, Zenon DEF HeadOf
    <3>3. h.link = g /\ h.reclaim
      BY <3>2
    <3> QED
      BY <3>1, <3>3, Zenon
  <2>13. \A i \in DOMAIN o :
           memory'[QueueHead(o[i])].link = IF i = Len(o) THEN o[1] ELSE o[i + 1]
    <3> SUFFICES ASSUME NEW i \in DOMAIN o
                 PROVE  memory'[QueueHead(o[i])].link = IF i = Len(o) THEN o[1] ELSE o[i + 1]
      BY Zenon
    <3>1. CASE i = n + 1
      BY <2>3, <2>12, <3>1, Zenon
    <3>2. CASE i # n + 1
      <4>1. i \in 1 .. n /\ i # Len(o) /\ (i = n \/ i + 1 \in 1 .. n)
        BY <1>5, <2>3, <3>2
      <4>2. o[i] = schedule[i] /\ o[i + 1] = IF i = n THEN q ELSE schedule[i + 1]
        BY <2>3, <4>1, Zenon
      <4> QED
        BY <2>11, <4>1, <4>2, Zenon
    <3> QED
      BY <3>1, <3>2, Zenon
  <2>14. Order' = o /\ adding' \in Queues \cup {Nothing}
    BY <1>1, <2>1, <2>2, Zenon
  <2>15. (adding # Nothing =>
            /\ HeadOf(adding).reclaim
            /\ \/ adding = Control(adding[1]) /\ task[adding[1]] = "connect"
               \/ adding = In(adding[1]) /\ task[adding[1]] = "endpoint")'
    BY <1>1, <2>1, <2>12 DEF HeadOf
  <2>16. (\A i \in DOMAIN schedule : HeadOf(schedule[i]).reclaim <=> i = Len(schedule))'
    BY <1>3, <1>5, <2>1, <2>11 DEF HeadOf
  <2> QED
    <3>1. ring' = IF o = <<>> THEN Nothing ELSE o[1]
      BY <2>3, <2>7, Zenon
    <3>2. schedule' \in Seq(Queues)
      BY <1>1, <2>1, Zenon
    <3> QED
      BY <2>5, <2>6, <2>13, <2>14, <2>15, <2>16, <3>1, <3>2, RingAgain, Zenon
<1> QED
  <2>1. HeadOf(q)'.next = Terminate /\ HeadOf(q)'.device = device
    BY <1>7
  <2> QED
    BY <1>6, <1>10, <1>11, <1>12, <2>1, Zenon DEF Added

\* Ports are looked at in turn: while one is, no other device is being brought up.
LEMMA OneAtATime ==
    ASSUME EhciInv, NEW p \in Ports, task[p] = "unchecked", \A q \in 1 .. p - 1 : Checked(q)
    PROVE  \A k \in Ports : k # p =>
             /\ task[k] \notin BringUp /\ (task[k] = "unchecked" => k > p)
             /\ address[k] = -1 \/ address[k] > free
<1>1. AddressInv /\ PortTypes /\ ~Checked(p)
  BY DEF EhciInv, Checked
<1> SUFFICES ASSUME NEW k \in Ports, k # p
             PROVE  /\ task[k] \notin BringUp /\ (task[k] = "unchecked" => k > p)
                    /\ address[k] = -1 \/ address[k] > free
  OBVIOUS
<1>2. PortInv(k)
  BY Zenon DEF EhciInv, PortSound
<1>3. CASE k < p
  <2>1. Checked(k)
    BY <1>3 DEF Ports
  <2>2. task[k] \notin BringUp /\ task[k] # "unchecked" /\ (task[k] \in Absent \/ task[k] \in Served)
    BY <2>1 DEF Checked, BringUp, Steps, Absent, Served, Answers
  <2> QED
    BY <1>2, <2>2, Zenon DEF PortInv
<1>4. CASE p < k
  <2>1. task[k] = "unchecked"
    BY <1>1, <1>4, Zenon DEF AddressInv
  <2>2. task[k] \in Absent /\ task[k] \notin BringUp
    BY <2>1 DEF Absent, BringUp, Steps
  <2> QED
    BY <1>2, <1>4, <2>2 DEF PortInv, Ports
<1> QED
  BY <1>3, <1>4 DEF Ports

\* handle_device_connect, when there is a device to bring up.
LEMMA ConnectKeeps ==
    ASSUME EhciInv, NEW p \in Ports, task[p] = "unchecked", adding = Nothing,
           \A q \in 1 .. p - 1 : Checked(q),
           address' = [address EXCEPT ![p] = 0], free' = free - 1,
           add_to_async_schedule(Control(p), create_queue(memory, Control(p), 0)),
           task' = [task EXCEPT ![p] = "connect"],
           UNCHANGED <<schedule, woken, inbox, sent, registered, handler>>
    PROVE  EhciInv'
<1> DEFINE q == Control(p)
<1>1. PortInv(p) /\ RequestInv(p) /\ PortTypes /\ RingInv /\ HeadTypes /\ HandlerInv /\ AddressInv
  BY Zenon DEF EhciInv, PortSound
<1>2. task'[p] = "connect" /\ address'[p] = 0
      /\ \A k \in Ports : k # p => task'[k] = task[k] /\ address'[k] = address[k]
  BY <1>1 DEF PortTypes
<1>3. /\ task[p] \in Absent /\ task[p] \notin Served /\ task[p] \notin Transfers /\ "connect" \notin Absent
      /\ "connect" \notin Served /\ "connect" \notin Transfers /\ "connect" \in BringUp
  BY DEF Absent, Served, Answers, Transfers, Steps, BringUp
<1>4. q \notin DOMAIN queues /\ In(p) \notin DOMAIN queues /\ p \notin woken /\ registered[p] = -1
  BY <1>1, <1>3, Zenon DEF PortInv
<1>5. q \in {Control(p), In(p)} /\ q # In(p) /\ q[1] = p
  BY QueueNames, Zenon
<1>6. Added(q, 0)
  <2>1. PICK k, d : k = Control(p) /\ d = 0
    BY Zenon
  <2>2. /\ k \in {Control(p), In(p)} /\ k \notin DOMAIN queues /\ d \in Int /\ UNCHANGED schedule
        /\ add_to_async_schedule(k, create_queue(memory, k, d))
        /\ ((k = Control(p) /\ task'[p] = "connect") \/ (k = In(p) /\ task'[p] = "endpoint"))
    <3>1. k \in {Control(p), In(p)} /\ k \notin DOMAIN queues /\ d \in Int /\ UNCHANGED schedule
      BY <1>4, <2>1
    <3>2. add_to_async_schedule(k, create_queue(memory, k, d)) /\ k = Control(p) /\ task'[p] = "connect"
      BY <1>2, <2>1, Zenon
    <3> QED
      BY <3>1, <3>2, Zenon
  <2>3. Added(k, d)
    BY <2>2, QueueAdded, Zenon
  <2> QED
    BY <2>1, <2>3, Zenon
<1>7. \A k \in Ports : k # p =>
        /\ task[k] \notin BringUp /\ (task[k] = "unchecked" => k > p)
        /\ address[k] = -1 \/ address[k] > free
  BY OneAtATime, Zenon
<1>8. free \in 0 .. 127 /\ free >= 128 - p /\ p \in 1 .. 127
  <2>1. NumPorts \in 1 .. 127
    BY EhciAssumption, Zenon
  <2> QED
    BY <1>1, <2>1 DEF PortTypes, AddressInv, Ports
<1>9. free' \in 0 .. 127 /\ free' <= free
  BY <1>8
<1>10. ASSUME NEW k \in Ports, k # p PROVE PortSound(k)'
  <2>1. Control(k) # q /\ In(k) # q
    BY <1>10, QueueNames, Zenon
  <2>2. KeptPort(k)
    BY <1>2, <1>6, <1>10, <2>1, Zenon DEF KeptPort, Added
  <2> QED
    BY <1>7, <1>9, <1>10, <2>2, PortKept, Zenon
<1>11. PortSound(p)'
  <2>1. /\ q \in DOMAIN queues' /\ In(p) \notin DOMAIN queues' /\ queues'[q] = <<>>
        /\ HeadOf(q)'.next = Terminate /\ HeadOf(q)'.device = 0
    BY <1>4, <1>5, <1>6, Zenon DEF Added
  <2>2. QueueInv(q)'
    BY <2>1, Zenon DEF QueueInv, Working, HeadOf
  <2>3. PortInv(p)'
    <3>1. "connect" # "report" /\ "connect" # "set_address" /\ "connect" \notin {"device", "config", "hierarchy"}
      OBVIOUS
    <3> QED
      BY <1>2, <1>3, <1>4, <2>1, <3>1, Zenon DEF PortInv
  <2>4. RequestInv(p)'
    BY <1>1, <1>4, <2>1, Zenon DEF RequestInv, Asked
  <2> QED
    BY <2>1, <2>2, <2>3, <2>4, ZenonT(30) DEF PortSound
<1>12. PortTypes' /\ HandlerInv'
  <2>1. task' \in [Ports -> Absent \cup BringUp \cup Served] /\ address' \in [Ports -> Int]
    BY <1>1, <1>3 DEF PortTypes
  <2> QED
    BY <1>1, <1>9, <2>1, Zenon DEF PortTypes, HandlerInv
<1>13. AddressInv'
  <2>1. \A k \in Ports : k # p => (Checked(k)' <=> Checked(k))
    BY <1>2, Zenon DEF Checked
  <2>2. \A a, b \in Ports : a < b /\ ~Checked(a)' => task'[b] = "unchecked"
    <3> SUFFICES ASSUME NEW a \in Ports, NEW b \in Ports, a < b, ~Checked(a)' PROVE task'[b] = "unchecked"
      BY Zenon
    <3>1. ~Checked(p)
      BY DEF Checked
    <3>2. b # p
      <4>1. b = p => Checked(a) /\ a # p
        BY DEF Ports
      <4> QED
        BY <2>1, <4>1
    <3>3. ~Checked(a)
      BY <2>1, <3>1
    <3> QED
      BY <1>1, <1>2, <3>2, <3>3 DEF AddressInv
  <2>3. \A k \in Ports : task'[k] = "unchecked" => free' >= 128 - k
    BY <1>2, <1>7, <1>8 DEF Ports
  <2>4. \A a, b \in Ports : a # b /\ task'[a] \in BringUp => address'[b] = -1 \/ address'[b] > free' + 1
    <3> SUFFICES ASSUME NEW a \in Ports, NEW b \in Ports, a # b, task'[a] \in BringUp
                 PROVE  address'[b] = -1 \/ address'[b] > free' + 1
      BY Zenon
    <3>1. a = p
      BY <1>2, <1>7
    <3>2. address'[b] = address[b] /\ (address[b] = -1 \/ address[b] > free)
      BY <1>2, <1>7, <3>1
    <3> QED
      BY <1>8, <3>2
  <2>5. \A a, b \in Ports : a # b /\ address'[a] = address'[b] => address'[a] = -1
    BY <1>1, <1>2, <1>7, <1>8 DEF AddressInv
  <2> QED
    BY <2>2, <2>3, <2>4, <2>5, Zenon DEF AddressInv
<1> QED
  BY <1>6, <1>10, <1>11, <1>12, <1>13, Zenon DEF EhciInv, Added

\* Looking at the next port keeps the invariant, whatever is attached to it.
LEMMA CheckPortsKeeps ==
    ASSUME EhciInv, NEW p \in Ports, check_ports(p)
    PROVE  EhciInv'
<1>1. /\ task[p] = "unchecked" /\ adding = Nothing /\ \A q \in 1 .. p - 1 : Checked(q)
      /\ UNCHANGED <<schedule, woken, inbox, sent, registered, handler>>
  BY Zenon DEF check_ports, Idle
<1>2. CASE \E t \in {"empty", "companion"} : /\ task' = [task EXCEPT ![p] = t]
                                            /\ UNCHANGED <<address, free, memory, ring, adding, queues>>
  BY <1>1, <1>2, AbsentKeeps, Zenon
<1>3. CASE /\ address' = [address EXCEPT ![p] = 0] /\ free' = free - 1
           /\ add_to_async_schedule(Control(p), create_queue(memory, Control(p), 0))
           /\ task' = [task EXCEPT ![p] = "connect"]
  BY <1>1, <1>3, ConnectKeeps, Zenon
<1> QED
  BY <1>2, <1>3, Zenon DEF check_ports, handle_device_connect

\* Opening an endpoint keeps the invariant: its queue gets the device's address.
LEMMA OpenEndpointKeeps ==
    ASSUME EhciInv, NEW p \in Ports, task[p] = "ready", adding = Nothing, inbox[p] = "endpoint",
           inbox' = [inbox EXCEPT ![p] = "none"], OpenEndpoint(p),
           UNCHANGED <<address, schedule, free, woken, sent, registered, handler>>
    PROVE  EhciInv'
<1>1. PortInv(p) /\ RequestInv(p) /\ PortTypes /\ RingInv /\ HeadTypes /\ HandlerInv /\ AddressInv
  BY Zenon DEF EhciInv, PortSound
<1>2. /\ task[p] \notin Absent /\ task[p] \notin Transfers /\ task[p] \in Served
      /\ "endpoint" \in Served /\ "endpoint" \notin Absent /\ "endpoint" \notin BringUp
      /\ "endpoint" \notin Transfers
  BY DEF Absent, Transfers, Steps, Answers, Served, BringUp
<1>3. task' = [task EXCEPT ![p] = "endpoint"] /\ task'[p] = "endpoint" /\ \A k \in Ports : k # p => task'[k] = task[k]
  BY <1>1 DEF PortTypes, OpenEndpoint
<1>4. PICK n \in Nat : n = sent[p]
  BY <1>1 DEF PortTypes
<1>5. n >= 1 /\ n <= Len(Requests(p)) /\ Requests(p)[n] = "endpoint" /\ Asked(p) = n - 1
  BY <1>1, <1>4 DEF RequestInv, Asked
<1>6. In(p) \notin DOMAIN queues
  <2>1. n \in DOMAIN Requests(p)
    BY <1>5, EhciAssumption
  <2>2. \A j \in 1 .. n - 1 : Requests(p)[j] # "endpoint"
    BY <1>5, <2>1, EhciAssumption, Zenon
  <2> QED
    BY <1>1, <1>5, <2>2, Zenon DEF RequestInv
<1>7. Control(p) \in DOMAIN queues /\ HeadOf(Control(p)).device = address[p] /\ address[p] \in Int /\ p \notin woken
  <2>1. address[p] \in Int
    BY <1>1 DEF PortTypes
  <2> QED
    BY <1>1, <1>2, <2>1, Zenon DEF PortInv
<1>8. PICK q, d : q = In(p) /\ d = memory[QueueHead(Control(p))].device
  BY Zenon
<1>9. Added(q, d) /\ d = address[p]
  <2>1. d = address[p] /\ d \in Int
    BY <1>7, <1>8, Zenon DEF HeadOf
  <2>2. /\ q \in {Control(p), In(p)} /\ q \notin DOMAIN queues /\ UNCHANGED schedule
        /\ add_to_async_schedule(q, create_queue(memory, q, d))
        /\ q = In(p) /\ task'[p] = "endpoint"
    BY <1>3, <1>6, <1>8 DEF OpenEndpoint
  <2> QED
    BY <2>1, <2>2, QueueAdded, Zenon
<1>10. Control(p) # q /\ In(p) = q /\ q[1] = p /\ Control(p)[1] = p
  BY <1>8, QueueNames, Zenon
<1>11. ASSUME NEW k \in Ports, k # p PROVE PortSound(k)'
  <2>1. Control(k) # q /\ In(k) # q
    BY <1>8, <1>11, QueueNames, Zenon
  <2>2. inbox'[k] = inbox[k]
    BY <1>1, <1>11 DEF PortTypes
  <2>3. KeptPort(k)
    BY <1>3, <1>9, <1>11, <2>1, <2>2, Zenon DEF KeptPort, Added
  <2>4. free' = free /\ free' \in 0 .. 127
    BY <1>1, ZenonT(30) DEF PortTypes
  <2> QED
    BY <2>3, <2>4, PortKept, Zenon
<1>12. /\ q \in DOMAIN queues' /\ Control(p) \in DOMAIN queues'
       /\ queues'[q] = <<>> /\ HeadOf(q)'.next = Terminate /\ HeadOf(q)'.device = address[p]
  BY <1>7, <1>9, Zenon DEF Added
<1>13. /\ QueueHead(Control(p)) \in DOMAIN memory /\ KeptQueue(Control(p))
       /\ queues[Control(p)] = <<>> /\ ~Working(Control(p))
  BY <1>1, <1>2, <1>7, <1>9, <1>10, QueueIdle, Zenon DEF HeadTypes, Added
<1>14. HeadOf(Control(p))'.device = address[p]
  BY <1>7, <1>13, Zenon DEF KeptQueue, KeptObjects, HeadOf
<1>15. QueueInv(q)' /\ QueueInv(Control(p))'
  <2>1. QueueInv(q)'
    BY <1>12, Zenon DEF QueueInv, Working, HeadOf
  <2>2. QueueInv(Control(p))'
    BY <1>7, <1>13, Zenon DEF QueueInv, Working, KeptQueue, KeptObjects
  <2> QED
    BY <2>1, <2>2
<1>16. PortInv(p)'
  <2>1. address[p] > free /\ registered[p] = address[p]
    BY <1>1, <1>2, Zenon DEF PortInv
  <2>2. "endpoint" \notin {"connect", "header"} /\ "endpoint" # "set_address"
        /\ "endpoint" \notin {"device", "config", "hierarchy"}
    OBVIOUS
  <2> QED
    BY <1>2, <1>3, <1>7, <1>10, <1>12, <1>14, <2>1, <2>2, Zenon DEF PortInv
<1>17. RequestInv(p)'
  <2>1. sent'[p] = n /\ inbox'[p] = "none" /\ Asked(p)' = n
    BY <1>1, <1>4 DEF Asked, PortTypes
  <2>2. n \in 1 .. n
    BY <1>5
  <2> QED
    BY <1>5, <1>10, <1>12, <2>1, <2>2, Zenon DEF RequestInv
<1>18. PortSound(p)'
  BY <1>8, <1>15, <1>16, <1>17, Zenon DEF PortSound
<1>19. PortTypes' /\ HandlerInv'
  <2>1. task' \in [Ports -> Absent \cup BringUp \cup Served]
        /\ inbox' \in [Ports -> {"none", "endpoint"} \cup Answers]
    BY <1>1, <1>2, <1>3 DEF PortTypes
  <2> QED
    BY <1>1, <2>1, Zenon DEF PortTypes, HandlerInv
<1>20. AddressInv'
  <2>1. Checked(p)'
    BY <1>3 DEF Checked
  <2>2. "endpoint" # "unchecked" /\ task[p] # "unchecked"
    OBVIOUS
  <2> QED
    BY <1>1, <1>2, <1>3, <2>1, <2>2, AddressKept, Zenon
<1> QED
  BY <1>9, <1>11, <1>18, <1>19, <1>20, Zenon DEF EhciInv, Added

\* Serving the request in a device's channel keeps the invariant.
LEMMA HandleRequestKeeps ==
    ASSUME EhciInv, NEW p \in Ports, handle_request(p)
    PROVE  EhciInv'
<1>1. /\ task[p] = "ready" /\ adding = Nothing /\ inbox' = [inbox EXCEPT ![p] = "none"]
      /\ UNCHANGED <<address, schedule, free, woken, sent, registered, handler>>
  BY Zenon DEF handle_request, Idle
<1>2. PICK r : r = inbox[p]
  BY Zenon
<1>3. CASE r = "endpoint" /\ OpenEndpoint(p)
  BY <1>1, <1>2, <1>3, OpenEndpointKeeps, Zenon
<1>4. CASE /\ r \in {"configuration", "interface", "descriptor"}
           /\ do_control_transfer(p, r, memory) /\ UNCHANGED <<adding, ring>>
  <2>1. PICK q : q = Control(p)
    BY Zenon
  <2>2. r \in Answers /\ r # "report"
    BY <1>4 DEF Answers
  <2>3. control_transfer(q, r, with_buffer(q, r, memory)) /\ task' = [task EXCEPT ![p] = r]
    BY <1>4, <2>1, Zenon DEF do_control_transfer
  <2> QED
    BY <1>1, <1>2, <1>4, <2>1, <2>2, <2>3, ServeKeeps, Zenon
<1>5. CASE r = "report" /\ do_interrupt_transfer(p, r, memory) /\ UNCHANGED <<adding, ring>>
  <2>1. PICK q : q = In(p)
    BY Zenon
  <2>2. r \in Answers
    BY <1>5 DEF Answers
  <2>3. interrupt_transfer(q, r, with_buffer(q, r, memory)) /\ task' = [task EXCEPT ![p] = r]
    BY <1>5, <2>1, Zenon DEF do_interrupt_transfer
  <2> QED
    BY <1>1, <1>2, <1>5, <2>1, <2>2, <2>3, ServeKeeps, Zenon
<1> QED
  BY <1>2, <1>3, <1>4, <1>5, Zenon DEF handle_request

\* The end of add_to_async_schedule: the ring is the same, and the queue that was
\* added is the only head of the reclamation list.
LEMMA RingFinished ==
    ASSUME RingInv, adding # Nothing, schedule' = Append(schedule, adding), adding' = Nothing,
           UNCHANGED ring, DOMAIN queues' = DOMAIN queues,
           \A k \in DOMAIN queues :
             /\ memory'[QueueHead(k)].link = memory[QueueHead(k)].link
             /\ memory'[QueueHead(k)].reclaim =
                  IF schedule # <<>> /\ k = schedule[Len(schedule)] THEN FALSE
                  ELSE memory[QueueHead(k)].reclaim
    PROVE  RingInv'
<1>1. PICK n, o : n = Len(schedule) /\ o = Append(schedule, adding)
  BY Zenon
<1>2. Order = o /\ Order' = o /\ schedule' = o
  BY <1>1 DEF Order
<1>3. adding \in Queues /\ schedule \in Seq(Queues) /\ n \in Nat /\ DOMAIN schedule = 1 .. n /\ (schedule = <<>> <=> n = 0)
  <2>1. adding \in Queues /\ schedule \in Seq(Queues)
    BY Zenon DEF RingInv
  <2> QED
    BY <1>1, <2>1
<1>4. /\ o \in Seq(Queues) /\ Len(o) = n + 1 /\ DOMAIN o = 1 .. n + 1 /\ o[n + 1] = adding
      /\ \A i \in 1 .. n : o[i] = schedule[i]
  <2>1. schedule \in Seq(Queues) /\ adding \in Queues /\ n = Len(schedule) /\ o = Append(schedule, adding)
    BY <1>1, <1>3, Zenon
  <2> QED
    BY <2>1, Pushed
<1>5. /\ \A i, j \in DOMAIN o : o[i] = o[j] => i = j
      /\ DOMAIN queues = { o[i] : i \in DOMAIN o }
      /\ ring = IF o = <<>> THEN Nothing ELSE o[1]
  <2>1. \A i, j \in DOMAIN o : o[i] = o[j] => i = j
    BY <1>2 DEF RingInv
  <2>2. DOMAIN queues = { o[i] : i \in DOMAIN o }
    BY <1>2 DEF RingInv
  <2>3. ring = IF o = <<>> THEN Nothing ELSE o[1]
    BY <1>2 DEF RingInv
  <2> QED
    BY <2>1, <2>2, <2>3, Zenon
<1>6. \A i \in DOMAIN o : o[i] \in DOMAIN queues
  BY <1>5
<1>7. \A i \in DOMAIN o : memory[QueueHead(o[i])].link = IF i = Len(o) THEN o[1] ELSE o[i + 1]
  BY <1>2, Zenon DEF RingInv, HeadOf
<1>8. \A i \in 1 .. n : memory[QueueHead(o[i])].reclaim <=> i = n
  BY <1>1, <1>3, <1>4, Zenon DEF RingInv, HeadOf
<1>9. memory[QueueHead(o[n + 1])].reclaim
  BY <1>4, Zenon DEF RingInv, HeadOf
<1>10. \A i \in DOMAIN o : memory'[QueueHead(o[i])].link = IF i = Len(o) THEN o[1] ELSE o[i + 1]
  BY <1>6, <1>7, ZenonT(30)
<1>11. \A i \in DOMAIN o : memory'[QueueHead(o[i])].reclaim <=> i = Len(o)
  <2> SUFFICES ASSUME NEW i \in DOMAIN o PROVE memory'[QueueHead(o[i])].reclaim <=> i = Len(o)
    BY Zenon
  <2>1. (schedule # <<>> /\ o[i] = schedule[Len(schedule)]) <=> i = n
    <3>1. i = n => schedule # <<>> /\ o[i] = schedule[n]
      BY <1>3, <1>4
    <3>2. schedule # <<>> => n \in DOMAIN o /\ o[n] = schedule[n]
      BY <1>3, <1>4
    <3> QED
      BY <1>1, <1>5, <3>1, <3>2
  <2>2. memory'[QueueHead(o[i])].reclaim = IF i = n THEN FALSE ELSE memory[QueueHead(o[i])].reclaim
    BY <1>6, <2>1, Zenon
  <2> QED
    <3>1. i # n => i \in 1 .. n \/ i = n + 1
      BY <1>3, <1>4
    <3>2. Len(o) = n + 1 /\ n # n + 1 /\ n + 1 \notin 1 .. n
      BY <1>3, <1>4
    <3> QED
      BY <1>8, <1>9, <2>2, <3>1, <3>2, Zenon
<1> QED
  <2>1. schedule' \in Seq(Queues) /\ adding' \in Queues \cup {Nothing}
    BY <1>2, <1>4, Zenon
  <2>2. (\A i \in DOMAIN schedule : HeadOf(schedule[i]).reclaim <=> i = Len(schedule))'
    BY <1>2, <1>11, Zenon DEF HeadOf
  <2>3. (adding # Nothing =>
            /\ HeadOf(adding).reclaim
            /\ \/ adding = Control(adding[1]) /\ task[adding[1]] = "connect"
               \/ adding = In(adding[1]) /\ task[adding[1]] = "endpoint")'
    BY Zenon
  <2> QED
    BY <1>2, <1>5, <1>10, <2>1, <2>2, <2>3, RingAgain, Zenon

\* What the end of it does to the memory.
LEMMA LinkedMemory ==
    ASSUME EhciInv, NEW k \in DOMAIN queues, NEW m, m = Linked(adding)
    PROVE  /\ KeptObjects(k, memory, m)
           /\ m[QueueHead(k)].link = memory[QueueHead(k)].link
           /\ m[QueueHead(k)].reclaim =
                IF schedule # <<>> /\ k = schedule[Len(schedule)] THEN FALSE
                ELSE memory[QueueHead(k)].reclaim
<1>1. QueueHead(k) \in DOMAIN memory /\ memory[QueueHead(k)] \in HeadSet
  BY Zenon DEF EhciInv, HeadTypes, HeadOf
<1>2. CASE schedule = <<>>
  <2>1. m = memory
    BY <1>2, Zenon DEF Linked
  <2> QED
    BY <1>2, <2>1, Zenon DEF KeptObjects
<1>3. CASE schedule # <<>>
  <2>1. PICK last, L : last = schedule[Len(schedule)] /\ L = QueueHead(last)
    BY Zenon
  <2>2. m = [memory EXCEPT ![L].reclaim = FALSE]
    BY <1>3, <2>1, Zenon DEF Linked
  <2>3. DOMAIN m = DOMAIN memory /\ \A o \in DOMAIN memory : o # L => m[o] = memory[o]
    BY <2>2
  <2>4. L \in DOMAIN memory => m[L] = [memory[L] EXCEPT !.reclaim = FALSE]
    BY <2>2
  <2>5. \A r : Descriptors(k, r) # L /\ Buffer(k, r) # L
    BY <2>1, ObjectNames
  <2>6. QueueHead(k) = L <=> k = last
    BY <2>1, ObjectNames, Zenon
  <2>7. PICK h, g : h \in HeadSet /\ h = memory[QueueHead(k)] /\ g = m[QueueHead(k)]
    BY <1>1, Zenon
  <2>8. g = IF k = last THEN [h EXCEPT !.reclaim = FALSE] ELSE h
    BY <1>1, <2>3, <2>4, <2>6, <2>7, Zenon
  <2>9. /\ g \in HeadSet /\ g.next = h.next /\ g.device = h.device /\ g.halted = h.halted /\ g.link = h.link
        /\ g.reclaim = IF k = last THEN FALSE ELSE h.reclaim
    BY <2>7, <2>8, Zenon DEF HeadSet
  <2>10. KeptObjects(k, memory, m)
    BY <1>1, <2>3, <2>5, <2>7, <2>9, Zenon DEF KeptObjects
  <2> QED
    BY <1>3, <2>1, <2>7, <2>9, <2>10, Zenon
<1> QED
  BY <1>2, <1>3, Zenon

\* What is kept twice is kept.
LEMMA KeptTwice ==
    ASSUME NEW k, NEW m, NEW n, NEW l, KeptObjects(k, m, n), KeptObjects(k, n, l)
    PROVE  KeptObjects(k, m, l)
<1>1. \A r : Descriptors(k, r) \in DOMAIN m =>
        Descriptors(k, r) \in DOMAIN l /\ l[Descriptors(k, r)] = m[Descriptors(k, r)]
  BY Zenon DEF KeptObjects
<1>2. \A r : Buffer(k, r) \in DOMAIN m => Buffer(k, r) \in DOMAIN l /\ l[Buffer(k, r)] = m[Buffer(k, r)]
  BY Zenon DEF KeptObjects
<1>3. QueueHead(k) \in DOMAIN m =>
        /\ QueueHead(k) \in DOMAIN l
        /\ m[QueueHead(k)] \in HeadSet => l[QueueHead(k)] \in HeadSet
        /\ l[QueueHead(k)].next = m[QueueHead(k)].next
        /\ l[QueueHead(k)].device = m[QueueHead(k)].device
        /\ l[QueueHead(k)].halted = m[QueueHead(k)].halted
  BY Zenon DEF KeptObjects
<1> QED
  BY <1>1, <1>2, <1>3, Zenon DEF KeptObjects

\* The queue of a new device is scheduled, and its first transfer starts.
LEMMA HeaderKeeps ==
    ASSUME EhciInv, NEW p \in Ports, NEW q, q = Control(p), adding = q, task[p] = "connect",
           schedule' = Append(schedule, adding), adding' = Nothing,
           do_control_transfer(p, "header", Linked(adding)),
           UNCHANGED <<ring, address, handler, free, woken, inbox, sent, registered>>
    PROVE  EhciInv'
<1>1. PortInv(p) /\ RequestInv(p) /\ PortTypes /\ RingInv /\ HeadTypes /\ HandlerInv /\ AddressInv
  BY Zenon DEF EhciInv, PortSound
<1>2. /\ task[p] \notin Absent /\ task[p] \notin Transfers /\ task[p] \notin Served /\ task[p] \in BringUp
      /\ "header" \in Transfers /\ "header" \notin Absent /\ "header" \notin Served /\ "header" \in BringUp
      /\ ~Checked(p)
  BY DEF Absent, Transfers, Steps, Answers, Served, BringUp, Checked
<1>3. q \in DOMAIN queues /\ In(p) \notin DOMAIN queues /\ p \notin woken /\ registered[p] = -1
      /\ address[p] = 0 /\ HeadOf(q).device = 0 /\ adding # Nothing /\ q # In(p) /\ q[1] = p
  <2>1. q # In(p) /\ q[1] = p /\ q \in Queues /\ q # Nothing
    BY QueueNames, Zenon
  <2> QED
    BY <1>1, <1>2, <2>1, Zenon DEF PortInv
<1>4. queues[q] = <<>> /\ QueueHead(q) \in DOMAIN memory /\ memory[QueueHead(q)] \in HeadSet
  BY <1>1, <1>2, <1>3, QueueIdle, Zenon DEF HeadTypes, HeadOf
<1>5. PICK m : m = Linked(adding)
  BY Zenon
<1>6. \A k \in DOMAIN queues :
        /\ KeptObjects(k, memory, m)
        /\ m[QueueHead(k)].link = memory[QueueHead(k)].link
        /\ m[QueueHead(k)].reclaim = IF schedule # <<>> /\ k = schedule[Len(schedule)] THEN FALSE
                                     ELSE memory[QueueHead(k)].reclaim
  BY <1>5, LinkedMemory, Zenon
<1>7. QueueHead(q) \in DOMAIN m /\ m[QueueHead(q)] \in HeadSet /\ m[QueueHead(q)].device = 0
  BY <1>3, <1>4, <1>6, Zenon DEF KeptObjects, HeadOf
<1>8. PICK r \in Transfers : r = "header"
  BY <1>2, Zenon
<1>9. control_transfer(q, r, with_buffer(q, r, m)) /\ task' = [task EXCEPT ![p] = r]
  BY <1>5, <1>8 DEF do_control_transfer
<1>10. Started(q, r, m)
  BY <1>1, <1>3, <1>4, <1>7, <1>9, ControlStarts, Zenon
<1>11. /\ memory'[QueueHead(q)] \in HeadSet /\ KeptLinks(q, m, memory')
       /\ memory'[QueueHead(q)].next = <<r, 1>> /\ <<r, 1>> # Terminate
       /\ memory'[QueueHead(q)].device = m[QueueHead(q)].device
  BY <1>7, <1>10, StartedPending, Zenon
<1>12. /\ DOMAIN queues' = DOMAIN queues /\ QueueHead(q) \in DOMAIN memory'
       /\ \A k \in DOMAIN queues : k # q => queues'[k] = queues[k]
       /\ Local(q, m, memory')
  BY <1>10, Zenon DEF Started
<1>13. ASSUME NEW k \in DOMAIN queues, k # q
       PROVE  KeptObjects(k, m, memory') /\ KeptLinks(k, m, memory') /\ QueueHead(k) \in DOMAIN memory
  <2>1. QueueHead(k) \in DOMAIN memory
    BY <1>1, Zenon DEF HeadTypes
  <2>2. QueueHead(k) \in DOMAIN m
    BY <1>6, <2>1, Zenon DEF KeptObjects
  <2> QED
    BY <1>12, <1>13, <2>1, <2>2, LocalKeeps, Zenon
<1>14. \A k : k # q => KeptQueue(k)
  BY <1>6, <1>12, <1>13, KeptTwice, Zenon DEF KeptQueue
<1>15. RingInv'
  <2>1. \A k \in DOMAIN queues :
             /\ memory'[QueueHead(k)].link = memory[QueueHead(k)].link
             /\ memory'[QueueHead(k)].reclaim =
                  IF schedule # <<>> /\ k = schedule[Len(schedule)] THEN FALSE
                  ELSE memory[QueueHead(k)].reclaim
    <3> SUFFICES ASSUME NEW k \in DOMAIN queues
                 PROVE  memory'[QueueHead(k)].link = m[QueueHead(k)].link
                        /\ memory'[QueueHead(k)].reclaim = m[QueueHead(k)].reclaim
      BY <1>6, Zenon
    <3>1. KeptLinks(k, m, memory')
      BY <1>11, <1>13, Zenon
    <3> QED
      BY <3>1 DEF KeptLinks
  <2> QED
    BY <1>1, <1>3, <1>12, <2>1, RingFinished, Zenon
<1>16. HeadTypes'
  <2> SUFFICES ASSUME NEW k \in DOMAIN queues
               PROVE  QueueHead(k) \in DOMAIN memory' /\ memory'[QueueHead(k)] \in HeadSet
    BY <1>12, Zenon DEF HeadTypes, HeadOf
  <2>1. k # q => QueueHead(k) \in DOMAIN memory /\ memory[QueueHead(k)] \in HeadSet /\ KeptQueue(k)
    BY <1>1, <1>14, Zenon DEF HeadTypes, HeadOf
  <2> QED
    BY <1>11, <1>12, <2>1, Zenon DEF KeptQueue, KeptObjects
<1>17. task'[p] = r /\ \A k \in Ports : k # p => task'[k] = task[k]
  BY <1>1, <1>9 DEF PortTypes
<1>18. ASSUME NEW k \in Ports, k # p PROVE PortSound(k)'
  <2>1. Control(k) # q /\ In(k) # q
    BY <1>18, QueueNames, Zenon
  <2>2. KeptPort(k)
    BY <1>14, <1>17, <1>18, <2>1, Zenon DEF KeptPort
  <2>3. free' = free /\ free' \in 0 .. 127
    BY <1>1, Zenon DEF PortTypes
  <2> QED
    BY <2>2, <2>3, PortKept, Zenon
<1>19. PortSound(p)'
  <2>1. QueueInv(q)'
    <3>1. Pending(q, r)'
      BY <1>10, Zenon DEF Started, Pending, Held, HeadOf
    <3>2. Pending(q, task[p])'
      BY <1>17, <3>1, Zenon DEF Pending, Held
    <3>3. Uses(p)' = q
      BY <1>8, <1>17, Zenon DEF Uses
    <3> QED
      BY <1>3, <1>17, <3>2, <3>3, Zenon DEF QueueInv
  <2>2. HeadOf(q)'.device = 0
    BY <1>7, <1>11, Zenon DEF HeadOf
  <2>3. PortInv(p)'
    <3>1. "header" # "report" /\ "header" # "set_address" /\ "header" \notin {"device", "config", "hierarchy"}
      OBVIOUS
    <3> QED
      BY <1>2, <1>3, <1>8, <1>12, <1>17, <2>2, <3>1, Zenon DEF PortInv
  <2>4. RequestInv(p)'
    BY <1>1, <1>12, Zenon DEF RequestInv, Asked
  <2> QED
    BY <1>3, <1>12, <2>1, <2>3, <2>4, Zenon DEF PortSound
<1>20. PortTypes' /\ HandlerInv'
  <2>1. task' \in [Ports -> Absent \cup BringUp \cup Served]
    BY <1>1, <1>2, <1>8, <1>9 DEF PortTypes
  <2> QED
    BY <1>1, <2>1, Zenon DEF PortTypes, HandlerInv
<1>21. AddressInv'
  <2>1. r # "unchecked" /\ task[p] # "unchecked" /\ (r \in BringUp => task[p] \in BringUp)
    BY <1>2, <1>8
  <2> QED
    BY <1>1, <1>2, <1>9, <2>1, AddressKept, Zenon
<1> QED
  BY <1>15, <1>16, <1>18, <1>19, <1>20, <1>21, Zenon DEF EhciInv

\* The queue of an endpoint is scheduled.
LEMMA EndpointKeeps ==
    ASSUME EhciInv, NEW p \in Ports, adding # Nothing, task[p] = "endpoint",
           schedule' = Append(schedule, adding), adding' = Nothing,
           memory' = Linked(adding), task' = [task EXCEPT ![p] = "ready"],
           UNCHANGED <<queues, ring, address, handler, free, woken, inbox, sent, registered>>
    PROVE  EhciInv'
<1>1. PortInv(p) /\ RequestInv(p) /\ PortTypes /\ RingInv /\ HeadTypes /\ HandlerInv /\ AddressInv
  BY Zenon DEF EhciInv, PortSound
<1>2. /\ task[p] \notin Absent /\ task[p] \notin Transfers /\ task[p] \in Served
      /\ "ready" \in Served /\ "ready" \notin Absent /\ "ready" \notin BringUp
  BY DEF Absent, Transfers, Steps, Answers, Served, BringUp
<1>3. \A k \in DOMAIN queues :
        /\ KeptObjects(k, memory, memory')
        /\ memory'[QueueHead(k)].link = memory[QueueHead(k)].link
        /\ memory'[QueueHead(k)].reclaim = IF schedule # <<>> /\ k = schedule[Len(schedule)] THEN FALSE
                                           ELSE memory[QueueHead(k)].reclaim
  <2>1. PICK m : m = Linked(adding) /\ m = memory'
    BY Zenon
  <2> QED
    BY <2>1, LinkedMemory, Zenon
<1>4. \A k : KeptQueue(k)
  BY <1>3, Zenon DEF KeptQueue
<1>5. RingInv'
  BY <1>1, <1>3, RingFinished, Zenon
<1>6. \A k \in DOMAIN queues :
        /\ QueueHead(k) \in DOMAIN memory' /\ HeadOf(k)' \in HeadSet
        /\ HeadOf(k)'.next = HeadOf(k).next /\ HeadOf(k)'.halted = HeadOf(k).halted
        /\ HeadOf(k)'.device = HeadOf(k).device
  BY <1>1, <1>3, Zenon DEF HeadTypes, HeadOf, KeptObjects
<1>7. HeadTypes'
  BY <1>6, Zenon DEF HeadTypes, HeadOf
<1>8. task'[p] = "ready" /\ \A k \in Ports : k # p => task'[k] = task[k]
  BY <1>1 DEF PortTypes
<1>9. ASSUME NEW k \in Ports, k # p PROVE PortSound(k)'
  <2>1. KeptPort(k)
    BY <1>4, <1>8, <1>9, Zenon DEF KeptPort
  <2>2. free' = free /\ free' \in 0 .. 127
    BY <1>1, Zenon DEF PortTypes
  <2> QED
    BY <2>1, <2>2, PortKept, Zenon
<1>10. PortSound(p)'
  <2>1. ASSUME NEW k \in {Control(p), In(p)}, k \in DOMAIN queues PROVE QueueInv(k)'
    <3>1. queues[k] = <<>> /\ ~Working(k)
      BY <1>2, <2>1, QueueIdle, Zenon
    <3> QED
      BY <1>6, <2>1, <3>1, Zenon DEF QueueInv, Working, HeadOf
  <2>2. PortInv(p)'
    <3>1. "ready" \notin {"connect", "header"} /\ "ready" # "set_address"
          /\ "ready" \notin {"device", "config", "hierarchy"} /\ "ready" # "report"
      OBVIOUS
    <3>2. Control(p) \in DOMAIN queues /\ p \notin woken
      BY <1>1, <1>2, Zenon DEF PortInv
    <3>3. HeadOf(Control(p))'.device = address[p] /\ address[p] > free /\ registered[p] = address[p]
      BY <1>1, <1>2, <1>6, <3>2, Zenon DEF PortInv
    <3>4. In(p) \in DOMAIN queues => HeadOf(In(p))'.device = address[p]
      BY <1>1, <1>6, Zenon DEF PortInv
    <3> QED
      BY <1>2, <1>8, <3>1, <3>2, <3>3, <3>4, Zenon DEF PortInv
  <2>3. RequestInv(p)'
    BY <1>1, Zenon DEF RequestInv, Asked
  <2> QED
    BY <2>1, <2>2, <2>3, Zenon DEF PortSound
<1>11. PortTypes' /\ HandlerInv'
  <2>1. task' \in [Ports -> Absent \cup BringUp \cup Served]
    BY <1>1, <1>2 DEF PortTypes
  <2> QED
    BY <1>1, <2>1, Zenon DEF PortTypes, HandlerInv
<1>12. AddressInv'
  <2>1. Checked(p)'
    BY <1>8 DEF Checked
  <2>2. "ready" # "unchecked" /\ task[p] # "unchecked"
    OBVIOUS
  <2> QED
    BY <1>1, <1>2, <2>1, <2>2, AddressKept, Zenon
<1> QED
  BY <1>5, <1>7, <1>9, <1>10, <1>11, <1>12, Zenon DEF EhciInv

\* The rest of add_to_async_schedule keeps the invariant.
LEMMA FinishAddingKeeps ==
    ASSUME EhciInv, FinishAdding
    PROVE  EhciInv'
<1>1. /\ adding # Nothing /\ schedule' = Append(schedule, adding) /\ adding' = Nothing
      /\ UNCHANGED <<ring, address, handler, free, woken, inbox, sent, registered>>
  BY Zenon DEF FinishAdding
<1>2. PICK p : p = adding[1]
  BY Zenon
<1>3. /\ p \in Ports
      /\ \/ adding = Control(p) /\ task[p] = "connect"
         \/ adding = In(p) /\ task[p] = "endpoint"
  <2>1. adding \in Queues
    BY <1>1, Zenon DEF EhciInv, RingInv
  <2>2. p \in Ports
    BY <1>2, <2>1, QueueNames, Zenon
  <2> QED
    BY <1>1, <1>2, <2>2, Zenon DEF EhciInv, RingInv
<1>4. CASE adding = Control(p) /\ task[p] = "connect"
  <2>1. do_control_transfer(p, "header", Linked(adding))
    BY <1>2, <1>4, Zenon DEF FinishAdding
  <2> QED
    BY <1>1, <1>3, <1>4, <2>1, HeaderKeeps, Zenon
<1>5. CASE adding = In(p) /\ task[p] = "endpoint"
  <2>1. task[p] # "connect"
    BY <1>5
  <2>2. memory' = Linked(adding) /\ task' = [task EXCEPT ![p] = "ready"] /\ UNCHANGED queues
    BY <1>2, <2>1, Zenon DEF FinishAdding
  <2> QED
    BY <1>1, <1>3, <1>5, <2>2, EndpointKeeps, Zenon
<1> QED
  BY <1>3, <1>4, <1>5, Zenon

\* Before the driver has done anything, the invariant holds.
LEMMA InitHolds == EhciInit => EhciInv
<1> SUFFICES ASSUME EhciInit PROVE EhciInv
  OBVIOUS
<1>1. DOMAIN queues = {} /\ DOMAIN schedule = {} /\ schedule \in Seq(Queues) /\ Order = <<>>
      /\ adding = Nothing /\ ring = Nothing /\ DOMAIN Order = {}
  BY DEF EhciInit, Order, Nothing
<1>2. \A p \in Ports : /\ task[p] = "unchecked" /\ inbox[p] = "none" /\ sent[p] = 0 /\ p \notin woken
                       /\ address[p] = -1 /\ registered[p] = -1
  BY DEF EhciInit
<1>3. HandlerInv
  BY DEF EhciInit, HandlerInv
<1>4. PortTypes
  BY DEF EhciInit, PortTypes, Absent
<1>5. HeadTypes
  BY <1>1, Zenon DEF HeadTypes
<1>6. RingInv
  <2>1. DOMAIN queues = { Order[i] : i \in DOMAIN Order }
    BY <1>1
  <2> QED
    BY <1>1, <2>1, Zenon DEF RingInv
<1>7. ASSUME NEW p \in Ports PROVE PortSound(p)
  <2>1. /\ task[p] \in Absent /\ task[p] \notin Transfers /\ task[p] \notin Served
        /\ task[p] # "report" /\ task[p] \notin {"connect", "header"} /\ task[p] # "set_address"
        /\ task[p] \notin {"device", "config", "hierarchy"}
    BY <1>2, <1>7, Zenon DEF Absent, Transfers, Served, Steps, Answers
  <2>2. PortInv(p)
    BY <1>1, <1>2, <2>1, Zenon DEF PortInv
  <2>3. Len(Requests(p)) \in Nat /\ Asked(p) = 0 /\ 1 .. 0 = {}
    <3>1. Len(Requests(p)) \in Nat /\ sent[p] = 0 /\ inbox[p] = "none"
      BY <1>2, EhciAssumption, Zenon
    <3> QED
      BY <3>1 DEF Asked
  <2>4. 0 <= Len(Requests(p))
    BY <2>3
  <2>5. RequestInv(p)
    BY <1>1, <1>2, <2>3, <2>4, Zenon DEF RequestInv
  <2> QED
    BY <1>1, <2>2, <2>5, Zenon DEF PortSound
<1>8. AddressInv
  <2>1. \A p \in Ports : p \in 1 .. 127 /\ task[p] \notin BringUp
    BY <1>2, EhciAssumption DEF Ports, BringUp, Steps
  <2>2. free = 127
    BY DEF EhciInit
  <2>3. \A p \in Ports : task[p] = "unchecked" => free >= 128 - p
    BY <2>1, <2>2
  <2> QED
    BY <1>2, <2>1, <2>3, Zenon DEF AddressInv
<1> QED
  BY <1>3, <1>4, <1>5, <1>6, <1>7, <1>8, Zenon DEF EhciInv

\* Every step of the driver, the drivers it serves and the controller keeps the
\* invariant.
LEMMA NextKeeps == EhciInv /\ [EhciNext]_evars => EhciInv'
<1> SUFFICES ASSUME EhciInv, [EhciNext]_evars PROVE EhciInv'
  OBVIOUS
<1>1. CASE DriverStep
  BY <1>1, HandlerKeeps, CheckProgressKeeps, FinishAddingKeeps, CheckPortsKeeps, ResumeKeeps,
     HandleRequestKeeps, Zenon DEF DriverStep
<1>2. CASE DeliverInterrupt
  BY <1>2, HandlerKeeps, Zenon
<1>3. CASE \E p \in Ports : SendRequest(p)
  BY <1>3, SendRequestKeeps, Zenon
<1>4. CASE \E q \in DOMAIN queues : Execute(q)
  BY <1>4, ExecuteKeeps, Zenon
<1>5. CASE UNCHANGED evars
  <2>1. UNCHANGED <<ring, memory, schedule, queues, adding, free, task, woken, inbox, sent, address,
                    registered, handler>>
    BY <1>5, Zenon DEF evars, software
  <2>2. HandlerInv'
    BY <2>1, Zenon DEF EhciInv, HandlerInv
  <2> QED
    BY <2>1, <2>2, UnrelatedKeeps, Zenon
<1> QED
  BY <1>1, <1>2, <1>3, <1>4, <1>5, Zenon DEF EhciNext

\* The inductive invariant of the driver and the memory it shares with the
\* controller holds, whatever the ports, the devices and their drivers' requests.
THEOREM EhciKept == EhciSpec => []EhciInv
  BY InitHolds, NextKeeps, PTL DEF EhciSpec

\* The controller's links lead through every queue of the schedule, the last one is
\* the head of the reclamation list, and what it can still execute is allocated and
\* its buffer given away: in every interleaving of the futures, the handler and the
\* controller.
THEOREM ScheduleStaysSound == EhciSpec => []ScheduleSound
  BY EhciKept, InvImpliesScheduleSound, PTL

\* A transfer under way is answered by the device its queue was made for and no
\* other, and so is the address in the name the platform bus knows a device by.
THEOREM TransfersReach == EhciSpec => []TransfersReachTheirDevice
  BY EhciKept, InvImpliesTransfersReach, PTL

=============================================================================
