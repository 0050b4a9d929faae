---------------------------- MODULE DeviceProofs ----------------------------
(***************************************************************************)
(* Proofs about the virtqueues of the GPU and block drivers, and about the *)
(* console that draws what the GPU driver shows: for queues and grids of   *)
(* any size, and any input.                                                *)
(*                                                                         *)
(* The argument for the queues: the GPU driver has one chain on its way at *)
(* any time, and the block driver never takes a descriptor back, so that   *)
(* its chains lie side by side in the table.  For the console: writing a   *)
(* character, a new row, a scroll or a deletion turns a grid that spells a *)
(* text into one that spells the next, and every drawing is followed by a  *)
(* message that outlives any flush already running.                        *)
(***************************************************************************)
EXTENDS Virtio, Console, WellFoundedInduction, TLAPS


-----------------------------------------------------------------------------
\* Virtqueues: the invariant of the two drivers.

\* Once a driver has set its queue up.
RingTypes ==
    /\ index \in 0 .. IndexModulus - 1
    /\ taken \in [index : 0 .. IndexModulus - 1, head : 0 .. QueueSize]
    /\ avail \in [Indices -> Indices] /\ DOMAIN table = Indices /\ freeList \in Seq(Indices)
    /\ commander \in [command : Nat, waits : BOOLEAN]

\* The two descriptors of a request that was made.
Request(h, e) ==
    /\ h \in Indices /\ e \in Indices /\ h # e
    /\ \A k \in DOMAIN freeList : freeList[k] # h /\ freeList[k] # e
    /\ table[h].next = e /\ table[e].next = End
    /\ table[h].object = "request" /\ table[e].object = "response"

\* Where a request is on its way to the device and back.
InRing(h) == pushed = h /\ avail[entry_of(index)] = h /\ taken.index = index
Published(h) == /\ pushed = NoChain /\ index = (taken.index + 1) % IndexModulus
                /\ avail[entry_of(taken.index)] = h
Reached(h) == /\ pushed = NoChain /\ taken.index = index
              /\ avail[entry_of(index + IndexModulus - 1)] = h

\* No interrupt for a completed chain is pending; others may be.
Quiet == "completed" \notin event

\* The GPU driver between two requests ...
GpuIdle ==
    /\ ~ commander.waits /\ Quiet /\ pushed = NoChain
    /\ taken.index = index /\ taken.head = NoChain /\ Len(freeList) = QueueSize

\* ... and while it waits for one.
GpuWaits(h, e) ==
    /\ commander.waits /\ Len(freeList) = QueueSize - 2
    /\ DOMAIN buffers = {"request", "response"}
    /\ Request(h, e)
    /\ \/ InRing(h) /\ taken.head = NoChain /\ Quiet
       \/ Published(h) /\ taken.head = NoChain /\ Quiet
       \/ Reached(h) /\ taken.head = h /\ Quiet
       \/ Reached(h) /\ taken.head = NoChain /\ ~ Quiet

\* The GPU driver has all descriptors back before it makes another request, so
\* that at most one chain exists. Where its head is follows it around: in the
\* ring, published, with the device, answered.
GpuInv ==
    /\ tokens = {}
    /\ \A j, k \in DOMAIN freeList : freeList[j] = freeList[k] => j = k
    /\ GpuIdle \/ \E h, e \in Indices : GpuWaits(h, e)

\* The block driver never gives descriptors back: its reads take three each,
\* from the back of the list, and the chain of read k starts here.
ReadHead(k) == QueueSize - 1 - 3 * k

\* The chain of read k is in the ring as it was built: request, data, status.
ReadIntact(k) ==
    /\ avail[k] = ReadHead(k)
    /\ table[ReadHead(k)].object \in DOMAIN buffers
    /\ table[ReadHead(k) - 1].object \in DOMAIN buffers
    /\ table[ReadHead(k) - 2].object \in DOMAIN buffers
    /\ table[ReadHead(k)].next = ReadHead(k) - 1 /\ table[ReadHead(k) - 1].next = ReadHead(k) - 2
    /\ table[ReadHead(k) - 2].next = End

\* n reads were made, the last of them published or not yet.
ReadsMade(n) ==
    /\ Len(freeList) + 3 * n = QueueSize
    /\ \A k \in 0 .. n - 1 : ReadIntact(k)
    /\ \/ pushed = NoChain /\ index = n
       \/ pushed # NoChain /\ index + 1 = n

\* The block driver: the device has taken none but these reads, in their order.
BlockInv ==
    /\ slots.request \in Seq(1 .. Slots) /\ slots.data \in Seq(1 .. Slots)
    /\ tokens \subseteq [request : 1 .. Slots, data : 1 .. Slots]
    /\ DOMAIN buffers = {"request", "data"} \X (1 .. Slots)
    /\ \A i \in DOMAIN freeList : freeList[i] = i - 1
    /\ \E n \in Nat : ReadsMade(n)
    /\ taken.index <= index
    /\ \/ taken.head = NoChain
       \/ taken.index >= 1 /\ taken.head = ReadHead(taken.index - 1)

\* The inductive invariant: what holds depends on the driver that runs, and for the
\* GPU driver ends when it goes on after an interrupt for something else.
VirtioInv ==
    \/ driver = "off" /\ VirtioInit
    \/ driver = "gpu" /\ early
    \/ driver = "gpu" /\ RingTypes /\ GpuInv
    \/ driver = "block" /\ RingTypes /\ BlockInv

-----------------------------------------------------------------------------
\* Indices and entries.

\* Two sequences in a row.
LEMMA InARow ==
    ASSUME NEW S, NEW p \in Seq(S), NEW q \in Seq(S)
    PROVE  /\ p \o q \in Seq(S) /\ Len(p \o q) = Len(p) + Len(q)
           /\ \A i \in 1 .. Len(p) + Len(q) :
                 (p \o q)[i] = IF i <= Len(p) THEN p[i] ELSE q[i - Len(p)]
<1>1. p \o q \in Seq(S)
  OBVIOUS
<1>2. Len(p \o q) = Len(p) + Len(q)
  OBVIOUS
<1>3. ASSUME NEW i \in 1 .. Len(p) + Len(q), i <= Len(p) PROVE (p \o q)[i] = p[i]
  BY <1>3
<1>4. ASSUME NEW i \in 1 .. Len(p) + Len(q), ~(i <= Len(p))
      PROVE  (p \o q)[i] = q[i - Len(p)]
  BY <1>4
<1> QED
  BY <1>1, <1>2, <1>3, <1>4, Zenon

\* Division with a remainder.
LEMMA Division ==
    ASSUME NEW s \in Nat \ {0}, NEW b \in Nat
    PROVE  \E q, r \in Nat : b = q * s + r /\ r = b % s /\ r < s
<1>1. b = s * (b \div s) + (b % s) /\ b \div s \in Nat /\ b % s \in 0 .. s - 1
  BY SMT
<1>2. PICK d \in Nat, u \in 0 .. s - 1 : d = b \div s /\ u = b % s
  BY <1>1
<1>3. b = d * s + u /\ u \in Nat /\ u < s
  BY <1>1, <1>2
<1> QED
  BY <1>2, <1>3

\* A remainder is determined by its bounds.
LEMMA Remainder ==
    ASSUME NEW s \in Nat \ {0}, NEW q \in Nat, NEW r \in Nat, r < s
    PROVE  (q * s + r) % s = r
<1>1. PICK b \in Nat : b = q * s + r
  OBVIOUS
<1>3. PICK d \in Nat, u \in Nat : b = d * s + u /\ u = b % s /\ u < s
  BY Division, Zenon
<1>4. s * d + u = s * q + r
  BY <1>1, <1>3
<1>5. CASE d = q
  <2>1. PICK p \in Nat : s * q = p /\ s * d = p
    BY <1>5
  <2>2. u = r
    BY <1>4, <2>1
  <2> QED
    BY <1>1, <1>3, <2>2, Zenon
<1>6. CASE d < q
  <2>1. PICK c \in Nat : q = d + 1 + c
    <3>1. q - d - 1 \in Nat /\ q = d + 1 + (q - d - 1)
      BY <1>6
    <3> QED
      BY <3>1
  <2>2. s * q = s * d + s + s * c /\ s * c \in Nat /\ s * d \in Nat
    BY <2>1
  <2> QED
    BY <1>3, <1>4, <2>2
<1>7. CASE d > q
  <2>1. PICK c \in Nat : d = q + 1 + c
    <3>1. d - q - 1 \in Nat /\ d = q + 1 + (d - q - 1)
      BY <1>7
    <3> QED
      BY <3>1
  <2>2. s * d = s * q + s + s * c /\ s * c \in Nat /\ s * q \in Nat
    BY <2>1
  <2> QED
    BY <1>3, <1>4, <2>2
<1> QED
  BY <1>5, <1>6, <1>7

\* Small numbers are their own remainders.
LEMMA SmallRemainder ==
    ASSUME NEW s \in Nat \ {0}, NEW r \in Nat, r < s
    PROVE  r % s = r /\ (r + s) % s = r
<1>1. 0 * s + r = r /\ 1 * s + r = r + s
  OBVIOUS
<1> QED
  BY <1>1, Remainder, 0 \in Nat, 1 \in Nat

\* The index and the index one round later stand for the same entry.
LEMMA SameEntry ==
    ASSUME NEW t \in Nat
    PROVE  /\ entry_of(t) \in Indices /\ entry_of(t + IndexModulus) = entry_of(t)
           /\ t < QueueSize => entry_of(t) = t
<1>1. QueueSize \in Nat \ {0} /\ IndexModulus \in Nat
  BY QueueAssumption
<1>3. PICK q \in Nat, r \in Nat : t = q * QueueSize + r /\ r = t % QueueSize /\ r < QueueSize
  BY <1>1, Division
<1>4. PICK c \in Nat : IndexModulus = c * QueueSize
  <2>1. PICK c \in Nat, u \in Nat : /\ IndexModulus = c * QueueSize + u
                                   /\ u = IndexModulus % QueueSize
    BY <1>1, Division
  <2>2. u = 0
    BY <2>1, QueueAssumption
  <2> QED
    BY <1>1, <2>1, <2>2
<1>5. t + IndexModulus = (q + c) * QueueSize + r /\ q + c \in Nat
  BY <1>1, <1>3, <1>4
<1>6. (t + IndexModulus) % QueueSize = r
  BY <1>1, <1>3, <1>5, Remainder, Zenon
<1>7. t < QueueSize => t % QueueSize = t
  BY <1>1, SmallRemainder
<1> QED
  BY <1>1, <1>3, <1>6, <1>7 DEF entry_of, Indices

\* There are at least as many indices as entries.
LEMMA ModulusBound == QueueSize \in Nat \ {0} /\ IndexModulus \in Nat \ {0} /\ QueueSize <= IndexModulus
<1>1. QueueSize \in Nat \ {0} /\ IndexModulus \in Nat \ {0}
  BY QueueAssumption
<1>2. ~(IndexModulus < QueueSize)
  BY <1>1, SmallRemainder, QueueAssumption
<1> QED
  BY <1>1, <1>2

\* The entry before the index is the entry the device looks at next when it is
\* one chain behind, also when the index has just wrapped.
LEMMA OneBehind ==
    ASSUME NEW t \in 0 .. IndexModulus - 1, NEW i, i = (t + 1) % IndexModulus
    PROVE  /\ i \in 0 .. IndexModulus - 1
           /\ entry_of(i + IndexModulus - 1) = entry_of(t)
           /\ (i + IndexModulus - t) % IndexModulus = 1
<1>1. IndexModulus \in Nat /\ IndexModulus >= 2 /\ t \in Nat
  BY ModulusBound, QueueAssumption
<1>2. CASE t + 1 < IndexModulus
  <2>1. i = t + 1
    BY <1>1, <1>2, SmallRemainder
  <2>2. i + IndexModulus - 1 = t + IndexModulus /\ i + IndexModulus - t = 1 + IndexModulus
    BY <1>1, <2>1
  <2>3. (1 + IndexModulus) % IndexModulus = 1
    BY <1>1, SmallRemainder
  <2> QED
    BY <1>1, <1>2, <2>1, <2>2, <2>3, SameEntry
<1>3. CASE t + 1 = IndexModulus
  <2>1. IndexModulus % IndexModulus = 0
    BY <1>1, SmallRemainder
  <2>2. i = 0
    BY <1>3, <2>1
  <2>3. i + IndexModulus - 1 = t /\ i + IndexModulus - t = 1 /\ 1 % IndexModulus = 1
    BY <1>1, <1>3, <2>2, SmallRemainder
  <2> QED
    BY <1>1, <2>2, <2>3
<1> QED
  BY <1>1, <1>2, <1>3

\* How far the index is ahead of the device.
LEMMA Ahead ==
    ASSUME NEW t \in 0 .. IndexModulus - 1, NEW i \in 0 .. IndexModulus - 1, t <= i
    PROVE  (i + IndexModulus - t) % IndexModulus = i - t
<1>1. PICK r \in Nat : r = i - t /\ r < IndexModulus /\ i + IndexModulus - t = r + IndexModulus
  BY ModulusBound
<1> QED
  BY <1>1, ModulusBound, SmallRemainder

-----------------------------------------------------------------------------
\* Chains of descriptors.

\* The descriptor after one of a chain.
After(i) == IF i = End THEN End ELSE table[i].next

\* A chain, one descriptor after the other.
LEMMA ChainThrough ==
    ASSUME NEW h, NEW a, NEW b, NEW c, a = After(h), b = After(a), c = After(b)
    PROVE  Chain(h) = {h, a, b, c} \ {End}
<1> DEFINE Along(f) == f = [k \in 0 .. 3 |->
                              IF k = 0 THEN h
                              ELSE IF f[k - 1] = End THEN End ELSE table[f[k - 1]].next]
<1>1. Chain(h) = LET x == CHOOSE x : Along(x) IN { x[k] : k \in 0 .. 3 } \ {End}
  BY Zenon DEF Chain
<1>2. PICK g : g = [k \in 0 .. 3 |-> IF k = 0 THEN h ELSE IF k = 1 THEN a ELSE IF k = 2 THEN b ELSE c]
  BY Zenon
<1>3. Along(g)
  <2>1. g[0] = h /\ g[1] = a /\ g[2] = b /\ g[3] = c
    BY <1>2
  <2>2. ASSUME NEW k \in 0 .. 3
        PROVE  g[k] = IF k = 0 THEN h ELSE IF g[k - 1] = End THEN End ELSE table[g[k - 1]].next
    <3>1. k = 0 \/ (k = 1 /\ k - 1 = 0) \/ (k = 2 /\ k - 1 = 1) \/ (k = 3 /\ k - 1 = 2)
      OBVIOUS
    <3> QED
      BY <2>1, <3>1, Zenon DEF After
  <2> QED
    BY <1>2, <2>2
<1>4. PICK f : Along(f) /\ f = CHOOSE x : Along(x)
  BY <1>3, Zenon
<1>5. f[0] = h /\ f[1] = a /\ f[2] = b /\ f[3] = c
  <2>1. \A k \in 0 .. 3 : f[k] = IF k = 0 THEN h
                                 ELSE IF f[k - 1] = End THEN End ELSE table[f[k - 1]].next
    BY <1>4, Zenon
  <2>2. f[0] = h
    BY <2>1
  <2>3. f[1] = a
    BY <2>1, <2>2 DEF After
  <2>4. f[2] = b
    BY <2>1, <2>3 DEF After
  <2> QED
    BY <2>1, <2>2, <2>3, <2>4 DEF After
<1>6. { f[k] : k \in 0 .. 3 } = {h, a, b, c}
  BY <1>5
<1> QED
  BY <1>1, <1>4, <1>6, SMTT(30)

\* A chain of two descriptors.
LEMMA ChainOfTwo ==
    ASSUME NEW h \in Indices, NEW e \in Indices, table[h].next = e, table[e].next = End
    PROVE  Chain(h) = {h, e}
<1>1. h # End /\ e # End
  BY ModulusBound DEF Indices, End
<1>2. After(h) = e /\ After(e) = End /\ After(End) = End
  BY <1>1 DEF After
<1>3. Chain(h) = {h, e, End, End} \ {End}
  BY <1>2, ChainThrough
<1> QED
  BY <1>1, <1>3

\* A chain of three.
LEMMA ChainOfThree ==
    ASSUME NEW h \in Indices, NEW d \in Indices, NEW e \in Indices,
           table[h].next = d, table[d].next = e, table[e].next = End
    PROVE  Chain(h) = {h, d, e}
<1>1. h # End /\ d # End /\ e # End
  BY ModulusBound DEF Indices, End
<1>2. After(h) = d /\ After(d) = e /\ After(e) = End
  BY <1>1 DEF After
<1>3. Chain(h) = {h, d, e, End} \ {End}
  BY <1>2, ChainThrough
<1> QED
  BY <1>1, <1>3

\* n different descriptors.
Distinct(n, ds) ==
    /\ DOMAIN ds = 1 .. n /\ Len(ds) = n
    /\ \A k \in 1 .. n : ds[k] \in Indices
    /\ \A j, k \in 1 .. n : ds[j] = ds[k] => j = k

\* A table that has a chain of n descriptors in it, and is otherwise the same.
HasChain(n, ds, objects, t) ==
    /\ DOMAIN t = Indices
    /\ \A k \in 1 .. n : /\ t[ds[k]].object = objects[k]
                         /\ t[ds[k]].next = IF k < n THEN ds[k + 1] ELSE End
    /\ \A i \in Indices : (\A k \in 1 .. n : ds[k] # i) => t[i] = table[i]

\* What a chain of descriptors looks like in the table, for the ones in it and
\* for the others.
LEMMA ChainedWrites ==
    ASSUME NEW ds, NEW objects, NEW writes, NEW n \in Nat, Distinct(n, ds),
           NEW t, t = Chained(ds, objects, writes)
    PROVE  HasChain(n, ds, objects, t)
<1>0. /\ DOMAIN ds = 1 .. n /\ Len(ds) = n
      /\ \A k \in 1 .. n : ds[k] \in Indices
      /\ \A j, k \in 1 .. n : ds[j] = ds[k] => j = k
  BY Zenon DEF Distinct
<1>1. t = [i \in Indices |->
             IF \E k \in DOMAIN ds : ds[k] = i
             THEN LET k == CHOOSE k \in DOMAIN ds : ds[k] = i
                  IN [object |-> objects[k], writes |-> writes[k],
                      next |-> IF k < Len(ds) THEN ds[k + 1] ELSE End]
             ELSE table[i]]
  BY Zenon DEF Chained
<1>2. ASSUME NEW k \in 1 .. n
      PROVE  /\ t[ds[k]].object = objects[k]
             /\ t[ds[k]].next = IF k < n THEN ds[k + 1] ELSE End
  <2>1. (CHOOSE x \in DOMAIN ds : ds[x] = ds[k]) = k
    <3>1. PICK j : j = CHOOSE x \in DOMAIN ds : ds[x] = ds[k]
      BY Zenon
    <3>2. j \in DOMAIN ds /\ ds[j] = ds[k]
      BY <1>0, <3>1, Zenon
    <3> QED
      BY <1>0, <3>1, <3>2
  <2>2. t[ds[k]] = [object |-> objects[k], writes |-> writes[k],
                    next |-> IF k < Len(ds) THEN ds[k + 1] ELSE End]
    BY <1>0, <1>1, <2>1
  <2> QED
    BY <1>0, <2>2
<1>3. ASSUME NEW i \in Indices, \A k \in 1 .. n : ds[k] # i
      PROVE  t[i] = table[i]
  BY <1>0, <1>1, <1>3
<1>4. DOMAIN t = Indices
  BY <1>1
<1> QED
  BY <1>2, <1>3, <1>4, Zenon DEF HasChain

\* n descriptors are off the end of the free list, and the rest stays.
TakenOff(n, ds, rest) ==
    /\ \A k \in 1 .. n : ds[k] = freeList[Len(freeList) + 1 - k]
    /\ rest \in Seq(Indices) /\ Len(rest) = Len(freeList) - n
    /\ \A k \in DOMAIN rest : k \in DOMAIN freeList /\ rest[k] = freeList[k]
    /\ \A k \in DOMAIN rest, j \in 1 .. n : rest[k] # ds[j]

\* No descriptor is twice in the free list.
NoneTwice == \A j, k \in DOMAIN freeList : freeList[j] = freeList[k] => j = k

\* The descriptors that are allocated come off the end of the free list.
LEMMA AllocatedFrom ==
    ASSUME freeList \in Seq(Indices), NEW n \in 1 .. Len(freeList),
           NoneTwice, NEW ds, ds = Allocated(n), NEW rest, rest = Remaining(n)
    PROVE  Distinct(n, ds) /\ TakenOff(n, ds, rest)
<1>1. PICK m \in Nat : m = Len(freeList) /\ DOMAIN freeList = 1 .. m /\ n <= m
  OBVIOUS
<1>2. ds = [i \in 1 .. n |-> freeList[m + 1 - i]]
  BY <1>1 DEF Allocated
<1>3. \A k \in 1 .. n : ds[k] = freeList[m + 1 - k] /\ m + 1 - k \in 1 .. m
  BY <1>1, <1>2
<1>4. \A k \in 1 .. n : ds[k] \in Indices
  <2>1. \A i \in 1 .. m : freeList[i] \in Indices
    BY <1>1
  <2> QED
    BY <1>3, <2>1, Zenon
<1>5. DOMAIN ds = 1 .. n /\ Len(ds) = n
  BY <1>2
<1>6. \A j, k \in 1 .. n : ds[j] = ds[k] => j = k
  <2> SUFFICES ASSUME NEW j \in 1 .. n, NEW k \in 1 .. n, ds[j] = ds[k] PROVE j = k
    OBVIOUS
  <2>1. PICK a \in 1 .. m, b \in 1 .. m : a = m + 1 - j /\ b = m + 1 - k
    BY <1>3
  <2>2. freeList[a] = freeList[b]
    BY <1>3, <2>1, Zenon
  <2>3. a = b
    BY <1>1, <2>2, Zenon DEF NoneTwice
  <2> QED
    BY <1>1, <2>1, <2>3
<1>7. /\ rest \in Seq(Indices) /\ Len(rest) = m - n /\ DOMAIN rest = 1 .. m - n
      /\ \A k \in 1 .. m - n : rest[k] = freeList[k] /\ k \in 1 .. m
  BY <1>1 DEF Remaining
<1>8. ASSUME NEW k \in DOMAIN rest, NEW j \in 1 .. n PROVE rest[k] # ds[j]
  <2>1. PICK a \in 1 .. m : a = m + 1 - j /\ ds[j] = freeList[a]
    BY <1>3
  <2>2. k # a /\ k \in 1 .. m /\ rest[k] = freeList[k]
    <3>1. k \in 1 .. m - n /\ rest[k] = freeList[k] /\ k \in 1 .. m
      BY <1>7, Zenon
    <3> QED
      BY <1>1, <2>1, <3>1
  <2> QED
    BY <1>1, <2>1, <2>2, Zenon DEF NoneTwice
<1>9. Distinct(n, ds)
  BY <1>4, <1>5, <1>6, Zenon DEF Distinct
<1>10. \A k \in DOMAIN rest : k \in DOMAIN freeList /\ rest[k] = freeList[k]
  BY <1>1, <1>7
<1> QED
  BY <1>1, <1>3, <1>7, <1>8, <1>9, <1>10, Zenon DEF TakenOff

-----------------------------------------------------------------------------
\* The GPU driver.

\* A new queue.
LEMMA NewQueue ==
    ASSUME VirtioInit, Virtqueue_new, UNCHANGED <<index, pushed, taken, event, commander>>
    PROVE  /\ RingTypes' /\ Len(freeList') = QueueSize
           /\ \A i \in DOMAIN freeList' : freeList'[i] = i - 1
<1>1. QueueSize \in Nat \ {0} /\ IndexModulus \in Nat \ {0}
  BY ModulusBound
<1>2. /\ freeList' = [i \in 1 .. QueueSize |-> i - 1]
      /\ table' = [i \in Indices |-> [object |-> "none", writes |-> FALSE, next |-> End]]
      /\ avail' = [i \in Indices |-> 0]
  BY DEF Virtqueue_new
<1>3. freeList' \in Seq(Indices) /\ Len(freeList') = QueueSize
  BY <1>1, <1>2 DEF Indices
<1>4. avail' \in [Indices -> Indices] /\ DOMAIN table' = Indices
  BY <1>1, <1>2 DEF Indices
<1>5. /\ index' = 0 /\ taken' = [index |-> 0, head |-> NoChain]
      /\ commander' = [command |-> 1, waits |-> FALSE]
  BY DEF VirtioInit
<1>6. index' \in 0 .. IndexModulus - 1 /\ taken' \in [index : 0 .. IndexModulus - 1, head : 0 .. QueueSize]
  BY <1>1, <1>5 DEF NoChain
<1>7. commander' \in [command : Nat, waits : BOOLEAN]
  BY <1>5
<1> QED
  BY <1>1, <1>2, <1>3, <1>4, <1>6, <1>7 DEF RingTypes

\* The GPU driver starts with nothing on its way.
LEMMA GpuStartsStep ==
    ASSUME VirtioInit, GpuStarts PROVE driver' = "gpu" /\ RingTypes' /\ GpuInv'
<1>1. /\ driver' = "gpu" /\ Virtqueue_new
      /\ UNCHANGED <<index, pushed, taken, event, commander, tokens>>
  BY DEF GpuStarts
<1>2. /\ RingTypes' /\ Len(freeList') = QueueSize
      /\ \A i \in DOMAIN freeList' : freeList'[i] = i - 1
  BY <1>1, NewQueue
<1>3. NoneTwice'
  <2>1. DOMAIN freeList' = 1 .. QueueSize
    BY <1>2 DEF RingTypes
  <2> QED
    BY <1>2, <2>1, ModulusBound DEF NoneTwice
<1>4. GpuIdle'
  <2>1. ~ commander'.waits /\ Quiet'
    BY <1>1 DEF VirtioInit, Quiet
  <2>2. pushed' = NoChain /\ taken'.index = index' /\ taken'.head = NoChain
    BY <1>1 DEF VirtioInit
  <2> QED
    BY <1>2, <2>1, <2>2, Zenon DEF GpuIdle, NoChain
<1>5. tokens' = {}
  BY <1>1 DEF VirtioInit
<1> QED
  BY <1>1, <1>2, <1>3, <1>4, <1>5, Zenon DEF GpuInv, NoneTwice

\* A chain is put in the ring.
LEMMA EntryWritten ==
    ASSUME RingTypes, NEW h \in Indices, push_entry(h)
    PROVE  /\ avail' \in [Indices -> Indices] /\ avail'[entry_of(index)] = h /\ pushed' = h
           /\ \A i \in Indices : i # entry_of(index) => avail'[i] = avail[i]
<1>1. entry_of(index) \in Indices /\ avail \in [Indices -> Indices]
  <2>1. index \in Nat /\ avail \in [Indices -> Indices]
    BY ModulusBound DEF RingTypes
  <2> QED
    BY <2>1, SameEntry
<1> QED
  BY <1>1 DEF push_entry

\* make_request puts two descriptors that were free in the ring.
LEMMA MakeRequestStep ==
    ASSUME RingTypes, GpuInv, make_request PROVE RingTypes' /\ GpuInv'
<1>1. PICK ds : /\ ds = Allocated(2)
                /\ buffers' = [request |-> Commands[commander.command], response |-> "uninitialised"]
                /\ freeList' = Remaining(2)
                /\ table' = Chained(ds, <<"request", "response">>, <<FALSE, TRUE>>)
                /\ push_entry(ds[1])
  BY Zenon DEF make_request
<1>2. /\ ~ commander.waits /\ commander' = [commander EXCEPT !.waits = TRUE]
      /\ UNCHANGED <<index, taken, event, tokens>>
  BY Zenon DEF make_request
<1>3. GpuIdle /\ NoneTwice /\ tokens = {}
  BY <1>2, Zenon DEF GpuInv, GpuWaits, NoneTwice
<1>4. freeList \in Seq(Indices) /\ 2 \in 1 .. Len(freeList) /\ Len(freeList) = QueueSize
  BY <1>3, QueueAssumption DEF RingTypes, GpuIdle
<1>5. /\ DOMAIN ds = 1 .. 2 /\ Len(ds) = 2
      /\ \A k \in 1 .. 2 : ds[k] \in Indices
      /\ \A j, k \in 1 .. 2 : ds[j] = ds[k] => j = k
      /\ freeList' \in Seq(Indices) /\ Len(freeList') = Len(freeList) - 2
      /\ \A k \in DOMAIN freeList' : k \in DOMAIN freeList /\ freeList'[k] = freeList[k]
      /\ \A k \in DOMAIN freeList', j \in 1 .. 2 : freeList'[k] # ds[j]
  <2>1. Distinct(2, ds) /\ TakenOff(2, ds, freeList')
    BY <1>1, <1>3, <1>4, AllocatedFrom, Zenon
  <2> QED
    BY <2>1 DEF Distinct, TakenOff
<1>6. PICK h \in Indices, e \in Indices : h = ds[1] /\ e = ds[2] /\ h # e
  BY <1>5
<1>7. /\ DOMAIN table' = Indices
      /\ table'[h].object = "request" /\ table'[h].next = e
      /\ table'[e].object = "response" /\ table'[e].next = End
  <2>1. /\ DOMAIN table' = Indices
        /\ \A k \in 1 .. 2 : /\ table'[ds[k]].object = <<"request", "response">>[k]
                              /\ table'[ds[k]].next = IF k < 2 THEN ds[k + 1] ELSE End
    <3>1. Distinct(2, ds)
      BY <1>5 DEF Distinct
    <3> QED
      BY <1>1, <3>1, ChainedWrites, 2 \in Nat DEF HasChain
  <2> QED
    BY <1>6, <2>1
<1>8. avail' \in [Indices -> Indices] /\ avail'[entry_of(index)] = h /\ pushed' = h
  BY <1>1, <1>6, EntryWritten
<1>9. commander' \in [command : Nat, waits : BOOLEAN] /\ commander'.waits
  BY <1>2, Zenon DEF RingTypes
<1>10. RingTypes'
  BY <1>2, <1>5, <1>7, <1>8, <1>9, Zenon DEF RingTypes, Indices
<1>11. NoneTwice'
  BY <1>3, <1>5 DEF NoneTwice
<1>12. Request(h, e)'
  BY <1>5, <1>6, <1>7 DEF Request, Indices, End
<1>13. InRing(h)' /\ taken'.head = NoChain /\ Quiet'
  BY <1>2, <1>3, <1>8, Zenon DEF InRing, GpuIdle, entry_of, Quiet
<1>14. DOMAIN buffers' = {"request", "response"}
  BY <1>1
<1>15. GpuWaits(h, e)'
  BY <1>4, <1>5, <1>9, <1>12, <1>13, <1>14, Zenon DEF GpuWaits, NoChain
<1> QED
  BY <1>2, <1>3, <1>10, <1>11, <1>15, Zenon DEF GpuInv, Indices, NoneTwice

\* Which requests are on their way while the GPU driver waits.
LEMMA Waiting ==
    ASSUME GpuInv, pushed # NoChain \/ taken.index # index \/ taken.head # NoChain \/ ~ Quiet
    PROVE  /\ tokens = {} /\ NoneTwice
           /\ \E h, e \in Indices : GpuWaits(h, e)
<1>1. ~ GpuIdle
  BY Zenon DEF GpuIdle
<1> QED
  BY <1>1, Zenon DEF GpuInv, NoneTwice

\* Publish shows the device the chain that was put in the ring.
LEMMA GpuPublishStep ==
    ASSUME RingTypes, GpuInv, Publish PROVE RingTypes' /\ GpuInv'
<1>1. /\ pushed # NoChain /\ index' = (index + 1) % IndexModulus /\ pushed' = NoChain
      /\ UNCHANGED <<freeList, table, avail, taken, event, buffers, commander, tokens>>
  BY DEF Publish
<1>2. PICK h \in Indices, e \in Indices : tokens = {} /\ NoneTwice /\ GpuWaits(h, e)
  BY <1>1, Waiting, Zenon
<1>3. InRing(h) /\ taken.head = NoChain /\ Quiet
  BY <1>1, <1>2, Zenon DEF GpuWaits, Published, Reached
<1>4. index' \in 0 .. IndexModulus - 1
  BY <1>1, OneBehind, Zenon DEF RingTypes
<1>5. RingTypes'
  BY <1>1, <1>4, Zenon DEF RingTypes, Indices
<1>6. Published(h)' /\ taken'.head = NoChain /\ Quiet'
  BY <1>1, <1>3, Zenon DEF InRing, Published, entry_of, NoChain, Quiet
<1>7. GpuWaits(h, e)'
  BY <1>1, <1>2, <1>6, Zenon DEF GpuWaits, Request, Indices, NoChain, End
<1> QED
  BY <1>1, <1>2, <1>5, <1>7, Zenon DEF GpuInv, NoneTwice, Indices

\* The device takes the one chain there is.
LEMMA GpuTakeStep ==
    ASSUME RingTypes, GpuInv, TakeChain PROVE RingTypes' /\ GpuInv'
<1>1. /\ taken.index # index
      /\ taken' = [index |-> (taken.index + 1) % IndexModulus,
                   head |-> avail[taken.index % QueueSize]]
      /\ UNCHANGED <<freeList, table, avail, index, pushed, event, buffers, commander, tokens>>
  BY DEF TakeChain
<1>2. PICK h \in Indices, e \in Indices : tokens = {} /\ NoneTwice /\ GpuWaits(h, e)
  BY <1>1, Waiting, Zenon
<1>3. Published(h) /\ Quiet
  BY <1>1, <1>2, Zenon DEF GpuWaits, InRing, Reached
<1>4. /\ index \in 0 .. IndexModulus - 1 /\ taken.index \in 0 .. IndexModulus - 1
      /\ entry_of(index + IndexModulus - 1) = entry_of(taken.index)
  <2>1. taken.index \in 0 .. IndexModulus - 1
    BY DEF RingTypes
  <2> QED
    BY <1>3, <2>1, OneBehind, Zenon DEF Published
<1>5. taken'.index = index /\ taken'.head = h
  BY <1>1, <1>3 DEF Published, entry_of
<1>6. taken' \in [index : 0 .. IndexModulus - 1, head : 0 .. QueueSize]
  <2>1. h \in 0 .. QueueSize
    BY ModulusBound DEF Indices
  <2>2. taken' = [index |-> index, head |-> h]
    BY <1>1, <1>3 DEF Published, entry_of
  <2> QED
    BY <1>4, <2>1, <2>2
<1>7. RingTypes'
  BY <1>1, <1>6, Zenon DEF RingTypes, Indices
<1>8. Reached(h)' /\ taken'.head = h /\ Quiet'
  BY <1>1, <1>3, <1>4, <1>5, Zenon DEF Published, Reached, entry_of, NoChain, Quiet
<1>9. GpuWaits(h, e)'
  BY <1>1, <1>2, <1>8, Zenon DEF GpuWaits, Request, Indices, NoChain, End
<1> QED
  BY <1>1, <1>2, <1>7, <1>9, Zenon DEF GpuInv, NoneTwice, Indices

\* The device finishes the chain and interrupts.
LEMMA GpuCompleteStep ==
    ASSUME driver = "gpu", RingTypes, GpuInv, CompleteChain PROVE RingTypes' /\ GpuInv'
<1>1. /\ taken.head # NoChain /\ taken' = [taken EXCEPT !.head = NoChain] /\ ~ Quiet'
      /\ UNCHANGED <<freeList, table, avail, index, pushed, commander, tokens>>
  BY Zenon DEF CompleteChain, Quiet
<1>2. PICK h \in Indices, e \in Indices : tokens = {} /\ NoneTwice /\ GpuWaits(h, e)
  BY <1>1, Waiting, Zenon
<1>3. Reached(h)
  BY <1>1, <1>2, Zenon DEF GpuWaits
<1>4. /\ taken' \in [index : 0 .. IndexModulus - 1, head : 0 .. QueueSize]
      /\ taken'.index = taken.index /\ taken'.head = NoChain
  <2>1. taken \in [index : 0 .. IndexModulus - 1, head : 0 .. QueueSize] /\ NoChain \in 0 .. QueueSize
    BY ModulusBound DEF RingTypes, NoChain
  <2> QED
    BY <1>1, <2>1
<1>5. RingTypes'
  BY <1>1, <1>4, Zenon DEF RingTypes, Indices
<1>6. DOMAIN buffers' = {"request", "response"}
  <2>1. PICK answer : buffers' = [buffers EXCEPT !.response = answer]
    BY Zenon DEF CompleteChain
  <2> QED
    BY <1>2, <2>1, Zenon DEF GpuWaits
<1>7. Reached(h)' /\ taken'.head = NoChain
  BY <1>1, <1>3, <1>4, Zenon DEF Reached, entry_of, NoChain
<1>8. GpuWaits(h, e)'
  BY <1>1, <1>2, <1>6, <1>7, Zenon DEF GpuWaits, Request, Indices, NoChain, End
<1> QED
  BY <1>1, <1>2, <1>5, <1>8, Zenon DEF GpuInv, NoneTwice, Indices

\* The GPU driver gets the descriptors of its request back, if the interrupt was for
\* the request.
LEMMA FinishRequestStep ==
    ASSUME RingTypes, GpuInv, finish_request, ~ Quiet PROVE RingTypes' /\ GpuInv'
<1>1. /\ pushed = NoChain /\ Quiet'
      /\ freeList' = freeList \o <<avail[entry_of(index + IndexModulus - 1)],
                         table[avail[entry_of(index + IndexModulus - 1)]].next>>
      /\ commander' = [command |-> NextCommand(commander.command), waits |-> FALSE]
      /\ UNCHANGED <<table, avail, index, pushed, taken, tokens>>
  BY Zenon DEF finish_request, Quiet
<1>2. PICK h \in Indices, e \in Indices : tokens = {} /\ NoneTwice /\ GpuWaits(h, e)
  BY <1>1, Waiting, Zenon
<1>3. Reached(h) /\ taken.head = NoChain
  BY <1>1, <1>2, Zenon DEF GpuWaits
<1>4. Request(h, e) /\ Len(freeList) = QueueSize - 2 /\ freeList \in Seq(Indices)
  BY <1>2, Zenon DEF GpuWaits, RingTypes
<1>5. freeList' = freeList \o <<h, e>>
  BY <1>1, <1>3, <1>4, Zenon DEF Reached, Request
<1>6. PICK m \in Nat : m = Len(freeList) /\ m + 2 = QueueSize
  BY <1>4, QueueAssumption
<1>7. /\ freeList' \in Seq(Indices) /\ DOMAIN freeList' = 1 .. m + 2 /\ Len(freeList') = m + 2
      /\ \A k \in 1 .. m : freeList'[k] = freeList[k]
      /\ freeList'[m + 1] = h /\ freeList'[m + 2] = e
  <2>1. PICK pair : pair = <<h, e>>
    BY Zenon
  <2>2. pair \in Seq(Indices) /\ Len(pair) = 2 /\ pair[1] = h /\ pair[2] = e
    BY <2>1
  <2>3. freeList' = freeList \o pair
    BY <1>5, <2>1, Zenon
  <2>4. /\ freeList' \in Seq(Indices) /\ Len(freeList') = m + 2
        /\ \A i \in 1 .. m + 2 : freeList'[i] = IF i <= m THEN freeList[i] ELSE pair[i - m]
    <3>1. /\ freeList \o pair \in Seq(Indices) /\ Len(freeList \o pair) = Len(freeList) + Len(pair)
          /\ \A i \in 1 .. Len(freeList) + Len(pair) : (freeList \o pair)[i] =
                   IF i <= Len(freeList) THEN freeList[i] ELSE pair[i - Len(freeList)]
      BY <1>4, <2>2, InARow, Zenon
    <3> QED
      BY <1>6, <2>2, <2>3, <3>1, Zenon
  <2>5. (m + 1) - m = 1 /\ (m + 2) - m = 2 /\ ~(m + 1 <= m) /\ ~(m + 2 <= m)
    OBVIOUS
  <2> QED
    BY <2>2, <2>4, <2>5
<1>8. \A k \in 1 .. m : freeList[k] # h /\ freeList[k] # e
  BY <1>4, <1>6 DEF Request
<1>9. \A j, k \in 1 .. m : freeList[j] = freeList[k] => j = k
  BY <1>2, <1>4, <1>6 DEF NoneTwice
<1>10. NoneTwice'
  <2>1. h # e
    BY <1>4 DEF Request
  <2>2. \A j \in 1 .. m + 2 : j \in 1 .. m \/ j = m + 1 \/ j = m + 2
    OBVIOUS
  <2> QED
    BY <1>7, <1>8, <1>9, <2>1, <2>2, ZenonT(30) DEF NoneTwice
<1>11. commander' \in [command : Nat, waits : BOOLEAN] /\ ~ commander'.waits
  <2>1. NextCommand(commander.command) \in Nat
    BY DEF RingTypes, NextCommand, Commands
  <2> QED
    BY <1>1, <2>1
<1>12. RingTypes'
  BY <1>1, <1>7, <1>11, Zenon DEF RingTypes, Indices
<1>13. GpuIdle'
  BY <1>1, <1>3, <1>6, <1>7, <1>11, Zenon DEF GpuIdle, Reached, NoChain
<1> QED
  BY <1>1, <1>2, <1>10, <1>12, <1>13, Zenon DEF GpuInv, NoneTwice

\* An interrupt for something else changes nothing of the queue.
LEMMA OtherInterruptStep ==
    ASSUME RingTypes, GpuInv, OtherInterrupt PROVE RingTypes' /\ GpuInv'
<1>1. UNCHANGED <<freeList, table, avail, index, pushed, taken, buffers, commander, tokens>>
  BY Zenon DEF OtherInterrupt
<1>2. Quiet' = Quiet
  BY DEF OtherInterrupt, Quiet
<1>3. RingTypes'
  BY <1>1, Zenon DEF RingTypes, Indices
<1>4. GpuIdle => GpuIdle'
  BY <1>1, <1>2, Zenon DEF GpuIdle, NoChain
<1>5. \A h, e \in Indices : GpuWaits(h, e) => GpuWaits(h, e)'
  <2> SUFFICES ASSUME NEW h \in Indices, NEW e \in Indices, GpuWaits(h, e)
               PROVE  GpuWaits(h, e)'
    BY Zenon
  <2>1. Request(h, e)'
    BY <1>1, Zenon DEF GpuWaits, Request, End, Indices
  <2>2. /\ InRing(h) => InRing(h)'
        /\ Published(h) => Published(h)'
        /\ Reached(h) => Reached(h)'
    BY <1>1, Zenon DEF InRing, Published, Reached, entry_of, NoChain
  <2> QED
    BY <1>1, <1>2, <2>1, <2>2, Zenon DEF GpuWaits, NoChain
<1> QED
  BY <1>1, <1>3, <1>4, <1>5, Zenon DEF GpuInv, Indices

\* What the device may see of the GPU driver's queue is intact.
LEMMA GpuIntact ==
    ASSUME RingTypes, GpuInv PROVE ChainsIntact
<1>1. /\ taken.index \in 0 .. IndexModulus - 1 /\ index \in 0 .. IndexModulus - 1
      /\ IndexModulus \in Nat \ {0} /\ QueueSize \in Nat \ {0}
  BY ModulusBound DEF RingTypes
<1>2. PICK ahead : ahead = (index + IndexModulus - taken.index) % IndexModulus
  BY Zenon
<1>3. taken.index = index => ahead = 0
  BY <1>1, <1>2, Ahead
<1>4. index = (taken.index + 1) % IndexModulus => ahead = 1
  BY <1>1, <1>2, OneBehind, Zenon
<1>5. /\ ahead = 0 => Visible = {taken.head} \ {NoChain}
      /\ ahead = 1 => Visible = {avail[entry_of(taken.index)]} \cup ({taken.head} \ {NoChain})
  <2>1. Visible = { avail[(taken.index + k) % QueueSize] : k \in 0 .. ahead - 1 }
                    \cup ({taken.head} \ {NoChain})
    BY <1>2, Zenon DEF Visible
  <2>2. CASE ahead = 0
    BY <2>1, <2>2
  <2>3. CASE ahead = 1
    <3>1. 0 .. ahead - 1 = {0} /\ taken.index + 0 = taken.index
      BY <1>1, <2>3
    <3>2. { avail[(taken.index + k) % QueueSize] : k \in {0} } = {avail[entry_of(taken.index)]}
      BY <3>1 DEF entry_of
    <3> QED
      BY <2>1, <2>3, <3>1, <3>2
  <2> QED
    BY <2>2, <2>3
<1>6. CASE GpuIdle
  <2>1. ahead = 0 /\ Visible = {}
    BY <1>3, <1>5, <1>6, Zenon DEF GpuIdle
  <2>2. Quiet /\ ahead <= QueueSize
    BY <1>1, <1>6, <2>1 DEF GpuIdle
  <2> QED
    BY <1>2, <2>1, <2>2, Zenon DEF ChainsIntact, Quiet
<1>7. ASSUME NEW h \in Indices, NEW e \in Indices, GpuWaits(h, e)
      PROVE  ChainsIntact
  <2>1. (ahead = 0 \/ ahead = 1) /\ Visible \subseteq {h}
    <3>1. CASE InRing(h) /\ taken.head = NoChain
      BY <1>3, <1>5, <3>1, Zenon DEF InRing
    <3>2. CASE Published(h) /\ taken.head = NoChain
      BY <1>4, <1>5, <3>2, Zenon DEF Published
    <3>3. CASE Reached(h) /\ (taken.head = h \/ taken.head = NoChain)
      BY <1>3, <1>5, <3>3, Zenon DEF Reached
    <3> QED
      BY <1>7, <3>1, <3>2, <3>3, Zenon DEF GpuWaits
  <2>2. /\ Request(h, e) /\ DOMAIN buffers = {"request", "response"} /\ commander.waits
    BY <1>7, Zenon DEF GpuWaits
  <2>6. ~ Quiet => Visible = {}
    <3>1. ~ Quiet => Reached(h) /\ taken.head = NoChain
      BY <1>7, Zenon DEF GpuWaits
    <3> QED
      BY <1>3, <1>5, <3>1, Zenon DEF Reached
  <2>3. Chain(h) = {h, e}
    BY <2>2, ChainOfTwo DEF Request
  <2>4. ahead <= QueueSize
    BY <1>1, <2>1
  <2>5. \A i \in {h, e} : /\ \A k \in DOMAIN freeList : freeList[k] # i
                          /\ table[i].object \in DOMAIN buffers
    BY <2>2 DEF Request
  <2> QED
    BY <1>2, <2>1, <2>2, <2>3, <2>4, <2>5, <2>6, Zenon DEF ChainsIntact, Quiet
<1> QED
  BY <1>6, <1>7, Zenon DEF GpuInv

-----------------------------------------------------------------------------
\* The block driver.

\* Where the descriptors of the reads lie.
LEMMA ReadPlaces ==
    ASSUME NEW n \in Nat, NEW m \in Nat, m + 3 * n = QueueSize, NEW k \in 0 .. n - 1
    PROVE  /\ ReadHead(k) \in Indices /\ ReadHead(k) - 1 \in Indices /\ ReadHead(k) - 2 \in Indices
           /\ ReadHead(k) - 2 >= m /\ k \in Indices
  BY ModulusBound DEF ReadHead, Indices

\* The chain of a read.
LEMMA ReadChain ==
    ASSUME NEW n \in Nat, NEW m \in Nat, m + 3 * n = QueueSize, NEW k \in 0 .. n - 1, ReadIntact(k)
    PROVE  Chain(ReadHead(k)) = {ReadHead(k), ReadHead(k) - 1, ReadHead(k) - 2}
<1>1. /\ ReadHead(k) \in Indices /\ ReadHead(k) - 1 \in Indices /\ ReadHead(k) - 2 \in Indices
  BY ReadPlaces, Zenon
<1>2. /\ table[ReadHead(k)].next = ReadHead(k) - 1
      /\ table[ReadHead(k) - 1].next = ReadHead(k) - 2
      /\ table[ReadHead(k) - 2].next = End
  BY Zenon DEF ReadIntact
<1> QED
  BY <1>1, <1>2, ChainOfThree, Zenon

\* The types of the block driver's state, and how many reads it has made.
LEMMA BlockFacts ==
    ASSUME RingTypes, BlockInv
    PROVE  /\ QueueSize \in Nat /\ IndexModulus \in Nat /\ QueueSize <= IndexModulus
           /\ index \in Nat /\ index < IndexModulus
           /\ taken.index \in Nat /\ taken.index <= index
           /\ freeList \in Seq(Indices) /\ Len(freeList) \in Nat
           /\ avail \in [Indices -> Indices] /\ DOMAIN table = Indices
           /\ NoneTwice
           /\ \E n \in Nat : /\ ReadsMade(n) /\ index <= n /\ Len(freeList) + 3 * n = QueueSize
<1>1. /\ QueueSize \in Nat /\ IndexModulus \in Nat /\ QueueSize <= IndexModulus
      /\ index \in Nat /\ index < IndexModulus /\ taken.index \in Nat
      /\ freeList \in Seq(Indices) /\ Len(freeList) \in Nat
      /\ avail \in [Indices -> Indices] /\ DOMAIN table = Indices
  BY ModulusBound DEF RingTypes
<1>2. NoneTwice
  BY <1>1 DEF BlockInv, NoneTwice
<1>3. taken.index <= index
  BY DEF BlockInv
<1>4. PICK n \in Nat : ReadsMade(n)
  BY Zenon DEF BlockInv
<1>5. index <= n /\ Len(freeList) + 3 * n = QueueSize
  BY <1>1, <1>4 DEF ReadsMade
<1> QED
  BY <1>1, <1>2, <1>3, <1>4, <1>5, Zenon

\* The block driver starts with all slots free and no read made.
LEMMA BlockStartsStep ==
    ASSUME VirtioInit, BlockStarts PROVE driver' = "block" /\ RingTypes' /\ BlockInv'
<1>1. /\ driver' = "block" /\ Virtqueue_new
      /\ slots' = [request |-> [i \in 1 .. Slots |-> i], data |-> [i \in 1 .. Slots |-> i]]
      /\ buffers' = [o \in {"request", "data"} \X (1 .. Slots) |-> "zero"]
      /\ UNCHANGED <<index, pushed, taken, event, commander, tokens>>
  BY DEF BlockStarts
<1>2. /\ RingTypes' /\ Len(freeList') = QueueSize
      /\ \A i \in DOMAIN freeList' : freeList'[i] = i - 1
  BY <1>1, NewQueue
<1>3. slots'.request \in Seq(1 .. Slots) /\ slots'.data \in Seq(1 .. Slots)
  BY <1>1, QueueAssumption
<1>4. DOMAIN buffers' = {"request", "data"} \X (1 .. Slots)
  BY <1>1
<1>5. /\ tokens' = {} /\ index' = 0 /\ pushed' = NoChain
      /\ taken'.index = 0 /\ taken'.head = NoChain
  BY <1>1 DEF VirtioInit
<1>6. ReadsMade(0)'
  BY <1>2, <1>5, ModulusBound DEF ReadsMade, NoChain
<1>7. taken'.index <= index'
  BY <1>5
<1> QED
  BY <1>1, <1>2, <1>3, <1>4, <1>5, <1>6, <1>7, 0 \in Nat, Zenon DEF BlockInv, NoChain

\* Publish counts the read that was put in the ring.
LEMMA BlockPublishStep ==
    ASSUME RingTypes, BlockInv, Publish PROVE RingTypes' /\ BlockInv'
<1>1. /\ pushed # NoChain /\ index' = (index + 1) % IndexModulus /\ pushed' = NoChain
      /\ UNCHANGED <<freeList, table, avail, taken, buffers, commander, slots, tokens>>
  BY DEF Publish
<1>2. PICK n \in Nat : ReadsMade(n) /\ Len(freeList) + 3 * n = QueueSize
  BY BlockFacts, Zenon
<1>3. index + 1 = n /\ n < IndexModulus /\ index \in Nat /\ taken.index \in Nat /\ taken.index <= index
      /\ IndexModulus \in Nat \ {0}
  <2>1. index + 1 = n
    BY <1>1, <1>2, Zenon DEF ReadsMade
  <2> QED
    BY <1>2, <2>1, BlockFacts
<1>4. index' = n
  BY <1>1, <1>3, SmallRemainder
<1>5. RingTypes'
  <2>1. index' \in 0 .. IndexModulus - 1
    BY <1>3, <1>4
  <2> QED
    BY <1>1, <2>1, Zenon DEF RingTypes, Indices
<1>6. ReadsMade(n)'
  BY <1>1, <1>2, <1>4, Zenon DEF ReadsMade, ReadIntact, ReadHead, NoChain, End
<1>7. taken'.index <= index'
  BY <1>1, <1>3, <1>4
<1> QED
  BY <1>1, <1>5, <1>6, <1>7, Zenon DEF BlockInv, NoChain, ReadHead

\* The device takes the next read.
LEMMA BlockTakeStep ==
    ASSUME RingTypes, BlockInv, TakeChain PROVE RingTypes' /\ BlockInv'
<1>1. /\ taken.index # index
      /\ taken' = [index |-> (taken.index + 1) % IndexModulus,
                   head |-> avail[taken.index % QueueSize]]
      /\ UNCHANGED <<freeList, table, avail, index, pushed, buffers, commander, slots, tokens>>
  BY DEF TakeChain
<1>2. PICK n \in Nat : ReadsMade(n) /\ index <= n /\ Len(freeList) + 3 * n = QueueSize
  BY BlockFacts, Zenon
<1>3. PICK t \in Nat : t = taken.index
  BY BlockFacts
<1>4. /\ t + 1 < IndexModulus /\ t \in 0 .. n - 1 /\ t < QueueSize /\ t + 1 <= index
      /\ IndexModulus \in Nat \ {0} /\ QueueSize \in Nat
  <2>1. /\ QueueSize \in Nat /\ IndexModulus \in Nat /\ QueueSize <= IndexModulus
        /\ index \in Nat /\ index < IndexModulus /\ t <= index /\ t # index
        /\ Len(freeList) \in Nat
    BY <1>1, <1>3, BlockFacts, Zenon
  <2> QED
    BY <1>2, <2>1
<1>5. (t + 1) % IndexModulus = t + 1 /\ t % QueueSize = t
  BY <1>4, SmallRemainder
<1>6. avail[t] = ReadHead(t) /\ ReadHead(t) \in Indices
  BY <1>2, <1>4, BlockFacts, ReadPlaces, Zenon DEF ReadsMade, ReadIntact
<1>7. taken' = [index |-> t + 1, head |-> ReadHead(t)]
  BY <1>1, <1>3, <1>5, <1>6, Zenon
<1>8. taken' \in [index : 0 .. IndexModulus - 1, head : 0 .. QueueSize]
  <2>1. t + 1 \in 0 .. IndexModulus - 1
    BY <1>4
  <2>2. ReadHead(t) \in 0 .. QueueSize
    BY <1>4, <1>6 DEF Indices
  <2> QED
    BY <1>7, <2>1, <2>2
<1>9. RingTypes'
  BY <1>1, <1>8, Zenon DEF RingTypes, Indices
<1>10. ReadsMade(n)'
  BY <1>1, <1>2, Zenon DEF ReadsMade, ReadIntact, ReadHead, NoChain, End
<1>11. taken'.index >= 1 /\ taken'.index - 1 = t /\ taken'.head = ReadHead(t) /\ taken'.index <= index'
  BY <1>1, <1>4, <1>7
<1> QED
  BY <1>1, <1>9, <1>10, <1>11, Zenon DEF BlockInv, ReadHead

\* The device finishes a read: the data is there, and nothing moves.
LEMMA BlockCompleteStep ==
    ASSUME driver = "block", RingTypes, BlockInv, CompleteChain PROVE RingTypes' /\ BlockInv'
<1>1. /\ taken' = [taken EXCEPT !.head = NoChain]
      /\ UNCHANGED <<freeList, table, avail, index, pushed, commander, slots, tokens>>
  BY Zenon DEF CompleteChain
<1>2. DOMAIN buffers' = DOMAIN buffers
  <2>1. buffers' = [o \in DOMAIN buffers |->
                 IF \E i \in Indices : table[i].writes /\ table[i].object = o
                                       /\ table[taken.head].next = i
                 THEN "read" ELSE buffers[o]]
    BY Zenon DEF CompleteChain
  <2> QED
    BY <2>1, Zenon
<1>3. /\ taken' \in [index : 0 .. IndexModulus - 1, head : 0 .. QueueSize]
      /\ taken'.index = taken.index /\ taken'.head = NoChain
  <2>1. taken \in [index : 0 .. IndexModulus - 1, head : 0 .. QueueSize] /\ NoChain \in 0 .. QueueSize
    BY ModulusBound DEF RingTypes, NoChain
  <2> QED
    BY <1>1, <2>1
<1>4. RingTypes'
  BY <1>1, <1>3, Zenon DEF RingTypes, Indices
<1>5. PICK n \in Nat : ReadsMade(n)
  BY BlockFacts, Zenon
<1>6. ReadsMade(n)'
  BY <1>1, <1>2, <1>5, Zenon DEF ReadsMade, ReadIntact, ReadHead, NoChain, End
<1>7. taken'.index <= index'
  BY <1>1, <1>3, Zenon DEF BlockInv
<1> QED
  BY <1>1, <1>2, <1>3, <1>4, <1>6, <1>7, Zenon DEF BlockInv, NoChain

\* The slots of a read come back; its descriptors do not.
LEMMA FreeReadBlockStep ==
    ASSUME RingTypes, BlockInv, NEW t \in tokens, free_read_block(t) PROVE RingTypes' /\ BlockInv'
<1>1. /\ tokens' = tokens \ {t}
      /\ slots' = [request |-> Append(slots.request, t.request), data |-> Append(slots.data, t.data)]
      /\ UNCHANGED <<freeList, table, avail, index, pushed, taken, buffers, commander>>
  BY DEF free_read_block
<1>2. RingTypes'
  BY <1>1, Zenon DEF RingTypes, Indices
<1>3. t \in [request : 1 .. Slots, data : 1 .. Slots]
  BY Zenon DEF BlockInv
<1>4. slots'.request \in Seq(1 .. Slots) /\ slots'.data \in Seq(1 .. Slots)
  <2>1. t.request \in 1 .. Slots /\ t.data \in 1 .. Slots
    BY <1>3
  <2>2. slots.request \in Seq(1 .. Slots) /\ slots.data \in Seq(1 .. Slots)
    BY Zenon DEF BlockInv
  <2>3. slots'.request = Append(slots.request, t.request) /\ slots'.data = Append(slots.data, t.data)
    BY <1>1, Zenon
  <2> QED
    BY <2>1, <2>2, <2>3
<1>5. tokens' \subseteq [request : 1 .. Slots, data : 1 .. Slots]
  BY <1>1, Zenon DEF BlockInv
<1>6. PICK n \in Nat : ReadsMade(n)
  BY BlockFacts, Zenon
<1>7. ReadsMade(n)'
  BY <1>1, <1>6, Zenon DEF ReadsMade, ReadIntact, ReadHead, NoChain, End
<1> QED
  BY <1>1, <1>2, <1>4, <1>5, <1>7, Zenon DEF BlockInv, NoChain, ReadHead

\* Taking the last one off a list.
LEMMA PopBack ==
    ASSUME NEW S, NEW q \in Seq(S), q # <<>>
    PROVE  q[Len(q)] \in S /\ SubSeq(q, 1, Len(q) - 1) \in Seq(S)
<1>1. Len(q) \in Nat \ {0}
  OBVIOUS
<1>2. q[Len(q)] \in S
  BY <1>1
<1>3. PICK l \in Nat : l = Len(q) - 1 /\ l <= Len(q)
  <2>1. Len(q) - 1 \in Nat /\ Len(q) - 1 <= Len(q)
    BY <1>1
  <2> QED
    BY <2>1, Zenon
<1>4. SubSeq(q, 1, l) \in Seq(S)
  BY <1>1, <1>3
<1> QED
  BY <1>2, <1>3, <1>4

\* A read puts three more descriptors in the ring, the ones after the last read.
LEMMA ReadBlockStep ==
    ASSUME RingTypes, BlockInv, read_block PROVE RingTypes' /\ BlockInv'
<1>1. PICK ds, r, d :
        /\ ds = Allocated(3)
        /\ r = slots.request[Len(slots.request)]
        /\ d = slots.data[Len(slots.data)]
        /\ buffers' = [buffers EXCEPT ![<<"request", r>>] = "read"]
        /\ freeList' = Remaining(3)
        /\ table' = Chained(ds, <<<<"request", r>>, <<"data", d>>, <<"request", r>>>>,
                                <<FALSE, TRUE, TRUE>>)
        /\ push_entry(ds[1])
        /\ tokens' = tokens \cup {[request |-> r, data |-> d]}
        /\ slots' = [request |-> SubSeq(slots.request, 1, Len(slots.request) - 1),
                     data |-> SubSeq(slots.data, 1, Len(slots.data) - 1)]
  BY Zenon DEF read_block
<1>2. /\ pushed = NoChain /\ slots.request # <<>> /\ slots.data # <<>> /\ Len(freeList) >= 3
      /\ UNCHANGED <<index, taken, commander>>
  BY Zenon DEF read_block
<1>3. PICK n \in Nat : ReadsMade(n) /\ Len(freeList) + 3 * n = QueueSize
  BY BlockFacts, Zenon
<1>4. /\ index = n /\ \A k \in 0 .. n - 1 : ReadIntact(k)
  BY <1>2, <1>3, Zenon DEF ReadsMade
<1>5. PICK m \in Nat : /\ m = Len(freeList) /\ m >= 3 /\ m + 3 * n = QueueSize
                       /\ freeList \in Seq(Indices) /\ DOMAIN freeList = 1 .. m
  <2>1. freeList \in Seq(Indices) /\ Len(freeList) \in Nat
    BY BlockFacts, Zenon
  <2> QED
    BY <1>2, <1>3, <2>1
<1>6. Distinct(3, ds) /\ TakenOff(3, ds, freeList')
  <2>1. NoneTwice /\ 3 \in 1 .. Len(freeList)
    BY <1>5, BlockFacts
  <2> QED
    BY <1>1, <1>5, <2>1, AllocatedFrom, Zenon
<1>7. /\ DOMAIN freeList' = 1 .. m - 3 /\ Len(freeList') = m - 3 /\ freeList' \in Seq(Indices)
      /\ \A i \in DOMAIN freeList' : freeList'[i] = i - 1
  <2>1. /\ freeList' \in Seq(Indices) /\ Len(freeList') = m - 3
        /\ \A k \in DOMAIN freeList' : k \in DOMAIN freeList /\ freeList'[k] = freeList[k]
    BY <1>5, <1>6, Zenon DEF TakenOff
  <2>2. \A i \in DOMAIN freeList : freeList[i] = i - 1
    BY Zenon DEF BlockInv
  <2> QED
    BY <2>1, <2>2
<1>8. ds[1] = ReadHead(n) /\ ds[2] = ReadHead(n) - 1 /\ ds[3] = ReadHead(n) - 2
  <2>1. \A k \in 1 .. 3 : ds[k] = freeList[m + 1 - k]
    BY <1>5, <1>6, Zenon DEF TakenOff
  <2>2. \A i \in 1 .. m : freeList[i] = i - 1
    BY <1>5, Zenon DEF BlockInv
  <2>3. /\ m + 1 - 1 = m /\ m + 1 - 2 = m - 1 /\ m + 1 - 3 = m - 2
        /\ m \in 1 .. m /\ m - 1 \in 1 .. m /\ m - 2 \in 1 .. m
    BY <1>5
  <2>4. ds[1] = m - 1 /\ ds[2] = m - 2 /\ ds[3] = m - 3
    BY <2>1, <2>2, <2>3
  <2>5. ReadHead(n) = m - 1
    BY <1>5 DEF ReadHead
  <2> QED
    BY <2>4, <2>5
<1>9. /\ ds[1] \in Indices
      /\ \A k \in 0 .. n - 1 : /\ ReadHead(k) \in Indices /\ ReadHead(k) - 1 \in Indices
                              /\ ReadHead(k) - 2 \in Indices /\ ReadHead(k) - 2 >= m
                              /\ ReadHead(k) \in Int /\ k \in Indices
  <2>1. ds[1] \in Indices
    BY <1>6 DEF Distinct
  <2>2. ASSUME NEW k \in 0 .. n - 1
        PROVE  /\ ReadHead(k) \in Indices /\ ReadHead(k) - 1 \in Indices
               /\ ReadHead(k) - 2 \in Indices /\ ReadHead(k) - 2 >= m /\ k \in Indices
    BY <1>5, ReadPlaces
  <2>3. \A i \in Indices : i \in Int
    BY ModulusBound DEF Indices
  <2> QED
    BY <2>1, <2>2, <2>3, Zenon
<1>10. /\ avail' \in [Indices -> Indices] /\ avail'[n] = ds[1] /\ pushed' = ds[1]
       /\ \A k \in 0 .. n - 1 : avail'[k] = avail[k]
  <2>1. entry_of(index) = n
    <3>1. n < QueueSize
      BY <1>5
    <3> QED
      BY <1>4, <3>1, SameEntry
  <2>2. /\ avail' \in [Indices -> Indices] /\ avail'[entry_of(index)] = ds[1] /\ pushed' = ds[1]
        /\ \A i \in Indices : i # entry_of(index) => avail'[i] = avail[i]
    BY <1>1, <1>9, EntryWritten, Zenon
  <2>3. \A k \in 0 .. n - 1 : k \in Indices /\ k # n
    BY <1>9
  <2> QED
    BY <2>1, <2>2, <2>3, Zenon
<1> DEFINE objects == <<<<"request", r>>, <<"data", d>>, <<"request", r>>>>
<1>11. HasChain(3, ds, objects, table')
  BY <1>1, <1>6, 3 \in Nat, ChainedWrites, Zenon
<1>12. /\ DOMAIN table' = Indices
       /\ table'[ds[1]].object = <<"request", r>> /\ table'[ds[1]].next = ds[2]
       /\ table'[ds[2]].object = <<"data", d>> /\ table'[ds[2]].next = ds[3]
       /\ table'[ds[3]].object = <<"request", r>> /\ table'[ds[3]].next = End
  <2>1. /\ DOMAIN table' = Indices
        /\ \A k \in 1 .. 3 : /\ table'[ds[k]].object = objects[k]
                              /\ table'[ds[k]].next = IF k < 3 THEN ds[k + 1] ELSE End
    BY <1>11, Zenon DEF HasChain
  <2>2. objects[1] = <<"request", r>> /\ objects[2] = <<"data", d>> /\ objects[3] = <<"request", r>>
    OBVIOUS
  <2> HIDE DEF objects
  <2>3. 1 \in 1 .. 3 /\ 2 \in 1 .. 3 /\ 3 \in 1 .. 3 /\ 1 < 3 /\ 2 < 3 /\ ~(3 < 3)
        /\ 1 + 1 = 2 /\ 2 + 1 = 3
    OBVIOUS
  <2> QED
    BY <2>1, <2>2, <2>3
<1>13. \A i \in Indices : i >= m => table'[i] = table[i]
  <2>1. \A i \in Indices : (\A k \in 1 .. 3 : ds[k] # i) => table'[i] = table[i]
    BY <1>11, Zenon DEF HasChain
  <2>2. ReadHead(n) = m - 1
    BY <1>5 DEF ReadHead
  <2>3. \A i \in Indices : i >= m => \A k \in 1 .. 3 : ds[k] # i
    <3>1. ds[1] < m /\ ds[2] < m /\ ds[3] < m
      BY <1>5, <1>8, <2>2
    <3>2. \A k \in 1 .. 3 : ds[k] < m
      <4>1. \A k \in 1 .. 3 : k = 1 \/ k = 2 \/ k = 3
        OBVIOUS
      <4> QED
        BY <3>1, <4>1, Zenon
    <3>3. \A i \in Indices : i >= m => ~(i < m)
      BY <1>5, ModulusBound DEF Indices
    <3> QED
      BY <3>2, <3>3, Zenon
  <2> QED
    BY <2>1, <2>3, Zenon
<1> HIDE DEF objects
<1>14. /\ r \in 1 .. Slots /\ d \in 1 .. Slots
       /\ slots'.request \in Seq(1 .. Slots) /\ slots'.data \in Seq(1 .. Slots)
  <2>1. slots.request \in Seq(1 .. Slots) /\ slots.data \in Seq(1 .. Slots)
    BY Zenon DEF BlockInv
  <2>2. /\ slots'.request = SubSeq(slots.request, 1, Len(slots.request) - 1)
        /\ slots'.data = SubSeq(slots.data, 1, Len(slots.data) - 1)
    BY <1>1, Zenon
  <2>3. ASSUME NEW q \in Seq(1 .. Slots), q # <<>>
        PROVE  q[Len(q)] \in 1 .. Slots /\ SubSeq(q, 1, Len(q) - 1) \in Seq(1 .. Slots)
    BY <2>3, PopBack, Zenon
  <2> QED
    BY <1>1, <1>2, <2>1, <2>2, <2>3, Zenon
<1>15. /\ DOMAIN buffers' = {"request", "data"} \X (1 .. Slots)
       /\ DOMAIN buffers' = DOMAIN buffers
       /\ <<"request", r>> \in DOMAIN buffers' /\ <<"data", d>> \in DOMAIN buffers'
  <2>1. DOMAIN buffers = {"request", "data"} \X (1 .. Slots)
    BY Zenon DEF BlockInv
  <2>2. DOMAIN buffers' = DOMAIN buffers
    BY <1>1, Zenon
  <2>3. /\ <<"request", r>> \in {"request", "data"} \X (1 .. Slots)
        /\ <<"data", d>> \in {"request", "data"} \X (1 .. Slots)
    BY <1>14
  <2> QED
    BY <2>1, <2>2, <2>3, Zenon
<1>16. ASSUME NEW k \in 0 .. n PROVE ReadIntact(k)'
  <2>1. CASE k = n
    <3>1. /\ avail'[n] = ReadHead(n)
          /\ table'[ReadHead(n)].next = ReadHead(n) - 1
          /\ table'[ReadHead(n) - 1].next = ReadHead(n) - 2
          /\ table'[ReadHead(n) - 2].next = End
      BY <1>8, <1>10, <1>12, Zenon
    <3>2. /\ table'[ReadHead(n)].object \in DOMAIN buffers'
          /\ table'[ReadHead(n) - 1].object \in DOMAIN buffers'
          /\ table'[ReadHead(n) - 2].object \in DOMAIN buffers'
      BY <1>8, <1>12, <1>15, Zenon
    <3> QED
      BY <2>1, <3>1, <3>2, Zenon DEF ReadIntact, ReadHead, End
  <2>2. CASE k # n
    <3>1. k \in 0 .. n - 1
      BY <2>2
    <3>2. /\ ReadHead(k) \in Indices /\ ReadHead(k) - 1 \in Indices /\ ReadHead(k) - 2 \in Indices
          /\ ReadHead(k) >= m /\ ReadHead(k) - 1 >= m /\ ReadHead(k) - 2 >= m
      BY <1>9, <3>1
    <3>3. /\ table'[ReadHead(k)] = table[ReadHead(k)]
          /\ table'[ReadHead(k) - 1] = table[ReadHead(k) - 1]
          /\ table'[ReadHead(k) - 2] = table[ReadHead(k) - 2]
      BY <1>13, <3>2, Zenon
    <3>4. ReadIntact(k) /\ avail'[k] = avail[k]
      BY <1>4, <1>10, <3>1, Zenon
    <3> QED
      BY <1>15, <3>3, <3>4, Zenon DEF ReadIntact, ReadHead, End
  <2> QED
    BY <2>1, <2>2
<1>17. ReadsMade(n + 1)'
  <2>1. Len(freeList') + 3 * (n + 1) = QueueSize /\ index' + 1 = n + 1 /\ (n + 1) - 1 = n
    BY <1>2, <1>4, <1>5, <1>7
  <2>2. pushed' # NoChain
    BY <1>9, <1>10, ModulusBound DEF Indices, NoChain
  <2>3. \A k \in 0 .. (n + 1) - 1 : ReadIntact(k)'
    BY <1>16, <2>1, Zenon
  <2> QED
    BY <2>1, <2>2, <2>3, Zenon DEF ReadsMade, NoChain
<1>18. tokens' \subseteq [request : 1 .. Slots, data : 1 .. Slots]
  <2>1. [request |-> r, data |-> d] \in [request : 1 .. Slots, data : 1 .. Slots]
    BY <1>14
  <2>2. tokens \subseteq [request : 1 .. Slots, data : 1 .. Slots]
    BY Zenon DEF BlockInv
  <2> QED
    BY <1>1, <2>1, <2>2, Zenon
<1>19. RingTypes'
  BY <1>2, <1>7, <1>10, <1>12, Zenon DEF RingTypes, Indices
<1>20. n + 1 \in Nat
  OBVIOUS
<1> QED
  BY <1>2, <1>7, <1>14, <1>15, <1>17, <1>18, <1>19, <1>20, Zenon DEF BlockInv, NoChain, ReadHead

\* What the device may see of the block driver's queue is intact.
LEMMA BlockIntact ==
    ASSUME driver = "block", RingTypes, BlockInv PROVE ChainsIntact
<1>1. PICK n \in Nat : ReadsMade(n) /\ index <= n /\ Len(freeList) + 3 * n = QueueSize
  BY BlockFacts, Zenon
<1>2. PICK t \in Nat, i \in Nat, m \in Nat :
         /\ t = taken.index /\ i = index /\ m = Len(freeList) /\ m + 3 * n = QueueSize
         /\ t <= i /\ i <= n /\ i < IndexModulus /\ IndexModulus \in Nat /\ QueueSize \in Nat
         /\ DOMAIN freeList = 1 .. m
  <2>1. /\ QueueSize \in Nat /\ IndexModulus \in Nat /\ index \in Nat /\ index < IndexModulus
        /\ taken.index \in Nat /\ taken.index <= index
        /\ freeList \in Seq(Indices) /\ Len(freeList) \in Nat
    BY BlockFacts, Zenon
  <2>2. DOMAIN freeList = 1 .. Len(freeList)
    BY <2>1
  <2> QED
    BY <1>1, <2>1, <2>2, Zenon
<1>3. \A k \in 0 .. n - 1 : ReadIntact(k)
  BY <1>1, Zenon DEF ReadsMade
<1>4. (index + IndexModulus - taken.index) % IndexModulus = i - t
  <2>1. t \in 0 .. IndexModulus - 1 /\ i \in 0 .. IndexModulus - 1
    BY <1>2
  <2> QED
    BY <1>2, <2>1, Ahead, Zenon
<1>5. ASSUME NEW h \in Visible
      PROVE  \E k \in 0 .. n - 1 : h = ReadHead(k)
  <2>1. CASE h = taken.head /\ taken.head # NoChain
    <3>1. t >= 1 /\ h = ReadHead(t - 1)
      BY <1>2, <2>1, Zenon DEF BlockInv
    <3>2. t - 1 \in 0 .. n - 1
      BY <1>2, <3>1
    <3> QED
      BY <3>1, <3>2
  <2>2. CASE \E j \in 0 .. (i - t) - 1 : h = avail[(t + j) % QueueSize]
    <3>1. PICK j \in 0 .. (i - t) - 1 : h = avail[(t + j) % QueueSize]
      BY <2>2
    <3>2. t + j \in 0 .. n - 1 /\ t + j \in Nat /\ t + j < QueueSize /\ QueueSize \in Nat \ {0}
      <4>1. j \in Nat /\ j <= (i - t) - 1
        BY <1>2
      <4>2. t + j \in Nat /\ t + j + 1 <= n
        <5>1. t <= i /\ i <= n
          BY <1>2, Zenon
        <5> QED
          BY <4>1, <5>1
      <4>3. n <= QueueSize /\ QueueSize \in Nat
        BY <1>2
      <4>4. ASSUME NEW x \in Nat, x + 1 <= n
            PROVE  x \in 0 .. n - 1 /\ x < QueueSize /\ QueueSize \in Nat \ {0}
        BY <4>3, <4>4
      <4> QED
        BY <4>2, <4>4, Zenon
    <3>3. (t + j) % QueueSize = t + j
      BY <3>2, SmallRemainder
    <3>4. avail[t + j] = ReadHead(t + j)
      BY <1>3, <3>2, Zenon DEF ReadIntact
    <3> QED
      BY <3>1, <3>2, <3>3, <3>4
  <2> QED
    BY <1>2, <1>4, <1>5, <2>1, <2>2, Zenon DEF Visible
<1>6. ASSUME NEW k \in 0 .. n - 1
      PROVE  /\ Chain(ReadHead(k)) = {ReadHead(k), ReadHead(k) - 1, ReadHead(k) - 2}
             /\ \A x \in Chain(ReadHead(k)) : /\ \A j \in DOMAIN freeList : freeList[j] # x
                                              /\ table[x].object \in DOMAIN buffers
  <2>1. ReadIntact(k)
    BY <1>3
  <2>2. Chain(ReadHead(k)) = {ReadHead(k), ReadHead(k) - 1, ReadHead(k) - 2}
    BY <1>2, <2>1, ReadChain, Zenon
  <2>3. \A x \in Chain(ReadHead(k)) : table[x].object \in DOMAIN buffers
    BY <2>1, <2>2, Zenon DEF ReadIntact
  <2>4. \A j \in DOMAIN freeList : freeList[j] = j - 1
    BY Zenon DEF BlockInv
  <2>5. \A j \in DOMAIN freeList : freeList[j] < m
    BY <1>2, <2>4
  <2>6. \A x \in Chain(ReadHead(k)) : x \in Int /\ x >= m
    BY <1>2, <2>2 DEF ReadHead
  <2>7. \A x \in Chain(ReadHead(k)) : \A j \in DOMAIN freeList : freeList[j] # x
    BY <1>2, <2>4, <2>5, <2>6
  <2> QED
    BY <2>2, <2>3, <2>7
<1>7. ASSUME NEW j \in 0 .. n - 1, NEW k \in 0 .. n - 1, ReadHead(j) # ReadHead(k)
      PROVE  Chain(ReadHead(j)) \cap Chain(ReadHead(k)) = {}
  <2>1. /\ Chain(ReadHead(j)) = {ReadHead(j), ReadHead(j) - 1, ReadHead(j) - 2}
        /\ Chain(ReadHead(k)) = {ReadHead(k), ReadHead(k) - 1, ReadHead(k) - 2}
    BY <1>6
  <2>2. PICK a \in Int, b \in Int : /\ a = ReadHead(j) /\ b = ReadHead(k)
                                    /\ a - b >= 3 \/ b - a >= 3
    <3>1. ReadHead(j) \in Int /\ ReadHead(k) \in Int
      BY <1>2 DEF ReadHead
    <3>2. ReadHead(j) - ReadHead(k) >= 3 \/ ReadHead(k) - ReadHead(j) >= 3
      BY <1>2, <1>7 DEF ReadHead
    <3> QED
      BY <3>1, <3>2
  <2>3. {a, a - 1, a - 2} \cap {b, b - 1, b - 2} = {}
    BY <2>2
  <2> QED
    BY <2>1, <2>2, <2>3, Zenon
<1>8. (index + IndexModulus - taken.index) % IndexModulus <= QueueSize
  BY <1>2, <1>4
<1>9. driver # "gpu"
  OBVIOUS
<1> QED
  BY <1>5, <1>6, <1>7, <1>8, <1>9, ZenonT(30) DEF ChainsIntact

-----------------------------------------------------------------------------
\* Both drivers.

\* Every step keeps the invariant.
LEMMA VirtioStep ==
    ASSUME VirtioInv, [VirtioNext]_qvars PROVE VirtioInv'
<1>1. CASE UNCHANGED qvars
  <2>1. UNCHANGED <<driver, freeList, table, avail, index, pushed, taken, finished, event, early,
                    buffers, commander, screen, wrong, slots, tokens>>
    BY <1>1, Zenon DEF qvars
  <2>2. VirtioInit => VirtioInit'
    BY <2>1, Zenon DEF VirtioInit, NoChain
  <2>3. RingTypes => RingTypes'
    BY <2>1, Zenon DEF RingTypes, Indices
  <2>4. GpuIdle => GpuIdle'
    BY <2>1, Zenon DEF GpuIdle, NoChain, Quiet
  <2>5. \A h, e \in Indices : GpuWaits(h, e) => GpuWaits(h, e)'
    <3> SUFFICES ASSUME NEW h \in Indices, NEW e \in Indices, GpuWaits(h, e)
                 PROVE  GpuWaits(h, e)'
      BY Zenon
    <3>1. Request(h, e)'
      BY <2>1, Zenon DEF GpuWaits, Request, End, Indices
    <3>2. /\ InRing(h) => InRing(h)'
          /\ Published(h) => Published(h)'
          /\ Reached(h) => Reached(h)'
      BY <2>1, Zenon DEF InRing, Published, Reached, entry_of, NoChain
    <3> QED
      BY <2>1, <3>1, <3>2, Zenon DEF GpuWaits, NoChain, Quiet
  <2>6. GpuInv => GpuInv'
    BY <2>1, <2>4, <2>5, Zenon DEF GpuInv, Indices
  <2>7. \A n \in Nat : ReadsMade(n) => ReadsMade(n)'
    BY <2>1, Zenon DEF ReadsMade, ReadIntact, ReadHead, NoChain, End
  <2>8. BlockInv => BlockInv'
    BY <2>1, <2>7, Zenon DEF BlockInv, ReadHead, NoChain
  <2> QED
    BY <2>1, <2>2, <2>3, <2>6, <2>8, Zenon DEF VirtioInv
<1>2. CASE driver = "off" /\ VirtioInit /\ VirtioNext
  <2>1. GpuStarts \/ BlockStarts
    <3>1. /\ pushed = NoChain /\ taken.head = NoChain /\ taken.index = index /\ tokens = {}
      BY <1>2 DEF VirtioInit
    <3>2. driver # "gpu" /\ driver # "block"
      BY <1>2
    <3>3. ~make_request /\ ~finish_request /\ ~read_block /\ ~OtherInterrupt
      BY <3>2, Zenon DEF make_request, finish_request, read_block, OtherInterrupt
    <3>4. ~Publish /\ ~TakeChain /\ ~CompleteChain
      BY <3>1, Zenon DEF Publish, TakeChain, CompleteChain
    <3>5. ~ \E t \in tokens : free_read_block(t)
      BY <3>1, Zenon
    <3> QED
      BY <1>2, <3>3, <3>4, <3>5, Zenon DEF VirtioNext
  <2> QED
    BY <1>2, <2>1, GpuStartsStep, BlockStartsStep, Zenon DEF VirtioInv
<1>3. CASE driver = "gpu" /\ RingTypes /\ GpuInv /\ VirtioNext
  <2>1. driver' = "gpu"
    BY <1>3, Zenon DEF VirtioNext, GpuStarts, make_request, Publish, finish_request, BlockStarts, read_block,
                free_read_block, TakeChain, CompleteChain, OtherInterrupt
  <2>2. make_request \/ Publish \/ finish_request \/ TakeChain \/ CompleteChain \/ OtherInterrupt
    BY <1>3, Zenon DEF VirtioNext, GpuStarts, BlockStarts, read_block, GpuInv
  <2>3. CASE finish_request /\ Quiet
    <3>1. early'
      BY <2>3, Zenon DEF finish_request, Quiet
    <3> QED
      BY <2>1, <3>1, Zenon DEF VirtioInv
  <2>4. CASE ~(finish_request /\ Quiet)
    <3>1. RingTypes' /\ GpuInv'
      BY <1>3, <2>2, <2>4, MakeRequestStep, GpuPublishStep, FinishRequestStep, GpuTakeStep,
         GpuCompleteStep, OtherInterruptStep, Zenon
    <3> QED
      BY <2>1, <3>1, Zenon DEF VirtioInv
  <2> QED
    BY <2>3, <2>4, Zenon
<1>5. CASE driver = "gpu" /\ early /\ VirtioNext
  <2>1. driver' = "gpu" /\ early'
    BY <1>5, Zenon DEF VirtioNext, GpuStarts, make_request, Publish, finish_request, BlockStarts, read_block,
                free_read_block, TakeChain, CompleteChain, OtherInterrupt
  <2> QED
    BY <2>1, Zenon DEF VirtioInv
<1>4. CASE driver = "block" /\ RingTypes /\ BlockInv /\ VirtioNext
  <2>1. driver' = "block"
    BY <1>4, Zenon DEF VirtioNext, GpuStarts, make_request, Publish, finish_request, BlockStarts, read_block,
                free_read_block, TakeChain, CompleteChain, OtherInterrupt
  <2>2. \/ Publish \/ read_block \/ \E t \in tokens : free_read_block(t)
        \/ TakeChain \/ CompleteChain
    BY <1>4 DEF VirtioNext, GpuStarts, BlockStarts, make_request, finish_request, OtherInterrupt
  <2>3. RingTypes' /\ BlockInv'
    BY <1>4, <2>2, BlockPublishStep, ReadBlockStep, FreeReadBlockStep, BlockTakeStep,
       BlockCompleteStep, Zenon
  <2> QED
    BY <2>1, <2>3, Zenon DEF VirtioInv
<1> QED
  BY <1>1, <1>2, <1>3, <1>4, <1>5, Zenon DEF VirtioInv

\* The invariant of the two drivers holds always.
THEOREM RingsHold == VirtioSpec => []VirtioInv
<1>1. VirtioInit => VirtioInv
  BY Zenon DEF VirtioInit, VirtioInv
<1>2. VirtioInv /\ [VirtioNext]_qvars => VirtioInv'
  BY VirtioStep
<1> QED
  BY <1>1, <1>2, PTL DEF VirtioSpec

\* Across every wrap of the index, the device meets only chains that the driver
\* built and has not taken back, until the GPU driver takes an interrupt that was for
\* no completed chain as the end of its request.
THEOREM DeviceMeetsWholeChains == VirtioSpec => []ChainsIntact
<1>1. VirtioInv => ChainsIntact
  <2>1. early /\ driver = "gpu" => ChainsIntact
    BY Zenon DEF ChainsIntact
  <2>2. VirtioInit => ChainsIntact
    BY DEF VirtioInit, ChainsIntact
  <2> QED
    BY <2>1, <2>2, GpuIntact, BlockIntact, Zenon DEF VirtioInv
<1> QED
  BY <1>1, RingsHold, PTL


-----------------------------------------------------------------------------
\* The console: what the grid shows.

\* What can be drawn.
Characters == {" ", "W", "R", ">", "A", "a", "z"}

\* What a cell can show.
Marks == Characters \cup {Pointer}

\* The cells spell a text that ends before position p and are blank from there
\* on, and the only character a cell shows is its own.
Shows(cs, ink, p, text) ==
    /\ cs \in [Cells -> Characters] /\ ink \in [Cells -> SUBSET Marks]
    /\ \A i \in Cells : ink[i] \ {Pointer} = Ink(cs[i])
    /\ \A i \in Cells : i >= p => cs[i] = " "
    /\ \A k \in 1 .. Len(text) : p - Len(text) + k - 1 \in Cells => cs[p - Len(text) + k - 1] = text[k]

\* The ink of a character is no pointer.
LEMMA InkIs ==
    ASSUME NEW c \in Characters
    PROVE  Ink(c) \in SUBSET Marks /\ Pointer \notin Ink(c) /\ Ink(c) \ {Pointer} = Ink(c)
<1>1. c # Pointer
  BY Zenon DEF Characters, Pointer
<1>2. Ink(c) \in SUBSET Marks /\ Pointer \notin Ink(c)
  BY <1>1, Zenon DEF Ink, Marks
<1> QED
  BY <1>2, Zenon

\* The cells are numbered from 0, and a blank is a character.
LEMMA CellNumbers ==
           /\ Width * Height \in Int /\ Width \in Nat \ {0} /\ Height \in Nat \ {0}
           /\ Cells = 0 .. Width * Height - 1 /\ " " \in Characters /\ {} \in SUBSET Marks
<1>1. Width * Height \in Int
  BY GridAssumption
<1>2. " " \in Characters
  BY Zenon DEF Characters
<1> QED
  BY <1>1, <1>2, GridAssumption, Zenon DEF Cells

\* A text with one more character.
LEMMA OneCharacter ==
    ASSUME NEW text \in Seq(Characters), NEW c \in Characters
    PROVE  /\ Len(text) \in Nat /\ Append(text, c) \in Seq(Characters) /\ Len(Append(text, c)) = Len(text) + 1
           /\ Append(text, c)[Len(text) + 1] = c
           /\ \A k \in 1 .. Len(text) : Append(text, c)[k] = text[k]
<1>1. Len(text) \in Nat /\ Append(text, c) \in Seq(Characters) /\ Len(Append(text, c)) = Len(text) + 1
  OBVIOUS
<1>2. Append(text, c)[Len(text) + 1] = c
  OBVIOUS
<1>3. \A k \in 1 .. Len(text) : Append(text, c)[k] = text[k]
  OBVIOUS
<1> QED
  BY <1>1, <1>2, <1>3, Zenon

\* A text without its last character.
LEMMA LessOneCharacter ==
    ASSUME NEW text \in Seq(Characters), text # <<>>
    PROVE  /\ Len(text) \in Nat /\ Popped(text) \in Seq(Characters) /\ Len(Popped(text)) \in Nat
           /\ Len(Popped(text)) = Len(text) - 1
           /\ \A k \in 1 .. Len(Popped(text)) : Popped(text)[k] = text[k]
<1>1. Len(text) \in Nat /\ Len(text) # 0
  OBVIOUS
<1>2. PICK t : t = SubSeq(text, 1, Len(text) - 1)
  BY Zenon
<1>3. t \in Seq(Characters)
  BY <1>2
<1>4. Len(t) = Len(text) - 1 /\ Len(t) \in Nat
  <2>1. PICK n \in Nat : n = Len(text) - 1
    BY <1>1
  <2>2. 1 \in 1 .. Len(text) + 1 /\ n \in 0 .. Len(text)
    BY <1>1, <2>1
  <2>3. Len(SubSeq(text, 1, n)) = IF 1 <= n THEN n - 1 + 1 ELSE 0
    BY <2>2
  <2>4. Len(SubSeq(text, 1, n)) = n
    BY <2>2, <2>3
  <2> QED
    BY <1>2, <2>1, <2>4, Zenon
<1>5. \A k \in 1 .. Len(text) - 1 : t[k] = text[k]
  BY <1>1, <1>2
<1> QED
  BY <1>1, <1>2, <1>3, <1>4, <1>5, Zenon DEF Popped

\* A cell further down.
LEMMA CellsBelow ==
    ASSUME NEW N \in Int, NEW w \in Nat, NEW p \in Int, p <= N, NEW l \in Nat
    PROVE  \A i \in 0 .. N - 1 : i >= p - w => i + w >= p
OBVIOUS

\* The same for the place of a character of the text.
LEMMA CellBelow ==
    ASSUME NEW N \in Int, NEW w \in Nat, NEW p \in Int, p <= N, NEW l \in Nat, NEW k \in 1 .. l,
           p - w - l + k - 1 \in 0 .. N - 1
    PROVE  p - w - l + k - 1 + w = p - l + k - 1 /\ p - l + k - 1 \in 0 .. N - 1
OBVIOUS

\* What has to be shown of a grid that changed.
LEMMA ShowsIs ==
    ASSUME NEW cs \in [Cells -> Characters], NEW ink \in [Cells -> SUBSET Marks], NEW p, NEW text,
           \A i \in Cells : ink[i] \ {Pointer} = Ink(cs[i]),
           \A i \in Cells : i >= p => cs[i] = " ",
           \A k \in 1 .. Len(text) :
             p - Len(text) + k - 1 \in Cells => cs[p - Len(text) + k - 1] = text[k]
    PROVE  Shows(cs, ink, p, text)
BY Zenon DEF Shows

\* A character is drawn at a position that was blank.
LEMMA ShowsPut ==
    ASSUME NEW cs, NEW ink, NEW p \in Cells, NEW text \in Seq(Characters), NEW c \in Characters,
           Shows(cs, ink, p, text)
    PROVE  Shows([cs EXCEPT ![p] = c], [ink EXCEPT ![p] = @ \cup Ink(c)], p + 1, Append(text, c))
<1>1. PICK N \in Int : N = Width * Height
  BY CellNumbers, Zenon
<1>2. Cells = 0 .. N - 1
  BY <1>1, CellNumbers, Zenon
<1>3. PICK ds, jnk : ds = [cs EXCEPT ![p] = c] /\ jnk = [ink EXCEPT ![p] = @ \cup Ink(c)]
  BY Zenon
<1>4. Ink(c) \in SUBSET Marks /\ Ink(c) \ {Pointer} = Ink(c)
  BY InkIs, Zenon
<1>5. cs \in [Cells -> Characters] /\ ink \in [Cells -> SUBSET Marks]
  BY Zenon DEF Shows
<1>6. ds \in [Cells -> Characters] /\ jnk \in [Cells -> SUBSET Marks]
  BY <1>3, <1>4, <1>5
<1>7. \A i \in Cells : ds[i] = IF i = p THEN c ELSE cs[i]
  BY <1>3, <1>5, Zenon
<1>8. \A i \in Cells : jnk[i] = IF i = p THEN ink[p] \cup Ink(c) ELSE ink[i]
  BY <1>3, <1>5, Zenon
<1>9. ink[p] \ {Pointer} = {}
  <2>1. p >= p
    BY <1>2
  <2>2. cs[p] = " " /\ ink[p] \ {Pointer} = Ink(cs[p])
    BY <2>1, Zenon DEF Shows
  <2> QED
    BY <2>2, Zenon DEF Ink, Blank
<1>10. \A i \in Cells : jnk[i] \ {Pointer} = Ink(ds[i])
  <2>1. (ink[p] \cup Ink(c)) \ {Pointer} = Ink(c)
    BY <1>4, <1>9, Zenon
  <2> QED
    BY <1>7, <1>8, <2>1, Zenon DEF Shows
<1>11. \A i \in Cells : i >= p + 1 => ds[i] = " "
  <2>1. \A i \in Cells : i >= p + 1 => i >= p /\ i # p
    BY <1>2
  <2> QED
    BY <1>7, <2>1, Zenon DEF Shows
<1> DEFINE t == Append(text, c)
<1>13. Len(text) \in Nat /\ Len(t) = Len(text) + 1 /\ t[Len(text) + 1] = c
       /\ \A k \in 1 .. Len(text) : t[k] = text[k]
  BY OneCharacter, Zenon
<1> HIDE DEF t
<1>14. ASSUME NEW k \in 1 .. Len(t), (p + 1) - Len(t) + k - 1 \in Cells
       PROVE  ds[(p + 1) - Len(t) + k - 1] = t[k]
  <2>1. (p + 1) - Len(t) + k - 1 = p - Len(text) + k - 1
    BY <1>2, <1>13
  <2>2. CASE k = Len(text) + 1
    <3>1. p - Len(text) + k - 1 = p
      BY <1>2, <1>13, <2>2
    <3> QED
      BY <1>7, <1>13, <2>1, <2>2, <3>1, Zenon
  <2>3. CASE k # Len(text) + 1
    <3>1. k \in 1 .. Len(text) /\ p - Len(text) + k - 1 # p
      BY <1>2, <1>13, <2>3
    <3>2. cs[p - Len(text) + k - 1] = text[k]
      BY <1>14, <2>1, <3>1, Zenon DEF Shows
    <3> QED
      BY <1>7, <1>13, <1>14, <2>1, <3>1, <3>2, Zenon
  <2> QED
    BY <2>2, <2>3, Zenon
<1>15. Shows(ds, jnk, p + 1, t)
  <2>1. \A k \in 1 .. Len(t) : (p + 1) - Len(t) + k - 1 \in Cells => ds[(p + 1) - Len(t) + k - 1] = t[k]
    BY <1>14, Zenon
  <2> QED
    BY <1>6, <1>10, <1>11, <2>1, ShowsIs, Zenon
<1> QED
  BY <1>3, <1>15, Zenon DEF t

\* The last character is deleted.
LEMMA ShowsDelete ==
    ASSUME NEW cs, NEW ink, NEW p, p - 1 \in Cells, p \in Int, NEW text \in Seq(Characters), text # <<>>,
           Shows(cs, ink, p, text)
    PROVE  Shows([cs EXCEPT ![p - 1] = " "], [ink EXCEPT ![p - 1] = {}], p - 1, Popped(text))
<1>1. PICK N \in Int : N = Width * Height
  BY CellNumbers, Zenon
<1>2. Cells = 0 .. N - 1
  BY <1>1, CellNumbers, Zenon
<1>3. PICK ds, jnk : ds = [cs EXCEPT ![p - 1] = " "] /\ jnk = [ink EXCEPT ![p - 1] = {}]
  BY Zenon
<1>5. cs \in [Cells -> Characters] /\ ink \in [Cells -> SUBSET Marks]
  BY Zenon DEF Shows
<1>6. ds \in [Cells -> Characters] /\ jnk \in [Cells -> SUBSET Marks]
  BY <1>3, <1>5, CellNumbers, Zenon
<1>7. \A i \in Cells : ds[i] = IF i = p - 1 THEN " " ELSE cs[i]
  BY <1>3, <1>5, Zenon
<1>8. \A i \in Cells : jnk[i] = IF i = p - 1 THEN {} ELSE ink[i]
  BY <1>3, <1>5, Zenon
<1>10. \A i \in Cells : jnk[i] \ {Pointer} = Ink(ds[i])
  <2>1. Ink(" ") = {} /\ {} \ {Pointer} = {}
    BY Zenon DEF Ink, Blank
  <2> QED
    BY <1>7, <1>8, <2>1, Zenon DEF Shows
<1>11. \A i \in Cells : i >= p - 1 => ds[i] = " "
  <2>1. \A i \in Cells : i >= p - 1 => i >= p \/ i = p - 1
    BY <1>2
  <2> QED
    BY <1>7, <2>1, Zenon DEF Shows
<1>12. PICK t : t = Popped(text)
  BY Zenon
<1>13. Len(text) \in Nat /\ Len(t) \in Nat /\ Len(t) = Len(text) - 1 /\ \A k \in 1 .. Len(t) : t[k] = text[k]
  BY <1>12, LessOneCharacter, Zenon
<1>14. ASSUME NEW k \in 1 .. Len(t), p - 1 - Len(t) + k - 1 \in Cells
       PROVE  ds[p - 1 - Len(t) + k - 1] = t[k]
  <2>1. p - 1 - Len(t) + k - 1 = p - Len(text) + k - 1
    BY <1>13
  <2>2. k \in 1 .. Len(text) /\ p - Len(text) + k - 1 # p - 1
    BY <1>13
  <2>3. cs[p - Len(text) + k - 1] = text[k]
    BY <1>14, <2>1, <2>2, Zenon DEF Shows
  <2> QED
    BY <1>7, <1>13, <1>14, <2>1, <2>2, <2>3, Zenon
<1>15. Shows(ds, jnk, p - 1, t)
  BY <1>6, <1>10, <1>11, <1>14, Zenon DEF Shows
<1> QED
  BY <1>3, <1>12, <1>15, Zenon

\* A new line starts behind the text.
LEMMA ShowsNewline ==
    ASSUME NEW cs, NEW ink, NEW p \in Int, NEW q \in Int, q >= p, NEW text, Shows(cs, ink, p, text)
    PROVE  Shows(cs, ink, q, <<>>)
<1>1. PICK N \in Int : N = Width * Height
  BY CellNumbers, Zenon
<1>2. Cells = 0 .. N - 1
  BY <1>1, CellNumbers, Zenon
<1>3. \A i \in Cells : i >= q => i >= p
  BY <1>2
<1>4. \A i \in Cells : i >= q => cs[i] = " "
  BY <1>3, Zenon DEF Shows
<1>5. 1 .. Len(<<>>) = {}
  OBVIOUS
<1> QED
  BY <1>4, <1>5, Zenon DEF Shows

\* Everything moves up by a row.
LEMMA ShowsScroll ==
    ASSUME NEW cs, NEW ink, NEW p \in Int, p <= Width * Height, NEW text \in Seq(Characters), Shows(cs, ink, p, text),
           NEW up, up = [i \in Cells |-> IF i + Width \in Cells THEN cs[i + Width] ELSE " "]
    PROVE  Shows(up, [i \in Cells |-> Ink(up[i])], p - Width, text)
<1>1. PICK N \in Int : N = Width * Height
  BY CellNumbers, Zenon
<1>2. Cells = 0 .. N - 1 /\ p <= N
  BY <1>1, CellNumbers, Zenon
<1>3. PICK jnk : jnk = [i \in Cells |-> Ink(up[i])]
  BY Zenon
<1>4. cs \in [Cells -> Characters]
  BY Zenon DEF Shows
<1>5. \A i \in Cells : up[i] = IF i + Width \in Cells THEN cs[i + Width] ELSE " "
  BY Zenon
<1>6. up \in [Cells -> Characters]
  <2>1. \A i \in Cells : (IF i + Width \in Cells THEN cs[i + Width] ELSE " ") \in Characters
    BY <1>4, CellNumbers, Zenon
  <2> QED
    BY <2>1, Zenon
<1>7. jnk \in [Cells -> SUBSET Marks] /\ \A i \in Cells : jnk[i] \ {Pointer} = Ink(up[i])
  <2>1. \A i \in Cells : Ink(up[i]) \in SUBSET Marks /\ Ink(up[i]) \ {Pointer} = Ink(up[i])
    BY <1>6, InkIs, Zenon
  <2> QED
    BY <1>3, <2>1, Zenon
<1>8. \A i \in Cells : i >= p - Width => up[i] = " "
  <2>1. \A i \in Cells : i >= p - Width => i + Width >= p
    <3>1. Width \in Nat
      BY GridAssumption, Zenon
    <3>2. Len(text) \in Nat
      BY OneCharacter, CellNumbers, Zenon
    <3> QED
      BY <1>1, <1>2, <3>1, <3>2, CellsBelow, Zenon
  <2> QED
    BY <1>5, <2>1, Zenon DEF Shows
<1>9. ASSUME NEW k \in 1 .. Len(text), p - Width - Len(text) + k - 1 \in Cells
      PROVE  up[p - Width - Len(text) + k - 1] = text[k]
  <2>1. Len(text) \in Nat /\ Width \in Nat
    BY OneCharacter, CellNumbers, Zenon
  <2>2. /\ p - Width - Len(text) + k - 1 + Width = p - Len(text) + k - 1
        /\ p - Len(text) + k - 1 \in Cells
    <3>1. p - Width - Len(text) + k - 1 \in 0 .. N - 1
      BY <1>2, <1>9, Zenon
    <3>2. p <= N
      BY <1>2, Zenon
    <3>3. /\ p - Width - Len(text) + k - 1 + Width = p - Len(text) + k - 1
          /\ p - Len(text) + k - 1 \in 0 .. N - 1
      BY <2>1, <3>1, <3>2, CellBelow, Zenon
    <3> QED
      BY <1>2, <3>3, Zenon
  <2>3. cs[p - Len(text) + k - 1] = text[k]
    BY <2>2, Zenon DEF Shows
  <2> QED
    BY <1>5, <1>9, <2>2, <2>3, Zenon
<1> QED
  BY <1>3, <1>6, <1>7, <1>8, <1>9, Zenon DEF Shows

-----------------------------------------------------------------------------
\* Writing a character.

\* A text grid, as GfxConsole keeps it.
Grids == [cells : [Cells -> Characters], shown : [Cells -> SUBSET Marks], x : Int, y : Int,
          panic : BOOLEAN]

\* The cursor is in the grid, or below its last row, and a text ends there.
Ends(g, text) ==
    /\ g \in Grids /\ g.panic = FALSE
    /\ \/ g.x \in 0 .. Width - 1 /\ g.y \in 0 .. Height - 1
       \/ g.x = 0 /\ g.y = Height
    /\ Shows(g.cells, g.shown, g.y * Width + g.x, text)

\* The cursor is in the grid.
Spells(g, text) ==
    /\ g \in Grids /\ g.panic = FALSE
    /\ g.x \in 0 .. Width - 1 /\ g.y \in 0 .. Height - 1
    /\ Shows(g.cells, g.shown, g.y * Width + g.x, text)

\* Column x of row y is a cell, and its neighbours are where they should be.
InRows(w, h, x, y) ==
    /\ y * w + x \in 0 .. w * h - 1
    /\ y * w + (x + 1) = (y * w + x) + 1 /\ y * w + (x - 1) = (y * w + x) - 1
    /\ x + 1 = w => (y + 1) * w + 0 = (y * w + x) + 1
    /\ (y + 1) * w + 0 \in Int /\ y * w + x \in Int /\ (y + 1) * w + 0 >= y * w + x

\* Positions, row by row.
LEMMA Positions ==
    ASSUME NEW w \in Nat \ {0}, NEW h \in Nat \ {0}, NEW x \in 0 .. w - 1, NEW y \in 0 .. h - 1
    PROVE  InRows(w, h, x, y)
<1>1. y * w \in Int /\ (y + 1) * w = y * w + w /\ w * h \in Int
  OBVIOUS
<1>2. y * w + w <= w * h
  <2>1. PICK k \in Nat : h = y + 1 + k
    <3>1. h - y - 1 \in Nat /\ h = y + 1 + (h - y - 1)
      OBVIOUS
    <3> QED
      BY <3>1, Zenon
  <2>2. w * h = w * y + w + w * k /\ w * k \in Nat /\ w * y = y * w
    BY <2>1
  <2> QED
    BY <1>1, <2>2
<1> QED
  BY <1>1, <1>2 DEF InRows

\* The position below the last row.
LEMMA BelowLast ==
    ASSUME NEW w \in Nat \ {0}, NEW h \in Nat \ {0}
    PROVE  h * w + 0 \in Int /\ h * w + 0 <= w * h /\ (h * w + 0) - w = (h - 1) * w + 0
OBVIOUS

\* The grid moves up when the cursor is below it.
LEMMA ScrollSpells ==
    ASSUME NEW g, NEW text \in Seq(Characters), Ends(g, text)
    PROVE  Spells(Scroll(g), text)
<1>1. g \in Grids /\ g.panic = FALSE /\ Shows(g.cells, g.shown, g.y * Width + g.x, text)
  BY Zenon DEF Ends
<1>2. CASE g.y # Height
  BY <1>1, <1>2, Zenon DEF Ends, Spells, Scroll
<1>3. CASE g.y = Height
  <2>1. g.x = 0
    <3>1. Height \notin 0 .. Height - 1
      BY GridAssumption
    <3> QED
      BY <1>3, <3>1, Zenon DEF Ends
  <2> DEFINE up == [i \in Cells |-> IF i + Width \in Cells THEN g.cells[i + Width] ELSE " "]
             ink == [i \in Cells |-> Ink(up[i])]
             s == [g EXCEPT !.cells = up, !.shown = ink, !.x = 0, !.y = Height - 1]
  <2>2. Scroll(g) = s
    BY <1>3, Zenon DEF Scroll
  <2>3. Shows(g.cells, g.shown, Height * Width + 0, text)
    BY <1>1, <1>3, <2>1, Zenon
  <2>4. /\ Height * Width + 0 \in Int /\ Height * Width + 0 <= Width * Height
        /\ (Height * Width + 0) - Width = (Height - 1) * Width + 0
    BY BelowLast, GridAssumption, Zenon
  <2>5. Shows(up, ink, (Height * Width + 0) - Width, text)
    <3>1. PICK u : u = up
      BY Zenon
    <3>2. Shows(u, [i \in Cells |-> Ink(u[i])], (Height * Width + 0) - Width, text)
      BY <2>3, <2>4, <3>1, ShowsScroll, Zenon
    <3> QED
      BY <3>1, <3>2, Zenon
  <2>6. Shows(up, ink, (Height - 1) * Width + 0, text)
    BY <2>4, <2>5, Zenon
  <2>7. up \in [Cells -> Characters] /\ ink \in [Cells -> SUBSET Marks]
    BY <2>6, Zenon DEF Shows
  <2> HIDE DEF up, ink
  <2>8. /\ s \in Grids /\ s.cells = up /\ s.shown = ink /\ s.x = 0 /\ s.y = Height - 1 /\ s.panic = FALSE
    <3>1. 0 \in Int /\ Height - 1 \in Int
      BY GridAssumption
    <3> QED
      BY <1>1, <2>7, <3>1, Zenon DEF Grids
  <2>9. 0 \in 0 .. Width - 1 /\ Height - 1 \in 0 .. Height - 1
    BY GridAssumption
  <2> HIDE DEF s
  <2>10. Spells(s, text)
    BY <2>6, <2>8, <2>9, Zenon DEF Spells
  <2> QED
    BY <2>2, <2>10, Zenon
<1> QED
  BY <1>2, <1>3, Zenon

\* A character that is not a control character follows the text.
LEMMA WriteSpells ==
    ASSUME NEW g, NEW text \in Seq(Characters), Spells(g, text), NEW c \in Characters
    PROVE  Spells(write_char(g, c), Append(text, c)) /\ Append(text, c) \in Seq(Characters)
<1>0. c # "\n" /\ c # "DEL"
  BY Zenon DEF Characters
<1>1. /\ g \in Grids /\ g.panic = FALSE /\ g.x \in 0 .. Width - 1 /\ g.y \in 0 .. Height - 1
      /\ Shows(g.cells, g.shown, g.y * Width + g.x, text)
  BY Zenon DEF Spells
<1>2. PICK p : p = g.y * Width + g.x
  BY Zenon
<1>3. /\ p \in Cells /\ g.y * Width + (g.x + 1) = p + 1
      /\ g.x + 1 = Width => (g.y + 1) * Width + 0 = p + 1
  <2>1. /\ g.y * Width + g.x \in 0 .. Width * Height - 1
        /\ g.y * Width + (g.x + 1) = (g.y * Width + g.x) + 1
        /\ g.x + 1 = Width => (g.y + 1) * Width + 0 = (g.y * Width + g.x) + 1
    <3>1. InRows(Width, Height, g.x, g.y)
      BY <1>1, Positions, GridAssumption, Zenon
    <3> QED
      BY <3>1, Zenon DEF InRows
  <2> QED
    BY <1>2, <2>1, CellNumbers, Zenon
<1>4. PICK cs, ink : cs = [g.cells EXCEPT ![p] = c] /\ ink = [g.shown EXCEPT ![p] = @ \cup Ink(c)]
  BY Zenon
<1>5. Shows(cs, ink, p + 1, Append(text, c)) /\ Append(text, c) \in Seq(Characters)
  BY <1>1, <1>2, <1>3, <1>4, ShowsPut, OneCharacter, Zenon
<1>6. cs \in [Cells -> Characters] /\ ink \in [Cells -> SUBSET Marks]
  BY <1>5, Zenon DEF Shows
<1>7. PICK q : q = put_cell(g, p, c)
  BY Zenon
<1>8. q = [[g EXCEPT !.cells[p] = c] EXCEPT !.shown[p] = @ \cup Ink(c)]
  BY <1>3, <1>7, Zenon DEF put_cell, draw_glyph
<1>9. q \in Grids /\ q.cells = cs /\ q.shown = ink /\ q.x = g.x /\ q.y = g.y /\ q.panic = FALSE
  BY <1>1, <1>4, <1>6, <1>8, Zenon DEF Grids
<1>10. PICK r : r = [q EXCEPT !.x = @ + 1]
  BY Zenon
<1>11. r \in Grids /\ r.cells = cs /\ r.shown = ink /\ r.x = g.x + 1 /\ r.y = g.y /\ r.panic = FALSE
  BY <1>1, <1>9, <1>10 DEF Grids
<1>12. write_char(g, c) = Scroll(EndOfLine(r))
  BY <1>0, <1>1, <1>2, <1>7, <1>10, Zenon DEF write_char
<1>13. Ends(EndOfLine(r), Append(text, c))
  <2>1. CASE r.x = Width
    <3>1. PICK e : e = [r EXCEPT !.x = 0, !.y = @ + 1]
      BY Zenon
    <3>2. EndOfLine(r) = e
      BY <2>1, <3>1, Zenon DEF EndOfLine
    <3>3. /\ e \in Grids /\ e.cells = cs /\ e.shown = ink /\ e.x = 0 /\ e.y = g.y + 1 /\ e.panic = FALSE
      <4>1. 0 \in Int /\ g.y + 1 \in Int
        BY <1>1
      <4> QED
        BY <1>11, <3>1, <4>1, Zenon DEF Grids
    <3>4. \/ 0 \in 0 .. Width - 1 /\ g.y + 1 \in 0 .. Height - 1
          \/ g.y + 1 = Height
      BY <1>1, GridAssumption
    <3>5. (g.y + 1) * Width + 0 = p + 1
      BY <1>3, <1>11, <2>1, Zenon
    <3>6. Shows(e.cells, e.shown, e.y * Width + e.x, Append(text, c))
      BY <1>5, <3>3, <3>5, Zenon
    <3> QED
      BY <3>2, <3>3, <3>4, <3>6, Zenon DEF Ends
  <2>2. CASE r.x # Width
    <3>1. EndOfLine(r) = r
      BY <2>2, Zenon DEF EndOfLine
    <3>2. g.x + 1 \in 0 .. Width - 1
      <4>1. PICK x : x = g.x
        BY Zenon
      <4>2. x \in 0 .. Width - 1 /\ x + 1 # Width
        BY <1>1, <1>11, <2>2, <4>1, Zenon
      <4>3. x + 1 \in 0 .. Width - 1
        BY <4>2, GridAssumption
      <4> QED
        BY <4>1, <4>3, Zenon
    <3>3. Shows(r.cells, r.shown, r.y * Width + r.x, Append(text, c))
      BY <1>3, <1>5, <1>11, Zenon
    <3> QED
      BY <1>1, <1>11, <3>1, <3>2, <3>3, Zenon DEF Ends
  <2> QED
    BY <2>1, <2>2, Zenon
<1> QED
  BY <1>5, <1>12, <1>13, ScrollSpells, Zenon

\* A new line.
LEMMA NewlineSpells ==
    ASSUME NEW g, NEW text \in Seq(Characters), Spells(g, text)
    PROVE  Spells(write_char(g, "\n"), <<>>)
<1>1. /\ g \in Grids /\ g.panic = FALSE /\ g.x \in 0 .. Width - 1 /\ g.y \in 0 .. Height - 1
      /\ Shows(g.cells, g.shown, g.y * Width + g.x, text)
  BY Zenon DEF Spells
<1>2. PICK e : e = [g EXCEPT !.x = 0, !.y = @ + 1]
  BY Zenon
<1>3. e \in Grids /\ e.cells = g.cells /\ e.shown = g.shown /\ e.x = 0 /\ e.y = g.y + 1 /\ e.panic = FALSE
  <2>1. 0 \in Int /\ g.y + 1 \in Int
    BY <1>1
  <2> QED
    BY <1>1, <1>2, <2>1, Zenon DEF Grids
<1>4. write_char(g, "\n") = Scroll(e)
  <2>1. e.x # Width
    BY <1>3, GridAssumption
  <2> QED
    BY <1>1, <1>2, <2>1, Zenon DEF write_char, EndOfLine
<1>5. Shows(g.cells, g.shown, (g.y + 1) * Width + 0, <<>>)
  <2>1. /\ (g.y + 1) * Width + 0 \in Int /\ g.y * Width + g.x \in Int
        /\ (g.y + 1) * Width + 0 >= g.y * Width + g.x
    <3>1. InRows(Width, Height, g.x, g.y)
      BY <1>1, Positions, GridAssumption, Zenon
    <3> QED
      BY <3>1, Zenon DEF InRows
  <2> QED
    <3>1. PICK p, q : p = g.y * Width + g.x /\ q = (g.y + 1) * Width + 0
      BY Zenon
    <3>2. p \in Int /\ q \in Int /\ q >= p /\ Shows(g.cells, g.shown, p, text)
      BY <1>1, <2>1, <3>1, Zenon
    <3>3. Shows(g.cells, g.shown, q, <<>>)
      BY <3>2, ShowsNewline, Zenon
    <3> QED
      BY <3>1, <3>3, Zenon
<1>6. Shows(e.cells, e.shown, e.y * Width + e.x, <<>>)
  BY <1>3, <1>5, Zenon
<1>7. \/ 0 \in 0 .. Width - 1 /\ g.y + 1 \in 0 .. Height - 1
      \/ g.y + 1 = Height
  BY <1>1, GridAssumption
<1>8. Ends(e, <<>>)
  BY <1>3, <1>6, <1>7, Zenon DEF Ends
<1>9. <<>> \in Seq(Characters)
  OBVIOUS
<1> QED
  BY <1>4, <1>8, <1>9, ScrollSpells, Zenon

\* A deletion that does not cross the start of a row.
LEMMA DeleteSpells ==
    ASSUME NEW g, NEW text \in Seq(Characters), text # <<>>, Spells(g, text), ~(g.x <= 0)
    PROVE  Spells(write_char(g, "DEL"), Popped(text)) /\ Popped(text) \in Seq(Characters)
<1>1. /\ g \in Grids /\ g.panic = FALSE /\ g.x \in 0 .. Width - 1 /\ g.y \in 0 .. Height - 1
      /\ Shows(g.cells, g.shown, g.y * Width + g.x, text)
  BY Zenon DEF Spells
<1>2. PICK p : p = g.y * Width + g.x
  BY Zenon
<1>3. p \in Int /\ p \in Cells /\ g.y * Width + (g.x - 1) = p - 1
  <2>1. InRows(Width, Height, g.x, g.y)
    BY <1>1, Positions, CellNumbers, Zenon
  <2> QED
    BY <1>2, <2>1, CellNumbers, Zenon DEF InRows
<1>4. g.x - 1 \in 0 .. Width - 1 /\ ~(g.x - 1 < 0) /\ ~(g.x - 1 < -1) /\ g.x - 1 # Width
  BY <1>1, GridAssumption
<1>5. p - 1 \in Cells
  <2>1. InRows(Width, Height, g.x - 1, g.y)
    BY <1>1, <1>4, Positions, CellNumbers, Zenon
  <2> QED
    BY <1>3, <2>1, CellNumbers, Zenon DEF InRows
<1>6. PICK cs, ink : cs = [g.cells EXCEPT ![p - 1] = " "] /\ ink = [g.shown EXCEPT ![p - 1] = {}]
  BY Zenon
<1>7. Shows(cs, ink, p - 1, Popped(text)) /\ Popped(text) \in Seq(Characters)
  BY <1>1, <1>2, <1>3, <1>5, <1>6, ShowsDelete, LessOneCharacter, Zenon
<1>8. cs \in [Cells -> Characters] /\ ink \in [Cells -> SUBSET Marks]
  BY <1>7, Zenon DEF Shows
<1>9. PICK d : d = [g EXCEPT !.x = g.x - 1, !.cells[p - 1] = " ", !.shown[p - 1] = {}]
  BY Zenon
<1>10. Delete(g) = d
  <2>1. Delete(g) = [g EXCEPT !.x = g.x - 1, !.cells[p - 1] = " ",
                              !.shown[p - 1] = IF g.x - 1 < 0 THEN @ ELSE {}]
    BY <1>3, <1>4, <1>5, Zenon DEF Delete
  <2> QED
    BY <1>4, <1>9, <2>1, Zenon
<1>11. d \in Grids /\ d.cells = cs /\ d.shown = ink /\ d.x = g.x - 1 /\ d.y = g.y /\ d.panic = FALSE
  <2>1. g.x - 1 \in Int
    BY <1>1
  <2> QED
    BY <1>1, <1>6, <1>8, <1>9, <2>1, Zenon DEF Grids
<1>12. write_char(g, "DEL") = Scroll(d)
  BY <1>1, <1>4, <1>10, <1>11, Zenon DEF write_char, EndOfLine
<1>13. Ends(d, Popped(text))
  BY <1>1, <1>3, <1>4, <1>7, <1>11, Zenon DEF Ends
<1> QED
  BY <1>7, <1>12, <1>13, ScrollSpells, Zenon

-----------------------------------------------------------------------------
\* Writing a string.

\* A set of numbers that is not empty has a least one.
LEMMA LeastNumber ==
    ASSUME NEW T \in SUBSET Nat, T # {}
    PROVE  \E x \in T : \A y \in T : x <= y
<1>1. IsWellFoundedOn(OpToRel(<, Nat), Nat)
  BY NatLessThanWellFounded, Zenon
<1>2. PICK x \in T : \A y \in T : ~ (<<y, x>> \in OpToRel(<, Nat))
  BY <1>1, WFMin, Zenon
<1>3. \A y \in T : ~(y < x)
  BY <1>2, Zenon DEF OpToRel
<1> QED
  BY <1>3

\* The grids that writing a string goes through.
Written(g, s, after) ==
    /\ after[0] = g /\ write_str(g, s) = after[Len(s)]
    /\ \A n \in 1 .. Len(s) : after[n] = write_char(after[n - 1], s[n])

\* write_str writes one character after the other.
LEMMA WriteSteps ==
    ASSUME NEW g, NEW s, Len(s) \in Nat
    PROVE  \E after : Written(g, s, after)
<1> DEFINE Along(n, f) == f = [k \in 0 .. n |-> IF k = 0 THEN g ELSE write_char(f[k - 1], s[k])]
           Bad == { n \in Nat : ~ \E f : Along(n, f) }
<1>1. ASSUME Bad # {} PROVE FALSE
  <2>1. PICK n \in Bad : \A m \in Bad : n <= m
    BY <1>1, LeastNumber, Zenon
  <2>2. n \in Nat /\ ~ \E f : Along(n, f)
    BY <2>1, Zenon
  <2>3. CASE n = 0
    <3>1. PICK f : f = [k \in 0 .. 0 |-> g]
      BY Zenon
    <3>2. \A k \in 0 .. 0 : k = 0
      OBVIOUS
    <3>3. f = [k \in 0 .. 0 |-> IF k = 0 THEN g ELSE write_char(f[k - 1], s[k])]
      BY <3>1, <3>2, Zenon
    <3> QED
      BY <2>2, <2>3, <3>3, Zenon
  <2>4. CASE n # 0
    <3>1. n - 1 \in Nat /\ ~(n <= n - 1)
      BY <2>2, <2>4
    <3>2. PICK f : Along(n - 1, f)
      BY <2>1, <3>1, Zenon
    <3>3. PICK h : h = [k \in 0 .. n |-> IF k = n THEN write_char(f[n - 1], s[n]) ELSE f[k]]
      BY Zenon
    <3>4. ASSUME NEW k \in 0 .. n PROVE h[k] = IF k = 0 THEN g ELSE write_char(h[k - 1], s[k])
      <4>1. h[k] = IF k = n THEN write_char(f[n - 1], s[n]) ELSE f[k]
        BY <3>3, Zenon
      <4>2. CASE k = n
        <5>1. n - 1 \in 0 .. n /\ n - 1 # n
          BY <2>2, <3>1
        <5>2. h[n - 1] = f[n - 1]
          BY <3>3, <5>1, Zenon
        <5> QED
          BY <2>4, <4>1, <4>2, <5>2, Zenon
      <4>3. CASE k # n
        <5>1. k \in 0 .. n - 1
          BY <2>2, <4>3
        <5>2. f[k] = IF k = 0 THEN g ELSE write_char(f[k - 1], s[k])
          BY <3>2, <5>1, Zenon
        <5>3. CASE k = 0
          BY <4>1, <4>3, <5>2, <5>3, Zenon
        <5>4. CASE k # 0
          <6>1. k - 1 \in 0 .. n /\ k - 1 # n
            BY <2>2, <5>1, <5>4
          <6>2. h[k - 1] = f[k - 1]
            BY <3>3, <6>1, Zenon
          <6> QED
            BY <4>1, <4>3, <5>2, <5>4, <6>2, Zenon
        <5> QED
          BY <5>3, <5>4, Zenon
      <4> QED
        BY <4>2, <4>3, Zenon
    <3>5. h = [k \in 0 .. n |-> h[k]]
      BY <3>3, Zenon
    <3>6. Along(n, h)
      BY <3>4, <3>5, Zenon
    <3> QED
      BY <2>2, <3>6, Zenon
  <2> QED
    BY <2>3, <2>4, Zenon
<1>2. \E f : Along(Len(s), f)
  BY <1>1, Zenon
<1>3. PICK after : after = CHOOSE f : Along(Len(s), f)
  BY Zenon
<1>4. Along(Len(s), after)
  BY <1>2, <1>3, Zenon
<1>5. write_str(g, s) = after[Len(s)]
  BY <1>3, Zenon DEF write_str
<1>6. 0 \in 0 .. Len(s) /\ \A n \in 1 .. Len(s) : n \in 0 .. Len(s) /\ n # 0
  OBVIOUS
<1>7. after[0] = g
  BY <1>4, <1>6, Zenon
<1>8. \A n \in 1 .. Len(s) : after[n] = write_char(after[n - 1], s[n])
  BY <1>4, <1>6, Zenon
<1> QED
  BY <1>5, <1>7, <1>8, Zenon DEF Written

\* The strings the console writes have one, four or six characters.
LEMMA OneWritten ==
    ASSUME NEW g, NEW c
    PROVE  write_str(g, <<c>>) = write_char(g, c)
<1>1. PICK s : s = <<c>>
  BY Zenon
<1>2. Len(s) = 1 /\ s[1] = c /\ Len(s) \in Nat
  BY <1>1
<1>3. PICK after : Written(g, s, after)
  BY <1>2, WriteSteps, Zenon
<1>4. 1 \in 1 .. 1 /\ 1 - 1 = 0
  OBVIOUS
<1> QED
  BY <1>1, <1>2, <1>3, <1>4, Zenon DEF Written

\* Strings of four and of six characters.
Four(s, a, b, c, d) == Len(s) = 4 /\ s[1] = a /\ s[2] = b /\ s[3] = c /\ s[4] = d
Six(s, a, b, c, d, e, f) == Len(s) = 6 /\ s[1] = a /\ s[2] = b /\ s[3] = c /\ s[4] = d /\ s[5] = e /\ s[6] = f

\* The grid that comes of writing them.
AfterFour(r, g, a, b, c, d) == r = write_char(write_char(write_char(write_char(g, a), b), c), d)
AfterSix(r, g, a, b, c, d, e, f) ==
    r = write_char(write_char(write_char(write_char(write_char(write_char(g, a), b), c), d), e), f)

\* Four characters.
LEMMA FourWritten ==
    ASSUME NEW g, NEW s, NEW a, NEW b, NEW c, NEW d, Four(s, a, b, c, d)
    PROVE  AfterFour(write_str(g, s), g, a, b, c, d)
<1>1. Len(s) \in Nat
  BY DEF Four
<1>2. PICK after : Written(g, s, after)
  BY <1>1, WriteSteps, Zenon
<1>3. 1 \in 1 .. 4 /\ 2 \in 1 .. 4 /\ 3 \in 1 .. 4 /\ 4 \in 1 .. 4
  OBVIOUS
<1>4. 1 - 1 = 0 /\ 2 - 1 = 1 /\ 3 - 1 = 2 /\ 4 - 1 = 3
  OBVIOUS
<1>5. after[1] = write_char(g, a)
  BY <1>2, <1>3, <1>4, Zenon DEF Written, Four
<1>6. after[2] = write_char(after[1], b)
  BY <1>2, <1>3, <1>4, Zenon DEF Written, Four
<1>7. after[3] = write_char(after[2], c)
  BY <1>2, <1>3, <1>4, Zenon DEF Written, Four
<1>8. after[4] = write_char(after[3], d)
  BY <1>2, <1>3, <1>4, Zenon DEF Written, Four
<1> QED
  BY <1>2, <1>5, <1>6, <1>7, <1>8, Zenon DEF Written, Four, AfterFour

\* Six characters.
LEMMA SixWritten ==
    ASSUME NEW g, NEW s, NEW a, NEW b, NEW c, NEW d, NEW e, NEW f, Six(s, a, b, c, d, e, f)
    PROVE  AfterSix(write_str(g, s), g, a, b, c, d, e, f)
<1>1. Len(s) \in Nat
  BY DEF Six
<1>2. PICK after : Written(g, s, after)
  BY <1>1, WriteSteps, Zenon
<1>3. 1 \in 1 .. 6 /\ 2 \in 1 .. 6 /\ 3 \in 1 .. 6 /\ 4 \in 1 .. 6 /\ 5 \in 1 .. 6 /\ 6 \in 1 .. 6
  OBVIOUS
<1>4. 1 - 1 = 0 /\ 2 - 1 = 1 /\ 3 - 1 = 2 /\ 4 - 1 = 3 /\ 5 - 1 = 4 /\ 6 - 1 = 5
  OBVIOUS
<1>5. after[1] = write_char(g, a)
  BY <1>2, <1>3, <1>4, Zenon DEF Written, Six
<1>6. after[2] = write_char(after[1], b)
  BY <1>2, <1>3, <1>4, Zenon DEF Written, Six
<1>7. after[3] = write_char(after[2], c)
  BY <1>2, <1>3, <1>4, Zenon DEF Written, Six
<1>8. after[4] = write_char(after[3], d)
  BY <1>2, <1>3, <1>4, Zenon DEF Written, Six
<1>9. after[5] = write_char(after[4], e)
  BY <1>2, <1>3, <1>4, Zenon DEF Written, Six
<1>10. after[6] = write_char(after[5], f)
  BY <1>2, <1>3, <1>4, Zenon DEF Written, Six
<1> QED
  <2>1. write_str(g, s) = after[6]
    BY <1>2, Zenon DEF Written, Six
  <2>2. after[3] = write_char(write_char(write_char(g, a), b), c)
    BY <1>5, <1>6, <1>7, Zenon
  <2>3. after[6] = write_char(write_char(write_char(after[3], d), e), f)
    BY <1>8, <1>9, <1>10, Zenon
  <2> QED
    BY <2>1, <2>2, <2>3, Zenon DEF AfterSix

\* The characters of the strings that are put together.
LEMMA JoinTwo ==
    ASSUME NEW a, NEW b, NEW c, NEW d
    PROVE  Four(<<a, b>> \o <<c, d>>, a, b, c, d)
<1>1. PICK s : s = <<a, b>> \o <<c, d>>
  BY Zenon
<1>2. Len(s) = 4 /\ s[1] = a /\ s[2] = b /\ s[3] = c /\ s[4] = d
  BY <1>1
<1> QED
  BY <1>1, <1>2, Zenon DEF Four

\* The same with an empty one.
LEMMA JoinThree ==
    ASSUME NEW a, NEW b, NEW c, NEW d
    PROVE  Four(<<a>> \o <<>> \o <<b>> \o <<c, d>>, a, b, c, d)
<1>1. PICK s : s = <<a>> \o <<>> \o <<b>> \o <<c, d>>
  BY Zenon
<1>2. Len(s) = 4 /\ s[1] = a /\ s[2] = b /\ s[3] = c /\ s[4] = d
  BY <1>1
<1> QED
  BY <1>1, <1>2, Zenon DEF Four

\* The same with four of them.
LEMMA JoinFour ==
    ASSUME NEW a, NEW b, NEW c, NEW d, NEW e, NEW f
    PROVE  Six(<<a>> \o <<b, c>> \o <<d>> \o <<e, f>>, a, b, c, d, e, f)
<1>1. PICK s : s = <<a>> \o <<b, c>> \o <<d>> \o <<e, f>>
  BY Zenon
<1>2. Len(s) = 6 /\ s[1] = a /\ s[2] = b /\ s[3] = c /\ s[4] = d /\ s[5] = e /\ s[6] = f
  BY <1>1
<1> QED
  BY <1>1, <1>2, Zenon DEF Six

\* Two texts with the same characters are the same.
LEMMA SameText ==
    ASSUME NEW s \in Seq(Characters), NEW t \in Seq(Characters), Len(s) = Len(t),
           \A k \in 1 .. Len(s) : s[k] = t[k]
    PROVE  s = t
OBVIOUS

\* The prompt, character by character.
LEMMA PromptIs ==
           Prompt = Append(<<">">>, " ") /\ Prompt \in Seq(Characters)
<1>1. ">" \in Characters /\ " " \in Characters
  BY Zenon DEF Characters
<1>2. PICK a, b : a = ">" /\ b = " "
  BY Zenon
<1>3. PICK s, t : s = Append(<<a>>, b) /\ t = <<a, b>>
  BY Zenon
<1>4. a \in Characters /\ b \in Characters
  BY <1>1, <1>2, Zenon
<1>5. Len(s) = 2 /\ s[1] = a /\ s[2] = b /\ s \in Seq(Characters)
  BY <1>3, <1>4
<1>6. Len(t) = 2 /\ t[1] = a /\ t[2] = b /\ t \in Seq(Characters)
  BY <1>3, <1>4
<1>7. \A k \in 1 .. 2 : k = 1 \/ k = 2
  OBVIOUS
<1>8. s = t
  BY <1>5, <1>6, <1>7, SameText, Zenon
<1> QED
  BY <1>2, <1>3, <1>6, <1>8, Zenon DEF Prompt

\* A new row with the prompt.
LEMMA PromptSpelt ==
    ASSUME NEW g, NEW text \in Seq(Characters), Spells(g, text)
    PROVE  Spells(write_char(write_char(write_char(g, "\n"), ">"), " "), Prompt)
<1>1. PICK h : h = write_char(g, "\n")
  BY Zenon
<1>2. Spells(h, <<>>) /\ <<>> \in Seq(Characters)
  BY <1>1, NewlineSpells
<1>3. ">" \in Characters /\ " " \in Characters
  BY Zenon DEF Characters
<1>4. PICK l : l = write_char(h, ">")
  BY Zenon
<1>5. PICK t : t = Append(<<>>, ">")
  BY Zenon
<1>6. Spells(l, t) /\ t \in Seq(Characters)
  BY <1>2, <1>3, <1>4, <1>5, WriteSpells, Zenon
<1>7. Spells(write_char(l, " "), Append(t, " "))
  BY <1>3, <1>6, WriteSpells, Zenon
<1>8. Append(t, " ") = Prompt
  <2>1. t = <<">">>
    BY <1>5
  <2> QED
    BY <2>1, PromptIs, Zenon
<1> QED
  BY <1>1, <1>4, <1>7, <1>8, Zenon

\* What the console starts with.
LEMMA GreetingSpelt ==
           Spells(write_str(GfxConsole_new, <<"W", "\n">> \o Prompt), Prompt)
<1>1. PICK g : g = GfxConsole_new
  BY Zenon
<1>2. Spells(g, <<>>) /\ <<>> \in Seq(Characters)
  <2>1. /\ g.cells = [i \in Cells |-> " "] /\ g.shown = [i \in Cells |-> {}] /\ g.x = 0 /\ g.y = 0
        /\ g.panic = FALSE
    BY <1>1, Zenon DEF GfxConsole_new
  <2>2. g \in Grids
    <3>1. 0 \in Int /\ FALSE \in BOOLEAN
      OBVIOUS
    <3>2. [i \in Cells |-> " "] \in [Cells -> Characters] /\ [i \in Cells |-> {}] \in [Cells -> SUBSET Marks]
      BY CellNumbers, Zenon
    <3> QED
      BY <1>1, <3>1, <3>2, Zenon DEF GfxConsole_new, Grids
  <2>3. 0 \in 0 .. Width - 1 /\ 0 \in 0 .. Height - 1
    BY GridAssumption
  <2>4. Len(<<>>) = 0 /\ <<>> \in Seq(Characters)
    OBVIOUS
  <2>5. \A k \in 1 .. 0 : FALSE
    OBVIOUS
  <2>6. \A i \in Cells : Ink(" ") = {}
    BY Zenon DEF Ink, Blank
  <2>7. Shows(g.cells, g.shown, g.y * Width + g.x, <<>>)
    BY <2>1, <2>2, <2>4, <2>5, <2>6, CellNumbers, Zenon DEF Shows, Grids
  <2> QED
    BY <2>1, <2>2, <2>3, <2>4, <2>7, Zenon DEF Spells
<1>3. "W" \in Characters
  BY Zenon DEF Characters
<1>4. Spells(write_char(g, "W"), Append(<<>>, "W")) /\ Append(<<>>, "W") \in Seq(Characters)
  BY <1>2, <1>3, WriteSpells, Zenon
<1>5. PICK s : s = <<"W", "\n">> \o Prompt
  BY Zenon
<1>6. Four(s, "W", "\n", ">", " ")
  BY <1>5, JoinTwo, Zenon DEF Prompt
<1>7. write_str(g, s) = write_char(write_char(write_char(write_char(g, "W"), "\n"), ">"), " ")
  <2>1. AfterFour(write_str(g, s), g, "W", "\n", ">", " ")
    BY <1>6, FourWritten, Zenon
  <2> QED
    BY <2>1, Zenon DEF AfterFour
<1>8. PICK h, t : h = write_char(g, "W") /\ t = Append(<<>>, "W")
  BY Zenon
<1>9. Spells(write_char(write_char(write_char(h, "\n"), ">"), " "), Prompt)
  BY <1>4, <1>8, PromptSpelt, Zenon
<1> QED
  BY <1>1, <1>5, <1>7, <1>8, <1>9, Zenon

\* Return: the output of the interpreter, and the prompt again.
LEMMA ReturnSpelt ==
    ASSUME NEW g, NEW text \in Seq(Characters), Spells(g, text), NEW out \in Outputs
    PROVE  Spells(write_str(g, <<"\n">> \o out \o <<"\n">> \o Prompt), Prompt)
<1>1. PICK h : h = write_char(g, "\n")
  BY Zenon
<1>2. Spells(h, <<>>) /\ <<>> \in Seq(Characters)
  BY <1>1, NewlineSpells
<1>3. CASE out = <<>>
  <2>1. PICK s : s = <<"\n">> \o out \o <<"\n">> \o Prompt
    BY Zenon
  <2>2. Four(s, "\n", "\n", ">", " ")
    BY <1>3, <2>1, JoinThree, Zenon DEF Prompt
  <2>3. write_str(g, s) = write_char(write_char(write_char(h, "\n"), ">"), " ")
    <3>1. AfterFour(write_str(g, s), g, "\n", "\n", ">", " ")
      BY <2>2, FourWritten, Zenon
    <3> QED
      BY <1>1, <3>1, Zenon DEF AfterFour
  <2>4. Spells(write_char(write_char(write_char(h, "\n"), ">"), " "), Prompt)
    BY <1>2, PromptSpelt, Zenon
  <2> QED
    BY <2>1, <2>3, <2>4, Zenon
<1>4. CASE out = <<"R", "\n">>
  <2>1. PICK s : s = <<"\n">> \o out \o <<"\n">> \o Prompt
    BY Zenon
  <2>2. Six(s, "\n", "R", "\n", "\n", ">", " ")
    BY <1>4, <2>1, JoinFour, Zenon DEF Prompt
  <2>3. PICK r, t, n : r = write_char(h, "R") /\ t = Append(<<>>, "R") /\ n = write_char(r, "\n")
    BY Zenon
  <2>4. write_str(g, s) = write_char(write_char(write_char(n, "\n"), ">"), " ")
    <3>1. AfterSix(write_str(g, s), g, "\n", "R", "\n", "\n", ">", " ")
      BY <2>2, SixWritten, Zenon
    <3> QED
      BY <1>1, <2>3, <3>1, Zenon DEF AfterSix
  <2>5. "R" \in Characters
    BY Zenon DEF Characters
  <2>6. Spells(r, t) /\ t \in Seq(Characters)
    BY <1>2, <2>3, <2>5, WriteSpells, Zenon
  <2>7. Spells(n, <<>>)
    BY <2>3, <2>6, NewlineSpells, Zenon
  <2>8. Spells(write_char(write_char(write_char(n, "\n"), ">"), " "), Prompt)
    BY <1>2, <2>7, PromptSpelt, Zenon
  <2> QED
    BY <2>1, <2>4, <2>8, Zenon
<1> QED
  BY <1>3, <1>4, Zenon DEF Outputs

-----------------------------------------------------------------------------
\* The console's steps.

\* What the input task sends to the console's.
Events == [t : {"key"}, c : Characters \cup {"\n", "DEL"}] \cup { e \in InputEvents : e.t = "move" }

\* Where the console draws.
Drawing == {"wait", "drawn", "greeted"}

\* Nothing has been typed before there is a framebuffer.
ConsoleTypes ==
    /\ hid \in Seq(InputEvents) /\ input_events \in Seq(Events)
    /\ control \in Nat /\ handed \in Nat /\ current_line \in Seq(Characters) /\ crossed \in BOOLEAN
    /\ console \in {"off", "greeted", "drawn", "wait", "dead"}
    /\ handed = 0 => current_line = <<>> /\ console \notin Drawing

\* The grid spells the prompt and the line.
LineSpelt == console \in Drawing /\ ~crossed => Spells(Grid, Prompt \o current_line)

\* A drawing that the display does not show has a message or a flush on its way.
Told == console \in {"wait", "off"} => control > 0 \/ gpu = "flush" \/ display = shown

\* The inductive invariant of the console and the display driver.
ConsoleInv == ConsoleTypes /\ LineSpelt /\ Told

\* The line after the prompt.
LEMMA LineText ==
    ASSUME NEW l \in Seq(Characters)
    PROVE  /\ Prompt \o l \in Seq(Characters) /\ Prompt \o l # <<>>
           /\ Prompt \o <<>> = Prompt
           /\ \A c \in Characters : Prompt \o Append(l, c) = Append(Prompt \o l, c)
           /\ l # <<>> => Prompt \o Popped(l) = Popped(Prompt \o l)
<1>1. PICK p \in Seq(Characters) : p = Prompt
  BY PromptIs, Zenon
<1>2. Len(p) = 2
  BY <1>1 DEF Prompt
<1>3. Len(l) \in Nat /\ p \o l \in Seq(Characters) /\ Len(p \o l) = 2 + Len(l)
  <2>1. Len(l) \in Nat /\ p \o l \in Seq(Characters)
    OBVIOUS
  <2>2. Len(p \o l) = Len(p) + Len(l)
    OBVIOUS
  <2> QED
    BY <1>2, <2>1, <2>2, Zenon
<1>4. p \o l # <<>>
  BY <1>2, <1>3
<1>5. p \o <<>> = p
  OBVIOUS
<1>6. ASSUME NEW c \in Characters PROVE p \o Append(l, c) = Append(p \o l, c)
  <2>1. PICK s, t : s = p \o Append(l, c) /\ t = Append(p \o l, c)
    BY Zenon
  <2>2. s \in Seq(Characters) /\ t \in Seq(Characters) /\ Len(s) = Len(l) + 3 /\ Len(t) = Len(l) + 3
    BY <1>2, <1>3, <2>1
  <2>3. ASSUME NEW k \in 1 .. Len(s) PROVE s[k] = t[k]
    BY <1>2, <1>3, <2>1, <2>2
  <2> QED
    BY <2>1, <2>2, <2>3, SameText, Zenon
<1>7. ASSUME l # <<>> PROVE p \o Popped(l) = Popped(p \o l)
  <2>1. /\ Popped(l) \in Seq(Characters) /\ Len(Popped(l)) = Len(l) - 1
        /\ \A k \in 1 .. Len(l) - 1 : Popped(l)[k] = l[k]
    BY <1>7, LessOneCharacter, Zenon
  <2>2. PICK q \in Seq(Characters) : q = p \o l
    BY <1>3, Zenon
  <2>3. /\ Popped(q) \in Seq(Characters) /\ Len(Popped(q)) = Len(q) - 1
        /\ \A k \in 1 .. Len(q) - 1 : Popped(q)[k] = q[k]
    BY <1>4, <2>2, LessOneCharacter, Zenon
  <2>4. PICK f \in Seq(Characters), h \in Seq(Characters) : f = Popped(l) /\ h = Popped(q)
    BY <2>1, <2>3, Zenon
  <2>5. PICK s : s = p \o f
    BY Zenon
  <2>6. s \in Seq(Characters) /\ Len(s) = Len(l) + 1 /\ Len(h) = Len(l) + 1 /\ Len(q) = Len(l) + 2
    BY <1>2, <1>3, <2>1, <2>2, <2>3, <2>4, <2>5
  <2>7. ASSUME NEW k \in 1 .. Len(s) PROVE s[k] = h[k]
    <3>1. h[k] = q[k]
      BY <1>3, <2>3, <2>4, <2>6
    <3>2. CASE k <= 2
      BY <1>2, <2>2, <2>5, <2>6, <3>1, <3>2
    <3>3. CASE k > 2
      <4>1. k - 2 \in 1 .. Len(l) - 1
        BY <1>3, <2>6, <3>3
      <4>2. f[k - 2] = l[k - 2]
        BY <2>1, <2>4, <4>1, Zenon
      <4>3. q[k] = l[k - 2]
        BY <1>2, <1>3, <2>2, <2>6, <3>3
      <4>4. s[k] = f[k - 2]
        BY <1>2, <1>3, <2>1, <2>4, <2>5, <2>6, <3>3
      <4> QED
        BY <3>1, <4>2, <4>3, <4>4, Zenon
    <3> QED
      BY <2>6, <3>2, <3>3
  <2>8. s = h
    BY <2>6, <2>7, SameText
  <2> QED
    BY <2>2, <2>4, <2>5, <2>8, Zenon
<1> QED
  BY <1>1, <1>3, <1>4, <1>5, <1>6, <1>7, Zenon

\* A drawing step leaves the grid that was written.
LEMMA GridSet ==
    ASSUME NEW g, NEW text, Spells(g, text), SetGrid(g)
    PROVE  Spells(Grid, text)'
<1>1. Grid'.cells = g.cells /\ Grid'.shown = g.shown /\ Grid'.x = g.x /\ Grid'.y = g.y /\ Grid'.panic = FALSE
  BY Zenon DEF SetGrid, Grid
<1>2. PICK h : h = Grid'
  BY Zenon
<1>3. h.cells = g.cells /\ h.shown = g.shown /\ h.x = g.x /\ h.y = g.y /\ h.panic = FALSE
  BY <1>1, <1>2, Zenon
<1>4. h \in Grids
  BY <1>2, <1>3, Zenon DEF Spells, Grids, Grid, SetGrid
<1>5. Spells(h, text)
  BY <1>3, <1>4, Zenon DEF Spells, Ends
<1> QED
  BY <1>2, <1>5, Zenon

\* What a step keeps that draws nothing.
LEMMA LineKept ==
    ASSUME LineSpelt, UNCHANGED <<cells, shown, cursor, current_line, crossed>>,
           console' \in Drawing => console \in Drawing
    PROVE  LineSpelt'
BY Zenon DEF LineSpelt, Grid

\* The queues of events.
LEMMA Queues ==
    ASSUME NEW S, NEW q \in Seq(S)
    PROVE  /\ q # <<>> => Head(q) \in S /\ Tail(q) \in Seq(S)
           /\ \A e \in S : Append(q, e) \in Seq(S)
OBVIOUS

\* The invariant holds initially.
LEMMA ConsoleStarts == ConsoleInit => ConsoleInv
<1> SUFFICES ASSUME ConsoleInit PROVE ConsoleInv
  OBVIOUS
<1>1. <<>> \in Seq(InputEvents) /\ <<>> \in Seq(Events) /\ <<>> \in Seq(Characters) /\ 0 \in Nat
  OBVIOUS
<1>2. "off" \notin Drawing
  BY Zenon DEF Drawing
<1> QED
  BY <1>1, <1>2, Zenon DEF ConsoleInit, ConsoleInv, ConsoleTypes, LineSpelt, Told

\* The first framebuffer and any other.
LEMMA HandoffInv ==
    ASSUME ConsoleInv, HandoffFramebuffer
    PROVE  ConsoleInv'
<1>1. handed \in Nat /\ handed + 1 \in Nat /\ handed + 1 # 0
  <2>1. handed \in Nat
    BY Zenon DEF ConsoleInv, ConsoleTypes
  <2> QED
    BY <2>1
<1>2. handed' = handed + 1 /\ UNCHANGED <<current_line, hid, input_events, control, gpu, display, crossed>>
  BY Zenon DEF HandoffFramebuffer
<1>3. CASE handed = 0
  <2>1. PICK g : g = write_str(GfxConsole_new, <<"W", "\n">> \o Prompt)
    BY Zenon
  <2>2. SetGrid(g) /\ console' = "greeted"
    BY <1>3, <2>1, Zenon DEF HandoffFramebuffer
  <2>3. current_line = <<>>
    BY <1>3, Zenon DEF ConsoleInv, ConsoleTypes
  <2>4. Prompt \o <<>> = Prompt
    BY LineText, PromptIs, Zenon
  <2>5. Spells(g, Prompt \o current_line)
    BY <2>1, <2>3, <2>4, GreetingSpelt, Zenon
  <2>6. Spells(Grid', Prompt \o current_line)
    BY <2>2, <2>5, GridSet, Zenon
  <2>7. LineSpelt'
    BY <1>2, <2>6, Zenon DEF LineSpelt
  <2>8. ConsoleTypes' /\ Told'
    BY <1>1, <1>2, <2>2, Zenon DEF ConsoleInv, ConsoleTypes, Told
  <2> QED
    BY <2>7, <2>8, Zenon DEF ConsoleInv
<1>4. CASE handed # 0
  <2>1. console' = "dead"
    BY <1>4, Zenon DEF HandoffFramebuffer
  <2> QED
    BY <1>1, <1>2, <2>1, Zenon DEF ConsoleInv, ConsoleTypes, LineSpelt, Told, Drawing
<1> QED
  BY <1>3, <1>4, Zenon

\* A report of an input device.
LEMMA DeviceReportsInv ==
    ASSUME ConsoleInv, NEW e \in InputEvents, DeviceReports(e)
    PROVE  ConsoleInv'
<1>1. hid' = Append(hid, e) /\ hid \in Seq(InputEvents)
  BY Zenon DEF DeviceReports, ConsoleInv, ConsoleTypes
<1>2. hid' \in Seq(InputEvents)
  BY <1>1
<1>3. UNCHANGED <<cells, shown, cursor, current_line, console, handed, input_events, control, gpu, display, crossed>>
  BY Zenon DEF DeviceReports
<1>4. LineSpelt'
  BY <1>3, LineKept, Zenon DEF ConsoleInv
<1> QED
  BY <1>2, <1>3, <1>4, Zenon DEF ConsoleInv, ConsoleTypes, Told

\* What a key gives.
LEMMA KeysGive ==
    ASSUME NEW key, NEW shift
    PROVE  map_key(key, shift) \in Characters \cup {"\n", "DEL"} \cup {NoChar}
<1>1. CASE key = "KeyA"
  BY <1>1, Zenon DEF map_key, Characters
<1>2. CASE key = "KeyZ"
  BY <1>2, Zenon DEF map_key, Characters
<1>3. CASE key = "KeyReturn"
  BY <1>3, Zenon DEF map_key
<1>4. CASE key = "KeyDelete"
  BY <1>4, Zenon DEF map_key
<1>5. CASE key = "KeySpace"
  BY <1>5, Zenon DEF map_key, Characters
<1>6. CASE key \notin {"KeyA", "KeyZ", "KeyReturn", "KeyDelete", "KeySpace"}
  BY <1>6, Zenon DEF map_key
<1> QED
  BY <1>1, <1>2, <1>3, <1>4, <1>5, <1>6, Zenon

\* The input task.
LEMMA InputTaskInv ==
    ASSUME ConsoleInv, InputTask
    PROVE  ConsoleInv'
<1>1. hid \in Seq(InputEvents) /\ input_events \in Seq(Events) /\ hid # <<>>
  BY Zenon DEF InputTask, ConsoleInv, ConsoleTypes
<1>2. PICK e : e = Head(hid)
  BY Zenon
<1>3. e \in InputEvents /\ Tail(hid) \in Seq(InputEvents)
  BY <1>1, <1>2, Queues, Zenon
<1>4. hid' = Tail(hid)
  BY Zenon DEF InputTask
<1>5. UNCHANGED <<cells, shown, cursor, current_line, handed, control, gpu, display, crossed>>
  BY Zenon DEF InputTask
<1>6. input_events' \in Seq(Events) /\ (console' = "dead" \/ console' = console)
  <2>1. CASE UNCHANGED input_events
    BY <1>1, <2>1, Zenon DEF InputTask
  <2>2. PICK c : c = map_key(e.key, e.shift)
    BY Zenon
  <2>3. CASE e.t = "key" /\ c # NoChar /\ input_events' = Append(input_events, [t |-> "key", c |-> c]) /\ UNCHANGED console
    <3>1. c \in Characters \cup {"\n", "DEL"}
      BY <2>2, <2>3, KeysGive, Zenon
    <3>2. [t |-> "key", c |-> c] \in Events
      BY <3>1, Zenon DEF Events
    <3> QED
      BY <1>1, <2>3, <3>2, Queues, Zenon
  <2>4. CASE e.t = "move" /\ input_events' = Append(input_events, e) /\ UNCHANGED console
    <3>1. e \in Events
      BY <1>3, <2>4, Zenon DEF Events
    <3> QED
      BY <1>1, <2>4, <3>1, Queues, Zenon
  <2> QED
    BY <1>2, <2>1, <2>2, <2>3, <2>4, Zenon DEF InputTask
<1>7. LineSpelt'
  BY <1>5, <1>6, LineKept, Zenon DEF ConsoleInv, Drawing
<1> QED
  BY <1>3, <1>4, <1>5, <1>6, <1>7, Zenon DEF ConsoleInv, ConsoleTypes, Told, Drawing

\* What the console's task makes of an event: the line, the grid and the state.
Drawn ==
    /\ current_line' \in Seq(Characters) /\ crossed' \in BOOLEAN
    /\ console' \in {"drawn", "dead"} \/ UNCHANGED <<console, shown>>
    /\ LineSpelt'

\* The task that waits can rely on the grid.
LEMMA TaskWaits ==
    ASSUME ConsoleInv, console = "wait"
    PROVE  /\ current_line \in Seq(Characters) /\ Prompt \o current_line \in Seq(Characters)
           /\ ~crossed => Spells(Grid, Prompt \o current_line)
           /\ crossed \in BOOLEAN
<1>1. current_line \in Seq(Characters) /\ crossed \in BOOLEAN
  BY Zenon DEF ConsoleInv, ConsoleTypes
<1>2. Prompt \o current_line \in Seq(Characters)
  BY <1>1, LineText, Zenon
<1> QED
  BY <1>1, <1>2, Zenon DEF ConsoleInv, LineSpelt, Drawing

\* Drawing a string.
LEMMA DrawsText ==
    ASSUME NEW s, NEW text, Draw(s), Prompt \o current_line' = text,
           ~crossed' => Spells(write_str(Grid, s), text)
    PROVE  console' \in {"drawn", "dead"} /\ LineSpelt'
<1>1. PICK g : g = write_str(Grid, s)
  BY Zenon
<1>2. SetGrid(g) /\ (console' = "drawn" \/ console' = "dead")
  BY <1>1, Zenon DEF Draw
<1>3. ASSUME ~crossed' PROVE Spells(Grid, text)'
  BY <1>1, <1>2, <1>3, GridSet, Zenon
<1> QED
  BY <1>2, <1>3, Zenon DEF LineSpelt

\* Return.
LEMMA ReturnDraws ==
    ASSUME ConsoleInv, console = "wait", Key_return
    PROVE  Drawn
<1>1. PICK out \in Outputs : Draw(<<"\n">> \o out \o <<"\n">> \o Prompt)
  BY Zenon DEF Key_return
<1>2. current_line' = <<>> /\ crossed' = crossed
  BY Zenon DEF Key_return
<1>3. <<>> \in Seq(Characters)
  OBVIOUS
<1>4. Prompt \o current_line' = Prompt
  BY <1>2, <1>3, LineText, Zenon
<1>5. ASSUME ~crossed PROVE Spells(write_str(Grid, <<"\n">> \o out \o <<"\n">> \o Prompt), Prompt)
  <2>1. PICK g, text : g = Grid /\ text = Prompt \o current_line
    BY Zenon
  <2>2. text \in Seq(Characters) /\ Spells(g, text)
    BY <1>5, <2>1, TaskWaits, Zenon
  <2>3. Spells(write_str(g, <<"\n">> \o out \o <<"\n">> \o Prompt), Prompt)
    BY <2>2, ReturnSpelt, Zenon
  <2> QED
    BY <2>1, <2>3, Zenon
<1>6. PICK s : s = <<"\n">> \o out \o <<"\n">> \o Prompt
  BY Zenon
<1>7. console' \in {"drawn", "dead"} /\ LineSpelt'
  BY <1>1, <1>2, <1>4, <1>5, <1>6, DrawsText, Zenon
<1> QED
  BY <1>2, <1>3, <1>7, TaskWaits, Zenon DEF Drawn

\* DEL.
LEMMA DeleteDraws ==
    ASSUME ConsoleInv, console = "wait", Key_delete
    PROVE  Drawn
<1>1. CASE current_line = <<>>
  <2>1. UNCHANGED <<cells, shown, cursor, current_line, console, crossed>>
    BY <1>1, Zenon DEF Key_delete
  <2>2. LineSpelt'
    BY <2>1, LineKept, Zenon DEF ConsoleInv
  <2> QED
    BY <2>1, <2>2, TaskWaits, Zenon DEF Drawn
<1>2. CASE current_line # <<>>
  <2>1. current_line' = Popped(current_line) /\ Draw(<<"DEL">>) /\ crossed' = (crossed \/ cursor.x <= 0)
    BY <1>2, Zenon DEF Key_delete
  <2>2. PICK g, l, text : g = Grid /\ l = current_line /\ text = Prompt \o l
    BY Zenon
  <2>3. l \in Seq(Characters) /\ text \in Seq(Characters) /\ l # <<>>
    BY <1>2, <2>2, TaskWaits, Zenon
  <2>4. text # <<>> /\ Prompt \o Popped(l) = Popped(text)
    BY <2>2, <2>3, LineText, Zenon
  <2>5. Popped(l) \in Seq(Characters)
    BY <2>3, LessOneCharacter, Zenon
  <2>6. ASSUME ~crossed' PROVE Spells(write_str(Grid, <<"DEL">>), Popped(text))
    <3>1. ~crossed /\ ~(cursor.x <= 0)
      BY <2>1, <2>6, Zenon
    <3>2. Spells(g, text)
      BY <2>2, <3>1, TaskWaits, Zenon
    <3>3. ~(g.x <= 0)
      BY <2>2, <3>1, Zenon DEF Grid
    <3>4. Spells(write_char(g, "DEL"), Popped(text))
      BY <2>3, <2>4, <3>2, <3>3, DeleteSpells, Zenon
    <3> QED
      BY <2>2, <3>4, OneWritten, Zenon
  <2>7. Prompt \o current_line' = Popped(text)
    BY <2>1, <2>2, <2>4, Zenon
  <2>8. PICK s, t : s = <<"DEL">> /\ t = Popped(text)
    BY Zenon
  <2>9. console' \in {"drawn", "dead"} /\ LineSpelt'
    BY <2>1, <2>6, <2>7, <2>8, DrawsText, Zenon
  <2> QED
    BY <2>1, <2>2, <2>5, <2>9, Zenon DEF Drawn
<1> QED
  BY <1>1, <1>2, Zenon

\* Any other character.
LEMMA OtherDraws ==
    ASSUME ConsoleInv, console = "wait", NEW c \in Characters, Key_other(c)
    PROVE  Drawn
<1>1. Draw(<<c>>) /\ current_line' = Append(current_line, c) /\ crossed' = crossed
  BY Zenon DEF Key_other
<1>2. PICK g, l, text : g = Grid /\ l = current_line /\ text = Prompt \o l
  BY Zenon
<1>3. l \in Seq(Characters) /\ text \in Seq(Characters)
  BY <1>2, TaskWaits, Zenon
<1>4. Prompt \o Append(l, c) = Append(text, c)
  BY <1>2, <1>3, LineText, Zenon
<1>5. Append(l, c) \in Seq(Characters)
  BY <1>3, OneCharacter, Zenon
<1>6. ASSUME ~crossed' PROVE Spells(write_str(Grid, <<c>>), Append(text, c))
  <2>1. Spells(g, text)
    BY <1>1, <1>2, <1>6, TaskWaits, Zenon
  <2>2. Spells(write_char(g, c), Append(text, c))
    BY <1>3, <2>1, WriteSpells, Zenon
  <2> QED
    BY <1>2, <2>2, OneWritten, Zenon
<1>7. Prompt \o current_line' = Append(text, c)
  BY <1>1, <1>2, <1>4, Zenon
<1>8. PICK s, t : s = <<c>> /\ t = Append(text, c)
  BY Zenon
<1>9. console' \in {"drawn", "dead"} /\ LineSpelt'
  BY <1>1, <1>6, <1>7, <1>8, DrawsText, Zenon
<1> QED
  BY <1>1, <1>2, <1>5, <1>9, TaskWaits, Zenon DEF Drawn

\* The console's task.
LEMMA ConsoleTaskInv ==
    ASSUME ConsoleInv, ConsoleTask
    PROVE  ConsoleInv'
<1>1. /\ console = "wait" /\ input_events # <<>> /\ input_events' = Tail(input_events)
      /\ UNCHANGED <<handed, hid, control, gpu, display>>
  BY Zenon DEF ConsoleTask
<1>2. input_events \in Seq(Events)
  BY Zenon DEF ConsoleInv, ConsoleTypes
<1>3. PICK e : e = Head(input_events)
  BY Zenon
<1>4. e \in Events /\ input_events' \in Seq(Events)
  BY <1>1, <1>2, <1>3, Queues, Zenon
<1>5. Drawn
  <2>1. CASE e.t = "move" /\ MoveMouse(e)
    <3>1. console' = "drawn" /\ UNCHANGED <<cells, shown, cursor, current_line, crossed>>
      BY <2>1, Zenon DEF MoveMouse
    <3>2. LineSpelt'
      BY <1>1, <3>1, LineKept, Zenon DEF ConsoleInv, Drawing
    <3> QED
      BY <1>1, <3>1, <3>2, TaskWaits, Zenon DEF Drawn
  <2>2. CASE Key_return
    BY <1>1, <2>2, ReturnDraws, Zenon
  <2>3. CASE Key_delete
    BY <1>1, <2>3, DeleteDraws, Zenon
  <2>4. CASE e.t = "key" /\ e.c \notin {"\n", "DEL"} /\ Key_other(e.c)
    <3>1. e.c \in Characters
      BY <1>4, <2>4, Zenon DEF Events
    <3> QED
      BY <1>1, <2>4, <3>1, OtherDraws, Zenon
  <2> QED
    BY <1>3, <2>1, <2>2, <2>3, <2>4, Zenon DEF ConsoleTask
<1>6. Told'
  BY <1>1, <1>5, Zenon DEF Drawn, Told, ConsoleInv
<1>7. handed # 0
  BY <1>1, Zenon DEF ConsoleInv, ConsoleTypes, Drawing
<1>8. ConsoleTypes'
  BY <1>1, <1>4, <1>5, <1>7, Zenon DEF Drawn, ConsoleInv, ConsoleTypes
<1> QED
  BY <1>5, <1>6, <1>8, Zenon DEF Drawn, ConsoleInv

\* The pointer is drawn over the line.
LEMMA PointerSpelt ==
    ASSUME LineSpelt, console = "drawn", shown' = draw_pointer, UNCHANGED <<cells, cursor, current_line, crossed>>
    PROVE  LineSpelt'
<1> SUFFICES ASSUME ~crossed PROVE Spells(Grid, Prompt \o current_line)'
  BY Zenon DEF LineSpelt
<1>1. PICK p, text : p = cursor.y * Width + cursor.x /\ text = Prompt \o current_line
  BY Zenon
<1>2. Spells(Grid, text)
  BY <1>1, Zenon DEF LineSpelt, Drawing
<1>3. Shows(cells, shown, p, text)
  BY <1>1, <1>2, Zenon DEF Spells, Grid
<1>4. PICK ink : ink = draw_pointer
  BY Zenon
<1>5. \A i \in Cells : ink[i] = shown[i] \cup {Pointer} \/ ink[i] = shown[i]
  BY <1>4, Zenon DEF draw_pointer
<1>6. \A i \in Cells : ink[i] \in SUBSET Marks /\ ink[i] \ {Pointer} = shown[i] \ {Pointer}
  <2>1. Pointer \in Marks /\ \A i \in Cells : shown[i] \in SUBSET Marks
    BY <1>3, Zenon DEF Shows, Marks
  <2> QED
    BY <1>5, <2>1, Zenon
<1>7. ink \in [Cells -> SUBSET Marks]
  <2>1. ink = [i \in Cells |-> ink[i]]
    BY <1>4, Zenon DEF draw_pointer
  <2> QED
    BY <1>6, <2>1, Zenon
<1>8. Shows(cells, ink, p, text)
  BY <1>3, <1>6, <1>7, Zenon DEF Shows
<1>9. PICK g : g = [cells |-> cells, shown |-> ink, x |-> cursor.x, y |-> cursor.y, panic |-> FALSE]
  BY Zenon
<1>10. Spells(g, text)
  <2>1. /\ cells \in [Cells -> Characters] /\ cursor.x \in Int /\ cursor.y \in Int
        /\ cursor.x \in 0 .. Width - 1 /\ cursor.y \in 0 .. Height - 1
    BY <1>2, Zenon DEF Spells, Grids, Grid
  <2> QED
    BY <1>1, <1>7, <1>8, <1>9, <2>1, Zenon DEF Spells, Grids
<1>11. Grid' = g
  BY <1>4, <1>9, Zenon DEF Grid
<1> QED
  BY <1>1, <1>10, <1>11, Zenon

\* The messages to the display driver, and the flush that answers one.
LEMMA NotifyInv ==
    ASSUME ConsoleInv, Notify
    PROVE  ConsoleInv'
<1>1. UNCHANGED <<cells, cursor, current_line, handed, hid, input_events, gpu, display, crossed>>
  BY Zenon DEF Notify
<1>2. \/ console \in Drawing /\ console' = "wait" /\ control' = control + 1
      \/ console' = "dead" /\ control' = control
  BY Zenon DEF Notify, Drawing
<1>3. control \in Nat
  BY Zenon DEF ConsoleInv, ConsoleTypes
<1>4. control + 1 \in Nat /\ control + 1 > 0
  BY <1>3
<1>5. LineSpelt'
  <2>1. CASE UNCHANGED shown
    BY <1>1, <1>2, <2>1, LineKept, Zenon DEF ConsoleInv, Drawing
  <2>2. CASE console = "drawn" /\ shown' = draw_pointer
    BY <1>1, <2>2, PointerSpelt, Zenon DEF ConsoleInv
  <2> QED
    BY <2>1, <2>2, Zenon DEF Notify
<1>6. Told'
  BY <1>2, <1>4, Zenon DEF Told
<1> QED
  BY <1>1, <1>2, <1>3, <1>4, <1>5, <1>6, Zenon DEF ConsoleInv, ConsoleTypes, Drawing

\* The display driver.
LEMMA DisplayInv ==
    ASSUME ConsoleInv, GpuReceives \/ GpuFlushes
    PROVE  ConsoleInv'
<1>1. UNCHANGED <<cells, shown, cursor, current_line, console, handed, hid, input_events, crossed>>
  BY Zenon DEF GpuReceives, GpuFlushes
<1>2. control \in Nat
  BY Zenon DEF ConsoleInv, ConsoleTypes
<1>3. control' \in Nat
  <2>1. control > 0 => control - 1 \in Nat
    BY <1>2
  <2> QED
    BY <1>2, <2>1, Zenon DEF GpuReceives, GpuFlushes
<1>4. gpu' = "flush" \/ display' = shown'
  BY Zenon DEF GpuReceives, GpuFlushes
<1>5. LineSpelt'
  BY <1>1, LineKept, Zenon DEF ConsoleInv
<1> QED
  BY <1>1, <1>3, <1>4, <1>5, Zenon DEF ConsoleInv, ConsoleTypes, Told

\* The inductive invariant holds for a grid of any size, any number of
\* framebuffers, any reports of the devices and any bounds of the channels.
THEOREM ConsoleKept == ConsoleSpec => []ConsoleInv
<1>1. ConsoleInit => ConsoleInv
  BY ConsoleStarts, Zenon
<1>2. ConsoleInv /\ [ConsoleNext]_cvars => ConsoleInv'
  <2> SUFFICES ASSUME ConsoleInv, [ConsoleNext]_cvars PROVE ConsoleInv'
    OBVIOUS
  <2>1. CASE HandoffFramebuffer
    BY <2>1, HandoffInv, Zenon
  <2>2. CASE \E e \in InputEvents : DeviceReports(e)
    BY <2>2, DeviceReportsInv, Zenon
  <2>3. CASE InputTask
    BY <2>3, InputTaskInv, Zenon
  <2>4. CASE ConsoleTask
    BY <2>4, ConsoleTaskInv, Zenon
  <2>5. CASE Notify
    BY <2>5, NotifyInv, Zenon
  <2>6. CASE GpuReceives \/ GpuFlushes
    BY <2>6, DisplayInv, Zenon
  <2>7. CASE UNCHANGED cvars
    <3>1. UNCHANGED <<cells, shown, cursor, current_line, console, handed, hid, input_events, control, gpu,
                      display, crossed>>
      BY <2>7, Zenon DEF cvars
    <3>2. LineSpelt'
      BY <3>1, LineKept, Zenon DEF ConsoleInv
    <3> QED
      BY <3>1, <3>2, Zenon DEF ConsoleInv, ConsoleTypes, Told
  <2> QED
    BY <2>1, <2>2, <2>3, <2>4, <2>5, <2>6, <2>7, Zenon DEF ConsoleNext
<1> QED
  BY <1>1, <1>2, PTL DEF ConsoleSpec

\* What is on the screen after the prompt, but for the pointer and its trail, is
\* the line that Return hands to the interpreter, through every wrap, scroll and
\* deletion within a row.
THEOREM LineIsShown == ConsoleSpec => []TypedLineShown
<1>1. ConsoleInv => TypedLineShown
  <2> SUFFICES ASSUME ConsoleInv, console \in {"wait", "drawn", "greeted"}, ~crossed
               PROVE  TypedLineShown
    BY Zenon DEF TypedLineShown
  <2>1. PICK text : text = Prompt \o current_line
    BY Zenon
  <2>2. text \in Seq(Characters)
    BY <2>1, LineText, Zenon DEF ConsoleInv, ConsoleTypes
  <2>3. DOMAIN text = 1 .. Len(text)
    BY <2>2
  <2>4. Spells(Grid, text)
    BY <2>1, Zenon DEF ConsoleInv, LineSpelt, Drawing
  <2>5. Shows(cells, shown, cursor.y * Width + cursor.x, text)
    BY <2>4, Zenon DEF Spells, Grid
  <2> QED
    BY <2>1, <2>3, <2>5, Zenon DEF Shows, TypedLineShown
<1> QED
  BY <1>1, ConsoleKept, PTL

\* Once every message to the display driver is answered, the display shows what
\* the console drew.
THEOREM DisplayFollows == ConsoleSpec => []DisplayUpToDate
<1>1. ConsoleInv => DisplayUpToDate
  <2>1. ~(0 > 0)
    OBVIOUS
  <2> QED
    BY <2>1, Zenon DEF ConsoleInv, Told, DisplayUpToDate
<1> QED
  BY <1>1, ConsoleKept, PTL
=============================================================================
