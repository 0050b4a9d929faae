---------------------------- MODULE BuddyProofs -----------------------------
(***************************************************************************)
(* Proofs about the physical memory manager, for every number of orders,   *)
(* every set of usable frames and every sequence of calls.                 *)
(*                                                                         *)
(* The argument: at every point of every call the blocks (in the bins, not *)
(* freed yet at boot, held by callers, on their way into a bin or out of   *)
(* one) partition the usable frames into naturally aligned blocks.  A step *)
(* moves a block, splits one or merges two, and each of the three keeps a  *)
(* partition.  The alignment is what makes XOR find the other half.        *)
(* That memory is exhausted when alloc says so takes an induction over the *)
(* orders on top of it, in the form of a least order that fails.           *)
(***************************************************************************)
EXTENDS BuddyAllocator, WellFoundedInduction, TLAPS

-----------------------------------------------------------------------------
\* Arithmetic of buddies, for blocks of s frames.

\* A multiple of s is q times s, and q is its quotient.
LEMMA Multiples ==
    ASSUME NEW s \in Nat \ {0}, NEW b \in Nat
    PROVE  /\ b % s = 0 => b \div s \in Nat /\ b = (b \div s) * s
           /\ \A q \in Nat : b = q * s => b \div s = q /\ b % s = 0
<1>1. b = s * (b \div s) + (b % s) /\ b \div s \in Nat
  BY SMT
<1>2. ASSUME NEW q \in Nat PROVE (q * s) \div s = q /\ (q * s) % s = 0
  BY SMT
<1>3. b % s = 0 => b = (b \div s) * s
  BY <1>1, SMT
<1> QED
  BY <1>1, <1>2, <1>3

\* The first half of a block of 2 * s frames is even, the second follows it.
LEMMA Halves ==
    ASSUME NEW s \in Nat \ {0}, NEW b \in Nat, b % (2 * s) = 0
    PROVE  (b \div s) % 2 = 0 /\ b % s = 0 /\ (b + s) % s = 0
<1>1. PICK q \in Nat : b = q * (2 * s)
  <2>1. 2 * s \in Nat \ {0}
    BY SMT
  <2> QED
    BY <2>1, Multiples
<1>2. b = (2 * q) * s /\ 2 * q \in Nat /\ b + s = (2 * q + 1) * s /\ b + s \in Nat
  BY <1>1, SMT
<1>3. b \div s = 2 * q /\ b % s = 0 /\ (b + s) % s = 0
  BY <1>2, Multiples
<1>4. (2 * q) % 2 = 0
  BY SMT
<1> QED
  BY <1>3, <1>4

\* Of a block and its buddy the first is a multiple of 2 * s.
LEMMA Pairs ==
    ASSUME NEW s \in Nat \ {0}, NEW b \in Nat, b % s = 0
    PROVE  /\ (b \div s) % 2 = 0 => /\ b % (2 * s) = 0
                                    /\ ((b + s) \div s) % 2 # 0
           /\ (b \div s) % 2 # 0 => /\ s <= b
                                    /\ (b - s) % (2 * s) = 0
                                    /\ ((b - s) \div s) % 2 = 0
<1>1. PICK q \in Nat : b = q * s /\ b \div s = q
  BY Multiples
<1>2. CASE q % 2 = 0
  <2>1. PICK r \in Nat : q = 2 * r
    BY <1>2, SMT
  <2>2. b = r * (2 * s) /\ 2 * s \in Nat \ {0} /\ b + s = (2 * r + 1) * s /\ b + s \in Nat
    BY <1>1, <2>1, SMT
  <2>3. b % (2 * s) = 0 /\ (b + s) \div s = 2 * r + 1
    BY <2>2, Multiples
  <2> QED
    BY <1>1, <1>2, <2>3, SMT
<1>3. CASE q % 2 # 0
  <2>1. PICK r \in Nat : q = 2 * r + 1
    BY <1>3, SMT
  <2>2. /\ b = (2 * r + 1) * s
        /\ b - s = r * (2 * s)
        /\ b - s = (2 * r) * s
        /\ b - s \in Nat
        /\ 2 * s \in Nat \ {0}
    <3>1. b = 2 * (r * s) + s
      BY <1>1, <2>1, SMT
    <3>2. r * s \in Nat
      BY SMT
    <3> QED
      BY <3>1, <3>2, SMT
  <2>3. PICK c \in Nat : c = b - s
    BY <2>2
  <2>4. c % (2 * s) = 0 /\ c \div s = 2 * r /\ 2 * r \in Nat
    <3>1. c = r * (2 * s) /\ c = (2 * r) * s /\ 2 * r \in Nat
      BY <2>2, <2>3
    <3>2. c % (2 * s) = 0
      <4>1. PICK t \in Nat \ {0} : t = 2 * s
        BY <2>2
      <4> QED
        BY <3>1, <4>1, Multiples
    <3>3. c \div s = 2 * r
      BY <3>1, Multiples
    <3> QED
      BY <3>1, <3>2, <3>3
  <2> QED
    BY <1>1, <1>3, <2>2, <2>3, <2>4, SMT
<1> QED
  BY <1>2, <1>3
-----------------------------------------------------------------------------
\* Partitions of the usable frames into aligned blocks.

\* Frame f belongs to block x.
Frame(f, x) == x.base <= f /\ f < x.base + Size[x.order]

\* The blocks of B are aligned and apart, and cover exactly the usable frames.
Partition(B) ==
    /\ \A x \in B : /\ x.base \in Nat
                    /\ x.order \in Orders
                    /\ x.base % Size[x.order] = 0
    /\ \A x, y \in B : x = y \/ Apart(x, y)
    /\ \A f \in Nat : f \in Usable <=> \E x \in B : Frame(f, x)

\* A block holds at least one frame, and twice as many as one of the order below.
LEMMA Sizes ==
    /\ \A k \in Orders : k \in Nat /\ k <= MAX_ORDER /\ Size[k] \in Nat \ {0}
    /\ \A k \in Orders : k < MAX_ORDER => k + 1 \in Orders /\ Size[k + 1] = 2 * Size[k]
    /\ \A j, k \in Orders : j <= k => Size[j] <= Size[k]
<1>1. 0 \in Orders /\ \A k \in Orders : 0 <= k
  BY OrderAssumption DEF Orders
<1>2. \A k \in Orders : k \in Nat /\ k <= MAX_ORDER /\ (k < MAX_ORDER => k + 1 \in Orders)
  BY OrderAssumption DEF Orders
<1> QED
  BY <1>1, <1>2, SizeAssumption

\* A block that changes hands.
LEMMA Moves ==
    ASSUME NEW B, NEW C, Partition(B), NEW x \in B, NEW y \in C,
           y.base = x.base, y.order = x.order,
           \A z \in C : z = y \/ (z \in B /\ z # x),
           \A z \in B : z = x \/ z \in C
    PROVE  Partition(C)
<1>1. \A z \in C : z.base \in Nat /\ z.order \in Orders /\ z.base % Size[z.order] = 0
  BY DEF Partition
<1>2. ASSUME NEW z \in C, NEW w \in C PROVE z = w \/ Apart(z, w)
  BY DEF Partition, Apart
<1>3. ASSUME NEW f \in Nat
      PROVE  f \in Usable <=> \E z \in C : Frame(f, z)
  BY DEF Partition, Frame
<1> QED
  BY <1>1, <1>2, <1>3 DEF Partition

\* A block that is split in two halves.
LEMMA Splits ==
    ASSUME NEW B, NEW C, Partition(B), NEW x \in B, NEW y \in C, NEW z \in C,
           x.order > 0, y.order = x.order - 1, z.order = x.order - 1,
           y.base = x.base, z.base = x.base + Size[y.order],
           \A v \in C : v = y \/ v = z \/ (v \in B /\ v # x),
           \A v \in B : v = x \/ v \in C
    PROVE  Partition(C)
<1>1. /\ x.base \in Nat /\ y.order \in Orders
      /\ Size[y.order] \in Nat \ {0}
      /\ Size[x.order] = 2 * Size[y.order]
      /\ x.base % Size[x.order] = 0
  BY Sizes, OrderAssumption DEF Partition, Orders
<1>2. y.base % Size[y.order] = 0 /\ z.base % Size[z.order] = 0
  BY <1>1, Halves, SMTT(30)
<1>3. \A v \in C : v.base \in Nat /\ v.order \in Orders /\ v.base % Size[v.order] = 0
  BY <1>1, <1>2 DEF Partition
<1>4. \A v \in B : Size[v.order] \in Nat \ {0} /\ v.base \in Nat
  BY Sizes DEF Partition
<1>5. ASSUME NEW v \in C, NEW w \in C PROVE v = w \/ Apart(v, w)
  <2>1. ASSUME NEW u \in B, u # x PROVE Apart(u, y) /\ Apart(y, u) /\ Apart(u, z) /\ Apart(z, u)
    <3>1. Apart(u, x)
      BY <2>1 DEF Partition
    <3> QED
      BY <1>1, <1>4, <3>1 DEF Apart
  <2>2. Apart(y, z) /\ Apart(z, y)
    BY <1>1 DEF Apart
  <2> QED
    BY <2>1, <2>2 DEF Partition
<1>6. ASSUME NEW f \in Nat
      PROVE  f \in Usable <=> \E v \in C : Frame(f, v)
  <2>1. Frame(f, x) <=> Frame(f, y) \/ Frame(f, z)
    BY <1>1 DEF Frame
  <2> QED
    BY <2>1 DEF Partition
<1> QED
  BY <1>3, <1>5, <1>6 DEF Partition

\* A block that overlaps neither half of a block does not overlap the block.
LEMMA Between ==
    ASSUME NEW a \in Nat, NEW s \in Nat \ {0}, NEW c \in Nat, NEW t \in Nat \ {0},
           c + t <= a \/ a + s <= c,
           c + t <= a + s \/ a + s + s <= c
    PROVE  c + t <= a \/ a + 2 * s <= c
  BY SMT

\* Two halves that become one block.
LEMMA Merges ==
    ASSUME NEW B, NEW C, Partition(B), NEW x \in B, NEW y \in B, NEW z \in C,
           x.order = y.order, z.order = x.order + 1, x.order < MAX_ORDER,
           z.base = x.base, y.base = x.base + Size[x.order], z.base % Size[z.order] = 0,
           \A v \in C : v = z \/ (v \in B /\ v # x /\ v # y),
           \A v \in B : v = x \/ v = y \/ v \in C
    PROVE  Partition(C)
<1>1. /\ x.base \in Nat /\ z.order \in Orders
      /\ Size[x.order] \in Nat \ {0}
      /\ Size[z.order] = 2 * Size[x.order]
  BY Sizes DEF Partition
<1>2. \A v \in C : v.base \in Nat /\ v.order \in Orders /\ v.base % Size[v.order] = 0
  BY <1>1 DEF Partition
<1>3. \A v \in B : Size[v.order] \in Nat \ {0} /\ v.base \in Nat
  BY Sizes DEF Partition
<1>4. ASSUME NEW v \in C, NEW w \in C PROVE v = w \/ Apart(v, w)
  <2>1. ASSUME NEW u \in B, u # x, u # y PROVE Apart(u, z) /\ Apart(z, u)
    <3>1. Apart(u, x) /\ Apart(u, y)
      BY <2>1 DEF Partition
    <3>2. u.base \in Nat /\ Size[u.order] \in Nat \ {0}
      BY <1>3
    <3>3. \/ u.base + Size[u.order] <= x.base
          \/ x.base + Size[x.order] <= u.base
      BY <3>1 DEF Apart
    <3>4. \/ u.base + Size[u.order] <= x.base + Size[x.order]
          \/ x.base + Size[x.order] + Size[x.order] <= u.base
      BY <3>1 DEF Apart
    <3>5. \/ u.base + Size[u.order] <= x.base
          \/ x.base + 2 * Size[x.order] <= u.base
      BY <1>1, <3>2, <3>3, <3>4, Between, ZenonT(30)
    <3> QED
      BY <1>1, <3>5 DEF Apart
  <2> QED
    BY <2>1 DEF Partition
<1>5. ASSUME NEW f \in Nat
      PROVE  f \in Usable <=> \E v \in C : Frame(f, v)
  <2>1. Frame(f, z) <=> Frame(f, x) \/ Frame(f, y)
    BY <1>1 DEF Frame
  <2> QED
    BY <2>1 DEF Partition
<1> QED
  BY <1>2, <1>4, <1>5 DEF Partition
-----------------------------------------------------------------------------
\* Where the blocks of a state are.

InBin(x, bi) == \E k \in Orders : \E b \in bi[k] : x = BinBlock(b, k)
InBoot(x, bo) == \E f \in bo : x = BootBlock(f)
IsLive(x, li) == \E b \in li : x = LiveBlock(b)
IsFreed(x, fr) == \E b \in fr : x = FreedBlock(b)
IsSought(x, s) == s.at = "split" /\ x = SoughtBlock(s)

\* A block is in a bin, waiting at boot, held, being freed or being split.
LEMMA InBlocks ==
    \A x : x \in Blocks <=>
        \/ InBin(x, bins) \/ InBoot(x, boot) \/ IsLive(x, live) \/ IsFreed(x, freeing)
        \/ IsSought(x, search)
<1> SUFFICES ASSUME NEW x
             PROVE  x \in Blocks <=>
                        \/ InBin(x, bins) \/ InBoot(x, boot) \/ IsLive(x, live)
                        \/ IsFreed(x, freeing) \/ IsSought(x, search)
  OBVIOUS
<1>1. InBin(x, bins) <=> x \in UNION { { BinBlock(b, k) : b \in bins[k] } : k \in Orders }
  <2>1. ASSUME InBin(x, bins)
        PROVE  x \in UNION { { BinBlock(b, k) : b \in bins[k] } : k \in Orders }
    <3>1. PICK k \in Orders : \E b \in bins[k] : x = BinBlock(b, k)
      BY <2>1 DEF InBin
    <3>2. x \in { BinBlock(c, k) : c \in bins[k] }
      BY <3>1
    <3> QED
      BY <3>2
  <2>2. ASSUME x \in UNION { { BinBlock(b, k) : b \in bins[k] } : k \in Orders }
        PROVE  InBin(x, bins)
    <3>1. PICK k \in Orders : x \in { BinBlock(b, k) : b \in bins[k] }
      BY <2>2
    <3> QED
      BY <3>1 DEF InBin
  <2> QED
    BY <2>1, <2>2
<1>2. InBoot(x, boot) <=> x \in { BootBlock(f) : f \in boot }
  BY Zenon DEF InBoot
<1>3. IsLive(x, live) <=> x \in { LiveBlock(b) : b \in live }
  BY Zenon DEF IsLive
<1>4. IsFreed(x, freeing) <=> x \in { FreedBlock(b) : b \in freeing }
  BY Zenon DEF IsFreed
<1>5. IsSought(x, search) <=>
          x \in IF search.at = "split" THEN {SoughtBlock(search)} ELSE {}
  BY Zenon DEF IsSought
<1> QED
  BY <1>1, <1>2, <1>3, <1>4, <1>5, Zenon DEF Blocks

\* The same of the blocks after a step.
LEMMA InBlocksNext ==
    \A x : x \in Blocks' <=>
        \/ InBin(x, bins') \/ InBoot(x, boot') \/ IsLive(x, live') \/ IsFreed(x, freeing')
        \/ IsSought(x, search')
<1> SUFFICES ASSUME NEW x
             PROVE  x \in Blocks' <=>
                        \/ InBin(x, bins') \/ InBoot(x, boot') \/ IsLive(x, live')
                        \/ IsFreed(x, freeing') \/ IsSought(x, search')
  OBVIOUS
<1>1. InBin(x, bins') <=> x \in UNION { { BinBlock(b, k) : b \in bins'[k] } : k \in Orders }
  <2>1. ASSUME InBin(x, bins')
        PROVE  x \in UNION { { BinBlock(b, k) : b \in bins'[k] } : k \in Orders }
    <3>1. PICK k \in Orders : \E b \in bins'[k] : x = BinBlock(b, k)
      BY <2>1 DEF InBin
    <3>2. x \in { BinBlock(c, k) : c \in bins'[k] }
      BY <3>1
    <3> QED
      BY <3>2
  <2>2. ASSUME x \in UNION { { BinBlock(b, k) : b \in bins'[k] } : k \in Orders }
        PROVE  InBin(x, bins')
    <3>1. PICK k \in Orders : x \in { BinBlock(b, k) : b \in bins'[k] }
      BY <2>2
    <3> QED
      BY <3>1 DEF InBin
  <2> QED
    BY <2>1, <2>2
<1>2. InBoot(x, boot') <=> x \in { BootBlock(f) : f \in boot' }
  BY Zenon DEF InBoot
<1>3. IsLive(x, live') <=> x \in { LiveBlock(b) : b \in live' }
  BY Zenon DEF IsLive
<1>4. IsFreed(x, freeing') <=> x \in { FreedBlock(b) : b \in freeing' }
  BY Zenon DEF IsFreed
<1>5. IsSought(x, search') <=>
          x \in IF search'.at = "split" THEN {SoughtBlock(search')} ELSE {}
  BY Zenon DEF IsSought
<1> QED
  BY <1>1, <1>2, <1>3, <1>4, <1>5, Zenon DEF Blocks

-----------------------------------------------------------------------------
\* The inductive invariant.

\* The types of the variables.
Types ==
    /\ bins \in [Orders -> SUBSET Nat]
    /\ boot \in SUBSET Nat
    /\ live \in SUBSET [base : Nat, order : Orders, count : Counts]
    /\ search \in [at : {"idle", "bins", "split"}, base : Nat, order : 0 .. MAX_ORDER + 1,
                   want : 0 .. MAX_ORDER + 1, count : Nat]
    /\ freeing \in SUBSET [base : Nat, order : Orders]

\* The search for a block stays between the order it wants and the largest one,
\* every caller holds a block of the order it asked for, and one block at a time
\* is freed.
Calls ==
    /\ search.at # "idle" => /\ search.want <= search.order
                             /\ search.count \in Counts
                             /\ IsOrderOf(search.count, search.want)
    /\ search.at = "bins" => search.order <= MAX_ORDER + 1
    /\ search.at = "split" => search.order \in Orders
    /\ \A b \in live : IsOrderOf(b.count, b.order)
    /\ \A x, y \in freeing : x = y

\* A block below the largest order is not in a bin together with its buddy.
Merged ==
    \A k \in Orders : \A b \in bins[k] : k < MAX_ORDER => buddy_of(b, k) \notin bins[k]

\* The panic of the assertion in free_block is not among the possible ones.
Panics ==
    panicked \in {"no", "out of memory", "count is not a power of two"}

Inv == Types /\ Calls /\ Partition(Blocks) /\ Merged /\ Panics

\* Before Pmm::new frees anything, each usable frame is a block of its own.
LEMMA Initially ==
    ASSUME Init PROVE Inv
<1>1. Types
  BY UsableAssumption, OrderAssumption DEF Init, Types, Idle
<1>2. Calls
  BY DEF Init, Calls, Idle
<1>3. Partition(Blocks)
  <2>1. \A x : x \in Blocks <=> \E f \in Usable : x = BootBlock(f)
    BY InBlocks DEF Init, Idle, InBin, InBoot, IsLive, IsFreed, IsSought
  <2>2. 0 \in Orders /\ Size[0] = 1
    BY Sizes, OrderAssumption, SizeAssumption DEF Orders
  <2>3. \A f \in Nat : f % 1 = 0
    BY SMT
  <2>4. \A f \in Usable : /\ BootBlock(f).base = f
                          /\ BootBlock(f).order = 0
                          /\ f \in Nat
    BY UsableAssumption DEF BootBlock
  <2>5. \A x \in Blocks : x.base \in Nat /\ x.order \in Orders /\ x.base % Size[x.order] = 0
    BY <2>1, <2>2, <2>3, <2>4
  <2>6. \A x, y \in Blocks : x = y \/ Apart(x, y)
    <3> SUFFICES ASSUME NEW x \in Blocks, NEW y \in Blocks, x # y PROVE Apart(x, y)
      OBVIOUS
    <3>1. PICK f \in Usable : x = BootBlock(f)
      BY <2>1
    <3>2. PICK g \in Usable : y = BootBlock(g)
      BY <2>1
    <3> QED
      BY <2>2, <2>4, <3>1, <3>2 DEF Apart
  <2>7. ASSUME NEW f \in Nat PROVE f \in Usable <=> \E x \in Blocks : Frame(f, x)
    <3>1. \A g \in Usable : Frame(f, BootBlock(g)) <=> f = g
      BY <2>2, <2>4 DEF Frame
    <3> QED
      BY <2>1, <3>1
  <2> QED
    BY <2>5, <2>6, <2>7 DEF Partition
<1>4. Merged /\ Panics
  BY DEF Init, Merged, Panics
<1> QED
  BY <1>1, <1>2, <1>3, <1>4 DEF Inv
-----------------------------------------------------------------------------
\* Each step preserves it.

\* Nothing but the bins matters to Merged.
LEMMA FewerStayMerged ==
    ASSUME Types, Merged, \A k \in Orders : bins'[k] \subseteq bins[k]
    PROVE  Merged'
  BY DEF Merged, buddy_of

\* free_range moves a frame of the memory map to free_block.
LEMMA FreeRangeStep ==
    ASSUME Inv, FreeRange PROVE Inv'
<1> USE DEF Inv
<1>1. PICK frame \in boot : /\ boot' = boot \ {frame}
                            /\ freeing' = {[base |-> frame, order |-> 0]}
  BY DEF FreeRange
<1>2. /\ frame \in Nat /\ 0 \in Orders
      /\ freeing = {} /\ search.at = "idle" /\ panicked = "no"
      /\ UNCHANGED <<bins, live, search, panicked>>
  BY OrderAssumption DEF FreeRange, Quiet, Types, Orders
<1>3. Types'
  BY <1>1, <1>2 DEF Types
<1>4. Calls'
  BY <1>1, <1>2 DEF Calls, IsOrderOf
<1>5. Partition(Blocks')
  <2> DEFINE x == BootBlock(frame)
             y == FreedBlock([base |-> frame, order |-> 0])
  <2>1. x \in Blocks /\ y \in Blocks' /\ y.base = x.base /\ y.order = x.order
    BY <1>1, InBlocks, InBlocksNext DEF InBoot, IsFreed, BootBlock, FreedBlock
  <2>2. \A z \in Blocks' : z = y \/ (z \in Blocks /\ z # x)
    BY <1>1, <1>2, InBlocks, InBlocksNext
       DEF InBin, InBoot, IsLive, IsFreed, IsSought, BinBlock, BootBlock, LiveBlock
  <2>3. \A z \in Blocks : z = x \/ z \in Blocks'
    BY <1>1, <1>2, InBlocks, InBlocksNext DEF InBin, InBoot, IsLive, IsFreed, IsSought
  <2> HIDE DEF x, y
  <2> QED
    BY <2>1, <2>2, <2>3, Moves
<1>6. Merged' /\ Panics'
  BY <1>2, FewerStayMerged DEF Panics
<1> QED
  BY <1>3, <1>4, <1>5, <1>6 DEF Partition, Apart, Frame

\* A step that only moves on in the search leaves the blocks as they are.
LEMMA SameBlocks ==
    ASSUME Partition(Blocks), UNCHANGED <<bins, boot, live, freeing>>,
           search.at # "split", search'.at # "split"
    PROVE  Partition(Blocks')
<1>1. \A x : x \in Blocks' <=> x \in Blocks
  BY InBlocks, InBlocksNext DEF IsSought
<1>2. Blocks' = Blocks
  BY <1>1, Zenon
<1> QED
  BY <1>2

\* alloc starts a search for the order of the count.
LEMMA AllocStep ==
    ASSUME Inv, NEW count \in Counts, Alloc(count) PROVE Inv'
<1> USE DEF Inv
<1>1. PICK order \in 0 .. MAX_ORDER + 1 :
          /\ IsOrderOf(count, order)
          /\ search' = [at |-> "bins", base |-> 0, order |-> order, want |-> order,
                        count |-> count]
  BY DEF Alloc
<1>2. /\ search.at = "idle" /\ freeing = {} /\ count \in Nat /\ order \in Nat
      /\ UNCHANGED <<bins, boot, live, freeing, panicked>>
  BY OrderAssumption, CountsAssumption DEF Alloc, Quiet
<1>3. Types'
  BY <1>1, <1>2 DEF Types
<1>4. Calls'
  BY <1>1, <1>2 DEF Calls, IsOrderOf
<1>5. Partition(Blocks')
  BY <1>1, <1>2, SameBlocks
<1>6. Merged' /\ Panics'
  BY <1>2, FewerStayMerged, Zenon DEF Panics
<1> QED
  BY <1>3, <1>4, <1>5, <1>6 DEF Partition, Apart, Frame

\* The recursion of allocate_block goes one order up.
LEMMA LargerStep ==
    ASSUME Inv, AllocateBlockLarger PROVE Inv'
<1> USE DEF Inv
<1>1. /\ search.at = "bins" /\ search.order <= MAX_ORDER
      /\ search' = [search EXCEPT !.order = search.order + 1]
      /\ UNCHANGED <<bins, boot, live, freeing, panicked>>
  BY DEF AllocateBlockLarger
<1>2. /\ search'.at = "bins" /\ search'.order = search.order + 1
      /\ search'.want = search.want /\ search'.count = search.count
      /\ search.order \in Nat /\ search.want \in Nat
      /\ search.order + 1 \in 0 .. MAX_ORDER + 1
  BY <1>1, OrderAssumption DEF Types
<1>3. Types'
  BY <1>1, <1>2 DEF Types
<1>4. Calls'
  BY <1>1, <1>2, OrderAssumption DEF Calls, IsOrderOf
<1>5. Partition(Blocks')
  BY <1>1, <1>2, SameBlocks
<1>6. Merged' /\ Panics'
  BY <1>1, FewerStayMerged, Zenon DEF Panics
<1> QED
  BY <1>3, <1>4, <1>5, <1>6 DEF Partition, Apart, Frame

\* allocate_block moves a block from its bin to the search.
LEMMA TakeStep ==
    ASSUME Inv, AllocateBlockTake PROVE Inv'
<1> USE DEF Inv
<1>1. PICK block \in bins[search.order] :
          /\ bins' = [bins EXCEPT ![search.order] = bins[search.order] \ {block}]
          /\ search' = [search EXCEPT !.at = "split", !.base = block]
  BY Zenon DEF AllocateBlockTake
<1>2. /\ search.at = "bins" /\ search.order \in Orders
      /\ UNCHANGED <<boot, live, freeing, panicked>>
  BY OrderAssumption DEF AllocateBlockTake, Types, Orders
<1>3. /\ search'.at = "split" /\ search'.base = block /\ search'.order = search.order
      /\ search'.want = search.want /\ search'.count = search.count
      /\ block \in Nat
  BY <1>1, <1>2 DEF Types
<1>4. /\ \A k \in Orders : bins'[k] \subseteq bins[k]
      /\ \A k \in Orders : k # search.order => bins'[k] = bins[k]
      /\ bins'[search.order] = bins[search.order] \ {block}
  BY <1>1, <1>2 DEF Types
<1>5. Types'
  BY <1>1, <1>2, <1>3, Zenon DEF Types
<1>6. Calls'
  BY <1>2, <1>3 DEF Calls, IsOrderOf
<1>7. Partition(Blocks')
  <2> DEFINE x == BinBlock(block, search.order)
             y == SoughtBlock(search')
  <2>1. x \in Blocks /\ y \in Blocks' /\ y.base = x.base /\ y.order = x.order
    BY <1>1, <1>2, <1>3, InBlocks, InBlocksNext DEF InBin, IsSought, BinBlock, SoughtBlock
  <2>2. \A z \in Blocks' : z = y \/ (z \in Blocks /\ z # x)
    <3> SUFFICES ASSUME NEW z \in Blocks', z # y PROVE z \in Blocks /\ z # x
      OBVIOUS
    <3>1. CASE InBin(z, bins')
      BY <1>2, <1>4, <3>1, InBlocks DEF InBin, BinBlock
    <3>2. CASE InBoot(z, boot') \/ IsLive(z, live') \/ IsFreed(z, freeing')
      BY <1>2, <3>2, InBlocks DEF InBoot, IsLive, IsFreed, BinBlock, BootBlock, LiveBlock,
                                  FreedBlock
    <3> QED
      BY <3>1, <3>2, InBlocksNext, Zenon DEF IsSought
  <2>3. \A z \in Blocks : z = x \/ z \in Blocks'
    BY <1>2, <1>4, InBlocks, InBlocksNext DEF InBin, InBoot, IsLive, IsFreed, IsSought
  <2> HIDE DEF x, y
  <2> QED
    BY <2>1, <2>2, <2>3, Moves
<1>8. Merged' /\ Panics'
  BY <1>2, <1>4, FewerStayMerged, Zenon DEF Panics
<1> QED
  BY <1>5, <1>6, <1>7, <1>8 DEF Partition, Apart, Frame

\* A search that fails has taken no block.
LEMMA NoneStep ==
    ASSUME Inv, AllocateBlockNone PROVE Inv'
<1> USE DEF Inv
<1>1. search.at = "bins" /\ panicked' = "out of memory"
      /\ UNCHANGED <<bins, boot, live, search, freeing>>
  BY Zenon DEF AllocateBlockNone
<1>2. Types' /\ Calls'
  BY <1>1, Zenon DEF Types, Calls, IsOrderOf
<1>3. Partition(Blocks')
  BY <1>1, SameBlocks, Zenon
<1>4. Merged' /\ Panics'
  BY <1>1, FewerStayMerged, Zenon DEF Panics
<1> QED
  BY <1>2, <1>3, <1>4 DEF Partition, Apart, Frame

\* allocate_block splits a block and hands its second half to free_block.
LEMMA SplitStep ==
    ASSUME Inv, AllocateBlockSplit PROVE Inv'
<1> USE DEF Inv
<1> DEFINE half == [base |-> buddy_of(search.base, search.order - 1),
                    order |-> search.order - 1]
<1>1. /\ search.at = "split" /\ freeing = {} /\ search.order > search.want
      /\ freeing' = {half}
      /\ search' = [search EXCEPT !.order = search.order - 1]
      /\ UNCHANGED <<bins, boot, live, panicked>>
  BY DEF AllocateBlockSplit
<1>2. /\ search'.at = "split" /\ search'.base = search.base
      /\ search'.order = search.order - 1
      /\ search'.want = search.want /\ search'.count = search.count
      /\ search.order \in Orders /\ search.want \in Nat /\ search.base \in Nat
  BY <1>1 DEF Types, Calls
<1>3. /\ search.order > 0 /\ search.order - 1 \in Orders
      /\ Size[search.order - 1] \in Nat \ {0}
      /\ Size[search.order] = 2 * Size[search.order - 1]
  BY <1>1, <1>2, Sizes, OrderAssumption DEF Orders
<1>4. SoughtBlock(search) \in Blocks
  BY <1>1, InBlocks DEF IsSought
<1>5. search.base % Size[search.order] = 0
  BY <1>4 DEF Partition, SoughtBlock
<1>6. half.base = search.base + Size[search.order - 1] /\ half.base \in Nat
  BY <1>2, <1>3, <1>5, Halves DEF buddy_of
<1>7. Types'
  <2>1. search.order - 1 \in 0 .. MAX_ORDER + 1
    BY <1>3, OrderAssumption DEF Orders
  <2> QED
    BY <1>1, <1>2, <1>3, <1>6, <2>1 DEF Types
<1>8. Calls'
  <2>1. \A x, y \in freeing' : x = y
    BY <1>1
  <2>2. search'.want <= search'.order
    BY <1>1, <1>2, <1>3, Sizes
  <2>3. IsOrderOf(search'.count, search'.want) /\ search'.count \in Counts
    BY <1>1, <1>2 DEF Calls
  <2>4. \A b \in live' : IsOrderOf(b.count, b.order)
    BY <1>1 DEF Calls
  <2> HIDE DEF half
  <2> QED
    BY <1>2, <1>3, <2>1, <2>2, <2>3, <2>4 DEF Calls, IsOrderOf
<1>9. Partition(Blocks')
  <2> DEFINE x == SoughtBlock(search)
             y == SoughtBlock(search')
             z == FreedBlock(half)
  <2>1. x \in Blocks /\ y \in Blocks' /\ z \in Blocks'
    BY <1>1, <1>2, <1>4, InBlocksNext DEF IsSought, IsFreed
  <2>2. /\ x.order = search.order /\ y.order = search.order - 1 /\ z.order = search.order - 1
        /\ y.base = x.base /\ z.base = x.base + Size[y.order]
    BY <1>2, <1>6 DEF SoughtBlock, FreedBlock
  <2>3. \A v \in Blocks' : v = y \/ v = z \/ (v \in Blocks /\ v # x)
    <3> SUFFICES ASSUME NEW v \in Blocks', v # y, v # z PROVE v \in Blocks /\ v # x
      OBVIOUS
    <3>1. InBin(v, bins) \/ InBoot(v, boot) \/ IsLive(v, live)
      BY <1>1, InBlocksNext DEF IsSought, IsFreed, InBin, InBoot, IsLive
    <3> QED
      BY <3>1, InBlocks DEF InBin, InBoot, IsLive, BinBlock, BootBlock, LiveBlock, SoughtBlock
  <2>4. \A v \in Blocks : v = x \/ v \in Blocks'
    BY <1>1, InBlocks, InBlocksNext DEF InBin, InBoot, IsLive, IsFreed, IsSought
  <2> HIDE DEF x, y, z, half
  <2> QED
    BY <1>3, <2>1, <2>2, <2>3, <2>4, Splits
<1>10. Merged' /\ Panics'
  BY <1>1, FewerStayMerged, Zenon DEF Panics
<1> QED
  BY <1>7, <1>8, <1>9, <1>10 DEF Partition, Apart, Frame

\* alloc moves the block it found to the caller.
LEMMA ReturnStep ==
    ASSUME Inv, AllocReturn PROVE Inv'
<1> USE DEF Inv
<1> DEFINE block == [base |-> search.base, order |-> search.want, count |-> search.count]
<1>1. /\ search.at = "split" /\ search.order = search.want
      /\ live' = live \cup {block}
      /\ search' = Idle
      /\ UNCHANGED <<bins, boot, freeing, panicked>>
  BY DEF AllocReturn
<1>2. /\ search.base \in Nat /\ search.want \in Orders /\ search.count \in Counts
      /\ IsOrderOf(search.count, search.want)
  BY <1>1 DEF Types, Calls
<1>3. Types'
  <2>1. Idle \in [at : {"idle", "bins", "split"}, base : Nat, order : 0 .. MAX_ORDER + 1,
                  want : 0 .. MAX_ORDER + 1, count : Nat]
    BY OrderAssumption DEF Idle
  <2> QED
    BY <1>1, <1>2, <2>1 DEF Types
<1>4. Calls'
  <2>1. \A b \in live' : IsOrderOf(b.count, b.order)
    BY <1>1, <1>2 DEF Calls
  <2> QED
    BY <1>1, <2>1, Zenon DEF Calls, Idle, IsOrderOf
<1>5. Partition(Blocks')
  <2> DEFINE x == SoughtBlock(search)
             y == LiveBlock(block)
  <2>1. x \in Blocks /\ y \in Blocks' /\ y.base = x.base /\ y.order = x.order
    BY <1>1, InBlocks, InBlocksNext, ZenonT(30) DEF IsLive, IsSought, LiveBlock, SoughtBlock
  <2>2. \A z \in Blocks' : z = y \/ (z \in Blocks /\ z # x)
    <3> SUFFICES ASSUME NEW z \in Blocks', z # y PROVE z \in Blocks /\ z # x
      OBVIOUS
    <3>1. InBin(z, bins) \/ InBoot(z, boot) \/ IsLive(z, live) \/ IsFreed(z, freeing)
      BY <1>1, InBlocksNext, Zenon DEF IsSought, InBin, InBoot, IsLive, IsFreed, Idle
    <3> QED
      BY <3>1, InBlocks DEF InBin, InBoot, IsLive, IsFreed, BinBlock, BootBlock, LiveBlock,
                            FreedBlock, SoughtBlock
  <2>3. \A z \in Blocks : z = x \/ z \in Blocks'
    BY <1>1, InBlocks, InBlocksNext, Zenon DEF InBin, InBoot, IsLive, IsFreed, IsSought
  <2> HIDE DEF x, y
  <2> QED
    BY <2>1, <2>2, <2>3, Moves
<1>6. Merged' /\ Panics'
  BY <1>1, FewerStayMerged, ZenonT(30) DEF Panics
<1> QED
  BY <1>3, <1>4, <1>5, <1>6 DEF Partition, Apart, Frame

\* The order that alloc computes from the number of frames is the one that free
\* computes.
LEMMA OneOrder ==
    ASSUME NEW count \in Nat, NEW i \in 0 .. MAX_ORDER + 1, NEW j \in 0 .. MAX_ORDER + 1,
           IsOrderOf(count, i), IsOrderOf(count, j)
    PROVE  i = j
<1>1. ASSUME NEW m \in 0 .. MAX_ORDER + 1, NEW n \in 0 .. MAX_ORDER + 1,
             IsOrderOf(count, m), IsOrderOf(count, n), m < n
      PROVE  FALSE
  <2>1. m \in Orders /\ n - 1 \in Orders /\ m <= n - 1
    BY <1>1, OrderAssumption DEF Orders
  <2>2. Size[m] >= count /\ Size[n - 1] < count
    BY <1>1, <2>1, OrderAssumption DEF IsOrderOf, Orders
  <2>3. Size[m] <= Size[n - 1] /\ Size[m] \in Nat /\ Size[n - 1] \in Nat
    BY <2>1, Sizes
  <2> QED
    BY <2>2, <2>3
<1> QED
  BY <1>1, OrderAssumption

\* free moves a block from its caller to free_block, with the order it had.
LEMMA FreeStep ==
    ASSUME Inv, NEW block \in live, Free(block) PROVE Inv'
<1> USE DEF Inv
<1>1. /\ freeing = {} /\ search.at = "idle" /\ panicked = "no"
      /\ UNCHANGED <<bins, boot, search>>
      /\ block.base \in Nat /\ block.order \in Orders /\ block.count \in Nat
      /\ IsOrderOf(block.count, block.order)
  BY CountsAssumption, Zenon DEF Free, Quiet, Types, Calls
<1>2. CASE is_power_of_two(block.count)
  <2> DEFINE freed == [base |-> block.base, order |-> block.order]
  <2>1. live' = live \ {block} /\ freeing' = {freed} /\ UNCHANGED panicked
    <3>1. PICK order \in 0 .. MAX_ORDER + 1 :
              /\ IsOrderOf(block.count, order)
              /\ freeing' = {[base |-> block.base, order |-> order]}
      BY <1>2 DEF Free
    <3>2. block.order \in 0 .. MAX_ORDER + 1
      BY <1>1, OrderAssumption DEF Orders
    <3>3. order = block.order
      BY <1>1, <3>1, <3>2, OneOrder
    <3> QED
      BY <1>2, <3>1, <3>3 DEF Free
  <2>2. Types'
    BY <1>1, <2>1 DEF Types
  <2>3. Calls'
    BY <1>1, <2>1 DEF Calls, IsOrderOf
  <2>4. Partition(Blocks')
    <3> DEFINE x == LiveBlock(block)
               y == FreedBlock(freed)
    <3>1. x \in Blocks /\ y \in Blocks' /\ y.base = x.base /\ y.order = x.order
      BY <2>1, InBlocks, InBlocksNext, Zenon DEF IsLive, IsFreed, LiveBlock, FreedBlock
    <3>2. \A z \in Blocks' : z = y \/ (z \in Blocks /\ z # x)
      <4> SUFFICES ASSUME NEW z \in Blocks', z # y PROVE z \in Blocks /\ z # x
        OBVIOUS
      <4>1. InBin(z, bins) \/ InBoot(z, boot) \/ IsLive(z, live \ {block})
        BY <1>1, <2>1, InBlocksNext, Zenon DEF IsSought, InBin, InBoot, IsLive, IsFreed
      <4>2. \A b \in live : LiveBlock(b) = LiveBlock(block) => b = block
        BY DEF Types, LiveBlock
      <4> QED
        BY <4>1, <4>2, InBlocks DEF InBin, InBoot, IsLive, BinBlock, BootBlock, LiveBlock
    <3>3. \A z \in Blocks : z = x \/ z \in Blocks'
      BY <1>1, <2>1, InBlocks, InBlocksNext, Zenon DEF InBin, InBoot, IsLive, IsFreed, IsSought
    <3> HIDE DEF x, y
    <3> QED
      BY <3>1, <3>2, <3>3, Moves
  <2>5. Merged' /\ Panics'
    BY <1>1, <2>1, FewerStayMerged, Zenon DEF Panics
  <2> QED
    BY <2>2, <2>3, <2>4, <2>5 DEF Partition, Apart, Frame
<1>3. CASE ~is_power_of_two(block.count)
  <2>1. panicked' = "count is not a power of two" /\ UNCHANGED <<live, freeing>>
    BY <1>3, Zenon DEF Free
  <2>2. Types' /\ Calls'
    BY <1>1, <2>1, Zenon DEF Types, Calls, IsOrderOf
  <2>3. Partition(Blocks')
    BY <1>1, <2>1, SameBlocks, Zenon
  <2>4. Merged' /\ Panics'
    BY <1>1, <2>1, FewerStayMerged, Zenon DEF Panics
  <2> QED
    BY <2>2, <2>3, <2>4 DEF Partition, Apart, Frame
<1> QED
  BY <1>2, <1>3

\* A block and its buddy are the two halves of a block of the next order, and
\* each is the buddy of the other.
LEMMA Buddies ==
    ASSUME NEW k \in Orders, NEW b \in Nat, b % Size[k] = 0
    PROVE  LET c == buddy_of(b, k) IN
           /\ c \in Nat
           /\ buddy_of(c, k) = b
           /\ \/ c = b + Size[k] /\ b % (2 * Size[k]) = 0
              \/ b = c + Size[k] /\ c % (2 * Size[k]) = 0
<1>1. PICK s \in Nat \ {0} : s = Size[k]
  BY Sizes
<1>2. CASE (b \div s) % 2 = 0
  <2>1. b % (2 * s) = 0 /\ ((b + s) \div s) % 2 # 0
    BY <1>1, <1>2, Pairs
  <2>2. PICK c \in Nat : c = b + s
    OBVIOUS
  <2>3. buddy_of(b, k) = c
    BY <1>1, <1>2, <2>2 DEF buddy_of
  <2>4. buddy_of(c, k) = c - s
    BY <1>1, <2>1, <2>2 DEF buddy_of
  <2>5. c - s = b
    BY <2>2
  <2> QED
    BY <1>1, <2>1, <2>2, <2>3, <2>4, <2>5
<1>3. CASE (b \div s) % 2 # 0
  <2>1. s <= b /\ (b - s) % (2 * s) = 0 /\ ((b - s) \div s) % 2 = 0
    BY <1>1, <1>3, Pairs, ZenonT(30)
  <2>2. PICK c \in Nat : c = b - s
    BY <2>1
  <2>3. buddy_of(b, k) = c
    BY <1>1, <1>3, <2>2 DEF buddy_of
  <2>4. buddy_of(c, k) = c + s
    BY <1>1, <2>1, <2>2 DEF buddy_of
  <2>5. c + s = b
    BY <2>2
  <2> QED
    BY <1>1, <2>1, <2>2, <2>3, <2>4, <2>5
<1> QED
  BY <1>2, <1>3

\* free_block merges the block with its buddy from the bin.
LEMMA CoalesceStep ==
    ASSUME Inv, FreeBlockCoalesce PROVE Inv'
<1> USE DEF Inv
<1>1. PICK block \in freeing :
          /\ block.order < MAX_ORDER
          /\ buddy_of(block.base, block.order) \in bins[block.order]
          /\ bins' = [bins EXCEPT ![block.order] =
                          bins[block.order] \ {buddy_of(block.base, block.order)}]
          /\ freeing' = {[base |-> Lesser(block.base, buddy_of(block.base, block.order)),
                          order |-> block.order + 1]}
  BY Zenon DEF FreeBlockCoalesce
<1>2. /\ panicked = "no" /\ UNCHANGED <<boot, live, search, panicked>>
      /\ block.base \in Nat /\ block.order \in Orders /\ block.order + 1 \in Orders
      /\ freeing = {block}
  BY <1>1, Sizes DEF FreeBlockCoalesce, Types, Calls
<1>3. FreedBlock(block) \in Blocks /\ block.base % Size[block.order] = 0
  <2>1. FreedBlock(block) \in Blocks
    BY InBlocks DEF IsFreed
  <2> QED
    BY <2>1 DEF Partition, FreedBlock
<1>4. PICK buddy \in Nat : buddy = buddy_of(block.base, block.order)
  BY <1>2, <1>3, Buddies
<1>5. \/ buddy = block.base + Size[block.order] /\ block.base % (2 * Size[block.order]) = 0
      \/ block.base = buddy + Size[block.order] /\ buddy % (2 * Size[block.order]) = 0
  BY <1>2, <1>3, <1>4, Buddies
<1>6. PICK base \in Nat : base = Lesser(block.base, buddy)
  BY <1>2 DEF Lesser
<1> DEFINE freed == [base |-> base, order |-> block.order + 1]
<1>7. /\ freeing' = {freed}
      /\ \A k \in Orders : bins'[k] \subseteq bins[k]
      /\ \A k \in Orders : k # block.order => bins'[k] = bins[k]
      /\ bins'[block.order] = bins[block.order] \ {buddy}
      /\ buddy \in bins[block.order]
      /\ bins' \in [Orders -> SUBSET Nat]
  BY <1>1, <1>2, <1>4, <1>6 DEF Types
<1>8. Types'
  BY <1>2, <1>7 DEF Types
<1>9. Calls'
  BY <1>2, <1>7, Zenon DEF Calls, IsOrderOf
<1>10. Partition(Blocks')
  <2> DEFINE old == FreedBlock(block)
             bin == BinBlock(buddy, block.order)
             z == FreedBlock(freed)
  <2>1. /\ old \in Blocks /\ bin \in Blocks /\ z \in Blocks'
        /\ old.base = block.base /\ old.order = block.order
        /\ bin.base = buddy /\ bin.order = block.order
        /\ z.base = base /\ z.order = block.order + 1
    BY <1>2, <1>3, <1>7, InBlocks, InBlocksNext, Zenon DEF InBin, IsFreed, BinBlock, FreedBlock
  <2>2. \A v \in Blocks' : v = z \/ (v \in Blocks /\ v # old /\ v # bin)
    <3> SUFFICES ASSUME NEW v \in Blocks', v # z PROVE v \in Blocks /\ v # old /\ v # bin
      OBVIOUS
    <3>1. CASE InBin(v, bins')
      BY <1>2, <1>7, <3>1, InBlocks, SMTT(30) DEF InBin, BinBlock, FreedBlock
    <3>2. CASE InBoot(v, boot') \/ IsLive(v, live') \/ IsSought(v, search')
      BY <1>2, <3>2, InBlocks DEF InBoot, IsLive, IsSought, BinBlock, BootBlock, LiveBlock,
                                  FreedBlock, SoughtBlock
    <3> QED
      BY <1>7, <3>1, <3>2, InBlocksNext, Zenon DEF IsFreed
  <2>3. \A v \in Blocks : v = old \/ v = bin \/ v \in Blocks'
    BY <1>2, <1>7, InBlocks, InBlocksNext, Zenon DEF InBin, InBoot, IsLive, IsFreed, IsSought
  <2>4. Size[block.order] \in Nat \ {0} /\ Size[block.order + 1] = 2 * Size[block.order]
    BY <1>1, <1>2, Sizes
  <2> HIDE DEF old, bin, z
  <2>5. CASE buddy = block.base + Size[block.order] /\ block.base % (2 * Size[block.order]) = 0
    <3>1. base = block.base
      BY <1>2, <1>6, <2>4, <2>5 DEF Lesser
    <3> QED
      BY <1>1, <2>1, <2>2, <2>3, <2>4, <2>5, <3>1, Merges
  <2>6. CASE block.base = buddy + Size[block.order] /\ buddy % (2 * Size[block.order]) = 0
    <3>1. base = buddy
      BY <1>2, <1>6, <2>4, <2>6 DEF Lesser
    <3> QED
      BY <1>1, <2>1, <2>2, <2>3, <2>4, <2>6, <3>1, Merges
  <2> QED
    BY <1>5, <2>5, <2>6
<1>11. Merged' /\ Panics'
  BY <1>2, <1>7, FewerStayMerged DEF Panics
<1> QED
  BY <1>8, <1>9, <1>10, <1>11 DEF Partition, Apart, Frame

\* free_block moves the block to its bin, where it was not and its buddy is not.
LEMMA InsertStep ==
    ASSUME Inv, FreeBlockInsert PROVE Inv'
<1> USE DEF Inv
<1>1. PICK block \in freeing :
          /\ \/ block.order = MAX_ORDER
             \/ buddy_of(block.base, block.order) \notin bins[block.order]
          /\ IF block.base \in bins[block.order]
               THEN /\ panicked' = "block is already free"
                    /\ UNCHANGED <<bins, freeing>>
               ELSE /\ bins' = [bins EXCEPT ![block.order] =
                                   bins[block.order] \cup {block.base}]
                    /\ freeing' = {}
                    /\ UNCHANGED panicked
  BY Zenon DEF FreeBlockInsert
<1>2. /\ UNCHANGED <<boot, live, search>>
      /\ block.base \in Nat /\ block.order \in Orders /\ freeing = {block}
  BY ZenonT(30) DEF FreeBlockInsert, Types, Calls
<1>3. FreedBlock(block) \in Blocks
  BY InBlocks DEF IsFreed
<1>4. block.base \notin bins[block.order]
  <2> SUFFICES ASSUME block.base \in bins[block.order] PROVE FALSE
    OBVIOUS
  <2>1. BinBlock(block.base, block.order) \in Blocks
    BY <1>2, InBlocks DEF InBin
  <2>2. BinBlock(block.base, block.order) # FreedBlock(block)
    BY DEF BinBlock, FreedBlock
  <2>3. Apart(BinBlock(block.base, block.order), FreedBlock(block))
    BY <1>3, <2>1, <2>2 DEF Partition
  <2>4. Size[block.order] \in Nat \ {0}
    BY <1>2, Sizes
  <2> QED
    BY <1>2, <2>3, <2>4 DEF Apart, BinBlock, FreedBlock
<1>5. /\ freeing' = {} /\ panicked' = panicked
      /\ \A k \in Orders : k # block.order => bins'[k] = bins[k]
      /\ bins'[block.order] = bins[block.order] \cup {block.base}
      /\ bins' \in [Orders -> SUBSET Nat]
  BY <1>1, <1>2, <1>4 DEF Types
<1>6. Types'
  BY <1>2, <1>5 DEF Types
<1>7. Calls'
  BY <1>2, <1>5, SMTT(30) DEF Calls, IsOrderOf
<1>8. Partition(Blocks')
  <2> DEFINE x == FreedBlock(block)
             y == BinBlock(block.base, block.order)
  <2>1. x \in Blocks /\ y \in Blocks' /\ y.base = x.base /\ y.order = x.order
    BY <1>2, <1>3, <1>5, InBlocksNext, Zenon DEF InBin, BinBlock, FreedBlock
  <2>2. \A z \in Blocks' : z = y \/ (z \in Blocks /\ z # x)
    <3> SUFFICES ASSUME NEW z \in Blocks', z # y PROVE z \in Blocks /\ z # x
      OBVIOUS
    <3>1. CASE InBin(z, bins')
      BY <1>2, <1>5, <3>1, InBlocks, SMTT(30) DEF InBin, BinBlock, FreedBlock
    <3>2. CASE InBoot(z, boot') \/ IsLive(z, live') \/ IsSought(z, search')
      BY <1>2, <3>2, InBlocks DEF InBoot, IsLive, IsSought, BootBlock, LiveBlock,
                                  FreedBlock, SoughtBlock
    <3> QED
      BY <1>5, <3>1, <3>2, InBlocksNext, Zenon DEF IsFreed
  <2>3. \A z \in Blocks : z = x \/ z \in Blocks'
    BY <1>2, <1>5, InBlocks, InBlocksNext, Zenon DEF InBin, InBoot, IsLive, IsFreed, IsSought
  <2> HIDE DEF x, y
  <2> QED
    BY <2>1, <2>2, <2>3, Moves
<1>9. Merged'
  <2> SUFFICES ASSUME NEW k \in Orders, NEW b \in bins'[k], k < MAX_ORDER
               PROVE  buddy_of(b, k) \notin bins'[k]
    BY DEF Merged, buddy_of
  <2>1. CASE k # block.order
    BY <1>5, <2>1 DEF Merged
  <2>2. CASE k = block.order
    <3>1. \A c \in bins[k] : c \in Nat /\ c % Size[k] = 0 /\ buddy_of(c, k) \notin bins[k]
      <4> SUFFICES ASSUME NEW c \in bins[k]
                   PROVE  c \in Nat /\ c % Size[k] = 0 /\ buddy_of(c, k) \notin bins[k]
        OBVIOUS
      <4>1. BinBlock(c, k) \in Blocks
        BY InBlocks DEF InBin
      <4>2. BinBlock(c, k).base = c /\ BinBlock(c, k).order = k
        BY DEF BinBlock
      <4> QED
        BY <4>1, <4>2 DEF Partition, Merged
    <3>2. /\ block.base % Size[k] = 0
          /\ buddy_of(block.base, k) \notin bins[k]
          /\ buddy_of(block.base, k) # block.base
      <4>1. FreedBlock(block).base = block.base /\ FreedBlock(block).order = k
        BY <2>2, Zenon DEF FreedBlock
      <4>2. block.base % Size[k] = 0
        BY <1>3, <4>1 DEF Partition
      <4>3. buddy_of(block.base, k) # block.base
        BY <1>2, Sizes DEF buddy_of
      <4>4. block.order # MAX_ORDER
        BY <2>2, Sizes
      <4> QED
        BY <1>1, <2>2, <4>2, <4>3, <4>4, ZenonT(30)
    <3>3. CASE b = block.base
      BY <1>5, <2>2, <3>2, <3>3
    <3>4. CASE b \in bins[k]
      <4>1. buddy_of(buddy_of(b, k), k) = b
        BY <3>1, <3>4, Buddies
      <4>2. buddy_of(b, k) # block.base
        BY <3>2, <3>4, <4>1
      <4> QED
        BY <1>5, <2>2, <3>1, <3>4, <4>2
    <3> QED
      BY <1>5, <2>2, <3>3, <3>4
  <2> QED
    BY <2>1, <2>2
<1>10. Panics'
  BY <1>5, Zenon DEF Panics
<1> QED
  BY <1>6, <1>7, <1>8, <1>9, <1>10, Zenon DEF Partition, Apart, Frame, Merged
-----------------------------------------------------------------------------
\* What follows from the invariant.

\* The invariant is inductive: every step of a call preserves it.
THEOREM PartitionKept == Spec => []Inv
<1>1. ASSUME Inv, [Next]_vars PROVE Inv'
  <2>1. CASE UNCHANGED vars
    <3>1. UNCHANGED <<bins, boot, live, search, freeing, panicked>>
      BY <2>1 DEF vars
    <3>2. Types' /\ Calls'
      BY <1>1, <3>1, Zenon DEF Inv, Types, Calls, IsOrderOf
    <3>3. Partition(Blocks')
      <4>1. Blocks' = Blocks
        BY <3>1 DEF Blocks
      <4> QED
        BY <1>1, <4>1 DEF Inv
    <3>4. Merged' /\ Panics'
      BY <1>1, <3>1, FewerStayMerged, Zenon DEF Inv, Panics
    <3> QED
      BY <3>2, <3>3, <3>4 DEF Inv, Partition, Apart, Frame
  <2>2. CASE Next
    BY <1>1, <2>2, FreeRangeStep, AllocStep, LargerStep, TakeStep, NoneStep, SplitStep,
       ReturnStep, FreeStep, CoalesceStep, InsertStep DEF Next
  <2> QED
    BY <1>1, <2>1, <2>2
<1> QED
  BY <1>1, Initially, PTL DEF Spec

\* Every frame of a block is usable, its first one in particular.
LEMMA BlocksUsable ==
    ASSUME Inv, NEW x \in Blocks
    PROVE  x.base \in Usable /\ Extent(x) \subseteq Usable
<1>1. x.base \in Nat /\ Size[x.order] \in Nat \ {0}
  BY Sizes DEF Inv, Partition
<1>2. \A f \in Nat : Frame(f, x) => f \in Usable
  BY DEF Inv, Partition
<1> QED
  BY <1>1, <1>2 DEF Frame, Extent

\* Whatever is asked for and given back, the allocator's state has its type: in
\* particular every block in a bin, held by a caller or being freed starts at a
\* usable frame.
THEOREM TypesHold == Spec => []TypeOK
<1>1. ASSUME Inv PROVE TypeOK
  <2> USE <1>1 DEF Inv
  <2>1. bins \in [Orders -> SUBSET Usable]
    <3>1. ASSUME NEW k \in Orders, NEW b \in bins[k] PROVE b \in Usable
      <4>1. BinBlock(b, k) \in Blocks /\ BinBlock(b, k).base = b
        BY InBlocks, Zenon DEF InBin, BinBlock
      <4> QED
        BY <4>1, BlocksUsable
    <3> QED
      BY <3>1 DEF Types
  <2>2. boot \in SUBSET Usable
    <3>1. ASSUME NEW f \in boot PROVE f \in Usable
      <4>1. BootBlock(f) \in Blocks /\ BootBlock(f).base = f
        BY InBlocks DEF InBoot, BootBlock
      <4> QED
        BY <4>1, BlocksUsable
    <3> QED
      BY <3>1
  <2>3. live \in SUBSET [base : Usable, order : Orders, count : Counts]
    <3>1. ASSUME NEW b \in live PROVE b.base \in Usable
      <4>1. LiveBlock(b) \in Blocks /\ LiveBlock(b).base = b.base
        BY InBlocks DEF IsLive, LiveBlock
      <4> QED
        BY <4>1, BlocksUsable
    <3> QED
      BY <3>1 DEF Types
  <2>4. freeing \in SUBSET [base : Usable, order : Orders]
    <3>1. ASSUME NEW b \in freeing PROVE b.base \in Usable
      <4>1. FreedBlock(b) \in Blocks /\ FreedBlock(b).base = b.base
        BY InBlocks DEF IsFreed, FreedBlock
      <4> QED
        BY <4>1, BlocksUsable
    <3> QED
      BY <3>1 DEF Types
  <2>5. search.at = "split" => search.base \in Usable
    <3>1. search.at = "split" =>
              SoughtBlock(search) \in Blocks /\ SoughtBlock(search).base = search.base
      BY InBlocks DEF IsSought, SoughtBlock
    <3> QED
      BY <3>1, BlocksUsable
  <2> QED
    BY <2>1, <2>2, <2>3, <2>4, <2>5, ZenonT(30) DEF Types, Calls, Panics, TypeOK
<1> QED
  BY <1>1, PartitionKept, PTL

\* No frame is ever in two blocks, at any point of any split or merge.
THEOREM NeverShared == Spec => []BlocksDisjoint
<1>1. ASSUME Inv PROVE BlocksDisjoint
  BY <1>1 DEF Inv, Partition, BlocksDisjoint
<1> QED
  BY <1>1, PartitionKept, PTL

\* No frame is lost by alloc or free and none is invented, at any point of any
\* split or merge.
THEOREM NeverLost == Spec => []FramesConserved
<1>1. ASSUME Inv PROVE FramesConserved
  <2>1. ASSUME NEW f \in Usable PROVE f \in UNION { Extent(x) : x \in Blocks }
    <3>1. f \in Nat
      BY UsableAssumption
    <3>2. PICK x \in Blocks : Frame(f, x)
      BY <1>1, <3>1 DEF Inv, Partition
    <3>3. x.base \in Nat /\ Size[x.order] \in Nat
      BY <1>1, Sizes DEF Inv, Partition
    <3>4. f \in Extent(x)
      BY <3>1, <3>2, <3>3 DEF Frame, Extent
    <3> QED
      BY <3>4, Zenon
  <2>2. ASSUME NEW f \in UNION { Extent(x) : x \in Blocks } PROVE f \in Usable
    <3>1. PICK x \in Blocks : f \in Extent(x)
      BY Zenon
    <3> QED
      BY <1>1, <3>1, BlocksUsable
  <2> QED
    BY <2>1, <2>2, Zenon DEF FramesConserved
<1> QED
  BY <1>1, PartitionKept, PTL

\* The assertion of free_block that the block is not in its bin already never
\* fires.
THEOREM AssertionHolds == Spec => []NeverFreedTwice
<1>1. ASSUME Inv PROVE NeverFreedTwice
  BY <1>1, Zenon DEF Inv, Panics, NeverFreedTwice
<1> QED
  BY <1>1, PartitionKept, PTL

\* A block and its buddy are never both free below the largest order: what is
\* given back always becomes large blocks again.
THEOREM AlwaysMerged == Spec => []Coalesced
<1>1. ASSUME Inv PROVE Coalesced
  BY <1>1 DEF Inv, Merged, Coalesced
<1> QED
  BY <1>1, PartitionKept, PTL
-----------------------------------------------------------------------------
\* What it means to be out of memory.

\* A set of numbers that is not empty has a least one.
LEMMA LeastNatural ==
    ASSUME NEW T \in SUBSET Nat, T # {}
    PROVE  \E x \in T : \A y \in T : x <= y
<1>1. IsWellFoundedOn(OpToRel(<, Nat), Nat)
  BY NatLessThanWellFounded, Zenon
<1>2. PICK x \in T : \A y \in T : ~ (<<y, x>> \in OpToRel(<, Nat))
  BY <1>1, WFMin, Zenon
<1>3. \A y \in T : ~(y < x)
  BY <1>2, Zenon DEF OpToRel
<1> QED
  BY <1>3

\* A block is as long as a whole number of smaller ones.
LEMMA WholeNumber ==
    ASSUME NEW j \in Orders, NEW k \in Orders, j <= k
    PROVE  \E m \in Nat \ {0} : Size[k] = m * Size[j]
<1> DEFINE T == { n \in Orders : j <= n /\ ~ \E m \in Nat \ {0} : Size[n] = m * Size[j] }
<1>1. SUFFICES ASSUME T # {} PROVE FALSE
  OBVIOUS
<1>2. T \in SUBSET Nat
  BY Sizes
<1>3. PICK n \in T : \A y \in T : n <= y
  BY <1>1, <1>2, LeastNatural, ZenonT(30)
<1>4. n \in Orders /\ n \in Nat /\ j \in Nat /\ j <= n /\ Size[j] \in Nat \ {0}
  BY <1>3, Sizes
<1>5. CASE n = j
  <2>1. Size[n] = 1 * Size[j] /\ 1 \in Nat \ {0}
    BY <1>4, <1>5
  <2> QED
    BY <1>3, <2>1
<1>6. CASE n # j
  <2>1. n - 1 \in Orders /\ j <= n - 1 /\ n - 1 < MAX_ORDER /\ (n - 1) + 1 = n
    BY <1>4, <1>6, OrderAssumption DEF Orders
  <2>2. n - 1 \notin T
    BY <1>3, <1>4
  <2>3. PICK m \in Nat \ {0} : Size[n - 1] = m * Size[j]
    BY <2>1, <2>2
  <2>4. Size[n] = 2 * (m * Size[j])
    BY <2>1, <2>3, Sizes
  <2>5. Size[n] = (2 * m) * Size[j] /\ 2 * m \in Nat \ {0}
    BY <1>4, <2>4
  <2> QED
    BY <1>3, <2>5
<1> QED
  BY <1>5, <1>6

\* Multiplication keeps the order of numbers.
LEMMA TimesKeepsOrder ==
    ASSUME NEW s \in Nat, NEW p \in Int, NEW q \in Int, p <= q
    PROVE  p * s <= q * s
<1>1. PICK d \in Nat : q = p + d
  <2>1. q - p \in Nat /\ q = p + (q - p)
    OBVIOUS
  <2> QED
    BY <2>1
<1>2. q * s = p * s + d * s /\ d * s \in Nat
  BY <1>1, SMT
<1> QED
  BY <1>2, SMT

\* Of two aligned blocks the smaller is inside of the larger or apart from it.
LEMMA Nested ==
    ASSUME NEW s \in Nat \ {0}, NEW m \in Nat \ {0}, NEW t \in Nat \ {0}, t = m * s,
           NEW b \in Nat, b % s = 0, NEW c \in Nat, c % t = 0
    PROVE  \/ b + s <= c
           \/ c + t <= b
           \/ c <= b /\ b + s <= c + t
<1>1. PICK p \in Nat : b = p * s
  <2>1. b \div s \in Nat /\ b = (b \div s) * s
    BY Multiples
  <2> QED
    BY <2>1, Zenon
<1>2. PICK q \in Nat : c = q * t
  <2>1. c \div t \in Nat /\ c = (c \div t) * t
    BY Multiples, Zenon
  <2> QED
    BY <2>1, Zenon
<1>3. PICK n \in Nat : n = q * m
  BY SMT
<1>4. c = n * s /\ c + t = (n + m) * s /\ b + s = (p + 1) * s
  BY <1>1, <1>2, <1>3, SMT
<1>5. CASE p < n
  BY <1>4, <1>5, TimesKeepsOrder
<1>6. CASE n <= p /\ p < n + m
  BY <1>1, <1>4, <1>6, TimesKeepsOrder
<1>7. CASE n + m <= p
  BY <1>1, <1>4, <1>7, TimesKeepsOrder
<1> QED
  BY <1>5, <1>6, <1>7

\* The same of blocks of two orders.
LEMMA NestedBlocks ==
    ASSUME NEW j \in Orders, NEW k \in Orders, j <= k,
           NEW b \in Nat, b % Size[j] = 0, NEW c \in Nat, c % Size[k] = 0
    PROVE  \/ b + Size[j] <= c
           \/ c + Size[k] <= b
           \/ c <= b /\ b + Size[j] <= c + Size[k]
<1>1. PICK m \in Nat \ {0} : Size[k] = m * Size[j]
  BY WholeNumber
<1>2. Size[j] \in Nat \ {0} /\ Size[k] \in Nat \ {0}
  BY Sizes
<1> QED
  BY <1>1, <1>2, Nested

-----------------------------------------------------------------------------

\* What allocate_block knows of the bins it has looked into, and what is left of
\* its activation when it gives up.
Searched ==
    /\ search.at = "bins" =>
         /\ boot = {} /\ freeing = {}
         /\ \A k \in Orders : search.want <= k /\ k < search.order => bins[k] = {}
    /\ panicked = "out of memory" => search.at = "bins" /\ search.order > MAX_ORDER

\* Every step keeps it.
LEMMA SearchedKept ==
    ASSUME Inv, Searched, [Next]_vars PROVE Searched'
<1>1. CASE UNCHANGED vars
  BY <1>1, ZenonT(30) DEF Searched, vars
<1>2. CASE FreeRange
  BY <1>2, Zenon DEF FreeRange, Quiet, Searched
<1>3. CASE \E count \in Counts : Alloc(count)
  BY <1>3, OrderAssumption DEF Alloc, Quiet, Searched, Orders
<1>4. CASE AllocateBlockLarger
  BY <1>4, OrderAssumption, SMTT(30) DEF AllocateBlockLarger, Searched, Inv, Types, Orders
<1>5. CASE AllocateBlockTake
  BY <1>5 DEF AllocateBlockTake, Searched, Inv, Types
<1>6. CASE AllocateBlockNone
  BY <1>6, ZenonT(30) DEF AllocateBlockNone, Searched
<1>7. CASE AllocateBlockSplit
  BY <1>7 DEF AllocateBlockSplit, Searched, Inv, Types
<1>8. CASE AllocReturn
  BY <1>8, Zenon DEF AllocReturn, Searched, Idle
<1>9. CASE \E block \in live : Free(block)
  BY <1>9, ZenonT(30) DEF Free, Quiet, Searched
<1>10. CASE FreeBlockCoalesce
  BY <1>10, Zenon DEF FreeBlockCoalesce, Searched
<1>11. CASE FreeBlockInsert
  BY <1>11, ZenonT(30) DEF FreeBlockInsert, Searched
<1> QED
  BY <1>1, <1>2, <1>3, <1>4, <1>5, <1>6, <1>7, <1>8, <1>9, <1>10, <1>11 DEF Next

\* Frame f is in a bin, in a block of order k or larger.
FreeFrom(f, k) ==
    \E j \in Orders : \E b \in bins[j] : k <= j /\ b <= f /\ f < b + Size[j]

\* Blocks in bins are aligned and apart from each other.
LEMMA BinBlocks ==
    ASSUME Inv, NEW j \in Orders, NEW k \in Orders, NEW b \in bins[j], NEW c \in bins[k]
    PROVE  /\ b \in Nat /\ b % Size[j] = 0
           /\ (j = k /\ b = c) \/ b + Size[j] <= c \/ c + Size[k] <= b
<1>1. BinBlock(b, j) \in Blocks /\ BinBlock(c, k) \in Blocks
  BY InBlocks, Zenon DEF InBin
<1>2. /\ BinBlock(b, j).base = b /\ BinBlock(b, j).order = j
      /\ BinBlock(c, k).base = c /\ BinBlock(c, k).order = k
  BY Zenon DEF BinBlock
<1>3. b \in Nat /\ b % Size[j] = 0
  BY <1>1, <1>2, Zenon DEF Inv, Partition
<1>4. BinBlock(b, j) = BinBlock(c, k) \/ Apart(BinBlock(b, j), BinBlock(c, k))
  BY <1>1, Zenon DEF Inv, Partition
<1> QED
  BY <1>2, <1>3, <1>4, Zenon DEF Apart

\* The step of the induction over orders: where all frames of an aligned run are
\* in free blocks of order k or larger, and the run is longer than that, they are
\* in larger ones.  A free block of order k would lie beside its buddy, whose
\* first frame is in a free block of order k or larger as well, which can only be
\* the buddy itself; free_block would have merged the two.
LEMMA LargerBlocks ==
    ASSUME Inv, NEW w \in Orders, NEW base \in Nat, base % Size[w] = 0,
           NEW k \in Orders, k < w,
           \A f \in base .. base + Size[w] - 1 : FreeFrom(f, k)
    PROVE  \A f \in base .. base + Size[w] - 1 : FreeFrom(f, k + 1)
<1>0. /\ k \in Nat /\ w \in Nat /\ w <= MAX_ORDER /\ MAX_ORDER \in Nat /\ k + 1 \in Orders
      /\ Size[k] \in Nat \ {0} /\ Size[w] \in Nat \ {0} /\ Size[k + 1] = 2 * Size[k]
      /\ \A j \in Orders : j \in Nat /\ Size[j] \in Nat \ {0}
  BY Sizes, OrderAssumption
<1> SUFFICES ASSUME NEW f \in base .. base + Size[w] - 1 PROVE FreeFrom(f, k + 1)
  OBVIOUS
<1>01. PICK j \in Orders : \E b \in bins[j] : k <= j /\ b <= f /\ f < b + Size[j]
  BY DEF FreeFrom
<1>1. PICK b \in bins[j] : k <= j /\ b <= f /\ f < b + Size[j]
  BY <1>01
<1>2. SUFFICES ASSUME j = k PROVE FALSE
  BY <1>0, <1>1 DEF FreeFrom
<1>3. b \in bins[k] /\ b <= f /\ f < b + Size[k] /\ b \in Nat /\ b % Size[k] = 0
  BY <1>1, <1>2, BinBlocks, Zenon
<1> DEFINE c == buddy_of(b, k)
<1>4. /\ c \in Nat
      /\ \/ c = b + Size[k] /\ b % (2 * Size[k]) = 0
         \/ b = c + Size[k] /\ c % (2 * Size[k]) = 0
  BY <1>3, Buddies, Zenon
<1>5. c \notin bins[k]
  BY <1>0, <1>3, SMTT(30) DEF Inv, Merged
<1> HIDE DEF c
<1>6. PICK a \in Nat : /\ a % Size[k + 1] = 0
                       /\ (a = b /\ c = b + Size[k]) \/ (a = c /\ b = c + Size[k])
  BY <1>0, <1>3, <1>4, Zenon
<1>7. base <= a /\ a + 2 * Size[k] <= base + Size[w]
  <2>1. \/ a + Size[k + 1] <= base
        \/ base + Size[w] <= a
        \/ base <= a /\ a + Size[k + 1] <= base + Size[w]
    <3>1. k + 1 <= w
      BY <1>0
    <3> QED
      BY <1>0, <1>6, <3>1, NestedBlocks, Zenon
  <2> QED
    BY <1>0, <1>3, <1>4, <1>6, <2>1, SMTT(30)
<1>08. PICK i \in Orders : \E d \in bins[i] : k <= i /\ d <= c /\ c < d + Size[i]
  <2>1. c \in base .. base + Size[w] - 1
    BY <1>0, <1>3, <1>4, <1>6, <1>7
  <2> QED
    BY <2>1 DEF FreeFrom
<1>8. PICK d \in bins[i] : k <= i /\ d <= c /\ c < d + Size[i]
  BY <1>08
<1>9. /\ d \in Nat /\ d % Size[i] = 0 /\ i \in Nat /\ Size[i] \in Nat \ {0}
      /\ (i = k /\ d = b) \/ d + Size[i] <= b \/ b + Size[k] <= d
  BY <1>0, <1>3, <1>8, BinBlocks, Zenon
<1>10. CASE i = k
  <2>1. c % Size[k] = 0
    <3>1. CASE c = b + Size[k] /\ b % (2 * Size[k]) = 0
      <4>1. (b + Size[k]) % Size[k] = 0
        BY <1>0, <1>3, <3>1, Halves, Zenon
      <4> QED
        BY <3>1, <4>1, Zenon
    <3>2. CASE b = c + Size[k] /\ c % (2 * Size[k]) = 0
      BY <1>0, <1>4, <3>2, Halves, Zenon
    <3> QED
      BY <1>4, <3>1, <3>2, Zenon
  <2>2. \/ c + Size[k] <= d
        \/ d + Size[k] <= c
        \/ d <= c /\ c + Size[k] <= d + Size[k]
    BY <1>4, <1>9, <1>10, <2>1, NestedBlocks, SMTT(30)
  <2>3. d = c
    BY <1>0, <1>4, <1>8, <1>9, <1>10, <2>2
  <2> QED
    BY <1>5, <1>8, <1>10, <2>3
<1>11. CASE i # k
  <2>1. k + 1 <= i
    BY <1>0, <1>8, <1>9, <1>11, SMTT(30)
  <2>2. \/ a + Size[k + 1] <= d
        \/ d + Size[i] <= a
        \/ d <= a /\ a + Size[k + 1] <= d + Size[i]
    BY <1>0, <1>6, <1>9, <2>1, NestedBlocks, Zenon
  <2> QED
    BY <1>0, <1>3, <1>4, <1>6, <1>8, <1>9, <1>11, <2>2, SMTT(30)
<1> QED
  BY <1>10, <1>11

\* An aligned run of which every frame is in a bin is inside one free block.
LEMMA WholeRunFree ==
    ASSUME Inv, NEW w \in Orders, NEW base \in Nat, base % Size[w] = 0,
           \A f \in base .. base + Size[w] - 1 : FreeFrom(f, 0)
    PROVE  FreeFrom(base, w)
<1> DEFINE P(k) == \A f \in base .. base + Size[w] - 1 : FreeFrom(f, k)
           T == { k \in Orders : k <= w /\ ~ P(k) }
<1>1. w \in Nat /\ Size[w] \in Nat \ {0}
  BY Sizes
<1>2. T = {}
  <2>1. SUFFICES ASSUME T # {} PROVE FALSE
    OBVIOUS
  <2>2. T \in SUBSET Nat
    BY Sizes
  <2>3. PICK k \in T : \A y \in T : k <= y
    BY <2>1, <2>2, LeastNatural, ZenonT(30)
  <2>4. k \in Orders /\ k \in Nat /\ k <= w /\ ~ P(k)
    BY <2>3, Sizes
  <2>5. k # 0
    BY <2>4
  <2>6. k - 1 \in Orders /\ k - 1 < w /\ (k - 1) + 1 = k /\ k - 1 \notin T /\ k - 1 <= w
    BY <1>1, <2>3, <2>4, <2>5, OrderAssumption DEF Orders
  <2>7. P(k - 1)
    BY <2>6
  <2>8. P((k - 1) + 1)
    BY <2>6, <2>7, LargerBlocks
  <2> QED
    BY <2>4, <2>6, <2>8
<1>3. P(w)
  BY <1>1, <1>2
<1>4. base \in base .. base + Size[w] - 1
  BY <1>1
<1> QED
  BY <1>3, <1>4

\* alloc reports that memory is exhausted only when it is: no aligned run of the
\* order asked for is free, however the free frames came to be free.
THEOREM ExhaustedWhenItFails == Spec => []FailsOnlyWhenExhausted
<1>1. ASSUME Inv, Searched PROVE FailsOnlyWhenExhausted
  <2>1. SUFFICES ASSUME panicked = "out of memory", search.want <= MAX_ORDER,
                        NEW base \in Usable, base % Size[search.want] = 0,
                        base .. (base + Size[search.want] - 1) \subseteq Usable,
                        \A block \in live :
                            Extent(block) \cap (base .. (base + Size[search.want] - 1)) = {}
                 PROVE  FALSE
    BY Zenon DEF FailsOnlyWhenExhausted
  <2>2. PICK w \in Orders : w = search.want
    <3>1. search.want \in 0 .. MAX_ORDER + 1
      BY <1>1 DEF Inv, Types
    <3>2. search.want <= MAX_ORDER
      BY <2>1, Zenon
    <3>3. search.want \in Orders
      BY <3>1, <3>2, OrderAssumption DEF Orders
    <3> QED
      BY <3>3
  <2>3. /\ boot = {} /\ freeing = {} /\ search.at = "bins"
        /\ \A k \in Orders : w <= k => bins[k] = {}
    <3>1. /\ boot = {} /\ freeing = {} /\ search.at = "bins"
          /\ search.order > MAX_ORDER /\ search.order \in 0 .. MAX_ORDER + 1
          /\ \A k \in Orders : w <= k /\ k < search.order => bins[k] = {}
      BY <1>1, <2>1, <2>2, ZenonT(30) DEF Searched, Inv, Types
    <3>2. \A k \in Orders : k < search.order
      BY <3>1, OrderAssumption DEF Orders
    <3> QED
      BY <3>1, <3>2
  <2>4. base \in Nat /\ w \in Nat /\ Size[w] \in Nat \ {0}
    BY UsableAssumption, Sizes
  <2>5. ASSUME NEW f \in base .. base + Size[w] - 1 PROVE FreeFrom(f, 0)
    <3>0. base .. (base + Size[w] - 1) \subseteq Usable
      BY <2>1, <2>2, ZenonT(30)
    <3>1. f \in Nat /\ f \in Usable
      BY <2>4, <2>5, <3>0
    <3>2. PICK x \in Blocks : Frame(f, x)
      BY <1>1, <3>1, Zenon DEF Inv, Partition
    <3>3. x.base \in Nat /\ x.order \in Orders /\ Size[x.order] \in Nat
      BY <1>1, Sizes, Zenon DEF Inv, Partition
    <3>4. ~ IsLive(x, live)
      <4>1. SUFFICES ASSUME NEW b \in live, x = LiveBlock(b) PROVE FALSE
        BY DEF IsLive
      <4>2. x.base = b.base /\ x.order = b.order
        BY <4>1, Zenon DEF LiveBlock
      <4>3. f \in Extent(b)
        BY <3>1, <3>2, <3>3, <4>2 DEF Extent, Frame
      <4> QED
        BY <2>1, <2>2, <2>5, <4>3, ZenonT(30)
    <3>5. InBin(x, bins)
      BY <2>3, <3>4, InBlocks, Zenon DEF InBoot, IsFreed, IsSought
    <3>6. PICK k \in Orders : \E b \in bins[k] : x = BinBlock(b, k)
      BY <3>5, Zenon DEF InBin
    <3>7. PICK b \in bins[k] : x = BinBlock(b, k)
      BY <3>6
    <3>8. b <= f /\ f < b + Size[k] /\ 0 <= k
      BY <3>2, <3>7, Sizes DEF Frame, BinBlock
    <3> QED
      BY <3>8 DEF FreeFrom
  <2>6. FreeFrom(base, w)
    BY <1>1, <2>1, <2>2, <2>4, <2>5, WholeRunFree, ZenonT(30)
  <2> QED
    BY <2>3, <2>6 DEF FreeFrom
<1>2. ASSUME Init PROVE Searched
  BY <1>2 DEF Init, Searched, Idle
<1> QED
  BY <1>1, <1>2, SearchedKept, PartitionKept, PTL DEF Spec
-----------------------------------------------------------------------------
\* The refinement.

\* What a caller sees of a block it holds.
Run(b) == [base |-> b.base, length |-> Size[b.order], count |-> b.count]

\* Two blocks that callers hold share no frame, so neither do their runs.
LEMMA LiveApart ==
    ASSUME Inv, NEW b \in live, NEW c \in live, b # c
    PROVE  Apart(b, c) /\ b.base # c.base
<1>1. LiveBlock(b) \in Blocks /\ LiveBlock(c) \in Blocks
  BY InBlocks DEF IsLive
<1>2. LiveBlock(b) # LiveBlock(c)
  BY DEF LiveBlock, Inv, Types
<1>3. Apart(LiveBlock(b), LiveBlock(c))
  BY <1>1, <1>2, Zenon DEF Inv, Partition
<1>4. Apart(b, c)
  BY <1>3, Zenon DEF Apart, LiveBlock
<1>5. b.base \in Nat /\ c.base \in Nat /\ Size[b.order] \in Nat \ {0} /\ Size[c.order] \in Nat \ {0}
  BY Sizes DEF Inv, Types
<1> QED
  BY <1>4, <1>5 DEF Apart

\* AllocReturn hands out a run: aligned, long enough, and apart from every other.
LEMMA ReturnHandsOut ==
    ASSUME Inv, AllocReturn PROVE Promise!HandOut
<1> DEFINE block == [base |-> search.base, order |-> search.want, count |-> search.count]
           run == Run(block)
           sought == SoughtBlock(search)
<1>1. search.at = "split" /\ search.order = search.want /\ live' = live \cup {block}
  BY DEF AllocReturn
<1>2. /\ search.base \in Nat /\ search.want \in Orders /\ search.count \in Counts
      /\ Size[search.want] \in Nat \ {0}
      /\ search.count <= Size[search.want]
  BY <1>1, Sizes, CountsAssumption, Zenon DEF Inv, Types, Calls, IsOrderOf
<1>3. sought \in Blocks /\ sought.base = search.base /\ sought.order = search.want
  BY <1>1, InBlocks, Zenon DEF IsSought, SoughtBlock
<1>4. run.base = search.base /\ run.length = Size[search.want] /\ run.count = search.count
  BY Zenon DEF Run
<1>5. run \in Promise!Runs
  <2>1. search.base \in Usable
    BY <1>3, BlocksUsable
  <2> QED
    BY <1>2, <2>1, Zenon DEF Promise!Runs, Run
<1>6. run.count <= run.length /\ run.base % run.length = 0
  BY <1>2, <1>3, <1>4, Zenon DEF Inv, Partition
<1>7. Promise!Extent(run) \subseteq Usable
  BY <1>3, <1>4, BlocksUsable, Zenon DEF Promise!Extent, Extent
<1>8. ASSUME NEW other \in Held PROVE Promise!Extent(run) \cap Promise!Extent(other) = {}
  <2>1. PICK b \in live : other = Run(b)
    BY Zenon DEF Held, Run
  <2>2. LiveBlock(b) \in Blocks /\ LiveBlock(b) # sought
    BY InBlocks, Zenon DEF IsLive, LiveBlock, SoughtBlock
  <2>3. Apart(LiveBlock(b), sought)
    BY <1>3, <2>2, Zenon DEF Inv, Partition
  <2>4. b.base \in Nat /\ Size[b.order] \in Nat
    BY Sizes DEF Inv, Types
  <2>5. \/ b.base + Size[b.order] <= search.base
        \/ search.base + Size[search.want] <= b.base
    BY <1>3, <2>3, Zenon DEF Apart, LiveBlock
  <2>6. other.base = b.base /\ other.length = Size[b.order]
    BY <2>1 DEF Run
  <2> HIDE DEF run, block
  <2> QED
    BY <1>2, <1>4, <2>4, <2>5, <2>6, SMTT(30) DEF Promise!Extent
<1>9. Held' = Held \cup {run}
  BY <1>1, ZenonT(30) DEF Held, Run
<1> QED
  BY <1>5, <1>6, <1>7, <1>8, <1>9, Zenon DEF Promise!HandOut

\* Free takes exactly the caller's run back, or panics and takes nothing.
LEMMA FreeTakesBack ==
    ASSUME Inv, NEW block \in live, Free(block) PROVE Promise!TakeBack \/ Held' = Held
<1>1. CASE live' = live
  BY <1>1, Zenon DEF Held
<1>2. CASE live' = live \ {block}
  <2>1. Run(block) \in Held
    BY Zenon DEF Held, Run
  <2>2. \A b \in live : b # block => Run(b) # Run(block)
    BY LiveApart, Zenon DEF Run
  <2>3. Held = { Run(b) : b \in live } /\ Held' = { Run(b) : b \in live' }
    BY Zenon DEF Held, Run
  <2>4. Held' = Held \ {Run(block)}
    BY <1>2, <2>2, <2>3
  <2> QED
    BY <2>1, <2>4 DEF Promise!TakeBack
<1> QED
  BY <1>1, <1>2, ZenonT(30) DEF Free

\* The buddy allocator implements what the memory manager promises: every run it
\* hands out is aligned, as long as was asked for and its caller's alone until
\* that caller gives it back.
THEOREM PromiseKept == Spec => KeepsPromise
<1>1. ASSUME Init PROVE Promise!Init
  BY <1>1 DEF Init, Held, Promise!Init
<1>2. ASSUME Inv, [Next]_vars PROVE [Promise!Next]_Held
  <2>1. CASE AllocReturn
    BY <1>2, <2>1, ReturnHandsOut DEF Promise!Next
  <2>2. CASE \E block \in live : Free(block)
    BY <1>2, <2>2, FreeTakesBack DEF Promise!Next
  <2>3. CASE live' = live
    BY <2>3 DEF Held
  <2>4. AllocReturn \/ (\E block \in live : Free(block)) \/ live' = live
    BY <1>2, Zenon DEF Next, vars, FreeRange, Alloc, AllocateBlockLarger, AllocateBlockTake,
                AllocateBlockNone, AllocateBlockSplit, FreeBlockCoalesce, FreeBlockInsert
  <2> QED
    BY <2>1, <2>2, <2>3, <2>4
<1> QED
  BY <1>1, <1>2, PartitionKept, PTL DEF Spec, KeepsPromise, Promise!Spec
=============================================================================
