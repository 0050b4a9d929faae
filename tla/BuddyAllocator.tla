--------------------------- MODULE BuddyAllocator ---------------------------
(***************************************************************************)
(* The kernel's physical memory manager: `Pmm` and the buddy allocator it  *)
(* wraps (kernel/src/pmm).  Addresses are counted in frames of BASE_SIZE.  *)
(*                                                                         *)
(* Every call is made under the Spinlock of `Pmm`, so calls never overlap. *)
(* The two recursive functions are modelled one level per step: `search`   *)
(* is the activation of allocate_block and `freeing` that of free_block,   *)
(* and while one is in progress nothing else happens.                      *)
(***************************************************************************)
EXTENDS Integers, FiniteSets

CONSTANTS
    MAX_ORDER,  \* the largest order a bin holds
    Size,       \* Size[k] is the length in frames of a block of order k
    Usable,     \* the frames of the `Usable` entries of the memory map
    Counts      \* the numbers of frames callers ask for

Orders == 0 .. MAX_ORDER

ASSUME OrderAssumption == MAX_ORDER \in Nat

ASSUME SizeAssumption ==
    /\ Size \in [Orders -> Nat]
    /\ Size[0] = 1
    /\ \A k \in Orders : k < MAX_ORDER => Size[k + 1] = 2 * Size[k]
    /\ \A j, k \in Orders : j <= k => Size[j] <= Size[k]

ASSUME UsableAssumption == Usable \subseteq Nat

ASSUME CountsAssumption == Counts \subseteq Nat

VARIABLES
    bins,       \* bins[k]: the bases of the free blocks of order k
    boot,       \* the usable frames Pmm::new has not freed into the bins yet
    live,       \* the blocks callers hold: [base, order, count]
    search,     \* the activation of allocate_block: [at, base, order, want, count]
    freeing,    \* the activation of free_block: a set of at most one [base, order]
    panicked    \* why the kernel panicked, "no" while it has not

vars == <<bins, boot, live, search, freeing, panicked>>

-----------------------------------------------------------------------------

\* The XOR flips the bit of the address that belongs to the order.
buddy_of(start, order) ==
    IF (start \div Size[order]) % 2 = 0 THEN start + Size[order]
                                        ELSE start - Size[order]

Lesser(a, b) == IF a < b THEN a ELSE b

\* next_power_of_two().trailing_zeros(): the smallest order whose blocks hold
\* `count` frames; one past the last order stands for every larger one.
IsOrderOf(count, order) ==
    /\ order \in 0 .. MAX_ORDER + 1
    /\ order <= MAX_ORDER => Size[order] >= count
    /\ order > 0 => Size[order - 1] < count

is_power_of_two(count) == \E k \in Orders : Size[k] = count

Idle == [at |-> "idle", base |-> 0, order |-> 0, want |-> 0, count |-> 0]

Quiet == search.at = "idle" /\ freeing = {} /\ panicked = "no"

Init ==
    /\ bins = [k \in Orders |-> {}]
    /\ boot = Usable
    /\ live = {}
    /\ search = Idle
    /\ freeing = {}
    /\ panicked = "no"

-----------------------------------------------------------------------------

\* Pmm::new and free_range: the usable frames are freed one by one, in
\* ascending order, before anything can be allocated.
FreeRange ==
    /\ Quiet
    /\ \E frame \in boot :
        /\ \A other \in boot : frame <= other
        /\ boot' = boot \ {frame}
        /\ freeing' = {[base |-> frame, order |-> 0]}
    /\ UNCHANGED <<bins, live, search, panicked>>

\* Pmm::alloc, allocate_n and BuddyAllocator::alloc.
Alloc(count) ==
    /\ Quiet
    /\ boot = {}
    /\ \E order \in 0 .. MAX_ORDER + 1 :
        /\ IsOrderOf(count, order)
        /\ search' = [at |-> "bins", base |-> 0, order |-> order,
                      want |-> order, count |-> count]
    /\ UNCHANGED <<bins, boot, live, freeing, panicked>>

\* Mutant of AllocateBlockLarger: it looks into the same bin again.
LargerSameOrder ==
    /\ search.at = "bins"
    /\ panicked = "no"
    /\ search.order <= MAX_ORDER
    /\ bins[search.order] = {}
    /\ UNCHANGED vars

\* allocate_block finds the bin of this order empty and tries the next one.
AllocateBlockLarger ==
    /\ search.at = "bins"
    /\ panicked = "no"
    /\ search.order <= MAX_ORDER
    /\ bins[search.order] = {}
    /\ search' = [search EXCEPT !.order = @ + 1]
    /\ UNCHANGED <<bins, boot, live, freeing, panicked>>

\* allocate_block takes the block with the lowest address in the bin.
AllocateBlockTake ==
    /\ search.at = "bins"
    /\ panicked = "no"
    /\ search.order <= MAX_ORDER
    /\ \E block \in bins[search.order] :
        /\ \A other \in bins[search.order] : block <= other
        /\ bins' = [bins EXCEPT ![search.order] = @ \ {block}]
        /\ search' = [search EXCEPT !.at = "split", !.base = block]
    /\ UNCHANGED <<boot, live, freeing, panicked>>

\* allocate_block returns None above the largest order, and `expect` panics.
AllocateBlockNone ==
    /\ search.at = "bins"
    /\ panicked = "no"
    /\ search.order > MAX_ORDER
    /\ panicked' = "out of memory"
    /\ UNCHANGED <<bins, boot, live, search, freeing>>

\* Returning from the recursion one order up: free the second half.
AllocateBlockSplit ==
    /\ search.at = "split"
    /\ panicked = "no"
    /\ freeing = {}
    /\ search.order > search.want
    /\ freeing' = {[base |-> buddy_of(search.base, search.order - 1),
                    order |-> search.order - 1]}
    /\ search' = [search EXCEPT !.order = @ - 1]
    /\ UNCHANGED <<bins, boot, live, panicked>>

\* The outermost allocate_block returns the block to the caller.
AllocReturn ==
    /\ search.at = "split"
    /\ panicked = "no"
    /\ freeing = {}
    /\ search.order = search.want
    /\ live' = live \cup {[base |-> search.base, order |-> search.want,
                           count |-> search.count]}
    /\ search' = Idle
    /\ UNCHANGED <<bins, boot, freeing, panicked>>

\* Pmm::free, free_n and BuddyAllocator::free: a caller gives back what it was
\* given, with the number of frames it asked for.
Free(block) ==
    /\ Quiet
    /\ IF is_power_of_two(block.count)
         THEN /\ live' = live \ {block}
              /\ \E order \in 0 .. MAX_ORDER + 1 :
                    /\ IsOrderOf(block.count, order)
                    /\ freeing' = {[base |-> block.base, order |-> order]}
              /\ UNCHANGED panicked
         ELSE /\ panicked' = "count is not a power of two"
              /\ UNCHANGED <<live, freeing>>
    /\ UNCHANGED <<bins, boot, search>>

\* Mutant of FreeBlockCoalesce: the merged block starts at the freed half.
CoalesceFromStart ==
    /\ panicked = "no"
    /\ \E block \in freeing :
        LET buddy == buddy_of(block.base, block.order) IN
        /\ block.order < MAX_ORDER
        /\ buddy \in bins[block.order]
        /\ bins' = [bins EXCEPT ![block.order] = @ \ {buddy}]
        /\ freeing' = {[base |-> block.base, order |-> block.order + 1]}
    /\ UNCHANGED <<boot, live, search, panicked>>

\* free_block: the buddy is free too, so the two become one block.
FreeBlockCoalesce ==
    /\ panicked = "no"
    /\ \E block \in freeing :
        LET buddy == buddy_of(block.base, block.order) IN
        /\ block.order < MAX_ORDER
        /\ buddy \in bins[block.order]
        /\ bins' = [bins EXCEPT ![block.order] = @ \ {buddy}]
        /\ freeing' = {[base |-> Lesser(block.base, buddy),
                        order |-> block.order + 1]}
    /\ UNCHANGED <<boot, live, search, panicked>>

\* Mutant of FreeBlockInsert: the buddy is not looked for.
InsertWithoutMerging ==
    /\ panicked = "no"
    /\ \E block \in freeing :
        /\ block.base \notin bins[block.order]
        /\ bins' = [bins EXCEPT ![block.order] = @ \cup {block.base}]
        /\ freeing' = {}
    /\ UNCHANGED <<boot, live, search, panicked>>

\* free_block: there is nothing to merge with, so the block goes in its bin.
FreeBlockInsert ==
    /\ panicked = "no"
    /\ \E block \in freeing :
        /\ \/ block.order = MAX_ORDER
           \/ buddy_of(block.base, block.order) \notin bins[block.order]
        /\ IF block.base \in bins[block.order]
             THEN /\ panicked' = "block is already free"
                  /\ UNCHANGED <<bins, freeing>>
             ELSE /\ bins' = [bins EXCEPT ![block.order] = @ \cup {block.base}]
                  /\ freeing' = {}
                  /\ UNCHANGED panicked
    /\ UNCHANGED <<boot, live, search>>

Next ==
    \/ FreeRange
    \/ \E count \in Counts : Alloc(count)
    \/ AllocateBlockLarger
    \/ AllocateBlockTake
    \/ AllocateBlockNone
    \/ AllocateBlockSplit
    \/ AllocReturn
    \/ \E block \in live : Free(block)
    \/ FreeBlockCoalesce
    \/ FreeBlockInsert

Spec == Init /\ [][Next]_vars

\* A call runs to its end: the caller spins on nothing but the allocator itself.
Call ==
    \/ AllocateBlockLarger
    \/ AllocateBlockTake
    \/ AllocateBlockNone
    \/ AllocateBlockSplit
    \/ AllocReturn
    \/ FreeBlockCoalesce
    \/ FreeBlockInsert

FairSpec == Spec /\ WF_vars(Call)

-----------------------------------------------------------------------------

\* Every block there is, tagged with where it is.
BinBlock(b, k) == [own |-> "bin", base |-> b, order |-> k, count |-> 0]
BootBlock(f) == [own |-> "boot", base |-> f, order |-> 0, count |-> 0]
LiveBlock(b) == [own |-> "live", base |-> b.base, order |-> b.order, count |-> b.count]
FreedBlock(b) == [own |-> "freeing", base |-> b.base, order |-> b.order, count |-> 0]
SoughtBlock(s) == [own |-> "search", base |-> s.base, order |-> s.order, count |-> 0]

Blocks ==
    (UNION { { BinBlock(b, k) : b \in bins[k] } : k \in Orders })
    \cup { BootBlock(f) : f \in boot }
    \cup { LiveBlock(b) : b \in live }
    \cup { FreedBlock(b) : b \in freeing }
    \cup IF search.at = "split" THEN {SoughtBlock(search)} ELSE {}

Extent(block) == block.base .. (block.base + Size[block.order] - 1)

Apart(x, y) ==
    \/ x.base + Size[x.order] <= y.base
    \/ y.base + Size[y.order] <= x.base

Held == { [base |-> b.base, length |-> Size[b.order], count |-> b.count] : b \in live }

Promise == INSTANCE FrameOwnership WITH
    held <- Held,
    RunLengths <- { Size[k] : k \in Orders }

-----------------------------------------------------------------------------

\* Type correctness of the allocator's state.
TypeOK ==
    /\ bins \in [Orders -> SUBSET Usable]
    /\ boot \in SUBSET Usable
    /\ live \in SUBSET [base : Usable, order : Orders, count : Counts]
    /\ search \in [at : {"idle", "bins", "split"}, base : Nat, order : 0 .. MAX_ORDER + 1,
                   want : 0 .. MAX_ORDER + 1, count : Nat]
    /\ search.at = "split" =>
         /\ search.base \in Usable
         /\ search.order \in Orders
         /\ search.want <= search.order
         /\ search.count \in Counts
    /\ freeing \in SUBSET [base : Usable, order : Orders]
    /\ panicked \in {"no", "out of memory", "block is already free",
                     "count is not a power of two"}

\* No frame is in two blocks at once: neither two callers, nor a caller and a
\* bin, nor two bins ever share a frame, at any point of any split or merge.
BlocksDisjoint ==
    \A x, y \in Blocks : x = y \/ Apart(x, y)

\* No frame is lost and none is invented: at every point the blocks cover
\* exactly the frames the memory map called usable.
FramesConserved ==
    UNION { Extent(x) : x \in Blocks } = Usable

\* The assertion in free_block that the block is not in its bin already never
\* fires, so long as callers give back only what they hold.
NeverFreedTwice ==
    panicked # "block is already free"

\* Between calls no block and its buddy are both free: free_block always
\* merges them, so memory given back becomes large blocks again.
Coalesced ==
    freeing = {} =>
        \A k \in Orders : \A b \in bins[k] :
            k < MAX_ORDER => buddy_of(b, k) \notin bins[k]

\* alloc fails only when it has to: if it reports that memory is exhausted, no
\* naturally aligned run of free frames would hold a block of the order asked.
FailsOnlyWhenExhausted ==
    (panicked = "out of memory" /\ search.want <= MAX_ORDER) =>
        \A base \in Usable :
            base % Size[search.want] = 0 =>
                LET run == base .. (base + Size[search.want] - 1) IN
                run \subseteq Usable =>
                    \E block \in live : Extent(block) \cap run # {}

\* The allocator keeps the promise of the memory manager: each caller gets an
\* aligned run at least as long as it asked for, alone, until it frees it.
KeepsPromise == Promise!Spec

\* Every alloc and free returns (or panics): the recursion of allocate_block
\* and free_block always comes to an end.
CallsReturn ==
    (search.at # "idle" \/ freeing # {}) ~> (Quiet \/ panicked # "no")
=============================================================================
