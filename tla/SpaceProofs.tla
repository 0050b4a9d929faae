---------------------------- MODULE SpaceProofs -----------------------------
(***************************************************************************)
(* Proofs about address spaces and stacks, for every layout of memory and  *)
(* every sequence of system calls.                                         *)
(*                                                                         *)
(* The argument: page tables only ever gain pages, because nothing unmaps  *)
(* one; a slot that is taken stays taken; and the counter of the kernel's  *)
(* dynamic area is ahead of all that is mapped there, so that a new stack  *)
(* and the guard page under it lie beyond every earlier one.  For memory   *)
(* objects: a mapping that succeeded showed all the pieces of its object,  *)
(* and a piece that an object gains moves none of the earlier ones.        *)
(***************************************************************************)
EXTENDS AddressSpaces, WellFoundedInduction, TLAPS

-----------------------------------------------------------------------------
\* Numbers.

\* A set of numbers that is not empty has a least one.
LEMMA LeastNumber ==
    ASSUME NEW T \in SUBSET Nat, T # {}
    PROVE  \E x \in T : \A y \in T : x <= y
<1>1. IsWellFoundedOn(OpToRel(<, Nat), Nat)
  BY NatLessThanWellFounded, Zenon
<1>2. PICK x \in T : \A y \in T : ~ (<<y, x>> \in OpToRel(<, Nat))
  BY <1>1, WFMin, Zenon
<1>3. \A y \in T : ~(y < x)
  BY <1>2, Zenon DEF OpToRel
<1> QED
  BY <1>3

\* Bitmap::alloc returns a bit that was free.
LEMMA FreeBit ==
    ASSUME NEW slots, FreeBits(slots) # {}
    PROVE  alloc_bit(slots) \in FreeBits(slots)
<1>1. FreeBits(slots) \in SUBSET Nat
  BY SlotAssumption DEF FreeBits
<1>2. \E i \in FreeBits(slots) : \A j \in FreeBits(slots) : i <= j
  BY <1>1, LeastNumber
<1> QED
  BY <1>2 DEF alloc_bit

\* The stack of a slot lies above the pages for objects.
LEMMA BottomAbove ==
    ASSUME NEW slot \in 0 .. SlotBits - 2
    PROVE  StackBottom(slot) \in Nat /\ StackBase < StackBottom(slot)
<1>1. slot \in Nat
  BY SlotAssumption
<1>2. PICK c \in Nat : c = slot * SlotPages
  BY <1>1, SlotAssumption
<1>3. (slot + 1) * SlotPages = c + SlotPages
  BY <1>1, <1>2, SlotAssumption
<1> QED
  BY <1>2, <1>3, SlotAssumption DEF StackBottom

\* The stack of a slot lies in the pages of an address space.
LEMMA StackInSpace ==
    ASSUME NEW slot \in 0 .. SlotBits - 2, NEW i \in 0 .. StackPages - 1
    PROVE  StackBottom(slot) \in Nat /\ StackBottom(slot) + i \in AllPages
<1>1. PICK d \in Nat : SlotBits = (slot + 1) + d
  <2>1. SlotBits - (slot + 1) \in Nat /\ SlotBits = (slot + 1) + (SlotBits - (slot + 1))
    BY SlotAssumption
  <2> QED
    BY <2>1, Zenon
<1>2. PICK a \in Nat : a = (slot + 1) * SlotPages
  BY SlotAssumption
<1>3. PICK b \in Nat : b = d * SlotPages
  BY SlotAssumption
<1>4. SlotBits * SlotPages = a + b
  BY <1>1, <1>2, <1>3, SlotAssumption
<1>5. a >= SlotPages
  <2>1. PICK c \in Nat : c = slot * SlotPages
    BY SlotAssumption
  <2>2. a = c + SlotPages
    BY <1>2, <2>1, SlotAssumption
  <2> QED
    BY <2>1, <2>2, SlotAssumption
<1>6. StackBottom(slot) = StackBase + a - StackPages
  BY <1>2 DEF StackBottom
<1> QED
  BY <1>4, <1>5, <1>6, SlotAssumption DEF AllPages

-----------------------------------------------------------------------------
\* Page tables gain pages.

\* What a page table shows: a frame, or none, for every page.
Views == [AllPages -> Nat]

\* What was mapped stays mapped.
Grew(view, later) == \A page \in AllPages : view[page] # NoFrame => later[page] # NoFrame

\* What a page that was mapped shows stays the same.
Kept(view, later) == \A page \in AllPages : view[page] # NoFrame => later[page] = view[page]

\* Showing frames at a row of pages.
LEMMA ShowGrows ==
    ASSUME NEW view \in Views, NEW v \in Nat, NEW frame \in Nat \ {0}, NEW n \in Nat
    PROVE  /\ Show(view, v, frame, n) \in Views
           /\ Grew(view, Show(view, v, frame, n))
           /\ \A i \in 0 .. n - 1 : v + i \in AllPages =>
                  Show(view, v, frame, n)[v + i] # NoFrame
<1>1. \A page \in AllPages : page \in Nat
  BY SlotAssumption DEF AllPages
<1> QED
  BY <1>1 DEF Show, Views, Grew, NoFrame

\* map_area, whether it succeeds or meets a page that is mapped already.
AreaResult(view, v, frame, n, m) ==
    /\ m.view \in Views /\ m.ok \in BOOLEAN
    /\ Grew(view, m.view) /\ Kept(view, m.view)
    /\ m.ok => \A i \in 0 .. n - 1 : v + i \in AllPages => /\ m.view[v + i] = frame + i
                                                           /\ m.view[v + i] # NoFrame

\* Whatever map_area meets, the pages that were mapped keep their frames.
LEMMA AreaGrows ==
    ASSUME NEW view \in Views, NEW v \in Nat, NEW frame \in Nat \ {0}, NEW n \in Nat,
           NEW m \in area_results(view, v, frame, n)
    PROVE  AreaResult(view, v, frame, n, m)
<1> DEFINE used == { i \in 0 .. n - 1 : view[v + i] # NoFrame }
<1>0. ASSUME NEW k \in 0 .. n, \A i \in used : k <= i
      PROVE  /\ Kept(view, Show(view, v, frame, k))
             /\ \A i \in 0 .. k - 1 : v + i \in AllPages =>
                    Show(view, v, frame, k)[v + i] = frame + i
  <2>1. \A page \in AllPages : page \in Nat
    BY SlotAssumption DEF AllPages
  <2>2. \A page \in AllPages : Show(view, v, frame, k)[page] =
            IF page \in v .. v + k - 1 THEN frame + page - v ELSE view[page]
    BY DEF Show, Views
  <2>3. ASSUME NEW page \in AllPages, page \in v .. v + k - 1 PROVE view[page] = NoFrame
    <3>1. page - v \in 0 .. n - 1 /\ v + (page - v) = page /\ ~ (k <= page - v)
      BY <2>1, <2>3
    <3> QED
      BY <1>0, <3>1
  <2>4. Kept(view, Show(view, v, frame, k))
    BY <2>2, <2>3 DEF Kept
  <2>5. ASSUME NEW i \in 0 .. k - 1, v + i \in AllPages
        PROVE  Show(view, v, frame, k)[v + i] = frame + i
    <3>1. v + i \in v .. v + k - 1 /\ frame + (v + i) - v = frame + i
      OBVIOUS
    <3> QED
      BY <2>2, <2>5, <3>1
  <2> QED
    BY <2>4, <2>5
<1>1. CASE used = {} /\ m = [view |-> Show(view, v, frame, n), ok |-> TRUE]
  <2>1. m.view = Show(view, v, frame, n) /\ m.ok = TRUE
    BY <1>1
  <2>2. n \in 0 .. n /\ \A i \in used : n <= i
    <3>1. used = {}
      BY <1>1
    <3> HIDE DEF used
    <3> QED
      BY <3>1
  <2>3. /\ Kept(view, m.view)
        /\ \A i \in 0 .. n - 1 : v + i \in AllPages => m.view[v + i] = frame + i
    BY <1>0, <2>1, <2>2
  <2>4. /\ Show(view, v, frame, n) \in Views /\ Grew(view, Show(view, v, frame, n))
        /\ \A i \in 0 .. n - 1 : v + i \in AllPages => Show(view, v, frame, n)[v + i] # NoFrame
    BY ShowGrows, Zenon
  <2> HIDE DEF used
  <2> QED
    BY <2>1, <2>3, <2>4, Zenon DEF AreaResult
<1>2. CASE \E k \in 0 .. n : /\ \A i \in used : k <= i
                             /\ m = [view |-> Show(view, v, frame, k), ok |-> FALSE]
  <2>1. PICK k \in 0 .. n : /\ \A i \in used : k <= i
                            /\ m = [view |-> Show(view, v, frame, k), ok |-> FALSE]
    BY <1>2, Zenon
  <2>2. k \in Nat /\ m.view = Show(view, v, frame, k) /\ m.ok = FALSE
    BY <2>1
  <2>3. Kept(view, m.view)
    BY <1>0, <2>1, <2>2
  <2> HIDE DEF used
  <2> QED
    BY <2>2, <2>3, ShowGrows, ZenonT(30) DEF AreaResult
<1> QED
  BY <1>1, <1>2 DEF area_results

\* It always has a result.
LEMMA AreaHasResult ==
    ASSUME NEW view, NEW v, NEW frame, NEW n \in Nat
    PROVE  area_results(view, v, frame, n) # {}
<1> DEFINE used == { i \in 0 .. n - 1 : view[v + i] # NoFrame }
<1>1. 0 \in { k \in 0 .. n : \A i \in used : k <= i }
  OBVIOUS
<1>2. CASE used = {}
  BY <1>2, Zenon DEF area_results
<1>3. CASE used # {}
  BY <1>1, <1>3, Zenon DEF area_results
<1> QED
  BY <1>2, <1>3

-----------------------------------------------------------------------------
\* map_memory_object.

\* The types of the records: the mappings, address spaces and memory objects.
Mappings == UNION { [D -> Nat] : D \in SUBSET Nat }

SpaceSet ==
    [view : Views, mappings : Mappings, slots : SUBSET (0 .. SlotBits - 2), top : SUBSET Nat]

Backings == Seq((Nat \ {0}) \X Nat)

ObjectSet == [size : Nat, backing : Backings]

\* What the recursive definition of Below comes to.
LEMMA BelowSums ==
    ASSUME NEW b \in Backings
    PROVE  /\ Below(b)[0] = 0
           /\ \A k \in 1 .. Len(b) : Below(b)[k] = Below(b)[k - 1] + b[k][2]
<1> DEFINE Is(a, j) == a = [k \in 0 .. j |-> IF k = 0 THEN 0 ELSE a[k - 1] + b[k][2]]
           sum == CHOOSE a : Is(a, Len(b))
           T == { j \in Nat : ~ \E a : Is(a, j) }
<1>1. Below(b) = sum
  BY Zenon DEF Below
<1>2. Len(b) \in Nat
  BY DEF Backings
<1>3. Is(sum, Len(b))
  <2>1. SUFFICES ASSUME T # {} PROVE FALSE
    BY <1>2, Zenon
  <2>2. PICK j \in T : \A y \in T : j <= y
    BY <2>1, LeastNumber, Zenon
  <2>3. CASE j = 0
    <3> DEFINE c == [k \in 0 .. 0 |-> 0]
    <3>1. Is(c, 0)
      OBVIOUS
    <3> QED
      BY <2>2, <2>3, <3>1, Zenon
  <2>4. CASE j # 0
    <3>1. j - 1 \in Nat /\ j - 1 \notin T /\ j \in Nat
      <4>1. j \in Nat
        BY <2>2
      <4>2. j - 1 \in Nat /\ ~ (j <= j - 1)
        BY <2>4, <4>1
      <4> HIDE DEF T
      <4> QED
        BY <2>2, <4>1, <4>2
    <3>2. PICK a : Is(a, j - 1)
      BY <3>1
    <3> DEFINE c == [k \in 0 .. j |-> IF k = j THEN a[j - 1] + b[j][2] ELSE a[k]]
    <3>3. \A k \in 0 .. j - 1 : c[k] = a[k]
      BY <3>1
    <3>4. ASSUME NEW k \in 0 .. j
          PROVE  c[k] = IF k = 0 THEN 0 ELSE c[k - 1] + b[k][2]
      <4>1. CASE k = j
        <5>1. c[k] = a[j - 1] + b[j][2] /\ c[j - 1] = a[j - 1]
          BY <3>1, <3>3, <4>1
        <5> QED
          BY <2>4, <4>1, <5>1
      <4>2. CASE k # j
        <5>1. k \in 0 .. j - 1
          BY <3>1, <4>2
        <5>2. a[k] = IF k = 0 THEN 0 ELSE a[k - 1] + b[k][2]
          BY <3>2, <5>1
        <5>3. k # 0 => c[k - 1] = a[k - 1]
          BY <3>1, <3>3, <5>1
        <5>4. c[k] = a[k]
          BY <3>3, <5>1
        <5> HIDE DEF c
        <5> QED
          BY <5>2, <5>3, <5>4
      <4> QED
        BY <4>1, <4>2
    <3>5. c = [k \in 0 .. j |-> c[k]]
      OBVIOUS
    <3> HIDE DEF c
    <3>6. Is(c, j)
      BY <3>4, <3>5, Zenon
    <3> QED
      BY <2>2, <3>6
  <2> QED
    BY <2>3, <2>4
<1> HIDE DEF sum
<1> QED
  BY <1>1, <1>2, <1>3

\* The sums are numbers and do not decrease.
LEMMA BelowGrows ==
    ASSUME NEW b \in Backings
    PROVE  /\ \A k \in 0 .. Len(b) : Below(b)[k] \in Nat
           /\ \A k \in 0 .. Len(b) : Below(b)[k] <= Below(b)[Len(b)]
<1>0. Len(b) \in Nat /\ \A k \in 1 .. Len(b) : b[k][2] \in Nat
  BY DEF Backings
<1>1. \A k \in 0 .. Len(b) : Below(b)[k] \in Nat
  <2> DEFINE T == { k \in 0 .. Len(b) : Below(b)[k] \notin Nat }
  <2>1. SUFFICES ASSUME T # {} PROVE FALSE
    OBVIOUS
  <2>2. PICK k \in T : \A y \in T : k <= y
    <3>1. T \in SUBSET Nat
      BY <1>0
    <3> QED
      BY <2>1, <3>1, LeastNumber, Zenon
  <2>3. k # 0
    BY <2>2, BelowSums
  <2>4. k \in 1 .. Len(b) /\ k - 1 \in 0 .. Len(b) /\ k - 1 \notin T
    BY <1>0, <2>2, <2>3
  <2>5. Below(b)[k - 1] \in Nat
    BY <2>4
  <2>6. Below(b)[k] \in Nat
    BY <1>0, <2>4, <2>5, BelowSums, SMTT(30)
  <2> QED
    BY <2>2, <2>6
<1>2. \A k \in 0 .. Len(b) : Below(b)[k] <= Below(b)[Len(b)]
  <2> DEFINE T == { d \in 0 .. Len(b) : ~ (Below(b)[Len(b) - d] <= Below(b)[Len(b)]) }
  <2>1. T = {}
    <3>1. SUFFICES ASSUME T # {} PROVE FALSE
      OBVIOUS
    <3>2. PICK d \in T : \A y \in T : d <= y
      <4>1. T \in SUBSET Nat
        BY <1>0
      <4> QED
        BY <3>1, <4>1, LeastNumber, Zenon
    <3>3. d # 0
      BY <1>0, <1>1, <3>2
    <3>4. d \in 0 .. Len(b) /\ d - 1 \in 0 .. Len(b) /\ d - 1 \notin T
      <4>1. d \in 0 .. Len(b)
        BY <3>2
      <4>2. d - 1 \in 0 .. Len(b) /\ ~ (d <= d - 1)
        BY <1>0, <3>3, <4>1
      <4> HIDE DEF T
      <4> QED
        BY <3>2, <4>1, <4>2
    <3>5. Below(b)[Len(b) - (d - 1)] <= Below(b)[Len(b)]
      BY <3>4
    <3>6. PICK k \in 1 .. Len(b) : k = Len(b) - (d - 1)
      <4>1. Len(b) - (d - 1) \in 1 .. Len(b)
        BY <1>0, <3>3, <3>4
      <4> QED
        BY <4>1
    <3>7. k - 1 = Len(b) - d /\ k - 1 \in 0 .. Len(b)
      BY <1>0, <3>4, <3>6
    <3>8. Below(b)[k] = Below(b)[k - 1] + b[k][2]
      BY BelowSums
    <3>9. Below(b)[k - 1] <= Below(b)[k]
      BY <1>0, <1>1, <3>7, <3>8, SMTT(30)
    <3> QED
      BY <1>0, <1>1, <3>2, <3>5, <3>6, <3>7, <3>9
  <2>2. ASSUME NEW k \in 0 .. Len(b) PROVE Below(b)[k] <= Below(b)[Len(b)]
    <3>1. Len(b) - k \in 0 .. Len(b) /\ Len(b) - (Len(b) - k) = k
      BY <1>0
    <3> QED
      BY <2>1, <3>1, Zenon
  <2> QED
    BY <2>2
<1> QED
  BY <1>1, <1>2

\* c is b and one more piece, before which nothing changes.
PieceAdded(b, x, c) ==
    /\ c \in Backings /\ Len(c) = Len(b) + 1 /\ c[Len(b) + 1] = x
    /\ \A k \in 1 .. Len(b) : c[k] = b[k]
    /\ \A k \in 0 .. Len(b) : Below(c)[k] = Below(b)[k]
    /\ Below(c)[Len(b) + 1] = Below(b)[Len(b)] + x[2]

\* So it is when a piece is appended.
LEMMA BelowAdded ==
    ASSUME NEW b \in Backings, NEW x \in (Nat \ {0}) \X Nat
    PROVE  PieceAdded(b, x, Append(b, x))
<1> DEFINE c == Append(b, x)
<1>1. /\ c \in Backings /\ Len(c) = Len(b) + 1 /\ c[Len(b) + 1] = x /\ Len(b) \in Nat
      /\ \A k \in 1 .. Len(b) : c[k] = b[k]
  BY DEF Backings
<1> HIDE DEF c
<1> DEFINE T == { k \in 0 .. Len(b) : Below(c)[k] # Below(b)[k] }
<1>2. T = {}
  <2>1. SUFFICES ASSUME T # {} PROVE FALSE
    OBVIOUS
  <2>2. PICK k \in T : \A y \in T : k <= y
    <3>1. T \in SUBSET Nat
      BY <1>1
    <3> QED
      BY <2>1, <3>1, LeastNumber, Zenon
  <2>3. k # 0
    BY <1>1, <2>2, BelowSums
  <2>4. /\ k \in 1 .. Len(b) /\ k \in 1 .. Len(c)
        /\ k - 1 \in 0 .. Len(b) /\ k - 1 \notin T
    BY <1>1, <2>2, <2>3
  <2>5. Below(c)[k - 1] = Below(b)[k - 1]
    BY <2>4
  <2>6. Below(c)[k] = Below(b)[k]
    BY <1>1, <2>4, <2>5, BelowSums, SMTT(30)
  <2> QED
    BY <2>2, <2>6
<1>3. Below(c)[Len(b) + 1] = Below(b)[Len(b)] + x[2]
  <2>1. Len(b) + 1 \in 1 .. Len(c) /\ (Len(b) + 1) - 1 = Len(b) /\ Len(b) \in 0 .. Len(b)
    BY <1>1
  <2>2. Below(c)[Len(b) + 1] = Below(c)[(Len(b) + 1) - 1] + c[Len(b) + 1][2]
    BY <1>1, <2>1, BelowSums, Zenon
  <2>3. Below(c)[Len(b)] = Below(b)[Len(b)]
    BY <1>2, <2>1
  <2> QED
    BY <1>1, <2>1, <2>2, <2>3
<1>4. PieceAdded(b, x, c)
  BY <1>1, <1>2, <1>3 DEF PieceAdded
<1> QED
  BY <1>4 DEF c

\* One more mapping is recorded.
LEMMA MappingAdded ==
    ASSUME NEW f \in Mappings, NEW v \in Nat, NEW id \in Nat
    PROVE  [p \in DOMAIN f \cup {v} |-> IF p = v THEN id ELSE f[p]] \in Mappings
<1>1. PICK D \in SUBSET Nat : f \in [D -> Nat]
  BY DEF Mappings
<1> DEFINE g == [p \in DOMAIN f \cup {v} |-> IF p = v THEN id ELSE f[p]]
<1>2. g \in [D \cup {v} -> Nat] /\ D \cup {v} \in SUBSET Nat
  BY <1>1
<1> HIDE DEF g
<1>3. g \in Mappings
  BY <1>2 DEF Mappings
<1> QED
  BY <1>3 DEF g

\* The first n pieces of an object's memory are to be seen from page v on.
Shown(view, v, b, n) ==
    \A j \in 1 .. n : \A i \in 0 .. b[j][2] - 1 :
        v + Below(b)[j - 1] + i \in AllPages => view[v + Below(b)[j - 1] + i] = b[j][1] + i

\* However many backings an object has, and wherever mapping them stops, the
\* page table has its type and has only gained pages; when it does not stop, the
\* whole object is to be seen.
MapResult(space, id, object, v, r) ==
    /\ r.space \in SpaceSet /\ r.ok \in BOOLEAN
    /\ r.space.slots = space.slots /\ r.space.top = space.top
    /\ Grew(space.view, r.space.view) /\ Kept(space.view, r.space.view)
    /\ r.ok => Shown(r.space.view, v, object.backing, Len(object.backing))
    /\ r.space.mappings =
         IF r.ok THEN [p \in DOMAIN space.mappings \cup {v} |->
                           IF p = v THEN id ELSE space.mappings[p]]
         ELSE space.mappings

\* map_memory_object has a result, and every result is such a one.
LEMMA MapGrows ==
    ASSUME NEW space \in SpaceSet, NEW id \in Nat, NEW object \in ObjectSet, NEW v \in Nat
    PROVE  /\ map_memory_object(space, id, object, v) # {}
           /\ \A r \in map_memory_object(space, id, object, v) :
                  MapResult(space, id, object, v, r)
<1> DEFINE n == Len(object.backing)
           First == {[view |-> space.view, ok |-> TRUE, at |-> v]}
           Then(R, k) == UNION { IF ~r.ok THEN {r}
                         ELSE { [view |-> m.view, ok |-> m.ok,
                                 at |-> r.at + object.backing[k][2]] :
                                m \in area_results(r.view, r.at, object.backing[k][1],
                                               object.backing[k][2]) } :
                         r \in R }
           IsAfter(a, j) == a = [k \in 0 .. j |-> IF k = 0 THEN First ELSE Then(a[k - 1], k)]
           after == CHOOSE a : IsAfter(a, n)
           Good(R, k) ==
               /\ R # {}
               /\ \A r \in R : /\ r.view \in Views /\ r.ok \in BOOLEAN /\ r.at \in Nat
                               /\ Grew(space.view, r.view) /\ Kept(space.view, r.view)
                               /\ r.ok => /\ r.at = v + Below(object.backing)[k]
                                          /\ Shown(r.view, v, object.backing, k)
           New(r) == [space EXCEPT
                        !.view = r.view,
                        !.mappings = IF r.ok
                            THEN [p \in DOMAIN @ \cup {v} |-> IF p = v THEN id ELSE @[p]]
                            ELSE @]
<1>1. map_memory_object(space, id, object, v) =
          { [ok |-> r.ok, space |-> New(r)] : r \in after[n] }
  BY Zenon DEF map_memory_object
<1>2. /\ n \in Nat
      /\ \A k \in 1 .. n : object.backing[k][1] \in Nat \ {0} /\ object.backing[k][2] \in Nat
  BY DEF ObjectSet, Backings
<1>3. Good(First, 0)
  <2>1. Below(object.backing)[0] = 0
    BY BelowSums DEF ObjectSet
  <2> QED
    BY <2>1 DEF SpaceSet, Grew, Kept, Shown
<1>4. ASSUME NEW k \in 1 .. n, NEW R, Good(R, k - 1) PROVE Good(Then(R, k), k)
  <2>1. ASSUME NEW r \in R, r.ok,
               NEW m \in area_results(r.view, r.at, object.backing[k][1], object.backing[k][2])
        PROVE  /\ m.view \in Views /\ m.ok \in BOOLEAN
               /\ Grew(space.view, m.view) /\ Kept(space.view, m.view)
               /\ r.at + object.backing[k][2] \in Nat
               /\ m.ok => /\ r.at + object.backing[k][2] = v + Below(object.backing)[k]
                          /\ Shown(m.view, v, object.backing, k)
    <3>1. /\ r.view \in Views /\ r.at \in Nat
          /\ Grew(space.view, r.view) /\ Kept(space.view, r.view)
          /\ r.at = v + Below(object.backing)[k - 1]
          /\ Shown(r.view, v, object.backing, k - 1)
      BY <1>4, <2>1, Zenon
    <3>2. /\ m.view \in Views /\ m.ok \in BOOLEAN /\ Grew(r.view, m.view) /\ Kept(r.view, m.view)
          /\ m.ok => \A i \in 0 .. object.backing[k][2] - 1 :
                         r.at + i \in AllPages => m.view[r.at + i] = object.backing[k][1] + i
      <4>1. object.backing[k][1] \in Nat \ {0} /\ object.backing[k][2] \in Nat
        BY <1>2
      <4>2. AreaResult(r.view, r.at, object.backing[k][1], object.backing[k][2], m)
        BY <2>1, <3>1, <4>1, AreaGrows, ZenonT(30)
      <4> QED
        BY <4>2, Zenon DEF AreaResult
    <3>3. /\ Grew(space.view, m.view) /\ Kept(space.view, m.view)
          /\ r.at + object.backing[k][2] \in Nat
      BY <1>2, <3>1, <3>2, SMTT(30) DEF Grew, Kept
    <3>4. /\ object.backing \in Backings /\ k - 1 \in 0 .. n
          /\ Below(object.backing)[k] = Below(object.backing)[k - 1] + object.backing[k][2]
          /\ \A j \in 0 .. n : Below(object.backing)[j] \in Nat
      BY <1>2, BelowSums, BelowGrows, SMTT(30) DEF ObjectSet
    <3>5. r.at + object.backing[k][2] = v + Below(object.backing)[k]
      <4>1. PICK x \in Nat : x = Below(object.backing)[k - 1]
        BY <3>4, Zenon
      <4>2. PICK y \in Nat : y = object.backing[k][2]
        BY <1>2
      <4>3. r.at = v + x /\ Below(object.backing)[k] = x + y
        BY <3>1, <3>4, <4>1, <4>2
      <4> QED
        BY <4>2, <4>3
    <3>6. ASSUME m.ok, NEW j \in 1 .. k, NEW i \in 0 .. object.backing[j][2] - 1,
                 v + Below(object.backing)[j - 1] + i \in AllPages
          PROVE  m.view[v + Below(object.backing)[j - 1] + i] = object.backing[j][1] + i
      <4>1. CASE j = k
        <5>1. r.at + i \in AllPages => m.view[r.at + i] = object.backing[k][1] + i
          BY <3>2, <3>6, <4>1, Zenon
        <5>2. r.at + i = v + Below(object.backing)[j - 1] + i
          BY <3>1, <4>1, Zenon
        <5> QED
          BY <3>6, <4>1, <5>1, <5>2
      <4>2. CASE j # k
        <5>1. j \in 1 .. k - 1 /\ j \in 1 .. n
          BY <1>2, <4>2
        <5>2. r.view[v + Below(object.backing)[j - 1] + i] = object.backing[j][1] + i
          BY <3>1, <3>6, <5>1, Zenon DEF Shown
        <5>3. object.backing[j][1] + i # NoFrame
          BY <1>2, <5>1, SMTT(30) DEF NoFrame
        <5> QED
          BY <3>2, <3>6, <5>2, <5>3, Zenon DEF Kept
      <4> QED
        BY <4>1, <4>2
    <3> QED
      BY <3>2, <3>3, <3>5, <3>6, Zenon DEF Shown
  <2>2. \A x \in Then(R, k) : \E r \in R :
            \/ x = r /\ ~ r.ok
            \/ r.ok /\ \E m \in area_results(r.view, r.at, object.backing[k][1],
                                             object.backing[k][2]) :
                  x = [view |-> m.view, ok |-> m.ok, at |-> r.at + object.backing[k][2]]
    OBVIOUS
  <2>3. Then(R, k) # {}
    <3>1. PICK r \in R : TRUE
      BY <1>4
    <3>2. PICK m \in area_results(r.view, r.at, object.backing[k][1], object.backing[k][2]) : TRUE
      BY <1>2, AreaHasResult, Zenon
    <3> DEFINE Out(q) == IF ~q.ok THEN {q}
                         ELSE { [view |-> e.view, ok |-> e.ok,
                                 at |-> q.at + object.backing[k][2]] :
                                e \in area_results(q.view, q.at, object.backing[k][1],
                                               object.backing[k][2]) }
    <3>3. Out(r) # {}
      BY <3>2, Zenon
    <3>4. PICK x : x \in Out(r)
      BY <3>3
    <3>5. Then(R, k) = UNION { Out(q) : q \in R }
      BY Zenon
    <3> HIDE DEF Out, Then
    <3>6. x \in UNION { Out(q) : q \in R }
      BY <3>4
    <3> QED
      BY <3>5, <3>6
  <2> HIDE DEF Then
  <2>4. ASSUME NEW x \in Then(R, k)
        PROVE  /\ x.view \in Views /\ x.ok \in BOOLEAN /\ x.at \in Nat
               /\ Grew(space.view, x.view) /\ Kept(space.view, x.view)
               /\ x.ok => /\ x.at = v + Below(object.backing)[k]
                          /\ Shown(x.view, v, object.backing, k)
    <3>1. PICK r \in R :
            \/ x = r /\ ~ r.ok
            \/ r.ok /\ \E m \in area_results(r.view, r.at, object.backing[k][1],
                                             object.backing[k][2]) :
                  x = [view |-> m.view, ok |-> m.ok, at |-> r.at + object.backing[k][2]]
      BY <2>2, Zenon
    <3>2. CASE x = r /\ ~ r.ok
      BY <1>4, <3>2
    <3>3. CASE r.ok /\ \E m \in area_results(r.view, r.at, object.backing[k][1],
                                             object.backing[k][2]) :
                  x = [view |-> m.view, ok |-> m.ok, at |-> r.at + object.backing[k][2]]
      <4>1. PICK m \in area_results(r.view, r.at, object.backing[k][1], object.backing[k][2]) :
                x = [view |-> m.view, ok |-> m.ok, at |-> r.at + object.backing[k][2]]
        BY <3>3
      <4>2. x.view = m.view /\ x.ok = m.ok /\ x.at = r.at + object.backing[k][2]
        BY <4>1
      <4> QED
        BY <2>1, <3>3, <4>1, <4>2, Zenon
    <3> QED
      BY <3>1, <3>2, <3>3, Zenon
  <2> QED
    BY <2>3, <2>4
<1> HIDE DEF First, Then, n
<1>5. IsAfter(after, n)
  <2> DEFINE T == { j \in Nat : ~ \E a : IsAfter(a, j) }
  <2>1. SUFFICES ASSUME T # {} PROVE FALSE
    <3>1. T = {} => \E a : IsAfter(a, n)
      <4> HIDE DEF IsAfter
      <4> QED
        BY <1>2, ZenonT(30)
    <3> HIDE DEF T
    <3>2. (\E a : IsAfter(a, n)) => IsAfter(after, n)
      BY ZenonT(30)
    <3> QED
      BY <3>1, <3>2, ZenonT(30)
  <2>2. PICK j \in T : \A y \in T : j <= y
    BY <2>1, LeastNumber, Zenon
  <2>3. CASE j = 0
    <3> DEFINE b == [k \in 0 .. 0 |-> First]
    <3>1. IsAfter(b, 0)
      OBVIOUS
    <3> QED
      BY <2>2, <2>3, <3>1, Zenon
  <2>4. CASE j # 0
    <3>1. j - 1 \in Nat /\ j - 1 \notin T /\ j \in Nat
      <4>1. j \in Nat
        BY <2>2
      <4>2. j - 1 \in Nat /\ ~ (j <= j - 1)
        BY <2>4, <4>1
      <4> HIDE DEF T
      <4> QED
        BY <2>2, <4>1, <4>2
    <3>2. PICK a : IsAfter(a, j - 1)
      BY <3>1
    <3> DEFINE b == [k \in 0 .. j |-> IF k = j THEN Then(a[j - 1], j) ELSE a[k]]
    <3>3. \A k \in 0 .. j - 1 : b[k] = a[k]
      BY <3>1
    <3>4. ASSUME NEW k \in 0 .. j
          PROVE  b[k] = IF k = 0 THEN First ELSE Then(b[k - 1], k)
      <4>1. CASE k = j
        <5>1. b[k] = Then(a[j - 1], j) /\ b[j - 1] = a[j - 1]
          BY <3>1, <3>3, <4>1
        <5> QED
          BY <2>4, <4>1, <5>1
      <4>2. CASE k # j
        <5>1. k \in 0 .. j - 1
          BY <3>1, <4>2
        <5>2. a[k] = IF k = 0 THEN First ELSE Then(a[k - 1], k)
          BY <3>2, <5>1
        <5>3. k # 0 => b[k - 1] = a[k - 1]
          BY <3>1, <3>3, <5>1
        <5>4. b[k] = a[k]
          BY <3>3, <5>1
        <5> HIDE DEF b
        <5> QED
          BY <5>2, <5>3, <5>4
      <4> QED
        BY <4>1, <4>2
    <3>5. DOMAIN b = 0 .. j /\ b = [k \in 0 .. j |-> b[k]]
      OBVIOUS
    <3> HIDE DEF b
    <3>6. IsAfter(b, j)
      BY <3>4, <3>5, Zenon
    <3> QED
      BY <2>2, <3>6
  <2> QED
    BY <2>3, <2>4
<1> HIDE DEF after
<1>6. \A k \in 0 .. n : Good(after[k], k)
  <2> DEFINE T == { k \in 0 .. n : ~ Good(after[k], k) }
  <2> HIDE DEF Good
  <2>1. SUFFICES ASSUME T # {} PROVE FALSE
    OBVIOUS
  <2>2. PICK k \in T : \A y \in T : k <= y
    <3>1. T \in SUBSET Nat
      BY <1>2
    <3> QED
      BY <2>1, <3>1, LeastNumber, Zenon
  <2>3. k # 0
    BY <1>2, <1>3, <1>5, <2>2
  <2>4. k \in 1 .. n /\ k - 1 \in 0 .. n /\ k - 1 \notin T
    BY <1>2, <2>2, <2>3
  <2>5. Good(after[k - 1], k - 1)
    BY <2>4
  <2>6. after[k] = Then(after[k - 1], k)
    BY <1>2, <1>5, <2>3, <2>4
  <2>7. Good(after[k], k)
    BY <1>4, <2>4, <2>5, <2>6
  <2> QED
    BY <2>2, <2>7
<1>7. Good(after[n], n)
  <2>1. n \in 0 .. n
    BY <1>2
  <2> HIDE DEF Good
  <2> QED
    BY <1>6, <2>1
<1>8. ASSUME NEW r \in after[n]
      PROVE  /\ New(r) \in SpaceSet
             /\ New(r).slots = space.slots /\ New(r).top = space.top
             /\ Grew(space.view, New(r).view) /\ Kept(space.view, New(r).view)
             /\ r.ok \in BOOLEAN /\ (r.ok => Shown(New(r).view, v, object.backing, n))
             /\ New(r).mappings = IF r.ok THEN [p \in DOMAIN space.mappings \cup {v} |->
                                                    IF p = v THEN id ELSE space.mappings[p]]
                                  ELSE space.mappings
  <2> DEFINE ms == IF r.ok THEN [p \in DOMAIN space.mappings \cup {v} |->
                                     IF p = v THEN id ELSE space.mappings[p]]
                   ELSE space.mappings
  <2>1. ms \in Mappings
    BY MappingAdded, Zenon DEF SpaceSet
  <2>2. /\ r.view \in Views /\ Grew(space.view, r.view) /\ Kept(space.view, r.view)
        /\ r.ok \in BOOLEAN /\ (r.ok => Shown(r.view, v, object.backing, n))
    BY <1>7, Zenon
  <2> HIDE DEF ms
  <2>3. LET new == [space EXCEPT !.view = r.view, !.mappings = ms]
        IN /\ new \in SpaceSet
           /\ new.slots = space.slots /\ new.top = space.top
           /\ new.view = r.view /\ new.mappings = ms
    BY <2>1, <2>2, Zenon DEF SpaceSet
  <2>4. New(r) = [space EXCEPT !.view = r.view, !.mappings = ms]
    BY Zenon DEF ms
  <2> HIDE DEF New
  <2>5. /\ New(r) \in SpaceSet
        /\ New(r).slots = space.slots /\ New(r).top = space.top
        /\ New(r).view = r.view /\ New(r).mappings = ms
    BY <2>3, <2>4
  <2> QED
    BY <2>2, <2>5, Zenon DEF ms
<1> HIDE DEF New
<1>9. map_memory_object(space, id, object, v) # {}
  BY <1>1, <1>7, ZenonT(30)
<1>10. ASSUME NEW q \in map_memory_object(space, id, object, v)
       PROVE  \E r \in after[n] : q.space = New(r) /\ q.ok = r.ok
  BY <1>1
<1>11. ASSUME NEW q \in map_memory_object(space, id, object, v)
       PROVE  MapResult(space, id, object, v, q)
  <2>1. PICK r \in after[n] : q.space = New(r) /\ q.ok = r.ok
    BY <1>10
  <2>2. /\ q.space \in SpaceSet /\ q.ok \in BOOLEAN
        /\ q.space.slots = space.slots /\ q.space.top = space.top
        /\ Grew(space.view, q.space.view) /\ Kept(space.view, q.space.view)
    <3>1. New(r) \in SpaceSet /\ New(r).slots = space.slots /\ New(r).top = space.top
      BY <1>8, ZenonT(30)
    <3>2. Grew(space.view, New(r).view) /\ Kept(space.view, New(r).view)
      BY <1>8, ZenonT(30)
    <3>3. r.ok \in BOOLEAN
      BY <1>7
    <3>4. q.ok \in BOOLEAN
      BY <2>1, <3>3, Zenon
    <3> QED
      BY <2>1, <3>1, <3>2, <3>4
  <2>3. q.ok => Shown(q.space.view, v, object.backing, Len(object.backing))
    BY <1>8, <2>1, ZenonT(30) DEF n
  <2>4. q.space.mappings =
          IF q.ok THEN [p \in DOMAIN space.mappings \cup {v} |->
                            IF p = v THEN id ELSE space.mappings[p]]
          ELSE space.mappings
    BY <1>8, <2>1, Zenon
  <2> QED
    BY <2>2, <2>3, <2>4, Zenon DEF MapResult
<1> QED
  BY <1>9, <1>11

-----------------------------------------------------------------------------
\* The inductive invariant.

\* The type of a task.
TaskSet == [space : Nat, slot : 0 .. SlotBits - 2, kernel : Nat]

\* The types of the variables.
Types ==
    /\ objects \in Seq(ObjectSet)
    /\ spaces \in Seq(SpaceSet)
    /\ tasks \in Seq(TaskSet)
    /\ kview \in [0 .. KernelPages - 1 -> Nat]
    /\ ktop \in SUBSET Nat /\ knext \in Nat /\ frames \in Nat

\* The counter is ahead of all that is mapped in the dynamic area, and the entry
\* boot makes is in every top table made since.
KernelInv ==
    /\ \A page \in 0 .. KernelPages - 1 : kview[page] # NoFrame => page < knext
    /\ knext > 0 => 0 \in ktop
    /\ IF spaces = <<>> THEN knext <= 1 ELSE knext > 0
    /\ \A s \in DOMAIN spaces : 0 \in spaces[s].top

\* The user stack of a task is in a slot of its own, and mapped.
UserStack(t) ==
    /\ tasks[t].space \in DOMAIN spaces
    /\ tasks[t].slot \in spaces[tasks[t].space].slots
    /\ \A i \in 0 .. StackPages - 1 :
         spaces[tasks[t].space].view[StackBottom(tasks[t].slot) + i] # NoFrame
    /\ \A u \in DOMAIN tasks \ {t} :
         tasks[t].space = tasks[u].space => tasks[t].slot # tasks[u].slot

\* Its kernel stack is mapped, below the counter and above a page that is not.
KernelStack(t) ==
    /\ 0 < tasks[t].kernel
    /\ tasks[t].kernel + StackPages <= knext /\ tasks[t].kernel + StackPages <= KernelPages
    /\ kview[tasks[t].kernel - 1] = NoFrame
    /\ \A i \in 0 .. StackPages - 1 : kview[tasks[t].kernel + i] # NoFrame
    /\ \A u \in DOMAIN tasks \ {t} : tasks[t].kernel # tasks[u].kernel

\* Every task has its two stacks.
StackInv == \A t \in DOMAIN tasks : UserStack(t) /\ KernelStack(t)

\* The invariant of all steps.
Inv == Types /\ KernelInv /\ StackInv

\* The properties follow from it.
LEMMA InvGivesStacks ==
    ASSUME Inv PROVE StacksApart
  BY Zenon DEF Inv, StackInv, UserStack, KernelStack, StacksApart

\* All the kernel has mapped is under the entry that boot made.
LEMMA InvGivesKernel ==
    ASSUME Inv PROVE KernelSeenEverywhere
<1> SUFFICES ASSUME knext <= KernelSpan, NEW s \in DOMAIN spaces, NEW page \in DOMAIN kview,
                    kview[page] # NoFrame
             PROVE  TopEntry(page) \in spaces[s].top
  BY DEF KernelSeenEverywhere
<1>1. page \in Nat /\ page < KernelSpan /\ 0 \in spaces[s].top
  BY KernelAssumption DEF Inv, Types, KernelInv
<1>2. page \div KernelSpan = 0
  BY <1>1, KernelAssumption
<1> QED
  BY <1>1, <1>2 DEF TopEntry

-----------------------------------------------------------------------------
\* Steps that leave the tasks and the kernel's own memory alone.

\* Address spaces gain pages and slots, and new ones show the kernel.
SpacesGrew ==
    /\ spaces' \in Seq(SpaceSet)
    /\ DOMAIN spaces \subseteq DOMAIN spaces'
    /\ \A s \in DOMAIN spaces : /\ spaces[s].slots \subseteq spaces'[s].slots
                                /\ Grew(spaces[s].view, spaces'[s].view)
    /\ \A s \in DOMAIN spaces' : 0 \in spaces'[s].top
    /\ spaces = <<>> => spaces' = <<>> \/ knext > 0
    /\ spaces' = <<>> => spaces = <<>>

\* Steps in which address spaces only gain keep the invariant.
LEMMA KeptByGrowth ==
    ASSUME Inv, SpacesGrew, UNCHANGED <<tasks, kview, ktop, knext>>,
           objects' \in Seq(ObjectSet), frames' \in Nat
    PROVE  Inv'
<1>1. Types'
  BY DEF Inv, Types, SpacesGrew
<1>2. KernelInv'
  BY DEF Inv, KernelInv, SpacesGrew
<1>3. ASSUME NEW t \in DOMAIN tasks PROVE UserStack(t)'
  <2>1. UserStack(t) /\ tasks[t] \in TaskSet
    BY DEF Inv, StackInv, Types
  <2>2. \A i \in 0 .. StackPages - 1 : StackBottom(tasks[t].slot) + i \in AllPages
    BY <2>1, StackInSpace, Zenon DEF TaskSet
  <2>3. Grew(spaces[tasks[t].space].view, spaces'[tasks[t].space].view)
    BY <2>1 DEF UserStack, SpacesGrew
  <2> QED
    BY <2>1, <2>2, <2>3, Zenon DEF UserStack, SpacesGrew, Grew, StackBottom
<1>4. ASSUME NEW t \in DOMAIN tasks PROVE KernelStack(t)'
  BY DEF Inv, StackInv, KernelStack
<1> QED
  BY <1>1, <1>2, <1>3, <1>4 DEF Inv, StackInv

\* One address space changes.
LEMMA OneSpaceGrew ==
    ASSUME Inv, NEW s \in DOMAIN spaces, NEW new \in SpaceSet,
           spaces' = [spaces EXCEPT ![s] = new],
           spaces[s].slots \subseteq new.slots, new.top = spaces[s].top,
           Grew(spaces[s].view, new.view)
    PROVE  SpacesGrew
<1>1. spaces \in Seq(SpaceSet) /\ \A q \in DOMAIN spaces : 0 \in spaces[q].top
  BY DEF Inv, Types, KernelInv
<1>2. spaces' \in Seq(SpaceSet) /\ DOMAIN spaces' = DOMAIN spaces
  BY <1>1
<1>3. \A q \in DOMAIN spaces : spaces'[q] = IF q = s THEN new ELSE spaces[q]
  BY <1>1
<1>4. spaces # <<>>
  BY <1>1
<1> QED
  BY <1>1, <1>2, <1>3, <1>4 DEF SpacesGrew, Grew

\* Nothing changes in the address spaces.
LEMMA SameSpaces ==
    ASSUME Inv, spaces' = spaces PROVE SpacesGrew
  BY DEF Inv, Types, KernelInv, SpacesGrew, Grew

-----------------------------------------------------------------------------
\* A task is added.

\* Where the next kernel stack is mapped.
Bottom == knext + SlotPages - StackPages

\* A stack is mapped beyond the counter.
KernelGrew ==
    /\ kview' \in [0 .. KernelPages - 1 -> Nat] /\ ktop' \in SUBSET Nat /\ knext' \in Nat
    /\ knext' = Bottom + StackPages /\ knext' <= KernelPages
    /\ knext < Bottom /\ Bottom \in Nat
    /\ ktop \subseteq ktop'
    /\ \A page \in 0 .. KernelPages - 1 :
         /\ page < Bottom => kview'[page] = kview[page]
         /\ kview'[page] # NoFrame => page < knext'
    /\ kview'[Bottom - 1] = NoFrame
    /\ \A i \in 0 .. StackPages - 1 : kview'[Bottom + i] # NoFrame

\* alloc_kernel_stack maps a stack beyond the counter and leaves its guard page.
LEMMA StackMapsBeyond ==
    ASSUME Inv, NEW taken \in Nat, alloc_kernel_stack(taken), ~ Refused(SlotPages)
    PROVE  KernelGrew
<1> DEFINE bottom == knext + SlotPages - StackPages
<1>1. /\ kview \in [0 .. KernelPages - 1 -> Nat] /\ ktop \in SUBSET Nat /\ knext \in Nat
      /\ frames \in Nat
      /\ \A page \in 0 .. KernelPages - 1 : kview[page] # NoFrame => page < knext
  BY DEF Inv, Types, KernelInv
<1>2. /\ knext' = bottom + StackPages /\ knext' <= KernelPages /\ knext' \in Nat
      /\ knext < bottom /\ bottom \in Nat
      /\ bottom - 1 \in 0 .. KernelPages - 1
      /\ \A i \in 0 .. StackPages - 1 : bottom + i \in 0 .. KernelPages - 1
  BY <1>1, SlotAssumption, KernelAssumption DEF alloc_kernel_stack, alloc_kernel, Refused
<1>3. /\ kview' = Show(kview, bottom, frames + taken + 1, StackPages)
      /\ ktop' = ktop \cup { TopEntry(bottom + i) : i \in 0 .. StackPages - 1 }
  BY DEF alloc_kernel_stack
<1> HIDE DEF bottom
<1>4. \A i \in 0 .. StackPages - 1 : TopEntry(bottom + i) \in Nat
  BY <1>2, KernelAssumption DEF TopEntry
<1>5. ktop \subseteq ktop' /\ ktop' \in SUBSET Nat
  BY <1>1, <1>3, <1>4
<1>6. \A page \in 0 .. KernelPages - 1 :
          kview'[page] = IF page \in bottom .. bottom + StackPages - 1
                         THEN frames + taken + 1 + page - bottom ELSE kview[page]
  BY <1>1, <1>3 DEF Show
<1>7. kview' \in [0 .. KernelPages - 1 -> Nat]
  BY <1>1, <1>2, <1>3, SlotAssumption, KernelAssumption DEF Show
<1>8. \A page \in 0 .. KernelPages - 1 :
          /\ page < bottom => kview'[page] = kview[page]
          /\ kview'[page] # NoFrame => page < knext'
  BY <1>1, <1>2, <1>6, SlotAssumption, KernelAssumption
<1>9. kview'[bottom - 1] = NoFrame
  BY <1>1, <1>2, <1>8
<1>10. \A i \in 0 .. StackPages - 1 : kview'[bottom + i] # NoFrame
  BY <1>1, <1>2, <1>6, SlotAssumption DEF NoFrame
<1> QED
  BY <1>2, <1>5, <1>7, <1>8, <1>9, <1>10, Zenon DEF bottom, Bottom, KernelGrew

\* The new task has a slot of its own in an address space that shows its stack.
TaskAdded(s, slot) ==
    /\ s \in DOMAIN spaces' /\ slot \in 0 .. SlotBits - 2
    /\ tasks' = Append(tasks, [space |-> s, slot |-> slot, kernel |-> Bottom])
    /\ \A t \in DOMAIN tasks : tasks[t].space = s => tasks[t].slot # slot
    /\ slot \in spaces'[s].slots
    /\ \A i \in 0 .. StackPages - 1 : spaces'[s].view[StackBottom(slot) + i] # NoFrame
    /\ knext > 0
    /\ objects' \in Seq(ObjectSet) /\ frames' \in Nat

\* A task whose stacks are new in both places keeps the invariant.
LEMMA KeptByNewTask ==
    ASSUME Inv, SpacesGrew, KernelGrew, NEW s, NEW slot, TaskAdded(s, slot)
    PROVE  Inv'
<1>0. PICK new : new = Len(tasks) + 1
  OBVIOUS
<1> DEFINE task == [space |-> s, slot |-> slot, kernel |-> Bottom]
<1>1. /\ knext \in Nat /\ Bottom \in Nat /\ knext < Bottom /\ knext' = Bottom + StackPages
      /\ knext' \in Nat /\ knext' <= KernelPages
  BY DEF KernelGrew, Inv, Types
<1>2. s \in Nat /\ spaces' \in Seq(SpaceSet) /\ task \in TaskSet
  BY <1>1 DEF SpacesGrew, TaskSet, TaskAdded
<1>3. /\ tasks \in Seq(TaskSet) /\ tasks' \in Seq(TaskSet)
      /\ DOMAIN tasks' = DOMAIN tasks \cup {new} /\ new \notin DOMAIN tasks
      /\ tasks'[new] = task
      /\ \A t \in DOMAIN tasks : tasks'[t] = tasks[t]
  <2>1. tasks \in Seq(TaskSet) /\ tasks' = Append(tasks, task)
    BY Zenon DEF Inv, Types, TaskAdded
  <2> HIDE DEF task
  <2> QED
    BY <1>0, <1>2, <2>1
<1>4. task.space = s /\ task.slot = slot /\ task.kernel = Bottom
  OBVIOUS
<1> HIDE DEF task
<1>5. Types'
  BY <1>2, <1>3, Zenon DEF Types, KernelGrew, TaskAdded
<1>6. KernelInv'
  <2>1. 0 \in ktop' /\ knext' > 0
    BY <1>1, SlotAssumption DEF Inv, KernelInv, KernelGrew, TaskAdded
  <2>2. spaces' # <<>>
    BY <1>2 DEF TaskAdded
  <2>3. \A page \in 0 .. KernelPages - 1 : kview'[page] # NoFrame => page < knext'
    BY DEF KernelGrew
  <2>4. \A q \in DOMAIN spaces' : 0 \in spaces'[q].top
    BY DEF SpacesGrew
  <2> QED
    BY <2>1, <2>2, <2>3, <2>4 DEF KernelInv
<1>7. ASSUME NEW t \in DOMAIN tasks PROVE UserStack(t)'
  <2>1. UserStack(t) /\ tasks[t] \in TaskSet
    BY <1>3 DEF Inv, StackInv
  <2>2. \A i \in 0 .. StackPages - 1 : StackBottom(tasks[t].slot) + i \in AllPages
    BY <2>1, StackInSpace, Zenon DEF TaskSet
  <2>3. Grew(spaces[tasks[t].space].view, spaces'[tasks[t].space].view)
    BY <2>1, Zenon DEF UserStack, SpacesGrew
  <2>4. /\ tasks[t].space \in DOMAIN spaces' /\ tasks[t].slot \in spaces'[tasks[t].space].slots
        /\ \A i \in 0 .. StackPages - 1 :
             spaces'[tasks[t].space].view[StackBottom(tasks[t].slot) + i] # NoFrame
    BY <2>1, <2>2, <2>3, Zenon DEF UserStack, SpacesGrew, Grew
  <2>5. \A u \in DOMAIN tasks' \ {t} :
            tasks[t].space = tasks'[u].space => tasks[t].slot # tasks'[u].slot
    <3>1. tasks[t].space = s => tasks[t].slot # slot
      BY Zenon DEF TaskAdded
    <3> QED
      BY <1>3, <1>4, <2>1, <3>1, Zenon DEF UserStack
  <2> QED
    BY <1>3, <2>4, <2>5, Zenon DEF UserStack, StackBottom
<1>8. UserStack(new)'
  <2>1. /\ s \in DOMAIN spaces' /\ slot \in spaces'[s].slots
        /\ \A i \in 0 .. StackPages - 1 : spaces'[s].view[StackBottom(slot) + i] # NoFrame
        /\ \A t \in DOMAIN tasks : s = tasks[t].space => slot # tasks[t].slot
    BY Zenon DEF TaskAdded
  <2>2. \A u \in DOMAIN tasks' \ {new} : s = tasks'[u].space => slot # tasks'[u].slot
    BY <1>3, <2>1, Zenon
  <2> QED
    BY <1>3, <1>4, <2>1, <2>2, Zenon DEF UserStack, StackBottom
<1>9. ASSUME NEW t \in DOMAIN tasks PROVE tasks[t].kernel \in Nat /\ KernelStack(t)
  <2>1. tasks[t] \in TaskSet
    BY <1>3
  <2> QED
    BY <2>1 DEF Inv, StackInv, TaskSet
<1>10. ASSUME NEW t \in DOMAIN tasks PROVE KernelStack(t)'
  <2> DEFINE k == tasks[t].kernel
  <2>1. /\ k - 1 \in 0 .. KernelPages - 1 /\ k - 1 < Bottom
        /\ \A i \in 0 .. StackPages - 1 : k + i \in 0 .. KernelPages - 1 /\ k + i < Bottom
        /\ k + StackPages <= knext' /\ k # Bottom
    BY <1>1, <1>9, SlotAssumption, KernelAssumption DEF KernelStack
  <2>2. /\ kview'[k - 1] = NoFrame
        /\ \A i \in 0 .. StackPages - 1 : kview'[k + i] # NoFrame
    <3>1. kview[k - 1] = NoFrame /\ \A i \in 0 .. StackPages - 1 : kview[k + i] # NoFrame
      BY <1>9, Zenon DEF KernelStack
    <3>2. \A page \in 0 .. KernelPages - 1 : page < Bottom => kview'[page] = kview[page]
      BY Zenon DEF KernelGrew
    <3> HIDE DEF k
    <3> QED
      BY <2>1, <3>1, <3>2, Zenon
  <2>3. \A u \in DOMAIN tasks' \ {t} : k # tasks'[u].kernel
    BY <1>3, <1>4, <1>9, <2>1, Zenon DEF KernelStack
  <2> QED
    BY <1>3, <1>9, <2>1, <2>2, <2>3, Zenon DEF KernelStack
<1>11. KernelStack(new)'
  <2>1. \A t \in DOMAIN tasks : Bottom # tasks[t].kernel
    BY <1>1, <1>9, SlotAssumption DEF KernelStack
  <2>2. \A u \in DOMAIN tasks' \ {new} : Bottom # tasks'[u].kernel
    BY <1>3, <2>1
  <2>3. /\ 0 < Bottom /\ Bottom + StackPages <= knext' /\ Bottom + StackPages <= KernelPages
    BY <1>1, SlotAssumption, KernelAssumption
  <2>4. /\ kview'[Bottom - 1] = NoFrame
        /\ \A i \in 0 .. StackPages - 1 : kview'[Bottom + i] # NoFrame
    BY DEF KernelGrew
  <2> QED
    BY <1>3, <1>4, <2>2, <2>3, <2>4, Zenon DEF KernelStack
<1>12. ASSUME NEW t \in DOMAIN tasks' PROVE UserStack(t)' /\ KernelStack(t)'
  BY <1>3, <1>7, <1>8, <1>10, <1>11
<1> QED
  BY <1>5, <1>6, <1>12 DEF Inv, StackInv

-----------------------------------------------------------------------------
\* Each step preserves the invariant.

\* Before boot nothing is mapped.
LEMMA Initially ==
    ASSUME AddressSpacesInit PROVE Inv
<1>1. Types
  BY KernelAssumption DEF AddressSpacesInit, Types, NoFrame
<1>2. KernelInv
  BY DEF AddressSpacesInit, KernelInv
<1>3. StackInv
  BY DEF AddressSpacesInit, StackInv
<1> QED
  BY <1>1, <1>2, <1>3 DEF Inv

\* While there is no address space there is no task.
LEMMA NoTaskYet ==
    ASSUME Inv, spaces = <<>> PROVE tasks = <<>>
<1>1. tasks \in Seq(TaskSet)
  BY DEF Inv, Types
<1>2. DOMAIN tasks = {}
  <2>1. \A t \in DOMAIN tasks : tasks[t].space \in DOMAIN spaces
    BY Zenon DEF Inv, StackInv, UserStack
  <2> QED
    BY <2>1
<1> QED
  BY <1>1, <1>2

\* A new address space shows what the kernel has mapped so far.
LEMMA NewSpaceShowsKernel ==
    ASSUME Inv, knext > 0 PROVE NewSpace \in SpaceSet /\ 0 \in NewSpace.top /\ NewSpace.slots = {}
<1>1. [page \in AllPages |-> NoFrame] \in Views
  BY DEF Views, NoFrame
<1>2. <<>> \in Mappings
  <2>1. <<>> \in [{} -> Nat] /\ {} \in SUBSET Nat
    OBVIOUS
  <2> QED
    BY <2>1, Zenon DEF Mappings
<1>3. ktop \in SUBSET Nat /\ 0 \in ktop
  BY DEF Inv, Types, KernelInv
<1> QED
  BY <1>1, <1>2, <1>3, Zenon DEF NewSpace, new_task_page_tables, SpaceSet

\* map_kernel at boot.
LEMMA BootStep ==
    ASSUME Inv, BootMapsDevices PROVE Inv'
<1>1. knext = 0 /\ map_kernel(1) /\ UNCHANGED <<objects, spaces, tasks>>
  BY DEF BootMapsDevices
<1>2. Types /\ KernelInv /\ spaces = <<>> /\ tasks = <<>>
  BY <1>1, NoTaskYet, SMTT(30) DEF Inv, KernelInv
<1>3. /\ knext' = 1 /\ kview' = Show(kview, 0, frames + 1, 1)
      /\ ktop' = ktop \cup { TopEntry(0 + i) : i \in 0 .. 0 }
      /\ frames' = frames + 1
  BY <1>1, SlotAssumption, KernelAssumption DEF map_kernel, alloc_kernel, Refused
<1>4. { TopEntry(0 + i) : i \in 0 .. 0 } = {0}
  <2>1. 0 \in 0 .. 0 /\ \A i \in 0 .. 0 : TopEntry(0 + i) = 0
    BY KernelAssumption DEF TopEntry
  <2> QED
    BY <2>1
<1>5. ktop' \in SUBSET Nat /\ 0 \in ktop'
  <2>1. ktop \in SUBSET Nat
    BY <1>2 DEF Types
  <2>2. ktop' = ktop \cup {0}
    BY <1>3, <1>4
  <2> QED
    BY <2>1, <2>2
<1>6. /\ kview' \in [0 .. KernelPages - 1 -> Nat]
      /\ \A page \in 0 .. KernelPages - 1 : kview'[page] # NoFrame => page < 1
  BY <1>1, <1>2, <1>3, KernelAssumption, SMTT(30) DEF Show, Types, KernelInv
<1>7. Types'
  BY <1>1, <1>2, <1>3, <1>5, <1>6 DEF Types
<1>8. KernelInv'
  BY <1>1, <1>2, <1>3, <1>5, <1>6 DEF KernelInv
<1>9. StackInv'
  BY <1>1, <1>2 DEF StackInv
<1> QED
  BY <1>7, <1>8, <1>9 DEF Inv

\* create_memory_object.
LEMMA CreateObjectStep ==
    ASSUME Inv, CreateMemoryObject PROVE Inv'
<1>1. PICK size \in ObjectSizes :
          /\ objects' = Append(objects, [size |-> size, backing |-> <<<<frames + 1, size>>>>])
          /\ frames' = frames + size
  BY Zenon DEF CreateMemoryObject
<1>2. objects \in Seq(ObjectSet) /\ frames \in Nat /\ size \in Nat
  BY ObjectAssumption DEF Inv, Types
<1>3. [size |-> size, backing |-> <<<<frames + 1, size>>>>] \in ObjectSet
  BY <1>2 DEF ObjectSet, Backings
<1>4. objects' \in Seq(ObjectSet) /\ frames' \in Nat
  BY <1>1, <1>2, <1>3
<1> QED
  BY <1>4, SameSpaces, KeptByGrowth DEF CreateMemoryObject

\* map_memory_object.
LEMMA MapStep ==
    ASSUME Inv, MapMemoryObject PROVE Inv'
<1>1. PICK s \in DOMAIN spaces, id \in DOMAIN objects, v \in UserPages :
        \E r \in map_memory_object(spaces[s], id, objects[id], v) :
            spaces' = [spaces EXCEPT ![s] = r.space]
  BY ZenonT(30) DEF MapMemoryObject
<1>2. PICK r \in map_memory_object(spaces[s], id, objects[id], v) :
            spaces' = [spaces EXCEPT ![s] = r.space]
  BY <1>1, Zenon
<1>3. objects \in Seq(ObjectSet) /\ spaces \in Seq(SpaceSet) /\ frames \in Nat
  BY DEF Inv, Types
<1>4. spaces[s] \in SpaceSet /\ objects[id] \in ObjectSet /\ id \in Nat /\ v \in Nat
  BY <1>3, SlotAssumption
<1>5. /\ r.space \in SpaceSet
      /\ r.space.slots = spaces[s].slots /\ r.space.top = spaces[s].top
      /\ Grew(spaces[s].view, r.space.view)
  <2>1. MapResult(spaces[s], id, objects[id], v, r)
    BY <1>2, <1>4, MapGrows
  <2> QED
    BY <2>1, Zenon DEF MapResult
<1>6. SpacesGrew
  BY <1>2, <1>5, OneSpaceGrew, ZenonT(30)
<1> QED
  BY <1>3, <1>6, KeptByGrowth DEF MapMemoryObject

\* create_address_space.
LEMMA CreateSpaceStep ==
    ASSUME Inv, CreateAddressSpace PROVE Inv'
<1>1. spaces # <<>> /\ spaces' = Append(spaces, NewSpace)
  BY DEF CreateAddressSpace, SystemCall
<1>2. /\ objects \in Seq(ObjectSet) /\ spaces \in Seq(SpaceSet) /\ frames \in Nat /\ knext > 0
      /\ \A q \in DOMAIN spaces : 0 \in spaces[q].top
  BY <1>1 DEF Inv, Types, KernelInv
<1>3. NewSpace \in SpaceSet /\ 0 \in NewSpace.top
  BY <1>2, NewSpaceShowsKernel
<1>4. /\ spaces' \in Seq(SpaceSet) /\ DOMAIN spaces \subseteq DOMAIN spaces' /\ spaces' # <<>>
      /\ \A q \in DOMAIN spaces : spaces'[q] = spaces[q]
      /\ \A q \in DOMAIN spaces' : q \in DOMAIN spaces \/ spaces'[q] = NewSpace
  BY <1>1, <1>2, <1>3
<1>5. SpacesGrew
  BY <1>1, <1>2, <1>3, <1>4, Zenon DEF SpacesGrew, Grew
<1> QED
  BY <1>2, <1>5, KeptByGrowth DEF CreateAddressSpace

\* A todo!() changes no memory.
LEMMA UnimplementedStep ==
    ASSUME Inv, Unimplemented PROVE Inv'
  BY SameSpaces, KeptByGrowth, Zenon DEF Unimplemented, Inv, Types

\* resize_memory_object: the new part is mapped in one address space.
LEMMA ResizeStep ==
    ASSUME Inv, ResizeMemoryObject PROVE Inv'
<1>1. PICK t \in DOMAIN tasks, id \in DOMAIN objects, more \in ObjectSizes \ {0} :
        LET s == tasks[t].space
            old == objects[id].size
            at == { v \in DOMAIN spaces[s].mappings : spaces[s].mappings[v] = id }
            first == CHOOSE v \in at : \A w \in at : v <= w
            all == { m \in (DOMAIN spaces) \X UserPages :
                       /\ m[2] \in DOMAIN spaces[m[1]].mappings
                       /\ spaces[m[1]].mappings[m[2]] = id }
        IN /\ objects' = [objects EXCEPT ![id] =
                 [size |-> old + more, backing |-> Append(@.backing, <<frames + 1, more>>)]]
           /\ frames' = frames + more
           /\ IF at = {} THEN spaces' = spaces /\ short' = short \cup all
              ELSE /\ first + old + 2 * more - 1 \in AllPages
                   /\ \E m \in area_results(spaces[s].view, new_part(first, old, more),
                                            frames + 1, more) :
                        /\ spaces' = [spaces EXCEPT ![s].view = m.view]
                        /\ short' = IF m.ok THEN short \cup (all \ {<<s, first>>})
                                            ELSE short \cup all
  BY Zenon DEF ResizeMemoryObject
<1> DEFINE s == tasks[t].space
           old == objects[id].size
           at == { v \in DOMAIN spaces[s].mappings : spaces[s].mappings[v] = id }
           first == CHOOSE v \in at : \A w \in at : v <= w
<1>2. /\ objects \in Seq(ObjectSet) /\ spaces \in Seq(SpaceSet) /\ frames \in Nat
      /\ more \in Nat /\ s \in DOMAIN spaces
  BY ObjectAssumption, Zenon DEF Inv, Types, StackInv, UserStack
<1>3. spaces[s] \in SpaceSet /\ objects[id] \in ObjectSet
  BY <1>2
<1>4. objects' \in Seq(ObjectSet) /\ frames' \in Nat
  <2> DEFINE grown == [size |-> old + more,
                       backing |-> Append(objects[id].backing, <<frames + 1, more>>)]
  <2>1. objects' = [objects EXCEPT ![id] = grown] /\ frames' = frames + more
    BY <1>1, Zenon
  <2>2. <<frames + 1, more>> \in (Nat \ {0}) \X Nat
    BY <1>2
  <2>3. grown \in ObjectSet
    BY <1>2, <1>3, <2>2, SMTT(30) DEF ObjectSet, Backings
  <2> HIDE DEF grown
  <2> QED
    BY <1>2, <2>1, <2>3
<1>5. SpacesGrew
  <2>1. CASE at = {}
    BY <1>1, <2>1, SameSpaces, Zenon
  <2>2. CASE at # {}
    <3>1. PICK m \in area_results(spaces[s].view, new_part(first, old, more), frames + 1, more) :
              spaces' = [spaces EXCEPT ![s].view = m.view]
      BY <1>1, <2>2, Zenon
    <3>2. first \in Nat
      <4>1. PICK D \in SUBSET Nat : spaces[s].mappings \in [D -> Nat]
        <5>1. spaces[s].mappings \in Mappings
          BY <1>3, Zenon DEF SpaceSet
        <5> QED
          BY <5>1, Zenon DEF Mappings
      <4>2. at \in SUBSET Nat
        BY <4>1, ZenonT(30)
      <4> HIDE DEF at
      <4>3. \E v \in at : \A w \in at : v <= w
        BY <2>2, <4>2, LeastNumber
      <4> QED
        BY <4>2, <4>3, ZenonT(30)
    <3> HIDE DEF first
    <3>3. new_part(first, old, more) \in Nat /\ frames + 1 \in Nat \ {0}
      BY <1>2, <1>3, <3>2, SMTT(30) DEF new_part, ObjectSet
    <3>4. m.view \in Views /\ Grew(spaces[s].view, m.view)
      <4>1. spaces[s].view \in Views
        BY <1>3, Zenon DEF SpaceSet
      <4>2. AreaResult(spaces[s].view, new_part(first, old, more), frames + 1, more, m)
        BY <1>2, <3>1, <3>3, <4>1, AreaGrows
      <4> QED
        BY <4>2, Zenon DEF AreaResult
    <3> DEFINE new == [spaces[s] EXCEPT !.view = m.view]
    <3>5. /\ new \in SpaceSet /\ new.slots = spaces[s].slots /\ new.top = spaces[s].top
          /\ new.view = m.view
      BY <1>3, <3>4 DEF SpaceSet
    <3>6. spaces' = [spaces EXCEPT ![s] = new]
      BY <3>1
    <3> HIDE DEF new
    <3> QED
      BY <1>2, <3>4, <3>5, <3>6, OneSpaceGrew, ZenonT(30)
  <2> QED
    BY <2>1, <2>2
<1> QED
  BY <1>4, <1>5, KeptByGrowth, Zenon DEF ResizeMemoryObject

\* spawn_task: without a slot, without a kernel stack, and with both.
LEMMA SpawnStep ==
    ASSUME Inv, SpawnTask PROVE Inv'
<1>1. PICK s \in DOMAIN spaces : NewTask(s, spaces[s])
  BY DEF SpawnTask
<1>2. /\ objects \in Seq(ObjectSet) /\ spaces \in Seq(SpaceSet) /\ frames \in Nat
      /\ objects' = objects /\ knext > 0
  BY DEF Inv, Types, KernelInv, SpawnTask, SystemCall
<1>3. spaces[s] \in SpaceSet
  BY <1>2
<1>4. CASE FreeBits(spaces[s].slots) = {}
  <2>1. /\ UNCHANGED <<tasks, kview, ktop, knext, frames>>
        /\ spaces' = [spaces EXCEPT ![s] = spaces[s]]
    BY <1>1, <1>4, Zenon DEF NewTask
  <2>2. SpacesGrew
    BY <1>3, <2>1, OneSpaceGrew, ZenonT(30) DEF Grew
  <2> QED
    BY <1>2, <2>1, <2>2, KeptByGrowth
<1>5. CASE FreeBits(spaces[s].slots) # {}
  <2> DEFINE slot == alloc_bit(spaces[s].slots)
  <2>1. slot \in 0 .. SlotBits - 2 /\ slot \notin spaces[s].slots
    BY <1>5, FreeBit DEF FreeBits
  <2>2. PICK m \in area_results(spaces[s].view, StackBottom(slot), frames + 1, StackPages) :
            /\ spaces' = [spaces EXCEPT ![s] =
                            [spaces[s] EXCEPT !.slots = @ \cup {slot}, !.view = m.view]]
            /\ IF ~m.ok \/ Refused(SlotPages)
               THEN UNCHANGED <<tasks, kview, ktop, knext, frames>>
               ELSE /\ alloc_kernel_stack(StackPages)
                    /\ frames' = frames + 2 * StackPages
                    /\ tasks' = Append(tasks, [space |-> s, slot |-> slot, kernel |-> Bottom])
    BY <1>1, <1>5, Zenon DEF NewTask, Bottom
  <2> HIDE DEF slot
  <2>3. /\ StackBottom(slot) \in Nat
        /\ \A i \in 0 .. StackPages - 1 : StackBottom(slot) + i \in AllPages
    <3>1. StackBottom(slot) \in Nat
      BY <2>1, BottomAbove
    <3> QED
      BY <2>1, <3>1, StackInSpace
  <2>4. /\ m.view \in Views /\ Grew(spaces[s].view, m.view)
        /\ m.ok => \A i \in 0 .. StackPages - 1 : m.view[StackBottom(slot) + i] # NoFrame
    <3>1. spaces[s].view \in Views /\ frames + 1 \in Nat \ {0} /\ StackPages \in Nat
      BY <1>2, <1>3, SlotAssumption, SMTT(30) DEF SpaceSet
    <3> QED
      <4>1. AreaResult(spaces[s].view, StackBottom(slot), frames + 1, StackPages, m)
        BY <2>2, <2>3, <3>1, AreaGrows
      <4> QED
        BY <2>3, <4>1, Zenon DEF AreaResult
  <2> DEFINE new == [spaces[s] EXCEPT !.slots = @ \cup {slot}, !.view = m.view]
  <2>5. /\ new \in SpaceSet /\ new.slots = spaces[s].slots \cup {slot}
        /\ new.top = spaces[s].top /\ new.view = m.view
    BY <1>3, <2>1, <2>4, Zenon DEF SpaceSet
  <2>6. spaces' = [spaces EXCEPT ![s] = new]
    BY <2>2
  <2> HIDE DEF new
  <2>7. SpacesGrew
    BY <2>4, <2>5, <2>6, OneSpaceGrew, ZenonT(30)
  <2>8. CASE ~m.ok \/ Refused(SlotPages)
    BY <1>2, <2>2, <2>7, <2>8, KeptByGrowth
  <2>9. CASE m.ok /\ ~Refused(SlotPages)
    <3>1. KernelGrew
      BY <2>2, <2>9, StackMapsBeyond, SlotAssumption
    <3>2. s \in DOMAIN spaces' /\ spaces'[s] = new
      BY <1>2, <2>6
    <3>3. \A t \in DOMAIN tasks : tasks[t].space = s => tasks[t].slot # slot
      BY <2>1, Zenon DEF Inv, StackInv, UserStack
    <3>4. frames' \in Nat /\ tasks' = Append(tasks, [space |-> s, slot |-> slot, kernel |-> Bottom])
      BY <1>2, <2>2, <2>9, SlotAssumption, SMTT(30)
    <3>5. TaskAdded(s, slot)
      BY <1>2, <2>1, <2>4, <2>5, <2>9, <3>2, <3>3, <3>4, Zenon DEF TaskAdded
    <3> QED
      BY <2>7, <3>1, <3>5, KeptByNewTask
  <2> QED
    BY <2>8, <2>9
<1> QED
  BY <1>4, <1>5

\* load_userspace: the first address space and the first task.
LEMMA LoadStep ==
    ASSUME Inv, LoadUserspace PROVE Inv'
<1> DEFINE v == CHOOSE v \in UserPages : \A w \in UserPages : v <= w
           r == CHOOSE r \in map_memory_object(NewSpace, 1, objects'[1], v) : TRUE
           slot == alloc_bit({})
<1>1. /\ knext > 0 /\ spaces = <<>>
      /\ objects' = <<[size |-> 1, backing |-> <<<<frames + 1, 1>>>>]>>
      /\ spaces' = <<[r.space EXCEPT !.slots = {slot},
                              !.view = Show(@, StackBottom(slot), frames + 2, StackPages)]>>
      /\ alloc_kernel_stack(1 + StackPages)
      /\ frames' = frames + 1 + 2 * StackPages
      /\ tasks' = <<[space |-> 1, slot |-> slot, kernel |-> Bottom]>>
  BY Zenon DEF LoadUserspace, Bottom
<1>2. frames \in Nat /\ knext = 1 /\ tasks = <<>>
  BY <1>1, NoTaskYet DEF Inv, Types, KernelInv
<1>3. v \in Nat
  <2>1. \E w \in UserPages : \A x \in UserPages : w <= x
    BY SlotAssumption, LeastNumber
  <2> QED
    BY <2>1, SlotAssumption, Zenon
<1>4. objects' \in Seq(ObjectSet) /\ objects'[1] \in ObjectSet
  <2>1. [size |-> 1, backing |-> <<<<frames + 1, 1>>>>] \in ObjectSet
    BY <1>2 DEF ObjectSet, Backings
  <2> QED
    BY <1>1, <2>1
<1> HIDE DEF v
<1>5. /\ r.space \in SpaceSet /\ 0 \in r.space.top
  <2>1. NewSpace \in SpaceSet /\ 0 \in NewSpace.top
    BY <1>1, NewSpaceShowsKernel
  <2>2. r \in map_memory_object(NewSpace, 1, objects'[1], v)
    BY <1>3, <1>4, <2>1, MapGrows, Zenon
  <2>3. \A q \in map_memory_object(NewSpace, 1, objects'[1], v) :
            MapResult(NewSpace, 1, objects'[1], v, q)
    BY <1>3, <1>4, <2>1, MapGrows, Zenon
  <2> HIDE DEF r
  <2> QED
    BY <2>1, <2>2, <2>3, ZenonT(30) DEF MapResult
<1>6. slot \in 0 .. SlotBits - 2
  <2>1. 0 \in FreeBits({})
    BY SlotAssumption DEF FreeBits
  <2> QED
    BY <2>1, FreeBit DEF FreeBits
<1> HIDE DEF r, slot
<1> DEFINE shown == Show(r.space.view, StackBottom(slot), frames + 2, StackPages)
           new == [r.space EXCEPT !.slots = {slot}, !.view = shown]
<1>7. /\ shown \in Views
      /\ \A i \in 0 .. StackPages - 1 : shown[StackBottom(slot) + i] # NoFrame
  <2>1. /\ StackBottom(slot) \in Nat /\ r.space.view \in Views
        /\ frames + 2 \in Nat \ {0} /\ StackPages \in Nat
    <3>1. StackBottom(slot) \in Nat
      BY <1>6, BottomAbove
    <3>2. r.space.view \in Views
      BY <1>5 DEF SpaceSet
    <3> QED
      BY <1>2, <3>1, <3>2, SlotAssumption
  <2>2. \A i \in 0 .. StackPages - 1 : StackBottom(slot) + i \in AllPages
    BY <1>6, StackInSpace
  <2> QED
    BY <2>1, <2>2, ShowGrows, ZenonT(30)
<1> HIDE DEF shown
<1>8. new \in SpaceSet /\ new.slots = {slot} /\ new.view = shown /\ 0 \in new.top
  BY <1>5, <1>6, <1>7, Zenon DEF SpaceSet
<1>9. spaces' = <<new>>
  BY <1>1 DEF shown
<1> HIDE DEF new
<1>10. spaces' \in Seq(SpaceSet) /\ DOMAIN spaces' = {1} /\ spaces'[1] = new /\ spaces' # <<>>
  BY <1>8, <1>9
<1>11. SpacesGrew
  <2>1. DOMAIN spaces = {} /\ spaces = <<>> /\ knext > 0
    BY <1>1
  <2>2. \A q \in DOMAIN spaces' : 0 \in spaces'[q].top
    BY <1>8, <1>10
  <2> QED
    BY <1>10, <2>1, <2>2 DEF SpacesGrew
<1>12. KernelGrew
  <2>1. ~ Refused(SlotPages) /\ 1 + StackPages \in Nat
    BY <1>2, SlotAssumption, KernelAssumption DEF Refused
  <2> QED
    BY <1>1, <2>1, StackMapsBeyond
<1>13. TaskAdded(1, slot)
  <2>1. tasks' = Append(tasks, [space |-> 1, slot |-> slot, kernel |-> Bottom])
    BY <1>1, <1>2
  <2>2. frames' \in Nat
    BY <1>1, <1>2, SlotAssumption
  <2>3. DOMAIN tasks = {}
    BY <1>2
  <2> QED
    BY <1>1, <1>4, <1>6, <1>7, <1>8, <1>10, <2>1, <2>2, <2>3 DEF TaskAdded
<1> QED
  BY <1>11, <1>12, <1>13, KeptByNewTask

\* Whatever tasks ask for, the invariant holds.
THEOREM InvHolds == AddressSpacesSpec => []Inv
<1>1. ASSUME Inv, [AddressSpacesNext]_avars PROVE Inv'
  <2>1. CASE UNCHANGED avars
    BY <1>1, <2>1, SameSpaces, KeptByGrowth, Zenon DEF avars, Inv, Types
  <2>2. CASE AddressSpacesNext
    BY <1>1, <2>2, BootStep, LoadStep, CreateObjectStep, MapStep, CreateSpaceStep, SpawnStep,
       ResizeStep, UnimplementedStep DEF AddressSpacesNext
  <2> QED
    BY <1>1, <2>1, <2>2
<1> QED
  BY <1>1, Initially, PTL DEF AddressSpacesSpec

\* No two tasks share a stack, every stack is mapped whole, and under each kernel
\* stack is a page that is not, for every size of stacks, slots and bitmaps.
THEOREM StacksStayApart == AddressSpacesSpec => []StacksApart
  BY InvHolds, InvGivesStacks, PTL

\* Every address space shows all of the kernel's dynamic area, as long as that
\* fits under one entry of the top table.
THEOREM KernelStaysVisible == AddressSpacesSpec => []KernelSeenEverywhere
  BY InvHolds, InvGivesKernel, PTL

-----------------------------------------------------------------------------
\* Objects are to be seen where they are mapped.

\* All of an object's memory is to be seen from page v on.
ShownWhole(view, v, object) ==
    \A j \in 1 .. Len(object.backing) : \A i \in 0 .. object.backing[j][2] - 1 :
        /\ v + Below(object.backing)[j - 1] + i \in AllPages
        /\ view[v + Below(object.backing)[j - 1] + i] = object.backing[j][1] + i

\* The pieces of an object are as long as the object.
SizeAgrees(object) == Below(object.backing)[Len(object.backing)] = object.size

\* The object mapped at page v of an address space is there, and seen unless short.
Visible(s, v) ==
    /\ v \in UserPages /\ spaces[s].mappings[v] \in DOMAIN objects
    /\ <<s, v>> \notin short =>
           ShownWhole(spaces[s].view, v, objects[spaces[s].mappings[v]])

\* What is needed about objects to go from one step to the next.
VisibleInv ==
    /\ \A o \in DOMAIN objects : SizeAgrees(objects[o])
    /\ \A s \in DOMAIN spaces : \A v \in DOMAIN spaces[s].mappings : Visible(s, v)

\* A page of an object is in one of its pieces.
LEMMA PageInPiece ==
    ASSUME NEW object \in ObjectSet, SizeAgrees(object), NEW i \in 0 .. object.size - 1
    PROVE  \E k \in DOMAIN object.backing :
               Below(object.backing)[k - 1] <= i /\ i < Below(object.backing)[k]
<1> DEFINE b == object.backing
           n == Len(b)
           T == { k \in 0 .. n : i < Below(b)[k] }
<1>1. /\ b \in Backings /\ n \in Nat /\ DOMAIN b = 1 .. n /\ object.size \in Nat
      /\ \A k \in 0 .. n : Below(b)[k] \in Nat
  BY BelowGrows DEF ObjectSet, Backings
<1>2. n \in T
  <2>1. Below(b)[n] = object.size
    BY DEF SizeAgrees
  <2>2. n \in 0 .. n /\ i < object.size
    BY <1>1
  <2> QED
    BY <2>1, <2>2
<1>3. PICK k \in T : \A y \in T : k <= y
  <2>1. T \in SUBSET Nat /\ T # {}
    BY <1>1, <1>2
  <2> QED
    BY <2>1, LeastNumber, ZenonT(30)
<1>4. k \in 0 .. n /\ i < Below(b)[k]
  BY <1>3
<1>5. k # 0
  BY <1>1, <1>4, BelowSums, SMTT(30)
<1>6. k \in DOMAIN b /\ k - 1 \in 0 .. n /\ ~ (k <= k - 1)
  BY <1>1, <1>4, <1>5, SMTT(30)
<1>7. k - 1 \notin T
  <2> HIDE DEF T
  <2> QED
    BY <1>3, <1>6
<1>8. Below(b)[k - 1] <= i
  BY <1>1, <1>6, <1>7, SMTT(30)
<1> QED
  BY <1>4, <1>6, <1>8, Zenon

\* So an object whose pieces are to be seen shows page i at place i.
LEMMA PiecesMakeObject ==
    ASSUME NEW object \in ObjectSet, SizeAgrees(object), NEW view, NEW v \in Nat,
           ShownWhole(view, v, object), NEW i \in 0 .. object.size - 1
    PROVE  view[v + i] = FramesOf(object)[i]
<1> DEFINE b == object.backing
           k == CHOOSE k \in DOMAIN b : Below(b)[k - 1] <= i /\ i < Below(b)[k]
<1>1. k \in DOMAIN b /\ Below(b)[k - 1] <= i /\ i < Below(b)[k]
  BY PageInPiece
<1>2. FramesOf(object)[i] = b[k][1] + i - Below(b)[k - 1]
  BY DEF FramesOf
<1>3. PICK kk : kk = k
  OBVIOUS
<1> HIDE DEF k
<1>4. b \in Backings /\ i \in Nat
  BY DEF ObjectSet
<1>5. kk \in 1 .. Len(b) /\ kk - 1 \in 0 .. Len(b) /\ b[kk] \in (Nat \ {0}) \X Nat
  <2>1. b \in Seq((Nat \ {0}) \X Nat)
    BY <1>4 DEF Backings
  <2>2. Len(b) \in Nat /\ DOMAIN b = 1 .. Len(b)
    BY <2>1
  <2>3. kk \in DOMAIN b
    BY <1>1, <1>3
  <2> HIDE DEF b
  <2> QED
    BY <2>1, <2>2, <2>3
<1>6. PICK x \in Nat : x = Below(b)[kk - 1]
  BY <1>4, <1>5, BelowGrows, Zenon
<1>7. PICK f \in Nat : f = b[kk][1]
  BY <1>5
<1>8. PICK size \in Nat : size = b[kk][2]
  BY <1>5
<1>9. Below(b)[kk] = x + size
  <2>1. Below(b)[kk] = Below(b)[kk - 1] + b[kk][2]
    <3> HIDE DEF b
    <3> QED
      BY <1>4, <1>5, BelowSums, Zenon
  <2> QED
    BY <1>6, <1>8, <2>1, Zenon
<1>10. x <= i /\ i < x + size
  BY <1>1, <1>3, <1>6, <1>9, SMTT(30)
<1>11. i - x \in 0 .. size - 1 /\ v + x + (i - x) = v + i /\ f + (i - x) = f + i - x
  BY <1>4, <1>10
<1>12. view[v + x + (i - x)] = f + (i - x)
  BY <1>5, <1>6, <1>7, <1>8, <1>11, ZenonT(30) DEF ShownWhole
<1> QED
  BY <1>2, <1>3, <1>6, <1>7, <1>11, <1>12, SMTT(30)

\* What the invariant says of one mapping.
LEMMA ShownNow ==
    ASSUME Inv, VisibleInv, NEW s \in DOMAIN spaces, NEW v \in DOMAIN spaces[s].mappings,
           NEW o, o = spaces[s].mappings[v]
    PROVE  /\ o \in DOMAIN objects /\ objects[o] \in ObjectSet /\ v \in UserPages
           /\ <<s, v>> \notin short => ShownWhole(spaces[s].view, v, objects[o])
<1>1. Visible(s, v)
  BY DEF VisibleInv
<1>2. /\ o \in DOMAIN objects /\ v \in UserPages
      /\ <<s, v>> \notin short => ShownWhole(spaces[s].view, v, objects[o])
  BY <1>1, ZenonT(30) DEF Visible
<1>3. objects \in Seq(ObjectSet)
  BY DEF Inv, Types
<1>4. objects[o] \in ObjectSet
  BY <1>2, <1>3
<1> QED
  BY <1>2, <1>4

\* The property follows, page by page.
LEMMA InvGivesVisible ==
    ASSUME Inv, VisibleInv PROVE MappedObjectsVisible
<1> SUFFICES ASSUME NEW s \in DOMAIN spaces, NEW v \in DOMAIN spaces[s].mappings,
                    <<s, v>> \notin short,
                    NEW i \in 0 .. objects[spaces[s].mappings[v]].size - 1
             PROVE  spaces[s].view[v + i] = FramesOf(objects[spaces[s].mappings[v]])[i]
  BY Zenon DEF MappedObjectsVisible
<1>1. PICK o : o = spaces[s].mappings[v]
  OBVIOUS
<1>2. /\ o \in DOMAIN objects /\ objects[o] \in ObjectSet /\ v \in UserPages
      /\ ShownWhole(spaces[s].view, v, objects[o])
  BY <1>1, ShownNow
<1>3. SizeAgrees(objects[o]) /\ v \in Nat
  BY <1>2, SlotAssumption DEF VisibleInv
<1>4. i \in 0 .. objects[o].size - 1
  BY <1>1
<1>5. spaces[s].view[v + i] = FramesOf(objects[o])[i]
  BY <1>2, <1>3, <1>4, PiecesMakeObject
<1> QED
  BY <1>1, <1>5

\* What is to be seen stays so.
LEMMA ShownStays ==
    ASSUME NEW object \in ObjectSet, NEW view, NEW later, NEW v,
           Kept(view, later), ShownWhole(view, v, object)
    PROVE  ShownWhole(later, v, object)
<1> SUFFICES ASSUME NEW j \in 1 .. Len(object.backing),
                    NEW i \in 0 .. object.backing[j][2] - 1
             PROVE  /\ v + Below(object.backing)[j - 1] + i \in AllPages
                    /\ later[v + Below(object.backing)[j - 1] + i] = object.backing[j][1] + i
  BY SMTT(30) DEF ShownWhole
<1>1. object.backing[j][1] + i # NoFrame
  <2>1. object.backing \in Backings
    BY DEF ObjectSet
  <2>2. object.backing[j][1] \in Nat \ {0} /\ i \in Nat
    BY <2>1, SMTT(30) DEF Backings
  <2> QED
    BY <2>2, SMTT(30) DEF NoFrame
<1> QED
  BY <1>1, Zenon DEF ShownWhole, Kept

\* Address spaces keep their mappings and what they show, and new ones have none.
SpacesKept ==
    /\ DOMAIN spaces \subseteq DOMAIN spaces'
    /\ \A s \in DOMAIN spaces : /\ spaces'[s].mappings = spaces[s].mappings
                                /\ Kept(spaces[s].view, spaces'[s].view)
    /\ \A s \in DOMAIN spaces' \ DOMAIN spaces : DOMAIN spaces'[s].mappings = {}

\* Objects stay as they are.
ObjectsKept ==
    /\ DOMAIN objects \subseteq DOMAIN objects'
    /\ \A o \in DOMAIN objects : objects'[o] = objects[o]
    /\ \A o \in DOMAIN objects' \ DOMAIN objects : SizeAgrees(objects'[o])

\* Steps that keep the mappings, the pages and the objects.
LEMMA VisibleKept ==
    ASSUME Inv, VisibleInv, SpacesKept, ObjectsKept, short \subseteq short'
    PROVE  VisibleInv'
<1>1. \A o \in DOMAIN objects' : SizeAgrees(objects'[o])
  BY DEF VisibleInv, ObjectsKept
<1>2. ASSUME NEW s \in DOMAIN spaces', NEW v \in DOMAIN spaces'[s].mappings
      PROVE  Visible(s, v)'
  <2>1. /\ s \in DOMAIN spaces /\ spaces'[s].mappings = spaces[s].mappings
        /\ v \in DOMAIN spaces[s].mappings /\ Kept(spaces[s].view, spaces'[s].view)
    BY SMTT(30) DEF SpacesKept
  <2>2. PICK o : o = spaces[s].mappings[v]
    OBVIOUS
  <2>3. /\ v \in UserPages /\ o \in DOMAIN objects /\ objects[o] \in ObjectSet
        /\ <<s, v>> \notin short => ShownWhole(spaces[s].view, v, objects[o])
    BY <2>1, <2>2, ShownNow
  <2>4. o \in DOMAIN objects' /\ objects'[o] = objects[o]
    BY <2>3, SMTT(30) DEF ObjectsKept
  <2>5. <<s, v>> \notin short' => ShownWhole(spaces'[s].view, v, objects'[o])
    BY <2>1, <2>3, <2>4, ShownStays, SMTT(30)
  <2> QED
    BY <2>1, <2>2, <2>3, <2>4, <2>5, SMTT(30) DEF Visible
<1>3. \A o \in DOMAIN objects' : SizeAgrees(objects[o])'
  BY <1>1 DEF SizeAgrees
<1> QED
  BY <1>2, <1>3, SMTT(30) DEF VisibleInv

\* Where neither changes.
LEMMA NothingMoved ==
    ASSUME TRUE
    PROVE  /\ spaces' = spaces => SpacesKept
           /\ objects' = objects => ObjectsKept
  BY DEF SpacesKept, ObjectsKept, Kept

\* A mapping of an object that stays as it is.
LEMMA MappingKept ==
    ASSUME Inv, VisibleInv, NEW s \in DOMAIN spaces, NEW v \in DOMAIN spaces[s].mappings,
           NEW o, o = spaces[s].mappings[v], spaces'[s].mappings[v] = o,
           Kept(spaces[s].view, spaces'[s].view),
           o \in DOMAIN objects', objects'[o] = objects[o],
           <<s, v>> \notin short' => <<s, v>> \notin short
    PROVE  Visible(s, v)'
<1>1. /\ v \in UserPages /\ objects[o] \in ObjectSet
      /\ <<s, v>> \notin short => ShownWhole(spaces[s].view, v, objects[o])
  BY ShownNow
<1>2. <<s, v>> \notin short' => ShownWhole(spaces'[s].view, v, objects'[o])
  BY <1>1, ShownStays, SMTT(30)
<1> QED
  BY <1>1, <1>2, SMTT(30) DEF Visible

\* A mapping that succeeded, of an object that does not reach past the pages.
LEMMA ShownAll ==
    ASSUME NEW object \in ObjectSet, SizeAgrees(object), NEW view, NEW v \in Nat,
           Shown(view, v, object.backing, Len(object.backing)),
           v + object.size - 1 \in AllPages
    PROVE  ShownWhole(view, v, object)
<1> DEFINE b == object.backing
<1> SUFFICES ASSUME NEW j \in 1 .. Len(b), NEW i \in 0 .. b[j][2] - 1
             PROVE  /\ v + Below(b)[j - 1] + i \in AllPages
                    /\ view[v + Below(b)[j - 1] + i] = b[j][1] + i
  BY SMTT(30) DEF ShownWhole
<1>1. b \in Backings /\ Len(b) \in Nat /\ b[j] \in (Nat \ {0}) \X Nat
  BY SMTT(30) DEF ObjectSet, Backings
<1>2. PICK size \in Nat : size = object.size
  BY DEF ObjectSet
<1>3. PICK x \in Nat : x = Below(b)[j - 1]
  BY <1>1, BelowGrows, SMTT(30)
<1>4. PICK n \in Nat : n = b[j][2]
  BY <1>1
<1>5. Below(b)[j] = x + n
  BY <1>1, <1>3, <1>4, BelowSums, Zenon
<1>6. x + n <= size
  BY <1>1, <1>2, <1>5, BelowGrows, SMTT(30) DEF SizeAgrees
<1>7. i \in Nat /\ i <= n - 1
  BY <1>4
<1>8. v + x + i \in AllPages
  BY <1>2, <1>6, <1>7, SlotAssumption, SMTT(30) DEF AllPages
<1> QED
  BY <1>3, <1>8, ZenonT(30) DEF Shown

\* An object of one piece.
LEMMA OnePiece ==
    ASSUME NEW frame \in Nat \ {0}, NEW size \in Nat, NEW object,
           object = [size |-> size, backing |-> <<<<frame, size>>>>]
    PROVE  object \in ObjectSet /\ SizeAgrees(object)
<1> DEFINE b == <<<<frame, size>>>>
<1>1. b \in Backings /\ Len(b) = 1 /\ b[1][2] = size
  BY DEF Backings
<1>2. object \in ObjectSet /\ object.backing = b /\ object.size = size
  BY <1>1 DEF ObjectSet
<1> HIDE DEF b
<1>3. Below(b)[0] = 0 /\ Below(b)[1] = Below(b)[1 - 1] + b[1][2]
  <2>1. Below(b)[0] = 0 /\ \A k \in 1 .. Len(b) : Below(b)[k] = Below(b)[k - 1] + b[k][2]
    BY <1>1, BelowSums
  <2>2. 1 \in 1 .. Len(b)
    BY <1>1
  <2> QED
    BY <2>1, <2>2, Zenon
<1>4. Below(b)[1] = size
  BY <1>1, <1>3, SMTT(30)
<1> QED
  BY <1>1, <1>2, <1>4 DEF SizeAgrees

\* create_memory_object.
LEMMA CreateObjectShows ==
    ASSUME Inv, VisibleInv, CreateMemoryObject PROVE VisibleInv'
<1>1. PICK size \in ObjectSizes :
          objects' = Append(objects, [size |-> size, backing |-> <<<<frames + 1, size>>>>])
  BY Zenon DEF CreateMemoryObject
<1>2. PICK new : new = [size |-> size, backing |-> <<<<frames + 1, size>>>>]
  BY Zenon
<1>3. objects \in Seq(ObjectSet) /\ frames + 1 \in Nat \ {0} /\ size \in Nat
  BY ObjectAssumption DEF Inv, Types
<1>4. new \in ObjectSet /\ SizeAgrees(new)
  BY <1>2, <1>3, OnePiece
<1>5. objects' = Append(objects, new)
  BY <1>1, <1>2
<1>6. ObjectsKept
  BY <1>3, <1>4, <1>5 DEF ObjectsKept
<1>7. spaces' = spaces /\ short' = short
  BY DEF CreateMemoryObject
<1> QED
  BY <1>6, <1>7, NothingMoved, VisibleKept

\* map_memory_object.
LEMMA MapShows ==
    ASSUME Inv, VisibleInv, MapMemoryObject PROVE VisibleInv'
<1>1. PICK s \in DOMAIN spaces, id \in DOMAIN objects, v \in UserPages :
        \E r \in map_memory_object(spaces[s], id, objects[id], v) :
            /\ v + objects[id].size - 1 \in AllPages
            /\ spaces' = [spaces EXCEPT ![s] = r.space]
            /\ short' = IF r.ok THEN short \ {<<s, v>>} ELSE short
  BY ZenonT(30) DEF MapMemoryObject
<1>2. PICK r \in map_memory_object(spaces[s], id, objects[id], v) :
            /\ v + objects[id].size - 1 \in AllPages
            /\ spaces' = [spaces EXCEPT ![s] = r.space]
            /\ short' = IF r.ok THEN short \ {<<s, v>>} ELSE short
  BY <1>1, ZenonT(30)
<1>3. objects \in Seq(ObjectSet) /\ spaces \in Seq(SpaceSet) /\ objects' = objects
  BY DEF Inv, Types, MapMemoryObject
<1>4. spaces[s] \in SpaceSet /\ objects[id] \in ObjectSet /\ id \in Nat /\ v \in Nat
  BY <1>3, SlotAssumption
<1>5. MapResult(spaces[s], id, objects[id], v, r)
  BY <1>2, <1>4, MapGrows
<1>6. /\ DOMAIN spaces' = DOMAIN spaces /\ spaces'[s] = r.space
      /\ \A q \in DOMAIN spaces \ {s} : spaces'[q] = spaces[q]
  BY <1>2, <1>3
<1>7. \A q \in DOMAIN spaces : Kept(spaces[q].view, spaces'[q].view)
  <2>1. Kept(spaces[s].view, r.space.view)
    BY <1>5, Zenon DEF MapResult
  <2>2. ASSUME NEW q \in DOMAIN spaces, q # s PROVE Kept(spaces[q].view, spaces'[q].view)
    BY <1>6, <2>2, SMTT(30) DEF Kept
  <2> QED
    BY <1>6, <2>1, <2>2, Zenon
<1>8. CASE ~ r.ok
  <2>1. r.space.mappings = spaces[s].mappings
    BY <1>5, <1>8, Zenon DEF MapResult
  <2>2. SpacesKept
    BY <1>6, <1>7, <2>1, Zenon DEF SpacesKept
  <2>3. short' = short
    BY <1>2, <1>8
  <2> QED
    BY <1>3, <2>2, <2>3, NothingMoved, VisibleKept
<1>9. CASE r.ok
  <2>1. /\ r.space.mappings = [p \in DOMAIN spaces[s].mappings \cup {v} |->
                                   IF p = v THEN id ELSE spaces[s].mappings[p]]
        /\ Shown(r.space.view, v, objects[id].backing, Len(objects[id].backing))
    BY <1>5, <1>9, Zenon DEF MapResult
  <2>2. short' = short \ {<<s, v>>}
    BY <1>2, <1>9
  <2>3. \A o \in DOMAIN objects' : SizeAgrees(objects[o])'
    BY <1>3, Zenon DEF VisibleInv, SizeAgrees
  <2>4. ASSUME NEW q \in DOMAIN spaces', NEW p \in DOMAIN spaces'[q].mappings
        PROVE  Visible(q, p)'
    <3>1. CASE q = s /\ p = v
      <4>1. SizeAgrees(objects[id])
        BY DEF VisibleInv
      <4>2. ShownWhole(r.space.view, v, objects[id])
        BY <1>2, <1>4, <2>1, <4>1, ShownAll
      <4>3. spaces'[q].mappings[p] = id
        BY <1>6, <2>1, <3>1, SMTT(30)
      <4> QED
        BY <1>3, <1>6, <3>1, <4>2, <4>3, SMTT(30) DEF Visible
    <3>2. CASE ~ (q = s /\ p = v)
      <4>1. /\ q \in DOMAIN spaces /\ p \in DOMAIN spaces[q].mappings
            /\ spaces'[q].mappings[p] = spaces[q].mappings[p]
        <5>1. CASE q = s
          <6>1. spaces'[q].mappings = r.space.mappings /\ p # v
            BY <1>6, <3>2, <5>1
          <6> QED
            BY <1>6, <2>1, <5>1, <6>1, Zenon
        <5>2. CASE q # s
          BY <1>6, <5>2
        <5> QED
          BY <5>1, <5>2
      <4>2. spaces[q].mappings[p] \in DOMAIN objects
        BY <4>1, ShownNow, Zenon
      <4>3. <<q, p>> \notin short' => <<q, p>> \notin short
        BY <2>2, <3>2
      <4> QED
        BY <1>3, <1>7, <4>1, <4>2, <4>3, MappingKept, ZenonT(30)
    <3> QED
      BY <3>1, <3>2
  <2> QED
    BY <2>3, <2>4, SMTT(30) DEF VisibleInv
<1> QED
  BY <1>8, <1>9

\* create_address_space.
LEMMA CreateSpaceShows ==
    ASSUME Inv, VisibleInv, CreateAddressSpace PROVE VisibleInv'
<1>1. spaces' = Append(spaces, NewSpace) /\ objects' = objects /\ short' = short
  BY DEF CreateAddressSpace
<1>2. spaces \in Seq(SpaceSet) /\ NewSpace \in SpaceSet
  BY NewSpaceShowsKernel DEF Inv, Types, KernelInv, CreateAddressSpace, SystemCall
<1>3. DOMAIN NewSpace.mappings = {}
  BY DEF NewSpace
<1>4. SpacesKept
  BY <1>1, <1>2, <1>3 DEF SpacesKept, Kept
<1> QED
  BY <1>1, <1>4, NothingMoved, VisibleKept

\* spawn_task: the stack of the new task goes where nothing is mapped.
LEMMA SpawnShows ==
    ASSUME Inv, VisibleInv, SpawnTask PROVE VisibleInv'
<1>1. PICK s \in DOMAIN spaces : NewTask(s, spaces[s])
  BY DEF SpawnTask
<1>2. spaces \in Seq(SpaceSet) /\ frames \in Nat /\ objects' = objects /\ short' = short
  BY DEF Inv, Types, SpawnTask
<1>3. spaces[s] \in SpaceSet
  BY <1>2
<1>4. CASE FreeBits(spaces[s].slots) = {}
  <2>1. spaces' = [spaces EXCEPT ![s] = spaces[s]]
    BY <1>1, <1>4, Zenon DEF NewTask
  <2>2. spaces' = spaces
    BY <1>2, <2>1
  <2> QED
    BY <1>2, <2>2, NothingMoved, VisibleKept
<1>5. CASE FreeBits(spaces[s].slots) # {}
  <2> DEFINE slot == alloc_bit(spaces[s].slots)
  <2>1. slot \in 0 .. SlotBits - 2
    BY <1>5, FreeBit DEF FreeBits
  <2>2. PICK m \in area_results(spaces[s].view, StackBottom(slot), frames + 1, StackPages) :
            spaces' = [spaces EXCEPT ![s] =
                         [spaces[s] EXCEPT !.slots = @ \cup {slot}, !.view = m.view]]
    BY <1>1, <1>5, Zenon DEF NewTask
  <2> HIDE DEF slot
  <2>3. Kept(spaces[s].view, m.view)
    <3>1. /\ spaces[s].view \in Views /\ frames + 1 \in Nat \ {0} /\ StackPages \in Nat
          /\ StackBottom(slot) \in Nat
      <4>1. StackBottom(slot) \in Nat
        BY <2>1, BottomAbove
      <4>2. spaces[s].view \in Views
        BY <1>3 DEF SpaceSet
      <4> QED
        BY <1>2, <4>1, <4>2, SlotAssumption
    <3>2. AreaResult(spaces[s].view, StackBottom(slot), frames + 1, StackPages, m)
      BY <2>2, <3>1, AreaGrows
    <3> QED
      BY <3>2, SMTT(30) DEF AreaResult
  <2> DEFINE new == [spaces[s] EXCEPT !.slots = @ \cup {slot}, !.view = m.view]
  <2>4. new.mappings = spaces[s].mappings /\ new.view = m.view
    BY <1>3 DEF SpaceSet
  <2>5. spaces' = [spaces EXCEPT ![s] = new]
    BY <2>2
  <2> HIDE DEF new
  <2>6. SpacesKept
    BY <1>2, <2>3, <2>4, <2>5 DEF SpacesKept, Kept
  <2> QED
    BY <1>2, <2>6, NothingMoved, VisibleKept
<1> QED
  BY <1>4, <1>5

\* load_userspace: the stack is beyond the pages objects are mapped at.
LEMMA LoadShows ==
    ASSUME Inv, VisibleInv, LoadUserspace PROVE VisibleInv'
<1> DEFINE v == CHOOSE v \in UserPages : \A w \in UserPages : v <= w
           r == CHOOSE r \in map_memory_object(NewSpace, 1, objects'[1], v) : TRUE
           slot == alloc_bit({})
<1>1. /\ knext > 0
      /\ objects' = <<[size |-> 1, backing |-> <<<<frames + 1, 1>>>>]>>
      /\ spaces' = <<[r.space EXCEPT !.slots = {slot},
                              !.view = Show(@, StackBottom(slot), frames + 2, StackPages)]>>
  BY Zenon DEF LoadUserspace
<1>2. frames \in Nat
  BY DEF Inv, Types
<1>3. v \in UserPages /\ v \in Nat /\ v < StackBase
  <2>1. \E w \in UserPages : \A x \in UserPages : w <= x
    BY SlotAssumption, LeastNumber
  <2> QED
    BY <2>1, SlotAssumption, Zenon
<1> HIDE DEF v
<1>4. PICK object : object = objects'[1]
  OBVIOUS
<1>5. /\ object \in ObjectSet /\ SizeAgrees(object) /\ object.size = 1
      /\ DOMAIN objects' = {1} /\ object.backing = <<<<frames + 1, 1>>>>
  <2>1. object = [size |-> 1, backing |-> <<<<frames + 1, 1>>>>] /\ DOMAIN objects' = {1}
    BY <1>1, <1>4
  <2>2. frames + 1 \in Nat \ {0}
    BY <1>2
  <2>3. object \in ObjectSet /\ SizeAgrees(object)
    BY <2>1, <2>2, OnePiece
  <2> QED
    BY <2>1, <2>3
<1>6. NewSpace \in SpaceSet /\ NewSpace.mappings = <<>>
  BY <1>1, NewSpaceShowsKernel DEF NewSpace
<1>7. MapResult(NewSpace, 1, object, v, r)
  <2>1. r \in map_memory_object(NewSpace, 1, objects'[1], v)
    BY <1>3, <1>4, <1>5, <1>6, MapGrows
  <2>2. \A q \in map_memory_object(NewSpace, 1, objects'[1], v) :
            MapResult(NewSpace, 1, objects'[1], v, q)
    BY <1>3, <1>4, <1>5, <1>6, MapGrows
  <2> HIDE DEF r
  <2> QED
    BY <1>4, <2>1, <2>2
<1>8. StackBottom(slot) \in Nat /\ v < StackBottom(slot)
  <2>1. 0 \in FreeBits({})
    BY SlotAssumption DEF FreeBits
  <2>2. slot \in 0 .. SlotBits - 2
    BY <2>1, FreeBit DEF FreeBits
  <2> HIDE DEF slot
  <2>3. StackBottom(slot) \in Nat /\ StackBase < StackBottom(slot) /\ StackBase \in Nat
    BY <2>2, BottomAbove, SlotAssumption
  <2>4. v \in Nat /\ v < StackBase
    BY <1>3, SlotAssumption
  <2> QED
    BY <2>3, <2>4
<1> HIDE DEF r, slot
<1> DEFINE shown == Show(r.space.view, StackBottom(slot), frames + 2, StackPages)
           new == [r.space EXCEPT !.slots = {slot}, !.view = shown]
<1>9. r.space \in SpaceSet
  BY <1>7 DEF MapResult
<1>10. v \in AllPages /\ shown[v] = r.space.view[v]
  <2>1. v \in AllPages
    BY <1>3, SlotAssumption DEF AllPages
  <2>2. v \in DOMAIN r.space.view
    BY <1>9, <2>1 DEF SpaceSet, Views
  <2> QED
    BY <1>3, <1>8, <2>1, <2>2, SlotAssumption DEF Show
<1> HIDE DEF shown
<1>11. new.mappings = r.space.mappings /\ new.view = shown
  BY <1>9 DEF SpaceSet
<1>12. spaces' = <<new>>
  BY <1>1 DEF shown
<1> HIDE DEF new
<1>13. DOMAIN spaces' = {1} /\ spaces'[1] = new
  BY <1>12
<1>14. CASE ~ r.ok
  <2>1. DOMAIN new.mappings = {}
    BY <1>6, <1>7, <1>11, <1>14, SMTT(30) DEF MapResult
  <2> QED
    BY <1>4, <1>5, <1>13, <2>1, ZenonT(30) DEF VisibleInv, SizeAgrees
<1>15. CASE r.ok
  <2>1. /\ r.space.mappings = [p \in DOMAIN <<>> \cup {v} |-> IF p = v THEN 1 ELSE <<>>[p]]
        /\ Shown(r.space.view, v, object.backing, Len(object.backing))
    BY <1>6, <1>7, <1>15, Zenon DEF MapResult
  <2>2. DOMAIN new.mappings = {v} /\ new.mappings[v] = 1
    BY <1>11, <2>1, SMTT(30)
  <2>3. ShownWhole(r.space.view, v, object)
    <3>1. v + object.size - 1 \in AllPages
      BY <1>3, <1>5, <1>10
    <3> QED
      BY <1>3, <1>5, <2>1, <3>1, ShownAll, ZenonT(30)
  <2>4. ShownWhole(shown, v, object)
    <3>1. /\ Len(object.backing) = 1 /\ object.backing[1][2] = 1
          /\ object.backing \in Backings
      BY <1>5 DEF ObjectSet
    <3>2. Below(object.backing)[0] = 0
      BY <3>1, BelowSums
    <3>3. /\ v + Below(object.backing)[1 - 1] + 0 = v
          /\ \A j \in 1 .. Len(object.backing) : j = 1
          /\ \A i \in 0 .. object.backing[1][2] - 1 : i = 0
      BY <1>3, <3>1, <3>2
    <3> QED
      BY <1>10, <2>3, <3>3, Zenon DEF ShownWhole
  <2>5. Visible(1, v)'
    BY <1>3, <1>4, <1>5, <1>11, <1>13, <2>2, <2>4, Zenon DEF Visible
  <2> QED
    BY <1>4, <1>5, <1>13, <2>2, <2>5, ZenonT(30) DEF VisibleInv, SizeAgrees
<1> QED
  BY <1>14, <1>15

\* An object with one more piece.
GrownBy(object, x) == [size |-> object.size + x[2], backing |-> Append(object.backing, x)]

\* An object that gains a piece, where the piece is shown after the others.
LEMMA GrownShown ==
    ASSUME NEW object \in ObjectSet, SizeAgrees(object), NEW x \in (Nat \ {0}) \X Nat,
           NEW grown, grown = GrownBy(object, x)
    PROVE  /\ grown \in ObjectSet /\ SizeAgrees(grown)
           /\ \A v \in Nat : \A view :
                /\ ShownWhole(view, v, object)
                /\ \A i \in 0 .. x[2] - 1 : /\ v + object.size + i \in AllPages
                                            /\ view[v + object.size + i] = x[1] + i
                => ShownWhole(view, v, grown)
<1> DEFINE b == object.backing
           c == Append(b, x)
<1>1. b \in Backings /\ object.size \in Nat /\ x[2] \in Nat /\ Len(b) \in Nat
  BY DEF ObjectSet, Backings
<1>2. /\ c \in Backings /\ Len(c) = Len(b) + 1 /\ c[Len(b) + 1] = x
      /\ \A k \in 1 .. Len(b) : c[k] = b[k]
      /\ \A k \in 0 .. Len(b) : Below(c)[k] = Below(b)[k]
      /\ Below(c)[Len(b) + 1] = Below(b)[Len(b)] + x[2]
  <2>1. PieceAdded(b, x, c)
    BY <1>1, BelowAdded
  <2> HIDE DEF b, c
  <2> QED
    BY <2>1, Zenon DEF PieceAdded
<1>3. grown = [size |-> object.size + x[2], backing |-> c]
  BY Zenon DEF GrownBy
<1> HIDE DEF c
<1>4. grown \in ObjectSet /\ grown.backing = c /\ grown.size = object.size + x[2]
  BY <1>1, <1>2, <1>3, SMTT(30) DEF ObjectSet
<1>5. SizeAgrees(grown)
  BY <1>2, <1>4, Zenon DEF SizeAgrees
<1>6. ASSUME NEW v \in Nat, NEW view, ShownWhole(view, v, object),
             \A i \in 0 .. x[2] - 1 : /\ v + object.size + i \in AllPages
                                      /\ view[v + object.size + i] = x[1] + i,
             NEW j \in 1 .. Len(c), NEW i \in 0 .. c[j][2] - 1
      PROVE  v + Below(c)[j - 1] + i \in AllPages /\ view[v + Below(c)[j - 1] + i] = c[j][1] + i
  <2>1. CASE j = Len(b) + 1
    <3>1. j - 1 = Len(b) /\ c[j] = x /\ Len(b) \in 0 .. Len(b)
      BY <1>1, <1>2, <2>1, SMTT(30)
    <3>2. Below(c)[j - 1] = object.size
      <4>1. Below(c)[Len(b)] = Below(b)[Len(b)]
        BY <1>2, <3>1, Zenon
      <4> QED
        BY <3>1, <4>1, Zenon DEF SizeAgrees
    <3> QED
      BY <1>6, <3>1, <3>2, Zenon
  <2>2. CASE j # Len(b) + 1
    <3>1. j \in 1 .. Len(b) /\ j - 1 \in 0 .. Len(b)
      BY <1>1, <1>2, <2>2, SMTT(30)
    <3>2. c[j] = b[j] /\ Below(c)[j - 1] = Below(b)[j - 1]
      BY <1>2, <3>1, Zenon
    <3> QED
      BY <1>6, <3>1, <3>2, Zenon DEF ShownWhole
  <2> QED
    BY <2>1, <2>2, Zenon
<1>7. ASSUME NEW v \in Nat, NEW view, ShownWhole(view, v, object),
             \A i \in 0 .. x[2] - 1 : /\ v + object.size + i \in AllPages
                                      /\ view[v + object.size + i] = x[1] + i
      PROVE  ShownWhole(view, v, grown)
  <2>1. \A j \in 1 .. Len(c) : \A i \in 0 .. c[j][2] - 1 :
            /\ v + Below(c)[j - 1] + i \in AllPages
            /\ view[v + Below(c)[j - 1] + i] = c[j][1] + i
    BY <1>6, <1>7, Zenon
  <2> QED
    BY <1>4, <2>1, Zenon DEF ShownWhole
<1> QED
  BY <1>4, <1>5, <1>7

\* resize_memory_object: of the mappings of the object that grew, the one the new
\* part was mapped at shows all of it, and the others are counted as short.
LEMMA ResizeShows ==
    ASSUME Inv, VisibleInv, ResizeMemoryObject PROVE VisibleInv'
<1>1. PICK t \in DOMAIN tasks, id \in DOMAIN objects, more \in ObjectSizes \ {0} :
        LET s == tasks[t].space
            old == objects[id].size
            at == { v \in DOMAIN spaces[s].mappings : spaces[s].mappings[v] = id }
            first == CHOOSE v \in at : \A w \in at : v <= w
            all == { m \in (DOMAIN spaces) \X UserPages :
                       /\ m[2] \in DOMAIN spaces[m[1]].mappings
                       /\ spaces[m[1]].mappings[m[2]] = id }
        IN /\ objects' = [objects EXCEPT ![id] =
                 [size |-> old + more, backing |-> Append(@.backing, <<frames + 1, more>>)]]
           /\ frames' = frames + more
           /\ IF at = {} THEN spaces' = spaces /\ short' = short \cup all
              ELSE /\ first + old + 2 * more - 1 \in AllPages
                   /\ \E m \in area_results(spaces[s].view, new_part(first, old, more),
                                            frames + 1, more) :
                        /\ spaces' = [spaces EXCEPT ![s].view = m.view]
                        /\ short' = IF m.ok THEN short \cup (all \ {<<s, first>>})
                                            ELSE short \cup all
  BY Zenon DEF ResizeMemoryObject
<1> DEFINE s == tasks[t].space
           old == objects[id].size
           at == { v \in DOMAIN spaces[s].mappings : spaces[s].mappings[v] = id }
           first == CHOOSE v \in at : \A w \in at : v <= w
           all == { m \in (DOMAIN spaces) \X UserPages :
                       /\ m[2] \in DOMAIN spaces[m[1]].mappings
                       /\ spaces[m[1]].mappings[m[2]] = id }
<1>2. /\ objects \in Seq(ObjectSet) /\ spaces \in Seq(SpaceSet) /\ frames \in Nat
      /\ more \in Nat \ {0} /\ s \in DOMAIN spaces
  BY ObjectAssumption, Zenon DEF Inv, Types, StackInv, UserStack
<1>3. spaces[s] \in SpaceSet /\ objects[id] \in ObjectSet /\ old \in Nat
  <2>1. spaces[s] \in SpaceSet /\ objects[id] \in ObjectSet
    BY <1>2
  <2> QED
    BY <2>1 DEF ObjectSet
<1>4. PICK grown : grown = [size |-> old + more,
                            backing |-> Append(objects[id].backing, <<frames + 1, more>>)]
  BY ZenonT(30)
<1>5. PICK x \in (Nat \ {0}) \X Nat : x = <<frames + 1, more>>
  <2>1. <<frames + 1, more>> \in (Nat \ {0}) \X Nat
    BY <1>2
  <2> QED
    BY <2>1
<1>6. /\ DOMAIN objects' = DOMAIN objects /\ objects'[id] = grown
      /\ \A o \in DOMAIN objects \ {id} : objects'[o] = objects[o]
  <2>1. objects' = [objects EXCEPT ![id] = grown]
    <3>1. objects' = [objects EXCEPT ![id] = [size |-> old + more,
                                 backing |-> Append(@.backing, <<frames + 1, more>>)]]
      BY <1>1, Zenon
    <3> QED
      BY <1>4, <3>1, Zenon
  <2> QED
    BY <1>2, <2>1
<1>7. x[1] = frames + 1 /\ x[2] = more
  BY <1>5
<1>8. /\ SizeAgrees(grown)
      /\ \A v \in Nat : \A view :
           /\ ShownWhole(view, v, objects[id])
           /\ \A i \in 0 .. x[2] - 1 : /\ v + old + i \in AllPages
                                       /\ view[v + old + i] = x[1] + i
           => ShownWhole(view, v, grown)
  <2>1. SizeAgrees(objects[id])
    BY DEF VisibleInv
  <2>2. grown = GrownBy(objects[id], x)
    BY <1>4, <1>5, <1>7, Zenon DEF GrownBy
  <2> QED
    BY <1>3, <2>1, <2>2, GrownShown, Zenon
<1>9. \A o \in DOMAIN objects' : SizeAgrees(objects[o])'
  BY <1>6, <1>8, Zenon DEF VisibleInv, SizeAgrees
<1>10. /\ DOMAIN spaces' = DOMAIN spaces
       /\ \A q \in DOMAIN spaces : /\ spaces'[q].mappings = spaces[q].mappings
                                   /\ Kept(spaces[q].view, spaces'[q].view)
       /\ short \subseteq short'
       /\ \A q \in all \ short' :
            /\ q = <<s, first>> /\ first \in Nat
            /\ \A i \in 0 .. more - 1 : /\ first + old + i \in AllPages
                                        /\ spaces'[s].view[first + old + i] = frames + 1 + i
  <2>1. CASE at = {}
    <3>1. spaces' = spaces /\ short' = short \cup all
      BY <1>1, <2>1, Zenon
    <3> HIDE DEF all
    <3> QED
      BY <3>1, Zenon DEF Kept
  <2>2. CASE at # {}
    <3>1. PICK m \in area_results(spaces[s].view, new_part(first, old, more), frames + 1, more) :
              /\ first + old + 2 * more - 1 \in AllPages
              /\ spaces' = [spaces EXCEPT ![s].view = m.view]
              /\ short' = IF m.ok THEN short \cup (all \ {<<s, first>>}) ELSE short \cup all
      BY <1>1, <2>2, Zenon
    <3>2. first \in Nat
      <4>1. PICK D \in SUBSET Nat : spaces[s].mappings \in [D -> Nat]
        <5>1. spaces[s].mappings \in Mappings
          BY <1>3, Zenon DEF SpaceSet
        <5> QED
          BY <5>1, Zenon DEF Mappings
      <4>2. at \in SUBSET Nat
        BY <4>1, ZenonT(30)
      <4> HIDE DEF at
      <4>3. \E v \in at : \A w \in at : v <= w
        BY <2>2, <4>2, LeastNumber, Zenon
      <4> QED
        BY <4>2, <4>3, ZenonT(30)
    <3> HIDE DEF first, all
    <3>3. /\ new_part(first, old, more) = first + old /\ first + old \in Nat
          /\ frames + 1 \in Nat \ {0}
      BY <1>2, <1>3, <3>2, SMTT(30) DEF new_part
    <3>4. AreaResult(spaces[s].view, first + old, frames + 1, more, m)
      <4>1. spaces[s].view \in Views
        BY <1>3, Zenon DEF SpaceSet
      <4> QED
        BY <1>2, <3>1, <3>3, <4>1, AreaGrows, Zenon
    <3> DEFINE new == [spaces[s] EXCEPT !.view = m.view]
    <3>5. new.mappings = spaces[s].mappings /\ new.view = m.view
      BY <1>3 DEF SpaceSet
    <3>6. spaces' = [spaces EXCEPT ![s] = new]
      BY <3>1
    <3> HIDE DEF new
    <3>7. /\ DOMAIN spaces' = DOMAIN spaces /\ spaces'[s] = new
          /\ \A q \in DOMAIN spaces \ {s} : spaces'[q] = spaces[q]
      BY <1>2, <3>6, Zenon
    <3>8. Kept(spaces[s].view, m.view)
      BY <3>4, Zenon DEF AreaResult
    <3>9. ASSUME NEW q \in DOMAIN spaces
          PROVE  /\ spaces'[q].mappings = spaces[q].mappings
                 /\ Kept(spaces[q].view, spaces'[q].view)
      <4>1. CASE q = s
        BY <3>5, <3>7, <3>8, <4>1, Zenon
      <4>2. CASE q # s
        BY <3>7, <4>2, Zenon DEF Kept
      <4> QED
        BY <4>1, <4>2, Zenon
    <3>10. short \subseteq short'
      BY <3>1
    <3>11. ASSUME NEW q \in all \ short' PROVE m.ok /\ q = <<s, first>>
      BY <3>1, <3>11
    <3>12. ASSUME m.ok, NEW i \in 0 .. more - 1
           PROVE  /\ first + old + i \in AllPages
                  /\ spaces'[s].view[first + old + i] = frames + 1 + i
      <4>1. first + old + i \in AllPages
        <5>1. i \in Nat /\ more \in Nat /\ i <= more - 1 /\ old \in Nat
          <6>1. more \in Nat /\ old \in Nat
            BY <1>2, <1>3, SMTT(30)
          <6> HIDE DEF old, s
          <6> QED
            BY <6>1
        <5>2. PICK last \in Int : last = StackBase + SlotBits * SlotPages - 1
          <6>1. SlotBits * SlotPages \in Nat
            BY SlotAssumption
          <6> QED
            BY <6>1, SlotAssumption
        <5>3. AllPages = 0 .. last /\ last \in Int
          BY <5>2, Zenon DEF AllPages
        <5>4. first + old + 2 * more - 1 <= last
          BY <3>1, <5>3
        <5> HIDE DEF old
        <5> QED
          BY <3>2, <5>1, <5>3, <5>4, SMTT(30)
      <4> QED
        BY <3>4, <3>5, <3>7, <3>12, <4>1, Zenon DEF AreaResult
    <3> QED
      BY <3>2, <3>7, <3>9, <3>10, <3>11, <3>12, Zenon
  <2> QED
    BY <2>1, <2>2, Zenon
<1>11. ASSUME NEW q \in DOMAIN spaces', NEW v \in DOMAIN spaces'[q].mappings
       PROVE  Visible(q, v)'
  <2>1. PICK o : o = spaces[q].mappings[v]
    OBVIOUS
  <2>2. /\ q \in DOMAIN spaces /\ v \in DOMAIN spaces[q].mappings /\ spaces'[q].mappings[v] = o
        /\ Kept(spaces[q].view, spaces'[q].view)
    BY <1>10, <2>1, Zenon
  <2>3. /\ o \in DOMAIN objects /\ v \in UserPages
        /\ <<q, v>> \notin short => ShownWhole(spaces[q].view, v, objects[o])
    BY <2>1, <2>2, ShownNow, Zenon
  <2>4. <<q, v>> \notin short' => <<q, v>> \notin short
    BY <1>10, Zenon
  <2>5. CASE o # id
    BY <1>6, <2>1, <2>2, <2>3, <2>4, <2>5, MappingKept, Zenon
  <2>6. CASE o = id
    <3>1. <<q, v>> \in all
      BY <2>1, <2>2, <2>3, <2>6, ZenonT(30)
    <3>2. ASSUME <<q, v>> \notin short' PROVE ShownWhole(spaces'[q].view, v, grown)
      <4> HIDE DEF all, first, s
      <4>1. /\ q = s /\ v = first /\ v \in Nat
            /\ \A i \in 0 .. more - 1 : /\ v + old + i \in AllPages
                                        /\ spaces'[q].view[v + old + i] = frames + 1 + i
        <5>1. <<q, v>> \in all \ short'
          BY <3>1, <3>2, Zenon
        <5>2. /\ <<q, v>> = <<s, first>> /\ first \in Nat
              /\ \A i \in 0 .. more - 1 : /\ first + old + i \in AllPages
                                          /\ spaces'[s].view[first + old + i] = frames + 1 + i
          BY <1>10, <5>1, ZenonT(30)
        <5>3. q = s /\ v = first
          BY <5>2
        <5> QED
          BY <5>2, <5>3, ZenonT(30)
      <4>2. ShownWhole(spaces[q].view, v, objects[id])
        BY <2>3, <2>4, <2>6, <3>2
      <4>3. ShownWhole(spaces'[q].view, v, objects[id])
        BY <1>3, <2>2, <4>2, ShownStays, Zenon
      <4> QED
        BY <1>7, <1>8, <4>1, <4>3, Zenon
    <3> QED
      BY <1>6, <2>2, <2>3, <2>6, <3>2, Zenon DEF Visible
  <2> QED
    BY <2>5, <2>6
<1> QED
  BY <1>9, <1>11, Zenon DEF VisibleInv

\* A task sees all of every object it has mapped, page by page, except where a
\* resize left a mapping short: whatever is mapped, refused, grown or spawned
\* around it, for every layout of memory and objects of any number of pieces.
THEOREM ObjectsStayVisible == AddressSpacesSpec => []MappedObjectsVisible
<1>1. ASSUME AddressSpacesInit PROVE VisibleInv
  BY <1>1 DEF AddressSpacesInit, VisibleInv
<1>2. ASSUME Inv, VisibleInv, [AddressSpacesNext]_avars PROVE VisibleInv'
  <2>1. CASE UNCHANGED avars
    BY <1>2, <2>1, NothingMoved, VisibleKept DEF avars
  <2>2. CASE BootMapsDevices \/ Unimplemented
    <3>1. UNCHANGED <<objects, spaces, short>>
      BY <2>2 DEF BootMapsDevices, Unimplemented
    <3> QED
      BY <1>2, <3>1, NothingMoved, VisibleKept
  <2>3. CASE LoadUserspace \/ CreateMemoryObject \/ MapMemoryObject
    BY <1>2, <2>3, LoadShows, CreateObjectShows, MapShows
  <2>4. CASE CreateAddressSpace \/ SpawnTask \/ ResizeMemoryObject
    BY <1>2, <2>4, CreateSpaceShows, SpawnShows, ResizeShows
  <2> QED
    BY <1>2, <2>1, <2>2, <2>3, <2>4 DEF AddressSpacesNext
<1>3. AddressSpacesSpec => []VisibleInv
  BY <1>1, <1>2, InvHolds, PTL DEF AddressSpacesSpec
<1> QED
  BY <1>3, InvHolds, InvGivesVisible, PTL
=============================================================================
