------------------------------- MODULE PageMap ------------------------------
(***************************************************************************)
(* What a set of page tables promises to the kernel and the bootloaders:   *)
(* the trait `PageTable` of lib/hal/src/memory/paging.rs, as a partial map *)
(* from pages to frames.  A page that is mapped is never remapped, and a   *)
(* call that fails may leave the first pages of its area mapped.           *)
(***************************************************************************)
EXTENDS Integers

CONSTANT
    Areas       \* the areas callers map: <<first page, first frame, length>>

VARIABLES
    grants,     \* the sets of hal Flags a mapping may carry on this machine
    view,       \* view[page]: <<frame, flags>>, or Unmapped
    touched,    \* the pages that have been mapped at some time
    failed      \* did the last map_area return Err(AlreadyMapped)?

Unmapped == <<>>

PageMapInit ==
    /\ \A page \in DOMAIN view : view[page] = Unmapped
    /\ touched = {}
    /\ failed = FALSE

\* The first `done` pages of the area are mapped, each to its own frame.
MapPrefix(area, flags, done) ==
    LET new == area[1] .. (area[1] + done - 1)
    IN /\ new \subseteq DOMAIN view
       /\ \A page \in new : view[page] = Unmapped
       /\ view' = [page \in DOMAIN view |->
                     IF page \in new THEN <<area[2] + page - area[1], flags>>
                                     ELSE view[page]]
       /\ touched' = touched \cup new

\* A call fails only if a page of its area is or was mapped.
MapArea ==
    \E area \in Areas, flags \in grants :
        \/ MapPrefix(area, flags, area[3]) /\ failed' = FALSE
        \/ /\ \E done \in 0 .. area[3] - 1 : MapPrefix(area, flags, done)
           /\ touched \cap (area[1] .. area[1] + area[3] - 1) # {}
           /\ failed' = TRUE

Unmap ==
    /\ \E page \in DOMAIN view : view' = [view EXCEPT ![page] = Unmapped]
    /\ UNCHANGED <<touched, failed>>

PageMapSpec == PageMapInit /\ [][MapArea \/ Unmap]_<<view, touched, failed>>
=============================================================================
