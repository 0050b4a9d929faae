------------------------------- MODULE Paging -------------------------------
(***************************************************************************)
(* Calls on a set of page tables, and what the memory-management unit      *)
(* makes of the tables after each.  Tables are owned by one CPU and a call *)
(* runs to its end, so a call is one step.                                 *)
(***************************************************************************)
EXTENDS PageTables

CONSTANTS
    Architectures,  \* a subset of {"x86_64", "sv48", "sv39"}
    Areas,          \* the areas callers map: <<first page, first frame, length>>
    HalFlags,       \* the hal Flags callers pass, as sets of the names that are true
    MaxCalls        \* bound on the number of calls

VARIABLES
    arch,       \* the build this behaviour is of, "none" before there are tables
    tables,     \* the tables
    view,       \* what the memory-management unit makes of them, page by page
    touched,    \* history: the pages that have been mapped at some time
    failed,     \* did the last map_area return Err(AlreadyMapped)?
    calls       \* the number of calls made

pvars == <<arch, tables, view, touched, failed, calls>>

\* RISC-V has no flag for `cached`.
Honoured(flags) == IF arch = "x86_64" THEN flags ELSE flags \ {"cached"}

\* Pages that lie in a page of 1GiB.
InGigapage(page) ==
    LET top == tables[IF Depth(arch) = 3 THEN 1 ELSE tables[1][IndexAt(page, 4)].to]
        e == top[IndexAt(page, 3)]
    IN /\ Depth(arch) = 4 => tables[1][IndexAt(page, 4)] # Unused
       /\ IF arch = "x86_64" THEN "HUGE_PAGE" \in e.flags ELSE riscv_is_leaf(e)

-----------------------------------------------------------------------------

PagingInit ==
    /\ arch = "none"
    /\ tables = <<>>
    /\ view = [page \in PageNumbers |-> Unmapped]
    /\ touched = {}
    /\ failed = FALSE
    /\ calls = 0

\* PageTableImpl::new
New ==
    /\ arch = "none"
    /\ arch' \in Architectures
    /\ tables' = <<ZeroTable>>
    /\ UNCHANGED <<view, touched, failed, calls>>

MapArea ==
    /\ arch # "none" /\ calls < MaxCalls
    /\ calls' = calls + 1
    /\ \E area \in Areas, flags \in HalFlags :
        /\ area[1] + area[3] <= Fanout ^ Depth(arch)
        /\ LET r == map_area(arch, tables, area, flags)
           IN /\ tables' = r.ts
              /\ view' = Sees(arch, r.ts)
              /\ touched' = touched \cup (area[1] .. area[1] + r.done - 1)
              /\ failed' = ~r.ok
    /\ UNCHANGED arch

\* In the place of a page that lies in a larger one, `unmap` clears 8 bytes of
\* data and leaves the tables as they are.
Unmap ==
    /\ calls < MaxCalls
    /\ calls' = calls + 1
    /\ \E page \in touched : tables' = unmap(arch, tables, page)
    /\ view' = Sees(arch, tables')
    /\ UNCHANGED <<arch, touched, failed>>

PagingNext == New \/ MapArea \/ Unmap

PagingSpec == PagingInit /\ [][PagingNext]_pvars

-----------------------------------------------------------------------------
\* Properties.

Views == INSTANCE PageMap WITH grants <- { Honoured(f) : f \in HalFlags }

\* Whatever page sizes `map_area` chooses, the hardware sees each page of the
\* area at its own frame with the rights that were asked for; a page that is
\* mapped keeps its frame and its rights until it is unmapped, and a call is
\* refused only if part of its area is or was in use.
TablesKeepPageMap == Views!PageMapSpec

\* The software walk of `translate` finds the frame the hardware finds, except
\* inside a page of 1GiB, which it takes for a table (the TODO in `translate`).
TranslateAgrees ==
    arch # "none" => \A page \in 0 .. Fanout ^ Depth(arch) - 1 :
        translate(arch, tables, page) =
            IF InGigapage(page) THEN Wild
            ELSE IF view[page] = Unmapped THEN Absent ELSE view[page][1]
=============================================================================
