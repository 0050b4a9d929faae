--------------------------- MODULE FrameOwnership ---------------------------
(***************************************************************************)
(* What the physical memory manager promises its callers, with no          *)
(* allocator in it: runs of whole frames are handed out and taken back,    *)
(* and no frame is ever in two runs.                                       *)
(***************************************************************************)
EXTENDS Integers

CONSTANTS
    Usable,     \* the frames the boot loader reported as usable
    Counts,     \* the numbers of frames a caller may ask for
    RunLengths  \* the lengths, in frames, of the runs that may be handed out

VARIABLES
    held        \* the runs handed out: records [base, length, count]

Extent(run) == run.base .. (run.base + run.length - 1)

Runs == [base : Usable, length : RunLengths, count : Counts]

Init == held = {}

\* An aligned run of usable frames, at least as long as was asked for, is
\* handed out only if its caller gets it alone.
HandOut ==
    \E run \in Runs :
        /\ run.count <= run.length
        /\ run.base % run.length = 0
        /\ Extent(run) \subseteq Usable
        /\ \A other \in held : Extent(run) \cap Extent(other) = {}
        /\ held' = held \cup {run}

TakeBack ==
    \E run \in held : held' = held \ {run}

Next == HandOut \/ TakeBack

Spec == Init /\ [][Next]_held
=============================================================================
