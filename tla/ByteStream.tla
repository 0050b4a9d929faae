----------------------------- MODULE ByteStream -----------------------------
(***************************************************************************)
(* What a single-producer, single-consumer byte queue promises: the bytes  *)
(* come out once each, in the order they went in.  A byte is represented   *)
(* by its position in the stream.                                          *)
(***************************************************************************)
EXTENDS Integers, Sequences

CONSTANTS Capacity  \* how many bytes the queue can hold

VARIABLES
    queue,  \* the bytes put in and not taken out yet, oldest first
    sent    \* how many bytes were ever put in

Init == queue = <<>> /\ sent = 0

\* The producer makes some bytes visible at once.
Put ==
    \E n \in 1 .. Capacity - Len(queue) :
        /\ queue' = queue \o [i \in 1 .. n |-> sent + i]
        /\ sent' = sent + n

\* The consumer is done with some of the oldest bytes.
Take ==
    \E n \in 1 .. Len(queue) :
        /\ queue' = SubSeq(queue, n + 1, Len(queue))
        /\ UNCHANGED sent

Next == Put \/ Take

Spec == Init /\ [][Next]_<<queue, sent>>
=============================================================================
