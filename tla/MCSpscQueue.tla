---------------------------- MODULE MCSpscQueue -----------------------------
(***************************************************************************)
(* The asynchronous queue over a small buffer, and long enough a stream    *)
(* for the buffer to wrap twice.                                           *)
(***************************************************************************)
EXTENDS SpscQueue
=============================================================================
