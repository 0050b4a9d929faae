----------------------------- MODULE SpscQueue ------------------------------
(***************************************************************************)
(* The kernel's asynchronous byte queue (kernel/src/tasklets/queue.rs): a  *)
(* BipQueue and two WaitCells.  Its consumer is a tasklet such as the one  *)
(* that reads the UART; its producer is an interrupt handler that calls    *)
(* grant_sync, or a tasklet that awaits grant.                             *)
(*                                                                         *)
(* WaitCell belongs to the maitake crate.  A waiter that has subscribed is *)
(* woken by any later wake; WakesKept says whether a wake that finds no    *)
(* subscriber is remembered for the next one.                              *)
(***************************************************************************)
EXTENDS BipQueue

CONSTANT WakesKept

ASSUME WakesKeptAssumption == WakesKept \in BOOLEAN

VARIABLES
    commit_wait, release_wait,  \* "clear", "subscribed" or "woken"
    ptask,      \* "idle", "try", "asleep", "holding" or "signal"
    want,       \* the length the awaiting producer asks for
    ctask       \* "idle", "try", "asleep", "holding" or "signal"

waits == <<commit_wait, release_wait>>
svars == <<vars, waits, ptask, want, ctask>>

Subscribed(cell) == IF WakesKept THEN cell ELSE "subscribed"

Woken(cell) == IF WakesKept \/ cell = "subscribed" THEN "woken" ELSE cell

SInit ==
    /\ Init
    /\ commit_wait = "clear" /\ release_wait = "clear"
    /\ ptask = "idle" /\ want = 0
    /\ ctask = "idle"

-----------------------------------------------------------------------------

\* QueueProducer::grant_sync; when it fails it changes nothing.
GrantSync(length) ==
    /\ ptask = "idle"
    /\ Grant(length)
    /\ ptask' = "holding"
    /\ UNCHANGED <<waits, want, ctask>>

\* QueueProducer::grant subscribes before it looks for space.
GrantSubscribe(length) ==
    /\ ptask = "idle"
    /\ committed + length <= MaxBytes
    /\ release_wait' = Subscribed(release_wait)
    /\ want' = length
    /\ ptask' = "try"
    /\ UNCHANGED <<vars, commit_wait, ctask>>

GrantTry ==
    /\ ptask = "try"
    /\ \/ Grant(want) /\ ptask' = "holding"
       \/ GrantStarts(want) = {} /\ ptask' = "asleep" /\ UNCHANGED vars
    /\ UNCHANGED <<waits, want, ctask>>

\* The producer's tasklet is woken, and goes round its loop.
GrantWoken ==
    /\ ptask = "asleep"
    /\ release_wait = "woken"
    /\ release_wait' = "subscribed"
    /\ ptask' = "try"
    /\ UNCHANGED <<vars, commit_wait, want, ctask>>

\* Mutant of UseWriteGrant: the commit does not go on to wake the consumer.
CommitWithoutWake ==
    /\ ptask = "holding"
    /\ \/ (Fill \/ \E asked \in 0 .. N + 1 : CommitWatermark(asked)) /\ UNCHANGED ptask
       \/ (CommitWrite \/ DropWriteGrant) /\ ptask' = "idle"
    /\ UNCHANGED <<waits, want, ctask>>

\* The holder fills its grant and commits it, or drops it.
UseWriteGrant ==
    /\ ptask = "holding"
    /\ \/ (Fill \/ \E asked \in 0 .. N + 1 : CommitWatermark(asked)) /\ UNCHANGED ptask
       \/ CommitWrite /\ ptask' = "signal"
       \/ DropWriteGrant /\ ptask' = "idle"
    /\ UNCHANGED <<waits, want, ctask>>

\* WriteGrant::commit wakes the consumer once the bytes are in the queue.
CommitSignal ==
    /\ ptask = "signal"
    /\ commit_wait' = Woken(commit_wait)
    /\ ptask' = "idle"
    /\ UNCHANGED <<vars, release_wait, want, ctask>>

-----------------------------------------------------------------------------

\* QueueConsumer::read subscribes before it looks for bytes.
ReadSubscribe ==
    /\ ctask = "idle"
    /\ commit_wait' = Subscribed(commit_wait)
    /\ ctask' = "try"
    /\ UNCHANGED <<vars, release_wait, ptask, want>>

\* Mutant of ReadTry: the tasklet subscribes only once it has found no bytes.
SubscribeLate ==
    /\ ctask = "try"
    /\ \/ (ReadLoadWrite \/ ReadLoadWatermark) /\ UNCHANGED <<ctask, commit_wait>>
       \/ /\ ReadFinish
          /\ ctask' = IF ReadLength = 0 THEN "asleep" ELSE "holding"
          /\ commit_wait' = "subscribed"
    /\ UNCHANGED <<release_wait, ptask, want>>

ReadTry ==
    /\ ctask = "try"
    /\ \/ (ReadLoadWrite \/ ReadLoadWatermark) /\ UNCHANGED ctask
       \/ /\ ReadFinish
          /\ ctask' = IF ReadLength = 0 THEN "asleep" ELSE "holding"
    /\ UNCHANGED <<waits, ptask, want>>

\* The consumer's tasklet is woken, and goes round its loop.
ReadWoken ==
    /\ ctask = "asleep"
    /\ commit_wait = "woken"
    /\ commit_wait' = "subscribed"
    /\ ctask' = "try"
    /\ UNCHANGED <<vars, release_wait, ptask, want>>

\* The tasklet uses at least one byte of what it was granted.
UseReadGrant ==
    /\ ctask = "holding"
    /\ \E asked \in 1 .. N : Release(asked)
    /\ ctask' = "signal"
    /\ UNCHANGED <<waits, ptask, want>>

\* ReadGrant::release wakes the producer once the bytes are gone.
ReleaseSignal ==
    /\ ctask = "signal"
    /\ release_wait' = Woken(release_wait)
    /\ ctask' = "idle"
    /\ UNCHANGED <<vars, commit_wait, ptask, want>>

-----------------------------------------------------------------------------

ProducerStep ==
    \/ \E length \in 1 .. N : GrantSync(length) \/ GrantSubscribe(length)
    \/ GrantTry \/ GrantWoken \/ UseWriteGrant \/ CommitSignal

ConsumerStep ==
    ReadSubscribe \/ ReadTry \/ ReadWoken \/ UseReadGrant \/ ReleaseSignal

SNext == ProducerStep \/ ConsumerStep

\* The interrupt handler and the tasklet both run again whenever they can; no
\* byte has to be produced.
SSpec ==
    /\ SInit
    /\ [][SNext]_svars
    /\ WF_svars(GrantTry \/ GrantWoken \/ UseWriteGrant \/ CommitSignal)
    /\ WF_svars(ConsumerStep)

-----------------------------------------------------------------------------

ConsumerAsleep == ctask = "asleep" /\ commit_wait # "woken"

ProducerAsleep == ptask = "asleep" /\ release_wait # "woken"

\* A task that sleeps although it could go on, with no wake on its way, has the
\* index that read() moved to the front of the buffer to thank for it: a consumer
\* went by its stale copy of the index, a producer was not told of the space.
\* Every other order of subscribing, looking, committing, releasing and waking
\* keeps both awake.
SleepsOnlyAfterWrap ==
    /\ (ConsumerAsleep /\ ptask # "signal" /\ Contents # <<>>) => read # r_read
    /\ (ProducerAsleep /\ ctask # "signal" /\ GrantStarts(want) # {}) =>
           read = 0 /\ released > 0

\* Every committed byte is read in the end, unless the consumer went to sleep
\* on the step that moved its index to the front of the buffer.
DrainedOrWrapped ==
    <>[](Contents = <<>> \/ (ConsumerAsleep /\ read # r_read))

\* The documented use of commit_wait: a consumer that found no bytes is woken
\* when there are bytes to process.
SleepsOnlyWhenEmpty ==
    (ConsumerAsleep /\ ptask # "signal") => Contents = <<>>
=============================================================================
