------------------------------- MODULE Runtime -------------------------------
\* The asynchronous runtime of a program (lib/poplar/src/rt): its loop, the
\* reactor, and the futures that wait for a message, an event or an interrupt,
\* with the system calls they make (lib/poplar/src/syscall, kernel/src/syscall).
\* The rest of the system acts between any two of these calls. A future serves one
\* object for ever: it waits, deals with what came, and waits again. The executor
\* (the crate maitake) is external.
EXTENDS Integers, Sequences, FiniteSets, TLC, SequencesExt

CONSTANTS
    Futures,     \* the spawned futures, numbers in the order they were spawned
    KindOf(_),   \* what the object of a future is: "channel", "event", "interrupt"
    MaxSignals   \* bound: how often each object is signalled

VARIABLES
    pending,    \* per object: the messages in the channel, or 1 if signalled
    masked,     \* the interrupt objects whose line is masked until they are acked
    interests,  \* the reactor's map: who waits for each object, 0 for nobody
    run_queue,  \* the futures that were spawned or woken, in order
    loop,       \* where the program is: a step of the loop, the handles left to
                \* poll and the future that runs
    signals     \* how often each object was signalled

rvars == <<pending, masked, interests, run_queue, loop, signals>>

\* An object, and its handle, has the number of the future that serves it.
LoopAt(step, handles, future) == [at |-> step, handles |-> handles, future |-> future]

RuntimeInit ==
    /\ pending = [o \in Futures |-> 0]
    /\ masked = {}
    /\ interests = [o \in Futures |-> 0]
    /\ run_queue = SetToSortSeq(Futures, <)
    /\ loop = LoopAt("yield", <<>>, 0)
    /\ signals = [o \in Futures |-> 0]

-----------------------------------------------------------------------------
\* Results of system calls: the kernel makes a word of them, the wrapper in the
\* program a result of the word.

GetMessageError == <<"InvalidChannelHandle", "NotAChannel", "NoMessage", "BytesAddressInvalid",
                     "BytesBufferTooSmall", "HandlesAddressInvalid", "HandlesBufferTooSmall">>
WaitForEventError == (1 :> "InvalidEventHandle") @@ (3 :> "NoEvent")
WaitForInterruptError == <<"InvalidInterruptHandle", "NoInterrupt">>

into(errors, name) == CHOOSE n \in DOMAIN errors : errors[n] = name

status_to_syscall_repr(errors, result) == IF result = "Ok" THEN 0 ELSE into(errors, result)
status_from_syscall_repr(errors, word) == IF word = 0 THEN "Ok" ELSE errors[word]

-----------------------------------------------------------------------------
\* The calls in the kernel, for a handle that is valid and of the right type.

\* A message, or what was signalled, is taken if there is one.
Taken(o) == [pending EXCEPT ![o] = IF @ = 0 THEN 0 ELSE @ - 1]

get_message(o) == status_to_syscall_repr(GetMessageError, IF pending[o] > 0 THEN "Ok" ELSE "NoMessage")
wait_for_event(o) == status_to_syscall_repr(WaitForEventError, IF pending[o] > 0 THEN "Ok" ELSE "NoEvent")
wait_for_interrupt(o) ==
    status_to_syscall_repr(WaitForInterruptError, IF pending[o] > 0 THEN "Ok" ELSE "NoInterrupt")

\* Whether an object is interesting is said by bit 16, above the status.
poll_interest(o) == IF pending[o] > 0 THEN 2 ^ 16 ELSE 0
interesting(word) == word \div 2 ^ 16 # 0

\* The same in the program: Ready when the call succeeds, Pending when there was
\* nothing yet.
receive(o) == status_from_syscall_repr(GetMessageError, get_message(o) % 2 ^ 16)
event_ready(o) == status_from_syscall_repr(WaitForEventError, wait_for_event(o))
interrupt_ready(o) == status_from_syscall_repr(WaitForInterruptError, wait_for_interrupt(o))

Ready(o) ==
    "Ok" = CASE KindOf(o) = "channel" -> receive(o)
             [] KindOf(o) = "event" -> event_ready(o)
             [] KindOf(o) = "interrupt" -> interrupt_ready(o)

-----------------------------------------------------------------------------
\* The loop.

\* The call that yields; poll then copies the handles somebody waits for.
Yields ==
    /\ loop.at = "yield"
    /\ loop' = LoopAt("poll", SetToSortSeq({ o \in Futures : interests[o] # 0 }, <), 0)
    /\ UNCHANGED <<pending, masked, interests, run_queue, signals>>

\* Mutant: nobody is kept for an object that was not interesting.
Kept_none(o) == [interests EXCEPT ![o] = 0]

\* The interests after an object was polled: its waker is used up.
Kept(o) == IF interesting(poll_interest(o)) THEN [interests EXCEPT ![o] = 0] ELSE interests

\* One handle of poll.
Polls ==
    /\ loop.at = "poll" /\ loop.handles # <<>>
    /\ LET o == Head(loop.handles)
       IN /\ interests' = Kept(o)
          /\ run_queue' = IF interesting(poll_interest(o)) THEN Append(run_queue, interests[o])
                          ELSE run_queue
    /\ loop' = [loop EXCEPT !.handles = Tail(@)]
    /\ UNCHANGED <<pending, masked, signals>>

\* The executor runs the futures in its queue until there are none.
Ticks ==
    /\ \/ loop.at = "poll" /\ loop.handles = <<>>
       \/ loop.at = "tick"
    /\ IF run_queue = <<>> THEN loop' = LoopAt("yield", <<>>, 0) /\ UNCHANGED run_queue
       ELSE loop' = LoopAt("run", <<>>, Head(run_queue)) /\ run_queue' = Tail(run_queue)
    /\ UNCHANGED <<pending, masked, interests, signals>>

\* A future is polled: it takes what came, if anything did.
Waits ==
    /\ loop.at = "run"
    /\ LET o == loop.future
       IN /\ pending' = Taken(o)
          /\ loop' = [loop EXCEPT !.at = IF ~Ready(o) THEN "register"
                                         ELSE IF KindOf(o) = "interrupt" THEN "ack" ELSE "run"]
    /\ UNCHANGED <<masked, interests, run_queue, signals>>

\* It found nothing: its waker goes to the reactor, and it is left alone.
register ==
    /\ loop.at = "register"
    /\ interests' = [interests EXCEPT ![loop.future] = loop.future]
    /\ loop' = LoopAt("tick", <<>>, 0)
    /\ UNCHANGED <<pending, masked, run_queue, signals>>

\* The handler of an interrupt is done: the object is cleared, its line unmasked.
ack ==
    /\ loop.at = "ack"
    /\ pending' = [pending EXCEPT ![loop.future] = 0]
    /\ masked' = masked \ {loop.future}
    /\ loop' = [loop EXCEPT !.at = "run"]
    /\ UNCHANGED <<interests, run_queue, signals>>

ProgramStep == Yields \/ Polls \/ Ticks \/ Waits \/ register \/ ack

-----------------------------------------------------------------------------
\* The rest of the system.

\* A message is sent, an event signalled, or an interrupt triggered and masked.
Signal(o) ==
    /\ signals[o] < MaxSignals
    /\ o \notin masked
    /\ pending' = [pending EXCEPT ![o] = IF KindOf(o) = "channel" THEN @ + 1 ELSE 1]
    /\ masked' = IF KindOf(o) = "interrupt" THEN masked \cup {o} ELSE masked
    /\ signals' = [signals EXCEPT ![o] = @ + 1]
    /\ UNCHANGED <<interests, run_queue, loop>>

RuntimeNext == ProgramStep \/ \E o \in Futures : Signal(o)

-----------------------------------------------------------------------------
\* Properties.

\* No future waits for ever for an object that has something for it: what arrives
\* after the future looked and before its waker is registered, or while the
\* reactor polls, is seen the next time round. Objects are signalled finitely
\* often, so that time and again everything was served.
EverySignalServed == []<>(\A o \in Futures : pending[o] = 0)

=============================================================================
