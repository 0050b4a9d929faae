------------------------------ MODULE BipQueue ------------------------------
(***************************************************************************)
(* The lock-free bi-partite byte queue of lib/mulch/src/bipqueue.rs, used  *)
(* by one producer and one consumer that run concurrently.                 *)
(*                                                                         *)
(* A step contains at most one access to an atomic the other side also     *)
(* uses (read, write, watermark, storage); accesses to what only its own   *)
(* side uses (reserve, the two flags, its own index) are folded into it.   *)
(* Every store is a Release and every load an Acquire, and each index has  *)
(* one writer, so the accesses are seen in program order.                  *)
(***************************************************************************)
EXTENDS Integers, Sequences

CONSTANTS
    N,          \* the size of the buffer
    MaxBytes    \* bound: how many bytes the producer ever asks to write

ASSUME NAssumption == N \in Nat \ {0}

ASSUME MaxBytesAssumption == MaxBytes \in Nat

VARIABLES
    storage,        \* storage[i]: which byte of the stream is there, 0 if uninitialised
    read, write, reserve, watermark, read_granted, write_granted,
    producer,       \* where the producer is, and its locals: the slice of its
    w_start, w_length, new_write,                   \* WriteGrant, and in commit
    consumer,       \* where the consumer is, and its locals: what it loaded in
    r_read, r_write, r_watermark, r_length,         \* read, and its ReadGrant
    committed,      \* how many bytes were committed
    released        \* how many bytes were released

shared == <<storage, read, write, reserve, watermark, read_granted, write_granted>>
pvars == <<producer, w_start, w_length, new_write>>
cvars == <<consumer, r_read, r_write, r_watermark, r_length>>
vars == <<shared, pvars, cvars, committed, released>>

Lesser(a, b) == IF a < b THEN a ELSE b

Init ==
    /\ storage = [i \in 0 .. N - 1 |-> 0]
    /\ read = 0
    /\ write = 0
    /\ reserve = 0
    /\ watermark = N
    /\ read_granted = FALSE
    /\ write_granted = FALSE
    /\ producer = "idle" /\ w_start = 0 /\ w_length = 0 /\ new_write = 0
    /\ consumer = "idle" /\ r_read = 0 /\ r_write = 0 /\ r_watermark = 0 /\ r_length = 0
    /\ committed = 0
    /\ released = 0

-----------------------------------------------------------------------------

\* Mutant of GrantStarts: write may catch up with read.
StartsUpToRead(length) ==
    IF write < read
      THEN { s \in {write} : write + length <= read }
      ELSE IF write + length <= N
             THEN {write}
             ELSE { s \in {0} : length < read }

\* Where grant puts `length` bytes; there is no such place when it fails
\* with NotEnoughSpace.
GrantStarts(length) ==
    IF write < read
      THEN { s \in {write} : write + length < read }
      ELSE IF write + length <= N
             THEN {write}
             ELSE { s \in {0} : length < read }

\* BipQueue::grant.  The failing paths put the flag back and change nothing.
Grant(length) ==
    /\ producer = "idle"
    /\ ~write_granted
    /\ committed + length <= MaxBytes
    /\ w_start' \in GrantStarts(length)
    /\ w_length' = length
    /\ reserve' = w_start' + length
    /\ write_granted' = TRUE
    /\ producer' = "granted"
    /\ UNCHANGED <<storage, read, write, watermark, read_granted, new_write, cvars,
                   committed, released>>

\* The holder of the grant writes the next bytes of the stream into it.
Fill ==
    /\ producer = "granted"
    /\ storage' = [i \in 0 .. N - 1 |->
                     IF w_start <= i /\ i < w_start + w_length
                       THEN committed + 1 + (i - w_start)
                       ELSE storage[i]]
    /\ producer' = "filled"
    /\ UNCHANGED <<read, write, reserve, watermark, read_granted, write_granted,
                   w_start, w_length, new_write, cvars, committed, released>>

\* Mutant of CommitWatermark: wrapping does not mark the end of the data.
WrapWithoutMark(asked) ==
    /\ producer = "filled"
    /\ w_length' = Lesser(asked, w_length)
    /\ reserve' = reserve - (w_length - w_length')
    /\ new_write' = reserve'
    /\ watermark' = IF new_write' > watermark THEN N ELSE watermark
    /\ producer' = "commit"
    /\ UNCHANGED <<storage, read, write, read_granted, write_granted, w_start, cvars,
                   committed, released>>

\* WriteGrant::commit up to the store to the watermark.
CommitWatermark(asked) ==
    /\ producer = "filled"
    /\ w_length' = Lesser(asked, w_length)
    /\ reserve' = reserve - (w_length - w_length')
    /\ new_write' = reserve'
    /\ watermark' = IF new_write' < write /\ write # N THEN write
                    ELSE IF new_write' > watermark THEN N
                    ELSE watermark
    /\ producer' = "commit"
    /\ UNCHANGED <<storage, read, write, read_granted, write_granted, w_start, cvars,
                   committed, released>>

\* The rest of WriteGrant::commit: the bytes become visible to the consumer.
CommitWrite ==
    /\ producer = "commit"
    /\ write' = new_write
    /\ write_granted' = FALSE
    /\ committed' = committed + w_length
    /\ producer' = "idle"
    /\ UNCHANGED <<storage, read, reserve, watermark, read_granted, w_start, w_length,
                   new_write, cvars, released>>

\* A WriteGrant is dropped without being committed.
DropWriteGrant ==
    /\ producer \in {"granted", "filled"}
    /\ write_granted' = FALSE
    /\ producer' = "idle"
    /\ UNCHANGED <<storage, read, write, reserve, watermark, read_granted, w_start,
                   w_length, new_write, cvars, committed, released>>

-----------------------------------------------------------------------------

\* BipQueue::read loads its own index and the producer's.
ReadLoadWrite ==
    /\ consumer = "idle"
    /\ ~read_granted
    /\ read_granted' = TRUE
    /\ r_read' = read
    /\ r_write' = write
    /\ consumer' = "loaded"
    /\ UNCHANGED <<storage, read, write, reserve, watermark, write_granted, pvars,
                   r_watermark, r_length, committed, released>>

ReadLoadWatermark ==
    /\ consumer = "loaded"
    /\ r_watermark' = watermark
    /\ consumer' = "marked"
    /\ UNCHANGED <<shared, pvars, r_read, r_write, r_length, committed, released>>

\* The number of bytes read grants, computed from the values it loaded.
ReadLength ==
    IF r_write < r_read THEN r_watermark - r_read ELSE r_write - r_read

\* Mutant of ReadFinish: the index wraps before the upper region is used up.
WrapEarly ==
    /\ consumer = "marked"
    /\ read' = IF r_write < r_read THEN 0 ELSE read
    /\ IF ReadLength = 0
         THEN /\ read_granted' = FALSE
              /\ consumer' = "idle"
              /\ UNCHANGED r_length
         ELSE /\ consumer' = "granted"
              /\ r_length' = ReadLength
              /\ UNCHANGED read_granted
    /\ UNCHANGED <<storage, write, reserve, watermark, write_granted, pvars, r_read,
                   r_write, r_watermark, committed, released>>

\* The rest of BipQueue::read: wrap the index if the upper region is used up,
\* then grant what lies above the index it loaded, or fail with NoBytes.
ReadFinish ==
    /\ consumer = "marked"
    /\ read' = IF r_write < r_read /\ r_read = r_watermark THEN 0 ELSE read
    /\ IF ReadLength = 0
         THEN /\ read_granted' = FALSE
              /\ consumer' = "idle"
              /\ UNCHANGED r_length
         ELSE /\ consumer' = "granted"
              /\ r_length' = ReadLength
              /\ UNCHANGED read_granted
    /\ UNCHANGED <<storage, write, reserve, watermark, write_granted, pvars, r_read,
                   r_write, r_watermark, committed, released>>

\* ReadGrant::release.
Release(asked) ==
    /\ consumer = "granted"
    /\ read' = read + Lesser(asked, r_length)
    /\ released' = released + Lesser(asked, r_length)
    /\ read_granted' = FALSE
    /\ consumer' = "idle"
    /\ UNCHANGED <<storage, write, reserve, watermark, write_granted, pvars, r_read,
                   r_write, r_watermark, r_length, committed>>

\* A ReadGrant is dropped without being released.
DropReadGrant ==
    /\ consumer = "granted"
    /\ read_granted' = FALSE
    /\ consumer' = "idle"
    /\ UNCHANGED <<storage, read, write, reserve, watermark, write_granted, pvars,
                   r_read, r_write, r_watermark, r_length, committed, released>>

-----------------------------------------------------------------------------

Produce ==
    \/ \E length \in 0 .. N : Grant(length)
    \/ Fill
    \/ \E asked \in 0 .. N + 1 : CommitWatermark(asked)
    \/ CommitWrite
    \/ DropWriteGrant

Consume ==
    \/ ReadLoadWrite
    \/ ReadLoadWatermark
    \/ ReadFinish
    \/ \E asked \in 0 .. N + 1 : Release(asked)
    \/ DropReadGrant

Next == Produce \/ Consume

Spec == Init /\ [][Next]_vars

-----------------------------------------------------------------------------

\* The committed and unreleased bytes, in the order a reader meets them.
Contents ==
    IF write < read
      THEN [i \in 1 .. watermark - read |-> storage[read + i - 1]]
           \o [i \in 1 .. write |-> storage[i - 1]]
      ELSE [i \in 1 .. write - read |-> storage[read + i - 1]]

Stream == INSTANCE ByteStream WITH
    queue <- Contents, sent <- committed, Capacity <- N

Writing == producer \in {"granted", "filled", "commit"}

\* Type correctness of the queue's state.
TypeOK ==
    /\ storage \in [0 .. N - 1 -> 0 .. MaxBytes]
    /\ read \in 0 .. N /\ write \in 0 .. N /\ reserve \in 0 .. N /\ watermark \in 0 .. N
    /\ read_granted \in BOOLEAN /\ write_granted \in BOOLEAN
    /\ producer \in {"idle", "granted", "filled", "commit"}
    /\ w_start \in 0 .. N /\ w_length \in 0 .. N /\ new_write \in 0 .. N
    /\ consumer \in {"idle", "loaded", "marked", "granted"}
    /\ r_read \in 0 .. N /\ r_write \in 0 .. N /\ r_watermark \in 0 .. N
    /\ r_length \in 0 .. N
    /\ committed \in 0 .. MaxBytes
    /\ released \in 0 .. MaxBytes

\* A byte the producer may write is never one the consumer may read: the
\* slices behind a WriteGrant and a ReadGrant never overlap, so using both at
\* once is not a data race.
GrantsDisjoint ==
    (Writing /\ consumer = "granted") =>
        \A i \in 0 .. N - 1 :
            ~ /\ w_start <= i /\ i < w_start + w_length
              /\ r_read <= i /\ i < r_read + r_length

\* What a ReadGrant shows is the next bytes of the stream, in order, and stays
\* so for as long as the grant is held.
ReadsInOrder ==
    consumer = "granted" =>
        \A i \in 0 .. N - 1 :
            (r_read <= i /\ i < r_read + r_length) =>
                storage[i] = released + 1 + (i - r_read)

\* The subtraction `watermark - read` never underflows: the index, the write
\* index and the watermark, loaded one after the other while the producer may
\* commit in between, are always consistent.
LengthNeverUnderflows ==
    consumer = "marked" => ReadLength >= 0

\* The queue is a stream: bytes are lost, repeated or reordered neither by
\* wrapping nor by any interleaving of the two sides.
IsFifo == Stream!Spec

\* Half the buffer always fits in a queue that is empty and whose consumer has
\* noticed that it is: fragmentation costs a grant at most half the buffer.
HalfFitsWhenEmpty ==
    (read = write /\ producer = "idle") =>
        \A length \in 0 .. N \div 2 : GrantStarts(length) # {}

-----------------------------------------------------------------------------

\* The flags are up exactly while a grant is out or being made.
FlagsInv ==
    /\ write_granted <=> producer # "idle"
    /\ read_granted <=> consumer # "idle"

\* Where the indices stand, with one active region (read <= write) or two.
IndexInv ==
    /\ write <= watermark
    /\ write < read => read <= watermark

\* Where a write grant lies: above `write` and, with two regions, strictly
\* below `read`; or at the front, strictly below `read`, about to wrap.
ProducerInv ==
    Writing =>
        /\ reserve = w_start + w_length
        /\ committed + w_length <= MaxBytes
        /\ \/ /\ w_start = write
              /\ write + w_length <= N
              /\ write < read => write + w_length < read
           \/ /\ w_start = 0
              /\ read <= write
              /\ w_length < read
              /\ producer = "commit" => watermark = write
        /\ producer = "commit" =>
              /\ new_write = w_start + w_length
              /\ new_write <= watermark

\* What the consumer loaded is still usable: only the consumer moves `read`,
\* and while two regions are active only it can make them one again.
ConsumerInv ==
    /\ consumer # "idle" => r_read = read
    /\ consumer \in {"loaded", "marked"} =>
          IF r_write < read
            THEN write < read
            ELSE \/ read <= write /\ r_write <= write
                 \/ write < read /\ r_write <= watermark
    /\ (consumer = "marked" /\ r_write < read) => r_watermark = watermark
    /\ consumer = "granted" =>
          IF write < read THEN read + r_length <= watermark
                          ELSE read + r_length <= write

\* Which bytes of the stream the active regions and a filled grant hold.
DataInv ==
    /\ write < read =>
          /\ committed = released + (watermark - read) + write
          /\ \A i \in 0 .. N - 1 :
                /\ (read <= i /\ i < watermark) => storage[i] = released + 1 + (i - read)
                /\ i < write => storage[i] = released + 1 + (watermark - read) + i
    /\ read <= write =>
          /\ committed = released + (write - read)
          /\ \A i \in 0 .. N - 1 :
                (read <= i /\ i < write) => storage[i] = released + 1 + (i - read)
    /\ producer \in {"filled", "commit"} =>
          \A i \in 0 .. N - 1 :
             (w_start <= i /\ i < w_start + w_length) =>
                storage[i] = committed + 1 + (i - w_start)

\* The inductive invariant of the queue: the layout the two sides keep for each
\* other, of which every safety property above is a consequence.
IInv ==
    /\ TypeOK
    /\ FlagsInv
    /\ IndexInv
    /\ ProducerInv
    /\ ConsumerInv
    /\ DataInv
=============================================================================
