---------------------------- MODULE QueueProofs -----------------------------
(***************************************************************************)
(* Proofs about the byte queue and the kernel's asynchronous queue on top  *)
(* of it, for every size of the buffer and any number of bytes.            *)
(*                                                                         *)
(* IInv describes the layout the two sides keep for each other; each       *)
(* action keeps each of its parts, and the safety of the queue follows     *)
(* from it.  From it also: the queue is a stream, waiting does not change  *)
(* what it does, and a task that sleeps although it could go on does so    *)
(* after the index wrapped and at no other time.                           *)
(***************************************************************************)
EXTENDS SpscQueue, Integers, TLAPS

-----------------------------------------------------------------------------
\* The byte queue keeps its layout.

\* The queue starts out in the layout IInv describes.
LEMMA InitIInv == Init => IInv
<1> SUFFICES ASSUME Init PROVE IInv
  OBVIOUS
<1> USE NAssumption, MaxBytesAssumption DEF Init
<1>1. TypeOK
  <2>1. read_granted \in BOOLEAN /\ write_granted \in BOOLEAN
    BY Zenon
  <2> QED
    BY <2>1 DEF TypeOK
<1>2. FlagsInv /\ IndexInv /\ ProducerInv /\ ConsumerInv
  BY DEF FlagsInv, IndexInv, ProducerInv, ConsumerInv, Writing
<1>3. DataInv
  BY DEF DataInv
<1> QED
  BY <1>1, <1>2, <1>3 DEF IInv

\* BipQueue::grant keeps the layout.
LEMMA GrantIInv ==
    ASSUME IInv, NEW length \in 0 .. N, Grant(length)
    PROVE  IInv'
<1> USE NAssumption, MaxBytesAssumption DEF Grant, IInv
<1>1. \/ /\ w_start' = write
         /\ write + length <= N
         /\ write < read => write + length < read
      \/ /\ w_start' = 0
         /\ read <= write
         /\ length < read
  BY DEF GrantStarts, TypeOK
<1>2. TypeOK'
  <2>1. write_granted' \in BOOLEAN /\ read_granted' \in BOOLEAN
    BY DEF TypeOK
  <2> QED
    BY <1>1, <2>1 DEF TypeOK, cvars
<1>3. FlagsInv'
  BY DEF FlagsInv, cvars
<1>4. IndexInv'
  BY DEF IndexInv
<1>5. ProducerInv'
  BY <1>1 DEF ProducerInv, Writing, TypeOK
<1>6. ConsumerInv'
  BY DEF ConsumerInv, cvars
<1>7. DataInv'
  BY DEF DataInv
<1> QED
  BY <1>2, <1>3, <1>4, <1>5, <1>6, <1>7

\* Writing into the grant touches no byte of an active region.
LEMMA FillIInv ==
    ASSUME IInv, Fill
    PROVE  IInv'
<1> USE NAssumption, MaxBytesAssumption DEF Fill, IInv
<1>1. TypeOK'
  <2>1. write_granted' \in BOOLEAN /\ read_granted' \in BOOLEAN
    BY DEF TypeOK
  <2>2. storage' \in [0 .. N - 1 -> 0 .. MaxBytes]
    BY DEF TypeOK, ProducerInv, Writing
  <2> QED
    BY <2>1, <2>2 DEF TypeOK, cvars
<1>2. FlagsInv'
  BY DEF FlagsInv, cvars
<1>3. IndexInv'
  BY DEF IndexInv
<1>4. ProducerInv'
  BY DEF ProducerInv, Writing
<1>5. ConsumerInv'
  BY DEF ConsumerInv, cvars
<1>6. DataInv'
  BY DEF DataInv, ProducerInv, IndexInv, Writing, TypeOK
<1> QED
  BY <1>1, <1>2, <1>3, <1>4, <1>5, <1>6

\* The first half of commit keeps the layout: the watermark moves only where
\* the consumer cannot be relying on it.
LEMMA CommitWatermarkIInv ==
    ASSUME IInv, NEW asked \in 0 .. N + 1, CommitWatermark(asked)
    PROVE  IInv'
<1> USE NAssumption, MaxBytesAssumption
<1>1. TypeOK /\ FlagsInv /\ IndexInv /\ ProducerInv /\ ConsumerInv /\ DataInv
  BY DEF IInv
<1>2. /\ producer = "filled"
      /\ producer' = "commit"
      /\ UNCHANGED <<storage, read, write, read_granted, write_granted, w_start, cvars,
                     committed, released>>
  BY DEF CommitWatermark
<1>3. PICK len \in 0 .. N, new \in 0 .. N :
        /\ len <= w_length /\ new = w_start + len
        /\ w_length' = len /\ new_write' = new /\ reserve' = new
        /\ watermark' = IF new < write /\ write # N THEN write
                        ELSE IF new > watermark THEN N
                        ELSE watermark
  BY <1>1 DEF CommitWatermark, Lesser, TypeOK, ProducerInv, Writing
<1>4. /\ committed + w_length <= MaxBytes
      /\ \/ /\ w_start = write
            /\ write + w_length <= N
            /\ write < read => write + w_length < read
         \/ /\ w_start = 0
            /\ read <= write
            /\ w_length < read
  BY <1>1, <1>2 DEF ProducerInv, Writing
<1>5. TypeOK'
  <2>1. watermark' \in 0 .. N
    BY <1>1, <1>3 DEF TypeOK
  <2> QED
    BY <1>1, <1>2, <1>3, <2>1 DEF TypeOK, cvars
<1>6. FlagsInv'
  BY <1>1, <1>2 DEF FlagsInv, cvars
<1>7. write < read => watermark' = watermark
  BY <1>1, <1>3, <1>4 DEF IndexInv, TypeOK
<1>8. IndexInv'
  BY <1>1, <1>2, <1>3, <1>4 DEF IndexInv, TypeOK
<1>9. ProducerInv'
  <2>1. CASE w_start = write
    BY <1>1, <1>2, <1>3, <1>4, <2>1 DEF ProducerInv, IndexInv, Writing, TypeOK
  <2>2. CASE w_start = 0 /\ read <= write /\ w_length < read
    <3>1. watermark' = write
      BY <1>1, <1>3, <2>2 DEF IndexInv, TypeOK
    <3> QED
      BY <1>1, <1>2, <1>3, <1>4, <2>2, <3>1 DEF ProducerInv, Writing, TypeOK
  <2> QED
    BY <1>4, <2>1, <2>2
<1>10. ConsumerInv'
  BY <1>1, <1>2, <1>7 DEF ConsumerInv, TypeOK, cvars
<1>11. DataInv'
  <2>1. \A i \in 0 .. N - 1 :
           (w_start <= i /\ i < w_start + len) =>
              storage[i] = committed + 1 + (i - w_start)
    BY <1>1, <1>2, <1>3 DEF DataInv, TypeOK
  <2> QED
    BY <1>1, <1>2, <1>3, <1>7, <2>1 DEF DataInv
<1> QED
  BY <1>5, <1>6, <1>8, <1>9, <1>10, <1>11 DEF IInv

\* The second half of commit hands the filled bytes over to the consumer.
LEMMA CommitWriteIInv ==
    ASSUME IInv, CommitWrite
    PROVE  IInv'
<1> USE NAssumption, MaxBytesAssumption DEF CommitWrite, IInv
<1>1. TypeOK'
  <2>1. write_granted' \in BOOLEAN /\ read_granted' \in BOOLEAN
    BY Zenon DEF TypeOK
  <2>2. committed' \in 0 .. MaxBytes
    BY DEF TypeOK, ProducerInv, Writing
  <2> QED
    BY <2>1, <2>2 DEF TypeOK, cvars
<1>2. FlagsInv'
  BY DEF FlagsInv, cvars
<1>3. IndexInv'
  BY DEF IndexInv, ProducerInv, Writing, TypeOK
<1>4. ProducerInv'
  BY DEF ProducerInv, Writing
<1>5. ConsumerInv'
  BY DEF ConsumerInv, ProducerInv, IndexInv, Writing, TypeOK, cvars
<1>6. DataInv'
  BY DEF DataInv, ProducerInv, IndexInv, Writing, TypeOK
<1> QED
  BY <1>1, <1>2, <1>3, <1>4, <1>5, <1>6

\* Dropping a write grant gives its bytes back.
LEMMA DropWriteGrantIInv ==
    ASSUME IInv, DropWriteGrant
    PROVE  IInv'
<1> USE DEF DropWriteGrant, IInv
<1>1. TypeOK'
  <2>1. write_granted' \in BOOLEAN /\ read_granted' \in BOOLEAN
    BY Zenon DEF TypeOK
  <2> QED
    BY <2>1 DEF TypeOK, cvars
<1>2. FlagsInv'
  BY DEF FlagsInv, cvars
<1>3. IndexInv' /\ ConsumerInv'
  BY DEF IndexInv, ConsumerInv, cvars
<1>4. ProducerInv'
  BY DEF ProducerInv, Writing
<1>5. DataInv'
  BY DEF DataInv
<1> QED
  BY <1>1, <1>2, <1>3, <1>4, <1>5

\* Loading the indices keeps the layout.
LEMMA ReadLoadIInv ==
    ASSUME IInv, ReadLoadWrite \/ ReadLoadWatermark
    PROVE  IInv'
<1> USE NAssumption DEF ReadLoadWrite, ReadLoadWatermark, IInv, shared
<1>1. TypeOK'
  <2>1. write_granted' \in BOOLEAN /\ read_granted' \in BOOLEAN
    BY Zenon DEF TypeOK
  <2> QED
    BY <2>1, Zenon DEF TypeOK, pvars
<1>2. FlagsInv'
  BY DEF FlagsInv, pvars
<1>3. IndexInv'
  BY DEF IndexInv
<1>4. ProducerInv'
  BY DEF ProducerInv, Writing, pvars
<1>5. ConsumerInv'
  BY SMTT(30) DEF ConsumerInv, IndexInv, TypeOK
<1>6. DataInv'
  BY DEF DataInv, pvars
<1> QED
  BY <1>1, <1>2, <1>3, <1>4, <1>5, <1>6

\* Wrapping the index or granting a region keeps the layout.
LEMMA ReadFinishIInv ==
    ASSUME IInv, ReadFinish
    PROVE  IInv'
<1> USE NAssumption DEF ReadFinish, IInv
<1>1. /\ r_read = read
      /\ r_write < read => write < read /\ r_watermark = watermark
      /\ ReadLength \in 0 .. N
  BY DEF ConsumerInv, IndexInv, TypeOK, ReadLength
<1>2. \/ /\ read' = 0
         /\ write < read
         /\ read = watermark
         /\ consumer' = "idle"
      \/ /\ read' = read
         /\ consumer' = "idle" \/ (consumer' = "granted" /\ r_length' = ReadLength)
  BY <1>1 DEF TypeOK, ReadLength
<1>3. TypeOK'
  <2>1. write_granted' \in BOOLEAN /\ read_granted' \in BOOLEAN
    BY Zenon DEF TypeOK
  <2>2. r_length' \in 0 .. N
    BY <1>1 DEF TypeOK
  <2> QED
    BY <1>2, <2>1, <2>2 DEF TypeOK, pvars
<1>4. FlagsInv'
  BY Zenon DEF FlagsInv, pvars
<1>5. IndexInv'
  BY <1>2 DEF IndexInv, TypeOK
<1>6. ProducerInv'
  BY <1>2 DEF ProducerInv, Writing, pvars, TypeOK
<1>7. ConsumerInv'
  BY <1>1, <1>2 DEF ConsumerInv, ReadLength, TypeOK
<1>8. DataInv'
  <2>1. UNCHANGED <<storage, write, watermark, pvars, committed, released>>
    OBVIOUS
  <2> HIDE DEF ReadFinish
  <2>2. CASE read' = read
    BY <2>1, <2>2 DEF DataInv, pvars
  <2>3. CASE read' = 0 /\ write < read /\ read = watermark
    BY <2>1, <2>3 DEF DataInv, TypeOK, pvars
  <2> QED
    BY <1>2, <2>2, <2>3
<1> QED
  BY <1>3, <1>4, <1>5, <1>6, <1>7, <1>8

\* ReadGrant::release keeps the layout.
LEMMA ReleaseIInv ==
    ASSUME IInv, NEW asked \in 0 .. N + 1, Release(asked)
    PROVE  IInv'
<1> USE NAssumption, MaxBytesAssumption DEF Release, IInv
<1>1. PICK n \in 0 .. N : /\ n <= r_length
                          /\ read' = read + n
                          /\ released' = released + n
  BY DEF Lesser, TypeOK
<1>2. IF write < read THEN read + n <= watermark ELSE read + n <= write
  BY <1>1 DEF ConsumerInv, TypeOK
<1>3. TypeOK'
  <2>1. write_granted' \in BOOLEAN /\ read_granted' \in BOOLEAN
    BY Zenon DEF TypeOK
  <2>2. released' \in 0 .. MaxBytes
    BY <1>1, <1>2 DEF TypeOK, DataInv
  <2> QED
    BY <1>1, <1>2, <2>1, <2>2, SMTT(30) DEF TypeOK, pvars
<1>4. FlagsInv'
  BY DEF FlagsInv, pvars
<1>5. IndexInv'
  BY <1>1, <1>2 DEF IndexInv, TypeOK
<1>6. ProducerInv'
  BY <1>1, <1>2 DEF ProducerInv, Writing, pvars, TypeOK
<1>7. ConsumerInv'
  BY DEF ConsumerInv
<1>8. DataInv'
  <2>1. UNCHANGED <<storage, write, watermark, pvars, committed>>
    OBVIOUS
  <2> HIDE DEF Release
  <2>2. CASE write < read
    BY <1>1, <1>2, <2>1, <2>2 DEF DataInv, TypeOK, pvars
  <2>3. CASE read <= write
    BY <1>1, <1>2, <2>1, <2>3 DEF DataInv, TypeOK, pvars
  <2> QED
    BY <2>2, <2>3 DEF TypeOK
<1> QED
  BY <1>3, <1>4, <1>5, <1>6, <1>7, <1>8

\* Dropping a read grant leaves its bytes to be read again.
LEMMA DropReadGrantIInv ==
    ASSUME IInv, DropReadGrant
    PROVE  IInv'
<1> USE DEF DropReadGrant, IInv
<1>1. TypeOK'
  <2>1. write_granted' \in BOOLEAN /\ read_granted' \in BOOLEAN
    BY Zenon DEF TypeOK
  <2> QED
    BY <2>1 DEF TypeOK, pvars
<1>2. FlagsInv'
  BY DEF FlagsInv, pvars
<1>3. IndexInv' /\ ConsumerInv'
  BY DEF IndexInv, ConsumerInv
<1>4. ProducerInv'
  BY DEF ProducerInv, Writing, pvars
<1>5. DataInv'
  BY DEF DataInv, pvars
<1> QED
  BY <1>1, <1>2, <1>3, <1>4, <1>5

\* Doing nothing keeps the layout.
LEMMA StutterIInv ==
    ASSUME IInv, UNCHANGED vars
    PROVE  IInv'
<1> USE DEF vars, shared, pvars, cvars, IInv
<1>1. TypeOK'
  BY DEF TypeOK
<1>2. FlagsInv'
  BY DEF FlagsInv
<1>3. IndexInv' /\ ProducerInv' /\ ConsumerInv'
  BY DEF IndexInv, ProducerInv, Writing, ConsumerInv
<1>4. DataInv'
  BY DEF DataInv
<1> QED
  BY <1>1, <1>2, <1>3, <1>4

\* The layout is an invariant of the queue: no interleaving of the producer's
\* and the consumer's accesses to the shared indices ever breaks it.
THEOREM LayoutKept == Spec => []IInv
<1>1. Init => IInv
  BY InitIInv
<1>2. IInv /\ [Next]_vars => IInv'
  <2> SUFFICES ASSUME IInv, [Next]_vars PROVE IInv'
    OBVIOUS
  <2>1. ASSUME NEW length \in 0 .. N, Grant(length) PROVE IInv'
    BY <2>1, GrantIInv
  <2>2. CASE Fill
    BY <2>2, FillIInv
  <2>3. ASSUME NEW asked \in 0 .. N + 1, CommitWatermark(asked) PROVE IInv'
    BY <2>3, CommitWatermarkIInv
  <2>4. CASE CommitWrite
    BY <2>4, CommitWriteIInv
  <2>5. CASE DropWriteGrant
    BY <2>5, DropWriteGrantIInv
  <2>6. CASE ReadLoadWrite \/ ReadLoadWatermark
    BY <2>6, ReadLoadIInv
  <2>7. CASE ReadFinish
    BY <2>7, ReadFinishIInv
  <2>8. ASSUME NEW asked \in 0 .. N + 1, Release(asked) PROVE IInv'
    BY <2>8, ReleaseIInv
  <2>9. CASE DropReadGrant
    BY <2>9, DropReadGrantIInv
  <2>10. CASE UNCHANGED vars
    BY <2>10, StutterIInv
  <2> QED
    BY <2>1, <2>2, <2>3, <2>4, <2>5, <2>6, <2>7, <2>8, <2>9, <2>10
       DEF Next, Produce, Consume
<1> QED
  BY <1>1, <1>2, PTL DEF Spec

\* A WriteGrant and a ReadGrant never overlap, whatever the buffer size and
\* however the two sides interleave: using both at once is never a data race.
THEOREM NoDataRace == Spec => []GrantsDisjoint
<1>1. IInv => GrantsDisjoint
  BY NAssumption DEF IInv, GrantsDisjoint, ProducerInv, ConsumerInv, IndexInv, Writing, TypeOK
<1> QED
  BY <1>1, LayoutKept, PTL

\* Every ReadGrant shows the next bytes of the stream in order.
THEOREM InOrder == Spec => []ReadsInOrder
<1>1. IInv => ReadsInOrder
  BY NAssumption DEF IInv, ReadsInOrder, ConsumerInv, DataInv, TypeOK
<1> QED
  BY <1>1, LayoutKept, PTL

\* The length computed by read never underflows.
THEOREM NoUnderflow == Spec => []LengthNeverUnderflows
<1>1. IInv => LengthNeverUnderflows
  BY NAssumption DEF IInv, LengthNeverUnderflows, ReadLength, ConsumerInv, IndexInv, TypeOK
<1> QED
  BY <1>1, LayoutKept, PTL

\* Half the buffer fits in a drained queue, for every buffer size.
THEOREM HalfFits == Spec => []HalfFitsWhenEmpty
<1>1. IInv => HalfFitsWhenEmpty
  <2> SUFFICES ASSUME IInv, read = write, NEW length \in 0 .. N \div 2
               PROVE  GrantStarts(length) # {}
    BY DEF HalfFitsWhenEmpty
  <2>1. write \in 0 .. N /\ read \in 0 .. N
    BY DEF IInv, TypeOK
  <2>2. write + length <= N \/ length < read
    BY <2>1, NAssumption
  <2> QED
    BY <2>1, <2>2, NAssumption DEF GrantStarts
<1> QED
  BY <1>1, LayoutKept, PTL

-----------------------------------------------------------------------------
\* Runs of the stream.

\* The bytes of the stream after the first `from`, up to the first `to`.
Bytes(from, to) == [i \in 1 .. to - from |-> from + i]

\* Two sequences in a row.
LEMMA InARow ==
    ASSUME NEW S, NEW p \in Seq(S), NEW q \in Seq(S)
    PROVE  /\ p \o q \in Seq(S) /\ Len(p \o q) = Len(p) + Len(q)
           /\ \A i \in 1 .. Len(p) + Len(q) :
                 (p \o q)[i] = IF i <= Len(p) THEN p[i] ELSE q[i - Len(p)]
<1>1. p \o q \in Seq(S)
  OBVIOUS
<1>2. Len(p \o q) = Len(p) + Len(q)
  OBVIOUS
<1>3. ASSUME NEW i \in 1 .. Len(p) + Len(q), i <= Len(p) PROVE (p \o q)[i] = p[i]
  BY <1>3
<1>4. ASSUME NEW i \in 1 .. Len(p) + Len(q), ~(i <= Len(p))
      PROVE  (p \o q)[i] = q[i - Len(p)]
  BY <1>4
<1> QED
  BY <1>1, <1>2, <1>3, <1>4, Zenon

\* Two sequences with the same elements are one.
LEMMA SameElements ==
    ASSUME NEW S, NEW p \in Seq(S), NEW q \in Seq(S), Len(p) = Len(q),
           \A i \in 1 .. Len(p) : p[i] = q[i]
    PROVE  p = q
  OBVIOUS

\* Such a run is a sequence.
LEMMA BytesSeq ==
    ASSUME NEW a \in Nat, NEW b \in Nat, a <= b
    PROVE  /\ Bytes(a, b) \in Seq(Nat)
           /\ Len(Bytes(a, b)) = b - a
           /\ \A i \in 1 .. b - a : Bytes(a, b)[i] = a + i
<1>1. PICK n \in Nat : n = b - a
  OBVIOUS
<1>2. Bytes(a, b) = [i \in 1 .. n |-> a + i]
  BY <1>1 DEF Bytes
<1>3. [i \in 1 .. n |-> a + i] \in Seq(Nat)
  OBVIOUS
<1>4. Len([i \in 1 .. n |-> a + i]) = n
  BY <1>3
<1> QED
  BY <1>1, <1>2, <1>3, <1>4

\* Two adjacent runs make one.
LEMMA BytesJoin ==
    ASSUME NEW a \in Nat, NEW b \in Nat, NEW c \in Nat, a <= b, b <= c
    PROVE  Bytes(a, b) \o Bytes(b, c) = Bytes(a, c)
<1> DEFINE s == Bytes(a, b)
           t == Bytes(b, c)
           u == Bytes(a, c)
<1>1. /\ s \in Seq(Nat) /\ Len(s) = b - a /\ (\A i \in 1 .. b - a : s[i] = a + i)
      /\ t \in Seq(Nat) /\ Len(t) = c - b /\ (\A i \in 1 .. c - b : t[i] = b + i)
      /\ u \in Seq(Nat) /\ Len(u) = c - a /\ (\A i \in 1 .. c - a : u[i] = a + i)
  <2>1. a <= c
    OBVIOUS
  <2>2. s \in Seq(Nat) /\ Len(s) = b - a /\ (\A i \in 1 .. b - a : s[i] = a + i)
    BY BytesSeq
  <2>3. t \in Seq(Nat) /\ Len(t) = c - b /\ (\A i \in 1 .. c - b : t[i] = b + i)
    BY BytesSeq
  <2>4. u \in Seq(Nat) /\ Len(u) = c - a /\ (\A i \in 1 .. c - a : u[i] = a + i)
    BY <2>1, BytesSeq
  <2> QED
    BY <2>2, <2>3, <2>4
<1> HIDE DEF s, t, u
<1>2. /\ s \o t \in Seq(Nat)
      /\ Len(s \o t) = Len(s) + Len(t)
      /\ \A i \in 1 .. Len(s) + Len(t) :
            (s \o t)[i] = IF i <= Len(s) THEN s[i] ELSE t[i - Len(s)]
  BY <1>1, InARow, ZenonT(30)
<1>3. Len(s \o t) = c - a /\ Len(s) + Len(t) = c - a
  BY <1>1, <1>2
<1>4. ASSUME NEW i \in 1 .. c - a PROVE (s \o t)[i] = u[i]
  <2>1. (s \o t)[i] = IF i <= b - a THEN s[i] ELSE t[i - (b - a)]
    BY <1>1, <1>2, <1>3, Zenon
  <2>2. CASE i <= b - a
    BY <1>1, <2>1, <2>2
  <2>3. CASE ~(i <= b - a)
    <3>1. PICK j \in 1 .. c - b : j = i - (b - a)
      BY <2>3
    <3>2. t[j] = b + j /\ u[i] = a + i
      BY <1>1
    <3> QED
      BY <2>1, <2>3, <3>1, <3>2
  <2> QED
    BY <2>2, <2>3, Zenon
<1>5. s \o t = u
  BY <1>1, <1>2, <1>3, <1>4, SameElements, Zenon
<1> QED
  BY <1>5 DEF s, t, u

\* What is left of a run without its first bytes.
LEMMA BytesDrop ==
    ASSUME NEW a \in Nat, NEW b \in Nat, NEW c \in Nat, a <= b, b <= c
    PROVE  SubSeq(Bytes(a, c), b - a + 1, c - a) = Bytes(b, c)
<1> DEFINE s == Bytes(a, c)
           t == Bytes(b, c)
<1>1. /\ s \in Seq(Nat) /\ Len(s) = c - a /\ (\A i \in 1 .. c - a : s[i] = a + i)
      /\ t \in Seq(Nat) /\ Len(t) = c - b /\ (\A i \in 1 .. c - b : t[i] = b + i)
  <2>1. a <= c
    OBVIOUS
  <2>2. s \in Seq(Nat) /\ Len(s) = c - a /\ (\A i \in 1 .. c - a : s[i] = a + i)
    BY <2>1, BytesSeq
  <2>3. t \in Seq(Nat) /\ Len(t) = c - b /\ (\A i \in 1 .. c - b : t[i] = b + i)
    BY BytesSeq
  <2> QED
    BY <2>2, <2>3
<1> HIDE DEF s, t
<1>2. PICK m \in Int, n \in Int : m = b - a + 1 /\ n = c - a
  OBVIOUS
<1>3. /\ SubSeq(s, m, n) \in Seq(Nat)
      /\ Len(SubSeq(s, m, n)) = IF m <= n THEN n - m + 1 ELSE 0
      /\ \A i \in 1 .. n - m + 1 : SubSeq(s, m, n)[i] = s[m + i - 1]
  <2>1. m \in 1 .. Len(s) + 1 /\ n = Len(s)
    BY <1>1, <1>2
  <2>2. SubSeq(s, m, n) \in Seq(Nat)
    BY <1>1, <2>1
  <2>3. Len(SubSeq(s, m, n)) = IF m <= n THEN n - m + 1 ELSE 0
    BY <1>1, <2>1
  <2>4. \A i \in 1 .. n - m + 1 : SubSeq(s, m, n)[i] = s[m + i - 1]
    BY <1>1, <2>1
  <2> QED
    BY <2>2, <2>3, <2>4, Zenon
<1>4. Len(SubSeq(s, m, n)) = c - b /\ n - m + 1 = c - b
  BY <1>2, <1>3
<1>5. \A i \in 1 .. c - b : SubSeq(s, m, n)[i] = t[i]
  BY <1>1, <1>2, <1>3, <1>4
<1>6. SubSeq(s, m, n) = t
  BY <1>1, <1>3, <1>4, <1>5, SameElements, Zenon
<1> QED
  BY <1>2, <1>6 DEF s, t
-----------------------------------------------------------------------------
\* The queue is a stream.

\* The bytes in the queue are the ones committed and not released, in order.
StreamInv ==
    /\ released \in Nat /\ committed \in Nat
    /\ released <= committed /\ committed - released <= N
    /\ Contents = Bytes(released, committed)

\* The layout of the buffer makes it so.
LEMMA ContentsAre ==
    ASSUME IInv PROVE StreamInv
<1> USE NAssumption, MaxBytesAssumption DEF IInv, StreamInv
<1>1. /\ released \in Nat /\ committed \in Nat /\ read \in 0 .. N /\ write \in 0 .. N
      /\ watermark \in 0 .. N
  BY DEF TypeOK
<1>2. CASE read <= write
  <2>1. committed - released = write - read /\ released <= committed
    BY <1>1, <1>2 DEF DataInv
  <2>2. Contents = [i \in 1 .. write - read |-> storage[read + i - 1]]
    BY <1>1, <1>2 DEF Contents
  <2>3. \A i \in 1 .. write - read : storage[read + i - 1] = released + i
    <3> SUFFICES ASSUME NEW i \in 1 .. write - read PROVE storage[read + i - 1] = released + i
      OBVIOUS
    <3>1. PICK j \in 0 .. N - 1 : j = read + i - 1
      BY <1>1, <1>2
    <3>2. storage[j] = released + 1 + (j - read)
      BY <1>1, <1>2, <3>1 DEF DataInv
    <3> QED
      BY <1>1, <3>1, <3>2
  <2>4. Contents = Bytes(released, committed)
    BY <2>1, <2>2, <2>3 DEF Bytes
  <2> QED
    BY <1>1, <2>1, <2>4
<1>3. CASE write < read
  <2>1. /\ read <= watermark /\ committed - released = (watermark - read) + write
        /\ released <= committed
    BY <1>1, <1>3 DEF DataInv, IndexInv
  <2>2. Contents = [i \in 1 .. watermark - read |-> storage[read + i - 1]]
                   \o [i \in 1 .. write |-> storage[i - 1]]
    BY <1>3, Zenon DEF Contents
  <2>3. PICK mid \in Nat : mid = released + (watermark - read)
    BY <1>1, <2>1
  <2>4. /\ mid - released = watermark - read /\ committed - mid = write
        /\ released <= mid /\ mid <= committed
    BY <1>1, <2>1, <2>3
  <2>5. ASSUME NEW i \in 1 .. watermark - read PROVE storage[read + i - 1] = released + i
    <3>1. PICK j \in 0 .. N - 1 : j = read + i - 1
      BY <1>1, <1>3
    <3>2. storage[j] = released + 1 + (j - read)
      BY <1>1, <1>3, <3>1 DEF DataInv
    <3> QED
      BY <1>1, <3>1, <3>2
  <2>6. ASSUME NEW i \in 1 .. write PROVE storage[i - 1] = mid + i
    <3>1. PICK j \in 0 .. N - 1 : j = i - 1
      BY <1>1, <1>3
    <3>2. storage[j] = released + 1 + (watermark - read) + j
      BY <1>1, <1>3, <3>1 DEF DataInv
    <3> QED
      BY <1>1, <2>1, <2>3, <3>1, <3>2
  <2>7. /\ [i \in 1 .. watermark - read |-> storage[read + i - 1]] = Bytes(released, mid)
        /\ [i \in 1 .. write |-> storage[i - 1]] = Bytes(mid, committed)
    BY <2>4, <2>5, <2>6 DEF Bytes
  <2>8. Contents = Bytes(released, committed)
    <3>1. Bytes(released, mid) \o Bytes(mid, committed) = Bytes(released, committed)
      BY <1>1, <2>4, BytesJoin, Zenon
    <3> QED
      BY <2>2, <2>7, <3>1, Zenon
  <2> QED
    BY <1>1, <1>3, <2>1, <2>8
<1> QED
  BY <1>1, <1>2, <1>3

\* The byte queue is a stream, for every size of the buffer and in every
\* interleaving: commit puts its bytes at the end, release takes the oldest, and
\* no other access to the indices or the buffer changes what is in the queue.
THEOREM StreamKept == Spec => IsFifo
<1>1. ASSUME Init PROVE Stream!Init
  <2>1. IInv
    BY <1>1, InitIInv
  <2>2. Contents = Bytes(0, 0) /\ committed = 0
    BY <1>1, <2>1, ContentsAre DEF Init, StreamInv
  <2>3. Bytes(0, 0) = <<>>
    BY BytesSeq
  <2> QED
    BY <2>2, <2>3 DEF Stream!Init
<1>2. ASSUME IInv PROVE StreamInv
  BY <1>2, ContentsAre
<1>3. ASSUME IInv, StreamInv, StreamInv', [Next]_vars PROVE [Stream!Next]_<<Contents, committed>>
  <2>1. /\ released \in Nat /\ committed \in Nat
        /\ released <= committed /\ committed - released <= N
        /\ Contents = Bytes(released, committed)
    BY <1>3 DEF StreamInv
  <2>2. /\ released' \in Nat /\ committed' \in Nat
        /\ released' <= committed' /\ committed' - released' <= N
        /\ Contents' = Bytes(released', committed')
    BY <1>3 DEF StreamInv
  <2>3. Len(Contents) = committed - released
    BY <2>1, BytesSeq, Zenon
  <2>4. CASE CommitWrite
    <3>1. released' = released /\ committed' = committed + w_length /\ w_length \in Nat
      BY <1>3, <2>4, NAssumption DEF CommitWrite, IInv, TypeOK
    <3>2. CASE w_length = 0
      BY <2>1, <2>2, <3>1, <3>2
    <3>3. CASE w_length # 0
      <4>1. w_length \in 1 .. N - Len(Contents)
        BY <2>1, <2>2, <2>3, <3>1, <3>3, NAssumption
      <4>2. [i \in 1 .. w_length |-> committed + i] = Bytes(committed, committed')
        BY <2>1, <2>2, <3>1 DEF Bytes
      <4>3. Contents' = Contents \o [i \in 1 .. w_length |-> committed + i]
        <5>1. Bytes(released, committed) \o Bytes(committed, committed') =
                  Bytes(released, committed')
          <6>1. committed <= committed'
            BY <2>1, <3>1
          <6> QED
            BY <2>1, <2>2, <6>1, BytesJoin, Zenon
        <5> QED
          BY <2>1, <2>2, <3>1, <4>2, <5>1, Zenon
      <4>4. Stream!Put
        BY <3>1, <4>1, <4>3 DEF Stream!Put
      <4> QED
        BY <4>4 DEF Stream!Next
    <3> QED
      BY <3>2, <3>3
  <2>5. ASSUME NEW asked \in 0 .. N + 1, Release(asked)
        PROVE  [Stream!Next]_<<Contents, committed>>
    <3>1. PICK n \in Nat : released' = released + n
      BY <1>3, <2>5, NAssumption DEF Release, Lesser, IInv, TypeOK
    <3>2. committed' = committed
      BY <2>5 DEF Release
    <3>3. CASE n = 0
      BY <2>1, <2>2, <3>1, <3>2, <3>3
    <3>4. CASE n # 0
      <4>1. n \in 1 .. Len(Contents)
        BY <2>1, <2>2, <2>3, <3>1, <3>2, <3>4
      <4>2. n = released' - released
        BY <2>1, <3>1
      <4>3. Contents' = SubSeq(Contents, n + 1, Len(Contents))
        <5>1. released <= released' /\ released' <= committed
          BY <2>1, <2>2, <3>1, <3>2
        <5>2. SubSeq(Bytes(released, committed), released' - released + 1,
                     committed - released) = Bytes(released', committed)
          BY <2>1, <2>2, <5>1, BytesDrop, ZenonT(30)
        <5> QED
          BY <2>1, <2>2, <2>3, <3>2, <4>2, <5>2, Zenon
      <4>4. Stream!Take
        BY <3>2, <4>1, <4>3 DEF Stream!Take
      <4> QED
        BY <4>4 DEF Stream!Next
    <3> QED
      BY <3>3, <3>4
  <2>6. CASE UNCHANGED <<committed, released>>
    BY <2>1, <2>2, <2>6
  <2>7. \/ CommitWrite \/ (\E asked \in 0 .. N + 1 : Release(asked))
        \/ UNCHANGED <<committed, released>>
    BY <1>3, SMTT(30) DEF Next, Produce, Consume, vars, Grant, Fill, CommitWatermark, DropWriteGrant,
                ReadLoadWrite, ReadLoadWatermark, ReadFinish, DropReadGrant
  <2> QED
    BY <2>4, <2>5, <2>6, <2>7
<1> QED
  BY <1>1, <1>2, <1>3, LayoutKept, PTL DEF Spec, IsFifo, Stream!Spec
-----------------------------------------------------------------------------
\* Waiting.

\* Where the two tasks are in the queue underneath.
Tasks ==
    /\ want \in 0 .. N
    /\ commit_wait \in {"clear", "subscribed", "woken"}
    /\ release_wait \in {"clear", "subscribed", "woken"}
    /\ ptask \in {"idle", "try", "asleep", "holding", "signal"}
    /\ ctask \in {"idle", "try", "asleep", "holding", "signal"}
    /\ ptask # "holding" => producer = "idle"
    /\ ctask \in {"idle", "asleep", "signal"} => consumer = "idle"
    /\ ctask = "try" => consumer # "granted"

\* The producer's steps keep it so.
LEMMA ProducerTasks ==
    ASSUME Tasks, ProducerStep PROVE Tasks'
<1> USE DEF Tasks
<1>1. ASSUME NEW length \in 1 .. N, GrantSync(length) PROVE Tasks'
  BY <1>1 DEF GrantSync, Grant, waits, cvars
<1>2. ASSUME NEW length \in 1 .. N, GrantSubscribe(length) PROVE Tasks'
  BY <1>2, NAssumption DEF GrantSubscribe, Subscribed, vars, pvars, cvars
<1>3. CASE GrantTry
  <2>1. CASE Grant(want) /\ ptask' = "holding"
    BY <1>3, <2>1, Zenon DEF GrantTry, Grant, waits, cvars
  <2>2. CASE ptask' = "asleep" /\ UNCHANGED vars
    BY <1>3, <2>2 DEF GrantTry, vars, waits, pvars, cvars
  <2> QED
    BY <1>3, <2>1, <2>2, Zenon DEF GrantTry
<1>4. CASE GrantWoken
  BY <1>4 DEF GrantWoken, vars, pvars, cvars
<1>5. CASE UseWriteGrant
  <2>1. UNCHANGED <<waits, want, ctask, cvars>>
    BY <1>5, Zenon DEF UseWriteGrant, Fill, CommitWatermark, CommitWrite, DropWriteGrant
  <2>2. ptask' \in {"holding", "signal", "idle"} /\ (ptask' # "holding" => producer' = "idle")
    BY <1>5, Zenon DEF UseWriteGrant, CommitWrite, DropWriteGrant
  <2> QED
    BY <2>1, <2>2 DEF waits, cvars
<1>6. CASE CommitSignal
  BY <1>6 DEF CommitSignal, Woken, vars, pvars, cvars
<1> QED
  BY <1>1, <1>2, <1>3, <1>4, <1>5, <1>6, Zenon DEF ProducerStep

\* So do the consumer's.
LEMMA ConsumerTasks ==
    ASSUME Tasks, ConsumerStep PROVE Tasks'
<1> USE DEF Tasks
<1>1. CASE ReadSubscribe
  BY <1>1 DEF ReadSubscribe, Subscribed, vars, pvars, cvars
<1>2. CASE ReadTry
  <2>1. UNCHANGED <<waits, want, ptask, pvars>>
    BY <1>2, Zenon DEF ReadTry, ReadLoadWrite, ReadLoadWatermark, ReadFinish
  <2>2. CASE ReadLoadWrite /\ UNCHANGED ctask
    BY <1>2, <2>1, <2>2, Zenon DEF ReadLoadWrite, waits, pvars, ReadTry
  <2>3. CASE ReadLoadWatermark /\ UNCHANGED ctask
    BY <1>2, <2>1, <2>3, Zenon DEF ReadLoadWatermark, waits, pvars, ReadTry
  <2>4. CASE ReadFinish /\ ctask' = IF ReadLength = 0 THEN "asleep" ELSE "holding"
    BY <1>2, <2>1, <2>4, Zenon DEF ReadFinish, waits, pvars, ReadTry
  <2> QED
    BY <1>2, <2>2, <2>3, <2>4, Zenon DEF ReadTry
<1>3. CASE ReadWoken
  BY <1>3 DEF ReadWoken, vars, pvars, cvars
<1>4. CASE UseReadGrant
  BY <1>4, Zenon DEF UseReadGrant, Release, waits, pvars
<1>5. CASE ReleaseSignal
  BY <1>5 DEF ReleaseSignal, Woken, vars, pvars, cvars
<1> QED
  BY <1>1, <1>2, <1>3, <1>4, <1>5, Zenon DEF ConsumerStep

\* Every step of the asynchronous queue is a step of the queue underneath or
\* leaves it alone.
LEMMA QueueStep ==
    ASSUME SNext, want \in 0 .. N PROVE [Next]_vars
<1>1. CASE ProducerStep
  <2>1. ASSUME NEW length \in 1 .. N, Grant(length) PROVE Next
    <3>1. length \in 0 .. N
      BY NAssumption
    <3> QED
      BY <2>1, <3>1 DEF Next, Produce
  <2>2. CASE UseWriteGrant
    BY <2>2 DEF UseWriteGrant, Next, Produce
  <2>3. CASE GrantTry
    <3>1. UNCHANGED vars \/ Grant(want)
      BY <2>3 DEF GrantTry
    <3> QED
      BY <2>3, <3>1 DEF Next, Produce
  <2> QED
    BY <1>1, <2>1, <2>2, <2>3 DEF ProducerStep, GrantSync, GrantSubscribe, GrantWoken, CommitSignal
<1>2. CASE ConsumerStep
  <2>1. ASSUME NEW asked \in 1 .. N, Release(asked) PROVE Next
    <3>1. asked \in 0 .. N + 1
      BY NAssumption
    <3> QED
      BY <2>1, <3>1 DEF Next, Consume
  <2>2. CASE ReadTry
    BY <2>2 DEF ReadTry, Next, Consume
  <2> QED
    BY <1>2, <2>1, <2>2 DEF ConsumerStep, ReadSubscribe, ReadWoken, UseReadGrant, ReleaseSignal
<1> QED
  BY <1>1, <1>2 DEF SNext

\* The tasks are always where Tasks says.
LEMMA TasksKept == SSpec => []Tasks
<1>1. ASSUME SInit PROVE Tasks
  BY <1>1, NAssumption DEF SInit, Init, Tasks
<1>2. ASSUME Tasks, [SNext]_svars PROVE Tasks'
  <2>1. CASE UNCHANGED svars
    BY <1>2, <2>1 DEF svars, vars, waits, pvars, cvars, Tasks
  <2>2. CASE SNext
    BY <1>2, <2>2, ProducerTasks, ConsumerTasks DEF SNext
  <2> QED
    BY <1>2, <2>1, <2>2
<1> QED
  BY <1>1, <1>2, PTL DEF SSpec

\* Waiting changes nothing about the queue: the asynchronous queue implements the
\* byte queue it wraps, so what holds of the one holds of the other.
THEOREM ImplementsQueue == SSpec => Spec
<1>1. ASSUME SInit PROVE Init
  BY <1>1 DEF SInit
<1>2. ASSUME Tasks, [SNext]_svars PROVE [Next]_vars
  <2>1. CASE UNCHANGED svars
    BY <2>1 DEF svars
  <2>2. CASE SNext
    BY <1>2, <2>2, QueueStep DEF Tasks
  <2> QED
    BY <1>2, <2>1, <2>2
<1> QED
  BY <1>1, <1>2, TasksKept, PTL DEF SSpec, Spec
-----------------------------------------------------------------------------
\* Who listens, and what a sleeper knows.

\* A task that looks at the queue, or sleeps, has subscribed: a wake reaches it.
Listening ==
    /\ ctask \in {"try", "asleep"} => WakesKept \/ commit_wait # "clear"
    /\ ptask \in {"try", "asleep"} => WakesKept \/ release_wait # "clear"

\* A producer that sleeps with no wake on its way had no space when it looked, and
\* only the index that wrapped may have given it some.
ProducerWaits ==
    /\ (ProducerAsleep /\ ctask # "signal") =>
           GrantStarts(want) = {} \/ (read = 0 /\ released > 0)
    /\ read > 0 => released > 0

\* A consumer that looks, or sleeps, with no wake on its way has seen all that was
\* committed; one that sleeps and has not wrapped its index had read it all.
ConsumerWaits ==
    /\ /\ ctask = "asleep" \/ (ctask = "try" /\ consumer # "idle")
       /\ commit_wait # "woken"
       /\ ptask # "signal"
       => write = r_write
    /\ (ctask = "asleep" /\ read = r_read) => r_write = r_read

\* What the two tasks know about each other when one of them sleeps.
WaitInv == Listening /\ ProducerWaits /\ ConsumerWaits

\* A wake reaches whoever listens.
LEMMA WakesReach ==
    ASSUME NEW cell \in {"clear", "subscribed", "woken"}, WakesKept \/ cell # "clear"
    PROVE  Woken(cell) = "woken"
  BY WakesKeptAssumption DEF Woken

\* Whoever subscribes listens.
LEMMA SubscribersListen ==
    ASSUME NEW cell PROVE WakesKept \/ Subscribed(cell) # "clear"
  BY WakesKeptAssumption DEF Subscribed

\* The producer's steps keep WaitInv.
LEMMA ProducerWaitInv ==
    ASSUME Tasks, IInv, WaitInv, ProducerStep PROVE WaitInv'
<1> USE DEF Tasks, WaitInv
<1>1. ASSUME NEW length \in 1 .. N, GrantSync(length) PROVE WaitInv'
  <2>1. /\ ptask = "idle" /\ ptask' = "holding"
        /\ UNCHANGED <<commit_wait, release_wait, want, ctask, read, write, released, consumer,
                       r_read, r_write>>
    BY <1>1 DEF GrantSync, Grant, waits, cvars
  <2> QED
    BY <2>1, Zenon DEF Listening, ProducerWaits, ConsumerWaits, ProducerAsleep
<1>2. ASSUME NEW length \in 1 .. N, GrantSubscribe(length) PROVE WaitInv'
  <2>1. /\ ptask = "idle" /\ ptask' = "try" /\ release_wait' = Subscribed(release_wait)
        /\ UNCHANGED <<commit_wait, ctask, read, write, released, consumer, r_read, r_write>>
    BY <1>2 DEF GrantSubscribe, vars, shared, cvars
  <2>2. Listening'
    BY <2>1, SubscribersListen DEF Listening
  <2> QED
    BY <2>1, <2>2, Zenon DEF ProducerWaits, ConsumerWaits, ProducerAsleep
<1>3. CASE GrantTry
  <2>1. /\ ptask = "try" /\ ptask' \in {"holding", "asleep"}
        /\ ptask' = "asleep" => GrantStarts(want) = {}
        /\ UNCHANGED <<commit_wait, release_wait, want, ctask, read, write, released, consumer,
                       r_read, r_write>>
    BY <1>3, Zenon DEF GrantTry, Grant, vars, shared, waits, cvars
  <2>2. GrantStarts(want)' = GrantStarts(want)
    BY <2>1 DEF GrantStarts
  <2> QED
    BY <2>1, <2>2, Zenon DEF Listening, ProducerWaits, ConsumerWaits, ProducerAsleep
<1>4. CASE GrantWoken
  <2>1. /\ ptask = "asleep" /\ ptask' = "try" /\ release_wait' = "subscribed"
        /\ UNCHANGED <<commit_wait, ctask, read, write, released, consumer, r_read, r_write>>
    BY <1>4 DEF GrantWoken, vars, shared, cvars
  <2> QED
    BY <2>1 DEF Listening, ProducerWaits, ConsumerWaits, ProducerAsleep
<1>5. CASE UseWriteGrant
  <2>1. /\ ptask = "holding" /\ ptask' \in {"holding", "signal", "idle"}
        /\ ptask' # "signal" => write' = write
        /\ UNCHANGED <<commit_wait, release_wait, want, ctask, read, released, consumer,
                       r_read, r_write>>
    BY <1>5, Zenon
       DEF UseWriteGrant, Fill, CommitWatermark, CommitWrite, DropWriteGrant, waits, cvars
  <2> QED
    BY <2>1 DEF Listening, ProducerWaits, ConsumerWaits, ProducerAsleep
<1>6. CASE CommitSignal
  <2>1. /\ ptask = "signal" /\ ptask' = "idle" /\ commit_wait' = Woken(commit_wait)
        /\ UNCHANGED <<release_wait, ctask, read, write, released, consumer, r_read, r_write>>
    BY <1>6 DEF CommitSignal, vars, shared, cvars
  <2>2. ctask \in {"try", "asleep"} => commit_wait' = "woken"
    BY <2>1, WakesReach DEF Listening
  <2> QED
    BY <2>1, <2>2 DEF Listening, ProducerWaits, ConsumerWaits, ProducerAsleep
<1> QED
  BY <1>1, <1>2, <1>3, <1>4, <1>5, <1>6 DEF ProducerStep

\* The consumer's steps keep WaitInv.
LEMMA ConsumerWaitInv ==
    ASSUME Tasks, IInv, WaitInv, ConsumerStep PROVE WaitInv'
<1> USE DEF Tasks, WaitInv
<1>1. CASE ReadSubscribe
  <2>1. /\ ctask = "idle" /\ ctask' = "try" /\ commit_wait' = Subscribed(commit_wait)
        /\ consumer = "idle"
        /\ UNCHANGED <<release_wait, ptask, want, read, write, released, consumer, r_read,
                       r_write>>
    BY <1>1 DEF ReadSubscribe, vars, shared, cvars
  <2>2. Listening'
    BY <2>1, SubscribersListen DEF Listening
  <2>3. GrantStarts(want)' = GrantStarts(want)
    BY <2>1 DEF GrantStarts
  <2> QED
    BY <2>1, <2>2, <2>3 DEF ProducerWaits, ConsumerWaits, ProducerAsleep
<1>2. CASE ReadTry
  <2>1. /\ ctask = "try"
        /\ UNCHANGED <<commit_wait, release_wait, ptask, want, write, released>>
    BY <1>2 DEF ReadTry, ReadLoadWrite, ReadLoadWatermark, ReadFinish, waits, shared
  <2>2. CASE ReadLoadWrite /\ UNCHANGED ctask
    <3>1. read' = read /\ r_write' = write
      BY <2>2 DEF ReadLoadWrite
    <3>2. GrantStarts(want)' = GrantStarts(want)
      BY <2>1, <3>1 DEF GrantStarts
    <3> QED
      BY <2>1, <2>2, <3>1, <3>2 DEF Listening, ProducerWaits, ConsumerWaits, ProducerAsleep
  <2>3. CASE ReadLoadWatermark /\ UNCHANGED ctask
    <3>1. /\ consumer = "loaded" /\ consumer' = "marked"
          /\ UNCHANGED <<read, r_read, r_write>>
      BY <2>3 DEF ReadLoadWatermark, shared
    <3>2. GrantStarts(want)' = GrantStarts(want)
      BY <2>1, <3>1 DEF GrantStarts
    <3> QED
      BY <2>1, <2>3, <3>1, <3>2 DEF Listening, ProducerWaits, ConsumerWaits, ProducerAsleep
  <2>4. CASE ReadFinish
    <3>1. /\ consumer = "marked" /\ r_read = read /\ UNCHANGED <<r_read, r_write>>
          /\ read' = IF r_write < r_read /\ r_read = r_watermark THEN 0 ELSE read
          /\ ctask' = IF ReadLength = 0 THEN "asleep" ELSE "holding"
          /\ read \in Nat /\ r_write \in Nat /\ r_watermark \in Nat
      BY <1>2, <2>4, NAssumption, SMTT(30) DEF ReadFinish, ReadTry, ReadLoadWrite, ReadLoadWatermark,
                                     IInv, ConsumerInv, TypeOK
    <3>2. read' = read \/ (read' = 0 /\ read > 0)
      BY <3>1
    <3>3. read' = read => GrantStarts(want)' = GrantStarts(want)
      BY <2>1 DEF GrantStarts
    <3>4. ProducerWaits'
      BY <2>1, <3>1, <3>2, <3>3 DEF ProducerWaits, ProducerAsleep
    <3>5. (ctask' = "asleep" /\ read' = r_read') => r_write' = r_read'
      BY <3>1 DEF ReadLength
    <3> QED
      BY <2>1, <3>1, <3>4, <3>5 DEF Listening, ConsumerWaits
  <2> QED
    BY <1>2, <2>2, <2>3, <2>4 DEF ReadTry
<1>3. CASE ReadWoken
  <2>1. /\ ctask = "asleep" /\ ctask' = "try" /\ commit_wait' = "subscribed"
        /\ consumer = "idle"
        /\ UNCHANGED <<release_wait, ptask, want, read, write, released, consumer>>
    BY <1>3 DEF ReadWoken, vars, shared, cvars
  <2>2. GrantStarts(want)' = GrantStarts(want)
    BY <2>1 DEF GrantStarts
  <2> QED
    BY <2>1, <2>2 DEF Listening, ProducerWaits, ConsumerWaits, ProducerAsleep
<1>4. CASE UseReadGrant
  <2>1. PICK n \in Nat : read' = read + n /\ released' = released + n
    BY <1>4, NAssumption DEF UseReadGrant, Release, Lesser, IInv, TypeOK
  <2>2. ctask' = "signal" /\ UNCHANGED <<release_wait, ptask>>
    BY <1>4 DEF UseReadGrant, waits
  <2>3. read \in Nat /\ released \in Nat
    BY NAssumption, MaxBytesAssumption DEF IInv, TypeOK
  <2>4. read' > 0 => released' > 0
    BY <2>1, <2>3 DEF ProducerWaits
  <2> QED
    BY <2>2, <2>4 DEF Listening, ProducerWaits, ConsumerWaits
<1>5. CASE ReleaseSignal
  <2>1. /\ ctask = "signal" /\ ctask' = "idle" /\ release_wait' = Woken(release_wait)
        /\ UNCHANGED <<commit_wait, ptask, read, released>>
    BY <1>5 DEF ReleaseSignal, vars, shared
  <2>2. ptask \in {"try", "asleep"} => release_wait' = "woken"
    BY <2>1, WakesReach DEF Listening
  <2> QED
    BY <2>1, <2>2 DEF Listening, ProducerWaits, ConsumerWaits, ProducerAsleep
<1> QED
  BY <1>1, <1>2, <1>3, <1>4, <1>5 DEF ConsumerStep

\* A task that sleeps although it could go on, with no wake on its way, does so
\* because read() moved the index to the front of the buffer; subscribing before
\* looking keeps both tasks awake in every other interleaving, whatever the size
\* of the buffer and whether or not the cell remembers wakes.
THEOREM OnlyWrapsSleep == SSpec => []SleepsOnlyAfterWrap
<1>1. ASSUME SInit PROVE WaitInv
  BY <1>1 DEF SInit, Init, WaitInv, Listening, ProducerWaits, ConsumerWaits, ProducerAsleep
<1>2. ASSUME Tasks, IInv, WaitInv, [SNext]_svars PROVE WaitInv'
  <2>1. CASE UNCHANGED svars
    <3>1. GrantStarts(want)' = GrantStarts(want)
      BY <2>1 DEF svars, vars, shared, GrantStarts
    <3> QED
      BY <1>2, <2>1, <3>1 DEF svars, vars, shared, waits, cvars, WaitInv, Listening,
                              ProducerWaits, ConsumerWaits, ProducerAsleep
  <2>2. CASE SNext
    BY <1>2, <2>2, ProducerWaitInv, ConsumerWaitInv DEF SNext
  <2> QED
    BY <1>2, <2>1, <2>2
<1>3. ASSUME IInv, WaitInv PROVE SleepsOnlyAfterWrap
  <2>1. ASSUME ConsumerAsleep, ptask # "signal", read = r_read PROVE Contents = <<>>
    <3>1. write = read
      BY <1>3, <2>1 DEF WaitInv, ConsumerWaits, ConsumerAsleep
    <3>2. released = committed /\ released \in Nat
      BY <1>3, <3>1, NAssumption, MaxBytesAssumption DEF IInv, DataInv, TypeOK
    <3>3. Contents = Bytes(released, released)
      BY <1>3, <3>2, ContentsAre DEF StreamInv
    <3> QED
      BY <3>2, <3>3, BytesSeq
  <2> QED
    BY <1>3, <2>1 DEF WaitInv, ProducerWaits, SleepsOnlyAfterWrap
<1> QED
  BY <1>1, <1>2, <1>3, TasksKept, ImplementsQueue, LayoutKept, PTL DEF SSpec
=============================================================================
