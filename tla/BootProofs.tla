----------------------------- MODULE BootProofs -----------------------------
(***************************************************************************)
(* Proofs about what brings a machine up: the transfer of files over the   *)
(* network, for files of any length, blocks of any size, any number of     *)
(* transfers and a network that loses, repeats and reorders packets; and   *)
(* the memory of PCI devices, for any machine.                             *)
(*                                                                         *)
(* The argument for transfers: a packet says what it said when it was      *)
(* sent, and the transfer it belongs to has not changed its file or its    *)
(* block size since; so a block that continues what the client has is the  *)
(* next part of the file, from whichever copy of the packet it is taken,   *)
(* as long as there are numbers for all blocks of the file.                *)
(* For PCI: Seed and the kernel look at the same functions and see the     *)
(* same BARs, and Seed goes on from a function only when each of its BARs  *)
(* has an address that suits it.                                           *)
(***************************************************************************)
EXTENDS Tftp, Pci, WellFoundedInduction, TLAPS

-----------------------------------------------------------------------------
\* File transfers.

\* The smaller of two numbers.
Least(a, b) == IF a < b THEN a ELSE b

\* The start of a file.
FirstBytes(n) == [i \in 1 .. n |-> i]

\* n bytes from some place.
BytesFrom(at, n) == [i \in 1 .. n |-> at + i]

\* Where a block starts in the file.
At(block, size) == (block - 1) * size

\* The bytes of a block of a session's file.
BlockBytes(s, block) ==
    BytesFrom(At(block, s.block_size),
              Least(s.block_size, Files[s.filename] - At(block, s.block_size)))

\* A buffer starts with n bytes of the file.
Holds(buffer, n, at) ==
    /\ buffer \in Seq(Nat) /\ n <= Len(buffer)
    /\ \A i \in 1 .. n : buffer[i] = at + i

\* What handle_request keeps for a transfer.
SessionSet ==
    [filename : { packet.filename : packet \in ReadRequests }, block_size : Nat, offset : Nat,
     block_number : 0 .. BlockNumbers - 1, num_bytes_read : Nat, new_num_bytes_read : Nat,
     read_buffer : Seq(Nat), send_buffer : Seq(Nat), state : {"new", "options", "sending", "over"}]

\* The block before `at` has been sent; n bytes from there wait in the send
\* buffer.
Loaded(s, at) ==
    /\ at <= Files[s.filename]
    /\ s.num_bytes_read = Least(s.block_size, Files[s.filename] - at)
    /\ Holds(s.send_buffer, s.num_bytes_read, at)

\* Between two blocks: one is in the send buffer, and the next one has been read
\* behind it.
Sending(s) ==
    LET at == At(s.block_number, s.block_size)
    IN /\ s.block_number >= 1
       /\ Loaded(s, at)
       /\ s.new_num_bytes_read =
            Least(s.block_size, Files[s.filename] - (at + s.num_bytes_read))
       /\ Holds(s.read_buffer, s.new_num_bytes_read, at + s.num_bytes_read)
       /\ s.offset = at + s.num_bytes_read + s.new_num_bytes_read

\* A transfer, by how far it has come.
SessionInv(s) ==
    /\ s \in SessionSet
    /\ s.state # "new"
    /\ s.state \in {"options", "sending"} =>
         s.filename \in DOMAIN Files /\ s.offset <= Files[s.filename]
    /\ s.state = "options" => s.offset = 0 /\ s.block_number = 0
    /\ s.state = "sending" /\ Numbered(s) => Sending(s)

\* The block size that an option stands for.
SizeOf(option) == IF option = -1 THEN DEFAULT_BLOCK_SIZE ELSE option

\* An OACK says what its transfer will do.
Announced(packet, s) ==
    /\ s.filename \in DOMAIN Files
    /\ packet.block_size \in Nat \cup {-1} /\ SizeOf(packet.block_size) = s.block_size
    /\ packet.tsize \in {-1, Files[s.filename]}

\* A DATA packet carries the block it is numbered with, if every block has a number
\* of its own; the client that does not know the transfer yet can only take its
\* first block, and no other size.
Carried(packet, s) ==
    /\ s.filename \in DOMAIN Files
    /\ packet.block \in 0 .. BlockNumbers - 1
    /\ Numbered(s) =>
         /\ packet.block >= 1 /\ At(packet.block, s.block_size) <= Files[s.filename]
         /\ packet.bytes = BlockBytes(s, packet.block)
    /\ client.session # packet.session => packet.block = 1 /\ s.block_size = DEFAULT_BLOCK_SIZE

\* A packet on its way, however late and however often it arrives.
PacketInv(packet) ==
    \/ packet \in ReadRequests
    \/ /\ packet.to = "client" /\ packet.session \in 1 .. Len(sessions)
       /\ packet.opcode \in {"ERROR", "OACK", "DATA"}
       /\ packet.opcode = "OACK" => Announced(packet, sessions[packet.session])
       /\ packet.opcode = "DATA" => Carried(packet, sessions[packet.session])
    \/ /\ packet.to = "session" /\ packet.session \in 1 .. Len(sessions)
       /\ packet.opcode \in {"ERROR", "ACK"}
       /\ packet.opcode = "ACK" => client.session = packet.session

\* The client has the blocks of a transfer up to the last one it took.
Has(s) ==
    /\ client.bytes = FirstBytes(Least(Files[s.filename], At(client.block + 1, s.block_size)))
    /\ client.state = "done" => Len(client.bytes) = Files[s.filename]

\* What the client knows of its transfer.
ClientInv ==
    /\ DOMAIN client = {"state", "last", "repeats", "session", "options", "block", "bytes", "length"}
    /\ client.state \in {"idle", "asked", "taking", "done", "failed"}
    /\ client.session \in 0 .. Len(sessions) /\ client.block \in 0 .. BlockNumbers - 1
    /\ client.options \in Nat \cup {-1}
    /\ client.session = Nobody =>
         /\ client.options = -1 /\ client.length = -1 /\ client.block = 0 /\ client.bytes = <<>>
         /\ client.state # "done"
    /\ client.session # Nobody =>
         LET s == sessions[client.session]
         IN /\ s.filename \in DOMAIN Files
            /\ BlockSize = s.block_size
            /\ client.length \in {-1, Files[s.filename]}
            /\ Numbered(s) => Has(s)
    /\ client.state \in {"asked", "taking"} => PacketInv(client.last)

\* The inductive invariant.
TftpInv ==
    /\ sessions \in Seq(SessionSet)
    /\ \A n \in 1 .. Len(sessions) : SessionInv(sessions[n])
    /\ \A packet \in wire : PacketInv(packet)
    /\ ClientInv

-----------------------------------------------------------------------------
\* Two sequences in a row.
LEMMA InARow ==
    ASSUME NEW S, NEW p \in Seq(S), NEW q \in Seq(S)
    PROVE  /\ p \o q \in Seq(S) /\ Len(p \o q) = Len(p) + Len(q)
           /\ \A i \in 1 .. Len(p) + Len(q) :
                 (p \o q)[i] = IF i <= Len(p) THEN p[i] ELSE q[i - Len(p)]
<1>1. p \o q \in Seq(S)
  OBVIOUS
<1>2. Len(p \o q) = Len(p) + Len(q)
  OBVIOUS
<1>3. ASSUME NEW i \in 1 .. Len(p) + Len(q), i <= Len(p) PROVE (p \o q)[i] = p[i]
  BY <1>3
<1>4. ASSUME NEW i \in 1 .. Len(p) + Len(q), ~(i <= Len(p))
      PROVE  (p \o q)[i] = q[i - Len(p)]
  BY <1>4
<1> QED
  BY <1>1, <1>2, <1>3, <1>4, Zenon

\* Two sequences with the same elements are one.
LEMMA SameElements ==
    ASSUME NEW S, NEW p \in Seq(S), NEW q \in Seq(S), Len(p) = Len(q),
           \A i \in 1 .. Len(p) : p[i] = q[i]
    PROVE  p = q
  OBVIOUS

\* A set of naturals that is not empty has a least element.
LEMMA LeastNumber ==
  ASSUME NEW S \in SUBSET Nat, S # {}
  PROVE  \E n \in S : \A m \in S : n <= m
<1>1. IsWellFoundedOn(OpToRel(<, Nat), Nat)
  BY NatLessThanWellFounded, Zenon
<1>2. \E n \in S : \A m \in S : ~(<<m, n>> \in OpToRel(<, Nat))
  BY <1>1, WFMin, Zenon
<1>3. PICK n \in S : \A m \in S : ~(<<m, n>> \in OpToRel(<, Nat))
  BY <1>2, Zenon
<1>4. \A m \in S : ~(m < n)
  BY <1>3, Zenon DEF OpToRel
<1> QED
  BY <1>4

\* The last of the options with a key, which parse_request keeps.
LEMMA LastOption ==
  ASSUME NEW m \in Nat, NEW S \in SUBSET (1 .. m), S # {}
  PROVE  \E i \in S : \A j \in S : j <= i
<1> DEFINE T == { m - i : i \in S }
<1>1. T \in SUBSET Nat /\ T # {}
  <2>1. PICK i \in S : TRUE
    BY Zenon
  <2>2. m - i \in T
    BY <2>1
  <2> QED
    BY <2>2
<1> HIDE DEF T
<1>2. PICK n \in T : \A k \in T : n <= k
  BY <1>1, LeastNumber
<1>3. PICK i \in S : n = m - i
  BY DEF T
<1>4. \A j \in S : m - j \in T
  BY DEF T
<1>5. \A j \in S : m - i <= m - j
  BY <1>2, <1>3, <1>4
<1> QED
  BY <1>3, <1>5

\* A request that parses has a block size, or none.
LEMMA RequestParsed ==
  ASSUME NEW packet \in ReadRequests
  PROVE  /\ parse_request(packet).filename \in { p.filename : p \in ReadRequests }
         /\ parse_request(packet).block_size \in Nat \cup {-1}
<1> DEFINE is == OptionsOf(packet, "blksize")
           last == CHOOSE i \in is : \A j \in is : j <= i
<1>1. /\ Len(packet.options) \in Nat
      /\ is \in SUBSET (1 .. Len(packet.options))
      /\ \A i \in is : packet.options[i][2] \in Nat
  BY RequestsAssumption DEF OptionsOf
<1>2. parse_request(packet).filename = packet.filename
  BY DEF parse_request
<1>3. parse_request(packet).block_size = IF is = {} THEN -1 ELSE packet.options[last][2]
  BY DEF parse_request
<1> HIDE DEF is
<1>4. is # {} => last \in is
  BY <1>1, LastOption, Zenon
<1> HIDE DEF last
<1> QED
  BY <1>1, <1>2, <1>3, <1>4

-----------------------------------------------------------------------------
\* Blocks follow one another.
LEMMA AtNext ==
  ASSUME NEW size \in Nat, NEW block \in Nat
  PROVE  /\ At(block, size) \in Int /\ At(1, size) = 0
         /\ At(block + 1, size) = At(block, size) + size
         /\ At(block + 1, size) \in Nat
<1>1. block * size \in Nat
  OBVIOUS
<1>2. (block - 1) * size = block * size - size
  OBVIOUS
<1> QED
  BY <1>1, <1>2 DEF At

\* file.read fills the buffer unless the file ends.
LEMMA ReadBytes ==
  ASSUME NEW s \in SessionSet, s.filename \in DOMAIN Files, s.offset <= Files[s.filename]
  PROVE  /\ Read(s) \in Seq(Nat)
         /\ Len(Read(s)) = Least(s.block_size, Files[s.filename] - s.offset)
         /\ \A i \in 1 .. Len(Read(s)) : Read(s)[i] = s.offset + i
<1> DEFINE n == Least(s.block_size, Files[s.filename] - s.offset)
<1>1. s.block_size \in Nat /\ s.offset \in Nat /\ Files[s.filename] \in Nat
  BY SizesAssumption DEF SessionSet
<1>2. n \in Nat
  BY <1>1 DEF Least
<1>3. Read(s) = [i \in 1 .. n |-> s.offset + i]
  BY <1>1 DEF Read, Least
<1> HIDE DEF n
<1>4. Len(Read(s)) = n /\ DOMAIN Read(s) = 1 .. n
  BY <1>2, <1>3
<1>5. Read(s) \in Seq(Nat)
  BY <1>1, <1>2, <1>3
<1> QED
  BY <1>3, <1>4, <1>5, Zenon DEF n

\* A read over the start of a buffer.
LEMMA FillHolds ==
  ASSUME NEW buffer \in Seq(Nat), NEW bytes \in Seq(Nat), NEW at \in Nat,
         \A i \in 1 .. Len(bytes) : bytes[i] = at + i
  PROVE  Holds(Fill(buffer, bytes), Len(bytes), at)
<1> DEFINE n == IF Len(buffer) < Len(bytes) THEN Len(bytes) ELSE Len(buffer)
<1>1. n \in Nat /\ Len(bytes) <= n /\ n \in {Len(bytes), Len(buffer)} /\ Len(bytes) \in Nat
      /\ Len(buffer) \in Nat
  OBVIOUS
<1>2. Fill(buffer, bytes) = [i \in 1 .. n |-> IF i <= Len(bytes) THEN bytes[i] ELSE buffer[i]]
  BY DEF Fill
<1> HIDE DEF n
<1>3. \A i \in 1 .. n : (IF i <= Len(bytes) THEN bytes[i] ELSE buffer[i]) \in Nat
  BY <1>1
<1>4. Fill(buffer, bytes) \in Seq(Nat) /\ Len(Fill(buffer, bytes)) = n
  BY <1>1, <1>2, <1>3
<1>5. \A i \in 1 .. Len(bytes) : Fill(buffer, bytes)[i] = at + i
  BY <1>1, <1>2
<1> QED
  BY <1>1, <1>4, <1>5 DEF Holds

\* The number after a number.
LEMMA NextNumber ==
  ASSUME NEW i \in 0 .. BlockNumbers - 1
  PROVE  /\ (i + 1) % BlockNumbers \in 0 .. BlockNumbers - 1
         /\ i + 1 < BlockNumbers => (i + 1) % BlockNumbers = i + 1
         /\ i + 1 = BlockNumbers => (i + 1) % BlockNumbers = 0
  BY NumbersAssumption, SMT

\* One turn of the loop: a block is read.
LEMMA SendReads ==
  ASSUME NEW s \in SessionSet, s.filename \in DOMAIN Files, s.offset <= Files[s.filename],
         NEW next, next = Send(s)
  PROVE  /\ next \in SessionSet /\ next.state = "sending"
         /\ next.filename = s.filename /\ next.block_size = s.block_size
         /\ next.block_number = (s.block_number + 1) % BlockNumbers
         /\ next.num_bytes_read = s.num_bytes_read /\ next.send_buffer = s.send_buffer
         /\ next.new_num_bytes_read = Least(s.block_size, Files[s.filename] - s.offset)
         /\ Holds(next.read_buffer, next.new_num_bytes_read, s.offset)
         /\ next.offset = s.offset + next.new_num_bytes_read
         /\ next.offset <= Files[s.filename]
<1> DEFINE bytes == Read(s)
<1>2. PICK length \in Nat : length = Files[s.filename]
  BY SizesAssumption
<1>3. /\ s.block_size \in Nat /\ s.offset \in Nat /\ s.num_bytes_read \in Nat
      /\ s.block_number \in 0 .. BlockNumbers - 1 /\ s.read_buffer \in Seq(Nat)
  BY DEF SessionSet
<1>5. /\ bytes \in Seq(Nat) /\ Len(bytes) = Least(s.block_size, length - s.offset)
      /\ \A i \in 1 .. Len(bytes) : bytes[i] = s.offset + i
  BY <1>2, ReadBytes
<1> HIDE DEF bytes
<1>6. Holds(Fill(s.read_buffer, bytes), Len(bytes), s.offset)
  BY <1>3, <1>5, FillHolds, Zenon
<1>4. PICK number : number = (s.block_number + 1) % BlockNumbers /\ number \in 0 .. BlockNumbers - 1
  BY <1>3, NextNumber, Zenon
<1>7. next = [s EXCEPT !.block_number = number, !.offset = s.offset + Len(bytes),
                       !.read_buffer = Fill(s.read_buffer, bytes),
                       !.new_num_bytes_read = Len(bytes), !.state = "sending"]
  BY <1>4, Zenon DEF Send, bytes
<1>8. /\ next.filename = s.filename /\ next.block_size = s.block_size
      /\ next.block_number = number /\ next.offset = s.offset + Len(bytes)
      /\ next.read_buffer = Fill(s.read_buffer, bytes) /\ next.new_num_bytes_read = Len(bytes)
      /\ next.state = "sending" /\ next.num_bytes_read = s.num_bytes_read
      /\ next.send_buffer = s.send_buffer
  BY <1>7, Zenon DEF SessionSet
<1>9. next \in SessionSet
  <2>1. Fill(s.read_buffer, bytes) \in Seq(Nat)
    BY <1>6 DEF Holds
  <2>2. /\ s.filename \in { packet.filename : packet \in ReadRequests } /\ s.send_buffer \in Seq(Nat)
        /\ Len(bytes) \in Nat
    BY <1>5 DEF SessionSet
  <2>3. /\ next.filename \in { packet.filename : packet \in ReadRequests }
        /\ next.block_size \in Nat /\ next.offset \in Nat /\ next.block_number \in 0 .. BlockNumbers - 1
        /\ next.num_bytes_read \in Nat /\ next.new_num_bytes_read \in Nat
        /\ next.read_buffer \in Seq(Nat) /\ next.send_buffer \in Seq(Nat)
        /\ next.state \in {"new", "options", "sending", "over"}
    <3>1. s.offset + Len(bytes) \in Nat
      BY <1>3, <2>2
    <3>2. "sending" \in {"new", "options", "sending", "over"}
      BY Zenon
    <3> QED
      BY <1>3, <1>4, <1>8, <2>1, <2>2, <3>1, <3>2, Zenon
  <2>4. DOMAIN next = DOMAIN s /\ next = [f \in DOMAIN next |-> next[f]]
    BY <1>7, Zenon
  <2> QED
    BY <2>3, <2>4 DEF SessionSet
<1>10. s.offset + Len(bytes) <= length
  BY <1>2, <1>3, <1>5 DEF Least
<1> QED
  BY <1>2, <1>4, <1>5, <1>6, <1>8, <1>9, <1>10, Zenon

\* If the block in the send buffer has a number, it goes out with it.
LEMMA SendSends ==
  ASSUME NEW s \in SessionSet, s.filename \in DOMAIN Files, s.block_number + 1 < BlockNumbers,
         Loaded(s, At(s.block_number + 1, s.block_size)),
         s.offset = At(s.block_number + 1, s.block_size) + s.num_bytes_read
  PROVE  /\ Sending(Send(s)) /\ Send(s).block_number = s.block_number + 1
         /\ s.offset <= Files[s.filename]
<1>3. /\ s.block_size \in Nat /\ s.offset \in Nat /\ s.num_bytes_read \in Nat
      /\ s.block_number \in 0 .. BlockNumbers - 1 /\ s.block_number \in Nat
  BY NumbersAssumption DEF SessionSet
<1>1. PICK at \in Nat : at = At(s.block_number + 1, s.block_size)
  BY <1>3, AtNext
<1>2. PICK length \in Nat : length = Files[s.filename]
  BY SizesAssumption
<1>4. s.offset = at + s.num_bytes_read /\ s.offset <= length
  BY <1>1, <1>2, <1>3 DEF Loaded, Least
<1>5. PICK next : next = Send(s)
  BY Zenon
<1>6. /\ next.filename = s.filename /\ next.block_size = s.block_size
      /\ next.block_number = s.block_number + 1
      /\ next.num_bytes_read = s.num_bytes_read /\ next.send_buffer = s.send_buffer
      /\ next.new_num_bytes_read = Least(s.block_size, Files[s.filename] - s.offset)
      /\ Holds(next.read_buffer, next.new_num_bytes_read, s.offset)
      /\ next.offset = s.offset + next.new_num_bytes_read
  BY <1>2, <1>3, <1>4, <1>5, SendReads, NextNumber, Zenon
<1>7. Loaded(next, at)
  BY <1>1, <1>6, Zenon DEF Loaded
<1>8. Sending(next)
  <2>1. next.block_number >= 1 /\ at = At(next.block_number, next.block_size)
    BY <1>1, <1>3, <1>6
  <2>2. next.new_num_bytes_read = Least(next.block_size, Files[next.filename] - (at + next.num_bytes_read))
    BY <1>4, <1>6, Zenon
  <2>3. Holds(next.read_buffer, next.new_num_bytes_read, at + next.num_bytes_read)
    BY <1>4, <1>6, Zenon
  <2>4. next.offset = at + next.num_bytes_read + next.new_num_bytes_read
    BY <1>4, <1>6, Zenon
  <2> QED
    BY <1>7, <2>1, <2>2, <2>3, <2>4 DEF Sending
<1> QED
  BY <1>2, <1>4, <1>5, <1>6, <1>8, Zenon

\* The first block, and the block after it.
LEMMA FirstBlockSends ==
  ASSUME NEW s \in SessionSet, s.filename \in DOMAIN Files, s.offset = 0, s.block_number = 0
  PROVE  /\ FirstBlock(s) \in SessionSet /\ Sending(FirstBlock(s))
         /\ FirstBlock(s).state = "sending" /\ FirstBlock(s).block_number = 1
         /\ FirstBlock(s).filename = s.filename /\ FirstBlock(s).block_size = s.block_size
         /\ FirstBlock(s).offset <= Files[s.filename]
<1> DEFINE bytes == Read(s)
           first == [s EXCEPT !.offset = Len(bytes), !.num_bytes_read = Len(bytes),
                              !.read_buffer = bytes, !.send_buffer = bytes]
<1>1. FirstBlock(s) = Send(first)
  BY DEF FirstBlock
<1>2. PICK length \in Nat : length = Files[s.filename]
  BY SizesAssumption
<1>3. /\ bytes \in Seq(Nat) /\ Len(bytes) = Least(s.block_size, length)
      /\ \A i \in 1 .. Len(bytes) : bytes[i] = i
  BY <1>2, ReadBytes
<1> HIDE DEF bytes
<1>4. /\ first.filename = s.filename /\ first.block_size = s.block_size
      /\ first.block_number = 0 /\ first.offset = Len(bytes)
      /\ first.num_bytes_read = Len(bytes) /\ first.send_buffer = bytes
      /\ first \in SessionSet
  <2>1. Len(bytes) \in Nat
    BY <1>3
  <2>2. /\ first.filename = s.filename /\ first.block_size = s.block_size
        /\ first.block_number = 0 /\ first.offset = Len(bytes)
        /\ first.num_bytes_read = Len(bytes) /\ first.send_buffer = bytes
        /\ first.read_buffer = bytes /\ first.new_num_bytes_read = s.new_num_bytes_read
        /\ first.state = s.state
    BY DEF SessionSet
  <2>3. /\ s.filename \in { packet.filename : packet \in ReadRequests } /\ s.block_size \in Nat
        /\ s.new_num_bytes_read \in Nat /\ s.state \in {"new", "options", "sending", "over"}
    BY DEF SessionSet
  <2>4. DOMAIN first = DOMAIN s /\ first = [f \in DOMAIN first |-> first[f]]
    BY Zenon
  <2> HIDE DEF first
  <2> QED
    BY <1>3, <2>1, <2>2, <2>3, <2>4, NumbersAssumption DEF SessionSet
<1> HIDE DEF first
<1>5. At(first.block_number + 1, first.block_size) = 0
  <2>1. first.block_size \in Nat /\ first.block_number + 1 = 1
    BY <1>4 DEF SessionSet
  <2> QED
    BY <2>1, AtNext, Zenon
<1>6. Loaded(first, 0)
  BY <1>2, <1>3, <1>4 DEF Loaded, Holds
<1>7. first.offset = 0 + first.num_bytes_read /\ first.block_number + 1 < BlockNumbers
  BY <1>3, <1>4, NumbersAssumption
<1>8. /\ Sending(Send(first)) /\ Send(first).block_number = first.block_number + 1
      /\ first.offset <= Files[first.filename]
  BY <1>4, <1>5, <1>6, <1>7, SendSends
<1>9. /\ Send(first) \in SessionSet /\ Send(first).state = "sending"
      /\ Send(first).filename = first.filename /\ Send(first).block_size = first.block_size
      /\ Send(first).offset <= Files[first.filename]
  BY <1>4, <1>8, SendReads, Zenon
<1> QED
  BY <1>1, <1>4, <1>8, <1>9

\* What follows an acknowledged block: the swapped buffers hold the next one, and
\* there is a number for it unless the file has too many.
LEMMA AfterAckSends ==
  ASSUME NEW s \in SessionSet, s.filename \in DOMAIN Files, s.offset <= Files[s.filename],
         Numbered(s) => Sending(s), NEW next, next = after_ack(s)
  PROVE  /\ next \in SessionSet
         /\ next.filename = s.filename /\ next.block_size = s.block_size
         /\ \/ next.state = "over"
            \/ /\ next.state = "sending" /\ next.offset <= Files[s.filename]
               /\ Numbered(next) => Sending(next)
<1>1. CASE s.num_bytes_read # s.block_size
  BY <1>1, Zenon DEF after_ack, SessionSet
<1>2. CASE s.num_bytes_read = s.block_size
  <2> DEFINE full == [s EXCEPT !.num_bytes_read = s.new_num_bytes_read,
                               !.read_buffer = s.send_buffer, !.send_buffer = s.read_buffer]
  <2>1. next = Send(full)
    BY <1>2 DEF after_ack
  <2>2. /\ full.filename = s.filename /\ full.block_size = s.block_size
        /\ full.block_number = s.block_number /\ full.offset = s.offset
        /\ full.num_bytes_read = s.new_num_bytes_read /\ full.send_buffer = s.read_buffer
        /\ full \in SessionSet
    BY Zenon DEF SessionSet
  <2> HIDE DEF full
  <2>3. /\ s.block_size \in Nat /\ s.block_number \in Nat /\ s.num_bytes_read \in Nat
        /\ Files[s.filename] \in Nat /\ s.new_num_bytes_read \in Nat
        /\ s.block_number \in 0 .. BlockNumbers - 1
    BY SizesAssumption, NumbersAssumption DEF SessionSet
  <2>4. /\ next \in SessionSet /\ next.state = "sending"
        /\ next.filename = s.filename /\ next.block_size = s.block_size
        /\ next.offset <= Files[s.filename]
    BY <2>1, <2>2, SendReads, Zenon
  <2>5. ASSUME Numbered(s) PROVE Sending(next)
    <3>4. PICK at \in Int : at = At(s.block_number, s.block_size)
      BY <2>3, AtNext, Zenon
    <3>5. At(s.block_number + 1, s.block_size) = at + s.block_size
      BY <2>3, <3>4, AtNext, Zenon
    <3>6. /\ at <= Files[s.filename]
          /\ s.num_bytes_read = Least(s.block_size, Files[s.filename] - at)
          /\ s.new_num_bytes_read = Least(s.block_size, Files[s.filename] - (at + s.num_bytes_read))
          /\ Holds(s.read_buffer, s.new_num_bytes_read, at + s.num_bytes_read)
          /\ s.offset = at + s.num_bytes_read + s.new_num_bytes_read
      BY <2>5, <3>4 DEF Sending, Loaded
    <3>7. at + s.block_size <= Files[s.filename]
      BY <1>2, <2>3, <3>4, <3>6 DEF Least
    <3>8. Loaded(full, at + s.block_size)
      BY <1>2, <2>2, <3>6, <3>7, ZenonT(30) DEF Loaded
    <3>9. full.offset = at + s.block_size + full.num_bytes_read
      BY <1>2, <2>2, <3>6
    <3>10. At(full.block_number + 1, full.block_size) = at + s.block_size
      BY <2>2, <3>5
    <3>11. s.block_number + 1 < BlockNumbers
      <4>1. CASE s.block_number + 1 = BlockNumbers
        <5>1. At(BlockNumbers, s.block_size) <= Files[s.filename]
          BY <3>5, <3>7, <4>1
        <5>2. PICK m \in Nat : m = At(BlockNumbers, s.block_size)
          BY <2>3, <4>1, AtNext
        <5>3. m = (BlockNumbers - 1) * s.block_size /\ Files[s.filename] < (BlockNumbers - 1) * s.block_size
          BY <2>5, <5>2, Zenon DEF At, Numbered
        <5> QED
          BY <2>3, <5>1, <5>2, <5>3
      <4> QED
        BY <2>3, <4>1, NumbersAssumption
    <3> QED
      BY <2>1, <2>2, <3>8, <3>9, <3>10, <3>11, SendSends
  <2>6. Numbered(next) => Numbered(s)
    BY <2>4, Zenon DEF Numbered
  <2> QED
    BY <2>4, <2>5, <2>6, Zenon
<1> QED
  BY <1>1, <1>2

\* The packet of a block has its bytes.
LEMMA DataBytes ==
  ASSUME NEW s \in SessionSet, s.filename \in DOMAIN Files, Sending(s), NEW n
  PROVE  /\ Data(n, s).opcode = "DATA" /\ Data(n, s).to = "client" /\ Data(n, s).session = n
         /\ Data(n, s).block = s.block_number /\ s.block_number \in Nat /\ s.block_number >= 1
         /\ At(s.block_number, s.block_size) <= Files[s.filename]
         /\ Data(n, s).bytes = BlockBytes(s, s.block_number)
<1>3. /\ s.block_number \in Nat /\ s.block_size \in Nat
      /\ s.num_bytes_read \in Nat /\ s.send_buffer \in Seq(Nat)
  BY NumbersAssumption DEF SessionSet
<1>1. PICK at \in Int : at = At(s.block_number, s.block_size)
  BY <1>3, AtNext, Zenon
<1>2. /\ at <= Files[s.filename] /\ s.block_number >= 1 /\ s.block_number \in Nat
      /\ s.num_bytes_read = Least(s.block_size, Files[s.filename] - at)
      /\ s.num_bytes_read \in Nat /\ s.send_buffer \in Seq(Nat)
      /\ s.num_bytes_read <= Len(s.send_buffer)
      /\ \A i \in 1 .. s.num_bytes_read : s.send_buffer[i] = at + i
  BY <1>1, <1>3, Zenon DEF Sending, Loaded, Holds
<1>4. SubSeq(s.send_buffer, 1, s.num_bytes_read) = BytesFrom(at, s.num_bytes_read)
  BY <1>2 DEF BytesFrom
<1>5. BlockBytes(s, s.block_number) = BytesFrom(at, s.num_bytes_read)
  BY <1>1, <1>2 DEF BlockBytes
<1> QED
  BY <1>1, <1>2, <1>4, <1>5, Zenon DEF Data

-----------------------------------------------------------------------------
\* Sessions keep their file and their block size, and the client its session.
Keeps ==
    /\ sessions' \in Seq(SessionSet) /\ Len(sessions') >= Len(sessions)
    /\ \A n \in 1 .. Len(sessions) : /\ sessions'[n].filename = sessions[n].filename
                                     /\ sessions'[n].block_size = sessions[n].block_size
    /\ client.session \in {Nobody, client'.session}

\* So a packet under way stays true.
LEMMA PacketKept ==
  ASSUME sessions \in Seq(SessionSet), Keeps, NEW packet, PacketInv(packet)
  PROVE  PacketInv(packet)'
<1>1. CASE packet \in ReadRequests
  BY <1>1 DEF PacketInv
<1>2. CASE packet.to = "client" /\ packet \notin ReadRequests
  <2>1. /\ packet.session \in 1 .. Len(sessions) /\ packet.session \in 1 .. Len(sessions')
        /\ packet.opcode \in {"ERROR", "OACK", "DATA"}
        /\ packet.opcode = "OACK" => Announced(packet, sessions[packet.session])
        /\ packet.opcode = "DATA" => Carried(packet, sessions[packet.session])
    BY <1>2 DEF PacketInv, Keeps
  <2>2. PICK s, t : s = sessions[packet.session] /\ t = sessions'[packet.session]
    OBVIOUS
  <2>3. t.filename = s.filename /\ t.block_size = s.block_size
    BY <2>1, <2>2 DEF Keeps
  <2>4. Announced(packet, s) => Announced(packet, t)
    BY <2>3 DEF Announced
  <2>5. Carried(packet, s) => Carried(packet, t)'
    <3>1. client'.session # packet.session => client.session # packet.session
      BY <2>1 DEF Keeps, Nobody
    <3>2. BlockBytes(t, packet.block) = BlockBytes(s, packet.block) /\ Numbered(t) = Numbered(s)
      BY <2>3 DEF BlockBytes, Numbered
    <3> QED
      BY <2>3, <3>1, <3>2 DEF Carried
  <2> QED
    BY <1>2, <2>1, <2>2, <2>4, <2>5, Zenon DEF PacketInv, Announced
<1>3. CASE packet.to = "session" /\ packet \notin ReadRequests
  <2>1. /\ packet.session \in 1 .. Len(sessions) /\ packet.session \in 1 .. Len(sessions')
        /\ packet.opcode \in {"ERROR", "ACK"}
        /\ packet.opcode = "ACK" => client.session = packet.session
    BY <1>3 DEF PacketInv, Keeps
  <2>2. packet.opcode = "ACK" => client'.session = packet.session
    BY <2>1 DEF Keeps, Nobody
  <2> QED
    BY <1>3, <2>1, <2>2 DEF PacketInv
<1> QED
  BY <1>1, <1>2, <1>3 DEF PacketInv

\* And so does what the client has, when it does nothing.
LEMMA ClientKept ==
  ASSUME sessions \in Seq(SessionSet), Keeps, ClientInv, client' = client
  PROVE  ClientInv'
<1>1. client.state \in {"asked", "taking"} => PacketInv(client.last)'
  BY PacketKept DEF ClientInv
<1>2. /\ client.session \in 0 .. Len(sessions')
      /\ client.session # Nobody => client.session \in 1 .. Len(sessions)
  BY DEF ClientInv, Keeps, Nobody
<1>3. BlockSize' = BlockSize
  BY DEF BlockSize
<1>4. PICK s, t : s = sessions[client.session] /\ t = sessions'[client.session]
  OBVIOUS
<1>5. client.session # Nobody => t.filename = s.filename /\ t.block_size = s.block_size
  BY <1>2, <1>4 DEF Keeps
<1>6. client.session # Nobody =>
        /\ t.filename \in DOMAIN Files /\ BlockSize = t.block_size
        /\ client.length \in {-1, Files[t.filename]}
        /\ Numbered(t) => Has(t)
  BY <1>4, <1>5, Zenon DEF ClientInv, Numbered, Has
<1>7. Has(t) => Has(t)'
  BY Zenon DEF Has
<1> QED
  BY <1>1, <1>2, <1>3, <1>4, <1>6, <1>7, Zenon DEF ClientInv

\* A session is added, and answers.
LEMMA SessionAdded ==
  ASSUME TftpInv, NEW s, SessionInv(s), sessions' = Append(sessions, s), client' = client,
         NEW answers, wire' \subseteq wire \cup answers,
         \A packet \in answers : PacketInv(packet)'
  PROVE  TftpInv'
<1>1. sessions \in Seq(SessionSet) /\ s \in SessionSet
  BY DEF TftpInv, SessionInv
<1>2. /\ sessions' \in Seq(SessionSet) /\ Len(sessions') = Len(sessions) + 1
      /\ sessions'[Len(sessions) + 1] = s /\ Len(sessions) \in Nat
      /\ \A n \in 1 .. Len(sessions) : sessions'[n] = sessions[n]
  BY <1>1
<1>3. Keeps
  BY <1>2 DEF Keeps
<1>4. ClientInv'
  BY <1>1, <1>3, ClientKept DEF TftpInv
<1>5. \A packet \in wire' : PacketInv(packet)'
  BY <1>1, <1>3, PacketKept DEF TftpInv
<1>6. \A n \in 1 .. Len(sessions') : SessionInv(sessions'[n])
  BY <1>2 DEF TftpInv
<1> QED
  BY <1>2, <1>4, <1>5, <1>6 DEF TftpInv

\* A session goes on, and answers.
LEMMA SessionChanged ==
  ASSUME TftpInv, NEW n \in 1 .. Len(sessions), NEW s, SessionInv(s),
         s.filename = sessions[n].filename, s.block_size = sessions[n].block_size,
         sessions' = [sessions EXCEPT ![n] = s], client' = client,
         NEW answers, wire' \subseteq wire \cup answers,
         \A packet \in answers : PacketInv(packet)'
  PROVE  TftpInv'
<1>1. sessions \in Seq(SessionSet) /\ s \in SessionSet
  BY DEF TftpInv, SessionInv
<1>2. /\ sessions' \in Seq(SessionSet) /\ Len(sessions') = Len(sessions) /\ Len(sessions) \in Nat
      /\ sessions'[n] = s /\ \A m \in 1 .. Len(sessions) : m # n => sessions'[m] = sessions[m]
  BY <1>1
<1>3. Keeps
  BY <1>2 DEF Keeps
<1>4. ClientInv'
  BY <1>1, <1>3, ClientKept DEF TftpInv
<1>5. \A packet \in wire' : PacketInv(packet)'
  BY <1>1, <1>3, PacketKept DEF TftpInv
<1>6. \A m \in 1 .. Len(sessions') : SessionInv(sessions'[m])
  BY <1>2 DEF TftpInv
<1> QED
  BY <1>2, <1>4, <1>5, <1>6 DEF TftpInv

\* The server does nothing, and packets that are true are added.
LEMMA OnlyPackets ==
  ASSUME TftpInv, sessions' = sessions, client' = client,
         NEW answers, wire' \subseteq wire \cup answers,
         \A packet \in answers : PacketInv(packet)'
  PROVE  TftpInv'
<1>1. sessions \in Seq(SessionSet)
  BY DEF TftpInv
<1>2. Keeps
  BY <1>1 DEF Keeps
<1> QED
  BY <1>1, <1>2, ClientKept, PacketKept DEF TftpInv

-----------------------------------------------------------------------------
\* What comes off the wire and what is put on it.
LEMMA WireTaken ==
  ASSUME NEW packet, NEW answers
  PROVE  /\ Arrives(packet) => packet \in wire /\ wire' \subseteq wire
         /\ Exchange(packet, answers) => packet \in wire /\ wire' \subseteq wire \cup answers
  BY DEF Arrives, Exchange

\* A new session is what the request asks for.
LEMMA NewSessionFits ==
  ASSUME NEW packet \in ReadRequests, NEW request, request = parse_request(packet)
  PROVE  /\ NewSession(request) \in SessionSet
         /\ NewSession(request).filename = request.filename
         /\ NewSession(request).block_size = SizeOf(request.block_size)
         /\ NewSession(request).offset = 0 /\ NewSession(request).block_number = 0
<1>1. /\ request.filename \in { p.filename : p \in ReadRequests }
      /\ request.block_size \in Nat \cup {-1}
  BY RequestParsed
<1>2. SizeOf(request.block_size) \in Nat
  BY <1>1, SizesAssumption DEF SizeOf
<1>3. <<>> \in Seq(Nat)
  OBVIOUS
<1> QED
  BY <1>1, <1>2, <1>3, NumbersAssumption DEF NewSession, SizeOf, SessionSet

\* handle_read_request: the file is not there, or the options are confirmed, or
\* the first block is sent.
LEMMA HandleInv ==
  ASSUME TftpInv, NEW packet \in ReadRequests, handle_read_request(packet), client' = client
  PROVE  TftpInv'
<1>1. PICK request : request = parse_request(packet)
  OBVIOUS
<1>2. PICK n : n = Len(sessions) + 1
  OBVIOUS
<1>3. PICK s : s = NewSession(request)
  OBVIOUS
<1>4. /\ s \in SessionSet /\ s.filename = request.filename
      /\ s.block_size = SizeOf(request.block_size) /\ s.offset = 0 /\ s.block_number = 0
      /\ request.block_size \in Nat \cup {-1}
  BY <1>1, <1>3, NewSessionFits, RequestParsed
<1>5. /\ sessions \in Seq(SessionSet) /\ Len(sessions) \in Nat
      /\ \A x \in SessionSet : sessions' = Append(sessions, x) =>
            n \in 1 .. Len(sessions') /\ sessions'[n] = x
  BY <1>2 DEF TftpInv
<1>6. CASE request.filename \notin DOMAIN Files
  <2>1. PICK over : over = [s EXCEPT !.state = "over"]
    BY Zenon
  <2>2. PICK answer : answer = [opcode |-> "ERROR", to |-> "client", session |-> n]
    BY Zenon
  <2>3. sessions' = Append(sessions, over) /\ Exchange(packet, {answer})
    BY <1>1, <1>2, <1>3, <1>6, <2>1, <2>2 DEF handle_read_request
  <2>4. SessionInv(over) /\ over \in SessionSet
    BY <1>4, <2>1, Zenon DEF SessionInv, SessionSet
  <2>5. PacketInv(answer)'
    BY <1>5, <2>2, <2>3, <2>4 DEF PacketInv
  <2>9. PICK answers : answers = {answer}
    BY Zenon
  <2>10. wire' \subseteq wire \cup answers
    BY <2>3, <2>9, WireTaken
  <2>11. \A p \in answers : PacketInv(p)'
    BY <2>5, <2>9
  <2> QED
    BY <2>3, <2>4, <2>10, <2>11, SessionAdded, Zenon
<1>7. CASE request.filename \in DOMAIN Files /\ (request.wants_tsize \/ request.block_size # -1)
  <2>1. PICK waiting : waiting = [s EXCEPT !.state = "options"]
    BY Zenon
  <2>2. PICK answer : answer = Oack(n, request)
    OBVIOUS
  <2>3. sessions' = Append(sessions, waiting) /\ Exchange(packet, {answer})
    BY <1>1, <1>2, <1>3, <1>7, <2>1, <2>2 DEF handle_read_request
  <2>4. /\ waiting \in SessionSet /\ waiting.filename = request.filename
        /\ waiting.block_size = SizeOf(request.block_size)
        /\ waiting.offset = 0 /\ waiting.block_number = 0 /\ waiting.state = "options"
    BY <1>4, <2>1, Zenon DEF SessionSet
  <2>5. SessionInv(waiting)
    BY <1>7, <2>4, SizesAssumption DEF SessionInv
  <2>6. /\ answer.opcode = "OACK" /\ answer.to = "client" /\ answer.session = n
        /\ answer.block_size = request.block_size
        /\ answer.tsize \in {-1, Files[request.filename]}
    BY <2>2 DEF Oack
  <2>7. Announced(answer, waiting)
    BY <1>4, <1>7, <2>4, <2>6 DEF Announced
  <2>8. PacketInv(answer)'
    BY <1>5, <2>3, <2>4, <2>6, <2>7, Zenon DEF PacketInv, Announced
  <2>9. PICK answers : answers = {answer}
    BY Zenon
  <2>10. wire' \subseteq wire \cup answers
    BY <2>3, <2>9, WireTaken
  <2>11. \A p \in answers : PacketInv(p)'
    BY <2>8, <2>9
  <2> QED
    BY <2>3, <2>5, <2>10, <2>11, SessionAdded, ZenonT(30)
<1>8. CASE request.filename \in DOMAIN Files /\ ~ (request.wants_tsize \/ request.block_size # -1)
  <2>1. PICK first : first = FirstBlock(s)
    OBVIOUS
  <2>2. PICK answer : answer = Data(n, first)
    OBVIOUS
  <2>3. sessions' = Append(sessions, first) /\ Exchange(packet, {answer})
    BY <1>1, <1>2, <1>3, <1>8, <2>1, <2>2 DEF handle_read_request
  <2>4. /\ first \in SessionSet /\ Sending(first) /\ first.state = "sending"
        /\ first.filename = request.filename /\ first.block_size = DEFAULT_BLOCK_SIZE
        /\ first.block_number = 1 /\ first.offset <= Files[first.filename]
    BY <1>4, <1>8, <2>1, FirstBlockSends DEF SizeOf
  <2>5. SessionInv(first)
    BY <1>8, <2>4 DEF SessionInv
  <2>6. /\ answer.opcode = "DATA" /\ answer.to = "client" /\ answer.session = n
        /\ answer.block = 1 /\ At(answer.block, first.block_size) <= Files[first.filename]
        /\ answer.bytes = BlockBytes(first, answer.block)
    BY <1>8, <2>2, <2>4, DataBytes
  <2>7. Carried(answer, first)'
    BY <1>8, <2>4, <2>6, NumbersAssumption DEF Carried
  <2>8. PacketInv(answer)'
    BY <1>5, <2>3, <2>4, <2>6, <2>7, Zenon DEF PacketInv
  <2>9. PICK answers : answers = {answer}
    BY Zenon
  <2>10. wire' \subseteq wire \cup answers
    BY <2>3, <2>9, WireTaken
  <2>11. \A p \in answers : PacketInv(p)'
    BY <2>8, <2>9
  <2> QED
    BY <2>3, <2>5, <2>10, <2>11, SessionAdded, ZenonT(30)
<1> QED
  BY <1>6, <1>7, <1>8

\* Packets that reach the server's port.
LEMMA ServeInv ==
  ASSUME TftpInv, Serve PROVE TftpInv'
<1>1. PICK packet \in wire :
        /\ packet.to = "server"
        /\ \/ Accepts(packet) /\ handle_read_request(packet)
           \/ ~Accepts(packet) /\ Arrives(packet) /\ UNCHANGED sessions
  BY DEF Serve
<1>2. packet \in ReadRequests
  BY <1>1 DEF TftpInv, PacketInv
<1>3. client' = client
  BY DEF Serve
<1>4. CASE handle_read_request(packet)
  BY <1>2, <1>3, <1>4, HandleInv
<1>5. CASE Arrives(packet) /\ UNCHANGED sessions
  <2>1. PICK answers : answers = {}
    BY Zenon
  <2>2. wire' \subseteq wire \cup answers /\ \A p \in answers : PacketInv(p)'
    BY <1>5, <2>1, WireTaken, Zenon
  <2> QED
    BY <1>3, <1>5, <2>2, OnlyPackets
<1> QED
  BY <1>1, <1>4, <1>5

\* receive_ack.
LEMMA ReceiveInv ==
  ASSUME TftpInv, receive_ack PROVE TftpInv'
<1> DEFINE Next(s) == IF s.state = "options" THEN FirstBlock(s) ELSE after_ack(s)
<1>1. PICK packet \in wire :
        /\ packet.to = "session"
        /\ LET n == packet.session
               s == sessions[n]
               next == IF s.state = "options" THEN FirstBlock(s) ELSE after_ack(s)
           IN \/ /\ s.state = "over"
                 /\ Arrives(packet) /\ UNCHANGED <<sessions, crashed>>
              \/ /\ s.state # "over" /\ packet.opcode = "ERROR"
                 /\ Arrives(packet)
                 /\ sessions' = [sessions EXCEPT ![n].state = "over"] /\ UNCHANGED crashed
              \/ /\ s.state # "over" /\ packet.opcode = "ACK" /\ packet.block # s.block_number
                 /\ Arrives(packet) /\ crashed' = TRUE /\ UNCHANGED sessions
              \/ /\ packet.opcode = "ACK" /\ packet.block = s.block_number /\ Overflows(s)
                 /\ Arrives(packet) /\ crashed' = TRUE /\ UNCHANGED sessions
              \/ /\ s.state # "over" /\ packet.opcode = "ACK" /\ packet.block = s.block_number
                 /\ Exchange(packet, IF next.state = "over" THEN {} ELSE {Data(n, next)})
                 /\ sessions' = [sessions EXCEPT ![n] = next] /\ UNCHANGED crashed
  BY Zenon DEF receive_ack
<1>2. client' = client
  BY DEF receive_ack
<1>3. PICK n : n = packet.session
  OBVIOUS
<1>4. PICK s : s = sessions[n]
  OBVIOUS
<1>5. /\ n \in 1 .. Len(sessions) /\ packet.opcode \in {"ERROR", "ACK"}
      /\ packet.opcode = "ACK" => client.session = n
  BY <1>1, <1>3, RequestsAssumption, Zenon DEF TftpInv, PacketInv
<1>6. s \in SessionSet /\ SessionInv(s) /\ sessions \in Seq(SessionSet)
  BY <1>4, <1>5 DEF TftpInv
<1>7. CASE Arrives(packet) /\ UNCHANGED sessions
  <2>1. PICK answers : answers = {}
    BY Zenon
  <2>2. wire' \subseteq wire \cup answers /\ \A p \in answers : PacketInv(p)'
    BY <1>7, <2>1, WireTaken, Zenon
  <2> QED
    BY <1>2, <1>7, <2>2, OnlyPackets
<1>8. CASE Arrives(packet) /\ sessions' = [sessions EXCEPT ![n].state = "over"]
  <2>1. PICK answers : answers = {}
    BY Zenon
  <2>5. wire' \subseteq wire \cup answers /\ \A p \in answers : PacketInv(p)'
    BY <1>8, <2>1, WireTaken, Zenon
  <2>2. PICK over : over = [s EXCEPT !.state = "over"]
    BY Zenon
  <2>3. sessions' = [sessions EXCEPT ![n] = over]
    BY <1>4, <1>8, <2>2
  <2>4. SessionInv(over) /\ over.filename = s.filename /\ over.block_size = s.block_size
    BY <1>6, <2>2, ZenonT(30) DEF SessionInv, SessionSet
  <2> QED
    BY <1>2, <1>4, <1>5, <2>3, <2>4, <2>5, SessionChanged, ZenonT(30)
<1>9. CASE /\ s.state # "over" /\ packet.opcode = "ACK"
           /\ Exchange(packet, IF Next(s).state = "over" THEN {} ELSE {Data(n, Next(s))})
           /\ sessions' = [sessions EXCEPT ![n] = Next(s)]
  <2>1. PICK next : next = Next(s)
    OBVIOUS
  <2>2. /\ s.state \in {"options", "sending"} /\ s.filename \in DOMAIN Files
        /\ s.offset <= Files[s.filename]
    BY <1>6, <1>9 DEF SessionInv, SessionSet
  <2>3. /\ next \in SessionSet /\ next.filename = s.filename /\ next.block_size = s.block_size
        /\ \/ next.state = "over"
           \/ /\ next.state = "sending" /\ next.offset <= Files[s.filename]
              /\ Numbered(next) => Sending(next)
    <3>1. CASE s.state = "options"
      BY <1>6, <2>1, <2>2, <3>1, FirstBlockSends DEF SessionInv
    <3>2. CASE s.state = "sending"
      <4>1. Numbered(s) => Sending(s)
        BY <1>6, <3>2, Zenon DEF SessionInv
      <4>2. next = after_ack(s)
        BY <2>1, <3>2
      <4> QED
        BY <1>6, <2>2, <4>1, <4>2, AfterAckSends
    <3> QED
      BY <2>2, <3>1, <3>2
  <2>4. SessionInv(next)
    BY <2>2, <2>3 DEF SessionInv
  <2>5. PICK answers : answers = IF next.state = "over" THEN {} ELSE {Data(n, next)}
    BY Zenon
  <2>6. wire' \subseteq wire \cup answers /\ sessions' = [sessions EXCEPT ![n] = next]
    BY <1>9, <2>1, <2>5, WireTaken
  <2>7. sessions'[n] = next /\ n \in 1 .. Len(sessions')
    BY <1>5, <1>6, <2>3, <2>6
  <2>8. ASSUME NEW answer \in answers PROVE PacketInv(answer)'
    <3>1. answer = Data(n, next) /\ (Numbered(next) => Sending(next))
      BY <2>3, <2>5
    <3>2. /\ answer.opcode = "DATA" /\ answer.to = "client" /\ answer.session = n
          /\ answer.block \in 0 .. BlockNumbers - 1
          /\ Numbered(next) =>
               /\ answer.block >= 1 /\ At(answer.block, next.block_size) <= Files[next.filename]
               /\ answer.bytes = BlockBytes(next, answer.block)
      <4>1. /\ answer.opcode = "DATA" /\ answer.to = "client" /\ answer.session = n
            /\ answer.block = next.block_number
        BY <3>1, Zenon DEF Data
      <4>2. next.block_number \in 0 .. BlockNumbers - 1
        BY <2>3 DEF SessionSet
      <4>3. next.filename \in DOMAIN Files /\ next \in SessionSet
        BY <2>2, <2>3
      <4> QED
        BY <3>1, <4>1, <4>2, <4>3, DataBytes
    <3>3. Carried(answer, next)'
      BY <1>2, <1>5, <1>9, <2>2, <2>3, <3>2 DEF Carried
    <3> QED
      BY <2>7, <3>2, <3>3 DEF PacketInv
  <2> QED
    BY <1>2, <1>4, <1>5, <2>3, <2>4, <2>6, <2>8, SessionChanged, ZenonT(30)
<1> QED
  BY <1>1, <1>3, <1>4, <1>7, <1>8, <1>9

-----------------------------------------------------------------------------
\* The network and the client.

\* Nothing new comes of a loss.
LEMMA LoseInv ==
  ASSUME TftpInv, Lose PROVE TftpInv'
<1>1. PICK answers : answers = {}
  BY Zenon
<1>2. wire' \subseteq wire \cup answers /\ \A p \in answers : PacketInv(p)'
  BY <1>1 DEF Lose
<1>3. sessions' = sessions /\ client' = client
  BY DEF Lose
<1> QED
  BY <1>2, <1>3, OnlyPackets

\* The client moves on: what it had stays true where the step says nothing else.
LEMMA ClientMoves ==
  ASSUME TftpInv, sessions' = sessions, client.session \in {Nobody, client'.session}, ClientInv',
         NEW answers, wire' \subseteq wire \cup answers, \A p \in answers : PacketInv(p)'
  PROVE  TftpInv'
<1>1. sessions \in Seq(SessionSet)
  BY DEF TftpInv
<1>2. Keeps
  BY <1>1 DEF Keeps
<1>3. \A p \in wire : PacketInv(p)'
  BY <1>1, <1>2, PacketKept DEF TftpInv
<1> QED
  BY <1>3 DEF TftpInv

\* The client asks, or repeats itself.
LEMMA ClientSaysInv ==
  ASSUME TftpInv, ClientAsks \/ ClientRepeats PROVE TftpInv'
<1>1. PICK packet : wire' = wire \cup {packet} /\ PacketInv(packet)
                    /\ \/ client' = [client EXCEPT !.state = "asked", !.last = packet]
                       \/ client' = [client EXCEPT !.repeats = @ + 1]
  <2>1. CASE ClientAsks
    BY <2>1, Zenon DEF ClientAsks, Says, PacketInv
  <2>2. CASE ClientRepeats
    BY <2>2 DEF ClientRepeats, Says, TftpInv, ClientInv
  <2> QED
    BY <2>1, <2>2, Zenon
<1>2. sessions' = sessions
  BY Zenon DEF ClientAsks, ClientRepeats
<1>3. /\ client'.session = client.session /\ client'.options = client.options
      /\ client'.block = client.block /\ client'.bytes = client.bytes
      /\ client'.length = client.length /\ DOMAIN client' = DOMAIN client
      /\ \/ client'.state = "asked" /\ client'.last = packet
         \/ client'.state = client.state /\ client'.last = client.last
  BY <1>1, ZenonT(30) DEF TftpInv, ClientInv
<1>4. sessions \in Seq(SessionSet) /\ Keeps
  BY <1>2, <1>3 DEF Keeps, TftpInv
<1>5. PacketInv(packet)' /\ (client.state \in {"asked", "taking"} => PacketInv(client.last)')
  BY <1>1, <1>4, PacketKept, ZenonT(30) DEF TftpInv, ClientInv
<1>6. BlockSize' = BlockSize
  BY <1>3 DEF BlockSize
<1>7. ClientInv'
  BY <1>2, <1>3, <1>5, <1>6, Zenon DEF TftpInv, ClientInv, Has
<1>8. PICK answers : answers = {packet}
  BY Zenon
<1>9. wire' \subseteq wire \cup answers /\ \A p \in answers : PacketInv(p)'
  BY <1>1, <1>5, <1>8
<1> QED
  BY <1>2, <1>3, <1>7, <1>9, ClientMoves

\* The bytes of the file so far, and those of the next block.
LEMMA Joined ==
  ASSUME NEW at \in Nat, NEW m \in Nat
  PROVE  /\ FirstBytes(at) \o BytesFrom(at, m) = FirstBytes(at + m)
         /\ Len(BytesFrom(at, m)) = m /\ Len(FirstBytes(at + m)) = at + m
<1>1. PICK a \in Seq(Nat) : a = FirstBytes(at) /\ Len(a) = at /\ \A i \in 1 .. at : a[i] = i
  <2>1. FirstBytes(at) \in Seq(Nat) /\ Len(FirstBytes(at)) = at
    BY DEF FirstBytes
  <2>2. \A i \in 1 .. at : FirstBytes(at)[i] = i
    BY DEF FirstBytes
  <2> QED
    BY <2>1, <2>2
<1>2. PICK b \in Seq(Nat) : b = BytesFrom(at, m) /\ Len(b) = m /\ \A i \in 1 .. m : b[i] = at + i
  <2>1. BytesFrom(at, m) \in Seq(Nat) /\ Len(BytesFrom(at, m)) = m
    BY DEF BytesFrom
  <2>2. \A i \in 1 .. m : BytesFrom(at, m)[i] = at + i
    BY DEF BytesFrom
  <2> QED
    BY <2>1, <2>2
<1>3. PICK c \in Seq(Nat) : c = FirstBytes(at + m) /\ Len(c) = at + m
                           /\ \A i \in 1 .. at + m : c[i] = i
  <2>1. FirstBytes(at + m) \in Seq(Nat) /\ Len(FirstBytes(at + m)) = at + m
    BY DEF FirstBytes
  <2>2. \A i \in 1 .. at + m : FirstBytes(at + m)[i] = i
    BY DEF FirstBytes
  <2> QED
    BY <2>1, <2>2
<1>4. PICK d \in Seq(Nat) : d = a \o b /\ Len(d) = at + m
                           /\ \A i \in 1 .. at + m : d[i] = IF i <= at THEN a[i] ELSE b[i - at]
  <2>1. /\ a \o b \in Seq(Nat) /\ Len(a \o b) = at + m
        /\ \A i \in 1 .. at + m : (a \o b)[i] = IF i <= at THEN a[i] ELSE b[i - at]
    <3>1. /\ a \o b \in Seq(Nat) /\ Len(a \o b) = Len(a) + Len(b)
          /\ \A i \in 1 .. Len(a) + Len(b) : (a \o b)[i] = IF i <= Len(a) THEN a[i] ELSE b[i - Len(a)]
      BY InARow, Zenon
    <3>2. Len(a) = at /\ Len(b) = m
      BY <1>1, <1>2, Zenon
    <3> QED
      BY <3>1, <3>2, Zenon
  <2> QED
    BY <2>1, Zenon
<1>5. ASSUME NEW i \in 1 .. at + m PROVE d[i] = c[i]
  <2>1. CASE i <= at
    BY <1>1, <1>3, <1>4, <2>1, SMTT(30)
  <2>2. CASE ~ (i <= at)
    <3>1. i - at \in 1 .. m
      BY <2>2
    <3>2. b[i - at] = at + (i - at)
      BY <1>2, <3>1
    <3>3. d[i] = b[i - at]
      BY <1>4, <2>2, Zenon
    <3>4. at + (i - at) = i
      OBVIOUS
    <3> QED
      BY <1>3, <3>2, <3>3, <3>4, Zenon
  <2> QED
    BY <2>1, <2>2
<1>6. d = c
  BY <1>3, <1>4, <1>5, SameElements, ZenonT(30)
<1> QED
  BY <1>1, <1>2, <1>3, <1>4, <1>6

\* A packet of another session is refused.
LEMMA RefusesInv ==
  ASSUME TftpInv, NEW packet \in wire, packet.to = "client", sessions' = sessions, client' = client,
         NEW error, error = [opcode |-> "ERROR", to |-> "session", session |-> packet.session],
         wire' \subseteq wire \cup {error}
  PROVE  TftpInv'
<1>1. packet.session \in 1 .. Len(sessions)
  BY RequestsAssumption DEF TftpInv, PacketInv
<1>2. PICK answers : answers = {error}
  BY Zenon
<1>3. PacketInv(error)'
  BY <1>1 DEF PacketInv
<1>4. wire' \subseteq wire \cup answers /\ \A p \in answers : PacketInv(p)'
  BY <1>2, <1>3
<1> QED
  BY <1>4, OnlyPackets

\* What is known of a packet for the client.
LEMMA ClientPacket ==
  ASSUME TftpInv, NEW packet \in wire, packet.to = "client", NEW s, s = sessions[packet.session]
  PROVE  /\ packet.session \in 1 .. Len(sessions) /\ s \in SessionSet
         /\ packet.opcode \in {"ERROR", "OACK", "DATA"}
         /\ packet.opcode = "OACK" => Announced(packet, s)
         /\ packet.opcode = "DATA" => Carried(packet, s)
<1>1. PacketInv(packet) /\ packet \notin ReadRequests /\ sessions \in Seq(SessionSet)
  BY RequestsAssumption, Zenon DEF TftpInv
<1>2. /\ packet.session \in 1 .. Len(sessions) /\ packet.opcode \in {"ERROR", "OACK", "DATA"}
      /\ packet.opcode = "OACK" => Announced(packet, s)
      /\ packet.opcode = "DATA" => Carried(packet, s)
  BY <1>1 DEF PacketInv
<1>3. s \in SessionSet
  BY <1>1, <1>2
<1> QED
  BY <1>2, <1>3

\* The options are confirmed: the client knows the block size and the length.
LEMMA OackInv ==
  ASSUME TftpInv, NEW packet \in wire, packet.to = "client", packet.opcode = "OACK", Mine(packet),
         sessions' = sessions, client.block = 0,
         NEW ack, ack = [opcode |-> "ACK", to |-> "session", session |-> packet.session, block |-> 0],
         wire' \subseteq wire \cup {ack},
         client' = [client EXCEPT !.state = "taking", !.session = packet.session,
                                  !.options = packet.block_size, !.length = packet.tsize, !.last = ack]
  PROVE  TftpInv'
<1>1. PICK s : s = sessions[packet.session]
  BY Zenon
<1>2. packet.session \in 1 .. Len(sessions) /\ s \in SessionSet /\ Announced(packet, s)
  BY <1>1, ClientPacket
<1>3. /\ client'.state = "taking" /\ client'.session = packet.session
      /\ client'.options = packet.block_size /\ client'.length = packet.tsize
      /\ client'.last = ack /\ client'.block = 0 /\ client'.bytes = client.bytes
      /\ DOMAIN client' = DOMAIN client
  BY DEF TftpInv, ClientInv
<1>4. client.session \in {Nobody, packet.session}
  BY DEF Mine
<1>5. PacketInv(ack)'
  BY <1>2, <1>3 DEF PacketInv
<1>6. BlockSize' = s.block_size
  BY <1>2, <1>3 DEF BlockSize, Announced, SizeOf
<1>7. /\ Numbered(s) => client.bytes = FirstBytes(0)
      /\ Least(Files[s.filename], At(1, s.block_size)) = 0
  <2>1. At(1, s.block_size) = 0 /\ Files[s.filename] \in Nat
    BY <1>2, AtNext, SizesAssumption, Zenon DEF SessionSet, Announced
  <2>2. Least(Files[s.filename], At(1, s.block_size)) = 0
    BY <2>1 DEF Least
  <2>3. CASE client.session = Nobody
    <3>1. client.bytes = <<>>
      BY <2>3 DEF TftpInv, ClientInv
    <3> QED
      BY <2>2, <3>1 DEF FirstBytes
  <2>4. CASE client.session # Nobody
    <3>1. client.session = packet.session /\ client.block + 1 = 1
      BY <1>4, <2>4
    <3> QED
      BY <1>1, <2>2, <2>4, <3>1 DEF TftpInv, ClientInv, Has
  <2> QED
    BY <2>2, <2>3, <2>4
<1>8. ClientInv'
  <2>1. client'.session \in 0 .. Len(sessions') /\ client'.session # Nobody
    BY <1>2, <1>3 DEF Nobody, TftpInv
  <2>2. client'.options \in Nat \cup {-1} /\ client'.length \in {-1, Files[s.filename]}
        /\ s.filename \in DOMAIN Files
    BY <1>2, <1>3 DEF Announced
  <2>3. Numbered(s) => Has(s)'
    <3>1. 0 + 1 = 1
      OBVIOUS
    <3>2. Numbered(s) =>
            client'.bytes = FirstBytes(Least(Files[s.filename], At(client'.block + 1, s.block_size)))
      BY <1>3, <1>7, <3>1, Zenon
    <3> QED
      BY <1>3, <3>2 DEF Has
  <2>4. client'.block \in 0 .. BlockNumbers - 1
    BY <1>3, NumbersAssumption
  <2> QED
    BY <1>1, <1>3, <1>5, <1>6, <2>1, <2>2, <2>3, <2>4, Zenon DEF ClientInv, TftpInv
<1>9. PICK answers : answers = {ack}
  BY Zenon
<1>10. wire' \subseteq wire \cup answers /\ \A p \in answers : PacketInv(p)'
  BY <1>5, <1>9
<1> QED
  BY <1>3, <1>4, <1>8, <1>10, ClientMoves

\* What the client has to have after it has taken a packet of session s.
LEMMA ClientHas ==
  ASSUME NEW s, sessions'[client'.session] = s, client'.session \in 0 .. Len(sessions'),
         client'.session # Nobody, client'.block \in 0 .. BlockNumbers - 1,
         BlockSize' = s.block_size, Numbered(s) => Has(s)', client'.state \in {"done", "taking"},
         client'.length \in {-1, Files[s.filename]}, s.filename \in DOMAIN Files,
         DOMAIN client' = {"state", "last", "repeats", "session", "options", "block", "bytes", "length"},
         PacketInv(client.last)', client'.options \in Nat \cup {-1}
  PROVE  ClientInv'
  BY Zenon DEF ClientInv

\* What the client makes of a block.
TookBlock(packet, ack) ==
    client' = [client EXCEPT !.session = packet.session, !.block = packet.block,
                             !.bytes = @ \o packet.bytes,
                             !.state = IF Len(packet.bytes) < BlockSize THEN "done" ELSE "taking",
                             !.last = ack]

\* A block is taken: it continues what the client has, and a short one is the
\* last of the file.
LEMMA DataInv ==
  ASSUME TftpInv, NEW packet \in wire, packet.to = "client", packet.opcode = "DATA", Mine(packet),
         sessions' = sessions, packet.block = (client.block + 1) % BlockNumbers,
         NEW ack, ack = [opcode |-> "ACK", to |-> "session", session |-> packet.session,
                         block |-> packet.block],
         wire' \subseteq wire \cup {ack},
         TookBlock(packet, ack)
  PROVE  TftpInv'
<1>1. PICK s : s = sessions[packet.session]
  BY Zenon
<1>2. packet.session \in 1 .. Len(sessions) /\ s \in SessionSet /\ Carried(packet, s)
  BY <1>1, ClientPacket
<1>3. /\ client'.session = packet.session /\ client'.block = packet.block
      /\ client'.bytes = client.bytes \o packet.bytes
      /\ client'.state = (IF Len(packet.bytes) < BlockSize THEN "done" ELSE "taking")
      /\ client'.last = ack /\ client'.options = client.options /\ client'.length = client.length
      /\ DOMAIN client' = DOMAIN client
  BY Zenon DEF TftpInv, ClientInv, TookBlock
<1>4. client.session \in {Nobody, packet.session} /\ client.block \in 0 .. BlockNumbers - 1
  BY Zenon DEF Mine, TftpInv, ClientInv
<1>5. PacketInv(ack)'
  BY <1>2, <1>3 DEF PacketInv
<1>6. /\ s.filename \in DOMAIN Files /\ s.block_size \in Nat
      /\ packet.block \in 0 .. BlockNumbers - 1
      /\ client.session # packet.session => s.block_size = DEFAULT_BLOCK_SIZE
  BY <1>2 DEF Carried, SessionSet
<1>7. PICK length \in Nat : length = Files[s.filename]
  BY <1>6, SizesAssumption
<1>8. BlockSize = s.block_size /\ client.length \in {-1, length} /\ client.options \in Nat \cup {-1}
  <2>1. CASE client.session = Nobody
    <3>1. client.options = -1 /\ client.length = -1
      BY <2>1, Zenon DEF TftpInv, ClientInv
    <3>2. client.session # packet.session
      BY <1>2, <2>1 DEF Nobody
    <3> QED
      BY <1>6, <3>1, <3>2 DEF BlockSize
  <2>2. CASE client.session # Nobody
    BY <1>1, <1>4, <1>7, <2>2, Zenon DEF TftpInv, ClientInv
  <2> QED
    BY <2>1, <2>2
<1>9. ASSUME Numbered(s) PROVE Has(s)'
  <2>1. /\ packet.bytes = BlockBytes(s, packet.block)
        /\ At(packet.block, s.block_size) <= Files[s.filename]
        /\ packet.block = client.block + 1 /\ packet.block \in Nat /\ client.block \in Nat
    <3>1. /\ packet.bytes = BlockBytes(s, packet.block) /\ packet.block >= 1
          /\ At(packet.block, s.block_size) <= Files[s.filename]
      BY <1>2, <1>9, Zenon DEF Carried
    <3>2. client.block + 1 = BlockNumbers => packet.block = 0
      BY <1>4, NextNumber, Zenon
    <3>3. client.block + 1 < BlockNumbers => packet.block = client.block + 1
      BY <1>4, NextNumber, Zenon
    <3> QED
      BY <1>4, <1>6, <3>1, <3>2, <3>3, NumbersAssumption
  <2>2. PICK at \in Nat : at = At(packet.block, s.block_size)
    BY <1>6, <2>1, AtNext
  <2>3. client.bytes = FirstBytes(at)
    <3>1. CASE client.session = Nobody
      <4>1. client.block = 0 /\ client.bytes = <<>>
        BY <3>1, Zenon DEF TftpInv, ClientInv
      <4>2. at = 0
        <5>1. packet.block = 1
          BY <2>1, <4>1
        <5> QED
          BY <1>6, <2>2, <5>1, AtNext, Zenon
      <4> QED
        BY <4>1, <4>2 DEF FirstBytes
    <3>2. CASE client.session # Nobody
      <4>1. client.session = packet.session
        BY <1>4, <3>2
      <4>2. client.bytes = FirstBytes(Least(length, at))
        BY <1>1, <1>7, <1>9, <2>1, <2>2, <3>2, <4>1, Zenon DEF TftpInv, ClientInv, Has
      <4>3. Least(length, at) = at
        BY <1>7, <2>1, <2>2 DEF Least
      <4> QED
        BY <4>2, <4>3
    <3> QED
      BY <3>1, <3>2
  <2>4. PICK m \in Nat : m = Least(s.block_size, length - at)
    BY <1>6, <1>7, <2>1, <2>2 DEF Least
  <2>5. packet.bytes = BytesFrom(at, m)
    BY <1>7, <2>1, <2>2, <2>4 DEF BlockBytes
  <2>6. client'.bytes = FirstBytes(at + m) /\ Len(packet.bytes) = m
        /\ Len(client'.bytes) = at + m
    <3>1. client'.bytes = FirstBytes(at) \o BytesFrom(at, m)
      BY <1>3, <2>3, <2>5
    <3>2. /\ FirstBytes(at) \o BytesFrom(at, m) = FirstBytes(at + m)
          /\ Len(BytesFrom(at, m)) = m /\ Len(FirstBytes(at + m)) = at + m
      BY Joined, Zenon
    <3> QED
      BY <2>5, <3>1, <3>2, Zenon
  <2>7. /\ at + m = Least(length, At(client'.block + 1, s.block_size))
        /\ m < s.block_size => at + m = length
    <3>1. At(client'.block + 1, s.block_size) = at + s.block_size
      BY <1>3, <1>6, <2>1, <2>2, AtNext
    <3> QED
      BY <1>6, <1>7, <2>1, <2>2, <2>4, <3>1 DEF Least
  <2>8. /\ client'.bytes = FirstBytes(Least(Files[s.filename], At(client'.block + 1, s.block_size)))
        /\ client'.state = "done" => Len(client'.bytes) = Files[s.filename]
    BY <1>3, <1>7, <1>8, <2>6, <2>7, Zenon
  <2> QED
    BY <2>8, Zenon DEF Has
<1>14. ClientInv'
  <2>1. client'.session \in 0 .. Len(sessions') /\ client'.session # Nobody
        /\ client'.block \in 0 .. BlockNumbers - 1 /\ client'.state \in {"done", "taking"}
    BY <1>2, <1>3, <1>6 DEF Nobody, TftpInv
  <2>2. BlockSize' = s.block_size
    BY <1>3, <1>8 DEF BlockSize
  <2>4. sessions'[client'.session] = s /\ client'.length \in {-1, Files[s.filename]}
    BY <1>1, <1>3, <1>7, <1>8, Zenon
  <2>5. DOMAIN client' = {"state", "last", "repeats", "session", "options", "block", "bytes", "length"}
    BY <1>3, Zenon DEF TftpInv, ClientInv
  <2>6. PacketInv(client.last)' /\ client'.options \in Nat \cup {-1}
    BY <1>3, <1>5, <1>8
  <2> QED
    BY <1>6, <1>9, <2>1, <2>2, <2>4, <2>5, <2>6, ClientHas, Zenon
<1>15. PICK answers : answers = {ack}
  BY Zenon
<1>16. wire' \subseteq wire \cup answers /\ \A p \in answers : PacketInv(p)'
  BY <1>5, <1>15
<1> QED
  BY <1>3, <1>4, <1>14, <1>16, ClientMoves, ZenonT(30)

\* Whatever arrives at the client.
LEMMA ClientTakesInv ==
  ASSUME TftpInv, ClientTakes PROVE TftpInv'
<1> DEFINE Ack(packet, block) == [opcode |-> "ACK", to |-> "session", session |-> packet.session,
                                  block |-> block]
           Error(packet) == [opcode |-> "ERROR", to |-> "session", session |-> packet.session]
<1>1. PICK packet \in wire :
        /\ packet.to = "client"
        /\ CASE ~Mine(packet) -> Exchange(packet, {Error(packet)}) /\ UNCHANGED client
             [] Mine(packet) /\ packet.opcode = "ERROR" ->
                  Arrives(packet) /\ client' = [client EXCEPT !.state = "failed"]
             [] Mine(packet) /\ packet.opcode = "OACK" ->
                  IF client.block = 0
                  THEN /\ Exchange(packet, {Ack(packet, 0)})
                       /\ client' = [client EXCEPT !.state = "taking", !.session = packet.session,
                                         !.options = packet.block_size, !.length = packet.tsize,
                                         !.last = Ack(packet, 0)]
                  ELSE Arrives(packet) /\ UNCHANGED client
             [] Mine(packet) /\ packet.opcode = "DATA" ->
                  IF packet.block = (client.block + 1) % BlockNumbers
                  THEN /\ Exchange(packet, {Ack(packet, packet.block)})
                       /\ client' = [client EXCEPT !.session = packet.session,
                                         !.block = packet.block, !.bytes = @ \o packet.bytes,
                                         !.state = IF Len(packet.bytes) < BlockSize
                                                   THEN "done" ELSE "taking",
                                         !.last = Ack(packet, packet.block)]
                  ELSE Exchange(packet, {Ack(packet, packet.block)}) /\ UNCHANGED client
  BY Zenon DEF ClientTakes
<1>2. sessions' = sessions
  BY DEF ClientTakes
<1>3. PICK s : s = sessions[packet.session]
  BY Zenon
<1>4. /\ packet.session \in 1 .. Len(sessions) /\ s \in SessionSet
      /\ packet.opcode \in {"ERROR", "OACK", "DATA"}
      /\ packet.opcode = "DATA" => Carried(packet, s)
  BY <1>1, <1>3, ClientPacket
<1>5. CASE ~Mine(packet)
  <2>1. PICK error : error = Error(packet)
    BY Zenon
  <2>2. Exchange(packet, {error}) /\ client' = client
    BY <1>1, <1>5, <2>1, ZenonT(30)
  <2>3. wire' \subseteq wire \cup {error}
    BY <2>2, WireTaken
  <2> QED
    BY <1>1, <1>2, <2>1, <2>2, <2>3, RefusesInv
<1>6. CASE Mine(packet) /\ packet.opcode = "ERROR"
  <2>1. Arrives(packet) /\ client' = [client EXCEPT !.state = "failed"]
    BY <1>1, <1>6
  <2>2. PICK answers : answers = {}
    BY Zenon
  <2>3. wire' \subseteq wire \cup answers /\ \A p \in answers : PacketInv(p)'
    BY <2>1, <2>2, WireTaken, Zenon
  <2>4. /\ client'.session = client.session /\ client'.options = client.options
        /\ client'.block = client.block /\ client'.bytes = client.bytes
        /\ client'.length = client.length /\ DOMAIN client' = DOMAIN client
        /\ client'.state = "failed"
    BY <2>1 DEF TftpInv, ClientInv
  <2>5. BlockSize' = BlockSize
    BY <2>4 DEF BlockSize
  <2>6. ClientInv'
    BY <1>2, <2>4, <2>5, Zenon DEF TftpInv, ClientInv, Has
  <2> QED
    BY <1>2, <2>3, <2>4, <2>6, ClientMoves
<1>7. CASE Mine(packet) /\ packet.opcode = "OACK"
  <2>1. CASE client.block = 0
    <3>1. PICK ack : ack = Ack(packet, 0)
      BY Zenon
    <3>2. /\ Exchange(packet, {ack})
          /\ client' = [client EXCEPT !.state = "taking", !.session = packet.session,
                              !.options = packet.block_size, !.length = packet.tsize, !.last = ack]
      BY <1>1, <1>7, <2>1, <3>1
    <3>3. wire' \subseteq wire \cup {ack}
      BY <3>2, WireTaken
    <3> QED
      BY <1>1, <1>2, <1>7, <2>1, <3>1, <3>2, <3>3, OackInv, ZenonT(30)
  <2>2. CASE client.block # 0
    <3>1. Arrives(packet) /\ client' = client
      BY <1>1, <1>7, <2>2
    <3>2. PICK answers : answers = {}
      BY Zenon
    <3>3. wire' \subseteq wire \cup answers /\ \A p \in answers : PacketInv(p)'
      BY <3>1, <3>2, WireTaken, ZenonT(30)
    <3> QED
      BY <1>2, <3>1, <3>3, OnlyPackets
  <2> QED
    BY <2>1, <2>2
<1>8. CASE Mine(packet) /\ packet.opcode = "DATA"
  <2>1. PICK ack : ack = Ack(packet, packet.block)
    BY Zenon
  <2>2. CASE packet.block = (client.block + 1) % BlockNumbers
    <3>1. /\ Exchange(packet, {ack})
          /\ TookBlock(packet, ack)
      BY <1>1, <1>8, <2>1, <2>2 DEF TookBlock
    <3>2. wire' \subseteq wire \cup {ack}
      BY <3>1, WireTaken
    <3> QED
      BY <1>1, <1>2, <1>8, <2>1, <2>2, <3>1, <3>2, DataInv
  <2>3. CASE packet.block # (client.block + 1) % BlockNumbers
    <3>1. Exchange(packet, {ack}) /\ client' = client
      BY <1>1, <1>8, <2>1, <2>3
    <3>2. client.session = packet.session
      <4>1. client.session # packet.session => packet.block = 1
        BY <1>4, <1>8 DEF Carried
      <4>2. client.session = Nobody => client.block = 0
        BY Zenon DEF TftpInv, ClientInv
      <4>3. client.block = 0 => (client.block + 1) % BlockNumbers = 1
        BY NextNumber, NumbersAssumption
      <4> QED
        BY <1>8, <2>3, <4>1, <4>2, <4>3 DEF Mine
    <3>3. PacketInv(ack)'
      BY <1>2, <1>4, <2>1, <3>1, <3>2 DEF PacketInv
    <3>4. PICK answers : answers = {ack}
      BY Zenon
    <3>5. wire' \subseteq wire \cup answers /\ \A p \in answers : PacketInv(p)'
      BY <3>1, <3>3, <3>4, WireTaken
    <3> QED
      BY <1>2, <3>1, <3>5, OnlyPackets
  <2> QED
    BY <2>2, <2>3
<1> QED
  BY <1>4, <1>5, <1>6, <1>7, <1>8

-----------------------------------------------------------------------------
\* No packet, no session, and an idle client.
LEMMA InitInv ==
  TftpInit => TftpInv
<1> SUFFICES ASSUME TftpInit PROVE TftpInv
  OBVIOUS
<1>1. sessions \in Seq(SessionSet) /\ Len(sessions) = 0 /\ wire = {}
  BY DEF TftpInit
<1>2. ClientInv
  BY <1>1, NumbersAssumption DEF TftpInit, ClientInv, Nobody
<1> QED
  BY <1>1, <1>2 DEF TftpInv

\* The invariant is inductive, and says that what was transferred is the file.
THEOREM TransfersHold == TftpSpec => []TftpInv
<1>1. TftpInv /\ [TftpNext]_fvars => TftpInv'
  <2> SUFFICES ASSUME TftpInv, [TftpNext]_fvars PROVE TftpInv'
    OBVIOUS
  <2>1. CASE UNCHANGED fvars
    <3>1. sessions' = sessions /\ wire' = wire /\ client' = client
      BY <2>1, Zenon DEF fvars
    <3>2. ASSUME NEW packet PROVE PacketInv(packet) => PacketInv(packet)'
      BY <3>1, Zenon DEF PacketInv, Carried, Announced
    <3>3. BlockSize' = BlockSize
      BY <3>1, Zenon DEF BlockSize
    <3>4. ClientInv => ClientInv'
      BY <3>1, <3>2, <3>3, Zenon DEF ClientInv, Has
    <3> QED
      BY <3>1, <3>2, <3>4, Zenon DEF TftpInv
  <2> QED
    BY <2>1, ServeInv, ReceiveInv, LoseInv, ClientSaysInv, ClientTakesInv DEF TftpNext
<1> QED
  BY <1>1, InitInv, PTL DEF TftpSpec

\* For files of any length and blocks of any size, whatever the network loses,
\* repeats or reorders and however many sessions a client's repeated requests
\* start: a client that sees the end of a transfer has the file, byte for byte, if
\* the file has no more blocks than there are numbers, and has been told the right
\* length of any file (handle_read_request, receive_ack).
THEOREM FilesArriveIntact == TftpSpec => []FileIntact
<1>1. TftpInv => FileIntact
  <2> SUFFICES ASSUME TftpInv, client.state = "done" PROVE FileIntact
    BY DEF FileIntact
  <2>1. PICK s : s = sessions[client.session]
    BY Zenon
  <2>2. /\ client.session # Nobody /\ client.session \in 0 .. Len(sessions)
        /\ client.block \in 0 .. BlockNumbers - 1
        /\ s.filename \in DOMAIN Files /\ client.length \in {-1, Files[s.filename]}
        /\ Numbered(s) => Has(s)
    BY <2>1, Zenon DEF TftpInv, ClientInv
  <2>3. s.block_size \in Nat
    <3>1. client.session \in 1 .. Len(sessions) /\ sessions \in Seq(SessionSet)
      BY <2>2 DEF TftpInv, Nobody
    <3>2. s \in SessionSet
      BY <2>1, <3>1
    <3> QED
      BY <3>2 DEF SessionSet
  <2>4. ASSUME Numbered(s) PROVE client.bytes = FirstBytes(Files[s.filename])
    <3>1. /\ client.bytes = FirstBytes(Least(Files[s.filename], At(client.block + 1, s.block_size)))
          /\ Len(client.bytes) = Files[s.filename]
      BY <2>2, <2>4, Zenon DEF Has
    <3>2. client.block \in Nat
      BY <2>2, NumbersAssumption
    <3>3. PICK m \in Nat : m = Least(Files[s.filename], At(client.block + 1, s.block_size))
      BY <2>2, <2>3, <3>2, AtNext, SizesAssumption, ZenonT(30) DEF Least
    <3>4. Len(client.bytes) = m
      BY <3>1, <3>3 DEF FirstBytes
    <3> QED
      BY <3>1, <3>3, <3>4
  <2> QED
    BY <2>1, <2>2, <2>4, Zenon DEF FileIntact, FirstBytes
<1> QED
  BY <1>1, TransfersHold, PTL

-----------------------------------------------------------------------------
\* PCI: the memory that Seed gives to BARs.

\* A BAR for memory that both scans see.
WantedBar(m, a, i) == bars_of(m.functions[a])[i].kind \in {"mem32", "mem64"}

\* An address where a BAR can be.
Suits(m, bar, base) ==
    /\ base % bar.size = 0
    /\ \E k \in DOMAIN m.ranges :
         /\ m.ranges[k].space = bar.kind
         /\ m.ranges[k].base <= base /\ base + bar.size <= m.ranges[k].base + m.ranges[k].size

\* Seed's ranges are those of the machine.
Windows(m) == [space : { m.ranges[k].space : k \in DOMAIN m.ranges }, base : Nat, size : Nat, offset : Nat]

RangesOf(m, rs) ==
    /\ rs \in [DOMAIN m.ranges -> Windows(m)]
    /\ \A k \in DOMAIN m.ranges :
         /\ rs[k].space = m.ranges[k].space
         /\ rs[k].base = m.ranges[k].base /\ rs[k].size = m.ranges[k].size

\* Every BAR that was given an address is where it can be.
Placed(m, at) ==
    \A a \in DOMAIN m.functions : \A i \in 1 .. MAX_BARS :
        WantedBar(m, a, i) /\ <<a, i>> \in DOMAIN at => Suits(m, m.functions[a].bars[i], at[<<a, i>>])

\* Multiples of a size, below zero too.
LEMMA Aligned ==
    ASSUME NEW s \in Nat \ {0}, NEW b \in Nat, b % s = 0, NEW o \in Nat
    PROVE  (0 - o) % s \in Nat /\ (b + o + ((0 - o) % s)) % s = 0
<1>1. PICK p, q \in Int : p = (0 - o) % s /\ q = (0 - o) \div s
  OBVIOUS
<1>2. 0 - o = s * q + p /\ 0 <= p /\ p < s
  BY <1>1
<1>3. PICK t \in Int : b = s * t
  <2>1. b = s * (b \div s) + (b % s) /\ b \div s \in Int
    OBVIOUS
  <2>2. PICK t \in Int : t = b \div s
    BY <2>1, Zenon
  <2>3. b = s * t + 0
    BY <2>1, <2>2, Zenon
  <2>4. b = s * t
    BY <2>3
  <2> QED
    BY <2>4, Zenon
<1>4. b + o + p = s * t - s * q
  BY <1>2, <1>3
<1>5. s * t - s * q = s * (t - q) /\ t - q \in Int
  OBVIOUS
<1>6. \A z \in Int : (s * z) % s = 0
  OBVIOUS
<1>7. (b + o + p) % s = 0
  BY <1>4, <1>5, <1>6
<1> QED
  BY <1>1, <1>2, <1>7

\* HostMemoryRange::allocate stays inside its range, at a multiple of the size.
LEMMA AllocateFits ==
    ASSUME NEW r, NEW s \in Nat \ {0}, r.base \in Nat, r.size \in Nat, r.offset \in Nat,
           r.base % s = 0, range_allocate(r, s) # -1
    PROVE  /\ range_allocate(r, s) % s = 0
           /\ r.base <= range_allocate(r, s) /\ range_allocate(r, s) + s <= r.base + r.size
<1>1. PICK b \in Nat, n \in Nat, o \in Nat : b = r.base /\ n = r.size /\ o = r.offset
  BY Zenon
<1>2. PICK p : p = (0 - o) % s
  BY Zenon
<1>3. p \in Nat /\ (b + o + p) % s = 0
  <2>1. b % s = 0
    BY <1>1, Zenon
  <2>2. (0 - o) % s \in Nat /\ (b + o + ((0 - o) % s)) % s = 0
    BY <2>1, Aligned, Zenon
  <2> QED
    BY <1>2, <2>2, Zenon
<1>4. ~(s + p > n - o) /\ range_allocate(r, s) = b + o + p
  BY <1>1, <1>2, Zenon DEF range_allocate, Padding_for
<1>5. b <= b + o + p /\ (b + o + p) + s <= b + n
  BY <1>3, <1>4
<1> QED
  BY <1>1, <1>3, <1>4, <1>5, Zenon

\* FindRange finds a range of the BAR's kind that can give the memory.
LEMMA RangeFound ==
    ASSUME NEW m, NEW rs, RangesOf(m, rs), NEW bar, FindRange(rs, bar) # 0,
           DOMAIN m.ranges \subseteq Nat
    PROVE  /\ FindRange(rs, bar) \in DOMAIN m.ranges /\ rs[FindRange(rs, bar)].space = bar.kind
           /\ bar.kind \in {"mem32", "mem64"}
           /\ range_allocate(rs[FindRange(rs, bar)], bar.size) # -1
<1> DEFINE able == { k \in DOMAIN rs : /\ bar.kind \in {"mem32", "mem64"} /\ rs[k].space = bar.kind
                                       /\ range_allocate(rs[k], bar.size) # -1 }
<1>1. able # {} /\ FindRange(rs, bar) = CHOOSE k \in able : \A j \in able : k <= j
  BY Zenon DEF FindRange
<1>2. DOMAIN rs = DOMAIN m.ranges
  BY Zenon DEF RangesOf
<1>3. able \in SUBSET Nat
  BY <1>2, Zenon
<1>4. \E x \in able : \A y \in able : x <= y
  <2>1. IsWellFoundedOn(OpToRel(<, Nat), Nat)
    BY NatLessThanWellFounded, Zenon
  <2>2. PICK x \in able : \A y \in able : ~ (<<y, x>> \in OpToRel(<, Nat))
    BY <1>1, <1>3, <2>1, WFMin, Zenon
  <2>3. \A y \in able : ~(y < x)
    BY <1>3, <2>2, Zenon DEF OpToRel
  <2> HIDE DEF able
  <2> QED
    BY <1>3, <2>3
<1>5. FindRange(rs, bar) \in able
  BY <1>1, <1>4, Zenon
<1> QED
  BY <1>2, <1>5, Zenon

\* A BAR that is seen is the function's own.
AsItIs(m, a, i) == bars_of(m.functions[a])[i] = m.functions[a].bars[i]

LEMMA SeenBar ==
    ASSUME NEW m, NEW a, NEW i \in 1 .. MAX_BARS, bars_of(m.functions[a])[i].kind # "none"
    PROVE  AsItIs(m, a, i)
<1>1. NoBar.kind = "none"
  BY Zenon DEF NoBar
<1> QED
  BY <1>1, Zenon DEF bars_of, AsItIs

\* What the step for one BAR makes of the ranges and addresses.
BarDone(m, a, i, s, t) ==
    /\ DOMAIN t = {"rs", "at", "ok"} /\ RangesOf(m, t.rs) /\ Placed(m, t.at)
    /\ DOMAIN s.at \subseteq DOMAIN t.at
    /\ t.ok => s.ok
    /\ t.ok /\ WantedBar(m, a, i) => <<a, i>> \in DOMAIN t.at

\* One BAR: the ranges stay those of the machine, the addresses given before stay,
\* and unless Seed gives up the BAR has one that suits it.
LEMMA BarPlaced ==
    ASSUME NEW m \in PciMachines, NEW a \in DOMAIN m.functions, NEW i \in 1 .. MAX_BARS, NEW s,
           DOMAIN s = {"rs", "at", "ok"}, RangesOf(m, s.rs), Placed(m, s.at),
           NEW t, t = AllocateBar(m.functions[a], a, i, s)
    PROVE  BarDone(m, a, i, s, t)
<1>1. PICK bar : bar = bars_of(m.functions[a])[i]
  BY Zenon
<1>2. PICK k : k = FindRange(s.rs, bar)
  BY Zenon
<1>3. t = IF ~s.ok \/ bar.kind = "none" THEN s
          ELSE IF k = 0 THEN [s EXCEPT !.ok = FALSE]
          ELSE [s EXCEPT !.rs[k].offset = @ + bar.size,
                         !.at = Entered(@, <<a, i>>, range_allocate(s.rs[k], bar.size))]
  BY <1>1, <1>2, Zenon DEF AllocateBar
<1>4. CASE ~s.ok \/ bar.kind = "none"
  <2>1. t = s
    BY <1>3, <1>4, Zenon
  <2>2. ~(t.ok /\ WantedBar(m, a, i))
    BY <1>1, <1>4, <2>1, Zenon DEF WantedBar
  <2> QED
    BY <2>1, <2>2, Zenon DEF BarDone
<1>5. CASE s.ok /\ bar.kind # "none" /\ k = 0
  <2>1. t = [s EXCEPT !.ok = FALSE]
    BY <1>3, <1>5, Zenon
  <2>2. DOMAIN t = {"rs", "at", "ok"} /\ t.rs = s.rs /\ t.at = s.at /\ t.ok = FALSE
    BY <2>1, Zenon
  <2> QED
    BY <2>2, Zenon DEF BarDone
<1>6. CASE s.ok /\ bar.kind # "none" /\ k # 0
  <2>1. t = [s EXCEPT !.rs[k].offset = @ + bar.size,
                      !.at = Entered(@, <<a, i>>, range_allocate(s.rs[k], bar.size))]
    BY <1>3, <1>6, Zenon
  <2>2. PICK base : base = range_allocate(s.rs[k], bar.size)
    BY Zenon
  <2>3. /\ DOMAIN t = {"rs", "at", "ok"} /\ t.ok = s.ok
        /\ t.rs = [s.rs EXCEPT ![k].offset = @ + bar.size]
        /\ t.at = Entered(s.at, <<a, i>>, base)
    BY <2>1, <2>2, Zenon
  <2>4. DOMAIN m.ranges \subseteq Nat
    <3>1. DOMAIN m.ranges = 1 .. Len(m.ranges) /\ Len(m.ranges) \in Nat
      BY PciAssumption, Zenon
    <3> QED
      BY <3>1
  <2>5. /\ k \in DOMAIN m.ranges /\ s.rs[k].space = bar.kind /\ bar.kind \in {"mem32", "mem64"}
        /\ base # -1
    BY <1>2, <1>6, <2>2, <2>4, RangeFound, Zenon
  <2>6. bar = m.functions[a].bars[i]
    <3>1. bars_of(m.functions[a])[i].kind # "none"
      BY <1>1, <1>6, Zenon
    <3>2. AsItIs(m, a, i)
      BY <3>1, SeenBar, Zenon
    <3> QED
      BY <1>1, <3>2, Zenon DEF AsItIs
  <2>7. /\ bar.size \in Nat \ {0}
        /\ \A j \in DOMAIN m.ranges : m.ranges[j].space = bar.kind => m.ranges[j].base % bar.size = 0
    BY <2>5, <2>6, PciAssumption, Zenon
  <2>8. PICK r : r = s.rs[k]
    BY Zenon
  <2>9. /\ r \in Windows(m) /\ r.space = m.ranges[k].space
        /\ r.base = m.ranges[k].base /\ r.size = m.ranges[k].size
    BY <2>5, <2>8, Zenon DEF RangesOf
  <2>10. r.base \in Nat /\ r.size \in Nat /\ r.offset \in Nat
    BY <2>9, Zenon DEF Windows
  <2>11. r.base % bar.size = 0
    BY <2>5, <2>7, <2>8, <2>9, Zenon
  <2>12. base % bar.size = 0 /\ r.base <= base /\ base + bar.size <= r.base + r.size
    BY <2>2, <2>5, <2>7, <2>8, <2>10, <2>11, AllocateFits, Zenon
  <2>13. Suits(m, m.functions[a].bars[i], base)
    BY <2>5, <2>6, <2>8, <2>9, <2>12, Zenon DEF Suits
  <2>14. RangesOf(m, t.rs)
    <3>1. PICK n : n = r.offset + bar.size
      BY Zenon
    <3>2. n \in Nat
      BY <2>7, <2>10, <3>1
    <3>3. t.rs = [s.rs EXCEPT ![k] = [r EXCEPT !.offset = n]]
      BY <2>3, <2>5, <2>8, <3>1, Zenon DEF RangesOf
    <3>4. PICK w : w = [r EXCEPT !.offset = n]
      BY Zenon
    <3>5. w \in Windows(m) /\ w.space = r.space /\ w.base = r.base /\ w.size = r.size
      BY <2>9, <3>2, <3>4, Zenon DEF Windows
    <3>6. s.rs \in [DOMAIN m.ranges -> Windows(m)] /\ t.rs = [s.rs EXCEPT ![k] = w]
      BY <3>3, <3>4, Zenon DEF RangesOf
    <3>7. /\ t.rs \in [DOMAIN m.ranges -> Windows(m)] /\ t.rs[k] = w
          /\ \A j \in DOMAIN m.ranges : j # k => t.rs[j] = s.rs[j]
      BY <2>5, <3>5, <3>6, Zenon
    <3>8. ASSUME NEW j \in DOMAIN m.ranges
          PROVE  /\ t.rs[j].space = m.ranges[j].space
                 /\ t.rs[j].base = m.ranges[j].base /\ t.rs[j].size = m.ranges[j].size
      <4>1. CASE j = k
        BY <2>9, <3>5, <3>7, <4>1, Zenon
      <4>2. CASE j # k
        BY <3>7, <4>2, Zenon DEF RangesOf
      <4> QED
        BY <4>1, <4>2, Zenon
    <3> QED
      BY <3>7, <3>8, Zenon DEF RangesOf
  <2>15. /\ DOMAIN t.at = DOMAIN s.at \cup {<<a, i>>} /\ t.at[<<a, i>>] = base
         /\ \A x \in DOMAIN s.at : x # <<a, i>> => t.at[x] = s.at[x]
    <3>1. PICK x : x = <<a, i>>
      BY Zenon
    <3>2. t.at = [y \in DOMAIN s.at \cup {x} |-> IF y = x THEN base ELSE s.at[y]]
      BY <2>3, <3>1, Zenon DEF Entered
    <3> QED
      BY <3>1, <3>2, Zenon
  <2>16. Placed(m, t.at)
    <3> SUFFICES ASSUME NEW b \in DOMAIN m.functions, NEW j \in 1 .. MAX_BARS, WantedBar(m, b, j),
                        <<b, j>> \in DOMAIN t.at
                 PROVE  Suits(m, m.functions[b].bars[j], t.at[<<b, j>>])
      BY Zenon DEF Placed
    <3>1. CASE <<b, j>> = <<a, i>>
      <4>1. b = a /\ j = i
        BY <3>1, Zenon
      <4> QED
        BY <2>13, <2>15, <4>1, Zenon
    <3>2. CASE <<b, j>> # <<a, i>>
      BY <2>15, <3>2, Zenon DEF Placed
    <3> QED
      BY <3>1, <3>2, Zenon
  <2> QED
    BY <2>3, <2>14, <2>15, <2>16, Zenon DEF BarDone
<1> QED
  BY <1>4, <1>5, <1>6, Zenon

\* What is known after the first n BARs of a function.
Filled(m, a, n, t) ==
    /\ DOMAIN t = {"rs", "at", "ok"} /\ RangesOf(m, t.rs) /\ Placed(m, t.at)
    /\ DOMAIN decoded \subseteq DOMAIN t.at
    /\ t.ok => \A i \in 1 .. n : WantedBar(m, a, i) => <<a, i>> \in DOMAIN t.at

LEMMA OneMoreFilled ==
    ASSUME NEW m \in PciMachines, NEW a \in DOMAIN m.functions, NEW n \in 1 .. MAX_BARS,
           NEW s, Filled(m, a, n - 1, s), NEW t, t = AllocateBar(m.functions[a], a, n, s)
    PROVE  Filled(m, a, n, t)
<1>1. DOMAIN s = {"rs", "at", "ok"} /\ RangesOf(m, s.rs) /\ Placed(m, s.at)
  BY Zenon DEF Filled
<1>2. /\ DOMAIN t = {"rs", "at", "ok"} /\ RangesOf(m, t.rs) /\ Placed(m, t.at)
      /\ DOMAIN s.at \subseteq DOMAIN t.at
      /\ t.ok => s.ok
      /\ t.ok /\ WantedBar(m, a, n) => <<a, n>> \in DOMAIN t.at
  <2>1. BarDone(m, a, n, s, t)
    BY <1>1, BarPlaced, Zenon
  <2> QED
    BY <2>1, Zenon DEF BarDone
<1>3. \A i \in 1 .. n : i = n \/ i \in 1 .. n - 1
  BY DEF MAX_BARS
<1>4. s.ok => \A i \in 1 .. n - 1 : WantedBar(m, a, i) => <<a, i>> \in DOMAIN s.at
  BY Zenon DEF Filled
<1>5. DOMAIN decoded \subseteq DOMAIN t.at
  BY <1>2, Zenon DEF Filled
<1>6. t.ok => \A i \in 1 .. n : WantedBar(m, a, i) => <<a, i>> \in DOMAIN t.at
  BY <1>2, <1>3, <1>4, Zenon
<1> QED
  BY <1>2, <1>5, <1>6, Zenon DEF Filled

\* The recursion over the BARs has a value.
BarsInTurn(f, a, s0, g) ==
    g = [i \in 0 .. MAX_BARS |-> IF i = 0 THEN s0 ELSE AllocateBar(f, a, i, g[i - 1])]

LEMMA BarsRecursion ==
    ASSUME NEW f, NEW a, NEW s0
    PROVE  \E g : BarsInTurn(f, a, s0, g)
<1>1. PICK s1 : s1 = AllocateBar(f, a, 1, s0)
  BY Zenon
<1>2. PICK s2 : s2 = AllocateBar(f, a, 2, s1)
  BY Zenon
<1>3. PICK s3 : s3 = AllocateBar(f, a, 3, s2)
  BY Zenon
<1>4. PICK s4 : s4 = AllocateBar(f, a, 4, s3)
  BY Zenon
<1>5. PICK s5 : s5 = AllocateBar(f, a, 5, s4)
  BY Zenon
<1>6. PICK s6 : s6 = AllocateBar(f, a, 6, s5)
  BY Zenon
<1>7. PICK g : g = [i \in 0 .. 6 |-> IF i = 0 THEN s0 ELSE IF i = 1 THEN s1 ELSE IF i = 2 THEN s2
                                    ELSE IF i = 3 THEN s3 ELSE IF i = 4 THEN s4
                                    ELSE IF i = 5 THEN s5 ELSE s6]
  BY Zenon
<1>8. /\ g[0] = s0 /\ g[1] = s1 /\ g[2] = s2 /\ g[3] = s3 /\ g[4] = s4 /\ g[5] = s5 /\ g[6] = s6
  BY <1>7, SMT
<1>9. \A i \in 0 .. 6 : i # 0 => g[i] = AllocateBar(f, a, i, g[i - 1])
  <2> TAKE i \in 0 .. 6
  <2>1. i = 0 \/ (i = 1 /\ i - 1 = 0) \/ (i = 2 /\ i - 1 = 1) \/ (i = 3 /\ i - 1 = 2)
        \/ (i = 4 /\ i - 1 = 3) \/ (i = 5 /\ i - 1 = 4) \/ (i = 6 /\ i - 1 = 5)
    BY SMT
  <2> QED
    BY <1>1, <1>2, <1>3, <1>4, <1>5, <1>6, <1>8, <2>1, Zenon
<1>10. g = [i \in 0 .. 6 |-> g[i]]
  BY <1>7, Zenon
<1>11. \A i \in 0 .. 6 : g[i] = IF i = 0 THEN s0 ELSE AllocateBar(f, a, i, g[i - 1])
  BY <1>8, <1>9, Zenon
<1>12. g = [i \in 0 .. 6 |-> IF i = 0 THEN s0 ELSE AllocateBar(f, a, i, g[i - 1])]
  BY <1>10, <1>11, Zenon
<1> QED
  BY <1>12, Zenon DEF MAX_BARS, BarsInTurn

\* All the BARs of a function.
LEMMA FunctionFilled ==
    ASSUME NEW m \in PciMachines, NEW a \in DOMAIN m.functions,
           RangesOf(m, ranges), Placed(m, decoded), NEW r, r = AllocateBars(m.functions[a], a)
    PROVE  Filled(m, a, MAX_BARS, r)
<1>1. PICK f : f = m.functions[a]
  BY Zenon
<1>2. PICK s0 : s0 = [rs |-> ranges, at |-> decoded, ok |-> TRUE]
  BY Zenon
<1>3. PICK g : /\ g = [i \in 0 .. MAX_BARS |-> IF i = 0 THEN s0 ELSE AllocateBar(f, a, i, g[i - 1])]
               /\ r = g[MAX_BARS]
  <2> DEFINE after[i \in 0 .. MAX_BARS] == IF i = 0 THEN [rs |-> ranges, at |-> decoded, ok |-> TRUE]
                                            ELSE AllocateBar(f, a, i, after[i - 1])
  <2>1. r = after[MAX_BARS]
    BY <1>1, Zenon DEF AllocateBars
  <2>2. \E g : g = [i \in 0 .. MAX_BARS |->
                      IF i = 0 THEN [rs |-> ranges, at |-> decoded, ok |-> TRUE]
                      ELSE AllocateBar(f, a, i, g[i - 1])]
    <3>1. \E g : BarsInTurn(f, a, s0, g)
      BY BarsRecursion, Zenon
    <3> QED
      BY <1>2, <3>1, Zenon DEF BarsInTurn
  <2>3. after = [i \in 0 .. MAX_BARS |->
                   IF i = 0 THEN [rs |-> ranges, at |-> decoded, ok |-> TRUE]
                   ELSE AllocateBar(f, a, i, after[i - 1])]
    BY <2>2, Zenon DEF after
  <2> QED
    BY <1>2, <2>1, <2>3, Zenon
<1>4. /\ g[0] = s0
      /\ \A i \in 1 .. MAX_BARS : g[i] = AllocateBar(f, a, i, g[i - 1])
  <2>1. 0 \in 0 .. MAX_BARS /\ \A i \in 1 .. MAX_BARS : i \in 0 .. MAX_BARS /\ i # 0
    BY SMT DEF MAX_BARS
  <2> QED
    BY <1>3, <2>1, Zenon
<1>5. Filled(m, a, 0, g[0])
  <2>1. \A i \in 1 .. 0 : FALSE
    BY SMT
  <2>2. DOMAIN s0 = {"rs", "at", "ok"} /\ s0.rs = ranges /\ s0.at = decoded
    BY <1>2, Zenon
  <2> QED
    BY <1>4, <2>1, <2>2, Zenon DEF Filled
<1>6. \A i \in 1 .. MAX_BARS : Filled(m, a, i - 1, g[i - 1]) => Filled(m, a, i, g[i])
  <2> TAKE i \in 1 .. MAX_BARS
  <2>1. PICK s, t : s = g[i - 1] /\ t = g[i]
    BY Zenon
  <2>2. t = AllocateBar(m.functions[a], a, i, s)
    BY <1>1, <1>4, <2>1, Zenon
  <2> QED
    BY <2>1, <2>2, OneMoreFilled, Zenon
<1>7. /\ 1 \in 1 .. MAX_BARS /\ 2 \in 1 .. MAX_BARS /\ 3 \in 1 .. MAX_BARS /\ 4 \in 1 .. MAX_BARS
      /\ 5 \in 1 .. MAX_BARS /\ 6 \in 1 .. MAX_BARS /\ MAX_BARS = 6
      /\ 1 - 1 = 0 /\ 2 - 1 = 1 /\ 3 - 1 = 2 /\ 4 - 1 = 3 /\ 5 - 1 = 4 /\ 6 - 1 = 5
  BY SMT DEF MAX_BARS
<1>8. Filled(m, a, 1, g[1])
  BY <1>5, <1>6, <1>7, Zenon
<1>9. Filled(m, a, 2, g[2])
  BY <1>6, <1>7, <1>8, Zenon
<1>10. Filled(m, a, 3, g[3])
  BY <1>6, <1>7, <1>9, Zenon
<1>11. Filled(m, a, 4, g[4])
  BY <1>6, <1>7, <1>10, Zenon
<1>12. Filled(m, a, 5, g[5])
  BY <1>6, <1>7, <1>11, Zenon
<1>13. Filled(m, a, 6, g[6])
  BY <1>6, <1>7, <1>12, Zenon
<1> QED
  BY <1>3, <1>7, <1>13, Zenon

-----------------------------------------------------------------------------
\* PCI: the invariant.

\* The BARs of a function are placed and it decodes them.
Ready(a) ==
    /\ \A i \in 1 .. MAX_BARS : WantedBar(machinery, a, i) => <<a, i>> \in DOMAIN decoded
    /\ \A i \in 1 .. MAX_BARS : WantedBar(machinery, a, i) => a \in enabled

\* The functions that both scans meet.
Met == { a \in resolve(machinery) : Present(machinery, a) }

\* Before the machine is known nothing has been done.
Untouched == decoded = <<>> /\ devices_found = <<>> /\ listing.phase = "idle"

\* Seed's scan: the functions it has checked are ready.
SeedScan ==
    /\ devices_found = <<>> /\ listing.phase = "idle"
    /\ \A a \in Met \ scanner.left : Ready(a)

\* The kernel's scan: every function is ready, and those it has checked are listed.
KernelScan ==
    /\ \A a \in Met : Ready(a)
    /\ DOMAIN devices_found = Met \ scanner.left
    /\ \A a \in DOMAIN devices_found : devices_found[a].bars = bars_of(machinery.functions[a])

PciInv ==
    /\ DOMAIN scanner = {"who", "left"} /\ DOMAIN listing = {"phase", "count", "descriptors"}
    /\ machinery = <<>> => Untouched
    /\ machinery # <<>> =>
         /\ machinery \in PciMachines
         /\ RangesOf(machinery, ranges) /\ Placed(machinery, decoded)
         /\ scanner.left \subseteq resolve(machinery)
         /\ scanner.who = "seed" => SeedScan
         /\ scanner.who = "kernel" => KernelScan
         /\ listing.phase # "idle" => scanner.who = "kernel" /\ scanner.left = {}
         /\ listing.phase = "done" => listing.descriptors = { Descriptor(a) : a \in DOMAIN devices_found }

\* Nothing has been given out at the start.
LEMMA PciStarts == PciInit => PciInv
<1> SUFFICES ASSUME PciInit PROVE PciInv
  OBVIOUS
<1>1. DOMAIN scanner = {"who", "left"} /\ DOMAIN listing = {"phase", "count", "descriptors"}
  BY Zenon DEF PciInit
<1>2. machinery = <<>> /\ Untouched
  BY Zenon DEF PciInit, Untouched
<1> QED
  BY <1>1, <1>2, Zenon DEF PciInv

\* The machine is read.
LEMMA InitializeKeeps ==
    ASSUME PciInv, Initialize
    PROVE  PciInv'
<1>1. PICK m \in PciMachines : m = machinery'
  BY Zenon DEF Initialize
<1>2. m # <<>>
  BY PciAssumption, Zenon
<1>3. /\ decoded' = <<>> /\ devices_found' = <<>> /\ listing'.phase = "idle"
      /\ DOMAIN listing' = {"phase", "count", "descriptors"}
  BY Zenon DEF PciInv, Untouched, Initialize
<1>4. scanner' = [who |-> "seed", left |-> resolve(m)]
  BY <1>1, Zenon DEF Initialize
<1>5. DOMAIN scanner' = {"who", "left"} /\ scanner'.who = "seed" /\ scanner'.left = resolve(m)
  BY <1>4, Zenon
<1>6. RangesOf(m, ranges')
  <2>1. ranges' = [k \in DOMAIN m.ranges |->
                     [space |-> m.ranges[k].space, base |-> m.ranges[k].base,
                      size |-> m.ranges[k].size, offset |-> 0]]
    BY <1>1, Zenon DEF Initialize
  <2>2. \A k \in DOMAIN m.ranges : m.ranges[k].base \in Nat /\ m.ranges[k].size \in Nat
    BY PciAssumption, Zenon
  <2>3. 0 \in Nat
    BY SMT
  <2>4. \A k \in DOMAIN m.ranges : ranges'[k] \in Windows(m)
    BY <2>1, <2>2, <2>3, Zenon DEF Windows
  <2>5. \A k \in DOMAIN m.ranges : /\ ranges'[k].space = m.ranges[k].space
                                    /\ ranges'[k].base = m.ranges[k].base
                                    /\ ranges'[k].size = m.ranges[k].size
    BY <2>1, Zenon
  <2>6. ranges' \in [DOMAIN m.ranges -> Windows(m)]
    BY <2>1, <2>4, Zenon
  <2> QED
    BY <2>5, <2>6, Zenon DEF RangesOf
<1>7. Placed(m, decoded')
  <2>1. \A x : x \notin DOMAIN decoded'
    BY <1>3
  <2> QED
    BY <2>1, Zenon DEF Placed
<1>8. SeedScan'
  <2>1. Met' \ scanner'.left = {}
    BY <1>1, <1>5, Zenon DEF Met
  <2> QED
    BY <1>3, <2>1, Zenon DEF SeedScan
<1>9. scanner'.left \subseteq resolve(m) /\ scanner'.who # "kernel"
  BY <1>5, Zenon
<1> QED
  BY <1>1, <1>2, <1>3, <1>5, <1>6, <1>7, <1>8, <1>9, Zenon DEF PciInv

\* The kernel takes over when Seed has checked every function.
LEMMA EntersKernelKeeps ==
    ASSUME PciInv, EntersKernel
    PROVE  PciInv'
<1>1. /\ machinery # <<>> /\ scanner.who = "seed" /\ scanner.left = {}
      /\ scanner' = [who |-> "kernel", left |-> resolve(machinery)]
      /\ machinery' = machinery /\ ranges' = ranges /\ decoded' = decoded /\ enabled' = enabled
      /\ devices_found' = devices_found /\ listing' = listing
  BY Zenon DEF EntersKernel, Scans
<1>2. DOMAIN scanner' = {"who", "left"} /\ scanner'.who = "kernel" /\ scanner'.left = resolve(machinery)
  BY <1>1, Zenon
<1>3. SeedScan /\ machinery \in PciMachines /\ RangesOf(machinery, ranges) /\ Placed(machinery, decoded)
      /\ DOMAIN listing = {"phase", "count", "descriptors"}
  BY <1>1, Zenon DEF PciInv
<1>4. \A a \in Met : Ready(a)
  BY <1>1, <1>3, Zenon DEF SeedScan
<1>5. KernelScan'
  <2>1. \A a \in Met' : Ready(a)'
    BY <1>1, <1>4, Zenon DEF Met, Ready
  <2>2. Met' \ scanner'.left = {}
    BY <1>1, <1>2, Zenon DEF Met
  <2>3. devices_found' = <<>>
    BY <1>1, <1>3, Zenon DEF SeedScan
  <2>4. DOMAIN devices_found' = {}
    BY <2>3
  <2> QED
    BY <2>1, <2>2, <2>4, Zenon DEF KernelScan
<1>6. listing'.phase = "idle"
  BY <1>1, <1>3, Zenon DEF SeedScan
<1>7. scanner'.left \subseteq resolve(machinery') /\ scanner'.who # "seed"
  BY <1>1, <1>2, Zenon
<1> QED
  BY <1>1, <1>2, <1>3, <1>5, <1>6, <1>7, Zenon DEF PciInv

\* Either scan stops at what it does not support.
LEMMA PanicKeeps ==
    ASSUME PciInv, machinery # <<>>, listing.phase = "idle", PciPanic, machinery' = machinery,
           listing' = listing, RangesOf(machinery, ranges'), Placed(machinery, decoded')
    PROVE  PciInv'
<1>1. scanner' = [who |-> "panic", left |-> {}]
  BY Zenon DEF PciPanic
<1>2. /\ DOMAIN scanner' = {"who", "left"} /\ scanner'.left = {}
      /\ scanner'.who # "seed" /\ scanner'.who # "kernel"
  BY <1>1, Zenon
<1>3. machinery' # <<>> /\ machinery' \in PciMachines /\ DOMAIN listing' = {"phase", "count", "descriptors"}
      /\ listing'.phase = "idle"
  BY Zenon DEF PciInv
<1>4. scanner'.left \subseteq resolve(machinery')
  BY <1>2, Zenon
<1> QED
  BY <1>2, <1>3, <1>4, Zenon DEF PciInv

\* Seed checks a function.
LEMMA SeedChecksKeeps ==
    ASSUME PciInv, NEW a \in scanner.left, SeedChecks(a)
    PROVE  PciInv'
<1>1. /\ machinery # <<>> /\ scanner.who = "seed"
      /\ machinery' = machinery /\ devices_found' = devices_found /\ listing' = listing
  BY Zenon DEF SeedChecks, Scans
<1>2. /\ DOMAIN scanner = {"who", "left"} /\ DOMAIN listing = {"phase", "count", "descriptors"}
      /\ machinery \in PciMachines /\ RangesOf(machinery, ranges) /\ Placed(machinery, decoded)
      /\ scanner.left \subseteq resolve(machinery) /\ SeedScan
  BY <1>1, Zenon DEF PciInv
<1>3. listing.phase = "idle" /\ devices_found = <<>>
  BY <1>2, Zenon DEF SeedScan
<1>4. ASSUME GoesOn(a), RangesOf(machinery, ranges'), Placed(machinery, decoded'),
             DOMAIN decoded \subseteq DOMAIN decoded', enabled \subseteq enabled',
             Present(machinery, a) => Ready(a)'
      PROVE  PciInv'
  <2>1. scanner' = [scanner EXCEPT !.left = @ \ {a}]
    BY <1>4, Zenon DEF GoesOn
  <2>2. DOMAIN scanner' = {"who", "left"} /\ scanner'.who = "seed" /\ scanner'.left = scanner.left \ {a}
    BY <1>1, <1>2, <2>1, Zenon
  <2>3. SeedScan'
    <3> SUFFICES ASSUME NEW b \in Met', b \notin scanner'.left PROVE Ready(b)'
      BY <1>1, <1>3, Zenon DEF SeedScan
    <3>1. b \in Met /\ Present(machinery, b)
      BY <1>1, Zenon DEF Met
    <3>2. CASE b = a
      BY <1>4, <3>1, <3>2, Zenon
    <3>3. CASE b # a
      <4>1. Ready(b)
        BY <1>2, <2>2, <3>1, <3>3, Zenon DEF SeedScan
      <4> QED
        BY <1>1, <1>4, <4>1, Zenon DEF Ready
    <3> QED
      BY <3>2, <3>3, Zenon
  <2>4. scanner'.left \subseteq resolve(machinery') /\ scanner'.who # "kernel"
    BY <1>1, <1>2, <2>2, Zenon
  <2> QED
    BY <1>1, <1>2, <1>3, <1>4, <2>2, <2>3, <2>4, Zenon DEF PciInv
<1>5. CASE /\ ~Present(machinery, a) /\ GoesOn(a)
           /\ ranges' = ranges /\ decoded' = decoded /\ enabled' = enabled
  BY <1>2, <1>4, <1>5, Zenon
<1>6. CASE Present(machinery, a)
  <2>1. PICK f, r : f = machinery.functions[a] /\ r = AllocateBars(f, a)
    BY Zenon
  <2>2. IF f.header # "endpoint" THEN PciPanic /\ UNCHANGED <<ranges, decoded, enabled>>
        ELSE /\ ranges' = r.rs /\ decoded' = r.at
             /\ enabled' = IF r.ok /\ \E i \in 1 .. MAX_BARS : bars_of(f)[i] # NoBar
                           THEN enabled \cup {a} ELSE enabled
             /\ IF r.ok THEN GoesOn(a) ELSE PciPanic
    BY <1>6, <2>1, Zenon DEF SeedChecks
  <2>3. CASE f.header # "endpoint"
    <3>1. PciPanic /\ ranges' = ranges /\ decoded' = decoded
      BY <2>2, <2>3, Zenon
    <3> QED
      BY <1>1, <1>2, <1>3, <3>1, PanicKeeps, Zenon
  <2>4. CASE f.header = "endpoint"
    <3>1. a \in DOMAIN machinery.functions
      BY <1>6, Zenon DEF Present
    <3>2. Filled(machinery, a, MAX_BARS, r)
      BY <1>2, <2>1, <3>1, FunctionFilled, Zenon
    <3>3. /\ ranges' = r.rs /\ decoded' = r.at
          /\ enabled' = IF r.ok /\ \E i \in 1 .. MAX_BARS : bars_of(f)[i] # NoBar
                        THEN enabled \cup {a} ELSE enabled
          /\ IF r.ok THEN GoesOn(a) ELSE PciPanic
      BY <2>2, <2>4, Zenon
    <3>4. RangesOf(machinery, ranges') /\ Placed(machinery, decoded') /\ DOMAIN decoded \subseteq DOMAIN decoded'
      BY <3>2, <3>3, Zenon DEF Filled
    <3>5. CASE ~r.ok
      BY <1>1, <1>2, <1>3, <3>3, <3>4, <3>5, PanicKeeps, Zenon
    <3>6. CASE r.ok
      <4>1. \A i \in 1 .. MAX_BARS : WantedBar(machinery, a, i) => <<a, i>> \in DOMAIN decoded'
        BY <3>2, <3>3, <3>6, Zenon DEF Filled
      <4>2. \A i \in 1 .. MAX_BARS : WantedBar(machinery, a, i) => bars_of(f)[i] # NoBar
        <5>1. NoBar.kind = "none"
          BY Zenon DEF NoBar
        <5> QED
          BY <2>1, <5>1, Zenon DEF WantedBar
      <4>3. \A i \in 1 .. MAX_BARS : WantedBar(machinery, a, i) => a \in enabled'
        BY <3>3, <3>6, <4>2, Zenon
      <4>4. Ready(a)'
        BY <1>1, <4>1, <4>3, Zenon DEF Ready
      <4>5. enabled \subseteq enabled'
        BY <3>3, Zenon
      <4>6. GoesOn(a)
        BY <3>3, <3>6, Zenon
      <4> QED
        BY <1>4, <3>4, <4>4, <4>5, <4>6, Zenon
    <3> QED
      BY <3>5, <3>6, Zenon
  <2> QED
    BY <2>3, <2>4, Zenon
<1> QED
  BY <1>5, <1>6, Zenon DEF SeedChecks

\* The kernel checks a function.
LEMMA KernelChecksKeeps ==
    ASSUME PciInv, NEW a \in scanner.left, KernelChecks(a)
    PROVE  PciInv'
<1>1. /\ machinery # <<>> /\ scanner.who = "kernel" /\ scanner.left # {}
      /\ machinery' = machinery /\ ranges' = ranges /\ decoded' = decoded /\ enabled' = enabled
      /\ listing' = listing
  BY Zenon DEF KernelChecks, Scans
<1>2. /\ DOMAIN scanner = {"who", "left"} /\ DOMAIN listing = {"phase", "count", "descriptors"}
      /\ machinery \in PciMachines /\ RangesOf(machinery, ranges) /\ Placed(machinery, decoded)
      /\ scanner.left \subseteq resolve(machinery) /\ KernelScan /\ listing.phase = "idle"
  BY <1>1, Zenon DEF PciInv
<1>3. ASSUME GoesOn(a), DOMAIN devices_found' = DOMAIN devices_found \cup (Met \cap {a}),
             \A b \in DOMAIN devices_found' : devices_found'[b].bars = bars_of(machinery.functions[b])
      PROVE  PciInv'
  <2>1. scanner' = [scanner EXCEPT !.left = @ \ {a}]
    BY <1>3, Zenon DEF GoesOn
  <2>2. DOMAIN scanner' = {"who", "left"} /\ scanner'.who = "kernel" /\ scanner'.left = scanner.left \ {a}
    BY <1>1, <1>2, <2>1, Zenon
  <2>3. Met' = Met
    BY <1>1, Zenon DEF Met
  <2>4. \A b \in Met' : Ready(b)'
    BY <1>1, <1>2, <2>3, Zenon DEF KernelScan, Ready
  <2>5. DOMAIN devices_found' = Met' \ scanner'.left
    <3>1. DOMAIN devices_found = Met \ scanner.left
      BY <1>2, Zenon DEF KernelScan
    <3> QED
      BY <1>3, <2>2, <2>3, <3>1, Zenon
  <2>6. KernelScan'
    BY <1>1, <1>3, <2>4, <2>5, Zenon DEF KernelScan
  <2>7. scanner'.left \subseteq resolve(machinery') /\ scanner'.who # "seed" /\ listing'.phase = "idle"
    BY <1>1, <1>2, <2>2, Zenon
  <2> QED
    BY <1>1, <1>2, <2>2, <2>6, <2>7, Zenon DEF PciInv
<1>4. \A b \in DOMAIN devices_found : devices_found[b].bars = bars_of(machinery.functions[b])
  BY <1>2, Zenon DEF KernelScan
<1>5. CASE ~Present(machinery, a) /\ GoesOn(a) /\ devices_found' = devices_found
  <2>1. Met \cap {a} = {}
    BY <1>5, Zenon DEF Met
  <2> QED
    BY <1>3, <1>4, <1>5, <2>1, Zenon
<1>6. CASE Present(machinery, a)
  <2>1. PICK f : f = machinery.functions[a]
    BY Zenon
  <2>2. IF f.header # "endpoint" \/ InterruptOf(f) = "panic"
        THEN PciPanic /\ UNCHANGED devices_found
        ELSE /\ devices_found' =
                  Entered(devices_found, a, [bars |-> bars_of(f), interrupt |-> InterruptOf(f)])
             /\ GoesOn(a)
    BY <1>6, <2>1, Zenon DEF KernelChecks
  <2>3. CASE PciPanic
    BY <1>1, <1>2, <2>3, PanicKeeps, Zenon
  <2>4. CASE /\ devices_found' =
                  Entered(devices_found, a, [bars |-> bars_of(f), interrupt |-> InterruptOf(f)])
             /\ GoesOn(a)
    <3>1. PICK e : e = [bars |-> bars_of(f), interrupt |-> InterruptOf(f)]
      BY Zenon
    <3>2. e.bars = bars_of(f)
      BY <3>1, Zenon
    <3>3. devices_found' = [y \in DOMAIN devices_found \cup {a} |-> IF y = a THEN e ELSE devices_found[y]]
      BY <2>4, <3>1, Zenon DEF Entered
    <3>4. /\ DOMAIN devices_found' = DOMAIN devices_found \cup {a} /\ devices_found'[a] = e
          /\ \A y \in DOMAIN devices_found : y # a => devices_found'[y] = devices_found[y]
      BY <3>3, Zenon
    <3>5. Met \cap {a} = {a}
      BY <1>2, <1>6, Zenon DEF Met
    <3>6. \A b \in DOMAIN devices_found' : devices_found'[b].bars = bars_of(machinery.functions[b])
      BY <1>4, <2>1, <3>2, <3>4, Zenon
    <3> QED
      BY <1>3, <2>4, <3>4, <3>5, <3>6, Zenon
  <2> QED
    BY <2>2, <2>3, <2>4, Zenon
<1> QED
  BY <1>5, <1>6, Zenon DEF KernelChecks

\* The platform bus asks how many functions there are, and then for them.
LEMMA AsksHowManyKeeps ==
    ASSUME PciInv, AsksHowMany
    PROVE  PciInv'
<1>1. /\ machinery # <<>> /\ scanner.who = "kernel" /\ scanner.left = {}
      /\ machinery' = machinery /\ scanner' = scanner /\ ranges' = ranges /\ decoded' = decoded
      /\ enabled' = enabled /\ devices_found' = devices_found
  BY Zenon DEF AsksHowMany, Scans
<1>2. DOMAIN listing = {"phase", "count", "descriptors"}
  BY Zenon DEF PciInv
<1>3. DOMAIN listing' = {"phase", "count", "descriptors"} /\ listing'.phase \in {"counted", "panic"}
  <2>1. PICK word : word = pci_get_info(0, 0).word
    BY Zenon
  <2>2. listing' = IF word.low = 3 THEN [listing EXCEPT !.phase = "counted", !.count = word.middle]
                   ELSE [listing EXCEPT !.phase = "panic"]
    BY <2>1, Zenon DEF AsksHowMany
  <2>3. CASE word.low = 3
    <3>1. listing' = [listing EXCEPT !.phase = "counted", !.count = word.middle]
      BY <2>2, <2>3, Zenon
    <3> QED
      BY <1>2, <3>1
  <2>4. CASE word.low # 3
    <3>1. listing' = [listing EXCEPT !.phase = "panic"]
      BY <2>2, <2>4, Zenon
    <3> QED
      BY <1>2, <3>1, Zenon
  <2> QED
    BY <2>3, <2>4, Zenon
<1>4. listing'.phase # "done"
  BY <1>3, Zenon
<1>5. KernelScan => KernelScan'
  BY <1>1, Zenon DEF KernelScan, Met, Ready
<1>6. PciInv /\ scanner.who # "seed"
  BY <1>1, Zenon
<1> QED
  BY <1>1, <1>3, <1>4, <1>5, <1>6, Zenon DEF PciInv

LEMMA FetchesKeeps ==
    ASSUME PciInv, Fetches
    PROVE  PciInv'
<1>1. /\ machinery' = machinery /\ scanner' = scanner /\ ranges' = ranges /\ decoded' = decoded
      /\ enabled' = enabled /\ devices_found' = devices_found /\ listing.phase = "counted"
  BY Zenon DEF Fetches
<1>2. machinery # <<>> /\ DOMAIN listing = {"phase", "count", "descriptors"}
  BY <1>1, Zenon DEF PciInv, Untouched
<1>3. scanner.who = "kernel" /\ scanner.left = {}
  BY <1>1, <1>2, Zenon DEF PciInv
<1>4. /\ DOMAIN listing' = {"phase", "count", "descriptors"}
      /\ listing'.phase = "done" => listing'.descriptors = { Descriptor(a) : a \in DOMAIN devices_found }
  <2>1. PICK r : r = pci_get_info(1, listing.count)
    BY Zenon
  <2>2. listing' = IF r.word.low = 0 /\ r.word.middle = listing.count
                   THEN [phase |-> "done", count |-> listing.count, descriptors |-> r.written]
                   ELSE [listing EXCEPT !.phase = "panic"]
    BY <2>1, Zenon DEF Fetches
  <2>3. \/ r.word.low = 3
        \/ r.written = { Descriptor(a) : a \in DOMAIN devices_found }
    <3>1. \/ r = [word |-> PciWord(3, NumDescriptors), written |-> {}]
          \/ r = [word |-> PciWord(0, NumDescriptors),
                  written |-> { Descriptor(a) : a \in DOMAIN devices_found }]
      BY <2>1, Zenon DEF pci_get_info
    <3>2. PciWord(3, NumDescriptors).low = 3
      BY Zenon DEF PciWord
    <3>3. CASE r = [word |-> PciWord(3, NumDescriptors), written |-> {}]
      <4>1. r.word = PciWord(3, NumDescriptors)
        BY <3>3, Zenon
      <4> QED
        BY <3>2, <4>1, Zenon
    <3>4. CASE r = [word |-> PciWord(0, NumDescriptors),
                    written |-> { Descriptor(a) : a \in DOMAIN devices_found }]
      BY <3>4, Zenon
    <3> QED
      BY <3>1, <3>3, <3>4, Zenon
  <2>4. CASE r.word.low = 0 /\ r.word.middle = listing.count
    <3>1. listing' = [phase |-> "done", count |-> listing.count, descriptors |-> r.written]
      BY <2>2, <2>4, Zenon
    <3>2. r.word.low # 3
      BY <2>4
    <3> QED
      BY <2>3, <3>1, <3>2, Zenon
  <2>5. CASE ~(r.word.low = 0 /\ r.word.middle = listing.count)
    <3>1. listing' = [listing EXCEPT !.phase = "panic"]
      BY <2>2, <2>5, Zenon
    <3> QED
      BY <1>2, <3>1, Zenon
  <2> QED
    BY <2>4, <2>5, Zenon
<1>5. listing'.phase = "done" => listing'.descriptors = { Descriptor(a)' : a \in DOMAIN devices_found' }
  <2>1. \A a : Descriptor(a)' = Descriptor(a)
    BY <1>1, Zenon DEF Descriptor
  <2> QED
    BY <1>1, <1>4, <2>1, Zenon
<1>6. KernelScan => KernelScan'
  BY <1>1, Zenon DEF KernelScan, Met, Ready
<1>7. PciInv /\ scanner.who # "seed"
  BY <1>3, Zenon
<1> QED
  BY <1>1, <1>2, <1>3, <1>4, <1>5, <1>6, <1>7, Zenon DEF PciInv

LEMMA PciStepKeeps == PciInv /\ [PciNext]_pcivars => PciInv'
<1> SUFFICES ASSUME PciInv, [PciNext]_pcivars PROVE PciInv'
  OBVIOUS
<1>1. CASE Initialize
  BY <1>1, InitializeKeeps, Zenon
<1>2. CASE EntersKernel
  BY <1>2, EntersKernelKeeps, Zenon
<1>3. CASE AsksHowMany
  BY <1>3, AsksHowManyKeeps, Zenon
<1>4. CASE Fetches
  BY <1>4, FetchesKeeps, Zenon
<1>5. ASSUME NEW a \in scanner.left, SeedChecks(a) PROVE PciInv'
  BY <1>5, SeedChecksKeeps, Zenon
<1>6. ASSUME NEW a \in scanner.left, KernelChecks(a) PROVE PciInv'
  BY <1>6, KernelChecksKeeps, Zenon
<1>7. CASE UNCHANGED pcivars
  <2>1. /\ machinery' = machinery /\ scanner' = scanner /\ ranges' = ranges /\ decoded' = decoded
        /\ enabled' = enabled /\ devices_found' = devices_found /\ listing' = listing
    BY <1>7, Zenon DEF pcivars
  <2>2. (SeedScan => SeedScan') /\ (KernelScan => KernelScan') /\ (Untouched => Untouched')
    BY <2>1, Zenon DEF SeedScan, KernelScan, Met, Ready, Untouched
  <2>3. \A a : Descriptor(a)' = Descriptor(a)
    BY <2>1, Zenon DEF Descriptor
  <2>4. { Descriptor(a)' : a \in DOMAIN devices_found' } = { Descriptor(a) : a \in DOMAIN devices_found }
    BY <2>1, <2>3, Zenon
  <2> QED
    BY <2>1, <2>2, <2>4, Zenon DEF PciInv
<1> QED
  BY <1>1, <1>2, <1>3, <1>4, <1>5, <1>6, <1>7, Zenon DEF PciNext

LEMMA PciInvSuffices == PciInv => BarsUsable
<1> SUFFICES ASSUME PciInv, listing.phase = "done" PROVE BarsUsable
  BY Zenon DEF BarsUsable
<1>1. machinery # <<>>
  BY Zenon DEF PciInv, Untouched
<1>2. /\ scanner.left = {} /\ KernelScan /\ Placed(machinery, decoded)
      /\ listing.descriptors = { Descriptor(a) : a \in DOMAIN devices_found }
  BY <1>1, Zenon DEF PciInv
<1>3. DOMAIN devices_found = Met
  BY <1>2, Zenon DEF KernelScan
<1>4. \A a : Descriptor(a).address = a
  BY Zenon DEF Descriptor
<1>5. { d.address : d \in listing.descriptors } = Met
  <2>1. \A d \in listing.descriptors : d.address \in Met
    BY <1>2, <1>3, <1>4, Zenon
  <2>2. \A a \in Met : Descriptor(a) \in listing.descriptors
    BY <1>2, <1>3, Zenon
  <2>3. \A a \in Met : \E d \in listing.descriptors : d.address = a
    BY <1>4, <2>2, Zenon
  <2> QED
    BY <2>1, <2>3, Zenon
<1>6. Met = { a \in DOMAIN machinery.functions : a \in resolve(machinery) }
  BY Zenon DEF Met, Present
<1>7. ASSUME NEW d \in listing.descriptors, NEW o \in d.objects, NEW bar,
             bar = machinery.functions[d.address].bars[o.bar]
      PROVE  /\ o.size = bar.size /\ o.base % o.size = 0 /\ d.address \in enabled
             /\ \E k \in DOMAIN machinery.ranges :
                  /\ machinery.ranges[k].space = bar.kind
                  /\ machinery.ranges[k].base <= o.base
                  /\ o.base + o.size <= machinery.ranges[k].base + machinery.ranges[k].size
  <2>1. PICK a \in DOMAIN devices_found : d = Descriptor(a)
    BY <1>2, Zenon
  <2>2. d.address = a
    BY <1>4, <2>1, Zenon
  <2>3. d.objects = { [bar |-> i, base |-> decoded[<<a, i>>], size |-> devices_found[a].bars[i].size] :
                      i \in { j \in 1 .. MAX_BARS : devices_found[a].bars[j].kind \in {"mem32", "mem64"} } }
    BY <2>1, Zenon DEF Descriptor
  <2>4. PICK i \in 1 .. MAX_BARS :
          /\ devices_found[a].bars[i].kind \in {"mem32", "mem64"}
          /\ o = [bar |-> i, base |-> decoded[<<a, i>>], size |-> devices_found[a].bars[i].size]
    BY <2>3, Zenon
  <2>5. o.bar = i /\ o.base = decoded[<<a, i>>] /\ o.size = devices_found[a].bars[i].size
    BY <2>4, Zenon
  <2>6. devices_found[a].bars = bars_of(machinery.functions[a])
    BY <1>2, <2>1, Zenon DEF KernelScan
  <2>7. WantedBar(machinery, a, i)
    BY <2>4, <2>6, Zenon DEF WantedBar
  <2>8. bars_of(machinery.functions[a])[i].kind # "none"
    BY <2>7, Zenon DEF WantedBar
  <2>9. bars_of(machinery.functions[a])[i] = machinery.functions[a].bars[i]
    <3>1. AsItIs(machinery, a, i)
      BY <2>8, SeenBar, Zenon
    <3> QED
      BY <3>1, Zenon DEF AsItIs
  <2>10. bar = machinery.functions[a].bars[i] /\ o.size = bar.size
    BY <1>7, <2>2, <2>5, <2>6, <2>9, Zenon
  <2>11. a \in Met /\ a \in DOMAIN machinery.functions /\ Ready(a)
    BY <1>2, <1>3, <2>1, Zenon DEF KernelScan, Met, Present
  <2>12. <<a, i>> \in DOMAIN decoded /\ a \in enabled
    BY <2>7, <2>11, Zenon DEF Ready
  <2>13. Suits(machinery, machinery.functions[a].bars[i], decoded[<<a, i>>])
    BY <1>2, <2>7, <2>11, <2>12, Zenon DEF Placed
  <2>14. Suits(machinery, bar, o.base)
    BY <2>5, <2>10, <2>13, Zenon
  <2> QED
    BY <2>2, <2>10, <2>12, <2>14, Zenon DEF Suits
<1>8. \A d \in listing.descriptors : \A o \in d.objects :
        LET bar == machinery.functions[d.address].bars[o.bar]
        IN /\ o.size = bar.size /\ o.base % o.size = 0
           /\ d.address \in enabled
           /\ \E k \in DOMAIN machinery.ranges :
                 LET r == machinery.ranges[k]
                 IN r.space = bar.kind /\ r.base <= o.base /\ o.base + o.size <= r.base + r.size
  <2> TAKE d \in listing.descriptors
  <2> TAKE o \in d.objects
  <2>1. PICK bar : bar = machinery.functions[d.address].bars[o.bar]
    BY Zenon
  <2>2. /\ o.size = bar.size /\ o.base % o.size = 0 /\ d.address \in enabled
        /\ \E k \in DOMAIN machinery.ranges :
             /\ machinery.ranges[k].space = bar.kind
             /\ machinery.ranges[k].base <= o.base
             /\ o.base + o.size <= machinery.ranges[k].base + machinery.ranges[k].size
    BY <1>7, <2>1, SMTT(30)
  <2> QED
    BY <2>1, <2>2, Zenon
<1> QED
  BY <1>5, <1>6, <1>8, Zenon DEF BarsUsable

\* Every address that Seed gives to a BAR suits it, every function that was checked
\* is ready to be used, and the kernel lists just those (check_function of both
\* scans, pci_get_info).
THEOREM PciKept == PciSpec => []PciInv
<1>1. PciInit => PciInv
  BY PciStarts
<1>2. PciInv /\ [PciNext]_pcivars => PciInv'
  BY PciStepKeeps
<1> QED
  BY <1>1, <1>2, PTL DEF PciSpec

\* Every memory object that pci_get_info hands out is for a BAR that decodes memory
\* of the host bridge, aligned, of the right size and switched on; and no function
\* is missing.
THEOREM DriversGetUsableBars == PciSpec => []BarsUsable
<1>1. PciSpec => []PciInv
  BY PciKept
<1>2. PciInv => BarsUsable
  BY PciInvSuffices
<1> QED
  BY <1>1, <1>2, PTL
=============================================================================
