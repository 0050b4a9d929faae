-------------------------------- MODULE Tftp --------------------------------
(***************************************************************************)
(* The TFTP server from which machines boot during development             *)
(* (tools/tftp_serve/src/main.rs): a session for every read request that   *)
(* parses, all in one asynchronous task, each reading its file one block   *)
(* ahead of the block it sends and never sending anything twice.           *)
(*                                                                         *)
(* The network may lose, reorder and duplicate packets.  The client is     *)
(* external: it takes the blocks of the first session that answers in      *)
(* order, acknowledges each and repeats its last packet when nothing comes.*)
(* A file is the sequence of its bytes 1 .. length; a read of the file     *)
(* fills the buffer unless the file ends.                                  *)
(***************************************************************************)
EXTENDS Integers, Sequences, FiniteSets

CONSTANTS
    Files,            \* file name -> length
    ReadRequests,     \* the requests a client may make
    DEFAULT_BLOCK_SIZE,
    BlockNumbers,     \* 2^16: a block number is a u16
    MaxRepeats,       \* bound on what the client repeats
    MaxLosses         \* bound on the packets the network loses or duplicates

\* Lengths and block sizes are unsigned; a block size is parsed as a number.
ASSUME SizesAssumption ==
    DEFAULT_BLOCK_SIZE \in Nat /\ \A name \in DOMAIN Files : Files[name] \in Nat
ASSUME NumbersAssumption == BlockNumbers \in Nat /\ BlockNumbers > 1
ASSUME RequestsAssumption ==
    \A packet \in ReadRequests :
        /\ packet.to = "server"
        /\ Len(packet.options) \in Nat /\ DOMAIN packet.options = 1 .. Len(packet.options)
        /\ \A i \in DOMAIN packet.options :
             packet.options[i][1] = "blksize" => packet.options[i][2] \in Nat

VARIABLES
    wire,             \* the packets under way
    sessions,         \* the server's sessions, in order of their sockets
    crashed,          \* a panic in any session ends the server
    client,           \* the client
    faults            \* how often the network has misbehaved

fvars == <<wire, sessions, crashed, client, faults>>

Nobody == 0

-----------------------------------------------------------------------------
\* The server.

\* TftpRequest::parse: the options are key and value in turn; unknown ones are
\* skipped, and a later one replaces an earlier. -1 for no block size.
OptionsOf(packet, key) == { i \in DOMAIN packet.options : packet.options[i][1] = key }
parse_request(packet) ==
    [filename |-> packet.filename,
     wants_tsize |-> OptionsOf(packet, "tsize") # {},
     block_size |-> LET is == OptionsOf(packet, "blksize")
                    IN IF is = {} THEN -1
                       ELSE packet.options[CHOOSE i \in is : \A j \in is : j <= i][2]]

Accepts(packet) == packet.opcode = "RRQ" /\ packet.mode = "octet"

\* file.read into a buffer of `size` bytes: the bytes it got.
Read(s) ==
    LET left == Files[s.filename] - s.offset
        n == IF left < s.block_size THEN left ELSE s.block_size
    IN [i \in 1 .. n |-> s.offset + i]

\* A read puts its bytes over the start of a buffer.
Fill(buffer, bytes) ==
    [i \in 1 .. (IF Len(buffer) < Len(bytes) THEN Len(bytes) ELSE Len(buffer)) |->
        IF i <= Len(bytes) THEN bytes[i] ELSE buffer[i]]

Data(n, s) == [opcode |-> "DATA", to |-> "client", session |-> n, block |-> s.block_number,
               bytes |-> SubSeq(s.send_buffer, 1, s.num_bytes_read)]

\* One turn of the loop up to its wait: the next block is read while this one is
\* sent. The number wraps where the build does not check for overflow.
Send(s) ==
    LET bytes == Read(s)
    IN [s EXCEPT !.block_number = (@ + 1) % BlockNumbers, !.offset = @ + Len(bytes),
                 !.read_buffer = Fill(@, bytes), !.new_num_bytes_read = Len(bytes),
                 !.state = "sending"]

\* Before the loop: the first block is read and the buffer copied.
FirstBlock(s) ==
    LET bytes == Read(s)
    IN Send([s EXCEPT !.offset = Len(bytes), !.num_bytes_read = Len(bytes),
                      !.read_buffer = bytes, !.send_buffer = bytes])

NewSession(request) ==
    [filename |-> request.filename,
     block_size |-> IF request.block_size = -1 THEN DEFAULT_BLOCK_SIZE ELSE request.block_size,
     offset |-> 0, block_number |-> 0, num_bytes_read |-> 0, new_num_bytes_read |-> 0,
     read_buffer |-> <<>>, send_buffer |-> <<>>, state |-> "new"]

Oack(n, request) ==
    [opcode |-> "OACK", to |-> "client", session |-> n, block_size |-> request.block_size,
     tsize |-> IF request.wants_tsize THEN Files[request.filename] ELSE -1]

\* A packet is taken off the wire, unless the network delivers it again later.
Arrives(packet) ==
    /\ packet \in wire
    /\ \/ wire' = wire \ {packet} /\ UNCHANGED faults
       \/ faults < MaxLosses /\ faults' = faults + 1 /\ UNCHANGED wire

\* What arrives, and what is sent in answer.
Exchange(packet, answers) ==
    /\ packet \in wire
    /\ \/ wire' = (wire \ {packet}) \cup answers /\ UNCHANGED faults
       \/ faults < MaxLosses /\ faults' = faults + 1 /\ wire' = wire \cup answers

\* handle_read_request up to its first wait.
handle_read_request(packet) ==
    LET request == parse_request(packet)
        n == Len(sessions) + 1
        s == NewSession(request)
    IN IF request.filename \notin DOMAIN Files
       THEN /\ sessions' = Append(sessions, [s EXCEPT !.state = "over"])
            /\ Exchange(packet, {[opcode |-> "ERROR", to |-> "client", session |-> n]})
       ELSE IF request.wants_tsize \/ request.block_size # -1
       THEN /\ sessions' = Append(sessions, [s EXCEPT !.state = "options"])
            /\ Exchange(packet, {Oack(n, request)})
       ELSE /\ sessions' = Append(sessions, FirstBlock(s))
            /\ Exchange(packet, {Data(n, FirstBlock(s))})

Serve ==
    /\ ~crashed
    /\ \E packet \in wire :
        /\ packet.to = "server"
        /\ \/ Accepts(packet) /\ handle_read_request(packet)
           \/ ~Accepts(packet) /\ Arrives(packet) /\ UNCHANGED sessions
    /\ UNCHANGED <<crashed, client>>

\* Mutant of after_ack: the buffers are not swapped.
after_ack_unswapped(s) ==
    IF s.num_bytes_read # s.block_size THEN [s EXCEPT !.state = "over"]
    ELSE Send([s EXCEPT !.num_bytes_read = s.new_num_bytes_read])

\* What follows an acknowledged block: stop after a short one, or swap the
\* buffers and send the next.
after_ack(s) ==
    IF s.num_bytes_read # s.block_size THEN [s EXCEPT !.state = "over"]
    ELSE Send([s EXCEPT !.num_bytes_read = s.new_num_bytes_read,
                        !.read_buffer = s.send_buffer, !.send_buffer = s.read_buffer])

\* There is another block and no number for it: block_number += 1 is a panic in a
\* build that checks for overflow, and goes on with 0 in one that does not.
Overflows(s) ==
    s.state = "sending" /\ s.num_bytes_read = s.block_size /\ s.block_number = BlockNumbers - 1

\* receive_ack: any number but the one awaited is a panic, and an error packet
\* ends the session. A session that is over has closed its socket.
receive_ack ==
    /\ ~crashed
    /\ \E packet \in wire :
        /\ packet.to = "session"
        /\ LET n == packet.session
               s == sessions[n]
               next == IF s.state = "options" THEN FirstBlock(s) ELSE after_ack(s)
           IN \/ /\ s.state = "over"
                 /\ Arrives(packet) /\ UNCHANGED <<sessions, crashed>>
              \/ /\ s.state # "over" /\ packet.opcode = "ERROR"
                 /\ Arrives(packet)
                 /\ sessions' = [sessions EXCEPT ![n].state = "over"] /\ UNCHANGED crashed
              \/ /\ s.state # "over" /\ packet.opcode = "ACK" /\ packet.block # s.block_number
                 /\ Arrives(packet) /\ crashed' = TRUE /\ UNCHANGED sessions
              \/ /\ packet.opcode = "ACK" /\ packet.block = s.block_number /\ Overflows(s)
                 /\ Arrives(packet) /\ crashed' = TRUE /\ UNCHANGED sessions
              \/ /\ s.state # "over" /\ packet.opcode = "ACK" /\ packet.block = s.block_number
                 /\ Exchange(packet, IF next.state = "over" THEN {} ELSE {Data(n, next)})
                 /\ sessions' = [sessions EXCEPT ![n] = next] /\ UNCHANGED crashed
    /\ UNCHANGED client

-----------------------------------------------------------------------------
\* The network and the client.

Lose ==
    /\ faults < MaxLosses /\ faults' = faults + 1
    /\ \E packet \in wire : wire' = wire \ {packet}
    /\ UNCHANGED <<sessions, crashed, client>>

Says(packet) == wire' = wire \cup {packet}

ClientAsks ==
    /\ client.state = "idle"
    /\ \E packet \in ReadRequests :
        /\ Says(packet)
        /\ client' = [client EXCEPT !.state = "asked", !.last = packet]
    /\ UNCHANGED <<sessions, crashed, faults>>

ClientRepeats ==
    /\ client.state \in {"asked", "taking"} /\ client.repeats < MaxRepeats
    /\ Says(client.last)
    /\ client' = [client EXCEPT !.repeats = @ + 1]
    /\ UNCHANGED <<sessions, crashed, faults>>

\* The client takes the first session that answers it, and refuses others. It knows
\* a block that it has had already, and acknowledges it again.
Mine(packet) == client.session \in {Nobody, packet.session}
BlockSize == IF client.options = -1 THEN DEFAULT_BLOCK_SIZE ELSE client.options

ClientTakes ==
    /\ client.state \in {"asked", "taking"}
    /\ \E packet \in wire :
        /\ packet.to = "client"
        /\ LET ack(block) == [opcode |-> "ACK", to |-> "session", session |-> packet.session,
                             block |-> block]
               error == [opcode |-> "ERROR", to |-> "session", session |-> packet.session]
           IN CASE ~Mine(packet) -> Exchange(packet, {error}) /\ UNCHANGED client
                [] Mine(packet) /\ packet.opcode = "ERROR" ->
                     Arrives(packet) /\ client' = [client EXCEPT !.state = "failed"]
                [] Mine(packet) /\ packet.opcode = "OACK" ->
                     IF client.block = 0
                     THEN /\ Exchange(packet, {ack(0)})
                          /\ client' = [client EXCEPT !.state = "taking", !.session = packet.session,
                                            !.options = packet.block_size, !.length = packet.tsize,
                                            !.last = ack(0)]
                     ELSE Arrives(packet) /\ UNCHANGED client
                [] Mine(packet) /\ packet.opcode = "DATA" ->
                     IF packet.block = (client.block + 1) % BlockNumbers
                     THEN /\ Exchange(packet, {ack(packet.block)})
                          /\ client' = [client EXCEPT !.session = packet.session,
                                            !.block = packet.block, !.bytes = @ \o packet.bytes,
                                            !.state = IF Len(packet.bytes) < BlockSize
                                                      THEN "done" ELSE "taking",
                                            !.last = ack(packet.block)]
                     ELSE Exchange(packet, {ack(packet.block)}) /\ UNCHANGED client
    /\ UNCHANGED <<sessions, crashed>>

TftpInit ==
    /\ wire = {} /\ sessions = <<>> /\ crashed = FALSE /\ faults = 0
    /\ client = [state |-> "idle", last |-> <<>>, repeats |-> 0, session |-> Nobody, options |-> -1,
                 block |-> 0, bytes |-> <<>>, length |-> -1]

TftpNext ==
    Serve \/ receive_ack \/ Lose \/ ClientAsks \/ ClientRepeats \/ ClientTakes

TftpSpec == TftpInit /\ [][TftpNext]_fvars

-----------------------------------------------------------------------------
\* The file has fewer blocks than there are block numbers: less than 65535 full
\* blocks of the session's size.
Numbered(s) == Files[s.filename] < (BlockNumbers - 1) * s.block_size

\* A client that has reached the end of a transfer has the bytes of the file it
\* asked for, in order, and as many as the server announced (handle_read_request and
\* its two buffers), whatever the network lost, repeated or delayed, and however
\* many sessions its repeated requests have started. The bytes of a file with more
\* blocks than there are numbers for are excepted: block_number is a u16.
FileIntact ==
    client.state = "done" =>
        LET s == sessions[client.session]
            length == Files[s.filename]
        IN /\ Numbered(s) => client.bytes = [i \in 1 .. length |-> i]
           /\ client.length \in {-1, length}
=============================================================================
