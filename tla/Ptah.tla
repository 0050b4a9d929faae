-------------------------------- MODULE Ptah --------------------------------
(***************************************************************************)
(* lib/ptah, the wire format every Poplar message is written in, and the    *)
(* typed channels of lib/poplar that carry it.  A type is a record with a   *)
(* kind "k"; a value of it is an integer, a Boolean, or a sequence:         *)
(*   int     a number of T.w little-endian bytes (all integer widths and    *)
(*           char; the signed and floating types differ only in meaning)    *)
(*   str     a sequence of bytes                                            *)
(*   option  <<>> or <<v>>                                                  *)
(*   array   T.n values, with no length on the wire; seq: with a length     *)
(*   tuple   one value per type of T.of (tuples, structs, the unit type)    *)
(*   enum    <<variant, fields>>, T.of the field types of each variant      *)
(*   map     <<key, value>> pairs in key order, as BTreeMap iterates them   *)
(*   handle  the kernel object the handle denotes: the number it has in     *)
(*           either task is the kernel's business (module Ipc)              *)
(***************************************************************************)
EXTENDS Integers, Sequences, SequencesExt

CONSTANTS Messages,                 \* <<type, value>> pairs that tasks exchange
          BufferSizes,              \* lengths of the buffers given to CursorWriter
          CHANNEL_MAX_NUM_BYTES,    \* what the kernel accepts in a message
          BYTES_BUFFER_SIZE,        \* what Channel::receive has room for
          CHANNEL_MAX_NUM_HANDLES

VARIABLES message,    \* the message on its way, <<>> when there is none
          writer,     \* the Writer it was serialised into
          arrived,    \* what the reader was given: bytes, handles
          outcome     \* what from_wire returned

pvars == <<message, writer, arrived, outcome>>

-----------------------------------------------------------------------------
(* Writers.                                                                  *)

CursorWriter(size) == [kind |-> "cursor", size |-> size, bytes |-> <<>>, handles |-> <<>>, err |-> "ok"]

ChannelWriter == [kind |-> "channel", size |-> 0, bytes |-> <<>>, handles |-> <<>>, err |-> "ok"]

SizeCalculator == [kind |-> "size", size |-> 0, bytes |-> <<>>, handles |-> <<>>, err |-> "ok"]

write(w, buf) ==
    IF w.err # "ok" THEN w
    ELSE IF w.kind = "cursor" /\ Len(w.bytes) + Len(buf) > w.size
         THEN [w EXCEPT !.err = "WriterFullOfBytes"]
    ELSE IF w.kind = "size" THEN [w EXCEPT !.size = @ + Len(buf)]
    ELSE [w EXCEPT !.bytes = @ \o buf]

make_handle_slot(index) == 240 + index

index_from_handle_slot(slot) == slot - 240

push_handle(w, h) ==
    IF w.err # "ok" \/ w.kind = "size" THEN w
    ELSE IF w.kind = "cursor" THEN [w EXCEPT !.err = "unimplemented"]
    ELSE IF Len(w.handles) + 1 > CHANNEL_MAX_NUM_HANDLES
         THEN [w EXCEPT !.err = "WriterFullOfHandles"]
    ELSE [w EXCEPT !.handles = Append(@, h)]

slot_of_next(w) == make_handle_slot(IF w.kind = "size" THEN 0 ELSE Len(w.handles) % 4)

(* The slot the writer answers with; the size calculator's answer is fixed.  *)
slot_of(w) == make_handle_slot(IF w.kind = "size" THEN 0 ELSE Len(w.handles) - 1)

-----------------------------------------------------------------------------
(* Serialisation.                                                            *)

to_le_bytes(n, width) == [i \in 1..width |-> (n \div 256^(i - 1)) % 256]

U32(w, n) == write(w, to_le_bytes(n, 4))

RECURSIVE serialize(_, _, _)

(* The derived code of a struct: its fields, in order.                       *)
serialize_fields(types, values, w) ==
    FoldLeft(LAMBDA w1, i : serialize(types[i], values[i], w1), w, [i \in 1..Len(values) |-> i])

(* The derived code of an enum: the variant's index, then its fields.        *)
serialize_variant(variants, v, w) == serialize_fields(variants[v[1]], v[2], U32(w, v[1] - 1))

serialize(T, v, w) ==
    LET every(type, values, w0) ==
            FoldLeft(LAMBDA w1, x : serialize(type, x, w1), w0, values)
    IN CASE T.k = "int"    -> write(w, to_le_bytes(v, T.w))
         [] T.k = "bool"   -> write(w, IF v THEN <<1>> ELSE <<0>>)
         [] T.k = "str"    -> FoldLeft(LAMBDA w1, b : write(w1, <<b>>), U32(w, Len(v)), v)
         [] T.k = "option" -> every(T.of, v, write(w, <<Len(v)>>))
         [] T.k = "array"  -> every(T.of, v, w)
         [] T.k = "seq"    -> every(T.of, v, U32(w, Len(v)))
         [] T.k = "tuple"  -> serialize_fields(T.of, v, w)
         [] T.k = "enum"   -> serialize_variant(T.of, v, w)
         [] T.k = "map"    -> FoldLeft(LAMBDA w1, p : serialize_fields(T.of, p, w1), U32(w, Len(v)), v)
         [] T.k = "handle" -> LET pushed == push_handle(w, v)
                              IN write(pushed, <<slot_of(pushed)>>)

to_wire(m, w) == serialize(m[1], m[2], w)

serialized_size(m) == to_wire(m, SizeCalculator).size

-----------------------------------------------------------------------------
(* Deserialisation: a deserializer with the value last produced.             *)

Deserializer(bytes, handles) == [bytes |-> bytes, handles |-> handles, value |-> <<>>, err |-> "ok"]

Refuse(d, e) == IF d.err = "ok" THEN [d EXCEPT !.err = e] ELSE d

take_n(d, n) ==
    IF d.err # "ok" THEN d
    ELSE IF Len(d.bytes) < n THEN Refuse(d, "EndOfStream")
    ELSE [d EXCEPT !.value = SubSeq(d.bytes, 1, n), !.bytes = SubSeq(d.bytes, n + 1, Len(d.bytes))]

from_le_bytes(d) ==
    IF d.err # "ok" THEN d
    ELSE [d EXCEPT !.value = FoldRight(LAMBDA b, n : b + 256 * n, d.value, 0)]

deserialize_int(d, width) == from_le_bytes(take_n(d, width))

(* UTF-8, as far as the messages need it: ASCII and two-byte characters.     *)
from_utf8(bytes) ==
    \A i \in DOMAIN bytes :
        \/ bytes[i] < 128
        \/ bytes[i] \in 194..223 /\ i < Len(bytes) /\ bytes[i + 1] \in 128..191
        \/ bytes[i] \in 128..191 /\ i > 1 /\ bytes[i - 1] \in 194..223

map_insert(m, k, v) ==
    SelectSeq(m, LAMBDA p : p[1] < k) \o <<<<k, v>>>> \o SelectSeq(m, LAMBDA p : p[1] > k)

RECURSIVE deserialize(_, _)

(* The derived code of a struct: one value of each type, until one fails.    *)
deserialize_fields(types, d) ==
    LET Collect(d1, type) ==
            LET next == deserialize(type, d1)
            IN [next EXCEPT !.value = Append(d1.value, next.value)]
    IN FoldLeft(LAMBDA d1, type : IF d1.err = "ok" THEN Collect(d1, type) ELSE d1,
                [d EXCEPT !.value = <<>>], types)

(* The derived code of an enum.                                              *)
deserialize_variant(variants, d) ==
    LET tag == deserialize_int(d, 4)
    IN IF tag.err # "ok" THEN tag
       ELSE IF tag.value >= Len(variants) THEN Refuse(tag, "InvalidEnumTag")
       ELSE LET fields == deserialize_fields(variants[tag.value + 1], tag)
            IN [fields EXCEPT !.value = <<tag.value + 1, fields.value>>]

deserialize(T, d) ==
    LET n_of(n, type, d0) == deserialize_fields([i \in 1..n |-> type], d0)
        Insert(d1, pair) == [pair EXCEPT !.value = map_insert(d1.value, pair.value[1], pair.value[2])]
    IN CASE T.k = "int"    -> deserialize_int(d, T.w)
         [] T.k = "bool"   -> LET b == deserialize_int(d, 1)
                              IN IF b.err # "ok" THEN b
                                 ELSE IF b.value \in {0, 1} THEN [b EXCEPT !.value = (b.value = 1)]
                                 ELSE Refuse(b, "InvalidBoolMarker")
         [] T.k = "str"    -> LET n == deserialize_int(d, 4)
                                  s == IF n.err = "ok" THEN take_n(n, n.value) ELSE n
                              IN IF s.err = "ok" /\ ~from_utf8(s.value) THEN Refuse(s, "InvalidUtf8") ELSE s
         [] T.k = "option" -> LET tag == deserialize_int(d, 1)
                              IN IF tag.err # "ok" THEN tag
                                 ELSE IF tag.value \in {0, 1} THEN n_of(tag.value, T.of, tag)
                                 ELSE Refuse(tag, "InvalidOptionMarker")
         [] T.k = "array"  -> n_of(T.n, T.of, d)
         [] T.k = "seq"    -> LET n == deserialize_int(d, 4)
                              IN IF n.err = "ok" THEN n_of(n.value, T.of, n) ELSE n
         [] T.k = "tuple"  -> deserialize_fields(T.of, d)
         [] T.k = "enum"   -> deserialize_variant(T.of, d)
         [] T.k = "map"    -> LET n == deserialize_int(d, 4)
                              IN IF n.err # "ok" THEN n
                                 ELSE FoldLeft(LAMBDA d1, i :
                                                 LET pair == deserialize_fields(T.of, d1)
                                                 IN IF d1.err # "ok" THEN d1
                                                    ELSE IF pair.err # "ok" THEN pair
                                                    ELSE Insert(d1, pair),
                                               [n EXCEPT !.value = <<>>], [i \in 1..n.value |-> i])
         [] T.k = "handle" -> LET slot == deserialize_int(d, 1)
                                  i == index_from_handle_slot(slot.value) + 1
                              IN IF slot.err # "ok" THEN slot
                                 ELSE IF i \notin 1..4 THEN Refuse(slot, "panic")
                                 ELSE IF i > Len(d.handles) THEN Refuse(slot, "InvalidHandleSlot")
                                 ELSE [slot EXCEPT !.value = d.handles[i]]

from_wire(T, bytes, handles) ==
    LET d == deserialize(T, Deserializer(bytes, handles))
    IN IF d.err = "ok" /\ d.bytes # <<>> THEN Refuse(d, "TrailingBytes") ELSE d

-----------------------------------------------------------------------------
(* A message is sent through a channel, or written into a byte buffer whose  *)
(* reader may be given too little of it, or the unused rest as well.         *)

PtahInit == message = <<>> /\ writer = <<>> /\ arrived = <<>> /\ outcome = <<>>

Channel_send(m) ==
    /\ message = <<>>
    /\ message' = m
    /\ writer' = to_wire(m, ChannelWriter)
    /\ UNCHANGED <<arrived, outcome>>

Buffer_write(m, size) ==
    /\ message = <<>>
    /\ message' = m
    /\ writer' = to_wire(m, CursorWriter(size))
    /\ UNCHANGED <<arrived, outcome>>

(* The value that was read, or the error.                                    *)
Outcome(d) == IF d.err = "ok" THEN <<"ok", d.value>> ELSE <<d.err>>

ReceiveError == <<"ReceiveError">>

(* The kernel refuses what is too long to queue.                             *)
Queued == writer.kind = "channel" /\ writer.err = "ok" /\ Len(writer.bytes) <= CHANNEL_MAX_NUM_BYTES

(* What is queued but longer than the receiver's buffer is refused to the    *)
(* receiver, now and at every further try, since it stays first in the queue.*)
Channel_receive ==
    /\ message # <<>> /\ outcome = <<>> /\ Queued
    /\ IF Len(writer.bytes) > BYTES_BUFFER_SIZE
       THEN outcome' = ReceiveError /\ UNCHANGED arrived
       ELSE /\ arrived' = [bytes |-> writer.bytes, handles |-> writer.handles]
            /\ outcome' = Outcome(from_wire(message[1], writer.bytes, writer.handles))
    /\ UNCHANGED <<message, writer>>

Buffer_read(n) ==
    /\ message # <<>> /\ outcome = <<>>
    /\ writer.kind = "cursor" /\ writer.err = "ok"
    /\ n \in 0..writer.size
    /\ \E buffer \in {writer.bytes \o [i \in 1..(writer.size - Len(writer.bytes)) |-> 0]} :
         arrived' = [bytes |-> SubSeq(buffer, 1, n), handles |-> <<>>]
    /\ outcome' = Outcome(from_wire(message[1], arrived'.bytes, <<>>))
    /\ UNCHANGED <<message, writer>>

NextMessage ==
    /\ message # <<>>
    /\ IF outcome # <<>> THEN outcome # ReceiveError
       ELSE writer.err # "ok" \/ Len(writer.bytes) > CHANNEL_MAX_NUM_BYTES
    /\ message' = <<>> /\ writer' = <<>> /\ arrived' = <<>> /\ outcome' = <<>>

PtahNext ==
    \/ \E m \in Messages : Channel_send(m) \/ \E size \in BufferSizes : Buffer_write(m, size)
    \/ Channel_receive \/ \E n \in 0..64 : Buffer_read(n)
    \/ NextMessage

-----------------------------------------------------------------------------
(* What a task reads is what the other wrote, or an error, and never another *)
(* value: all of the bytes give the value back; fewer end the stream early;  *)
(* more are trailing bytes; a receiver is refused exactly the messages that  *)
(* are longer than its buffer, which is smaller than what the kernel queues; *)
(* and serialized_size told how many bytes there are before any was written. *)
MessagesSurvive ==
    message # <<>> =>
      /\ writer.err = "ok" => Len(writer.bytes) = serialized_size(message)
      /\ writer.err = "WriterFullOfBytes" => serialized_size(message) > writer.size
      /\ outcome = ReceiveError <=>
           outcome # <<>> /\ writer.kind = "channel" /\ serialized_size(message) > BYTES_BUFFER_SIZE
      /\ outcome \notin {<<>>, ReceiveError} =>
           CASE Len(arrived.bytes) < Len(writer.bytes) -> outcome = <<"EndOfStream">>
             [] Len(arrived.bytes) > Len(writer.bytes) -> outcome = <<"TrailingBytes">>
             [] OTHER -> outcome = <<"ok", message[2]>>
=============================================================================
