----------------------------- MODULE MCFormats ------------------------------
(***************************************************************************)
(* Instances for the wire format, the configuration reader and the file    *)
(* server.                                                                 *)
(***************************************************************************)
EXTENDS Ptah, Picotoml, Tftp, TLC

\* Types of the wire format.
Bytes(w) == [k |-> "int", w |-> w]
Bool == [k |-> "bool"]
Str == [k |-> "str"]
HandleT == [k |-> "handle"]
Option(T) == [k |-> "option", of |-> T]
Vec(T) == [k |-> "seq", of |-> T]
Array(n, T) == [k |-> "array", n |-> n, of |-> T]
Tuple(Ts) == [k |-> "tuple", of |-> Ts]
Enum(vs) == [k |-> "enum", of |-> vs]
BTreeMap(K, T) == [k |-> "map", of |-> <<K, T>>]

\* The shapes of the platform bus's messages.
HandoffProperty == Enum(<< <<HandleT>>, <<>>, <<Bytes(2)>> >>)
HandoffInfo == Tuple(<<Str, BTreeMap(Bytes(1), HandoffProperty)>>)
FilterList == Enum(<< <<Vec(Vec(Tuple(<<Bytes(1), Bool>>)))>>, <<Bytes(2), Option(Bool)>> >>)

\* A message of 4 * n + m bytes.
LongMessage(n, m) ==
    <<Tuple(<<Array(n, Bytes(4)), Array(m, Bool)>>), << [i \in 1 .. n |-> 256 * i], [i \in 1 .. m |-> TRUE] >> >>

\* Messages of every kind of type, of which two just fit into the buffer of a
\* receiver and into the kernel's queue, and two just do not.
MCMessages ==
    { <<Tuple(<<>>), <<>> >>, <<Bytes(2), 513>>, <<Bool, TRUE>>, <<Option(Bytes(2)), <<>> >>,
      <<Option(Bytes(2)), <<65535>> >>, <<Array(2, Bool), <<TRUE, FALSE>> >>,
      <<Str, <<104, 195, 169>> >>, <<Str, <<>> >>,
      <<FilterList, <<1, << << << <<7, TRUE>>, <<8, FALSE>> >>, <<>> >> >> >> >>,
      <<FilterList, <<2, <<300, <<FALSE>> >> >> >>,
      <<HandoffInfo, << <<117>>, << <<1, <<1, <<"pipe">> >> >>, <<3, <<2, <<>> >> >>,
                                    <<9, <<1, <<"buffer">> >> >> >> >> >>,
      <<Vec(HandleT), <<"a", "b", "c", "d">> >>, <<Vec(HandleT), <<"a", "b", "c", "d", "e">> >>,
      LongMessage(7, 0), LongMessage(7, 1), LongMessage(8, 0), LongMessage(8, 1) }

-----------------------------------------------------------------------------
\* A configuration with a value of every type, tables or an array of tables,
\* and comments and empty lines in between.

TomlWord(s) == Tok("word", s)
TomlString(s) == Tok("quoted", s)
Symbol(s) == Tok(s, "")
TomlLine(atoms) == atoms \o <<Tok("eol", "")>>

StrType == [k |-> "str"]
IntType == [k |-> "int"]
ServerType == [k |-> "struct", fields |-> << <<"ip", StrType>>, <<"port", IntType>> >>]
OptionOf(type) == [k |-> "option", of |-> type]
ConfigType ==
    [k |-> "struct",
     fields |-> << <<"name", StrType>>, <<"note", OptionOf(StrType)>>, <<"on", [k |-> "bool"]>>,
                   <<"mode", [k |-> "enum", of |-> {"fast", "slow"}]>>,
                   <<"users", [k |-> "seq", of |-> StrType]>>,
                   <<"server", OptionOf(ServerType)>>, <<"backup", OptionOf(ServerType)>>,
                   <<"disks", OptionOf([k |-> "seq", of |-> ServerType])>> >>]

ServerText(ip, port) ==
    TomlLine(<<TomlWord("ip"), Symbol("="), TomlString(ip)>>)
    \o TomlLine(<<TomlWord("port"), Symbol("="), TomlWord(Numerals[port + 1])>>)
ServerValue(ip, port) == << <<"ip", ip>>, <<"port", port>> >>

TomlArray(names) ==
    <<Symbol("[")>>
    \o FlattenSeq([i \in DOMAIN names |->
         (IF i = 1 THEN <<>> ELSE <<Symbol(","), Symbol("space")>>) \o <<TomlString(names[i])>>])
    \o <<Symbol("]")>>

ConfigText(note, names, disks, gap, swapped) ==
    LET name == TomlLine(<<TomlWord("name"), Symbol("space"), Symbol("="), Symbol("space"),
                           TomlString("poplar")>>)
        mode == TomlLine(<<TomlWord("mode"), Symbol("="), TomlString("slow")>>)
        table(n) == TomlLine(<<Symbol("["), TomlWord(n), Symbol("]")>>)
        backup == table("backup") \o gap \o ServerText("b", 2) \o gap
        server == table("server") \o ServerText("a", 1)
        disk(i) == TomlLine(<<Symbol("["), Symbol("["), TomlWord("disks"), Symbol("]"), Symbol("]")>>)
                   \o ServerText("d", i)
    IN gap \o (IF swapped THEN mode \o name ELSE name \o gap \o mode)
       \o (IF note THEN TomlLine(<<TomlWord("note"), Symbol("="), TomlString("hi")>>) ELSE <<>>)
       \o TomlLine(<<TomlWord("on"), Symbol("="), TomlWord("true")>>)
       \o TomlLine(<<TomlWord("users"), Symbol("=")>> \o TomlArray(names)) \o gap
       \o (IF disks > 0 THEN FlattenSeq([i \in 1 .. disks |-> disk(i)])
           ELSE IF swapped THEN backup \o server ELSE server \o gap \o backup)

ConfigValue(note, names, disks) ==
    LET tables(v) == IF disks > 0 THEN <<>> ELSE <<v>>
    IN << <<"name", "poplar">>, <<"note", IF note THEN <<"hi">> ELSE <<>> >>, <<"on", TRUE>>,
          <<"mode", "slow">>, <<"users", names>>, <<"server", tables(ServerValue("a", 1))>>,
          <<"backup", tables(ServerValue("b", 2))>>,
          <<"disks", IF disks = 0 THEN <<>> ELSE <<[i \in 1 .. disks |-> ServerValue("d", i)]>> >> >>

\* What may stand between lines: a line commented out, with an empty line
\* after it; and a comment that a "|" ends early, with and without words after.
Gaps ==
    { <<>>, TomlLine(<<>>),
      TomlLine(<<Symbol("#"), Symbol("space"), TomlWord("mode"), Symbol("="), TomlString("fast")>>) \o TomlLine(<<>>),
      TomlLine(<<Symbol("#"), TomlWord("fast"), Symbol("|"), TomlWord("slow")>>),
      TomlLine(<<Symbol("#"), Symbol("|")>>) }

MCConfigurations ==
    { [type |-> ConfigType, text |-> ConfigText(note, names, disks, gap, swapped),
       value |-> ConfigValue(note, names, disks)] :
      note \in BOOLEAN, names \in { <<>>, <<"ada">>, <<"ada", "bob">> }, disks \in 0 .. 2,
      gap \in Gaps,
      swapped \in BOOLEAN }

-----------------------------------------------------------------------------
\* Three files, two of a whole number of blocks, and requests with and without
\* options, for a file that is not there and in an unsupported mode.

ReadRequest(name, options, mode) ==
    [opcode |-> "RRQ", to |-> "server", filename |-> name, mode |-> mode, options |-> options]

\* "image" has more blocks of the default size than there are numbers for.
MCFiles == "kernel" :> 5 @@ "config" :> 4 @@ "image" :> 10
MCReadRequests ==
    { ReadRequest("kernel", <<>>, "octet"), ReadRequest("config", <<>>, "octet"),
      ReadRequest("absent", <<>>, "octet"), ReadRequest("image", <<>>, "octet"),
      ReadRequest("kernel", <<>>, "netascii"),
      ReadRequest("kernel", << <<"blksize", 3>>, <<"tsize", 0>> >>, "octet"),
      ReadRequest("config", << <<"tsize", 0>> >>, "octet") }
=============================================================================
