------------------------------ MODULE Picotoml ------------------------------
(***************************************************************************)
(* lib/picotoml, the TOML reader both bootloaders read their configuration  *)
(* with.  A configuration is written out the way xtask writes one, lexed    *)
(* and read back under the type the program expects.                        *)
(*                                                                          *)
(* Text is a sequence of atoms: a whole run of letters and digits (a        *)
(* "word") with its text, a string between double quotes (which may hold    *)
(* anything else) with its text, or another single character, a line's end  *)
(* being "eol" and a blank or tab "space".  A type is a record with a kind  *)
(* "k", as for module Ptah; a struct has "fields", a sequence of            *)
(* <<name, type>>, and its value is the sequence of <<name, value>> in the  *)
(* same order.                                                              *)
(***************************************************************************)
EXTENDS Integers, Sequences, SequencesExt

CONSTANTS Configurations     \* records: type, text, value

VARIABLES config, parsed

tvars == <<config, parsed>>

-----------------------------------------------------------------------------
(* The lexer.  A comment runs from "#" to the end of the line or to the next *)
(* "|", for the rule's [^\n|\r\n] excludes that too; and a "|" outside a      *)
(* comment is skipped as blanks are, by [ |\t].  Two brackets with nothing    *)
(* between them are one token (no configuration here has three in a row).    *)
(* Words are bare strings unless they are numbers or Booleans.               *)

Tok(t, s) == [t |-> t, s |-> s]

Numerals == <<"0", "1", "2", "3", "4", "5", "6", "7", "8", "9">>

WordToken(s) ==
    CASE s \in Range(Numerals)      -> Tok("number", s)
      [] s \in {"true", "false"}  -> Tok("bool", s)
      [] OTHER                    -> Tok("bare", s)

EndsComment(t) == t \in {"eol", "|"}

(* Is atom i inside a comment that began before it?                          *)
InComment(text, i) ==
    \E k \in 1 .. i - 1 : text[k].t = "#" /\ \A j \in k .. i : ~EndsComment(text[j].t)

lex(text) ==
    LET Doubled == [t \in {"[", "]"} |-> IF t = "[" THEN "[[" ELSE "]]"]
        joined(i) == i > 1 /\ text[i].t \in DOMAIN Doubled /\ text[i - 1] = text[i]
        yields(i) == /\ ~InComment(text, i) /\ text[i].t \notin {"space", "|"}
                     /\ i < Len(text) => ~joined(i + 1)
        places == SelectSeq([i \in DOMAIN text |-> i], yields)
        token(i) == CASE text[i].t = "#"    -> Tok("comment", "")
                      [] text[i].t = "word" -> WordToken(text[i].s)
                      [] joined(i)          -> Tok(Doubled[text[i].t], "")
                      [] OTHER              -> text[i]
    IN [n \in DOMAIN places |-> token(places[n])]

-----------------------------------------------------------------------------
(* The deserializer: the tokens left, the value last produced, how deep we   *)
(* are, and the name of the array of tables we are in.                       *)

TomlDeserializer(text) ==
    [toks |-> lex(text), v |-> <<>>, depth |-> 0, in_array_table |-> "", err |-> "ok"]

TomlFail(d, e) == IF d.err = "ok" THEN [d EXCEPT !.err = e] ELSE d

peek_nth(d, n) == IF n <= Len(d.toks) THEN d.toks[n] ELSE Tok("eof", "")

peek(d) == peek_nth(d, 1)

next(d) ==
    IF d.err # "ok" THEN d
    ELSE IF d.toks = <<>> THEN TomlFail(d, "MissingToken")
    ELSE [d EXCEPT !.toks = Tail(@)]

expect(d, t) == IF d.err = "ok" /\ peek(d).t \notin {t, "eof"} THEN TomlFail(d, "UnexpectedToken") ELSE next(d)

RECURSIVE consume_whitespace_and_comments(_)
consume_whitespace_and_comments(d) ==
    IF d.err = "ok" /\ peek(d).t \in {"eol", "comment"} THEN consume_whitespace_and_comments(next(d)) ELSE d

expect_eol_or_eof(d) ==
    IF d.err # "ok" \/ d.toks = <<>> THEN d ELSE expect(d, "eol")

Strings == {"bare", "quoted"}

parse_string(d) ==
    IF d.err = "ok" /\ peek(d).t \notin Strings \cup {"eof"} THEN TomlFail(d, "UnexpectedToken")
    ELSE LET n == next(d) IN IF n.err = "ok" THEN [n EXCEPT !.v = peek(d).s] ELSE n

deserialize_int_from_str(d) ==
    LET n == next(d)
    IN IF n.err # "ok" THEN n
       ELSE IF peek(d).t = "number" THEN [n EXCEPT !.v = SelectInSeq(Numerals, LAMBDA c : c = peek(d).s) - 1]
       ELSE TomlFail(n, "InvalidInteger")

parse_bool(d) ==
    LET n == expect(d, "bool") IN IF n.err = "ok" THEN [n EXCEPT !.v = peek(d).s = "true"] ELSE n

Deeper(d, by) == [d EXCEPT !.depth = @ + by]

-----------------------------------------------------------------------------
(* Keys.  The key read is in v, <<>> when the map has ended.                 *)

NoKey == <<>>

TableKey(d) ==
    LET name == next(d)
        after == expect(expect(name, "bare"), "]")
        rest == consume_whitespace_and_comments(after)
    IN IF rest.err # "ok" THEN rest
       ELSE IF rest.toks = <<>> THEN TomlFail(rest, "MissingToken")
       ELSE [rest EXCEPT !.v = <<peek(name).s>>]

ArrayOfTablesKey(d) ==
    LET second == peek_nth(d, 2)
        third == peek_nth(d, 3)
    IN IF second.t # "bare" THEN TomlFail(d, "UnexpectedToken")
       ELSE IF d.in_array_table = "" THEN [d EXCEPT !.in_array_table = second.s, !.v = <<second.s>>]
       ELSE IF third.t # "." THEN [d EXCEPT !.v = NoKey]
       ELSE IF second.s # d.in_array_table THEN TomlFail(d, "Unsupported")
       ELSE [d EXCEPT !.v = <<peek_nth(d, 4).s>>]

EndsTable_never(d, first) == FALSE

(* A table header ends the table being read, unless that is the whole file.  *)
EndsTable(d, first) == ~first /\ d.depth > 1

next_key_seed(d0, first) ==
    LET d == consume_whitespace_and_comments(d0)
        token == peek(d).t
    IN CASE d.toks = <<>> -> [d EXCEPT !.v = NoKey]
         [] d.toks # <<>> /\ token = "bare" -> LET n == parse_string(d) IN [n EXCEPT !.v = <<n.v>>]
         [] d.toks # <<>> /\ token = "["  ->
              IF EndsTable(d, first) THEN [d EXCEPT !.v = NoKey] ELSE TableKey(d)
         [] d.toks # <<>> /\ token = "[[" -> ArrayOfTablesKey(d)
         [] OTHER -> TomlFail(d, "unimplemented")

-----------------------------------------------------------------------------
(* Values.                                                                   *)

RECURSIVE read(_, _)

next_value_seed(T, d) ==
    LET token == peek(d).t
        start == IF token = "=" THEN next(d) ELSE d
        value == Deeper(read(T, Deeper(start, 1)), -1)
    IN IF token \notin {"=", "[[", "bare"} THEN TomlFail(d, IF token = "eof" THEN "MissingToken" ELSE "UnexpectedToken")
       ELSE IF value.err # "ok" THEN value
       ELSE IF value.depth <= 2 /\ token # "=" THEN consume_whitespace_and_comments(value)
       ELSE expect_eol_or_eof(value)

(* The visitor serde derives for a struct.  got: the fields read so far.     *)
RECURSIVE KeyValuePairs(_, _, _, _)
KeyValuePairs(T, d, first, got) ==
    LET key == next_key_seed(d, first)
        named == {i \in DOMAIN T.fields : T.fields[i][1] = key.v[1]}
    IN IF key.err # "ok" THEN key
       ELSE IF key.v = NoKey
       THEN LET missing == {i \in DOMAIN T.fields : i \notin DOMAIN got /\ T.fields[i][2].k # "option"}
            IN IF missing # {} THEN TomlFail(key, "missing field")
               ELSE [key EXCEPT !.v = [i \in DOMAIN T.fields |->
                        <<T.fields[i][1], IF i \in DOMAIN got THEN got[i] ELSE <<>>>>]]
       ELSE IF named = {} THEN TomlFail(key, "unimplemented")
       ELSE LET i == CHOOSE i \in named : TRUE
                value == next_value_seed(T.fields[i][2], key)
            IN IF i \in DOMAIN got THEN TomlFail(key, "duplicate field")
               ELSE IF value.err # "ok" THEN value
               ELSE KeyValuePairs(T, value, FALSE, [j \in DOMAIN got \cup {i} |-> IF j = i THEN value.v ELSE got[j]])

RECURSIVE CommaSeparated(_, _, _)
CommaSeparated(T, d, got) ==
    LET start == IF got = <<>> THEN d ELSE expect(d, ",")
        value == read(T, start)
    IN IF peek(d).t = "]" THEN [d EXCEPT !.v = got]
       ELSE IF d.toks = <<>> THEN TomlFail(d, "MissingToken")
       ELSE IF value.err # "ok" THEN value
       ELSE CommaSeparated(T, value, Append(got, value.v))

RECURSIVE ArrayOfTables(_, _, _, _)
ArrayOfTables(T, d, name, got) ==
    LET name_item == peek_nth(d, 2)
        start == expect(next(next(d)), "]]")
        value == Deeper(read(T, Deeper(start, 1)), -1)
    IN IF d.toks = <<>> THEN [d EXCEPT !.v = got]
       ELSE IF peek(d).t # "[[" \/ name_item.t # "bare" THEN TomlFail(d, "UnexpectedToken")
       ELSE IF name \notin {"", name_item.s} THEN TomlFail(d, "unimplemented")
       ELSE IF value.err # "ok" THEN value
       ELSE ArrayOfTables(T, value, name_item.s, Append(got, value.v))

deserialize_seq(T, d) ==
    CASE peek(d).t = "["  -> expect(Deeper(CommaSeparated(T.of, Deeper(next(d), 1), <<>>), -1), "]")
      [] peek(d).t = "[[" -> Deeper(ArrayOfTables(T.of, Deeper(d, 1), "", <<>>), -1)
      [] OTHER            -> TomlFail(d, "UnexpectedToken")

deserialize_struct(T, d) == Deeper(KeyValuePairs(T, Deeper(d, 1), TRUE, <<>>), -1)

deserialize_enum(T, d) ==
    IF peek(d).t # "quoted" THEN TomlFail(d, "UnexpectedToken")
    ELSE LET n == parse_string(d) IN IF n.v \in T.of THEN n ELSE TomlFail(n, "unknown variant")

read(T, d) ==
    IF d.err # "ok" THEN d
    ELSE CASE T.k = "int"    -> deserialize_int_from_str(d)
           [] T.k = "bool"   -> parse_bool(d)
           [] T.k = "str"    -> parse_string(d)
           [] T.k = "option" -> LET n == read(T.of, d) IN [n EXCEPT !.v = <<n.v>>]
           [] T.k = "seq"    -> deserialize_seq(T, d)
           [] T.k = "struct" -> deserialize_struct(T, d)
           [] T.k = "enum"   -> deserialize_enum(T, d)

from_str(T, text) == LET d == read(T, TomlDeserializer(text)) IN [v |-> d.v, err |-> d.err]

-----------------------------------------------------------------------------

TomlInit == config = <<>> /\ parsed = <<>>

ReadConfig(c) ==
    /\ config = <<>>
    /\ config' = c
    /\ parsed' = from_str(c.type, c.text)

NextConfig == config # <<>> /\ config' = <<>> /\ parsed' = <<>>

TomlNext == (\E c \in Configurations : ReadConfig(c)) \/ NextConfig

-----------------------------------------------------------------------------
(* A comment with a "|" in it: what follows on its line is read as TOML.     *)
BarInComment(text) == \E i \in 2 .. Len(text) : text[i].t = "|" /\ (text[i - 1].t = "#" \/ InComment(text, i - 1))

(* A configuration reads back as what was written: keys in any order, with   *)
(* comments and blank lines between them, options left out, and either       *)
(* tables after tables or one array of tables at the end.  The exception is  *)
(* a comment that holds a "|", which the lexer takes for the comment's end.  *)
ConfigReadBack ==
    config # <<>> /\ ~BarInComment(config.text) => parsed.err = "ok" /\ parsed.v = config.value
=============================================================================
