--------------------------- MODULE GinkgoCompiler ---------------------------
\* The lexer and the single-pass compiler of Ginkgo (ginkgo/src/lex.rs, parse.rs):
\* from a source to the bytes of a chunk. A source is a sequence of units: a
\* character, or a run of letters of some word. The parser is a record that each
\* function takes and returns: the tokens and how far it is, the function being
\* compiled, the functions around it, and how it failed, if it did.
EXTENDS Integers, Sequences, TLC

CONSTANT Letters   \* the runs of letters sources are made of

-----------------------------------------------------------------------------
\* The lexer.

Symbols ==
    "+" :> "Plus" @@ "-" :> "Minus" @@ "." :> "Dot" @@ "=" :> "Equals" @@ "*" :> "Asterix"
    @@ ":" :> "Colon" @@ ";" :> "Semicolon" @@ "," :> "Comma" @@ "!" :> "Bang"
    @@ "(" :> "LeftParen" @@ ")" :> "RightParen" @@ "{" :> "LeftBrace" @@ "}" :> "RightBrace"
    @@ "<" :> "LessThan" @@ ">" :> "GreaterThan" @@ "?" :> "QuestionMark" @@ "^" :> "Caret"
    @@ "&" :> "Ampersand" @@ "|" :> "Pipe" @@ "/" :> "Slash"

\* The symbols of two characters.
Pairs ==
    <<"=", "=">> :> "EqualEquals" @@ <<"!", "=">> :> "BangEquals" @@ <<"<", "=">> :> "LessEqual"
    @@ <<">", "=">> :> "GreaterEqual" @@ <<"&", "&">> :> "AmpersandAmpersand"
    @@ <<"|", "|">> :> "PipePipe"

Keywords ==
    "let" :> "Let" @@ "if" :> "If" @@ "else" :> "Else" @@ "for" :> "For" @@ "loop" :> "Loop"
    @@ "while" :> "While" @@ "true" :> "True" @@ "false" :> "False" @@ "return" :> "Return"
    @@ "fn" :> "Fn" @@ "class" :> "Class" @@ "self" :> "GinkgoSelf"

Digits == <<"0", "1", "2", "3", "4", "5", "6", "7", "8", "9", "a", "b", "c", "d", "e", "f">>
DigitsOf(base) == { Digits[i] : i \in 1 .. base }
WordStart == Letters \cup {"_"}
WordContinue == WordStart \cup DigitsOf(10)

\* The character at a place, " " after the last one.
At(source, i) == IF i <= Len(source) THEN source[i] ELSE " "

\* The end of the longest run of some characters from i on.
Munch(source, i, chars) ==
    CHOOSE j \in i - 1 .. Len(source) :
        /\ \A k \in i .. j : source[k] \in chars
        /\ j = Len(source) \/ source[j + 1] \notin chars

\* produce: a token, what it is spelled as, and where the next one starts.
Produce(typ, source, first, last) ==
    [typ |-> typ, text |-> SubSeq(source, first, last), next |-> last + 1]

\* A number: the base is looked for after any digit, but "x" only after 0.
Number(source, i) ==
    LET c == At(source, i + 1)
        base == CASE source[i] = "0" /\ c = "x" -> 16 [] c = "b" -> 2 [] c = "o" -> 8 [] OTHER -> 10
        last == Munch(source, IF base = 10 THEN i + 1 ELSE i + 2, DigitsOf(base))
        decimal == At(source, last + 1) = "." /\ At(source, last + 2) \in DigitsOf(10)
    IN CASE ~decimal -> Produce("Integer", source, i, last)
         [] decimal /\ base # 10 -> Produce("Error", source, i, last)
         [] OTHER -> Produce("Decimal", source, i, Munch(source, last + 2, DigitsOf(10)))

\* A string, without its quotes. An open one ends the stream.
StringLiteral(source, i) ==
    LET last == Munch(source, i + 1, { source[k] : k \in DOMAIN source } \ {"\""})
    IN IF last = Len(source) THEN Produce("End", source, i, last)
       ELSE [Produce("String", source, i + 1, last) EXCEPT !.next = last + 2]

\* The longest word, so that a keyword may start an identifier.
Word(source, i) ==
    LET last == Munch(source, i, WordContinue)
    IN Produce(IF last = i /\ source[i] \in DOMAIN Keywords THEN Keywords[source[i]]
               ELSE "Identifier", source, i, last)

next_no_peeking(source, from) ==
    LET i == Munch(source, from, {" ", "\n"}) + 1
        c == At(source, i)
        pair == <<c, At(source, i + 1)>>
    IN CASE i > Len(source) -> Produce("End", source, i, i - 1)
         [] i <= Len(source) /\ pair \in DOMAIN Pairs -> Produce(Pairs[pair], source, i, i + 1)
         [] pair \notin DOMAIN Pairs /\ c \in DOMAIN Symbols -> Produce(Symbols[c], source, i, i)
         [] c \in DigitsOf(10) -> Number(source, i)
         [] c = "\"" -> StringLiteral(source, i)
         [] c \in WordStart -> Word(source, i)
         [] OTHER -> Produce("Error", source, i, i)

\* The tokens up to the end or the first error.
Lexed(source) ==
    LET from[i \in 1 .. Len(source) + 2] ==
            LET token == next_no_peeking(source, i)
            IN IF token.typ \in {"End", "Error"} THEN <<token>> ELSE <<token>> \o from[token.next]
    IN from[1]

\* The number a token of type Integer stands for; a lone 0 is not one, nor is a
\* base without digits or after another digit than 0.
IsNumber(text) ==
    /\ text # <<"0">>
    /\ \/ \A i \in DOMAIN text : text[i] \in DigitsOf(10)
       \/ text[1] = "0" /\ Len(text) > 2
token_to_integer_literal(text) ==
    LET base == IF text[1] # "0" THEN 10
                ELSE CASE text[2] = "b" -> 2 [] text[2] = "x" -> 16 [] text[2] = "o" -> 8 [] OTHER -> 10
        digits == IF base = 10 THEN text ELSE SubSeq(text, 3, Len(text))
        upTo[i \in 0 .. Len(digits)] ==
            IF i = 0 THEN 0
            ELSE upTo[i - 1] * base + (CHOOSE d \in 1 .. base : Digits[d] = digits[i]) - 1
    IN upTo[Len(digits)]

-----------------------------------------------------------------------------
\* Bytecode.

Opcodes ==
    <<"Return", "Constant", "Negate", "Add", "Subtract", "Multiply", "Divide", "True", "False",
      "BitwiseAnd", "BitwiseOr", "BitwiseXor", "Equal", "NotEqual", "LessThan", "LessEqual",
      "GreaterThan", "GreaterEqual", "Pop", "DefineGlobal", "GetGlobal", "SetGlobal", "GetLocal",
      "SetLocal", "Jump", "JumpIfTrue", "JumpIfFalse", "Call", "Unit">>

Byte(op) == (CHOOSE i \in DOMAIN Opcodes : Opcodes[i] = op) - 1

\* A 16-bit number in two bytes, and back.
ToBytes(n) == <<n % 256, (n \div 256) % 256>>
FromBytes(low, high) ==
    LET n == low + 256 * high IN IF n >= 32768 THEN n - 65536 ELSE n

NewFunction == [code |-> <<>>, constants |-> <<>>, depth |-> 0, locals |-> <<>>]

Parser(source) ==
    [tokens |-> Lexed(source), at |-> 1, f |-> NewFunction, outer |-> <<>>, failed |-> "no"]

emit(p, op) == [p EXCEPT !.f.code = Append(@, Byte(op))]
emit2(p, op, operand) == [p EXCEPT !.f.code = @ \o <<Byte(op), operand % 256>>]

\* Add a constant to the function and emit an operation on its index.
WithConstant(p, op, value) ==
    emit2([p EXCEPT !.f.constants = Append(@, value)], op, Len(p.f.constants))

emit_jump(p, op) == [p EXCEPT !.f.code = @ \o <<Byte(op), 0, 0>>]

\* Let the jump that was emitted last in an earlier parser lead to here.
patch_jump(p, jump) ==
    LET bytes == ToBytes(Len(p.f.code) - (Len(jump.f.code) - 2) - 2)
    IN [p EXCEPT !.f.code[Len(jump.f.code) - 1] = bytes[1], !.f.code[Len(jump.f.code)] = bytes[2]]

emit_jump_to(p, op, target) ==
    LET from == Len(p.f.code) + 1
    IN [p EXCEPT !.f.code = @ \o <<Byte(op)>> \o ToBytes(target - (from + 2))]

-----------------------------------------------------------------------------
\* Tokens.

Fail(p, how) == [p EXCEPT !.failed = how]
Parsing(p) == p.failed = "no"
PeekType(p) == p.tokens[p.at].typ
PeekText(p) == p.tokens[p.at].text
Advance(p) == [p EXCEPT !.at = @ + 1]

\* Whether the next token is of a type. An error of the lexer shows up here and
\* in consume and expression; either way it ends the parse.
matches(p, typ) == Parsing(p) /\ PeekType(p) = typ

consume(p, typ) ==
    IF ~Parsing(p) THEN p ELSE IF PeekType(p) = typ THEN Advance(p) ELSE Fail(p, "error")

\* matches, where the token may be missing.
Skip(p, typ) == IF matches(p, typ) THEN Advance(p) ELSE p

-----------------------------------------------------------------------------
\* Scopes.

begin_scope(p) == [p EXCEPT !.f.depth = @ + 1]

Declare(p, name) == [p EXCEPT !.f.locals = Append(@, [name |-> name, depth |-> p.f.depth])]

\* The locals of the scope are forgotten and their values popped.
end_scope(p) ==
    LET kept == SelectSeq(p.f.locals, LAMBDA local : local.depth < p.f.depth)
        pops == [i \in 1 .. Len(p.f.locals) - Len(kept) |-> Byte("Pop")]
    IN [p EXCEPT !.f.depth = @ - 1, !.f.locals = kept, !.f.code = @ \o pops]

\* At the top level a value on the stack becomes a global.
DefineGlobal(p, name) ==
    IF p.f.depth = 0
    THEN emit(WithConstant(p, "Constant", <<"String", name>>), "DefineGlobal") ELSE p

-----------------------------------------------------------------------------
\* Expressions.

precedence_table ==
    "Equals" :> 1 @@ "PipePipe" :> 2 @@ "AmpersandAmpersand" :> 3
    @@ [t \in {"EqualEquals", "BangEquals", "GreaterThan", "GreaterEqual", "LessThan", "LessEqual"}
          |-> 4]
    @@ "Pipe" :> 5 @@ "Caret" :> 6 @@ "Ampersand" :> 7
    @@ [t \in {"Plus", "Minus"} |-> 8] @@ [t \in {"Asterix", "Slash"} |-> 9] @@ "LeftParen" :> 14

PRECEDENCE_PREFIX == 11

\* The token types of the plain binary operations, and their operations.
binary_op ==
    "Plus" :> "Add" @@ "Minus" :> "Subtract" @@ "Asterix" :> "Multiply" @@ "Slash" :> "Divide"
    @@ "Ampersand" :> "BitwiseAnd" @@ "Pipe" :> "BitwiseOr" @@ "Caret" :> "BitwiseXor"
    @@ "EqualEquals" :> "Equal" @@ "BangEquals" :> "NotEqual" @@ "GreaterThan" :> "GreaterThan"
    @@ "GreaterEqual" :> "GreaterEqual" @@ "LessThan" :> "LessThan" @@ "LessEqual" :> "LessEqual"

\* The innermost local of a name, or the global.
IdentifierParselet(p, name) ==
    LET named == { i \in DOMAIN p.f.locals : p.f.locals[i].name = name }
    IN IF named = {} THEN WithConstant(p, "GetGlobal", <<"String", name>>)
       ELSE emit2(p, "GetLocal", (CHOOSE i \in named : \A j \in named : j <= i) - 1)

RECURSIVE expression(_, _), infixes(_, _), arguments(_, _), statement(_), statements(_)

\* Mutant: an operator takes the operand that an equally strong one would.
binds_equal(p, precedence) ==
    PeekType(p) \in DOMAIN precedence_table /\ precedence <= precedence_table[PeekType(p)]

\* The next token is an infix operator that binds more strongly.
binds(p, precedence) ==
    PeekType(p) \in DOMAIN precedence_table /\ precedence < precedence_table[PeekType(p)]

prefix(p) ==
    LET typ == PeekType(p)
        text == PeekText(p)
        q == Advance(p)
    IN CASE typ = "Identifier" -> IdentifierParselet(q, text)
         [] typ = "Integer" /\ IsNumber(text) ->
              WithConstant(q, "Constant", <<"Integer", token_to_integer_literal(text)>>)
         [] typ = "Integer" /\ ~IsNumber(text) -> Fail(p, "panic")
         [] typ = "String" -> WithConstant(q, "Constant", <<"String", text>>)
         [] typ \in {"True", "False"} -> emit(q, typ)
         [] typ = "Minus" -> emit(expression(q, PRECEDENCE_PREFIX), "Negate")
         [] typ = "LeftParen" -> consume(expression(q, 0), "RightParen")
         [] OTHER -> Fail(p, "error")

\* && and ||: the left side stays if it decides, else the right side replaces it.
ShortCircuit(p, op, precedence) ==
    LET jump == emit_jump(p, op)
        right == expression(emit(jump, "Pop"), precedence)
    IN IF Parsing(right) THEN patch_jump(right, jump) ELSE right

\* The bytes of the left side are taken back and become a store.
Assignment(p) ==
    LET code == p.f.code
        get == Len(code) - 1
        q == [p EXCEPT !.f.code = SubSeq(code, 1, get - 1)]
        set == IF code[get] = Byte("GetGlobal") THEN "SetGlobal" ELSE "SetLocal"
    IN IF get >= 1 /\ code[get] \in {Byte("GetGlobal"), Byte("GetLocal")}
       THEN emit2(expression(q, 0), set, code[get + 1]) ELSE Fail(p, "panic")

infix(p) ==
    LET typ == PeekType(p)
        q == Advance(p)
    IN CASE typ \in DOMAIN binary_op -> emit(expression(q, precedence_table[typ]), binary_op[typ])
         [] typ = "AmpersandAmpersand" -> ShortCircuit(q, "JumpIfFalse", 3)
         [] typ = "PipePipe" -> ShortCircuit(q, "JumpIfTrue", 2)
         [] typ = "Equals" -> Assignment(q)
         [] typ = "LeftParen" -> arguments(q, 0)

arguments(p, count) ==
    CASE ~Parsing(p) -> p
      [] matches(p, "RightParen") -> emit2(Advance(p), "Call", count)
      [] OTHER -> arguments(Skip(expression(p, 0), "Comma"), count + 1)

infixes(p, precedence) ==
    IF Parsing(p) /\ binds(p, precedence) THEN infixes(infix(p), precedence)
    ELSE IF Parsing(p) /\ PeekType(p) = "Error" THEN Fail(p, "error") ELSE p

expression(p, precedence) == IF Parsing(p) THEN infixes(prefix(p), precedence) ELSE p

-----------------------------------------------------------------------------
\* Statements.

\* The rest of a block, after its opening brace.
block(p) == end_scope(statements(begin_scope(p)))

\* The statements up to the closing brace.
statements(p) ==
    CASE ~Parsing(p) -> p
      [] matches(p, "RightBrace") -> Advance(p)
      [] OTHER -> statements(statement(p))

let_statement(p) ==
    LET name == PeekText(p)
        q == consume(p, "Identifier")
        declared == IF q.f.depth > 0 THEN Declare(q, name) ELSE q
        value == expression(consume(declared, "Equals"), 0)
    IN DefineGlobal(consume(value, "Semicolon"), name)

if_statement(p) ==
    LET test == emit_jump(expression(p, 0), "JumpIfFalse")
        then == block(consume(emit(test, "Pop"), "LeftBrace"))
        skip == emit_jump(then, "Jump")
        other == emit(patch_jump(skip, test), "Pop")
        end == IF matches(other, "Else") THEN block(consume(Advance(other), "LeftBrace")) ELSE other
    IN patch_jump(end, skip)

while_statement(p) ==
    LET test == emit_jump(expression(p, 0), "JumpIfFalse")
        body == block(consume(emit(test, "Pop"), "LeftBrace"))
    IN patch_jump(emit_jump_to(body, "Jump", Len(p.f.code)), test)

RECURSIVE parameters(_)
parameters(p) ==
    LET q == Declare(consume(p, "Identifier"), PeekText(p))
    IN IF matches(q, "Comma") THEN parameters(Advance(q)) ELSE consume(q, "RightParen")

\* The body is compiled as a function of its own, whose first local it is itself;
\* its scope ends without a return.
function_decl(p) ==
    LET name == PeekText(p)
        start == consume(p, "Identifier")
        inner == Declare(begin_scope([start EXCEPT !.f = NewFunction, !.outer = <<p.f>> \o @]), name)
        open == consume(inner, "LeftParen")
        params == IF matches(open, "RightParen") THEN Advance(open) ELSE parameters(open)
        body == end_scope(statements(consume(params, "LeftBrace")))
        chunk == [code |-> body.f.code, constants |-> body.f.constants]
        back == [body EXCEPT !.f = Head(body.outer), !.outer = Tail(@)]
    IN DefineGlobal(WithConstant(back, "Constant", <<"Function", chunk>>), name)

return_statement(p) ==
    IF matches(p, "Semicolon") THEN emit(emit(Advance(p), "Unit"), "Return")
    ELSE emit(consume(expression(p, 0), "Semicolon"), "Return")

expression_statement(p) ==
    LET q == expression(p, 0)
    IN IF matches(q, "Semicolon") THEN emit(Advance(q), "Pop") ELSE q

statement(p) ==
    LET q == Advance(p)
    IN CASE matches(p, "Let") -> let_statement(q)
         [] matches(p, "LeftBrace") -> block(q)
         [] matches(p, "If") -> if_statement(q)
         [] matches(p, "While") -> while_statement(q)
         [] matches(p, "Fn") -> function_decl(q)
         [] matches(p, "Return") -> return_statement(q)
         [] OTHER -> expression_statement(p)

\* Parser::parse: the chunk of the script, and whether the parse failed.
RECURSIVE script(_)
script(p) == IF Parsing(p) /\ PeekType(p) # "End" THEN script(statement(p)) ELSE p

parse(source) ==
    LET p == emit(script(Parser(source)), "Return")
    IN [failed |-> p.failed, chunk |-> [code |-> p.f.code, constants |-> p.f.constants]]

=============================================================================
