------------------------------ MODULE GinkgoVm ------------------------------
\* The virtual machine of Ginkgo (ginkgo/src/vm.rs) and the session it runs in
\* (ginkgo/src/main.rs): lines are compiled and interpreted one after the other,
\* with the globals, and whatever a line leaves on the stack, kept for the next.
\* One action executes one operation. A program is given as a tree, which is
\* spelled out to be compiled and evaluated directly to say what it means.
EXTENDS GinkgoCompiler, FiniteSets

CONSTANTS
    Scripts,  \* the sessions: sequences of programs that mean something
    Misfits   \* sessions with lines that mean nothing, but for the machine's errors

VARIABLES
    script_of, \* the session
    line,      \* how many of its lines were read
    mode,      \* "idle", "running", "panic"
    vm,        \* stack, chunk, ip, slot_offset, call_stack and globals
    printed,   \* the values print was called with
    meant      \* what the lines so far mean: globals, printed values, and more

gvars == <<script_of, line, mode, vm, printed, meant>>

Native(name) == <<"Native", name>>
UnitValue == <<"Unit", 0>>
Emptiness == [code |-> <<>>, constants |-> <<>>]

\* Vm::new, with print defined.
GinkgoInit ==
    /\ script_of = <<>> /\ line = 0 /\ mode = "idle" /\ printed = <<>>
    /\ vm = [stack |-> <<>>, chunk |-> Emptiness, ip |-> 0, slot |-> 0, calls |-> <<>>,
             globals |-> <<"print">> :> Native("print")]
    /\ meant = [globals |-> <<>>, scopes |-> <<>>, printed |-> <<>>, returned |-> <<>>,
                under |-> 0, calls |-> 0, beyond |-> FALSE]

-----------------------------------------------------------------------------
\* Programs as trees, and how they are spelled. Names are sequences of units.

IntE(digits) == <<"int", digits>>
BoolE(b) == <<"bool", b>>
VarE(x) == <<"var", x>>
NegE(e) == <<"neg", e>>
BinE(op, l, r) == <<"bin", op, l, r>>
AssignE(x, e) == <<"assign", x, e>>
CallE(f, args) == <<"call", f, args>>

LetS(x, e) == <<"let", x, e>>
BlockS(ss) == <<"block", ss>>
IfS(e, ss, tt) == <<"if", e, ss, tt>>
WhileS(e, ss) == <<"while", e, ss>>
FnS(f, params, ss) == <<"fn", f, params, ss>>
ReturnS(e) == <<"return", e>>
ExprS(e) == <<"expr", e>>
WordsS(words) == <<"words", words>>

\* How strongly an expression holds together.
Strength(e) ==
    CASE e[1] = "assign" -> 1
      [] e[1] = "neg" -> 10
      [] e[1] = "bin" ->
           CASE e[2] = <<"|", "|">> -> 2 [] e[2] = <<"&", "&">> -> 3
             [] e[2] \in {<<"=", "=">>, <<"!", "=">>, <<"<">>, <<"<", "=">>, <<">">>, <<">", "=">>} -> 4
             [] e[2] = <<"|">> -> 5 [] e[2] = <<"^">> -> 6 [] e[2] = <<"&">> -> 7
             [] e[2] \in {<<"+">>, <<"-">>} -> 8 [] OTHER -> 9
      [] OTHER -> 11

Joined(ss) ==
    LET upTo[i \in 0 .. Len(ss)] == IF i = 0 THEN <<>> ELSE upTo[i - 1] \o ss[i]
    IN upTo[Len(ss)]

\* The words of a list, with commas between them.
Listing(words) == Joined([i \in DOMAIN words |-> IF i = 1 THEN words[i] ELSE <<<<",">>>> \o words[i]])

RECURSIVE Spelled(_, _), SpelledS(_)

\* The words of an expression, in parentheses where it is weaker than the place
\* asks. All operations of two sides group to the left.
Spelled(e, least) ==
    LET s == Strength(e)
        words ==
          CASE e[1] \in {"int", "var"} -> <<e[2]>>
            [] e[1] = "bool" -> IF e[2] THEN <<<<"true">>>> ELSE <<<<"false">>>>
            [] e[1] = "neg" -> <<<<"-">>>> \o Spelled(e[2], s)
            [] e[1] = "bin" -> Spelled(e[3], s) \o <<e[2]>> \o Spelled(e[4], s + 1)
            [] e[1] = "assign" -> <<e[2], <<"=">>>> \o Spelled(e[3], s)
            [] e[1] = "call" -> <<e[2], <<"(">>>>
                 \o Listing([i \in DOMAIN e[3] |-> Spelled(e[3][i], 0)]) \o <<<<")">>>>
    IN IF s < least THEN <<<<"(">>>> \o words \o <<<<")">>>> ELSE words

Braced(ss) == <<<<"{">>>> \o Joined([i \in DOMAIN ss |-> SpelledS(ss[i])]) \o <<<<"}">>>>

SpelledS(s) ==
    CASE s[1] = "let" -> <<<<"let">>, s[2], <<"=">>>> \o Spelled(s[3], 0) \o <<<<";">>>>
      [] s[1] = "block" -> Braced(s[2])
      [] s[1] = "if" -> <<<<"if">>>> \o Spelled(s[2], 0) \o Braced(s[3])
                        \o (IF s[4] = <<>> THEN <<>> ELSE <<<<"else">>>> \o Braced(s[4]))
      [] s[1] = "while" -> <<<<"while">>>> \o Spelled(s[2], 0) \o Braced(s[3])
      [] s[1] = "fn" -> <<<<"fn">>, s[2], <<"(">>>> \o Listing([i \in DOMAIN s[3] |-> <<s[3][i]>>])
                        \o <<<<")">>>> \o Braced(s[4])
      [] s[1] = "return" -> <<<<"return">>>> \o Spelled(s[2], 0) \o <<<<";">>>>
      [] s[1] = "expr" -> Spelled(s[2], 0) \o <<<<";">>>>
      [] s[1] = "words" -> s[2]

WordsOf(program) == Joined([i \in DOMAIN program |-> SpelledS(program[i])])

\* The source: the words one after the other, with a space only between two that
\* would run together.
Source(program) ==
    LET words == WordsOf(program)
        wordy(w) == w[1] \in WordContinue
    IN Joined([i \in DOMAIN words |->
         IF i > 1 /\ wordy(words[i]) /\ wordy(words[i - 1]) THEN <<" ">> \o words[i] ELSE words[i]])

-----------------------------------------------------------------------------
\* What a program means: a big-step evaluation with scopes. A name is looked for
\* in the scopes of the function from the inside out, then among the globals.
\*
\* The evaluation also finds out whether the program goes beyond the part of the
\* language that the compiler and the machine get right ("beyond"):
\*  - a literal 0, or one that is no number in its base (lex.rs:97-111);
\*  - an assignment to a local (vm.rs:330-334);
\*  - a local whose initial value mentions its own name (parse.rs:73-81);
\*  - a local declared over the condition that a while of the same function, or
\*    of any earlier line, has left on the stack (parse.rs:128-144);
\*  - a function declared inside of a block or of a function (parse.rs:212-224);
\*  - a function that ends without a return, and a return outside of one;
\*  - a call by a function that is not itself at the bottom of the stack, for the
\*    slots of the two are added up (vm.rs:372).
\* For the last one and for while it counts the values, other than locals, that
\* the function has on the stack ("under"), and the calls up to two: one is a
\* function called with nothing below it.

Truncated(a, b) ==
    LET q == (IF a < 0 THEN -a ELSE a) \div (IF b < 0 THEN -b ELSE b)
    IN IF (a < 0) = (b < 0) THEN q ELSE -q

\* What a literal says: the digits after 0x, 0o or 0b, or all of them.
LiteralValue(text) ==
    LET base == IF Len(text) < 3 THEN 10
                ELSE CASE text[2] = "x" -> 16 [] text[2] = "o" -> 8 [] text[2] = "b" -> 2 [] OTHER -> 10
        place(i) == (CHOOSE d \in 1 .. 16 : Digits[d] = text[i]) - 1
        from[i \in 1 .. Len(text) + 1] ==
            IF i > Len(text) THEN 0 ELSE place(i) * base ^ (Len(text) - i) + from[i + 1]
    IN from[IF base = 10 THEN 1 ELSE 3]

\* The bits of two small numbers combined.
Bitwise2(a, b, Keep(_, _)) ==
    LET bits[i \in 0 .. 8] ==
            IF i = 0 THEN 0
            ELSE bits[i - 1] + (IF Keep((a \div 2 ^ (i - 1)) % 2 = 1, (b \div 2 ^ (i - 1)) % 2 = 1)
                                THEN 2 ^ (i - 1) ELSE 0)
    IN bits[8]

Integer(n) == <<"Integer", n>>
Boolean(b) == <<"Bool", b>>

\* The operations on two values of the types they are meant for.
Combined(op, l, r) ==
    LET a == l[2]
        b == r[2]
    IN CASE op = "Add" -> Integer(a + b)
         [] op = "Subtract" -> Integer(a - b)
         [] op = "Multiply" -> Integer(a * b)
         [] op = "Divide" -> Integer(Truncated(a, b))
         [] op = "BitwiseAnd" -> Integer(Bitwise2(a, b, LAMBDA x, y : x /\ y))
         [] op = "BitwiseOr" -> Integer(Bitwise2(a, b, LAMBDA x, y : x \/ y))
         [] op = "BitwiseXor" -> Integer(Bitwise2(a, b, LAMBDA x, y : x # y))
         [] op = "Equal" -> Boolean(a = b)
         [] op = "NotEqual" -> Boolean(a # b)
         [] op = "LessThan" -> Boolean(a < b)
         [] op = "LessEqual" -> Boolean(a <= b)
         [] op = "GreaterThan" -> Boolean(a > b)
         [] op = "GreaterEqual" -> Boolean(a >= b)

\* The operation of an operator's spelling.
OperationOf(text) == binary_op[IF Len(text) = 2 THEN Pairs[text] ELSE Symbols[text[1]]]

\* The innermost scope that has a name, 0 for the globals.
ScopeOf(env, x) ==
    LET having == { i \in DOMAIN env.scopes : x \in DOMAIN env.scopes[i] }
    IN IF having = {} THEN 0 ELSE CHOOSE i \in having : \A j \in having : j <= i

Bound(env, x, v) ==
    LET i == ScopeOf(env, x)
    IN IF i = 0 THEN [env EXCEPT !.globals = (x :> v) @@ @]
       ELSE [env EXCEPT !.scopes[i] = (x :> v) @@ @]

Introduced(env, x, v) ==
    IF env.scopes = <<>> THEN [env EXCEPT !.globals = (x :> v) @@ @]
    ELSE [env EXCEPT !.scopes[Len(env.scopes)] = (x :> v) @@ @]

\* A word of a program that the lexer takes for a number, and that is none.
NoNumber(word) == word[1] \in DigitsOf(10) /\ ~IsNumber(word)

RECURSIVE Mentions(_, _)
Mentions(e, x) ==
    CASE e[1] = "var" -> e[2] = x
      [] e[1] = "neg" -> Mentions(e[2], x)
      [] e[1] = "assign" -> e[2] = x \/ Mentions(e[3], x)
      [] e[1] = "bin" -> Mentions(e[3], x) \/ Mentions(e[4], x)
      [] e[1] = "call" -> e[2] = x \/ \E i \in DOMAIN e[3] : Mentions(e[3][i], x)
      [] OTHER -> FALSE

Beyond(env, condition) == [env EXCEPT !.beyond = @ \/ condition]

\* With some more values on the stack.
Over(env, n) == [env EXCEPT !.under = @ + n]

\* Nothing is on the stack.
Bare(env) == env.calls = 0 /\ env.under = 0 /\ \A i \in DOMAIN env.scopes : DOMAIN env.scopes[i] = {}

RECURSIVE Eval(_, _), EvalArgs(_, _, _), Run(_, _), RunAll(_, _)

\* The value of an expression and the environment after it.
Eval(e, env) ==
    CASE e[1] = "int" -> [v |-> Integer(LiteralValue(e[2])), env |-> env]
      [] e[1] = "bool" -> [v |-> Boolean(e[2]), env |-> env]
      [] e[1] = "var" ->
           [v |-> IF ScopeOf(env, e[2]) = 0 THEN env.globals[e[2]]
                  ELSE env.scopes[ScopeOf(env, e[2])][e[2]], env |-> env]
      [] e[1] = "neg" -> LET x == Eval(e[2], env) IN [x EXCEPT !.v = Integer(-x.v[2])]
      [] e[1] = "assign" ->
           LET x == Eval(e[3], env)
           IN [v |-> x.v, env |-> Beyond(Bound(x.env, e[2], x.v), ScopeOf(env, e[2]) # 0)]
      [] e[1] = "bin" ->
           LET l == Eval(e[3], env)
               decided == \/ e[2] = <<"&", "&">> /\ ~l.v[2]
                          \/ e[2] = <<"|", "|">> /\ l.v[2]
               r == Eval(e[4], Over(l.env, 1))
           IN IF decided THEN l
              ELSE IF e[2] \in {<<"&", "&">>, <<"|", "|">>} THEN Eval(e[4], l.env)
              ELSE [v |-> Combined(OperationOf(e[2]), l.v, r.v), env |-> Over(r.env, -1)]
      [] e[1] = "call" /\ e[2] = <<"print">> ->
           LET x == Eval(e[3][1], Over(env, 1))
           IN [v |-> UnitValue, env |-> [Over(x.env, -1) EXCEPT !.printed = Append(@, x.v)]]
      [] e[1] = "call" /\ e[2] # <<"print">> ->
           LET args == EvalArgs(e[3], <<>>, Over(env, 1))
               f == env.globals[e[2]]
               params == [x \in { f[2][i] : i \in DOMAIN f[2] } |->
                            args.v[CHOOSE i \in DOMAIN f[2] : f[2][i] = x]]
               start == [args.env EXCEPT !.scopes = <<params>>, !.under = 0,
                                         !.calls = IF Bare(env) THEN 1 ELSE 2]
               end == RunAll(f[3], Beyond(start, env.calls = 2))
           IN [v |-> IF end.returned = <<>> THEN UnitValue ELSE end.returned[1],
               env |-> Beyond([end EXCEPT !.scopes = env.scopes, !.returned = <<>>,
                                          !.under = env.under, !.calls = env.calls],
                              end.returned = <<>>)]

EvalArgs(es, vs, env) ==
    IF Len(vs) = Len(es) THEN [v |-> vs, env |-> env]
    ELSE LET x == Eval(es[Len(vs) + 1], env) IN EvalArgs(es, Append(vs, x.v), Over(x.env, 1))

\* A block has a scope of its own.
Scoped(ss, env) ==
    LET end == RunAll(ss, [env EXCEPT !.scopes = Append(@, <<>>)])
    IN [end EXCEPT !.scopes = SubSeq(@, 1, Len(env.scopes))]

Run(s, env) ==
    CASE s[1] = "let" ->
           LET x == Eval(s[3], env)
           IN Beyond(Introduced(x.env, s[2], x.v),
                     env.scopes # <<>> /\ (env.under > 0 \/ Mentions(s[3], s[2])))
      [] s[1] = "expr" -> Eval(s[2], env).env
      [] s[1] = "block" -> Scoped(s[2], env)
      [] s[1] = "if" -> LET x == Eval(s[2], env) IN Scoped(IF x.v[2] THEN s[3] ELSE s[4], x.env)
      [] s[1] = "while" ->
           LET x == Eval(s[2], env)
               once == Scoped(s[3], x.env)
           IN IF ~x.v[2] THEN Over(x.env, 1) ELSE IF once.returned # <<>> THEN once ELSE Run(s, once)
      [] s[1] = "fn" -> Beyond(Introduced(env, s[2], <<"fn", s[3], s[4]>>), env.scopes # <<>>)
      [] s[1] = "return" ->
           LET x == Eval(s[2], env) IN Beyond([x.env EXCEPT !.returned = <<x.v>>], env.calls = 0)

RunAll(ss, env) ==
    IF ss = <<>> \/ env.returned # <<>> THEN env ELSE RunAll(Tail(ss), Run(Head(ss), env))

-----------------------------------------------------------------------------
\* The virtual machine.

\* A session is chosen.
StartSession(s) ==
    /\ script_of = <<>>
    /\ script_of' = s
    /\ UNCHANGED <<line, mode, vm, printed, meant>>

\* The next line is parsed and, unless that fails, interpreted from its start;
\* everything but the chunk and the ip stays as the last line left it.
ReadLine ==
    /\ mode = "idle" /\ line < Len(script_of)
    /\ line' = line + 1
    /\ LET program == script_of[line + 1]
       IN \E result \in {parse(Source(program))} :
          /\ mode' = CASE result.failed = "no" -> "running" [] result.failed = "error" -> "idle"
                       [] OTHER -> "panic"
          /\ vm' = IF result.failed = "no" THEN [vm EXCEPT !.chunk = result.chunk, !.ip = 0] ELSE vm
          /\ meant' = IF script_of \notin Scripts THEN meant
                      ELSE Beyond(RunAll(program, meant),
                                  \E i \in DOMAIN WordsOf(program) : NoNumber(WordsOf(program)[i]))
    /\ UNCHANGED <<script_of, printed>>

\* The operation at the ip is one of these; Operand is the byte after it.
Executing(ops) ==
    /\ mode = "running" /\ vm.ip < Len(vm.chunk.code)
    /\ \E op \in ops : vm.chunk.code[vm.ip + 1] = Byte(op)

Operand == vm.chunk.code[vm.ip + 2]
Top == vm.stack[Len(vm.stack)]
Below == vm.stack[Len(vm.stack) - 1]
Without(n) == SubSeq(vm.stack, 1, Len(vm.stack) - n)

\* Go on after an operation of some bytes, with another stack.
Continued(bytes, stack) == vm' = [vm EXCEPT !.ip = @ + bytes, !.stack = stack]

quiet == <<script_of, line, printed, meant>>
Goes == UNCHANGED <<mode, quiet>>
Fails(how) == mode' = how /\ UNCHANGED <<vm, quiet>>

PushValue ==
    /\ Executing({"Constant", "True", "False", "Unit"})
    /\ \/ /\ Executing({"Constant"})
          /\ Continued(2, Append(vm.stack, vm.chunk.constants[Operand + 1]))
       \/ Executing({"True"}) /\ Continued(1, Append(vm.stack, Boolean(TRUE)))
       \/ Executing({"False"}) /\ Continued(1, Append(vm.stack, Boolean(FALSE)))
       \/ Executing({"Unit"}) /\ Continued(1, Append(vm.stack, UnitValue))
    /\ Goes

Pop ==
    /\ Executing({"Pop"})
    /\ Continued(1, Without(1))
    /\ Goes

Negate ==
    /\ Executing({"Negate"})
    /\ \/ /\ Top[1] = "Integer"
          /\ Continued(1, Append(Without(1), Integer(-Top[2]))) /\ Goes
       \/ /\ Top[1] # "Integer"
          /\ mode' = "idle" /\ vm' = [vm EXCEPT !.stack = Without(1)] /\ UNCHANGED quiet

Arithmetic == {"Add", "Subtract", "Multiply", "Divide", "BitwiseAnd", "BitwiseOr", "BitwiseXor"}
Comparisons == {"Equal", "NotEqual", "LessThan", "LessEqual", "GreaterThan", "GreaterEqual"}

\* Values of different types are neither equal nor ordered; the order of false
\* and true is that of 0 and 1.
Compared(op, l, r) ==
    CASE op \in {"Equal", "NotEqual"} ->
           Boolean((l[1] = r[1] /\ l[1] # "Unit" /\ l = r) = (op = "Equal"))
      [] l[1] # r[1] \/ l[1] = "Unit" -> Boolean(FALSE)
      [] l[1] = "Integer" -> Combined(op, l, r)
      [] OTHER -> LET number(v) == Integer(IF v[2] THEN 1 ELSE 0)
                  IN Combined(op, number(l), number(r))

\* Operands that are no integers, division by zero, and the order or the equality
\* of objects that are not strings end in a panic.
do_binary_op ==
    /\ Executing(Arithmetic \cup Comparisons)
    /\ LET op == Opcodes[vm.chunk.code[vm.ip + 1] + 1]
           l == Below
           r == Top
           objects == l[1] \notin {"Integer", "Bool", "Unit"} /\ r[1] \notin {"Integer", "Bool", "Unit"}
           defined == \/ /\ op \in Arithmetic /\ l[1] = "Integer" /\ r[1] = "Integer"
                         /\ op = "Divide" => r[2] # 0
                      \/ op \in {"Equal", "NotEqual"} /\ (objects => l[1] = "String")
                      \/ op \in Comparisons \ {"Equal", "NotEqual"} /\ ~objects
       IN \/ /\ defined /\ Goes
             /\ Continued(1, Append(Without(2),
                    IF op \in Arithmetic THEN Combined(op, l, r) ELSE Compared(op, l, r)))
          \/ ~defined /\ Fails("panic")

DefinesGlobal ==
    /\ Executing({"DefineGlobal"})
    /\ vm' = [vm EXCEPT !.ip = @ + 1, !.stack = Without(2), !.globals = (Top[2] :> Below) @@ @]
    /\ Goes

GetGlobal ==
    /\ Executing({"GetGlobal"})
    /\ LET name == vm.chunk.constants[Operand + 1][2]
       IN \/ /\ name \in DOMAIN vm.globals
             /\ Continued(2, Append(vm.stack, vm.globals[name])) /\ Goes
          \/ name \notin DOMAIN vm.globals /\ Fails("idle")

SetGlobal ==
    /\ Executing({"SetGlobal"})
    /\ LET name == vm.chunk.constants[Operand + 1][2]
       IN \/ /\ name \in DOMAIN vm.globals
             /\ vm' = [vm EXCEPT !.ip = @ + 2, !.globals[name] = Top] /\ Goes
          \/ name \notin DOMAIN vm.globals /\ Fails("idle")

GetLocal ==
    /\ Executing({"GetLocal"})
    /\ \/ /\ vm.slot + Operand < Len(vm.stack)
          /\ Continued(2, Append(vm.stack, vm.stack[vm.slot + Operand + 1])) /\ Goes
       \/ vm.slot + Operand >= Len(vm.stack) /\ Fails("panic")

\* The value is inserted before what the slot held, and the slot is one of the
\* whole stack, not of the function's part of it.
SetLocal ==
    /\ Executing({"SetLocal"})
    /\ Continued(2, SubSeq(vm.stack, 1, Operand) \o <<Top>>
                    \o SubSeq(vm.stack, Operand + 1, Len(vm.stack)))
    /\ Goes

\* The distance is from after the operation.
Distance == FromBytes(vm.chunk.code[vm.ip + 2], vm.chunk.code[vm.ip + 3])

Jump ==
    /\ Executing({"Jump"})
    /\ Continued(3 + Distance, vm.stack)
    /\ Goes

\* The condition stays on the stack.
JumpIf ==
    /\ Executing({"JumpIfTrue", "JumpIfFalse"})
    /\ \/ /\ Top[1] = "Bool"
          /\ Continued(3 + (IF Top[2] = Executing({"JumpIfTrue"}) THEN Distance ELSE 0), vm.stack)
          /\ Goes
       \/ Top[1] # "Bool" /\ Fails("idle")

\* The function and its arguments stay on the stack as the first slots.
Call ==
    /\ Executing({"Call"})
    /\ LET base == Len(vm.stack) - Operand - 1
           called == vm.stack[base + 1]
       IN \/ /\ called[1] = "Function"
             /\ vm' = [vm EXCEPT !.chunk = called[2], !.ip = 0, !.slot = @ + base,
                         !.calls = Append(@, [chunk |-> vm.chunk, ip |-> vm.ip + 2, slot |-> vm.slot])]
             /\ Goes
          \/ /\ called[1] = "Native" /\ Operand = 1
             /\ printed' = Append(printed, Top)
             /\ Continued(2, Append(Without(2), UnitValue))
             /\ UNCHANGED <<script_of, line, mode, meant>>
          \/ called[1] = "Native" /\ Operand # 1 /\ Fails("panic")
          \/ called[1] \notin {"Function", "Native"} /\ Fails("idle")

\* The end of a function, or of the line. The stack is cut, or filled up, to
\* where the function was.
Return ==
    /\ Executing({"Return"})
    /\ \/ /\ vm.calls # <<>>
          /\ LET frame == vm.calls[Len(vm.calls)]
             IN vm' = [vm EXCEPT !.stack = [i \in 1 .. vm.slot |->
                                     IF i < Len(vm.stack) THEN vm.stack[i] ELSE UnitValue] \o <<Top>>,
                                 !.chunk = frame.chunk, !.ip = frame.ip, !.slot = frame.slot,
                                 !.calls = SubSeq(@, 1, Len(@) - 1)]
          /\ Goes
       \/ vm.calls = <<>> /\ Fails("idle")

\* There is no operation after the last byte of a function.
RunsOff ==
    /\ mode = "running" /\ vm.ip >= Len(vm.chunk.code)
    /\ Fails("panic")

Interpret ==
    \/ PushValue \/ Pop \/ Negate \/ do_binary_op \/ DefinesGlobal \/ GetGlobal \/ SetGlobal
    \/ GetLocal \/ SetLocal \/ Jump \/ JumpIf \/ Call \/ Return \/ RunsOff

GinkgoNext == (\E s \in Scripts \cup Misfits : StartSession(s)) \/ ReadLine \/ Interpret

-----------------------------------------------------------------------------
\* Properties.

\* Unless the session has gone beyond the part of the language listed above,
\* whenever a line has run, what was printed and every global that is no function
\* are what the lines mean: precedences, short circuits, jumps over both branches
\* and back, scopes, slots of locals and frames of calls come out of one pass of
\* the compiler as the tree of the program says, and a line leaves the machine fit
\* for the next one.
ProgramsMeanWhatTheySay ==
    script_of \in Scripts /\ ~meant.beyond =>
      /\ mode # "panic"
      /\ mode = "idle" =>
           /\ printed = meant.printed
           /\ \A x \in DOMAIN meant.globals :
                meant.globals[x][1] # "fn" =>
                  x \in DOMAIN vm.globals /\ vm.globals[x] = meant.globals[x]

=============================================================================
