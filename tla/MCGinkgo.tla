------------------------------ MODULE MCGinkgo ------------------------------
(***************************************************************************)
(* Ginkgo sessions.  Scripts: every pair of operators grouped both ways,   *)
(* the repository's own scripts, and sessions with globals, scopes, loops  *)
(* and calls, on both sides of the limits that the machine has.  Misfits:  *)
(* lines that mean nothing.                                                *)
(***************************************************************************)
EXTENDS GinkgoVm

MCLetters ==
    {"a", "b", "c", "d", "f", "g", "i", "x", "y", "z", "n", "o", "let", "ter", "if", "else", "while",
     "true", "false", "return", "fn", "print", "foo", "bar", "var", "min", "max", "fib", "up", "to", "temp"}

N(d) == IntE(<<d>>)
V(x) == VarE(<<x>>)
Say(e) == ExprS(CallE(<<"print">>, <<e>>))
Set(x, e) == ExprS(AssignE(<<x>>, e))
Zero == IntE(<<"0", "x", "0">>)
Less == <<"<">>
Minus == <<"-">>
Plus == <<"+">>

IntegerOperators == {Plus, Minus, <<"*">>, <<"/">>, <<"&">>, <<"|">>, <<"^">>}
Comparators == {<<"=", "=">>, <<"!", "=">>, Less, <<"<", "=">>, <<">">>, <<">", "=">>}
Connectives == {<<"&", "&">>, <<"|", "|">>}

\* Two operators, with either the first or the second applied first.
Grouped(ops, other, x, y, z) ==
    { BinE(o, BinE(p, x, y), z) : o \in ops, p \in other }
    \cup { BinE(o, z, BinE(p, x, y)) : o \in ops, p \in other }

SingleExpressions ==
    Grouped(IntegerOperators, IntegerOperators, N("7"), N("3"), N("2"))
    \cup (UNION { Grouped(Connectives, Connectives, BoolE(a), BoolE(b), BoolE(c)) :
                    a \in BOOLEAN, b \in BOOLEAN, c \in BOOLEAN })
    \cup (UNION { Grouped(Connectives, Comparators, N("3"), N("2"), BoolE(c)) : c \in BOOLEAN })
    \cup Grouped({Minus, Less}, {Plus}, NegE(N("7")), NegE(BinE(Minus, N("3"), N("4"))), N("2"))

\* fn foo(x, y) { let z = x + y; return z + 5; }
Foo == FnS(<<"foo">>, <<<<"x">>, <<"y">>>>,
           <<LetS(<<"z">>, BinE(Plus, V("x"), V("y"))), ReturnS(BinE(Plus, V("z"), N("5")))>>)

\* examples/function.ginkgo
Function ==
    << <<Foo,
         FnS(<<"bar">>, <<<<"x">>>>,
             <<LetS(<<"bar", "_", "var">>, CallE(<<"foo">>, <<V("x"), N("4")>>)),
               ReturnS(VarE(<<"bar", "_", "var">>))>>),
         LetS(<<"x">>, CallE(<<"bar">>, <<N("7")>>))>> >>

\* A global shadowed by locals of blocks and by parameters.
Shadowing ==
    << <<LetS(<<"a">>, N("1"))>>,
       <<BlockS(<<LetS(<<"b">>, N("2")), LetS(<<"c">>, BinE(Plus, V("b"), V("a"))),
                  BlockS(<<LetS(<<"a">>, N("5")), LetS(<<"b">>, V("a")),
                           Say(BinE(<<"*">>, V("b"), V("c")))>>),
                  Say(V("b")), Say(V("a"))>>)>>,
       <<FnS(<<"f">>, <<<<"a">>>>, <<LetS(<<"b">>, V("a")), ReturnS(BinE(Minus, V("b"), V("a")))>>)>>,
       <<Say(CallE(<<"f">>, <<N("9")>>)), Say(V("a"))>> >>

\* A loop that calls a function, and both branches of an if.
Looping ==
    << <<FnS(<<"g">>, <<<<"n">>>>,
             <<IfS(BinE(Less, V("n"), N("3")), <<ReturnS(N("1"))>>, <<>>), ReturnS(V("n"))>>)>>,
       <<LetS(<<"a">>, N("4")), LetS(<<"b">>, N("1"))>>,
       <<WhileS(BinE(<<">">>, V("a"), N("1")),
                <<IfS(BinE(<<"=", "=">>, V("a"), N("3")),
                      <<Say(V("a"))>>, <<ExprS(AssignE(<<"b">>, CallE(<<"g">>, <<V("a")>>)))>>),
                  ExprS(AssignE(<<"a">>, BinE(Minus, V("a"), N("1"))))>>)>>,
       <<Say(V("b"))>> >>

\* Literals of every base, an identifier that starts with a keyword, and an
\* assignment in an assignment.
Spelling ==
    << <<LetS(<<"a">>, IntE(<<"0", "x", "1", "f">>)), LetS(<<"c">>, IntE(<<"0", "b", "1", "0">>))>>,
       <<LetS(<<"let", "ter">>, NegE(IntE(<<"0", "o", "1", "7">>)))>>,
       <<ExprS(AssignE(<<"a">>, AssignE(<<"let", "ter">>,
             BinE(Minus, V("a"), VarE(<<"let", "ter">>)))))>>,
       <<Say(BinE(Plus, V("a"), V("c")))>> >>

\* examples/while.ginkgo, with any way to write its first number, and to 2.
While(zero) ==
    <<LetS(<<"i">>, zero),
      WhileS(BinE(<<"<", "=">>, V("i"), N("2")), <<Say(V("i")), Set("i", BinE(Plus, V("i"), N("1")))>>)>>

\* test.ginkgo, likewise.
Test(zero) ==
    <<LetS(<<"x">>, N("4")), LetS(<<"foo">>, zero),
      IfS(BinE(<<">">>, V("x"), N("8")), <<Set("foo", N("1"))>>, <<Set("foo", N("2"))>>)>>

\* examples/fibonacci.ginkgo, up to 10.
UpTo == <<"up", "_", "to">>
Fibonacci ==
    <<FnS(<<"fib">>, <<UpTo>>,
          <<LetS(<<"a">>, N("0")), LetS(<<"temp">>, N("0")), LetS(<<"b">>, N("1")),
            WhileS(BinE(Less, V("a"), VarE(UpTo)),
                   <<Say(V("a")), Set("temp", V("a")), Set("a", V("b")),
                     Set("b", BinE(Plus, V("temp"), V("b")))>>)>>),
      ExprS(CallE(<<"fib">>, <<IntE(<<"1", "0">>)>>))>>

\* The console's prelude.
Choice(name, op) ==
    FnS(<<name>>, <<<<"a">>, <<"b">>>>,
        <<IfS(BinE(op, V("a"), V("b")), <<ReturnS(V("a"))>>, <<ReturnS(V("b"))>>)>>)
Prelude ==
    << <<Choice("min", Less), Choice("max", <<">">>)>>,
       <<Say(CallE(<<"min">>, <<N("3"), CallE(<<"max">>, <<N("2"), N("1")>>)>>))>> >>

\* A block with a local, and a loop that ends at once.
Block == BlockS(<<LetS(<<"b">>, N("3")), Say(V("b"))>>)
NoLoop == WhileS(BoolE(FALSE), <<>>)

\* fn d(n) { if n < 2 { return 1; } return d(n - 1) + n; }
Descent ==
    FnS(<<"d">>, <<<<"n">>>>,
        <<IfS(BinE(Less, V("n"), N("2")), <<ReturnS(N("1"))>>, <<>>),
          ReturnS(BinE(Plus, CallE(<<"d">>, <<BinE(Minus, V("n"), N("1"))>>), V("n")))>>)

\* A function that sums up to a number, by loops in a loop, and returns from it.
Summing ==
    FnS(<<"f">>, <<<<"n">>>>,
        <<WhileS(BoolE(TRUE),
            <<WhileS(BinE(Less, V("a"), V("n")), <<LetS(<<"b">>, V("a")), Set("a", BinE(Plus, V("b"), N("2")))>>),
              IfS(BinE(Less, N("5"), V("a")), <<ReturnS(V("a"))>>, <<Set("a", BinE(Plus, V("a"), N("1")))>>)>>)>>)

\* What goes beyond a limit by a little, each as the first of two lines: the
\* second is fine by itself.
Limits ==
    { <<BlockS(<<LetS(<<"a">>, N("1")), Set("a", N("2")), Say(V("a"))>>)>>,
      <<LetS(<<"a">>, N("1")), BlockS(<<LetS(<<"a">>, V("a"))>>)>>,
      <<NoLoop>>, <<BlockS(<<NoLoop, LetS(<<"a">>, N("1")), Say(V("a"))>>)>>,
      <<BlockS(<<LetS(<<"a">>, N("1")), NoLoop, Say(V("a"))>>)>>,
      <<BlockS(<<FnS(<<"f">>, <<>>, <<ReturnS(N("1"))>>), LetS(<<"a">>, N("1")), Say(V("a"))>>)>>,
      <<FnS(<<"f">>, <<>>, <<>>), ExprS(CallE(<<"f">>, <<>>))>>,
      <<ReturnS(N("1"))>>,
      <<Descent, LetS(<<"a">>, CallE(<<"d">>, <<N("3")>>))>>,
      <<Descent, Say(CallE(<<"d">>, <<N("2")>>))>> }

MCScripts ==
    { << <<LetS(<<"a">>, e)>> >> : e \in SingleExpressions }
    \cup {Function, Shadowing, Looping, Spelling, Prelude, <<Fibonacci>>}
    \cup { <<While(zero), <<Say(V("i"))>> >> : zero \in {N("0"), Zero} }
    \cup { <<Test(zero), <<Block>> >> : zero \in {N("0"), Zero} }
    \cup { <<first, <<Block>> >> : first \in Limits }
    \cup { << <<Descent, LetS(<<"a">>, CallE(<<"d">>, <<N("2")>>))>>, <<Block>> >>,
           << <<LetS(<<"a">>, N("1")), Summing>>, <<LetS(<<"b">>, CallE(<<"f">>, <<N("4")>>)), Block>> >>,
           << <<Foo>>, <<Say(CallE(<<"foo">>, <<N("1"), CallE(<<"foo">>, <<N("1"), N("2")>>)>>))>>, <<Block>> >> }

Words(ws) == <<WordsS([i \in DOMAIN ws |-> <<ws[i]>>])>>

MCMisfits ==
    { << Words(ws), <<Say(N("1"))>> >> : ws \in
        { <<"print", "(", "x", ")", ";">>, <<"x", "=", "1", ";">>, <<"1", "=", "2", ";">>,
          <<"-", "true", ";">>, <<"1", "+", "true", ";">>, <<"1", "/", "(", "1", "-", "1", ")", ";">>,
          <<"if", "1", "{", "}">>, <<"1", "(", "2", ")">>, <<"print", "(", ")">>, <<"return", ";">>,
          <<"\"", "x", "\"", "<", "\"", "x", "\"">>, <<"\"", "x">>,
          <<"1", "?">>, <<"let", "1">>, <<"(", "1", ";">>, <<"1", ".", "5">>, <<"true", "<", "false">>,
          <<"true", "=", "=", "1">>, <<"print", "=", "=", "print">> } }
    \cup { << <<WordsS(<<number>>)>>, <<Say(N("1"))>> >> :
             number \in { <<"0", "x">>, <<"1", "b", "1">> } }
=============================================================================
