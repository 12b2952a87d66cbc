----------------------------- MODULE MCMachine ------------------------------
EXTENDS Machine

Line(k)       == [k |-> k]
Let(x, e)     == [k |-> "assign", x |-> x, e |-> e]
Decl(t, x, e) == [k |-> "declare", t |-> t, x |-> x, e |-> e]
When(e)       == [k |-> "if", e |-> e]
Give(e)       == [k |-> "return", e |-> e]
Say(args)     == [k |-> "print", args |-> args]
Do(e)         == [k |-> "expr", e |-> e]
X == Var("x")

Functions == [f |-> [params |-> <<"x">>, lines |-> <<Give(Bin("sub", X, Var("y")))>>],
              g |-> [params |-> <<"a", "b">>,
                     lines |-> <<Give(Bin("sub", Var("a"), Var("b")))>>]]
Main(ls) == [h \in {"main", "f", "g"} |->
               IF h = "main" THEN [params |-> <<>>, lines |-> ls] ELSE Functions[h]]

\* Every way to nest the lines of control, up to four of them or four in a block,
\* and to leave them without a value.
Kinds == {Line(k) : k \in {"else", "endif", "loop", "endloop", "break", "continue"}}
         \cup {When(X), Let("x", Bin("sub", Num(1), X)), Give(X)}
Nestings(n) == [1..n -> Kinds]
Control == {<<Let("x", Num(1))>> \o s :
              s \in UNION {Nestings(n) : n \in 1..3}
                    \cup {<<Line("loop")>> \o t \o <<Line("endloop")>> : t \in Nestings(4)}
                    \cup {<<When(X)>> \o t \o <<Line("endif")>> : t \in Nestings(3)}
                    \cup [1..3 -> {Line("return"), Line("loop"), Line("endloop"), When(X),
                                   Line("endif"), Let("x", Num(0))}]}

\* Every expression of depth two over these leaves, operations and calls.
Leaves == {X, Num(1)}
Ops == {"sub", "lt", "and", "or"}
Grow(S) == {Bin(op, l, r) : op \in Ops, l \in S, r \in S} \cup {Neg(e) : e \in S}
           \cup {Call("f", <<e>>) : e \in S} \cup {Call("g", <<l, r>>) : l \in S, r \in S}
Expressions == {<<Let("x", Num(3)), Let("y", e), Say(<<Var("y"), X>>), Give(Var("y"))>> :
                  e \in Grow(Leaves \cup Grow(Leaves))}

\* Declarations, texts, memory, overflow and the limits of frames and calls.
Texts == {<<Say(<<Str(1), Str(2)>>), When(Bin(op, Str(1), Str(2))), Say(<<Num(1), Num(5000)>>),
            Line("endif"), Give(Str(1))>> : op \in {"lt", "eq"}}
Declarations == {<<Decl(t, "x", e), Let("x", d), Say(<<X>>), Give(Neg(X))>> :
                   t \in {"int", "bool", "double"}, e \in {Num(2), Bin("lt", Num(1), Num(2)), Num(7)},
                   d \in {Num(0), Bin("mul", X, Num(7)), Bin("add", X, X), Str(1)}}
Memory == {<<Do(Call("write", <<Num(a), e>>)), Let("x", Call("read", <<Num(4)>>)),
             Let("y", Call("compare", <<Num(4), Num(5), Num(1)>>)), Give(Bin("div", Var("y"), X))>> :
             a \in {4, 5, 6}, e \in {Num(3), Neg(Call("g", <<Num(1), Num(3)>>))}}
\* Reads and comparisons of memory inside of every kind of expression.
Peek == {Call("read", <<Num(4)>>), Call("compare", <<Num(4), X, Num(1)>>)}
Around(S, T) == {Bin("sub", l, r) : l \in S, r \in T} \cup {Call("f", <<e>>) : e \in S}
                \cup {Call("g", <<l, r>>) : l \in S, r \in T} \cup {Neg(e) : e \in S}
                \cup {Call("read", <<e>>) : e \in S}
                \cup {Call("compare", <<l, r, Num(1)>>) : l \in S, r \in T}
Simple == Leaves \cup Peek
Nested == {<<Let("x", Num(5)), Do(Call("write", <<Num(4), X>>)), Let("y", e), Say(<<e>>),
             Do(Call("write", <<Num(5), e>>)), Do(Call("write", <<e, Num(2)>>)),
             Give(Call("compare", <<Num(4), X, Num(1)>>))>> :
             e \in Around(Simple, Simple) \cup Around(Around(Simple, Peek), Leaves)
                   \cup Around(Leaves, Around(Simple, Simple))}
\* Sides that fail, decided and not.
Failing == {<<Let("x", Bin(op, Num(n), Bin("div", Num(1), Num(0)))), Say(<<X>>), When(Bin(op, Num(n), X)),
               Say(<<Num(1)>>), Line("endif")>> : op \in {"and", "or", "sub", "lt"}, n \in {0, 1}}
Deep(n) == LET e[i \in 0..n] == IF i = 0 THEN X ELSE Bin("sub", Num(1), e[i - 1]) IN e[n]
Calls(n) == LET e[i \in 0..n] == IF i = 0 THEN X ELSE Call("f", <<e[i - 1]>>) IN e[n]
Limits == {<<Let("x", e)>> : e \in {Deep(n) : n \in 1..6} \cup {Calls(n) : n \in 1..7}
                               \cup {Call("g", <<X>>), Call("g", <<X, X, X>>), Call("h", <<>>),
                                     Bin("sub", Str(1), X), Call("read", <<>>)}}

NumericPrograms == {Main(s) : s \in Control \cup Expressions \cup Texts
                                    \cup Declarations \cup Memory \cup Nested \cup Failing
                                    \cup Limits}

\* Two variables that hold texts, joined.
TextPrograms == {Main(<<Decl("text", "x", Str(1)), Decl("text", "y", Str(2)),
                        Let("y", Bin("add", X, Var("y")))>>)}

MCLiterals == <<<<"a">>, <<"b", "c">>>>

=============================================================================
