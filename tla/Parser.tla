------------------------------- MODULE Parser -------------------------------
(* The expression parser of the language (رياضيات.c): recursive descent over *)
(* one line, each level calling the next tighter one.  A text is a sequence  *)
(* of tokens; the spelling of numbers, names and texts is left out.  A tree   *)
(* is a tuple: its operation and its children.                                *)
EXTENDS Integers, Sequences

\* The operators of each left-associative level, tightest first.
Operators == << {"*", "/", "%"}, {"+", "-"}, {"<<", ">>"}, {"&"}, {"^"}, {"|"},
                {"&&"}, {"||"} >>

\* They do not associate: one comparison to an expression.
Comparisons == {"==", "!=", ">=", "<=", ">", "<"}

Names == {"x", "f"}
Numbers == {"1"}

\* Where parsing stands: the tree so far, the next token, and whether it failed.
At(tree, i) == [tree |-> tree, next |-> i, ok |-> TRUE]
Failed      == [tree |-> <<>>, next |-> 0, ok |-> FALSE]

Sees(ts, i, S) == i <= Len(ts) /\ ts[i] \in S

RECURSIVE parse_comparison(_, _), parse_level(_, _, _), parse_factor(_, _)

\* Comma-separated expressions from i up to the token close.
RECURSIVE parse_list(_, _, _, _)
parse_list(ts, i, close, done) ==
    LET e == parse_comparison(ts, i)
    IN  CASE ~e.ok -> Failed
          [] Sees(ts, e.next, {close}) -> At(Append(done, e.tree), e.next + 1)
          [] Sees(ts, e.next, {","}) ->
               parse_list(ts, e.next + 1, close, Append(done, e.tree))
          [] OTHER -> Failed

\* What stands between brackets that open at i, under the name op.
Bracketed(ts, i, op, close) ==
    IF Sees(ts, i + 1, {close}) THEN At(<<op>>, i + 2)
    ELSE LET r == parse_list(ts, i + 1, close, <<op>>)
         IN  IF r.ok THEN r ELSE Failed

parse_function_call(ts, i) == Bracketed(ts, i + 1, <<"call", ts[i]>>, ")")
parse_array_literal(ts, i) == Bracketed(ts, i, <<"array">>, "}")

parse_factor(ts, i) ==
    CASE Sees(ts, i, {"("}) ->
           LET e == parse_comparison(ts, i + 1)
           IN  IF e.ok /\ Sees(ts, e.next, {")"}) THEN At(e.tree, e.next + 1) ELSE Failed
      [] Sees(ts, i, {"{"}) -> parse_array_literal(ts, i)
      [] Sees(ts, i, {"-"}) ->
           LET e == parse_factor(ts, i + 1)
           IN  IF e.ok THEN At(<<<<"neg">>, e.tree>>, e.next) ELSE Failed
      [] Sees(ts, i, Numbers) -> At(<<<<ts[i]>>>>, i + 1)
      [] Sees(ts, i, Names) /\ Sees(ts, i + 1, {"("}) -> parse_function_call(ts, i)
      [] Sees(ts, i, Names) -> At(<<<<ts[i]>>>>, i + 1)
      [] OTHER -> Failed

\* A right operand of the same level would make the level right-associative.
RECURSIVE parse_rest_right(_, _, _)
parse_rest_right(ts, level, left) ==
    IF ~left.ok \/ ~Sees(ts, left.next, Operators[level]) THEN left
    ELSE LET right == parse_level(ts, level, left.next + 1)
         IN  IF right.ok THEN At(<<<<ts[left.next]>>, left.tree, right.tree>>, right.next)
             ELSE Failed

\* The while loop of a level: right operands are of the next tighter level.
RECURSIVE parse_rest(_, _, _)
parse_rest(ts, level, left) ==
    IF ~left.ok \/ ~Sees(ts, left.next, Operators[level]) THEN left
    ELSE LET right == parse_level(ts, level - 1, left.next + 1)
         IN  IF right.ok
             THEN parse_rest(ts, level,
                      At(<<<<ts[left.next]>>, left.tree, right.tree>>, right.next))
             ELSE Failed

\* parse_term, math_parse_expression, parse_shift ... parse_logical_or.
parse_level(ts, level, i) ==
    IF level = 0 THEN parse_factor(ts, i)
    ELSE parse_rest(ts, level, parse_level(ts, level - 1, i))

parse_comparison(ts, i) ==
    LET left == parse_level(ts, 8, i)
        right == parse_level(ts, 8, left.next + 1)
    IN  CASE ~left.ok \/ ~Sees(ts, left.next, Comparisons) -> left
          [] right.ok -> At(<<<<ts[left.next]>>, left.tree, right.tree>>, right.next)
          [] OTHER -> Failed

\* The tree of a line, <<>> if it has none: nothing may be left over.
math_parse_ast(ts) ==
    LET e == parse_comparison(ts, 1)
    IN  IF e.ok /\ e.next = Len(ts) + 1 THEN e.tree ELSE <<>>

----------------------------------------------------------------------------
(* The grammar the levels are meant to give, without saying how to parse:     *)
(* every tree of the tokens a..b.                                             *)

RECURSIVE Comparison(_, _, _), Level(_, _, _, _), Atom(_, _, _), List(_, _, _)

Trees(op, L, R) == {<<<<op>>, l, r>> : l \in L, r \in R}

Level(ts, level, a, b) ==
    IF level = 0 THEN Atom(ts, a, b)
    ELSE Level(ts, level - 1, a, b)
         \cup UNION {Trees(ts[i], Level(ts, level, a, i - 1), Level(ts, level - 1, i + 1, b)) :
                       i \in {j \in a + 1..b - 1 : ts[j] \in Operators[level]}}

Comparison(ts, a, b) ==
    Level(ts, 8, a, b)
    \cup UNION {Trees(ts[i], Level(ts, 8, a, i - 1), Level(ts, 8, i + 1, b)) :
                  i \in {j \in a + 1..b - 1 : ts[j] \in Comparisons}}

\* Sequences of expressions between commas.
List(ts, a, b) ==
    {<<t>> : t \in Comparison(ts, a, b)}
    \cup UNION {{Append(s, t) : s \in List(ts, a, i - 1), t \in Comparison(ts, i + 1, b)} :
                  i \in {j \in a + 1..b - 1 : ts[j] = ","}}

Within(ts, a, b, op) == IF a > b THEN {<<op>>}
                        ELSE {<<op>> \o s : s \in List(ts, a, b)}

Atom(ts, a, b) ==
    CASE a > b -> {}
      [] a = b -> IF ts[a] \in Names \cup Numbers THEN {<<<<ts[a]>>>>} ELSE {}
      [] ts[a] = "-" -> {<<<<"neg">>, t>> : t \in Atom(ts, a + 1, b)}
      [] ts[a] = "(" /\ ts[b] = ")" -> Comparison(ts, a + 1, b - 1)
      [] ts[a] = "{" /\ ts[b] = "}" -> Within(ts, a + 1, b - 1, <<"array">>)
      [] ts[a] \in Names /\ ts[a + 1] = "(" /\ ts[b] = ")" ->
           Within(ts, a + 2, b - 1, <<"call", ts[a]>>)
      [] OTHER -> {}

\* A line has the tree the grammar gives it, and an expression is refused
\* exactly when the grammar has none (math_parse_ast): no operator binds
\* tighter, associates or ends an argument differently from the levels.
ParsesByGrammar(ts) ==
    Comparison(ts, 1, Len(ts)) = IF math_parse_ast(ts) = <<>> THEN {} ELSE {math_parse_ast(ts)}

=============================================================================
