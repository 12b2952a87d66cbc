------------------------------- MODULE Source -------------------------------
(* What happens to the text of a script before it is compiled: comments are  *)
(* removed (التعليقات.c), lines with open brackets are joined with the next   *)
(* and lines of several statements are split (لغة.c).  Letters stand for      *)
(* everything that is neither a bracket, an operator, a quote nor a space;    *)
(* kw is a keyword that is a statement by itself.                             *)
EXTENDS Integers, Sequences, FiniteSets, SequencesExt

Quote == "q"
Newline == "nl"
Semi == ";"
Keyword == "kw"
Space == " "

ArithmeticOps == {"+", ","}
Opening == {"(", "{"}
Closing == {")", "}"}

----------------------------------------------------------------------------
(* comment_remove *)

is_open(s, i)  == i < Len(s) /\ s[i] = Semi /\ s[i + 1] = "*"
is_close(s, i) == i < Len(s) /\ s[i] = "*" /\ s[i + 1] = Semi

\* The first newline from i on, or the end.
LineEnd(s, i) == CHOOSE j \in i..Len(s) + 1 :
                    /\ j = Len(s) + 1 \/ s[j] = Newline
                    /\ \A k \in i..j - 1 : s[k] # Newline

CloseAll(depth) == 0
CloseOne(depth) == depth - 1

\* The text from i on, at a depth of comments, inside a string or not.  An
\* unclosed comment is an error, told by a last symbol that no script has.
Unclosed == "unclosed"
RECURSIVE comment_remove(_, _, _, _)
comment_remove(s, i, depth, in_string) ==
    CASE i > Len(s) -> IF depth > 0 THEN <<Unclosed>> ELSE <<>>
      [] i <= Len(s) /\ depth > 0 ->
           CASE is_close(s, i) -> comment_remove(s, i + 2, CloseOne(depth), FALSE)
             [] is_open(s, i) -> comment_remove(s, i + 2, depth + 1, FALSE)
             [] OTHER -> comment_remove(s, i + 1, depth, FALSE)
      [] i <= Len(s) /\ depth = 0 ->
           CASE in_string \/ s[i] = Quote ->
                  <<s[i]>> \o comment_remove(s, i + 1, 0, in_string # (s[i] = Quote))
             [] is_open(s, i) -> comment_remove(s, i + 2, 1, FALSE)
             [] s[i] = Semi -> comment_remove(s, LineEnd(s, i), 0, FALSE)
             [] OTHER -> <<s[i]>> \o comment_remove(s, i + 1, 0, FALSE)

Cleaned(s) == comment_remove(s, 1, 0, FALSE)

----------------------------------------------------------------------------
(* Lines *)

InString(s, i) == Cardinality({j \in 1..i : s[j] = Quote}) % 2 = 1

count_round_parens(s) ==
    LET d[i \in 0..Len(s)] ==
            IF i = 0 THEN 0
            ELSE CASE s[i] = Quote \/ InString(s, i) -> d[i - 1]
                   [] s[i] = "(" -> d[i - 1] + 1
                   [] s[i] = ")" -> IF d[i - 1] > 0 THEN d[i - 1] - 1 ELSE 0
                   [] OTHER -> d[i - 1]
    IN  d[Len(s)]

\* Open brackets at the end of a line; one that closes nothing counts nothing.
count_unclosed_parens(s) ==
    LET d[i \in 0..Len(s)] ==
            IF i = 0 THEN 0
            ELSE CASE s[i] = Quote \/ InString(s, i) -> d[i - 1]
                   [] s[i] \in Opening -> d[i - 1] + 1
                   [] s[i] \in Closing -> IF d[i - 1] > 0 THEN d[i - 1] - 1 ELSE 0
                   [] OTHER -> d[i - 1]
    IN  d[Len(s)]

LinesOf(s) ==
    FoldLeft(LAMBDA ls, c : IF c = Newline THEN Append(ls, <<>>)
                            ELSE Append(Front(ls), Append(Last(ls), c)),
             <<<<>>>>, s)

\* An incomplete line takes the next one, with a space between.
join_incomplete_lines(lines) ==
    FoldLeft(LAMBDA out, l :
                IF out # <<>> /\ count_unclosed_parens(Last(out)) > 0
                THEN Append(Front(out), Last(out) \o <<Space>> \o l)
                ELSE Append(out, l),
             <<>>, lines)

\* Only parentheses outside strings count here, and a newline is a space.
Depth(s, i) ==
    Cardinality({j \in 1..i : s[j] = "(" /\ ~InString(s, j)})
    - Cardinality({j \in 1..i : s[j] = ")" /\ ~InString(s, j)})

AfterSpaces(s, i) == CHOOSE j \in i..Len(s) + 1 :
                        /\ j = Len(s) + 1 \/ s[j] # Space
                        /\ \A k \in i..j - 1 : s[k] = Space

\* The end of the first statement of s: a lone keyword, or the first closed
\* parenthesis behind which neither an operator nor a parenthesis goes on.
Continues == ArithmeticOps \cup {"(", ")"}
StatementEnds(s) ==
    {i \in DOMAIN s : /\ s[i] = ")" /\ ~InString(s, i) /\ Depth(s, i) = 0
                      /\ LET q == AfterSpaces(s, i + 1)
                         IN  q > Len(s) \/ s[q] \notin Continues}
find_stmt_end(s) ==
    CASE s[1] = Keyword /\ (Len(s) = 1 \/ s[2] = Space) -> 1
      [] StatementEnds(s) # {} -> CHOOSE i \in StatementEnds(s) :
                                     \A j \in StatementEnds(s) : i <= j
      [] OTHER -> Len(s)

RECURSIVE split_line_into_statements(_)
split_line_into_statements(s) ==
    LET p == SubSeq(s, AfterSpaces(s, 1), Len(s))
        n == find_stmt_end(p)
    IN  IF p = <<>> THEN <<>>
        ELSE <<SubSeq(p, 1, n)>> \o split_line_into_statements(SubSeq(p, n + 1, Len(p)))

preprocess_script(lines) ==
    LET joined == join_incomplete_lines(lines)
    IN  FlattenSeq([i \in DOMAIN joined |-> split_line_into_statements(joined[i])])

Statements(s) == preprocess_script(LinesOf(Cleaned(s)))

=============================================================================
