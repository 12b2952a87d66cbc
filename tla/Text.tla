-------------------------------- MODULE Text --------------------------------
(* A text is typed symbol by symbol, as an expression for the parser or as a *)
(* script with comments; each prefix is what the program may be given.       *)
EXTENDS Parser, Source, FiniteSets

CONSTANTS Tokens, MaxTokens,        \* of expressions
          Symbols,                  \* of scripts, without their comments
          Comments,                 \* what comments hold
          MaxSymbols                \* symbols of a script and marks of comments

VARIABLES kind,         \* "expression" or "script"
          text,         \* what was typed
          plain         \* a script's text but for the comments

vars == <<kind, text, plain>>

Init == kind \in {"expression", "script"} /\ text = <<>> /\ plain = <<>>

TypeToken ==
    /\ kind = "expression"
    /\ Len(text) < MaxTokens
    /\ \E t \in Tokens : text' = Append(text, t)
    /\ UNCHANGED <<kind, plain>>

Size == Len(plain) + Cardinality({i \in DOMAIN text : text[i] = Semi})
TypeSymbol ==
    /\ kind = "script"
    /\ Size < MaxSymbols
    /\ \E s \in Symbols : text' = Append(text, s) /\ plain' = Append(plain, s)
    /\ UNCHANGED kind

\* A comment is not in a string; one that is not closed ends with its line.
Block(c) == <<Semi, "*">> \o c \o <<"*", Semi>>
TypeComment ==
    /\ kind = "script"
    /\ ~InString(plain, Len(plain))
    /\ Size < MaxSymbols
    /\ \E c \in Comments :
         \/ text' = text \o Block(c) /\ plain' = plain
         \/ /\ ~Contains(c, Newline) /\ (c # <<>> => c[1] # "*")
            /\ text' = text \o <<Semi>> \o c \o <<Newline>>
            /\ plain' = Append(plain, Newline)
    /\ UNCHANGED kind

Next == TypeToken \/ TypeSymbol \/ TypeComment

Spec == Init /\ [][Next]_vars

----------------------------------------------------------------------------

\* The parser gives each line the tree of its grammar (رياضيات.c).
ParserIsGrammar == kind = "expression" => ParsesByGrammar(text)

\* Removing the comments gives the text they were put in, whatever they hold:
\* quotes, line ends or comments (comment_remove).
CommentsVanish == kind = "script" => Cleaned(text) = plain

\* Parentheses, and braces, of s open and close in order, outside strings that
\* end.
Matched(s, open, close) ==
    LET Count(c, i) == Cardinality({j \in 1..i : s[j] = c /\ ~InString(s, j)})
    IN  /\ ~InString(s, Len(s))
        /\ Count(open, Len(s)) = Count(close, Len(s))
        /\ \A i \in DOMAIN s : Count(open, i) >= Count(close, i)
Balanced(s) == Matched(s, "(", ")") /\ Matched(s, "{", "}")
OneLineStrings(s) == \A i \in DOMAIN s : s[i] = Newline => ~InString(s, i)

\* No parenthesis is closed between braces.
ClosedInBraces(s, i) == /\ s[i] = ")" /\ ~InString(s, i)
                        /\ ~Matched(SubSeq(s, 1, i), "{", "}")
PlainBraces(s) == \A i \in DOMAIN s : ~ClosedInBraces(s, i)

NoSpace(s) == SelectSeq(s, LAMBDA c : c \notin {Space, Newline})

\* Joining and splitting the lines of a script whose brackets match loses and
\* swaps nothing, leaves no statement with half a string or half a parenthesis,
\* nor with half a brace unless a parenthesis is closed between braces, and
\* keeps what is on two lines apart unless a bracket is open between them: lines
\* are joined by both kinds of brackets and split by parentheses alone
\* (preprocess_script).
StatementsWhole ==
    kind = "script" /\ Balanced(plain) /\ OneLineStrings(plain) =>
        LET ss == Statements(text)
            Before(i) == SubSeq(plain, 1, i)
        IN  /\ NoSpace(FlattenSeq(ss)) = NoSpace(plain)
            /\ \A k \in DOMAIN ss : /\ Matched(ss[k], "(", ")")
                                    /\ PlainBraces(plain) => Matched(ss[k], "{", "}")
            /\ \A i \in DOMAIN plain :
                 plain[i] = Newline /\ Balanced(Before(i)) =>
                     \E k \in 0..Len(ss) :
                        NoSpace(FlattenSeq(SubSeq(ss, 1, k))) = NoSpace(Before(i))

=============================================================================
