------------------------------ MODULE Meaning -------------------------------
(* What a program of the language means, line by line: the specification the *)
(* compiled code has to implement.  A program maps a function's name to its  *)
(* parameters and lines; "main" is the one that runs, and the others are one *)
(* return line.  Expressions mean what the tree walk ast_evaluate_typed      *)
(* computes; when it fails, and where the code is known to compute something *)
(* else (Sheltered, Certain), the value of that one line is left open.       *)
EXTENDS Language

VARIABLES prog,             \* the program
          line,             \* the line of main under way; Done; Refused
          vars,             \* the context's variables: value, declared type
          memory,           \* the contents of Cells
          screen,           \* what was printed
          result            \* of main

mvars == <<prog, line, vars, memory, screen, result>>

Done == 0
Refused == -1
Unstarted == -2
Spinning == -3              \* in a loop that does nothing

----------------------------------------------------------------------------
(* Expressions *)

\* The left side decides: the right side is not evaluated.
Decided(op, v) == (op = "and" /\ ~truthy(v)) \/ (op = "or" /\ truthy(v))

RECURSIVE Eval(_, _, _, _)
Eval(e, locals, vs, mem) ==
    LET V(d) == Eval(d, locals, vs, mem)
    IN  CASE e.k = "num" -> Number(e.n)
          [] e.k = "str" -> TextV(Literals[e.n])
          [] e.k = "var" -> IF Lookup(e.x, locals, vs) = Unknown THEN Error
                            ELSE Lookup(e.x, locals, vs)
          [] e.k = "neg" -> IF V(e.l) = Error THEN Error ELSE neg(V(e.l))
          [] e.k = "bin" ->
               CASE V(e.l) = Error -> Error
                 [] Decided(e.op, V(e.l)) -> BoolV(e.op = "or")
                 [] V(e.r) = Error -> Error
                 [] OTHER -> Apply(e.op, V(e.l), V(e.r))
          [] e.k = "call" ->
               LET as == [i \in DOMAIN e.args |-> V(e.args[i])]
               IN  CASE Error \in Range(as) -> Error
                     [] e.f = "read" -> IF IsNumber(as[1]) /\ as[1].n \in Cells
                                        THEN IntV(mem[as[1].n]) ELSE Error
                     [] e.f = "compare" ->
                          IF /\ \A i \in 1..3 : IsNumber(as[i])
                             /\ InCells(as[1].n, as[3].n) /\ InCells(as[2].n, as[3].n)
                          THEN IntV(Difference(mem, as[1].n, as[2].n, as[3].n))
                          ELSE Error
                     [] e.f \in DOMAIN prog ->
                          LET f == prog[e.f]
                          IN  IF Len(as) # Len(f.params) THEN Error
                              ELSE Eval(f.lines[1].e,
                                        [p \in Range(f.params) |->
                                           as[CHOOSE i \in DOMAIN as : f.params[i] = p]],
                                        vs, mem)
                     [] OTHER -> Error

\* The expressions that occur in e, e among them.
RECURSIVE Parts(_)
Parts(e) ==
    {e} \cup CASE e.k = "neg" -> Parts(e.l)
               [] e.k = "bin" -> Parts(e.l) \cup Parts(e.r)
               [] e.k = "call" -> UNION {Parts(e.args[i]) : i \in DOMAIN e.args}
               [] OTHER -> {}

\* Reading and comparing memory put their arguments in slots of eight bytes,
\* which lie in the typed slots of what is kept meanwhile: they compute what
\* they should where nothing is, not behind the left side of an operation nor
\* behind the first argument of a call.
Untyped == {"read", "compare"}
Peeks(e) == \E d \in Parts(e) : d.k = "call" /\ d.f \in Untyped

RECURSIVE Sheltered(_)
Sheltered(e) ==
    CASE e.k = "neg" -> Sheltered(e.l)
      [] e.k = "bin" -> Sheltered(e.l) /\ ~Peeks(e.r)
      [] e.k = "call" ->
           \A i \in DOMAIN e.args : /\ Sheltered(e.args[i])
                                    /\ e.f \in Untyped \/ i = 1 \/ ~Peeks(e.args[i])
      [] OTHER -> TRUE

\* The code evaluates both sides of an or, and takes it for false if one fails.
Certain(e) == \A d \in Parts(e) :
    d.k = "bin" /\ d.op = "or" => Eval(d.r, <<>>, vars, memory) # Error

Value0(e) == IF Sheltered(e) /\ Certain(e) THEN Eval(e, <<>>, vars, memory) ELSE Error

----------------------------------------------------------------------------
(* Lines and their nesting *)

Real(l) == \/ l.k \in {"if", "assign", "declare", "print", "expr"}
           \/ l.k = "return" /\ Gives(l)

\* The loop around line i, and the conditional around it.
Around(ls, i, start, end) ==
    CHOOSE s \in 1..i - 1 :
        /\ ls[s].k = start /\ find_block_end(ls, s, Len(ls), start, end) >= i
        /\ \A t \in s + 1..i - 1 :
             ls[t].k = start => find_block_end(ls, t, Len(ls), start, end) < i
LoopOf(ls, i) == Around(ls, i, "loop", "endloop")
EndOf(ls, s)  == IF ls[s].k = "loop" THEN find_block_end(ls, s, Len(ls), "loop", "endloop")
                 ELSE find_block_end(ls, s, Len(ls), "if", "endif")

\* Where control goes from line i when the line does nothing itself.
Onward(ls, i) ==
    CASE i \in {Done} \cup (Len(ls) + 1..Len(ls) + 1) -> Done
      [] Real(ls[i]) -> i
      [] ls[i].k \in {"loop", "endif"} -> i + 1
      [] ls[i].k \in {"endloop", "continue"} -> LoopOf(ls, i) + 1
      [] ls[i].k = "return" -> Done
      [] ls[i].k = "break" -> EndOf(ls, LoopOf(ls, i)) + 1
      [] ls[i].k = "else" -> EndOf(ls, Around(ls, i, "if", "endif")) + 1

\* The line that does something, where control arrives when it reaches line i.
Settle(ls, i) == LET Jump(j) == Onward(ls, j)
                 IN  Settled(Jump, i, 2 * Len(ls) + 2, Spinning)

\* Line i's conditional fails: on to its else part, or behind it.
ElseOf(ls, i) == LET e == EndOf(ls, i)
                     j == else_index(ls, i, e)
                 IN  IF j = 0 THEN e + 1 ELSE j + 1

\* How blocks nest: the openings that are not closed yet, or <<"bad">>.
Nest(open, l) ==
    LET top == IF open = <<>> THEN "none" ELSE Last(open)
    IN  CASE top = "bad" -> open
          [] l.k \in {"if", "loop"} -> Append(open, l.k)
          [] l.k = "else" /\ top = "if" -> Append(Front(open), "else")
          [] l.k = "endif" /\ top \in {"if", "else"} -> Front(open)
          [] l.k = "endloop" /\ top = "loop" -> Front(open)
          [] l.k \in {"break", "continue"} /\ Contains(open, "loop") -> open
          [] l.k = "return" -> open
          [] Real(l) /\ l.k # "if" -> open
          [] OTHER -> <<"bad">>

OpenAt(ls, i) == FoldLeft(Nest, <<>>, SubSeq(ls, 1, i))
Loops(open) == Cardinality({i \in DOMAIN open : open[i] = "loop"})

\* The slots an expression needs at once.
RECURSIVE Slots(_)
Slots(e) ==
    CASE e.k = "neg" -> Slots(e.l)
      [] e.k = "bin" -> Max({2, Slots(e.l), 1 + Slots(e.r)})
      [] e.k = "call" /\ e.f \in DOMAIN Builtins ->
           Max({Len(e.args)} \cup {i - 1 + Slots(e.args[i]) : i \in DOMAIN e.args})
      [] e.k = "call" ->
           Len(e.args) + Max({0} \cup {Slots(e.args[i]) : i \in DOMAIN e.args})
      [] OTHER -> 0

RECURSIVE Known(_)
Known(e) ==
    CASE e.k = "neg" -> Known(e.l)
      [] e.k = "bin" -> /\ Known(e.l) /\ Known(e.r)
                        /\ e.op \in {"sub", "mul", "div", "mod", "shl", "shr"}
                             => "str" \notin {e.l.k, e.r.k}
      [] e.k = "call" -> /\ \A i \in DOMAIN e.args : Known(e.args[i])
                         /\ IF e.f \in DOMAIN Builtins THEN Len(e.args) = Builtins[e.f]
                            ELSE e.f \in DOMAIN prog /\ Len(e.args) <= JIT_MAX_ARGC
      [] OTHER -> TRUE

Legal(e) == Known(e) /\ Slots(e) <= JIT_MAX_DEPTH
Exprs(l) == CASE l.k = "print" -> Range(l.args)
              [] Gives(l) -> {l.e}
              [] OTHER -> {}

\* The programs the language has: blocks nest, and nothing is too deep.
WellFormed(ls) ==
    /\ OpenAt(ls, Len(ls)) = <<>>
    /\ \A i \in DOMAIN ls :
         /\ Loops(OpenAt(ls, i)) <= MC_MAX_LOOP_DEPTH
         /\ \A e \in Exprs(ls[i]) : Legal(e)
         /\ ls[i].k = "assign" => JIT_MAX_DEPTH > 0
         /\ ls[i].k = "loop" =>
              \A k \in {"break", "continue"} :
                Cardinality({j \in i..EndOf(ls, i) :
                               ls[j].k = k /\ LoopOf(ls, j) = i}) <= MaxExits

----------------------------------------------------------------------------
(* Steps *)

Lines == prog["main"].lines
\* Of any program.
Init ==
    /\ line = Unstarted
    /\ vars = [x \in Names |-> Absent]
    /\ memory = [c \in Cells |-> 0]
    /\ screen = <<>>
    /\ result = Error

Start ==
    /\ line = Unstarted
    /\ line' = IF WellFormed(Lines) THEN Settle(Lines, 1) ELSE Refused
    /\ UNCHANGED <<prog, vars, memory, screen, result>>

Goto(i) == line' = Settle(Lines, i)

\* A condition is a number; one that is not decides nothing.
If ==
    /\ Lines[line].k = "if"
    /\ LET v == Value0(Lines[line].e)
       IN  \/ (IsNumber(v) => truthy(v)) /\ Goto(line + 1)
           \/ (IsNumber(v) => ~truthy(v)) /\ Goto(ElseOf(Lines, line))
    /\ UNCHANGED <<prog, vars, memory, screen, result>>

Store ==
    /\ Lines[line].k \in {"assign", "declare"}
    /\ LET l == Lines[line]
           v == Value0(l.e)
       IN  IF v = Error THEN \A y \in Names \ {l.x} : vars'[y] = vars[y]
           ELSE vars' = IF l.k = "assign" THEN Assigned(vars, l.x, v)
                        ELSE Declared(vars, l.x, l.t, v)
    /\ Goto(line + 1)
    /\ UNCHANGED <<prog, memory, screen, result>>

PrintLine ==
    /\ Lines[line].k = "print"
    /\ LET as == Shown(Lines[line].args)
           vs == [i \in DOMAIN as |-> Value0(as[i])]
       IN  IF Error \in Range(vs) THEN Len(screen') = Len(screen) + 1
           ELSE screen' = Append(screen, vs)
    /\ Goto(line + 1)
    /\ UNCHANGED <<prog, vars, memory, result>>

\* An expression as a line: only a write to memory has an effect.
Expr ==
    /\ Lines[line].k = "expr"
    /\ LET e == Lines[line].e
           a == Value0(e.args[1])
           v == Value0(e.args[2])
       IN  IF e.k = "call" /\ e.f = "write"
           THEN IF Sheltered(e) /\ IsNumber(a) /\ IsNumber(v) /\ a.n \in Cells
                THEN memory' = [memory EXCEPT ![a.n] = v.n] ELSE TRUE
           ELSE UNCHANGED memory
    /\ Goto(line + 1)
    /\ UNCHANGED <<prog, vars, screen, result>>

Return ==
    /\ Lines[line].k = "return"
    /\ LET v == Value0(Lines[line].e)
       IN  v = Error \/ result' = v
    /\ line' = Done
    /\ UNCHANGED <<prog, vars, memory, screen>>

\* Falling off the end of main, and a return of nothing, give whatever was
\* computed last.
Next ==
    \/ Start
    \/ line > 0 /\ (If \/ Store \/ PrintLine \/ Expr \/ Return)

Spec == Init /\ [][Next]_mvars

=============================================================================
