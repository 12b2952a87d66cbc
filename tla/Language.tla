------------------------------ MODULE Language ------------------------------
(* Programs of the language, as the parser hands them to the compiler, and   *)
(* what both the meaning and the compiled code of a program rest on: names,  *)
(* declarations and the nesting of lines.                                    *)
EXTENDS Values, FiniteSetsExt, SequencesExt

CONSTANTS Names,            \* the variables of the context
          Literals,         \* the texts that occur in the programs
          Cells,            \* the addresses programs read and write
          Programs,
          JIT_MAX_DEPTH,    \* slots of a frame: 16
          MC_MAX_LOOP_DEPTH,\* loops around a line: 16
          MaxExits,         \* breaks, or continues, of one loop: 32
          JIT_MAX_ARGC      \* 8

\* Expressions.  A program maps a function's name to its parameters and lines.
Num(n)        == [k |-> "num", n |-> n]
Str(i)        == [k |-> "str", n |-> i]
Var(x)        == [k |-> "var", x |-> x]
Neg(e)        == [k |-> "neg", l |-> e]
Bin(op, l, r) == [k |-> "bin", op |-> op, l |-> l, r |-> r]
Call(f, args) == [k |-> "call", f |-> f, args |-> args]

Builtins == [read |-> 1, write |-> 2, compare |-> 3]     \* and their arity

\* A return line may give no value.
Gives(l) == "e" \in DOMAIN l

\* A number is an int as long as it is one of the machine's.
Number(n) == IF InRange(n) THEN IntV(n) ELSE DoubleV(n)

\* A name the context has not got yet: no value, no declared type.
Absent == [v |-> Error, d |-> "unknown"]

\* variable_get_value: the callee's arguments hide the context's variables.
Lookup(x, locals, vs) ==
    IF x \in DOMAIN locals THEN locals[x]
    ELSE IF x \in Names THEN vs[x].v ELSE Error

\* variable_set_value: a declared variable takes what its type takes.
Assigned(vs, x, v) ==
    CASE vs[x].d = "unknown" -> [vs EXCEPT ![x].v = v]
      [] is_assignable(vs[x].d, v.t) -> [vs EXCEPT ![x].v = coerce(v, vs[x].d)]
      [] OTHER -> vs

Declared(vs, x, t, v) ==
    IF is_assignable(t, v.t) THEN [vs EXCEPT ![x] = [v |-> coerce(v, t), d |-> t]]
    ELSE vs

\* What ذاكرة_قارن gives for n cells from a and from b on, if they are cells.
InCells(a, n) == n >= 0 /\ \A i \in 0..n - 1 : a + i \in Cells
Difference(mem, a, b, n) ==
    LET D == {i \in 0..n - 1 : mem[a + i] # mem[b + i]}
    IN  IF D = {} THEN 0 ELSE IF mem[a + Min(D)] < mem[b + Min(D)] THEN -1 ELSE 1

\* A number as the second of two arguments is a colour if it can be one.
Colour(args) == Len(args) = 2 /\ args[2].k = "num" /\ args[2].n >= 4096
Shown(args)  == IF Colour(args) THEN <<args[1]>> ELSE args

\* The first line after i, up to n, that closes what line i opens; 0 if none.
find_block_end(ls, i, n, start, end) ==
    LET Open(j) == Cardinality({l \in i..j : ls[l].k = start})
                   - Cardinality({l \in i..j : ls[l].k = end})
        S == {j \in i + 1..n : ls[j].k = end /\ Open(j) = 0}
    IN  IF S = {} THEN 0 ELSE Min(S)

\* The first else of the conditional on line i that ends on line e; 0 if none.
else_index(ls, i, e) ==
    LET S == {j \in i + 1..e - 1 :
                ls[j].k = "else" /\ Cardinality({l \in i..j : ls[l].k = "if"})
                                  - Cardinality({l \in i..j : ls[l].k = "endif"}) = 1}
    IN  IF S = {} THEN 0 ELSE Min(S)

\* Where control rests that goes on from i by Jump; Spin if it never does.
Settled(Jump(_), i, fuel, Spin) ==
    LET f[n \in 0..fuel] == IF n = 0 THEN i ELSE Jump(f[n - 1])
    IN  IF Jump(f[fuel]) = f[fuel] THEN f[fuel] ELSE Spin

=============================================================================
