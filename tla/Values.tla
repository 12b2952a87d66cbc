------------------------------- MODULE Values -------------------------------
(* The values of the language and their arithmetic (شجرة.c).  A value is a   *)
(* type, a number and a text.  Numbers are integers; a result that does not  *)
(* fit in an int becomes a double, as the overflow builtins of the code      *)
(* decide.  A text is a sequence of letters, and no text spells a number.    *)
(* Left out: the fraction of a double, and the infinity of x / 0.0.          *)
EXTENDS Integers, Sequences

CONSTANT Bits               \* of an int: 64 in the code

ASSUME BitsAssumption == Bits \in Nat \ {0, 1}

MaxInt == 2^(Bits - 1) - 1

Value(t, n, s) == [t |-> t, n |-> n, s |-> s]

Unknown     == Value("unknown", 0, <<>>)
IntV(n)     == Value("int", n, <<>>)
BoolV(b)    == Value("bool", IF b THEN 1 ELSE 0, <<>>)
DoubleV(n)  == Value("double", n, <<>>)
TextV(s)    == Value("text", 0, s)
Error       == Value("error", 0, <<>>)     \* the C functions' -1

\* The declared types of the language that occur here, and their order.
type_rank(t) ==
    CASE t = "bool" -> 1 [] t = "int" -> 3 [] t = "double" -> 5
      [] t = "text" -> 10 [] OTHER -> 0

promote(t, u) ==
    CASE t = "unknown" -> u
      [] u = "unknown" -> t
      [] t = u -> t
      [] "text" \in {t, u} -> "unknown"
      [] OTHER -> IF type_rank(t) >= type_rank(u) THEN t ELSE u

\* Only numbers convert to a number.
IsNumber(v) == v.t \in {"bool", "int", "double"}

InRange(n) == -MaxInt - 1 <= n /\ n <= MaxInt

\* int if the builtin reports no overflow, else the double sum or product.
Bounded(n) == IF InRange(n) THEN IntV(n) ELSE DoubleV(n)

\* C's division truncates and its remainder has the sign of the dividend.
Quotient(x, y) ==
    LET q == (IF x < 0 THEN -x ELSE x) \div (IF y < 0 THEN -y ELSE y)
    IN  IF (x < 0) = (y < 0) THEN q ELSE -q
Remainder(x, y) == x - Quotient(x, y) * y

\* sub, mul, div and mod of two numbers whose common type is t.  On bool
\* there is no arithmetic.  INT_MIN / -1 is refused and INT_MIN % -1 is 0.
Arithmetic(op, t, x, y) ==
    CASE op \in {"div", "mod"} /\ y = 0 -> Error
      [] op = "div" /\ t = "int" /\ x = -MaxInt - 1 /\ y = -1 -> Error
      [] op = "mod" /\ t = "int" /\ x = -MaxInt - 1 /\ y = -1 -> IntV(0)
      [] OTHER ->
           LET r == CASE op = "add" -> x + y
                      [] op = "sub" -> x - y
                      [] op = "mul" -> x * y
                      [] op = "div" -> Quotient(x, y)
                      [] op = "mod" -> Remainder(x, y)
           IN  CASE t = "int" -> Bounded(r)
                 [] t = "double" -> DoubleV(r)
                 [] OTHER -> Error

\* shl keeps the low bits of the word, shr copies the sign: both refuse a
\* count that is not the place of a bit.
Wrap(n) == LET r == n % (2^Bits)
           IN  IF r > MaxInt THEN r - (2^Bits) ELSE r
Shift(op, x, y) ==
    CASE y < 0 \/ y >= Bits -> Error
      [] op = "shl" -> IntV(Wrap(x * 2^y))
      [] op = "shr" -> IntV(x \div 2^y)

\* Three-way comparison of two values of the common type t.
Order(t, a, b) ==
    CASE t = "text" -> IF a.s = b.s THEN 0 ELSE IF Len(a.s) < Len(b.s) THEN -1 ELSE 1
      [] OTHER -> IF a.n < b.n THEN -1 ELSE IF a.n > b.n THEN 1 ELSE 0

cmp(op, a, b) ==
    LET t == promote(a.t, b.t)
        c == Order(t, a, b)
    IN  IF "unknown" \in {a.t, b.t} \/ t \notin {"int", "double", "text"} THEN Error
        ELSE BoolV(CASE op = "eq" -> c = 0 [] op = "neq" -> c # 0
                     [] op = "lt" -> c < 0 [] op = "lte" -> c <= 0
                     [] op = "gt" -> c > 0 [] op = "gte" -> c >= 0)

truthy(v) ==
    CASE v.t \in {"bool", "int", "double"} -> v.n # 0
      [] v.t = "text" -> v.s # <<>>
      [] OTHER -> FALSE

neg(v) ==
    CASE v.t = "double" -> DoubleV(-v.n)
      [] v.t \in {"int", "bool"} -> IntV(IF InRange(-v.n) THEN -v.n ELSE v.n)
      [] OTHER -> Error

Compares == {"eq", "neq", "lt", "lte", "gt", "gte"}

\* The operation of a binary node on two values, as the tree walk, the
\* runtime helpers and the conditions all call it.
Apply(op, a, b) ==
    LET t == promote(a.t, b.t)
    IN  CASE op \in Compares -> cmp(op, a, b)
          [] op = "and" -> BoolV(truthy(a) /\ truthy(b))
          [] op = "or" -> BoolV(truthy(a) \/ truthy(b))
          [] op = "add" /\ a.t = "text" /\ b.t = "text" -> TextV(a.s \o b.s)
          [] ~IsNumber(a) \/ ~IsNumber(b) -> Error
          [] op \in {"shl", "shr"} -> Shift(op, a.n, b.n)
          [] OTHER -> Arithmetic(op, t, a.n, b.n)

\* Conversion to a declared type, and the conversions a declaration takes: no
\* number becomes a text.
coerce(v, t) ==
    CASE t = v.t -> v
      [] t = "text" -> Error
      [] ~IsNumber(v) -> Error
      [] t = "bool" -> BoolV(v.n # 0)
      [] OTHER -> Value(t, v.n, <<>>)

is_assignable(declared, actual) ==
    \/ declared = actual
    \/ declared = "unknown"
    \/ declared = "double" /\ actual \in {"int", "bool"}
    \/ declared = "int" /\ actual = "bool"
    \/ declared = "bool" /\ actual = "int"

=============================================================================
