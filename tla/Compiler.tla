------------------------------ MODULE Compiler ------------------------------
(* The compiler of the language (مترجم_اللغة.c): from the lines of a         *)
(* function to instructions.  Bytes, relocations and the growth of the       *)
(* buffer are left out: an instruction is one sequence of bytes that the     *)
(* code always emits together, and a jump names the instruction it goes to.  *)
EXTENDS Language

\* Instructions.  l is the line whose code starts here, 0 inside a line.
Ins(op, a)  == [op |-> op, a |-> a, l |-> 0]
Imm(v)      == Ins("imm", v)             \* a value into the registers
NameRef(x)  == Ins("name", x)            \* a name's address into rdi
StoreSlot(d) == Ins("store", d)          \* the registers to typed slot d
LoadSlot(d) == Ins("load", d)
Helper(f)   == Ins("call", <<f, 0>>)
Helper1(f, a) == Ins("call", <<f, a>>)   \* with an immediate argument
TraceFromRegs == Helper("trace_from_regs")
LoadResult  == Ins("result", 0)          \* the trace to the registers
Jz(to)      == Ins("jz", to)             \* if xmm0 is 0
Jmp(to)     == Ins("jmp", to)
Ret         == Ins("ret", 0)

\* A text in a register is the address of a literal in the code.
LiteralAt(i) == 100 + i

----------------------------------------------------------------------------
(* Expressions.  The code of e when d slots are taken; Fail if e has none.   *)

Fail == <<Ins("fail", 0)>>
Fails(c) == \E i \in DOMAIN c : c[i].op = "fail"

RECURSIVE machine_ast_is_jit_supported(_, _)
machine_ast_is_jit_supported(e, fs) ==
    LET Supported(d) == machine_ast_is_jit_supported(d, fs)
    IN  CASE e.k \in {"num", "str", "var"} -> TRUE
          [] e.k = "neg" -> Supported(e.l)
          [] e.k = "bin" ->
               /\ e.op \in {"sub", "mul", "div", "mod", "shl", "shr"}
                    => "str" \notin {e.l.k, e.r.k}
               /\ Supported(e.l) /\ Supported(e.r)
          [] e.k = "call" ->
               /\ IF e.f \in DOMAIN Builtins THEN Len(e.args) = Builtins[e.f]
                  ELSE e.f \in fs /\ Len(e.args) <= JIT_MAX_ARGC
               /\ \A i \in DOMAIN e.args : Supported(e.args[i])

\* slots[0], at the lowest address, is the first argument.
ArgSlot(base, argc, i) == base + argc - i

ArgDepthUnreserved(base, argc) == base

\* The slots a call's arguments take are taken while they are evaluated.
ArgDepth(base, argc) == base + argc

RECURSIVE jit_compile_expr_typed(_, _)

jit_compile_args_to_slots(args, d) ==
    LET n == Len(args)
        One(i) == jit_compile_expr_typed(args[i], ArgDepth(d, n))
                  \o <<StoreSlot(ArgSlot(d, n, i))>>
    IN  IF d + n > JIT_MAX_DEPTH THEN Fail
        ELSE FlattenSeq([i \in 1..n |-> One(i)])

\* Both sides go to slots; then left slot -> trace -> left, right slot -> trace.
jit_compile_operands_typed(e, d) ==
    IF d + 2 > JIT_MAX_DEPTH THEN Fail
    ELSE jit_compile_expr_typed(e.l, d) \o <<StoreSlot(d)>>
         \o jit_compile_expr_typed(e.r, d + 1)
         \o <<StoreSlot(d + 1),
              LoadSlot(d), TraceFromRegs, Helper("capture_left"),
              LoadSlot(d + 1), TraceFromRegs>>

\* The builtins of memory: arguments in consecutive slots, typed ones for the
\* writes, which take integers, and plain doubles for the others.
jit_compile_memory_fn_typed(e, d) ==
    LET n == Len(e.args)
        typed == e.f = "write"
        Store(j) == IF typed THEN StoreSlot(j) ELSE Ins("store8", j)
        One(i) == jit_compile_expr_typed(e.args[i], d + i - 1) \o <<Store(d + i - 1)>>
    IN  IF d + n > JIT_MAX_DEPTH THEN Fail
        ELSE FlattenSeq([i \in 1..n |-> One(i)])
             \o <<Helper1(e.f, [base |-> d, typed |-> typed]), LoadResult>>

jit_compile_expr_typed(e, d) ==
    CASE e.k = "num" -> <<Imm([t |-> IF InRange(e.n) THEN "int" ELSE "double",
                               n |-> e.n, p |-> 0])>>
      [] e.k = "str" -> <<NameRef(LiteralAt(e.n)),
                          Imm([t |-> "text", n |-> 0, p |-> LiteralAt(e.n)])>>
      [] e.k = "var" -> <<NameRef(e.x), Helper("get_variable"), LoadResult>>
      [] e.k = "neg" -> jit_compile_expr_typed(e.l, d)
                        \o <<TraceFromRegs, Helper("neg"), LoadResult>>
      [] e.k = "bin" -> jit_compile_operands_typed(e, d)
                        \o <<Helper1("binary", e.op), LoadResult>>
      [] e.k = "call" /\ e.f \in DOMAIN Builtins -> jit_compile_memory_fn_typed(e, d)
      [] e.k = "call" ->
           jit_compile_args_to_slots(e.args, d)
           \o <<NameRef(e.f),
                Helper1("call_function", [argc |-> Len(e.args), base |-> d]),
                LoadResult>>

----------------------------------------------------------------------------
(* Lines.  The buffer b: the code, the loops around the line with their       *)
(* start and the jumps to patch, the returns to patch, and whether the        *)
(* compiler has given up.                                                     *)

Empty == [code |-> <<>>, loops |-> <<>>, returns |-> <<>>, ok |-> TRUE]

Emit(b, c)   == IF Fails(c) THEN [b EXCEPT !.ok = FALSE] ELSE [b EXCEPT !.code = @ \o c]
GiveUp(b)    == [b EXCEPT !.ok = FALSE]
Here(b)      == Len(b.code) + 1
Patch(b, at, to) == [b EXCEPT !.code[at].a = to]
PatchAll(b, S, to) == FoldLeft(LAMBDA c, at : Patch(c, at, to), b, S)

\* The code of line i starts here.
Mark(c, i) == IF c = <<>> THEN c ELSE [c EXCEPT ![1].l = i]

assign_typed(l) ==
    jit_compile_expr_typed(l.e, 0)
    \o (IF JIT_MAX_DEPTH = 0 THEN Fail ELSE
        <<StoreSlot(0), NameRef(l.x), LoadSlot(0), TraceFromRegs,
          Helper("set_variable"), LoadSlot(0)>>)

mc_compile_declaration_typed(l) ==
    jit_compile_expr_typed(l.e, 0)
    \o <<StoreSlot(0), LoadSlot(0), TraceFromRegs, NameRef(l.x),
         Helper1("declare_variable", l.t), LoadResult>>

jit_compile_print_typed(l) ==
    LET vs == Shown(l.args)
        One(i) == (IF i > 1 THEN <<Helper("print_space")>> ELSE <<>>)
                  \o jit_compile_expr_typed(vs[i], 0)
                  \o <<TraceFromRegs, Helper("print_value")>>
    IN  <<Helper("print_begin")>>
        \o FlattenSeq([i \in DOMAIN vs |-> One(i)])
        \o <<Helper("print_newline")>>

\* Only what machine_ast_is_jit_supported admits is compiled.
ExprsOf(l) == CASE l.k = "print" -> Range(l.args)
                [] Gives(l) -> {l.e}
                [] OTHER -> {}
Supports(l, fs) == \A e \in ExprsOf(l) : machine_ast_is_jit_supported(e, fs)

Statement(l) ==
    CASE l.k = "assign" -> assign_typed(l)
      [] l.k = "declare" -> mc_compile_declaration_typed(l)
      [] l.k = "print" -> jit_compile_print_typed(l)
      [] l.k = "expr" -> jit_compile_expr_typed(l.e, 0)

mc_compile_return_typed(b, l, i) ==
    LET value == IF Gives(l)
                 THEN Mark(jit_compile_expr_typed(l.e, 0), i) \o <<Helper("return_from_regs")>>
                 ELSE <<>>
        c == Emit(b, Append(value, Jmp(0)))
    IN  [c EXCEPT !.returns = Append(@, Len(c.code))]

\* A break or continue belongs to the innermost loop, which has room for so many.
mc_compile_loop_control(b, k) ==
    LET c == Emit(b, <<Jmp(0)>>)
        n == Len(b.loops)
        at == Len(c.code)
    IN  CASE n = 0 -> GiveUp(b)
          [] k = "break" ->
               IF Len(b.loops[n].breaks) >= MaxExits THEN GiveUp(b)
               ELSE [c EXCEPT !.loops[n].breaks = Append(@, at)]
          [] k = "continue" ->
               IF Len(b.loops[n].continues) >= MaxExits THEN GiveUp(b)
               ELSE [c EXCEPT !.loops[n].continues = Append(@, at)]

\* Lines i..n of ls.
RECURSIVE mc_compile_block(_, _, _, _, _)

mc_compile_if(ls, i, n, fs, b) ==
    LET e == find_block_end(ls, i, n, "if", "endif")
        x == else_index(ls, i, e)
        cond == Emit(b, Mark(jit_compile_expr_typed(ls[i].e, 0), i) \o <<Jz(0)>>)
        jf == Len(cond.code)
        then == mc_compile_block(ls, i + 1, (IF x = 0 THEN e ELSE x) - 1, fs, cond)
        over == Emit(then, <<Jmp(0)>>)
        else == mc_compile_block(ls, x + 1, e - 1, fs, Patch(over, jf, Here(over)))
    IN  CASE e = 0 \/ ~cond.ok -> GiveUp(b)
          [] ~then.ok -> then
          [] x = 0 -> Patch(then, jf, Here(then))
          [] ~else.ok -> else
          [] OTHER -> Patch(else, Len(over.code), Here(else))

\* Where a loop's breaks and continues go.
BreakTarget(start, end) == end
ContinueTarget(start, end) == start

mc_compile_loop(ls, i, n, fs, b) ==
    LET e == find_block_end(ls, i, n, "loop", "endloop")
        d == Len(b.loops) + 1
        start == Here(b)
        body == mc_compile_block(ls, i + 1, e - 1, fs,
                    [b EXCEPT !.loops = Append(@, [breaks |-> <<>>, continues |-> <<>>])])
        back == Emit(body, <<Jmp(start)>>)
        end == Here(back)
        loop == body.loops[d]
        done == PatchAll(PatchAll(back, loop.breaks, BreakTarget(start, end)),
                         loop.continues, ContinueTarget(start, end))
    IN  CASE e = 0 \/ d > MC_MAX_LOOP_DEPTH -> GiveUp(b)
          [] ~body.ok -> body
          [] OTHER -> [done EXCEPT !.loops = Front(@)]

mc_compile_block(ls, i, n, fs, b) ==
    LET l == ls[i]
        Rest(j, c) == mc_compile_block(ls, j, n, fs, c)
    IN  CASE i > n \/ ~b.ok -> b
          [] ~Supports(l, fs) -> GiveUp(b)
          [] l.k = "if" -> Rest(find_block_end(ls, i, n, "if", "endif") + 1,
                                mc_compile_if(ls, i, n, fs, b))
          [] l.k = "loop" -> Rest(find_block_end(ls, i, n, "loop", "endloop") + 1,
                                  mc_compile_loop(ls, i, n, fs, b))
          [] l.k \in {"break", "continue"} ->
               Rest(i + 1, mc_compile_loop_control(b, l.k))
          [] l.k = "return" -> Rest(i + 1, mc_compile_return_typed(b, l, i))
          [] l.k \in {"else", "endif", "endloop"} -> GiveUp(b)
          [] OTHER -> Rest(i + 1, Emit(b, Mark(Statement(l), i)))

\* The code of a function, whose returns go to the epilogue; <<>> if refused.
jit_compile_function_impl(ls, fs) ==
    LET b == mc_compile_block(ls, 1, Len(ls), fs, Empty)
        e == Emit(b, <<Ret>>)
    IN  IF ls = <<>> \/ ~b.ok THEN <<>>
        ELSE PatchAll(e, b.returns, Len(e.code)).code

=============================================================================
