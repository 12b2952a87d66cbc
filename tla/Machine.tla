------------------------------ MODULE Machine -------------------------------
(* The execution of compiled code (مترجم_اللغة.c, المحلل.c,                   *)
(* مخزن_المتغيرات.c): registers, frames and the two shared traces through     *)
(* which the runtime helpers take and give values.  One step is one           *)
(* instruction; a helper is one instruction.  Numbers in the trace keep all   *)
(* their bits, the print buffer is long enough and allocation succeeds.       *)
EXTENDS Compiler

VARIABLES prog,         \* the program
          phase,        \* "source", "running", "done" or "refused"
          code,         \* the code of each function
          stack,        \* the activations: function, pc, frame, arguments
          regs,         \* edx, xmm0, rcx: a typed value; rdi: a name
          m,            \* the runtime: traces, texts, variables, memory, output
          result,       \* what main returned
          begun         \* what a reader of the source has seen: see Boundary

vars == <<prog, phase, code, stack, regs, m, result, begun>>

Top == stack[Len(stack)]
Pc == Top.pc

----------------------------------------------------------------------------
(* The runtime.  A typed value in a register or a trace is a type, a number  *)
(* and the address of a text: 0, a literal's, or a block's of the heap.       *)

Nothing == [t |-> "unknown", n |-> 0, p |-> 0]

\* A freed block keeps its text until it is taken again.
TextAt(r, p) == IF p = 0 THEN <<>>
                ELSE IF p > 100 THEN Literals[p - 100]
                ELSE IF p \in DOMAIN r.texts THEN r.texts[p] ELSE <<>>
IsLive(r, p) == p = 0 \/ p > 100 \/ p \in r.live

ValueOf(r, x) == Value(x.t, x.n, IF x.t = "text" THEN TextAt(r, x.p) ELSE <<>>)

HoldsText(x) == x.t = "text" /\ x.p # 0
jit_typed_trace_clear(r) ==
    [r EXCEPT !.live = IF HoldsText(r.trace) THEN @ \ {r.trace.p} ELSE @,
              !.trace = Nothing]
jit_typed_trace_left_clear(r) ==
    [r EXCEPT !.live = IF HoldsText(r.left) THEN @ \ {r.left.p} ELSE @,
              !.left = Nothing]
jit_typed_trace_capture_left(r) ==
    LET c == jit_typed_trace_left_clear(r)
    IN  [c EXCEPT !.left = c.trace, !.trace = Nothing]

Block(r) == CHOOSE p \in 1..Cardinality(r.live) + 1 : p \notin r.live

\* The trace becomes v, whose text is a new block.
SetTrace(r, v) ==
    LET p == Block(r)
    IN  IF v.t = "text"
        THEN [r EXCEPT !.trace = [t |-> "text", n |-> 0, p |-> p],
                       !.live = @ \cup {p},
                       !.texts = [q \in DOMAIN @ \cup {p} |-> IF q = p THEN v.s ELSE @[q]]]
        ELSE [r EXCEPT !.trace = [t |-> v.t, n |-> v.n, p |-> 0]]

jit_trace_return(r, v) == SetTrace(r, v)

----------------------------------------------------------------------------
(* The helpers: each gives the runtime it leaves.                             *)

jit_rt_typed_get_variable(r, x, locals) ==
    LET c == jit_typed_trace_clear(r)
        v == Lookup(x, locals, r.vars)
    IN  IF v = Error THEN c ELSE SetTrace(c, v)

\* The variable set keeps its own copy of the text; the trace stays.
jit_rt_typed_set_variable(r, x) ==
    IF x \in Names THEN [r EXCEPT !.vars = Assigned(r.vars, x, ValueOf(r, r.trace))] ELSE r

jit_rt_typed_declare_variable(r, x, t) ==
    LET v == ValueOf(r, r.trace)
        c == jit_typed_trace_clear(r)
    IN  IF ~is_assignable(t, v.t) \/ coerce(v, t) = Error THEN c
        ELSE SetTrace([c EXCEPT !.vars = Declared(r.vars, x, t, v)], coerce(v, t))

jit_rt_typed_trace_from_regs(r) ==
    [jit_typed_trace_clear(r) EXCEPT !.trace = [t |-> regs.t, n |-> regs.n, p |-> regs.p]]

\* A returned text is copied before the trace, its possible owner, is cleared.
jit_rt_typed_return_from_regs(r) ==
    SetTrace(jit_typed_trace_clear(r), ValueOf(r, regs))

\* Arithmetic leaves the trace alone when a side has no type and clears it when
\* the operation fails.
jit_rt_typed_arith(r, op) ==
    LET a == ValueOf(r, r.left)
        b == ValueOf(r, r.trace)
        v == Apply(op, a, b)
        c == jit_typed_trace_clear(r)
    IN  jit_typed_trace_left_clear(CASE "unknown" \in {a.t, b.t} -> r
                                     [] v = Error -> c
                                     [] OTHER -> SetTrace(c, v))

\* A comparison that fails is false.
jit_rt_typed_compare(r, op) ==
    LET a == ValueOf(r, r.left)
        b == ValueOf(r, r.trace)
        v == Apply(op, a, b)
    IN  jit_typed_trace_left_clear(
            SetTrace(jit_typed_trace_clear(r),
                     IF "unknown" \in {a.t, b.t} \/ v = Error THEN BoolV(FALSE) ELSE v))

jit_rt_typed_binary(r, op) ==
    IF op \in Compares \cup {"and", "or"} THEN jit_rt_typed_compare(r, op)
    ELSE jit_rt_typed_arith(r, op)

jit_rt_typed_neg(r) ==
    LET v == ValueOf(r, r.trace)
    IN  IF IsNumber(v) THEN SetTrace(jit_typed_trace_clear(r), neg(v)) ELSE r

Cleared(r) == jit_typed_trace_left_clear(jit_typed_trace_clear(r))

jit_rt_mem_read(r, a) ==
    jit_trace_return(Cleared(r), IntV(IF a \in Cells THEN r.memory[a] ELSE 0))
jit_rt_mem_write(r, a, v) ==
    IF a \in Cells THEN [Cleared(r) EXCEPT !.memory[a] = v] ELSE Cleared(r)
jit_rt_mem_compare(r, a, b, n) ==
    jit_trace_return(Cleared(r),
        IntV(IF InCells(a, n) /\ InCells(b, n) THEN Difference(r.memory, a, b, n) ELSE 0))

jit_rt_print_begin(r) == [r EXCEPT !.buffer = <<>>]
jit_rt_print_value(r) ==
    Cleared([r EXCEPT !.buffer = Append(@, ValueOf(r, r.trace))])
jit_rt_print_newline(r) ==
    [r EXCEPT !.screen = Append(@, r.buffer), !.buffer = <<>>]

----------------------------------------------------------------------------
(* Frames.  A typed slot is three cells of eight bytes, an untyped one a      *)
(* single cell, and both are counted from the frame's top, so that they lie in *)
(* one another.  What a cell holds means nothing when it is read as something *)
(* else; a text's address that was written over is never followed here.       *)

TYPED_SLOT_CELLS == 3
TypedCell(d, part) == TYPED_SLOT_CELLS * (d + 1) - part     \* 0 number 1 text 2 type

Junk == [w |-> "junk", v |-> 0]
NewFrame == [c \in 1..TYPED_SLOT_CELLS * JIT_MAX_DEPTH |-> Junk]
Part(frame, c, w, otherwise) == IF frame[c].w = w THEN frame[c].v ELSE otherwise

StoreTyped(frame, d) ==
    [frame EXCEPT ![TypedCell(d, 0)] = [w |-> "number", v |-> regs.n],
                  ![TypedCell(d, 1)] = [w |-> "text", v |-> regs.p],
                  ![TypedCell(d, 2)] = [w |-> "type", v |-> regs.t]]
StoreDouble(frame, d) == [frame EXCEPT ![d + 1] = [w |-> "number", v |-> regs.n]]

TypedSlot(frame, d) ==
    [n |-> Part(frame, TypedCell(d, 0), "number", 0),
     p |-> Part(frame, TypedCell(d, 1), "text", 0),
     t |-> Part(frame, TypedCell(d, 2), "type", "unknown")]
DoubleSlot(frame, d) == Part(frame, d + 1, "number", 0)

\* A slot without a type is a double.
jit_slot_to_value(r, s) == IF s.t = "unknown" THEN DoubleV(s.n) ELSE ValueOf(r, s)

----------------------------------------------------------------------------
(* The source as its reader sees it: main's line under way, and the variables,*)
(* memory and output when it began.                                           *)

M == INSTANCE Meaning WITH line <- begun.line, vars <- begun.vars,
        memory <- begun.memory, screen <- begun.screen, result <- begun.result

Lines == prog["main"].lines

\* The line whose code starts where control goes from pc; 0 in mid-line.
LineAt(c, pc) ==
    LET Jump(i) == IF c[i].op = "jmp" THEN c[i].a ELSE i
        at == Settled(Jump, pc, Len(c), 0)
    IN  IF at = 0 THEN M!Spinning ELSE c[at].l

Seen(l, r, res) == [line |-> l, vars |-> r.vars, memory |-> r.memory,
                    screen |-> r.screen, result |-> res]

\* begun follows main from one line's start to the next.
Boundary(stk, r) ==
    LET l == LineAt(code["main"], stk[1].pc)
    IN  begun' = IF Len(stk) = 1 /\ l # 0 THEN Seen(l, r, Error) ELSE begun

----------------------------------------------------------------------------
(* Steps *)

Activation(f, locals) == [f |-> f, pc |-> 1, frame |-> NewFrame, locals |-> locals]

Runtime0 == [trace |-> Nothing, left |-> Nothing, texts |-> <<>>, live |-> {},
             vars |-> [x \in Names |-> Absent], memory |-> [c \in Cells |-> 0],
             buffer |-> <<>>, screen |-> <<>>]

Init ==
    /\ prog \in Programs
    /\ phase = "source"
    /\ code = <<>>
    /\ stack = <<>>
    /\ regs = [t |-> "unknown", n |-> 0, p |-> 0, rdi |-> ""]
    /\ m = Runtime0
    /\ result = Error
    /\ begun = Seen(M!Unstarted, m, Error)

\* Every function is compiled before main runs; a refused one stops the program.
Compile ==
    /\ phase = "source"
    /\ code' = [f \in DOMAIN prog |->
                  jit_compile_function_impl(prog[f].lines, DOMAIN prog)]
    /\ IF \E f \in DOMAIN prog : code'[f] = <<>>
       THEN /\ phase' = "refused"
            /\ begun' = [begun EXCEPT !.line = M!Refused]
            /\ UNCHANGED stack
       ELSE /\ phase' = "running"
            /\ stack' = <<Activation("main", <<>>)>>
            /\ begun' = [begun EXCEPT !.line = LineAt(code'["main"], 1)]
    /\ UNCHANGED <<prog, regs, m, result>>

Current == code[Top.f][Pc]
Is(op) == phase = "running" /\ Current.op = op

\* Control goes on at pc with frame and runtime r.
Goto(pc, frame, r) ==
    LET stk == [stack EXCEPT ![Len(stack)].pc = pc, ![Len(stack)].frame = frame]
    IN  stack' = stk /\ m' = r /\ Boundary(stk, r)
Onward(r) == Goto(Pc + 1, Top.frame, r)

Immediate ==
    /\ Is("imm")
    /\ regs' = [t |-> Current.a.t, n |-> Current.a.n, p |-> Current.a.p, rdi |-> regs.rdi]
    /\ Onward(m)
    /\ UNCHANGED <<prog, phase, code, result>>

Name ==
    /\ Is("name")
    /\ regs' = [regs EXCEPT !.rdi = Current.a]
    /\ Onward(m)
    /\ UNCHANGED <<prog, phase, code, result>>

Store ==
    /\ phase = "running" /\ Current.op \in {"store", "store8"}
    /\ Goto(Pc + 1, IF Current.op = "store" THEN StoreTyped(Top.frame, Current.a)
                    ELSE StoreDouble(Top.frame, Current.a), m)
    /\ UNCHANGED <<prog, phase, code, regs, result>>

Load ==
    /\ Is("load")
    /\ LET s == TypedSlot(Top.frame, Current.a)
       IN  regs' = [t |-> s.t, n |-> s.n, p |-> s.p, rdi |-> regs.rdi]
    /\ Onward(m)
    /\ UNCHANGED <<prog, phase, code, result>>

Result ==
    /\ Is("result")
    /\ regs' = [t |-> m.trace.t, n |-> m.trace.n, p |-> m.trace.p, rdi |-> regs.rdi]
    /\ Onward(m)
    /\ UNCHANGED <<prog, phase, code, result>>

Jump ==
    /\ phase = "running" /\ Current.op \in {"jmp", "jz"}
    /\ Goto(IF Current.op = "jmp" \/ regs.n = 0 THEN Current.a ELSE Pc + 1, Top.frame, m)
    /\ UNCHANGED <<prog, phase, code, regs, result>>

\* The arguments a memory builtin finds in its slots.
Argument(j) == IF Current.a[2].typed THEN TypedSlot(Top.frame, Current.a[2].base + j).n
               ELSE DoubleSlot(Top.frame, Current.a[2].base + j)

\* A helper that clears a trace holding a text calls free: rdi is gone.  The
\* same helper otherwise leaves rdi alone.
Runtime ==
    /\ Is("call")
    /\ Current.a[1] # "call_function"
    /\ LET h == Current.a[1]
           x == Current.a[2]
       IN  /\ Onward(CASE h = "trace_from_regs" -> jit_rt_typed_trace_from_regs(m)
                       [] h = "return_from_regs" -> jit_rt_typed_return_from_regs(m)
                       [] h = "capture_left" -> jit_typed_trace_capture_left(m)
                       [] h = "get_variable" ->
                            jit_rt_typed_get_variable(m, regs.rdi, Top.locals)
                       [] h = "set_variable" -> jit_rt_typed_set_variable(m, regs.rdi)
                       [] h = "declare_variable" ->
                            jit_rt_typed_declare_variable(m, regs.rdi, x)
                       [] h = "binary" -> jit_rt_typed_binary(m, x)
                       [] h = "neg" -> jit_rt_typed_neg(m)
                       [] h = "read" -> jit_rt_mem_read(m, Argument(0))
                       [] h = "write" -> jit_rt_mem_write(m, Argument(0), Argument(1))
                       [] h = "compare" ->
                                jit_rt_mem_compare(m, Argument(0), Argument(1), Argument(2))
                       [] h = "print_begin" -> jit_rt_print_begin(m)
                       [] h = "print_space" -> m
                       [] h = "print_value" -> jit_rt_print_value(m)
                       [] h = "print_newline" -> jit_rt_print_newline(m))
           /\ regs' = [regs EXCEPT !.rdi = IF h = "trace_from_regs" /\ ~HoldsText(m.trace)
                                           THEN @ ELSE ""]
    /\ UNCHANGED <<prog, phase, code, result>>

\* jit_rt_typed_call_function, arp_invoke_function_typed and the start of
\* machine_jit_execute_typed: the arguments become the callee's locals and both
\* traces are cleared.  A wrong number of arguments leaves no result.
Callee ==
    /\ Is("call")
    /\ Current.a[1] = "call_function"
    /\ LET f == prog[regs.rdi]
           argc == Current.a[2].argc
           base == Current.a[2].base
           Arg(i) == jit_slot_to_value(m, TypedSlot(Top.frame, base + argc - i))
           locals == [p \in Range(f.params) |->
                        Arg(CHOOSE i \in DOMAIN f.params : f.params[i] = p)]
       IN  IF Len(f.params) # argc
           THEN Onward(jit_typed_trace_clear(m))
           ELSE /\ stack' = Append([stack EXCEPT ![Len(stack)].pc = @ + 1],
                                   Activation(regs.rdi, locals))
                /\ m' = Cleared(m)
                /\ UNCHANGED begun
    /\ UNCHANGED <<prog, phase, code, regs, result>>

\* The trace is the value of the function that ends; without a type it is the
\* double in xmm0.  The caller's locals are in force again.
Return ==
    /\ Is("ret")
    /\ LET v == IF m.trace.t = "unknown" THEN DoubleV(regs.n) ELSE ValueOf(m, m.trace)
           r == SetTrace(jit_typed_trace_clear(m), v)
           below == Front(stack)
       IN  IF Len(stack) > 1
           THEN /\ stack' = below
                /\ m' = r
                /\ Boundary(below, r)
                /\ UNCHANGED <<phase, result>>
           ELSE /\ phase' = "done"
                /\ result' = v
                /\ m' = r
                /\ begun' = Seen(M!Done, r, IF begun.line > 0 /\ Lines[begun.line].k = "return"
                                            THEN v ELSE Error)
                /\ UNCHANGED stack
    /\ UNCHANGED <<prog, code, regs>>

Next ==
    \/ Compile \/ Immediate \/ Name \/ Store \/ Load \/ Result \/ Jump
    \/ Runtime \/ Callee \/ Return

Spec == Init /\ [][Next]_vars

----------------------------------------------------------------------------

\* The compiled code does what its source says: it is refused exactly when the
\* source is not well formed, and from one line to the next it takes the
\* branches, sets the variables, writes the memory, prints and returns what
\* the meaning of the line gives (مترجم_اللغة.c against رياضيات.c and شجرة.c).
ImplementsMeaning == M!Spec

\* "Both sides are kept in slots on the stack": when an operation runs, the
\* texts of its two sides have not been freed.
OperandsLive ==
    phase = "running" /\ Current.op = "call" /\ Current.a[1] = "binary" =>
        \A x \in {m.left, m.trace} : x.t = "text" => IsLive(m, x.p)

=============================================================================
