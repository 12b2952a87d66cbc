------------------------------ MODULE Programs ------------------------------
(***************************************************************************)
(* The programs of one context: a script is run where it stands, started   *)
(* by the loader in a context of its own, or comes compiled by the host's  *)
(* arpc; it runs line by line, calls its functions and imports libraries   *)
(* while it runs.  Structures and the array under compilation are global,  *)
(* functions, variables and the imported libraries are the context's.      *)
(***************************************************************************)
EXTENDS Executable

CONSTANTS Files, Contents,      \* archive files, and the scripts they may hold
          Names,                \* the variables of the programs
          ARP_MAX_IMPORTED_LIBS,
          MaxCalls              \* bound: calls and imports under way

VARIABLES archive,      \* file -> its lines; <<>>: no such file
          functions,    \* the context's, in registration order
          structs,      \* g_structs
          array,        \* g_array_values
          variables,    \* variable -> its value, <<>> before it has one
          imported,     \* imported_libs, in order
          run,          \* what is executing, innermost last
          script,       \* history: the script that was last compiled
          outcome       \* history: what has come of it

vars == <<archive, functions, structs, array, variables, imported, run, script,
          outcome>>

\* of: the library whose main program this is, or ""; held: the block of code
\* that is being executed has not been freed.
Frame(code, of) == [code |-> code, at |-> 1, of |-> of, held |-> TRUE]

MainFrame(fs, of) == <<Frame(fs[At(fs, Main)].code, of)>>

NoVariables == [x \in Names |-> <<>>]

Init == /\ archive \in [Files -> Contents]
        /\ functions = <<>> /\ structs = {} /\ array = <<>>
        /\ variables = NoVariables /\ imported = <<>>
        /\ run = <<>> /\ script = <<>> /\ outcome = "none"

\* arp_aot_execute: a table of functions emptied by its count, and with it
\* the variables and the structures.
arp_aot_execute(cells) ==
    \E t \in {Loaded(cells, <<>>)} :
       /\ functions' = t.functions
       /\ variables' = NoVariables
       /\ structs' = {}
       /\ outcome' = IF t.ok THEN "loaded" ELSE "refused"
       /\ run' = IF t.ok /\ HasEntry(cells) THEN MainFrame(t.functions, "") ELSE <<>>

\* run_script empties the context first, and leaves what a failed compile left.
RunScript(f) ==
    \E c \in {execute_script(archive[f], archive, <<>>, {})} :
    \E image \in {arp_aot_compile(c.functions, c.structs, array)} :
       /\ run = <<>> /\ archive[f] # <<>>
       /\ imported' = <<>>
       /\ array' = IF c.ok THEN image.array ELSE array
       /\ script' = archive[f]
       /\ IF c.ok /\ image.ok
          THEN arp_aot_execute(image.cells)
          ELSE /\ functions' = c.functions /\ structs' = c.structs
               /\ variables' = NoVariables
               /\ run' = <<>> /\ outcome' = "not compiled"
       /\ UNCHANGED archive

\* loder_start_script: compiled in the caller's context, its functions set
\* aside meanwhile, its structures not; run in a new context.
Start(f) ==
    \E c \in {execute_script(archive[f], archive, <<>>, structs)} :
    \E image \in {arp_aot_compile(c.functions, c.structs, array)} :
       /\ run = <<>> /\ archive[f] # <<>>
       /\ array' = IF c.ok THEN image.array ELSE array
       /\ IF c.ok /\ image.ok
          THEN arp_aot_execute(image.cells) /\ imported' = <<>> /\ script' = archive[f]
          ELSE structs' = c.structs /\ outcome' = "not compiled"
               /\ UNCHANGED <<functions, variables, imported, run, script>>
       /\ UNCHANGED archive

\* A file compiled by arpc on the host, whose tables are not this kernel's.
Execute(f) ==
    \E c \in {execute_script(archive[f], archive, <<>>, {})} :
    \E image \in {arp_aot_compile(c.functions, c.structs, <<>>)} :
       /\ run = <<>> /\ archive[f] # <<>>
       /\ c.ok /\ image.ok
       /\ arp_aot_execute(image.cells)
       /\ imported' = <<>> /\ script' = archive[f]
       /\ UNCHANGED <<archive, array>>

----------------------------------------------------------------------------
Top == run[Len(run)]
Line == Top.code[Top.at]
On == [run EXCEPT ![Len(run)].at = @ + 1 + IMM]

\* The processor is at a call, and the address it finds is that of h.
Calls(h) == /\ run # <<>>
            /\ Line.kind \in DOMAIN Helper
            /\ Top.code[Top.at + 1] = Address(h)

Advance == /\ run # <<>> /\ Line.kind \in {"enter", "mov"}
         /\ run' = [run EXCEPT ![Len(run)].at = @ + 1]
         /\ UNCHANGED <<archive, functions, structs, array, variables, imported, script>>
         /\ outcome' = "running"

Return == /\ run # <<>> /\ Line.kind \in {"leave", "ret"}
          /\ run' = Front(run)
          /\ UNCHANGED <<archive, functions, structs, array, variables, imported, script>>
          /\ outcome' = "running"

\* A function that is missing, or called with other than its number of
\* arguments, leaves its call without effect.
arp_invoke_function_typed ==
    /\ Calls("jit_rt_typed_call_function")
    /\ LET i == At(functions, Line.name)
           callable == /\ function_find(functions, Line.name)
                       /\ Len(functions[i].parameters) = Line.arguments
                       /\ functions[i].code # <<>>
       IN IF callable
          THEN Len(run) < MaxCalls /\ run' = Append(On, Frame(functions[i].code, ""))
          ELSE run' = On
    /\ UNCHANGED <<archive, functions, structs, array, variables, imported, script>>
    /\ outcome' = "running"

jit_rt_declare_array ==
    /\ Calls("jit_rt_declare_array")
    /\ variables' = IF array = <<>> THEN variables ELSE [variables EXCEPT ![Line.name] = array]
    /\ run' = On
    /\ UNCHANGED <<archive, functions, structs, array, imported, script>>
    /\ outcome' = "running"

jit_rt_create_struct ==
    /\ Calls("jit_rt_create_struct")
    /\ variables' = LET s == {t \in structs : t.name = Line.struct /\ t.fields # <<>>}
                    IN [variables EXCEPT ![Line.name] =
                           IF s = {} THEN @ ELSE (CHOOSE t \in s : TRUE).fields]
    /\ run' = On
    /\ UNCHANGED <<archive, functions, structs, array, imported, script>>
    /\ outcome' = "running"

never_imported(l) == FALSE
is_imported(l) == l \in ToSet(imported)

\* Whoever executes a function that is registered anew executes freed code.
Freed(stack, gone) ==
    [i \in DOMAIN stack |-> [stack[i] EXCEPT !.held = @ /\ stack[i].code \notin gone]]

\* library_import: marked before it is compiled and run.  The compile takes
\* every function of the context, those that were loaded without their lines
\* too, and the load registers every one of them again.
Compiled(l, c, image) ==
    IF c.ok /\ image.ok
    THEN \E t \in {Loaded(image.cells, c.functions)} :
           /\ Len(run) < MaxCalls
           /\ array' = image.array
           /\ functions' = t.functions
           /\ run' = Freed(On, {f.code : f \in ToSet(functions)})
                         \o (IF t.ok /\ HasEntry(image.cells)
                             THEN MainFrame(t.functions, l) ELSE <<>>)
    ELSE /\ array' = IF c.ok THEN image.array ELSE array
         /\ functions' = c.functions
         /\ run' = Freed(On, {f.code : f \in ToSet(functions) \ ToSet(c.functions)})

jit_rt_lib_import ==
    /\ Calls("jit_rt_lib_import")
    /\ LET l == Line.file
       IN IF \/ is_imported(l) \/ archive[l] = <<>>
             \/ Len(imported) >= ARP_MAX_IMPORTED_LIBS
          THEN run' = On /\ UNCHANGED <<functions, structs, array, imported>>
          ELSE \E c \in {execute_script(archive[l], archive, functions, structs)} :
               \E image \in {arp_aot_compile(c.functions, c.structs, array)} :
                  /\ imported' = Append(imported, l)
                  /\ structs' = c.structs
                  /\ Compiled(l, c, image)
    /\ UNCHANGED <<archive, variables, script>>
    /\ outcome' = "running"

\* Code that was freed under its own feet is still there, or no longer is:
\* then nothing is known of the run.
Lost == /\ run # <<>> /\ ~Top.held
        /\ run' = <<>>
        /\ UNCHANGED <<archive, functions, structs, array, variables, imported, script>>
        /\ outcome' = "running"

Step == \/ Advance \/ Return \/ arp_invoke_function_typed \/ jit_rt_declare_array
        \/ jit_rt_create_struct \/ jit_rt_lib_import

Begin == \E f \in Files : RunScript(f) \/ Start(f) \/ Execute(f)

Next == Begin \/ Step \/ Lost

Spec == Init /\ [][Next]_vars

----------------------------------------------------------------------------
(* What a script means: its libraries where they are first asked for, and  *)
(* of the functions the last of each name.                                 *)

RECURSIVE Expansion(_, _)
Expansion(lines, seen) ==
    IF lines = <<>> THEN [lines |-> <<>>, seen |-> seen]
    ELSE IF Head(lines).kind # "include"
         THEN LET rest == Expansion(Tail(lines), seen)
              IN [rest EXCEPT !.lines = <<Head(lines)>> \o @]
         ELSE LET l == Head(lines).file
                  inner == IF l \in seen THEN [lines |-> <<>>, seen |-> seen]
                           ELSE Expansion(LinesIn(archive[l]), seen \cup {l})
                  rest == Expansion(Tail(lines), inner.seen)
              IN [rest EXCEPT !.lines = inner.lines \o @]

\* The function whose body line i of a script is in: the line that opens it.
Opening(lines, i) == {j \in 1 .. (i - 1) : /\ lines[j].kind = "function"
                                           /\ \A k \in j .. (i - 1) : lines[k].kind # "end"}

\* The lines of function n, as it was defined last, and of the main program.
BodyOf(lines, n) ==
    LET last == CHOOSE j \in DOMAIN lines :
                   /\ lines[j].kind = "function" /\ lines[j].name = n
                   /\ \A k \in (j + 1) .. Len(lines) :
                         lines[k].kind = "function" => lines[k].name # n
        inside == {i \in DOMAIN lines : last \in Opening(lines, i) /\ lines[i].kind # "end"}
    IN [name |-> n, parameters |-> lines[last].parameters,
        lines |-> [k \in 1 .. Cardinality(inside) |-> lines[last + k]]]

MainOf(lines) ==
    SelectSeq([i \in DOMAIN lines |-> i],
              LAMBDA i : lines[i].kind \in DOMAIN Helper /\ Opening(lines, i) = {})

Linked(lines) ==
    IF lines = <<>> THEN empty_fn
    ELSE <<Enter>> \o FlattenSeq([i \in DOMAIN lines |->
             <<lines[i]>> \o [k \in 1 .. IMM |-> Address(Helper[lines[i].kind])]]) \o <<Leave>>

Meant(lines) ==
    LET defined == {lines[i].name : i \in {j \in DOMAIN lines : lines[j].kind = "function"}}
        main == MainOf(lines)
    IN {LET f == BodyOf(lines, n)
        IN [name |-> n, parameters |-> f.parameters, code |-> Linked(f.lines)] : n \in defined}
       \cup (IF main = <<>> THEN {}
             ELSE {[name |-> Main, parameters |-> <<>>,
                    code |-> Linked([i \in DOMAIN main |-> lines[main[i]]])]})

(* Whatever compiles is accepted by the loader, and when it starts to run  *)
(* the context holds the functions the script defines - its libraries      *)
(* spliced in where they are first asked for, the last definition of each  *)
(* name - each once, with its parameters and with calls that reach the     *)
(* helpers they were compiled for (arp_aot_compile, aot_apply_relocs,      *)
(* aot_register_function).  No library it includes may be without a line:  *)
(* one with nothing but comments replaces all that follows it by the last  *)
(* line (inline_libraries).                                                *)
LoadedAsWritten ==
    /\ outcome # "refused"
    /\ outcome = "loaded" =>
          LET meant == Expansion(LinesIn(script), {})
          IN  (\A l \in meant.seen : LinesIn(archive[l]) # <<>>) =>
                 /\ {[name |-> f.name, parameters |-> f.parameters, code |-> f.code] :
                         f \in ToSet(functions)} = Meant(meant.lines)
                 /\ Cardinality({f.name : f \in ToSet(functions)}) = Len(functions)

(* However libraries import each other while they run, none is run a second *)
(* time in one program, so that a cycle of imports ends (library_import     *)
(* marks a library before it runs it).                                      *)
LibrariesRunOnce ==
    /\ \A i, j \in DOMAIN run : run[i].of = run[j].of /\ run[i].of # "" => i = j
    /\ \A i \in DOMAIN run : run[i].of # "" => run[i].of \in ToSet(imported)
    /\ Cardinality(ToSet(imported)) = Len(imported)

(* What the loader says of a library: its functions are added to the       *)
(* context, none is cleared (arp_aot_execute_library).                     *)
ImportKeepsFunctions ==
    [][run' # <<>> /\ imported' # imported /\ imported' # <<>> =>
          LET lib == {l.name : l \in {m \in ToSet(archive[imported'[Len(imported')]]) : m.kind = "function"}}
          IN \A f \in ToSet(functions) :
                f.name \in lib \cup {Main} \/ \E g \in ToSet(functions') : g = f]_vars
=============================================================================
