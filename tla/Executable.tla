----------------------------- MODULE Executable -----------------------------
(***************************************************************************)
(* From a script to the functions of a context: libraries are spliced in,  *)
(* functions and structures collected, every function compiled without     *)
(* absolute addresses, all of it laid out in one file, and the file loaded *)
(* again, its code copied and relocated.  A line is a record; the text of  *)
(* a line is modelled elsewhere (Source, Parser) and so is the code of one *)
(* (Compiler).  A file is a sequence of cells, one to a byte, in which a   *)
(* header is one cell and the rest of its bytes empty ones.                *)
(***************************************************************************)
EXTENDS Naturals, FiniteSets, SequencesExt

CONSTANTS Main,                 \* "__main__", as characters
          ARP_MAX_INLINE_LIBS

\* Lines.
Function(n, ps) == [kind |-> "function", name |-> n, parameters |-> ps]
End(n)          == [kind |-> "end", name |-> n]
Struct(s)       == [kind |-> "struct", name |-> s]
Field(x)        == [kind |-> "field", name |-> x]
EndStruct       == [kind |-> "end_struct"]
Include(l)      == [kind |-> "include", file |-> l]
Import(l)       == [kind |-> "import", file |-> l]
Invoke(n, k)    == [kind |-> "invoke", name |-> n, arguments |-> k]
Instance(s, x)  == [kind |-> "instance", struct |-> s, name |-> x]
Array(x, vs)    == [kind |-> "array", name |-> x, values |-> vs]
Comment         == [kind |-> "comment"]        \* or an empty line

\* What a line of a function's body calls when it runs.
Helper == [import |-> "jit_rt_lib_import", invoke |-> "jit_rt_typed_call_function",
           instance |-> "jit_rt_create_struct", array |-> "jit_rt_declare_array"]

g_jit_symbols == <<"jit_rt_declare_array", "jit_rt_typed_call_function",
                   "jit_rt_create_struct", "jit_rt_lib_import">>

Failed == [ok |-> FALSE]

\* The result of steps taken one after the other: each binds the value of the
\* one before it, so that TLC computes it once.
The(S) == CHOOSE v \in S : TRUE
After(step(_, _), base, s) ==
    LET result[i \in 0 .. Len(s)] ==
            IF i = 0 THEN base ELSE The({step(v, s[i]) : v \in {result[i - 1]}})
    IN result[Len(s)]

----------------------------------------------------------------------------
(* The script: libraries, functions, structures, the main lines.           *)

\* The lines that are left of a file: comment_remove and read_line.
LinesIn(file) == SelectSeq(file, LAMBDA l : l.kind # "comment")

\* The lines of a library in the place of line i: the lines behind it are moved
\* by one less than there are, from the last on.  Without any they are moved
\* back by one, so that each is the last one before it is moved.  (Lines that
\* are repeated share their memory, which is freed more than once: left out.)
Replaced(lines, i, lib) ==
    SubSeq(lines, 1, i - 1) \o lib
        \o [k \in 1 .. (Len(lines) - i) |-> IF lib = <<>> THEN Last(lines) ELSE lines[i + k]]

RECURSIVE Spliced(_, _, _, _)
Spliced(lines, i, included, archive) ==
    IF i > Len(lines) THEN [ok |-> TRUE, lines |-> lines]
    ELSE LET l == lines[i]
         IN IF l.kind # "include" THEN Spliced(lines, i + 1, included, archive)
            ELSE IF l.file \in included THEN Spliced(RemoveAt(lines, i), i, included, archive)
            ELSE IF \/ archive[l.file] = <<>>
                    \/ Cardinality(included) >= ARP_MAX_INLINE_LIBS THEN Failed
            ELSE Spliced(Replaced(lines, i, LinesIn(archive[l.file])), i,
                         included \cup {l.file}, archive)

inline_libraries(lines, archive) == Spliced(lines, 1, {}, archive)

At(functions, n) == CHOOSE i \in DOMAIN functions : functions[i].name = n

function_find(functions, n) == \E i \in DOMAIN functions : functions[i].name = n

\* A function of that name is freed and filled anew where it stands.
Registered(functions, f) ==
    IF function_find(functions, f.name) THEN [functions EXCEPT ![At(functions, f.name)] = f]
    ELSE Append(functions, f)

function_register(functions, n, ps, lines) ==
    Registered(functions, [name |-> n, parameters |-> ps, lines |-> lines, code |-> <<>>])

function_register_aot(functions, n, ps, code) ==
    Registered(functions, [name |-> n, parameters |-> ps, lines |-> <<>>, code |-> code])

struct_register(structs, s, fields) ==
    {t \in structs : t.name # s} \cup {[name |-> s, fields |-> fields]}

\* The body of a function runs to the first end line, the fields of a
\* structure to its end line; c is what has been collected.
FirstOf(lines, kind) == SelectInSeq(lines, LAMBDA l : l.kind = kind)

RECURSIVE Collected(_, _)
Collected(lines, c) ==
    IF lines = <<>> THEN c
    ELSE LET l == Head(lines)
             rest == Tail(lines)
             upto(j) == SubSeq(rest, 1, j - 1)
             after(j) == SubSeq(rest, j + 1, Len(rest))
         IN CASE l.kind = "function" ->
                   LET j == FirstOf(rest, "end")
                   IN IF j = 0 \/ (j # 0 /\ rest[j].name # l.name) THEN [c EXCEPT !.ok = FALSE]
                      ELSE Collected(after(j), [c EXCEPT !.functions =
                               function_register(@, l.name, l.parameters, upto(j))])
              [] l.kind = "struct" ->
                   LET j == FirstOf(rest, "end_struct")
                   IN IF j = 0 \/ \E k \in 1 .. (j - 1) : rest[k].kind # "field"
                      THEN [c EXCEPT !.ok = FALSE]
                      ELSE Collected(after(j), [c EXCEPT !.structs =
                               struct_register(@, l.name, [k \in 1 .. (j - 1) |-> rest[k].name])])
              [] OTHER -> Collected(rest, [c EXCEPT !.main = Append(@, l)])

execute_script(script, archive, functions, structs) ==
    LET spliced == inline_libraries(LinesIn(script), archive)
        c == Collected(spliced.lines, [ok |-> TRUE, functions |-> functions,
                                       structs |-> structs, main |-> <<>>])
    IN IF LinesIn(script) = <<>> \/ ~spliced.ok
       THEN [ok |-> FALSE, functions |-> functions, structs |-> structs]
       ELSE [ok |-> c.ok, structs |-> c.structs,
             functions |-> IF c.ok /\ c.main # <<>>
                           THEN function_register(c.functions, Main, <<>>, c.main)
                           ELSE c.functions]

----------------------------------------------------------------------------
(* The code of a function: every call leaves room for an address, and      *)
(* notes where.  The values of an array go to a table of the compiler's.   *)

IMM == 2                        \* the eight bytes of an address
Room == [i \in 1 .. IMM |-> [kind |-> "room"]]
Address(helper) == [kind |-> "address", of |-> helper]
Enter == [kind |-> "enter"]         \* prologue and epilogue
Leave == [kind |-> "leave"]
empty_fn == <<[kind |-> "mov"], [kind |-> "ret"]>>

symbol_id(helper) == SelectInSeq(g_jit_symbols, LAMBDA s : s = helper) - 1

jit_emit_call_helper(b, l) ==
    [b EXCEPT !.code = @ \o <<l>> \o Room,
              !.relocs = Append(@, [offset |-> Len(b.code) + 1,
                                    symbol |-> symbol_id(Helper[l.kind])])]

Compilable(l, structs) ==
    /\ l.kind \in DOMAIN Helper
    /\ l.kind = "instance" => \E s \in structs : s.name = l.struct

CompileLine(b, l, structs) ==
    IF ~b.ok \/ ~Compilable(l, structs) THEN [b EXCEPT !.ok = FALSE]
    ELSE [jit_emit_call_helper(b, l) EXCEPT
              !.array = IF l.kind = "array" THEN l.values ELSE @]

compile_function_reloc(lines, structs, array) ==
    LET begun == [ok |-> TRUE, code |-> <<Enter>>, relocs |-> <<>>, array |-> array]
        body == After(LAMBDA b, l : CompileLine(b, l, structs), begun, lines)
    IN IF lines = <<>> THEN [begun EXCEPT !.code = empty_fn]
       ELSE [body EXCEPT !.code = Append(@, Leave)]

----------------------------------------------------------------------------
(* The file: [ header ][ function headers ][ names ][ code ][ relocations ] *)

HEADER == 48
FUNCTION == 36
RELOC == 8
AOT_ALIGN(x, a) == ((x + a - 1) \div a) * a

Wide(record, size) == <<record>> \o [i \in 1 .. (size - 1) |-> 0]
WideAll(records, size) == FlattenSeq([i \in DOMAIN records |-> Wide(records[i], size)])
pad_to(cells, target) == cells \o [i \in 1 .. (target - Len(cells)) |-> 0]

\* A text is kept once, with a zero behind it.
aot_st_add(st, text) ==
    IF \E e \in st.known : e.text = text THEN st
    ELSE [known |-> st.known \cup {[text |-> text, offset |-> Len(st.cells)]},
          cells |-> st.cells \o text \o <<"zero">>]

aot_st_offset(st, text) == (CHOOSE e \in st.known : e.text = text).offset

Joined_tight(ps) == FlattenSeq(ps)
Joined(ps) == FlattenSeq([i \in DOMAIN ps |->
                  IF i < Len(ps) THEN Append(ps[i], "newline") ELSE ps[i]])

aot_add_texts(st, f) ==
    IF f.parameters = <<>> THEN aot_st_add(st, f.name)
    ELSE aot_st_add(aot_st_add(st, f.name), Joined(f.parameters))

\* w: what is written so far; c: the code of f; st: the texts with those of f.
WithFunction(w, f, c, st) ==
    LET fh == [name_offset |-> aot_st_offset(st, f.name), name_len |-> Len(f.name),
               code_offset |-> Len(w.code), code_size |-> Len(c.code),
               param_count |-> Len(f.parameters),
               reloc_first |-> Len(w.relocs), reloc_count |-> Len(c.relocs),
               params_offset |-> IF f.parameters = <<>> THEN 0
                                 ELSE aot_st_offset(st, Joined(f.parameters)),
               params_len |-> Len(Joined(f.parameters))]
    IN [ok |-> TRUE, array |-> c.array, strings |-> st,
        code |-> w.code \o c.code, relocs |-> w.relocs \o c.relocs,
        headers |-> Append(w.headers, fh),
        entry |-> IF f.name = Main THEN Len(c.code) ELSE w.entry]

aot_add_function(w, f, structs) ==
    IF ~w.ok THEN w
    ELSE The({IF ~c.ok THEN [w EXCEPT !.ok = FALSE, !.array = c.array]
              ELSE The({WithFunction(w, f, c, st) : st \in {aot_add_texts(w.strings, f)}}) :
                  c \in {compile_function_reloc(f.lines, structs, w.array)}})

Assembled(w) ==
    LET strings_offset == AOT_ALIGN(HEADER + Len(w.headers) * FUNCTION, 16)
        code_offset == AOT_ALIGN(strings_offset + Len(w.strings.cells), 16)
        reloc_offset == AOT_ALIGN(code_offset + Len(w.code), 8)
        hdr == [function_count |-> Len(w.headers), entry_size |-> w.entry,
                strings_offset |-> strings_offset, strings_size |-> Len(w.strings.cells),
                code_offset |-> code_offset, code_size |-> Len(w.code),
                reloc_offset |-> reloc_offset, reloc_count |-> Len(w.relocs)]
        heads == Wide(hdr, HEADER) \o WideAll(w.headers, FUNCTION)
        texts == pad_to(heads, strings_offset) \o w.strings.cells
        codes == pad_to(texts, code_offset) \o w.code
    IN [ok |-> w.ok, array |-> w.array,
        cells |-> IF w.ok THEN pad_to(codes, reloc_offset) \o WideAll(w.relocs, RELOC) ELSE <<>>]

arp_aot_compile(functions, structs, array) ==
    LET nothing == [ok |-> TRUE, array |-> array, strings |-> [known |-> {}, cells |-> <<>>],
                    code |-> <<>>, relocs |-> <<>>, headers |-> <<>>, entry |-> 0]
    IN The({Assembled(w) :
               w \in {After(LAMBDA v, f : aot_add_function(v, f, structs), nothing, functions)}})

----------------------------------------------------------------------------
(* Loading: bounds first, then function by function a copy of its code,    *)
(* the addresses of this kernel's helpers in it, and its parameters' names. *)

Piece(cells, offset, size) == SubSeq(cells, offset + 1, offset + size)

aot_apply_relocs(cells, hdr, fh) ==
    LET rel(k) == cells[hdr.reloc_offset + (fh.reloc_first + k - 1) * RELOC + 1]
        code == Piece(cells, hdr.code_offset + fh.code_offset, fh.code_size)
        written(c, k) == [i \in DOMAIN c |->
            IF i \in (rel(k).offset + 1) .. (rel(k).offset + IMM)
            THEN Address(g_jit_symbols[rel(k).symbol + 1]) ELSE c[i]]
    IN IF \/ fh.reloc_first + fh.reloc_count > hdr.reloc_count
          \/ \E k \in 1 .. fh.reloc_count : rel(k).offset + IMM > fh.code_size
       THEN Failed
       ELSE [ok |-> TRUE, code |-> After(written, code, [k \in 1 .. fh.reloc_count |-> k])]

\* The names between the newlines.
RECURSIVE Split(_)
Split(text) ==
    LET j == SelectInSeq(text, LAMBDA c : c = "newline")
    IN IF j = 0 THEN <<text>>
       ELSE <<SubSeq(text, 1, j - 1)>> \o Split(SubSeq(text, j + 1, Len(text)))

aot_register_function(functions, cells, hdr, fh, code) ==
    LET text(offset, size) == Piece(cells, hdr.strings_offset + offset, size)
        names == Split(text(fh.params_offset, fh.params_len))
        name == text(fh.name_offset, fh.name_len)
    IN IF fh.param_count = 0
       THEN [ok |-> TRUE, functions |-> function_register_aot(functions, name, <<>>, code)]
       ELSE IF \/ fh.params_len = 0
               \/ fh.params_offset + fh.params_len >= hdr.strings_size
               \/ Len(names) # fh.param_count
            THEN [ok |-> FALSE, functions |-> functions]
            ELSE [ok |-> TRUE, functions |-> function_register_aot(functions, name, names, code)]

LoadFunction(t, cells, hdr, fh) ==
    LET code == aot_apply_relocs(cells, hdr, fh)
    IN IF \/ ~t.ok
          \/ fh.name_offset + fh.name_len >= hdr.strings_size
          \/ fh.code_size = 0
          \/ fh.code_offset + fh.code_size > hdr.code_size
          \/ ~code.ok
       THEN [t EXCEPT !.ok = FALSE]
       ELSE aot_register_function(t.functions, cells, hdr, fh, code.code)

\* The part arp_aot_execute and arp_aot_execute_library share.
Loaded(cells, functions) ==
    LET hdr == cells[1]
        fh(i) == cells[HEADER + (i - 1) * FUNCTION + 1]
    IN IF \/ HEADER + hdr.function_count * FUNCTION > Len(cells)
          \/ hdr.strings_offset + hdr.strings_size > Len(cells)
          \/ hdr.code_offset + hdr.code_size > Len(cells)
          \/ hdr.reloc_offset + hdr.reloc_count * RELOC > Len(cells)
       THEN [ok |-> FALSE, functions |-> functions]
       ELSE After(LAMBDA t, i : LoadFunction(t, cells, hdr, fh(i)),
                  [ok |-> TRUE, functions |-> functions],
                  [i \in 1 .. hdr.function_count |-> i])

HasEntry(cells) == cells[1].entry_size > 0
=============================================================================
