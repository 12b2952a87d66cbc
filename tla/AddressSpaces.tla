--------------------------- MODULE AddressSpaces ---------------------------
(***************************************************************************)
(* Paging and address spaces: the kernel's identity map built at start-up, *)
(* map_page, which splits a huge page or adds the missing tables, and the  *)
(* spaces the processes run in, which share entry 0 of the kernel's top    *)
(* table.  Memory is a row of pages named by their numbers; a table is a   *)
(* page holding Entries entries.  The bitmap of frames is abstracted to    *)
(* the set of frames in use.  A step is a whole call: these calls run with *)
(* interrupts on, and what two calls of alloc_frame that overlap do to the *)
(* bitmap is module FrameAllocator's; here no call overtakes another.      *)
(***************************************************************************)
EXTENDS FiniteSetsExt, Integers

CONSTANTS
    Entries,        \* ENTRIES, the entries of a table
    Tables,         \* TABLES, the page directories of the identity map
    MinRam,         \* the 4 GB paging_init maps at least, in pages
    RamSizes,       \* the sizes of memory the boot loader may report, in pages
    Spaces,         \* the address_space_t structures the heap can give
    Kernel,         \* kernel_space
    HeapStart,      \* HEAP_START, the heap's first page
    HeapPages,      \* bound: the pages the heap grows to
    TestAddr,       \* the page core_memory maps a fresh frame at
    Mmio,           \* MMIO window: virtual page -> page of the device
    UserPages,      \* the virtual pages map_to is called with
    MapPages,       \* the virtual pages programs map by memory_raw_map
    MapTargets,     \* the pages of memory or of devices they map there
    MaxHeld         \* bound: alloc_page gives out a frame while fewer are held

\* The pages below a directory, below an entry of the top table, and of a space.
DirSize == Entries * Entries
TopSize == Entries * Entries * Entries
SpaceSize == Entries * Entries * Entries * Entries

\* The pages mapped in the kernel's tables: all below entry 0 of the top table.
Windows == HeapStart .. HeapStart + HeapPages - 1 \cup {TestAddr} \cup DOMAIN Mmio
           \cup MapPages

ASSUME SpaceAssumption ==
    /\ {Entries, Tables} \subseteq Nat \ {0} /\ Tables <= Entries
    /\ MinRam \in Nat /\ RamSizes \subseteq 0 .. Tables * DirSize
    /\ Kernel \notin Spaces
    /\ HeapStart \in Nat /\ HeapPages \in Nat \ {0} /\ Windows \subseteq 0 .. TopSize - 1
    /\ TestAddr \notin HeapStart .. HeapStart + HeapPages - 1
    /\ MapTargets \subseteq Nat
    /\ UserPages \subseteq TopSize .. SpaceSize - 1

VARIABLES
    ram,        \* g_total_ram_bytes in pages, which the boot code cuts to 64 GB
    mem,        \* the page tables: page -> its entries
    used,       \* the frames alloc_frame has given out
    pml4,       \* the live spaces and their top tables
    current,    \* current_space, the one whose tables CR3 holds
    held,       \* the frames alloc_page gave to a caller that has not mapped them in
                \* a space of its own, and the frames under the heap
    heapEnd,    \* heap_end, the page after the heap's last
    booted,     \* how far core_init and core_memory are: "heap", "mmio", "yes"
    zeroTable,  \* history: a table was placed at physical address 0
    space       \* kernel_process: the space of the process on the CPU, or Kernel

vars == <<ram, mem, used, pml4, current, held, heapEnd, booted, zeroTable, space>>

Index == 0 .. Entries - 1
Absent == [at |-> 0, present |-> FALSE, huge |-> FALSE]
Present(page) == [at |-> page, present |-> TRUE, huge |-> FALSE]
Huge(page) == [at |-> page, present |-> TRUE, huge |-> TRUE]
Blank == [i \in Index |-> Absent]

\* What a free frame holds: something its last user left there.
Garbage == [i \in Index |-> Present(0)]

PML4_INDEX(v) == v \div TopSize
PDPT_INDEX(v) == (v \div DirSize) % Entries
PD_INDEX(v) == (v \div Entries) % Entries
PT_INDEX(v) == v % Entries

\* The kernel image: page 0, then the static tables, then the frame bitmap.
pml4_table == 1
pdpt_table == 2
pd_table(t) == 3 + t
Bitmap == 3 + Tables
FirstFrame == Bitmap + 1
Frames == FirstFrame .. ram - 1

\* The pages of a memory of this size, or of the kernel image.
PagesOf(size) == 0 .. Max({size, FirstFrame})

Fault == -1

\* The page the processor reaches for the virtual page v under a top table.
Translate(m, root, v) ==
    LET a == m[root][PML4_INDEX(v)]
        b == m[a.at][PDPT_INDEX(v)]
        c == m[b.at][PD_INDEX(v)]
        d == m[c.at][PT_INDEX(v)]
    IN IF ~a.present \/ ~b.present \/ ~c.present THEN Fault
       ELSE IF c.huge THEN c.at + PT_INDEX(v)
       ELSE IF d.present THEN d.at ELSE Fault

---------------------------------------------------------------------------
(* paging_init and the frames.                                             *)

\* Mutant of gb_count: the size is rounded down.
gb_count_down(size) ==
    LET count == size \div DirSize
    IN IF count > Tables THEN Tables ELSE IF count < 1 THEN 1 ELSE count

\* The gigabytes of the identity map: the memory rounded up, at most Tables.
gb_count(size) ==
    LET bytes == IF size < MinRam THEN MinRam ELSE size
        count == (bytes + DirSize - 1) \div DirSize
    IN IF count > Tables THEN Tables ELSE IF count < 1 THEN 1 ELSE count

IdentityMap(size) ==
    [page \in PagesOf(size) |->
        CASE page = pml4_table -> [Blank EXCEPT ![0] = Present(pdpt_table)]
          [] page = pdpt_table ->
                [i \in Index |-> IF i < gb_count(size) THEN Present(pd_table(i)) ELSE Absent]
          [] page \in {pd_table(t) : t \in 0 .. gb_count(size) - 1} ->
                [i \in Index |-> Huge((page - pd_table(0)) * DirSize + i * Entries)]
          [] OTHER -> Garbage]

\* alloc_frame: the lowest free frame, 0 when there is none.
AllocFrame(taken) ==
    IF Frames \subseteq taken THEN 0 ELSE Min(Frames \ taken)

\* free_frame ignores an address below the first frame.
FreeFrames(taken, pages) == taken \ pages

---------------------------------------------------------------------------
(* map_page.  A walk w carries the memory, the frames in use and the table *)
(* it has come to.                                                         *)

\* A new table, cleared, hung below entry i of the table reached.
AddTable(w, i, content) ==
    LET f == AllocFrame(w.used) IN
    [mem |-> [w.mem EXCEPT ![f] = content, ![w.table][i] = Present(f)],
     used |-> w.used \cup ({f} \ {0}),
     zero |-> w.zero \/ f = 0,
     table |-> f]

\* Mutant of Split: every entry names the first page.
SplitSame(page) == [i \in Index |-> Present(page)]

\* The 4 KB entries that stand for the huge page at page.
Split(page) == [i \in Index |-> Present(page + i)]

Descend(w, i) ==
    LET entry == w.mem[w.table][i] IN
    IF ~entry.present THEN AddTable(w, i, Blank)
    ELSE IF entry.huge THEN AddTable(w, i, Split(entry.at))
    ELSE [w EXCEPT !.table = entry.at]

MapPage(taken, root, v, page) ==
    LET top == [mem |-> mem, used |-> taken, zero |-> zeroTable, table |-> root]
        pt == Descend(Descend(Descend(top, PML4_INDEX(v)), PDPT_INDEX(v)), PD_INDEX(v))
    IN [pt EXCEPT !.mem[pt.table][PT_INDEX(v)] = Present(page)]

\* The effect of map_page on the state.
Mapped(w) == mem' = w.mem /\ used' = w.used /\ zeroTable' = w.zero

---------------------------------------------------------------------------
(* Start-up: core_init's memory_api.init, then core_memory.                *)

Init ==
    /\ ram \in RamSizes
    /\ mem = IdentityMap(ram)
    /\ used = {}
    /\ pml4 = [s \in {Kernel} |-> pml4_table]
    /\ current = Kernel
    /\ held = {}
    /\ heapEnd = HeapStart
    /\ booted = "heap"
    /\ zeroTable = FALSE
    /\ space = Kernel

\* heap_map_one_page: a frame of the heap's, mapped where the heap ends.
HeapPage ==
    /\ AllocFrame(used) # 0
    /\ Mapped(MapPage(used \cup {AllocFrame(used)}, pml4_table, heapEnd, AllocFrame(used)))
    /\ held' = held \cup {AllocFrame(used)}
    /\ heapEnd' = heapEnd + 1
    /\ UNCHANGED <<ram, pml4, current, space>>

\* heap_init maps the first page; memories are large enough for it ...
HeapInit == booted = "heap" /\ HeapPage /\ booted' = "mmio"

\* ... and kmalloc adds pages later.
HeapGrows == booted = "yes" /\ heapEnd < HeapStart + HeapPages /\ HeapPage /\ UNCHANGED booted

\* core_memory maps the registers of the LAPIC and the IO-APIC ...
MapMmio ==
    /\ booted = "mmio"
    /\ \E v \in DOMAIN Mmio :
        /\ Translate(mem, pml4_table, v) # Mmio[v]
        /\ \A u \in DOMAIN Mmio : u > v => Translate(mem, pml4_table, u) = Mmio[u]
        /\ Mapped(MapPage(used, pml4_table, v, Mmio[v]))
    /\ UNCHANGED <<ram, pml4, current, held, heapEnd, booted, space>>

\* ... then a fresh frame at the test address, and starts the rest.
MapTest ==
    /\ booted = "mmio"
    /\ \A v \in DOMAIN Mmio : Translate(mem, pml4_table, v) = Mmio[v]
    /\ LET fresh == {AllocFrame(used)} \ {0} IN
        /\ Mapped(MapPage(used \cup fresh, pml4_table, TestAddr, AllocFrame(used)))
        /\ held' = held \cup fresh
    /\ booted' = "yes"
    /\ UNCHANGED <<ram, pml4, current, heapEnd, space>>

\* execute_memory_map: a program maps a page of its choice in the kernel's tables.
MemoryMap(v, page) ==
    /\ booted = "yes"
    /\ Mapped(MapPage(used, pml4_table, v, page))
    /\ UNCHANGED <<ram, pml4, current, held, heapEnd, booted, space>>

---------------------------------------------------------------------------
(* The address spaces.                                                     *)

\* Mutant of copy_kernel_mappings: the new space starts empty.
copy_no_mappings(entries) == entries

\* Mutant of copy_kernel_mappings: what the frame's last user left is not cleared.
copy_uncleared(entries) == [Garbage EXCEPT ![0] = mem[pml4_table][0]]

\* Mutant of copy_kernel_mappings: all of the current space's top table is copied.
copy_current_mappings(entries) == mem[pml4[current]]

copy_kernel_mappings(entries) == [entries EXCEPT ![0] = mem[pml4_table][0]]

\* address_space_create: the structure from the heap, the top table from the frames.
AddressSpaceCreate(s) ==
    /\ booted = "yes" /\ s \notin DOMAIN pml4
    /\ LET f == AllocFrame(used) IN
        /\ f # 0
        /\ used' = used \cup {f}
        /\ mem' = [mem EXCEPT ![f] = copy_kernel_mappings(Blank)]
        /\ pml4' = [x \in DOMAIN pml4 \cup {s} |-> IF x = s THEN f ELSE pml4[x]]
    /\ UNCHANGED <<ram, current, held, heapEnd, booted, zeroTable, space>>

\* alloc_page gives a frame to a caller.
AllocPage ==
    /\ booted = "yes"
    /\ AllocFrame(used) # 0 /\ Cardinality(held) < MaxHeld
    /\ used' = used \cup {AllocFrame(used)}
    /\ held' = held \cup {AllocFrame(used)}
    /\ UNCHANGED <<ram, mem, pml4, current, heapEnd, booted, zeroTable, space>>

\* map_to: a caller puts a frame it holds (none the kernel has mapped elsewhere) at a
\* page of a space it has not mapped; the space owns the frame from here on.
MapTo(s, v, f) ==
    /\ booted = "yes"
    /\ s \in DOMAIN pml4 \ {Kernel} /\ f \in held
    /\ \A k \in {TestAddr} \cup HeapStart .. heapEnd - 1 : Translate(mem, pml4_table, k) # f
    /\ Translate(mem, pml4[s], v) = Fault
    /\ Mapped(MapPage(used, pml4[s], v, f))
    /\ held' = held \ {f}
    /\ UNCHANGED <<ram, pml4, current, heapEnd, booted, space>>

\* Mutant of FirstOwn: the kernel's entry is freed too.
FirstAll == 0

\* The first entry of the top table that address_space_destroy frees.
FirstOwn == 1

Below(table) == {mem[table][i].at : i \in {j \in Index : mem[table][j].present}}

\* Mutant of OwnPages: the page tables are not given back.
OwnPagesOnly(root) ==
    LET pdpts == {mem[root][i].at : i \in {j \in FirstOwn .. Entries - 1 : mem[root][j].present}}
        pds == UNION {Below(t) : t \in pdpts}
    IN {root} \cup pdpts \cup pds \cup UNION {Below(t) : t \in UNION {Below(u) : u \in pds}}

\* What address_space_destroy gives back: the tables below the entries from
\* FirstOwn on, the pages they map and the top table.
OwnPages(root) ==
    LET pdpts == {mem[root][i].at : i \in {j \in FirstOwn .. Entries - 1 : mem[root][j].present}}
        pds == UNION {Below(t) : t \in pdpts}
        pts == UNION {Below(t) : t \in pds}
        small == UNION {{mem[t][i].at : i \in {j \in Index : mem[t][j].present /\ ~mem[t][j].huge}}
                          : t \in pds}
    IN {root} \cup pdpts \cup pds \cup pts \cup UNION {Below(t) : t \in small}

AddressSpaceDestroy(s) ==
    /\ used' = FreeFrames(used, OwnPages(pml4[s]))
    /\ mem' = [f \in DOMAIN mem |-> IF f \in used \ used' THEN Garbage ELSE mem[f]]
    /\ pml4' = [x \in DOMAIN pml4 \ {s} |-> pml4[x]]

\* process_exit_current: the process destroys the space it runs in; CR3 keeps
\* the old tables until the scheduler switches.
Exit ==
    /\ space # Kernel
    /\ AddressSpaceDestroy(space)
    /\ space' = Kernel
    /\ UNCHANGED <<ram, current, held, heapEnd, booted, zeroTable>>

\* schedule and process_switch load the tables of the next process.
AddressSpaceSwitch(s) ==
    /\ s \in DOMAIN pml4 \ {Kernel, current}
    /\ current' = s /\ space' = s
    /\ UNCHANGED <<ram, mem, used, pml4, held, heapEnd, booted, zeroTable>>

\* Nothing but the switch runs between the destruction of the current space
\* and the switch: the exiting process calls nothing that maps or allocates.
\* Bound: the model goes no further than the first map_page that ran out of frames.
Alive == current \in DOMAIN pml4 /\ ~zeroTable

Call ==
    \/ HeapInit
    \/ ~zeroTable /\ MapMmio
    \/ ~zeroTable /\ MapTest
    \/ Alive /\ \E v \in MapPages, page \in MapTargets : MemoryMap(v, page)
    \/ Alive /\ \E s \in Spaces : AddressSpaceCreate(s)
    \/ Alive /\ AllocPage
    \/ Alive /\ HeapGrows
    \/ Alive /\ \E s \in Spaces, v \in UserPages, f \in held : MapTo(s, v, f)
    \/ Alive /\ Exit
    \/ \E s \in Spaces : AddressSpaceSwitch(s)

\* Bound: no frame that lies under a window is given out.  The code would write a
\* table to its physical address, which the window now leads elsewhere.
Next == Call /\ used' \cap Windows = {}

Spec == Init /\ [][Next]_vars

---------------------------------------------------------------------------
(* Properties.                                                             *)

Roots == {pml4[s] : s \in DOMAIN pml4}
Pages == 0 .. SpaceSize - 1

\* Every table is written through its physical address: for every size of the
\* memory, also one that the windows lie in, each page of it but the windows is
\* mapped to itself in the kernel and in every live space.  When map_page has just
\* run out of frames, so is each page that shares no huge page with a window.
RamIsIdentity ==
    \A root \in Roots, page \in 0 .. ram - 1 \ Windows :
        (zeroTable => \A v \in Windows : page \div Entries # v \div Entries)
            => Translate(mem, root, page) = page

\* The kernel is the same in all spaces: an interrupt taken under any space
\* reaches the kernel, the heap and the registers of the LAPIC and IO-APIC.
KernelIsShared ==
    \A root \in Roots : \A v \in 0 .. TopSize - 1 :
        Translate(mem, root, v) = Translate(mem, pml4_table, v)

\* What one entry of a table refers to, as <<table, index, page>>, from the
\* entries a space owns down to the pages it maps.
Links(root) ==
    LET level(ts) ==
            UNION {{<<t, i, mem[t][i].at>> : i \in {j \in Index : mem[t][j].present}} : t \in ts}
        ends(ls) == {l[3] : l \in ls}
        l4 == {l \in level({root}) : l[2] >= 1}
        l3 == level(ends(l4))
        l2 == level(ends(l3))
    IN l4 \cup l3 \cup l2 \cup level(ends(l2))

UserLinks == UNION {Links(root) : root \in Roots \ {pml4_table}}

\* While alloc_frame has not failed inside map_page, no frame serves twice: each
\* page below a process's tables hangs under one entry of one table, is taken, and
\* is not a frame some caller holds; so destroying a space frees nothing of another.
OwnedOnce ==
    ~zeroTable =>
        /\ \A x, y \in UserLinks : x[3] = y[3] => x = y
        /\ held \subseteq used
        /\ \A x \in UserLinks : x[3] \in used \ (held \cup Roots)

\* No frame is lost while alloc_frame has not failed inside map_page: whatever is
\* taken belongs to a live space, to the kernel's own tables or to a caller of
\* alloc_page, also after processes have exited.
NothingLost ==
    LET pds == Below(pdpt_table)
    IN ~zeroTable => used \subseteq Roots \cup held \cup {l[3] : l \in UserLinks}
                                    \cup pds \cup UNION {Below(t) : t \in pds}

\* Mapping a page moves that page only: no other virtual page of any live space
\* changes its translation, also when a huge page is split to make room.
MapMovesOnePage ==
    [][~zeroTable' /\ DOMAIN pml4' = DOMAIN pml4 =>
        \A root \in Roots :
            Cardinality({v \in Pages : Translate(mem', root, v) # Translate(mem, root, v)}) <= 1]_vars

\* A space is a map: start-up leaves the identity map; map_page moves one page, for
\* the kernel in all spaces and for a process in its own only, where it had none and
\* no process reaches what it gets; a new space begins with the kernel's part alone;
\* an exit disturbs no other space.
Maps == INSTANCE Mappings WITH
            map <- [s \in DOMAIN pml4 |-> [v \in Pages |-> Translate(mem, pml4[s], v)]],
            failed <- zeroTable, Low <- 0 .. TopSize - 1

ImplementsMappings == Maps!MapsSpec

\* No process reaches memory of another: above the kernel's part, a page of memory
\* is seen at one page of one live space.
ProcessesApart == Maps!Apart

=============================================================================
