------------------------------ MODULE Mappings ------------------------------
(***************************************************************************)
(* What paging promises its callers: an address space is a map from pages  *)
(* to pages.  The kernel's part is one and the same in all spaces; above   *)
(* it each space has its own, where a page appears in one place only, and  *)
(* which nobody else's calls disturb.                                      *)
(***************************************************************************)
EXTENDS Integers

CONSTANTS
    Kernel, Spaces,     \* the kernel's space and the others
    Pages,              \* the pages of a space
    Low,                \* those the kernel maps
    Fault               \* no page

VARIABLES
    map,        \* map[s][v]: the page that page v of the live space s leads to
    failed      \* a page could not be mapped for want of frames

MapsInit ==
    /\ failed = FALSE
    /\ DOMAIN map = {Kernel}
    /\ \E last \in Low : \A v \in Pages : map[Kernel][v] = IF v <= last THEN v ELSE Fault

\* Page v of these spaces, and no other page of any space, leads elsewhere.
OnlyMoves(spaces, v) ==
    \A s \in DOMAIN map :
        LET old == map[s]
            new == map'[s]
        IN  \A u \in Pages : new[u] # old[u] => s \in spaces /\ u = v

\* All spaces have the kernel's part.
Shared(m) == \A s \in DOMAIN m, v \in Low : m[s][v] = m[Kernel][v]

\* The kernel maps a page, in all spaces at once.
MapKernel(v) == OnlyMoves(DOMAIN map, v) /\ Shared(map')

\* A page is mapped for one space, where it had none; no space has it elsewhere.
MapUser(s, v) ==
    /\ s # Kernel
    /\ map[s][v] = Fault /\ map'[s][v] # Fault
    /\ OnlyMoves({s}, v)
    /\ \A t \in DOMAIN map, u \in Pages \ Low : map[t][u] # map'[s][v]

\* A space begins with the kernel's part and nothing else.
Create(s) ==
    /\ s \in DOMAIN map' \ DOMAIN map
    /\ map' = [t \in DOMAIN map \cup {s} |->
                 IF t # s THEN map[t]
                 ELSE [v \in Pages |-> IF v \in Low THEN map[Kernel][v] ELSE Fault]]

\* It ends, and leaves the others as they are.
Destroy(s) ==
    /\ s # Kernel /\ s \in DOMAIN map \ DOMAIN map'
    /\ map' = [t \in DOMAIN map \ {s} |-> map[t]]

\* Without frames the page may lead anywhere, and others with it; the kernel's
\* part is still the same for all.
Fail == ~failed /\ failed' /\ DOMAIN map' = DOMAIN map /\ Shared(map')

\* A call of map_page that finds the frames it needs.
MapsOne ==
    /\ DOMAIN map' = DOMAIN map
    /\ \/ \E s \in DOMAIN map, v \in Pages \ Low : MapUser(s, v)
       \/ \E v \in Low : MapKernel(v)

MapsNext ==
    \/ /\ ~failed /\ ~failed'
       /\ \/ MapsOne
          \/ \E s \in Spaces : Create(s)
          \/ \E s \in DOMAIN map : Destroy(s)
    \/ Fail

MapsSpec == MapsInit /\ [][MapsNext]_<<map, failed>>

---------------------------------------------------------------------------

\* Above the kernel's part a page of memory is one page of one space.
Apart ==
    ~failed =>
        \A s \in DOMAIN map, u \in Pages \ Low : map[s][u] # Fault =>
            \A t \in DOMAIN map, v \in Pages \ Low : map[t][v] = map[s][u] => t = s /\ v = u

=============================================================================
