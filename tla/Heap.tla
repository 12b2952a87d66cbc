-------------------------------- MODULE Heap --------------------------------
(***************************************************************************)
(* The kernel heap: one doubly linked list of blocks, each a 32-byte       *)
(* header followed by its payload, that tile [HEAP_START, heap_current).   *)
(* kmalloc is first-fit over the list and grows the heap page by page;     *)
(* kfree merges with free neighbours.  Both run with interrupts off, so    *)
(* each is one action.                                                     *)
(*                                                                         *)
(* Addresses are numbers and a block is named by its address.  The headers *)
(* are the fields of heap: used is the set of blocks with magic            *)
(* BLOCK_USED, the others have BLOCK_FREE.  The header that a merge leaves *)
(* behind inside a bigger block is payload and is not kept: it still reads *)
(* BLOCK_FREE or what the caller wrote, and kfree ignores both.            *)
(***************************************************************************)
EXTENDS Integers, FiniteSets

CONSTANTS
    HeapStart,      \* HEAP_START
    PageSize,       \* PAGE_SIZE
    MaxPages,       \* the frames alloc_frame ever hands to the heap
    Sizes,          \* the sizes the callers of kmalloc ask for
    DoubleFree      \* whether a caller may free a pointer a second time

ASSUME HeapAssumption ==
    /\ HeapStart \in Nat \ {0} /\ HeapStart % 16 = 0
    /\ PageSize \in Nat /\ PageSize % 16 = 0 /\ PageSize >= 48
    /\ MaxPages \in Nat
    /\ Sizes \subseteq Nat
    /\ DoubleFree \in BOOLEAN

VARIABLES
    heap,           \* the block list and heap_current, heap_end
    live,           \* history: the size each live pointer was asked for
    freed           \* history: the pointers a caller may free a second time

heapVars == <<heap, live, freed>>

Null == 0
HEADER_SIZE == 32
MIN_SPLIT == 32

ALIGN16(x) == ((x + 15) \div 16) * 16

---------------------------------------------------------------------------
(* Operations on the list.  h is a heap record, b one of its blocks.       *)

\* last_block once b's next is n: "if (n) n->prev = b; else last_block = b".
LastAfter(h, n, b) == IF n = Null THEN b ELSE h.last

\* Mutant of block_split: the remainder is computed without the header.
SplitForgetsHeader(h, b, payload) ==
    LET total == HEADER_SIZE + payload
        rem   == b + payload
        newBlocks == h.blocks \cup {rem}
    IN  IF h.size[b] <= total + MIN_SPLIT THEN h
        ELSE [h EXCEPT
                !.blocks = newBlocks,
                !.size = [a \in newBlocks |->
                            CASE a = b -> payload
                              [] a = rem -> h.size[b] - payload
                              [] OTHER -> h.size[a]],
                !.next = [a \in newBlocks |->
                            CASE a = b -> rem
                              [] a = rem -> h.next[b]
                              [] OTHER -> h.next[a]],
                !.prev = [a \in newBlocks |->
                            CASE a = rem -> b
                              [] a = h.next[b] -> rem
                              [] OTHER -> h.prev[a]],
                !.last = LastAfter(h, h.next[b], rem)]

\* block_split: cut a free block in two when enough remains.
block_split(h, b, payload) ==
    LET total == HEADER_SIZE + payload
        rem   == b + total
        newBlocks == h.blocks \cup {rem}
    IN  IF h.size[b] <= total + MIN_SPLIT THEN h
        ELSE [h EXCEPT
                !.blocks = newBlocks,
                !.size = [a \in newBlocks |->
                            CASE a = b -> total
                              [] a = rem -> h.size[b] - total
                              [] OTHER -> h.size[a]],
                !.next = [a \in newBlocks |->
                            CASE a = b -> rem
                              [] a = rem -> h.next[b]
                              [] OTHER -> h.next[a]],
                !.prev = [a \in newBlocks |->
                            CASE a = rem -> b
                              [] a = h.next[b] -> rem
                              [] OTHER -> h.prev[a]],
                !.last = LastAfter(h, h.next[b], rem)]

\* Mutant of block_coalesce_next: the block after the absorbed one keeps its
\* old prev pointer.
CoalesceKeepsPrev(h, b) ==
    LET n == h.next[b]
        newBlocks == h.blocks \ {n}
    IN  IF n = Null \/ n \in h.used THEN h
        ELSE [h EXCEPT
                !.blocks = newBlocks,
                !.size = [a \in newBlocks |->
                            IF a = b THEN h.size[b] + h.size[n] ELSE h.size[a]],
                !.next = [a \in newBlocks |->
                            IF a = b THEN h.next[n] ELSE h.next[a]],
                !.prev = [a \in newBlocks |-> h.prev[a]],
                !.last = LastAfter(h, h.next[n], b)]

\* Mutant of block_coalesce_next: last_block is left on the absorbed block.
CoalesceForgetsLast(h, b) ==
    LET n == h.next[b]
        newBlocks == h.blocks \ {n}
    IN  IF n = Null \/ n \in h.used THEN h
        ELSE [h EXCEPT
                !.blocks = newBlocks,
                !.size = [a \in newBlocks |->
                            IF a = b THEN h.size[b] + h.size[n] ELSE h.size[a]],
                !.next = [a \in newBlocks |->
                            IF a = b THEN h.next[n] ELSE h.next[a]],
                !.prev = [a \in newBlocks |->
                            IF a = h.next[n] THEN b ELSE h.prev[a]]]

\* block_coalesce_next: absorb the next block if it is free.
block_coalesce_next(h, b) ==
    LET n == h.next[b]
        newBlocks == h.blocks \ {n}
    IN  IF n = Null \/ n \in h.used THEN h
        ELSE [h EXCEPT
                !.blocks = newBlocks,
                !.size = [a \in newBlocks |->
                            IF a = b THEN h.size[b] + h.size[n] ELSE h.size[a]],
                !.next = [a \in newBlocks |->
                            IF a = b THEN h.next[n] ELSE h.next[a]],
                !.prev = [a \in newBlocks |->
                            IF a = h.next[n] THEN b ELSE h.prev[a]],
                !.last = LastAfter(h, h.next[n], b)]

\* Mutant of block_coalesce_prev: no merge with the block before.
NoCoalescePrev(h, b) == h

block_coalesce_prev(h, b) ==
    IF h.prev[b] = Null \/ h.prev[b] \in h.used THEN h
    ELSE block_coalesce_next(h, h.prev[b])

\* heap_append once end pages have been mapped: a free block of the given
\* size after the last one.
heap_append(h, bytes, end) ==
    LET b == ALIGN16(h.current)
        newBlocks == h.blocks \cup {b}
        len == ALIGN16(bytes)
    IN  [h EXCEPT
            !.blocks = newBlocks,
            !.size = [a \in newBlocks |-> IF a = b THEN len ELSE h.size[a]],
            !.next = [a \in newBlocks |->
                        CASE a = b -> Null
                          [] a = h.last -> b
                          [] OTHER -> h.next[a]],
            !.prev = [a \in newBlocks |-> IF a = b THEN h.last ELSE h.prev[a]],
            !.last = b,
            !.current = b + len,
            !.end = end]

---------------------------------------------------------------------------
\* heap_init: one page, one free block that covers it.
Init ==
    /\ heap = [blocks |-> {HeapStart}, used |-> {},
               size |-> [b \in {HeapStart} |-> PageSize],
               next |-> [b \in {HeapStart} |-> Null],
               prev |-> [b \in {HeapStart} |-> Null],
               first |-> HeapStart, last |-> HeapStart,
               current |-> HeapStart + PageSize,
               end |-> HeapStart + PageSize]
    /\ live = [p \in {} |-> 0]
    /\ freed = {}

\* Mutant of Fits: the header is not counted.
FitsWithoutHeader(h, b, payload) == /\ b \in h.blocks \ h.used
                                    /\ h.size[b] >= payload

\* A free block that can hold payload bytes.
Fits(h, b, payload) == /\ b \in h.blocks \ h.used
                       /\ h.size[b] >= HEADER_SIZE + payload

\* The pointer of block b is returned for a request of n bytes.
Return(b, n) ==
    LET p == b + HEADER_SIZE IN
    /\ live' = [q \in DOMAIN live \cup {p} |-> IF q = p THEN n ELSE live[q]]
    /\ UNCHANGED freed

\* Mutant of MallocFit: the block is handed out but not marked used.
FitForgetsMark(n) ==
    /\ n # 0
    /\ \E b \in heap.blocks :
        /\ Fits(heap, b, ALIGN16(n))
        /\ \A c \in heap.blocks : Fits(heap, c, ALIGN16(n)) => b <= c
        /\ heap' = block_split(heap, b, ALIGN16(n))
        /\ Return(b, n)

\* kmalloc, first part: the first free block of the list that is big enough.
\* The list is in address order (Linked), so the first is the lowest.
MallocFit(n) ==
    /\ n # 0
    /\ \E b \in heap.blocks :
        /\ Fits(heap, b, ALIGN16(n))
        /\ \A c \in heap.blocks : Fits(heap, c, ALIGN16(n)) => b <= c
        /\ LET h == block_split(heap, b, ALIGN16(n))
           IN  heap' = [h EXCEPT !.used = @ \cup {b}]
        /\ Return(b, n)

\* kmalloc, second part: no block fits; pages are mapped until the new block
\* fits and the block is appended.
MallocAppend(n) ==
    LET bytes == HEADER_SIZE + ALIGN16(n)
        b     == ALIGN16(heap.current)
    IN  /\ n # 0
        /\ \A c \in heap.blocks : ~ Fits(heap, c, ALIGN16(n))
        /\ \E k \in 0 .. MaxPages :
            /\ heap.end + k * PageSize <= HeapStart + MaxPages * PageSize
            /\ b + ALIGN16(bytes) <= heap.end + k * PageSize
            /\ k > 0 => heap.end + (k - 1) * PageSize < b + ALIGN16(bytes)
            /\ LET h == heap_append(heap, bytes, heap.end + k * PageSize)
               IN  heap' = [h EXCEPT !.used = @ \cup {b}]
        /\ Return(b, n)

\* kmalloc, second part, when the frames run out after k pages: the pages
\* stay mapped and null is returned.
MallocFail(n) ==
    LET bytes == HEADER_SIZE + ALIGN16(n)
        b     == ALIGN16(heap.current)
    IN  /\ n # 0
        /\ \A c \in heap.blocks : ~ Fits(heap, c, ALIGN16(n))
        /\ \E k \in 0 .. MaxPages :
            /\ heap.end + k * PageSize <= HeapStart + MaxPages * PageSize
            /\ heap.end + k * PageSize < b + ALIGN16(bytes)
            /\ heap' = [heap EXCEPT !.current = b,
                                    !.end = heap.end + k * PageSize]
        /\ UNCHANGED <<live, freed>>

\* The list after kfree has marked b free and merged it.
Release(h, b) ==
    LET marked == [h EXCEPT !.used = @ \ {b}]
    IN  block_coalesce_prev(block_coalesce_next(marked, b), b)

\* kfree: ignored unless the header before p is that of a used block.
Checked(h, p) == IF p - HEADER_SIZE \in h.used
                 THEN Release(h, p - HEADER_SIZE) ELSE h

\* The holder of p frees it.
kfree(p) ==
    /\ p \in DOMAIN live
    /\ heap' = Checked(heap, p)
    /\ live' = [q \in DOMAIN live \ {p} |-> live[q]]
    /\ freed' = IF DoubleFree THEN freed \cup {p} ELSE freed

\* A former holder of p frees it again.
KfreeAgain(p) ==
    /\ p \in freed
    /\ heap' = Checked(heap, p)
    /\ UNCHANGED <<live, freed>>

Next == \/ \E n \in Sizes : MallocFit(n) \/ MallocAppend(n) \/ MallocFail(n)
        \/ \E p \in DOMAIN live : kfree(p)
        \/ \E p \in freed : KfreeAgain(p)

Spec == Init /\ [][Next]_heapVars

---------------------------------------------------------------------------
(* Properties.  The parts of the invariant are predicates on a heap record *)
(* so that they also apply between the steps of kmalloc and kfree.         *)

Fields == {"blocks", "used", "size", "next", "prev", "first", "last",
           "current", "end"}

IsHeap(h) ==
    /\ DOMAIN h = Fields
    /\ h.blocks \in SUBSET Nat
    /\ Null \notin h.blocks
    /\ h.used \in SUBSET h.blocks
    /\ h.size \in [h.blocks -> Nat]
    /\ h.next \in [h.blocks -> h.blocks \cup {Null}]
    /\ h.prev \in [h.blocks -> h.blocks \cup {Null}]
    /\ h.first \in h.blocks
    /\ h.last \in h.blocks
    /\ h.current \in Nat
    /\ h.end \in Nat

IsLinked(h) ==
    \A b \in h.blocks :
        /\ h.next[b] = Null <=> b = h.last
        /\ h.next[b] = Null => b + h.size[b] = h.current
        /\ h.next[b] # Null => /\ h.next[b] = b + h.size[b]
                               /\ h.prev[h.next[b]] = b
        /\ h.prev[b] = Null <=> b = h.first
        /\ h.prev[b] # Null => h.next[h.prev[b]] = b

IsTiled(h) ==
    /\ h.current % 16 = 0
    /\ h.current <= h.end
    /\ \A b \in h.blocks :
        /\ b >= HeapStart
        /\ b % 16 = 0
        /\ h.size[b] % 16 = 0
        /\ h.size[b] > HEADER_SIZE
        /\ b + h.size[b] <= h.current
    /\ \A b, c \in h.blocks : b < c => b + h.size[b] <= c

IsCoalesced(h) ==
    \A b \in h.blocks \ h.used : h.next[b] # Null => h.next[b] \in h.used

HeapTypeOK ==
    /\ IsHeap(heap)
    /\ DOMAIN live \in SUBSET Nat
    /\ \A p \in DOMAIN live : live[p] \in Sizes
    /\ freed \in SUBSET Nat

\* The next pointers lead from each block to the one that starts where it
\* ends, up to the last block, which ends at heap_current; the prev pointers
\* are their inverse.  So the list kmalloc searches is in address order.
Linked == IsLinked(heap)

\* However blocks have been split, merged and appended, each starts on a
\* 16-byte boundary, has room for its header and some payload, lies inside
\* the mapped heap, and overlaps no other block.
Tiled == IsTiled(heap)

\* kfree leaves no two neighbouring free blocks, although it looks only one
\* block ahead and one behind and kmalloc appends behind a free block.
Coalesced == IsCoalesced(heap)

\* Every live pointer is the payload of a used block that holds the size it
\* was asked for, and every used block belongs to a live pointer: nothing a
\* caller holds is ever split, merged or handed out again, and nothing is
\* lost.
PayloadsHeld ==
    /\ heap.used = {p - HEADER_SIZE : p \in DOMAIN live}
    /\ \A p \in DOMAIN live :
        HEADER_SIZE + live[p] <= heap.size[p - HEADER_SIZE]

\* kmalloc and kfree keep the promise of the memory interface.
A == INSTANCE Allocator

KeepsPromise == A!AllocatorSpec

=============================================================================
