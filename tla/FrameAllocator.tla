--------------------------- MODULE FrameAllocator ---------------------------
(***************************************************************************)
(* The allocator of physical frames: a bitmap that lies at the first frame *)
(* after the kernel, one bit for each frame from there to the end of       *)
(* memory.  alloc_frame and free_frame take no lock and leave interrupts   *)
(* on, so a thread can lose the CPU to another one between any two         *)
(* accesses to the bitmap: create_address_space, map_page, alloc_page and  *)
(* the exit of a process call them so.  kmalloc disables interrupts around *)
(* its calls, and may come between the steps of the others.                *)
(*                                                                         *)
(* A frame is named by its number, address / PAGE_SIZE.  The read-modify-  *)
(* write of one bitmap byte (a load, then a store) is two steps.           *)
(***************************************************************************)
EXTENDS Integers

CONSTANTS
    Threads,        \* the processes that call the allocator
    NoThread,       \* "no thread has the CPU to itself"
    FirstFree,      \* first_free_frame / PAGE_SIZE
    LastFrame,      \* last_frame / PAGE_SIZE: the number of frames of the RAM
    PageSize,       \* PAGE_SIZE, the bytes (of the bitmap) that fit in a frame
    ByteBits        \* 8, the bits of a byte

ASSUME FrameAssumption ==
    /\ FirstFree \in Nat \ {0}
    /\ LastFrame \in Nat /\ LastFrame > FirstFree
    /\ {PageSize, ByteBits} \subseteq Nat \ {0}
    /\ NoThread \notin Threads

VARIABLES
    bitmap,     \* the indices of the set bits of frame_bitmap
    pc,         \* where each thread stands in alloc_frame or free_frame
    index,      \* its loop variable i, or the index it frees
    byte,       \* the bits of the byte it has loaded
    given,      \* history: how many callers have been given frame f and not freed it
    inside,     \* the thread inside the allocator with interrupts off
    mixed,      \* history: calls that are in progress have overlapped
    overtaken   \* history: a store came between another call's reading of the same
                \* bit or byte and its store

vars == <<bitmap, pc, index, byte, given, inside, mixed, overtaken>>

---------------------------------------------------------------------------
(* frame_allocator_init.                                                   *)

CeilDiv(a, b) == (a + b - 1) \div b

total_frames == LastFrame - FirstFree
bitmap_size == CeilDiv(total_frames, ByteBits)
bitmap_frames == CeilDiv(bitmap_size, PageSize)
total_bits == bitmap_size * ByteBits
alloc_base_frame == FirstFree + bitmap_frames

Bits == 0 .. total_bits - 1
Reserved == 0 .. bitmap_frames - 1

\* The frame that bit i stands for.
FrameOf(i) == alloc_base_frame + i
Frames == {FrameOf(i) : i \in Bits}

\* The bits of the byte that holds bit i.
ByteOf(i) == {j \in Bits : j \div ByteBits = i \div ByteBits}

Init ==
    /\ bitmap = Reserved
    /\ pc = [t \in Threads |-> "out"]
    /\ index = [t \in Threads |-> 0]
    /\ byte = [t \in Threads |-> {}]
    /\ given = [f \in Frames |-> 0]
    /\ inside = NoThread
    /\ mixed = FALSE
    /\ overtaken = FALSE

Steps == {"out", "test", "set_load", "set_store", "clear_load", "clear_store"}

TypeOK ==
    /\ bitmap \subseteq Bits
    /\ pc \in [Threads -> Steps]
    /\ index \in [Threads -> 0 .. total_bits]
    /\ byte \in [Threads -> SUBSET Bits]
    /\ given \in [Frames -> Nat]
    /\ inside \in Threads \cup {NoThread}
    /\ mixed \in BOOLEAN /\ overtaken \in BOOLEAN

---------------------------------------------------------------------------
(* Interrupts.                                                             *)

\* t may execute: nobody else has interrupts off.
Running(t) == inside \in {NoThread, t}

At(t, step) == Running(t) /\ pc[t] = step

Goto(t, step) == pc' = [pc EXCEPT ![t] = step]

\* Another thread is in a call.
Others(t) == \E u \in Threads \ {t} : pc[u] # "out"

\* A call begins, in a thread that holds interrupts off for all of it or does not.
Enter(t, step, i, off) ==
    /\ Goto(t, step)
    /\ index' = [index EXCEPT ![t] = i]
    /\ inside' = IF off THEN t ELSE NoThread
    /\ mixed' = (mixed \/ Others(t))

\* The call returns; its locals are gone.
Leave(t) == /\ Goto(t, "out")
            /\ index' = [index EXCEPT ![t] = 0]
            /\ byte' = [byte EXCEPT ![t] = {}]
            /\ inside' = NoThread
            /\ mixed' = (mixed /\ Others(t))

\* Another call has found the bit clear that t is about to store, or holds a copy
\* of the byte.
Overtakes(t) ==
    \E u \in Threads \ {t} :
        \/ pc[u] = "set_load" /\ index[u] = index[t]
        \/ pc[u] \in {"set_store", "clear_store"} /\ index[u] \in ByteOf(index[t])

---------------------------------------------------------------------------
(* alloc_frame.                                                            *)

\* Bound: no search begins while a frame has two holders.
AllocFrame(t, off) ==
    /\ At(t, "out")
    /\ \A f \in Frames : given[f] <= 1
    /\ Enter(t, "test", 0, off)
    /\ UNCHANGED <<bitmap, byte, given, overtaken>>

\* Mutant of TestUsed: the search goes on with the next byte.
TestNextByte(t) ==
    /\ At(t, "test")
    /\ index[t] \in bitmap
    /\ index' = [index EXCEPT ![t] = (@ \div ByteBits + 1) * ByteBits]
    /\ UNCHANGED <<bitmap, pc, byte, given, inside, mixed, overtaken>>

\* One round of the search: the bit is set, go on with the next one.
TestUsed(t) ==
    /\ At(t, "test")
    /\ index[t] \in bitmap
    /\ index' = [index EXCEPT ![t] = @ + 1]
    /\ UNCHANGED <<bitmap, pc, byte, given, inside, mixed, overtaken>>

\* Mutant of TestFree: the search goes one bit too far.
TestPastEnd(t) ==
    /\ At(t, "test")
    /\ index[t] <= total_bits
    /\ index[t] \notin bitmap
    /\ Goto(t, "set_load")
    /\ UNCHANGED <<bitmap, index, byte, given, inside, mixed, overtaken>>

\* The bit is clear: leave the loop to reserve it.
TestFree(t) ==
    /\ At(t, "test")
    /\ index[t] < total_bits
    /\ index[t] \notin bitmap
    /\ Goto(t, "set_load")
    /\ UNCHANGED <<bitmap, index, byte, given, inside, mixed, overtaken>>

\* No bit is clear: return 0.
AllocFails(t) ==
    /\ At(t, "test")
    /\ index[t] = total_bits
    /\ Leave(t)
    /\ UNCHANGED <<bitmap, given, overtaken>>

SetLoad(t) ==
    /\ At(t, "set_load")
    /\ byte' = [byte EXCEPT ![t] = bitmap \cap ByteOf(index[t])]
    /\ Goto(t, "set_store")
    /\ UNCHANGED <<bitmap, index, given, inside, mixed, overtaken>>

\* The bitmap after t stores back the byte it loaded with bits as its value.
Stored(t, bits) == (bitmap \ ByteOf(index[t])) \cup bits

\* Mutant of SetStore: the byte is stored back without the new bit.
StoreUnset(t) ==
    /\ At(t, "set_store")
    /\ bitmap' = Stored(t, byte[t])
    /\ given' = [given EXCEPT ![FrameOf(index[t])] = @ + 1]
    /\ overtaken' = (overtaken \/ Overtakes(t))
    /\ Leave(t)

\* The bit is set and the frame is returned to the caller.
SetStore(t) ==
    /\ At(t, "set_store")
    /\ bitmap' = Stored(t, byte[t] \cup {index[t]})
    /\ given' = [given EXCEPT ![FrameOf(index[t])] = @ + 1]
    /\ overtaken' = (overtaken \/ Overtakes(t))
    /\ Leave(t)

---------------------------------------------------------------------------
(* free_frame, by a caller that was given frame f.                   *)

\* Mutant of IndexOf: the index is counted from the first free frame.
IndexFromFirst(f) == f - FirstFree

IndexOf(f) == f - alloc_base_frame

\* The guards "frame < alloc_base_frame" and "index >= total_bits" are false
\* for every frame alloc_frame has returned.
FreeFrame(t, f) ==
    /\ At(t, "out")
    /\ given[f] > 0
    /\ IndexOf(f) \in Bits
    /\ given' = [given EXCEPT ![f] = @ - 1]
    /\ Enter(t, "clear_load", IndexOf(f), FALSE)
    /\ UNCHANGED <<bitmap, byte, overtaken>>

ClearLoad(t) ==
    /\ At(t, "clear_load")
    /\ byte' = [byte EXCEPT ![t] = bitmap \cap ByteOf(index[t])]
    /\ Goto(t, "clear_store")
    /\ UNCHANGED <<bitmap, index, given, inside, mixed, overtaken>>

ClearStore(t) ==
    /\ At(t, "clear_store")
    /\ bitmap' = Stored(t, byte[t] \ {index[t]})
    /\ overtaken' = (overtaken \/ Overtakes(t))
    /\ Leave(t)
    /\ UNCHANGED given

---------------------------------------------------------------------------
AllocStep(t) == \/ \E off \in BOOLEAN : AllocFrame(t, off)
                \/ TestUsed(t) \/ TestFree(t) \/ AllocFails(t) \/ SetLoad(t) \/ SetStore(t)

FreeStep(t) == \/ \E f \in Frames : FreeFrame(t, f)
               \/ ClearLoad(t) \/ ClearStore(t)

Next == \E t \in Threads : AllocStep(t) \/ FreeStep(t)

Spec == Init /\ [][Next]_vars

---------------------------------------------------------------------------
(* Properties.                                                             *)

\* However the calls are interleaved, a frame that one caller has been given is given
\* to no other one before it is freed (alloc_frame: "an unused frame: reserve it"),
\* until a store comes between another call's reading and its own store.
OneHolder == ~overtaken => \A f \in Frames : given[f] <= 1

\* Until then, at every point of every call, the bitmap marks the frames of the
\* bitmap itself, those that are held and those whose bit is being cleared, and
\* nothing else: no set or clear of a neighbouring bit is lost, and nothing leaks.
BitmapIsExact ==
    ~overtaken =>
        bitmap = Reserved \cup {i \in Bits : given[FrameOf(i)] > 0}
                   \cup {index[t] : t \in {u \in Threads : pc[u] \in {"clear_load", "clear_store"}}}

\* alloc_frame returns a frame of the memory that total_frames counts.
FramesAreInRam == \A f \in Frames : given[f] > 0 => f < LastFrame

\* Until then alloc_frame takes a frame that nobody holds and free_frame gives back
\* the one it is called with; a call that no other overlaps takes the lowest one, and
\* returns 0 only when every frame is held.
Pool == INSTANCE FramePool WITH
            Pool <- {FrameOf(i) : i \in Bits \ Reserved},
            taken <- {f \in Frames : given[f] > 0},
            refused <- \E t \in Threads : pc[t] = "test" /\ index[t] = total_bits

TakesLowest == Pool!PoolSpec

=============================================================================
