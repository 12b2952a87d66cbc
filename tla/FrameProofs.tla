---------------------------- MODULE FrameProofs ----------------------------
(***************************************************************************)
(* Proofs about module FrameAllocator, for every size of the memory and    *)
(* every interleaving of the calls.                                        *)
(***************************************************************************)
EXTENDS FrameAllocator, TLAPS

\* Dividing by a positive number and rounding up does not make larger.
LEMMA CeilDivBound ==
    ASSUME NEW a \in Nat, NEW b \in Nat \ {0}
    PROVE  CeilDiv(a, b) \in Nat /\ CeilDiv(a, b) <= a
  <1> DEFINE q == (a + b - 1) \div b
  <1>1. a + b - 1 \in Nat /\ b > 0
    OBVIOUS
  <1>2. q \in Nat /\ q * b <= a + b - 1
    BY <1>1
  <1>3. a * b >= a
    BY <1>1
  <1>4. q > a => q * b >= (a + 1) * b
    BY <1>1, <1>2
  <1>5. (a + 1) * b = a * b + b
    OBVIOUS
  <1>6. q <= a
    <2> HIDE DEF q
    <2>1. a * b \in Nat /\ q * b \in Int
      BY <1>2
    <2> QED BY <1>1, <1>2, <1>3, <1>4, <1>5, <2>1
  <1> QED BY <1>2, <1>6 DEF CeilDiv

\* The frames of the bitmap have bits in it, and a bit and its frame
\* determine each other.
LEMMA Layout ==
    /\ total_bits \in Nat /\ alloc_base_frame \in Nat
    /\ Reserved \subseteq Bits
    /\ \A i \in Bits : i \in Nat /\ FrameOf(i) \in Frames /\ IndexOf(FrameOf(i)) = i
    /\ \A f \in Frames : IndexOf(f) \in Bits /\ FrameOf(IndexOf(f)) = f
    /\ \A i, j \in Bits : FrameOf(i) = FrameOf(j) => i = j
  <1>1. total_frames \in Nat
    BY FrameAssumption DEF total_frames
  <1>2. bitmap_size \in Nat
    BY <1>1, CeilDivBound, FrameAssumption DEF bitmap_size
  <1>3. bitmap_frames \in Nat /\ bitmap_frames <= bitmap_size
    BY <1>2, CeilDivBound, FrameAssumption DEF bitmap_frames
  <1>4. total_bits \in Nat /\ bitmap_frames <= total_bits
    <2>1. ByteBits - 1 \in Nat /\ ByteBits = 1 + (ByteBits - 1)
      BY FrameAssumption
    <2>2. /\ bitmap_size * ByteBits = bitmap_size + bitmap_size * (ByteBits - 1)
          /\ bitmap_size * (ByteBits - 1) \in Nat
      BY <1>2, <2>1
    <2> QED BY <1>2, <1>3, <2>2 DEF total_bits
  <1>5. alloc_base_frame \in Nat
    BY <1>3, FrameAssumption DEF alloc_base_frame
  <1>6. Reserved \subseteq Bits
    BY <1>3, <1>4 DEF Reserved, Bits
  <1> QED BY <1>4, <1>5, <1>6 DEF Bits, Frames, FrameOf, IndexOf

---------------------------------------------------------------------------
(* The types.                                                              *)

\* A call that works on a byte does so at a bit of the bitmap, and what is
\* stored back is a byte of it, however stale.
IndexInRange ==
    \A t \in Threads :
        pc[t] \in {"set_load", "set_store", "clear_load", "clear_store"}
        => index[t] \in Bits

TypeInv == TypeOK /\ IndexInRange

\* A step of thread t that is well typed and leaves its index in the bitmap.
LEMMA StepKeepsTypes ==
    ASSUME TypeInv, NEW t \in Threads, NEW s \in Steps, NEW i \in 0 .. total_bits,
           NEW b \in SUBSET Bits,
           pc' = [pc EXCEPT ![t] = s] \/ (pc' = pc /\ s = pc[t]),
           index' = [index EXCEPT ![t] = i] \/ (index' = index /\ i = index[t]),
           byte' = [byte EXCEPT ![t] = b] \/ byte' = byte,
           s \in {"set_load", "set_store", "clear_load", "clear_store"} => i \in Bits,
           bitmap' \subseteq Bits, given' \in [Frames -> Nat],
           inside' \in {inside, t, NoThread},
           mixed' \in BOOLEAN, overtaken' \in BOOLEAN
    PROVE  TypeInv'
  <1>1. /\ pc \in [Threads -> Steps] /\ index \in [Threads -> 0 .. total_bits]
        /\ byte \in [Threads -> SUBSET Bits] /\ inside \in Threads \cup {NoThread}
    BY DEF TypeInv, TypeOK
  <1>2. /\ pc' \in [Threads -> Steps] /\ index' \in [Threads -> 0 .. total_bits]
        /\ byte' \in [Threads -> SUBSET Bits] /\ inside' \in Threads \cup {NoThread}
    BY <1>1
  <1>3. /\ pc'[t] = s /\ index'[t] = i
        /\ \A u \in Threads : u # t => pc'[u] = pc[u] /\ index'[u] = index[u]
    BY <1>1
  <1>4. IndexInRange'
    BY <1>3 DEF TypeInv, IndexInRange
  <1> QED BY <1>2, <1>4 DEF TypeInv, TypeOK

LEMMA TypeStart == Init => TypeInv
  <1> SUFFICES ASSUME Init PROVE TypeInv
    OBVIOUS
  <1>1. bitmap \subseteq Bits /\ total_bits \in Nat
    BY Layout DEF Init
  <1>2. mixed \in BOOLEAN /\ overtaken \in BOOLEAN
    BY DEF Init
  <1>3. /\ pc \in [Threads -> Steps] /\ index \in [Threads -> 0 .. total_bits]
        /\ byte \in [Threads -> SUBSET Bits] /\ given \in [Frames -> Nat]
        /\ inside \in Threads \cup {NoThread}
    BY <1>1 DEF Init, Steps
  <1>4. IndexInRange
    BY DEF Init, IndexInRange
  <1> QED BY <1>1, <1>2, <1>3, <1>4 DEF TypeInv, TypeOK

LEMMA NextTypes == TypeInv /\ [Next]_vars => TypeInv'
  <1> SUFFICES ASSUME TypeInv, [Next]_vars PROVE TypeInv'
    OBVIOUS
  <1>l. /\ total_bits \in Nat /\ 0 \in 0 .. total_bits
        /\ \A i \in Bits : i \in Nat /\ i \in 0 .. total_bits /\ i + 1 \in 0 .. total_bits
                           /\ FrameOf(i) \in Frames
        /\ {} \in SUBSET Bits
    BY Layout DEF Bits
  <1>b. mixed \in BOOLEAN /\ overtaken \in BOOLEAN
    BY DEF TypeInv, TypeOK
  <1>t. /\ bitmap \subseteq Bits /\ given \in [Frames -> Nat]
        /\ \A t \in Threads : /\ index[t] \in 0 .. total_bits /\ byte[t] \in SUBSET Bits
                              /\ pc[t] \in Steps
    BY DEF TypeInv, TypeOK
  <1>1. ASSUME NEW t \in Threads, NEW off \in BOOLEAN, AllocFrame(t, off) PROVE TypeInv'
    <2>1. /\ pc' = [pc EXCEPT ![t] = "test"] /\ index' = [index EXCEPT ![t] = 0]
          /\ inside' \in {t, NoThread} /\ UNCHANGED <<bitmap, byte, given, overtaken>>
          /\ mixed' \in BOOLEAN
      BY <1>1 DEF AllocFrame, Enter, Goto
    <2> QED BY <1>b, <1>l, <1>t, <2>1, StepKeepsTypes DEF Steps
  <1>2. ASSUME NEW t \in Threads, TestUsed(t) PROVE TypeInv'
    <2>1. /\ pc[t] = "test" /\ index[t] \in Bits
          /\ index' = [index EXCEPT ![t] = index[t] + 1]
          /\ UNCHANGED <<bitmap, pc, byte, given, inside, mixed, overtaken>>
      BY <1>2, <1>t DEF TestUsed, At
    <2> QED BY <1>b, <1>l, <1>t, <2>1, StepKeepsTypes DEF Steps
  <1>3. ASSUME NEW t \in Threads, TestFree(t) PROVE TypeInv'
    <2>1. /\ index[t] \in Bits /\ pc' = [pc EXCEPT ![t] = "set_load"]
          /\ UNCHANGED <<bitmap, index, byte, given, inside, mixed, overtaken>>
      BY <1>3, <1>l, <1>t DEF TestFree, Goto, Bits
    <2> QED BY <1>b, <1>l, <1>t, <2>1, StepKeepsTypes DEF Steps
  <1>4. ASSUME NEW t \in Threads, AllocFails(t) PROVE TypeInv'
    <2>1. /\ pc' = [pc EXCEPT ![t] = "out"] /\ index' = [index EXCEPT ![t] = 0]
          /\ byte' = [byte EXCEPT ![t] = {}] /\ inside' = NoThread
          /\ UNCHANGED <<bitmap, given, overtaken>> /\ mixed' \in BOOLEAN
      BY <1>4 DEF AllocFails, Leave, Goto
    <2> QED BY <1>b, <1>l, <1>t, <2>1, StepKeepsTypes DEF Steps
  <1>5. ASSUME NEW t \in Threads, SetLoad(t) \/ ClearLoad(t) PROVE TypeInv'
    <2>1. /\ pc[t] \in {"set_load", "clear_load"}
          /\ byte' = [byte EXCEPT ![t] = bitmap \cap ByteOf(index[t])]
          /\ UNCHANGED <<bitmap, index, given, inside, mixed, overtaken>>
      BY <1>5 DEF SetLoad, ClearLoad, At
    <2>2. PICK s \in {"set_store", "clear_store"} : pc' = [pc EXCEPT ![t] = s]
      BY <1>5 DEF SetLoad, ClearLoad, Goto
    <2>3. index[t] \in Bits /\ bitmap \cap ByteOf(index[t]) \in SUBSET Bits
      BY <1>t, <2>1 DEF TypeInv, IndexInRange
    <2>4. s \in Steps
      BY <2>2 DEF Steps
    <2>5. \E b \in SUBSET Bits : byte' = [byte EXCEPT ![t] = b]
      BY <2>1, <2>3
    <2>6. /\ index' = index /\ inside' = inside /\ bitmap' = bitmap /\ given' = given
          /\ mixed' = mixed /\ overtaken' = overtaken
      BY <2>1
    <2> QED BY <1>b, <1>t, <2>2, <2>3, <2>4, <2>5, <2>6, StepKeepsTypes
  <1>6. ASSUME NEW t \in Threads, SetStore(t) \/ ClearStore(t) PROVE TypeInv'
    <2>1. /\ pc[t] \in {"set_store", "clear_store"}
          /\ pc' = [pc EXCEPT ![t] = "out"] /\ index' = [index EXCEPT ![t] = 0]
          /\ byte' = [byte EXCEPT ![t] = {}] /\ inside' = NoThread
          /\ mixed' \in BOOLEAN /\ overtaken' \in BOOLEAN
          /\ bitmap' \in {Stored(t, byte[t] \cup {index[t]}), Stored(t, byte[t] \ {index[t]})}
          /\ \/ given' = given
             \/ given' = [given EXCEPT ![FrameOf(index[t])] = @ + 1]
      BY <1>6 DEF SetStore, ClearStore, At, Leave, Goto
    <2>2. index[t] \in Bits
      BY <2>1 DEF TypeInv, IndexInRange
    <2>3. bitmap' \subseteq Bits
      BY <1>t, <2>1, <2>2 DEF Stored
    <2>4. given' \in [Frames -> Nat]
      BY <1>l, <1>t, <2>1, <2>2
    <2>5. /\ pc' = [pc EXCEPT ![t] = "out"] /\ index' = [index EXCEPT ![t] = 0]
          /\ byte' = [byte EXCEPT ![t] = {}] /\ inside' = NoThread
          /\ mixed' \in BOOLEAN /\ overtaken' \in BOOLEAN
      BY <2>1
    <2> QED BY <1>l, <2>3, <2>4, <2>5, StepKeepsTypes DEF Steps
  <1>7. ASSUME NEW t \in Threads, NEW f \in Frames, FreeFrame(t, f) PROVE TypeInv'
    <2>1. /\ IndexOf(f) \in Bits /\ given[f] > 0
          /\ pc' = [pc EXCEPT ![t] = "clear_load"]
          /\ index' = [index EXCEPT ![t] = IndexOf(f)]
          /\ given' = [given EXCEPT ![f] = @ - 1]
          /\ inside' \in {t, NoThread} /\ UNCHANGED <<bitmap, byte, overtaken>>
          /\ mixed' \in BOOLEAN
      BY <1>7 DEF FreeFrame, Enter, Goto
    <2>2. given' \in [Frames -> Nat]
      BY <1>t, <2>1
    <2> QED BY <1>b, <1>l, <1>t, <2>1, <2>2, StepKeepsTypes DEF Steps
  <1>8. CASE UNCHANGED vars
    BY <1>8 DEF vars, TypeInv, TypeOK, IndexInRange
  <1> QED BY <1>1, <1>2, <1>3, <1>4, <1>5, <1>6, <1>7, <1>8
          DEF Next, AllocStep, FreeStep

\* The allocator's state is well typed and neither search nor store leaves the
\* bitmap, in whatever order the callers interrupt one another.
THEOREM FrameTypeCorrect == Spec => []TypeOK
  <1>1. Init => TypeInv
    BY TypeStart
  <1>2. TypeInv => TypeOK
    BY DEF TypeInv
  <1> QED BY <1>1, <1>2, NextTypes, PTL DEF Spec

---------------------------------------------------------------------------
(* What the bitmap holds until a store overtakes another call.             *)

\* The bits of the bitmap's frames and of the frames that callers hold.
Marked == Reserved \cup {i \in Bits : given[FrameOf(i)] > 0}

Clearing == {u \in Threads : pc[u] \in {"clear_load", "clear_store"}}

\* The bits of the frames that are being given back.
Leaving == {index[t] : t \in Clearing}

Single == \A f \in Frames : given[f] <= 1

\* Where a call stands: what it has found or loaded is what the bitmap still holds.
CallInv(t) ==
    /\ pc[t] \in {"set_load", "set_store"} => index[t] \in Bits \ bitmap
    /\ pc[t] \in {"clear_load", "clear_store"} => index[t] \in Bits \ Marked
    /\ pc[t] \in {"set_store", "clear_store"} => byte[t] = bitmap \cap ByteOf(index[t])

\* Two calls do not give back one frame.
Distinct == \A t, u \in Clearing : index[t] = index[u] => t = u

Sound ==
    /\ bitmap = Marked \cup Leaving
    /\ \A t \in Threads : CallInv(t)
    /\ Distinct
    /\ Single
    /\ \A i \in Reserved : given[FrameOf(i)] = 0

FrameInv == TypeInv /\ (~overtaken => Sound)

\* What a step changes in one thread.
Moves(t) ==
    /\ \A u \in Threads : u # t => pc'[u] = pc[u] /\ index'[u] = index[u] /\ byte'[u] = byte[u]

LEMMA SoundTypes ==
    ASSUME TypeOK, NEW t \in Threads
    PROVE  /\ pc[t] \in Steps /\ index[t] \in 0 .. total_bits
           /\ bitmap \subseteq Bits /\ given \in [Frames -> Nat]
  <1> QED BY DEF TypeOK

\* A step of a call that stores nothing, gives nothing and takes nothing.
LEMMA QuietStep ==
    ASSUME TypeOK, Sound, NEW t \in Threads, bitmap' = bitmap, given' = given,
           Moves(t), CallInv(t)',
           t \in Clearing <=> t \in Clearing', t \in Clearing => index'[t] = index[t]
    PROVE  Sound'
  <1>1. Marked' = Marked
    BY DEF Marked
  <1>2. Clearing' = Clearing
    BY DEF Clearing, Moves
  <1>3. \A u \in Clearing : index'[u] = index[u]
    BY DEF Clearing, Moves
  <1>4. Leaving' = Leaving
    BY <1>2, <1>3 DEF Leaving
  <1>5. bitmap' = (Marked \cup Leaving)'
    BY <1>1, <1>4 DEF Sound
  <1>6. ASSUME NEW u \in Threads PROVE CallInv(u)'
    BY <1>1, <1>6 DEF Sound, CallInv, Moves, ByteOf
  <1>7. Distinct'
    BY <1>2, <1>3 DEF Sound, Distinct
  <1>8. Single' /\ \A i \in Reserved : given'[FrameOf(i)] = 0
    BY DEF Sound, Single
  <1> QED BY <1>5, <1>6, <1>7, <1>8 DEF Sound

\* Storing back a byte changes only the bit that is set or cleared.
LEMMA StoreOneBit ==
    ASSUME NEW t, NEW i \in Bits, index[t] = i, bitmap \subseteq Bits,
           byte[t] = bitmap \cap ByteOf(i)
    PROVE  /\ Stored(t, byte[t] \cup {i}) = bitmap \cup {i}
           /\ Stored(t, byte[t] \ {i}) = bitmap \ {i}
  <1>1. i \in ByteOf(i)
    BY DEF ByteOf
  <1> QED BY <1>1 DEF Stored

\* A store that overtakes nobody leaves the bytes that others hold as they are.
LEMMA OtherBytes ==
    ASSUME TypeInv, Sound, NEW t \in Threads, index[t] \in Bits, ~ Overtakes(t),
           NEW u \in Threads, u # t, pc[u] \in {"set_store", "clear_store"}
    PROVE  /\ byte[u] = (bitmap \cup {index[t]}) \cap ByteOf(index[u])
           /\ byte[u] = (bitmap \ {index[t]}) \cap ByteOf(index[u])
  <1>1. byte[u] = bitmap \cap ByteOf(index[u])
    BY DEF Sound, CallInv
  <1>2. index[u] \notin ByteOf(index[t]) /\ index[u] \in Bits
    BY DEF Overtakes, TypeInv, IndexInRange
  <1>3. index[t] \notin ByteOf(index[u])
    BY <1>2 DEF ByteOf
  <1> QED BY <1>1, <1>3

LEMMA InitFrames == Init => FrameInv
  <1> SUFFICES ASSUME Init PROVE FrameInv
    OBVIOUS
  <1>1. TypeInv
    BY TypeStart
  <1>2. \A i \in Bits : given[FrameOf(i)] = 0
    BY Layout DEF Init
  <1>3. Marked = Reserved /\ Clearing = {}
    BY <1>2 DEF Marked, Clearing, Init
  <1>4. Leaving = {}
    BY <1>3 DEF Leaving
  <1>5. \A t \in Threads : CallInv(t)
    BY DEF CallInv, Init
  <1>6. Single /\ \A i \in Reserved : given[FrameOf(i)] = 0
    BY <1>2, Layout DEF Single, Init
  <1>7. bitmap = Reserved
    BY DEF Init
  <1> QED BY <1>1, <1>3, <1>4, <1>5, <1>6, <1>7 DEF FrameInv, Sound, Distinct

LEMMA SearchStep ==
    ASSUME TypeInv, Sound, NEW t \in Threads,
           \/ \E off \in BOOLEAN : AllocFrame(t, off)
           \/ TestUsed(t) \/ TestFree(t) \/ AllocFails(t)
    PROVE  Sound'
  <1>t. TypeOK /\ pc[t] \in Steps /\ index[t] \in 0 .. total_bits /\ total_bits \in Nat
    BY SoundTypes, Layout DEF TypeInv
  <1>1. /\ bitmap' = bitmap /\ given' = given
        /\ pc[t] \in {"out", "test"} /\ pc'[t] \in {"out", "test", "set_load"}
        /\ Moves(t)
    BY <1>t DEF AllocFrame, Enter, TestUsed, TestFree, AllocFails, At, Goto, Leave, Moves,
                TypeOK
  <1>2. pc'[t] = "set_load" => index'[t] \in Bits \ bitmap
    BY <1>t DEF AllocFrame, Enter, TestUsed, TestFree, AllocFails, At, Goto, Leave, TypeOK, Bits
  <1>3. CallInv(t)'
    BY <1>1, <1>2 DEF CallInv
  <1>4. t \notin Clearing /\ t \notin Clearing'
    BY <1>1 DEF Clearing
  <1> QED BY <1>t, <1>1, <1>3, <1>4, QuietStep

LEMMA LoadStep ==
    ASSUME TypeInv, Sound, NEW t \in Threads, SetLoad(t) \/ ClearLoad(t)
    PROVE  Sound'
  <1>t. TypeOK
    BY DEF TypeInv
  <1>1. /\ bitmap' = bitmap /\ given' = given /\ index' = index /\ Moves(t)
        /\ byte'[t] = bitmap \cap ByteOf(index[t])
        /\ \/ pc[t] = "set_load" /\ pc'[t] = "set_store"
           \/ pc[t] = "clear_load" /\ pc'[t] = "clear_store"
    BY <1>t DEF SetLoad, ClearLoad, At, Goto, Moves, TypeOK
  <1>2. CallInv(t)
    BY DEF Sound
  <1>3. CallInv(t)'
    BY <1>1, <1>2 DEF CallInv, Marked, ByteOf
  <1>4. t \in Clearing <=> t \in Clearing'
    BY <1>1 DEF Clearing
  <1> QED BY <1>t, <1>1, <1>3, <1>4, QuietStep

LEMMA SetStep ==
    ASSUME TypeInv, Sound, NEW t \in Threads, SetStore(t), ~ Overtakes(t)
    PROVE  Sound'
  <1> DEFINE i == index[t]
  <1>t. TypeOK
    BY DEF TypeInv
  <1>1. /\ pc[t] = "set_store" /\ pc'[t] = "out" /\ Moves(t)
        /\ bitmap' = Stored(t, byte[t] \cup {i})
        /\ given' = [given EXCEPT ![FrameOf(i)] = @ + 1]
    BY <1>t DEF SetStore, At, Goto, Leave, Moves, TypeOK
  <1>2. i \in Bits \ bitmap /\ byte[t] = bitmap \cap ByteOf(i)
    BY <1>1 DEF Sound, CallInv
  <1>3. bitmap' = bitmap \cup {i}
    BY <1>t, <1>1, <1>2, StoreOneBit DEF TypeOK
  <1>4. /\ FrameOf(i) \in Frames /\ given \in [Frames -> Nat] /\ given[FrameOf(i)] = 0
        /\ i \notin Reserved /\ i \notin Leaving
    BY <1>t, <1>2, Layout DEF TypeOK, Sound, Marked
  <1>o. \A u \in Threads : u # t /\ pc[u] \in {"set_store", "clear_store"} =>
            byte[u] = (bitmap \cup {i}) \cap ByteOf(index[u])
    BY <1>2, OtherBytes
  <1>p. \A u \in Threads : u # t /\ pc[u] \in {"set_load", "set_store"} => index[u] # i
    <2>1. i \in ByteOf(i)
      BY <1>2 DEF ByteOf
    <2> QED BY <2>1 DEF Overtakes
  <1> HIDE DEF i
  <1>5. /\ given'[FrameOf(i)] = 1
        /\ \A j \in Bits : j # i => given'[FrameOf(j)] = given[FrameOf(j)]
        /\ \A f \in Frames : f # FrameOf(i) => given'[f] = given[f]
    BY <1>1, <1>2, <1>4, Layout
  <1>6. Marked' = Marked \cup {i}
    BY <1>2, <1>5 DEF Marked
  <1>7. Clearing' = Clearing /\ \A u \in Clearing : index'[u] = index[u] /\ u # t
    BY <1>1 DEF Clearing, Moves
  <1>8. Leaving' = Leaving
    BY <1>7 DEF Leaving
  <1>9. bitmap' = (Marked \cup Leaving)'
    BY <1>3, <1>6, <1>8 DEF Sound
  <1>10. ASSUME NEW u \in Threads PROVE CallInv(u)'
    <2>1. CASE u = t
      BY <1>1, <2>1 DEF CallInv
    <2>2. CASE u # t
      <3>1. pc'[u] = pc[u] /\ index'[u] = index[u] /\ byte'[u] = byte[u] /\ CallInv(u)
        BY <1>1, <2>2 DEF Moves, Sound
      <3>2. pc[u] \in {"clear_load", "clear_store"} => index[u] # i
        BY <1>4 DEF Leaving, Clearing
      <3>3. pc[u] \in {"set_store", "clear_store"} => byte[u] = bitmap' \cap ByteOf(index[u])
        BY <1>3, <1>o, <2>2
      <3>4. pc[u] \in {"set_load", "set_store"} => index[u] \in Bits \ bitmap'
        BY <1>3, <1>p, <2>2, <3>1 DEF CallInv
      <3>5. pc[u] \in {"clear_load", "clear_store"} => index[u] \in Bits \ Marked'
        BY <1>6, <3>1, <3>2 DEF CallInv
      <3> QED BY <3>1, <3>3, <3>4, <3>5 DEF CallInv, ByteOf
    <2> QED BY <2>1, <2>2
  <1>11. Distinct'
    BY <1>7 DEF Sound, Distinct
  <1>12. Single'
    BY <1>5 DEF Sound, Single
  <1>13. \A j \in Reserved : given'[FrameOf(j)] = 0
    BY <1>4, <1>5, Layout DEF Sound
  <1> QED BY <1>9, <1>10, <1>11, <1>12, <1>13 DEF Sound

LEMMA FreeBegins ==
    ASSUME TypeInv, Sound, NEW t \in Threads, NEW f \in Frames, FreeFrame(t, f)
    PROVE  Sound'
  <1> DEFINE i == IndexOf(f)
  <1>t. TypeOK
    BY DEF TypeInv
  <1>1. /\ pc[t] = "out" /\ pc'[t] = "clear_load" /\ Moves(t) /\ index'[t] = i
        /\ bitmap' = bitmap /\ given[f] > 0 /\ given' = [given EXCEPT ![f] = @ - 1]
    BY <1>t DEF FreeFrame, Enter, At, Goto, Moves, TypeOK
  <1>2. i \in Bits /\ FrameOf(i) = f /\ given \in [Frames -> Nat]
    BY <1>t, Layout DEF TypeOK
  <1>3. given[f] = 1 /\ i \notin Reserved /\ i \in Marked
    BY <1>1, <1>2 DEF Sound, Single, Marked
  <1> HIDE DEF i
  <1>5. /\ given'[f] = 0
        /\ \A j \in Bits : j # i => given'[FrameOf(j)] = given[FrameOf(j)]
        /\ \A g \in Frames : g # f => given'[g] = given[g]
    BY <1>1, <1>2, <1>3, Layout
  <1>6. Marked' = Marked \ {i}
    BY <1>2, <1>3, <1>5 DEF Marked
  <1>7. /\ Clearing' = Clearing \cup {t} /\ t \notin Clearing
        /\ \A u \in Clearing : index'[u] = index[u]
    BY <1>1 DEF Clearing, Moves
  <1>8. Leaving' = Leaving \cup {i}
    BY <1>1, <1>7 DEF Leaving
  <1>9. bitmap' = (Marked \cup Leaving)'
    BY <1>1, <1>3, <1>6, <1>8 DEF Sound
  <1>a. \A u \in Clearing : index[u] # i
    BY <1>3 DEF Sound, CallInv, Clearing
  <1>10. ASSUME NEW u \in Threads PROVE CallInv(u)'
    <2>1. CASE u = t
      BY <1>1, <1>2, <1>6, <2>1 DEF CallInv
    <2>2. CASE u # t
      <3>1. pc'[u] = pc[u] /\ index'[u] = index[u] /\ byte'[u] = byte[u] /\ CallInv(u)
        BY <1>1, <2>2 DEF Moves, Sound
      <3> QED BY <1>1, <1>6, <3>1 DEF CallInv, ByteOf
    <2> QED BY <2>1, <2>2
  <1>11. Distinct'
    BY <1>1, <1>7, <1>a DEF Sound, Distinct
  <1>12. Single'
    BY <1>5 DEF Sound, Single
  <1>13. \A j \in Reserved : given'[FrameOf(j)] = 0
    BY <1>3, <1>5, Layout DEF Sound
  <1> QED BY <1>9, <1>10, <1>11, <1>12, <1>13 DEF Sound

LEMMA ClearStep ==
    ASSUME TypeInv, Sound, NEW t \in Threads, ClearStore(t), ~ Overtakes(t)
    PROVE  Sound'
  <1> DEFINE i == index[t]
  <1>t. TypeOK
    BY DEF TypeInv
  <1>1. /\ pc[t] = "clear_store" /\ pc'[t] = "out" /\ Moves(t)
        /\ bitmap' = Stored(t, byte[t] \ {i}) /\ given' = given
    BY <1>t DEF ClearStore, At, Goto, Leave, Moves, TypeOK
  <1>2. i \in Bits \ Marked /\ byte[t] = bitmap \cap ByteOf(i)
    BY <1>1 DEF Sound, CallInv
  <1>3. bitmap' = bitmap \ {i}
    BY <1>t, <1>1, <1>2, StoreOneBit DEF TypeOK
  <1>o. \A u \in Threads : u # t /\ pc[u] \in {"set_store", "clear_store"} =>
            byte[u] = (bitmap \ {i}) \cap ByteOf(index[u])
    BY <1>2, OtherBytes
  <1>6. Marked' = Marked
    BY <1>1 DEF Marked
  <1>7. /\ Clearing' = Clearing \ {t} /\ t \in Clearing
        /\ \A u \in Clearing \ {t} : index'[u] = index[u] /\ index[u] # i
    BY <1>1 DEF Clearing, Moves, Sound, Distinct
  <1> HIDE DEF i
  <1>8. Leaving' = Leaving \ {i}
    <2>1. Leaving' = {index[u] : u \in Clearing \ {t}}
      BY <1>7 DEF Leaving
    <2>2. Leaving = {index[u] : u \in Clearing \ {t}} \cup {i}
      BY <1>7 DEF Leaving, i
    <2> QED BY <1>7, <2>1, <2>2
  <1>9. bitmap' = (Marked \cup Leaving)'
    BY <1>2, <1>3, <1>6, <1>8 DEF Sound
  <1>10. ASSUME NEW u \in Threads PROVE CallInv(u)'
    <2>1. CASE u = t
      BY <1>1, <2>1 DEF CallInv
    <2>2. CASE u # t
      <3>1. pc'[u] = pc[u] /\ index'[u] = index[u] /\ byte'[u] = byte[u] /\ CallInv(u)
        BY <1>1, <2>2 DEF Moves, Sound
      <3>2. pc[u] \in {"set_store", "clear_store"} => byte[u] = bitmap' \cap ByteOf(index[u])
        BY <1>3, <1>o, <2>2
      <3> QED BY <1>3, <1>6, <3>1, <3>2 DEF CallInv, ByteOf
    <2> QED BY <2>1, <2>2
  <1>11. Distinct'
    BY <1>7 DEF Sound, Distinct
  <1>12. Single' /\ \A j \in Reserved : given'[FrameOf(j)] = 0
    BY <1>1 DEF Sound, Single
  <1> QED BY <1>9, <1>10, <1>11, <1>12 DEF Sound

LEMMA NextFrames == FrameInv /\ [Next]_vars => FrameInv'
  <1> SUFFICES ASSUME FrameInv, [Next]_vars, ~ overtaken' PROVE Sound'
    BY NextTypes DEF FrameInv
  <1>1. TypeInv
    BY DEF FrameInv
  <1>2. CASE UNCHANGED vars
    BY <1>2 DEF vars, FrameInv, Sound, CallInv, Marked, Leaving, Clearing, Distinct, Single, ByteOf
  <1>3. ASSUME NEW t \in Threads, SetStore(t) \/ ClearStore(t) PROVE Sound'
    <2>1. ~ overtaken /\ ~ Overtakes(t)
      BY <1>3 DEF SetStore, ClearStore
    <2> QED BY <1>1, <1>3, <2>1, SetStep, ClearStep DEF FrameInv
  <1>4. ASSUME NEW t \in Threads,
               \/ \E off \in BOOLEAN : AllocFrame(t, off)
               \/ TestUsed(t) \/ TestFree(t) \/ AllocFails(t) \/ SetLoad(t) \/ ClearLoad(t)
               \/ \E f \in Frames : FreeFrame(t, f)
        PROVE  Sound'
    <2>1. ~ overtaken
      BY <1>4 DEF AllocFrame, TestUsed, TestFree, AllocFails, SetLoad, ClearLoad, FreeFrame
    <2> QED BY <1>1, <1>4, <2>1, SearchStep, LoadStep, FreeBegins DEF FrameInv
  <1> QED BY <1>2, <1>3, <1>4 DEF Next, AllocStep, FreeStep

LEMMA FrameInvariant == Spec => []FrameInv
  <1> QED BY NextFrames, InitFrames, PTL DEF Spec

\* However many calls interrupt one another, no frame has two holders until a store
\* comes between another call's reading of the bit or byte and its store, whatever
\* the size of the memory.
THEOREM AlwaysOneHolder == Spec => []OneHolder
  <1>1. FrameInv => OneHolder
    BY DEF FrameInv, Sound, Single, OneHolder
  <1> QED BY <1>1, FrameInvariant, PTL

\* Nor is a bit lost: the bitmap is exact at every point of every call until then.
THEOREM BitmapStaysExact == Spec => []BitmapIsExact
  <1>1. FrameInv => BitmapIsExact
    BY DEF FrameInv, Sound, BitmapIsExact, Marked, Leaving, Clearing
  <1> QED BY <1>1, FrameInvariant, PTL

---------------------------------------------------------------------------
(* The promise of module FramePool.                                        *)

PoolFrames == {FrameOf(i) : i \in Bits \ Reserved}
Taken == {f \in Frames : given[f] > 0}
Refused == \E t \in Threads : pc[t] = "test" /\ index[t] = total_bits

Searching == {"test", "set_load", "set_store"}

\* A call that no other has overlapped is the only one, and has seen every bit below
\* its index set.
Lonely ==
    ~ mixed =>
        /\ \A t, u \in Threads : pc[t] # "out" /\ pc[u] # "out" => t = u
        /\ \A t \in Threads : pc[t] \in Searching => \A j \in Bits : j < index[t] => j \in bitmap

LEMMA LonelyStart == Init => Lonely
  <1> QED BY DEF Init, Lonely, Searching

LEMMA LonelyStep ==
    ASSUME TypeInv, Lonely, [Next]_vars
    PROVE  Lonely'
  <1> SUFFICES ASSUME ~ mixed', [Next]_vars, ~ UNCHANGED vars
               PROVE  /\ \A t, u \in Threads : pc'[t] # "out" /\ pc'[u] # "out" => t = u
                      /\ \A t \in Threads : pc'[t] \in Searching =>
                            \A j \in Bits : j < index'[t] => j \in bitmap'
    BY DEF Lonely, vars
  <1>t. TypeOK /\ total_bits \in Nat
    BY Layout DEF TypeInv
  <1>1. PICK t \in Threads : AllocStep(t) \/ FreeStep(t)
    BY DEF Next
  <1>2. Moves(t)
    BY <1>t, <1>1 DEF AllocStep, FreeStep, AllocFrame, TestUsed, TestFree, AllocFails, SetLoad,
       SetStore, FreeFrame, ClearLoad, ClearStore, Enter, Leave, Goto, Moves, TypeOK
  \* Nobody else is in a call.
  <1>3. \A u \in Threads : u # t => pc[u] = "out"
    <2>1. CASE (\E off \in BOOLEAN : AllocFrame(t, off)) \/ (\E f \in Frames : FreeFrame(t, f))
      BY <2>1 DEF AllocFrame, FreeFrame, Enter, Others
    <2>2. CASE AllocFails(t) \/ SetStore(t) \/ ClearStore(t)
      <3>1. pc[t] # "out" /\ mixed' = (mixed /\ Others(t))
        BY <2>2 DEF AllocFails, SetStore, ClearStore, At, Leave
      <3> QED BY <3>1 DEF Lonely, Others
    <2>3. CASE TestUsed(t) \/ TestFree(t) \/ SetLoad(t) \/ ClearLoad(t)
      <3>1. pc[t] # "out" /\ mixed' = mixed
        BY <2>3 DEF TestUsed, TestFree, SetLoad, ClearLoad, At
      <3> QED BY <3>1 DEF Lonely
    <2> QED BY <1>1, <2>1, <2>2, <2>3 DEF AllocStep, FreeStep
  <1>4. \A u \in Threads : u # t => pc'[u] = "out"
    BY <1>2, <1>3 DEF Moves
  <1>5. ASSUME pc'[t] \in Searching, NEW j \in Bits, j < index'[t]
        PROVE  j \in bitmap'
    <2>1. CASE (\E off \in BOOLEAN : AllocFrame(t, off))
      <3>1. index'[t] = 0 /\ j \in Nat
        BY <1>t, <2>1, Layout DEF AllocFrame, Enter, TypeOK
      <3> QED BY <1>5, <3>1
    <2>2. CASE TestUsed(t)
      <3>1. /\ pc[t] = "test" /\ index[t] \in bitmap /\ index'[t] = index[t] + 1
            /\ bitmap' = bitmap /\ index[t] \in Nat /\ j \in Nat
            /\ mixed' = mixed
        BY <1>t, <2>2, Layout DEF TestUsed, At, TypeOK
      <3>2. j < index[t] \/ j = index[t]
        BY <1>5, <3>1
      <3> QED BY <3>1, <3>2 DEF Lonely, Searching
    <2>3. CASE TestFree(t) \/ SetLoad(t)
      <3>1. pc[t] \in Searching /\ index' = index /\ bitmap' = bitmap /\ mixed' = mixed
        BY <2>3 DEF TestFree, SetLoad, At, Searching
      <3> QED BY <1>5, <3>1 DEF Lonely
    <2>4. CASE \/ AllocFails(t) \/ SetStore(t) \/ ClearLoad(t) \/ ClearStore(t)
               \/ \E f \in Frames : FreeFrame(t, f)
      <3>1. pc'[t] \in {"out", "clear_load", "clear_store"}
        BY <1>t, <2>4 DEF AllocFails, SetStore, ClearLoad, ClearStore, FreeFrame, Enter, Leave,
                          Goto, TypeOK
      <3> QED BY <1>5, <3>1 DEF Searching
    <2> QED BY <1>1, <2>1, <2>2, <2>3, <2>4 DEF AllocStep, FreeStep
  <1>6. \A u \in Threads : pc'[u] \in Searching => u = t
    BY <1>4 DEF Searching
  <1> QED BY <1>4, <1>5, <1>6

\* The search of a call alone that came to the end has seen that every frame is held.
LEMMA RefusedIsFull ==
    ASSUME FrameInv, Lonely, ~ mixed, ~ overtaken, Refused
    PROVE  PoolFrames \subseteq Taken
  <1>1. PICK t \in Threads : pc[t] = "test" /\ index[t] = total_bits
    BY DEF Refused
  <1>2. \A j \in Bits : j < total_bits => j \in bitmap
    BY <1>1 DEF Lonely, Searching
  <1>3. Leaving = {}
    BY <1>1 DEF Lonely, Leaving, Clearing
  <1>4. \A j \in Bits : j \in Reserved \/ given[FrameOf(j)] > 0
    BY <1>2, <1>3, Layout DEF Bits, Marked, FrameInv, Sound
  <1> QED BY <1>4, Layout DEF PoolFrames, Taken

LEMMA RefusedNext ==
    FrameInv' /\ Lonely' /\ ~ mixed' /\ ~ overtaken' /\ Refused' => (PoolFrames \subseteq Taken)'
  <1>1. FrameInv /\ Lonely /\ ~ mixed /\ ~ overtaken /\ Refused => PoolFrames \subseteq Taken
    BY RefusedIsFull
  <1> QED BY <1>1, PTL

LEMMA PoolStep ==
    ASSUME FrameInv, FrameInv', Lonely, Lonely', [Next]_vars
    PROVE  [Pool!PoolNext]_<<Taken, Refused, mixed, overtaken>>
  <1> SUFFICES ASSUME ~ overtaken', [Next]_vars, ~ UNCHANGED vars
               PROVE  Pool!PoolNext
    BY DEF Pool!PoolNext, vars, Taken, Refused
  <1>0. PICK t \in Threads : AllocStep(t) \/ FreeStep(t)
    BY DEF Next
  <1>1. ~ overtaken /\ Sound /\ TypeOK
    <2>1. CASE SetStore(t) \/ ClearStore(t)
      BY <2>1 DEF SetStore, ClearStore, FrameInv, TypeInv
    <2>2. CASE \/ \E off \in BOOLEAN : AllocFrame(t, off)
               \/ TestUsed(t) \/ TestFree(t) \/ AllocFails(t) \/ SetLoad(t) \/ ClearLoad(t)
               \/ \E f \in Frames : FreeFrame(t, f)
      <3>1. overtaken' = overtaken
        BY <2>2 DEF AllocFrame, TestUsed, TestFree, AllocFails, SetLoad, ClearLoad, FreeFrame
      <3> QED BY <3>1 DEF FrameInv, TypeInv
    <2> QED BY <1>0, <2>1, <2>2 DEF AllocStep, FreeStep
  \* A step that gives and takes nothing begins or ends a refusal, if anything.
  <1>2. ASSUME given' = given PROVE Pool!PoolNext
    <2>1. Taken' = Taken
      BY <1>2 DEF Taken
    <2>2. CASE mixed \/ mixed'
      BY <1>1, <2>1, <2>2 DEF Pool!PoolNext, Pool!Together, Taken
    <2>3. CASE ~ mixed /\ ~ mixed'
      <3>1. ~ Refused /\ Refused' => PoolFrames \subseteq Taken
        BY <2>1, <2>3, RefusedNext DEF PoolFrames
      <3>2. Refused' \in BOOLEAN /\ Refused \in BOOLEAN
        BY DEF Refused
      <3>3. Pool!Alone
        BY <2>1, <3>1, <3>2 DEF Pool!Alone, Pool!Refuse, PoolFrames, Taken, Refused
      <3> QED BY <1>1, <2>3, <3>3 DEF Pool!PoolNext
    <2> QED BY <2>2, <2>3
  \* A call alone is not refused when it takes or gives back.
  <1>3. ASSUME ~ mixed, ~ mixed', pc[t] # "test", pc'[t] # "test", Moves(t),
               \A u \in Threads : u # t => pc[u] = "out"
        PROVE  ~ Refused /\ ~ Refused'
    BY <1>3 DEF Refused, Moves
  <1>4. ASSUME SetStore(t) PROVE Pool!PoolNext
    <2> DEFINE i == index[t]
               f == FrameOf(i)
    <2>1. /\ pc[t] = "set_store" /\ pc'[t] = "out" /\ Moves(t)
          /\ given' = [given EXCEPT ![f] = @ + 1]
      BY <1>1, <1>4 DEF SetStore, At, Goto, Leave, Moves, TypeOK
    <2>2. i \in Bits \ bitmap /\ bitmap = Marked \cup Leaving
      BY <1>1, <2>1 DEF Sound, CallInv
    <2>3. f \in Frames /\ f \in PoolFrames /\ given[f] = 0
      <3>1. i \in Bits \ Reserved /\ f \in Frames
        BY <2>2, Layout DEF Marked
      <3> QED BY <1>1, <2>2, <3>1 DEF TypeOK, Marked, PoolFrames
    <2>4. ASSUME ~ mixed PROVE \A g \in PoolFrames \ Taken : f <= g
      <3>1. ASSUME NEW j \in Bits \ Reserved, FrameOf(j) \notin Taken
            PROVE  f <= FrameOf(j)
        <4>1. j \notin Marked
          <5>1. FrameOf(j) \in Frames /\ given[FrameOf(j)] \in Nat
            BY <1>1, Layout DEF TypeOK
          <5> QED BY <3>1, <5>1 DEF Marked, Taken
        <4>2. Leaving = {}
          BY <2>1, <2>4 DEF Lonely, Leaving, Clearing
        <4>3. ~ (j < i)
          BY <2>1, <2>2, <2>4, <4>1, <4>2 DEF Lonely, Searching
        <4>4. alloc_base_frame + i <= alloc_base_frame + j
          BY <2>2, <4>3, Layout
        <4> QED BY <4>4 DEF FrameOf
      <3> QED BY <3>1 DEF PoolFrames
    <2>5. ASSUME ~ mixed, ~ mixed' PROVE ~ Refused /\ ~ Refused'
      BY <1>3, <2>1, <2>5 DEF Lonely
    <2> HIDE DEF i, f
    <2>6. Taken' = Taken \cup {f}
      BY <1>1, <2>1, <2>3 DEF Taken, TypeOK
    <2>7. f \notin Taken
      BY <2>3 DEF Taken
    <2>9. CASE mixed \/ mixed'
      <3>1. \E g \in PoolFrames : g \notin Taken /\ Taken' = Taken \cup {g}
        BY <2>3, <2>6, <2>7
      <3>2. Pool!Together
        BY <3>1 DEF Pool!Together, Pool!Take, PoolFrames, Taken
      <3> QED BY <1>1, <2>9, <3>2 DEF Pool!PoolNext
    <2>10. CASE ~ mixed /\ ~ mixed'
      <3>2. \E g \in PoolFrames : /\ g \notin Taken /\ Taken' = Taken \cup {g}
                                  /\ \A x \in PoolFrames \ Taken : g <= x
        BY <2>3, <2>4, <2>6, <2>7, <2>10
      <3>3. Pool!Alone
        BY <2>5, <2>10, <3>2 DEF Pool!Alone, Pool!TakeLowest, Pool!Take, PoolFrames, Taken, Refused
      <3> QED BY <1>1, <2>10, <3>3 DEF Pool!PoolNext
    <2> QED BY <2>9, <2>10
  <1>5. ASSUME NEW f \in Frames, FreeFrame(t, f) PROVE Pool!PoolNext
    <2>1. /\ pc[t] = "out" /\ pc'[t] = "clear_load" /\ Moves(t)
          /\ given[f] > 0 /\ given' = [given EXCEPT ![f] = @ - 1]
          /\ mixed' = (mixed \/ Others(t))
      BY <1>1, <1>5 DEF FreeFrame, Enter, At, Goto, Moves, TypeOK
    <2>2. given[f] = 1 /\ given \in [Frames -> Nat]
      BY <1>1, <2>1 DEF Sound, Single, TypeOK
    <2>3. f \in PoolFrames
      BY <1>1, <2>2, Layout DEF PoolFrames, Sound
    <2>4. Taken' = Taken \ {f} /\ f \in Taken
      BY <2>1, <2>2 DEF Taken
    <2>5. Pool!GiveBack(f)
      BY <2>4 DEF Pool!GiveBack, Taken
    <2>6. CASE mixed \/ mixed'
      BY <1>1, <2>3, <2>5, <2>6 DEF Pool!PoolNext, Pool!Together, PoolFrames
    <2>7. CASE ~ mixed /\ ~ mixed'
      <3>1. ~ Refused /\ ~ Refused'
        BY <1>3, <2>1, <2>7 DEF Others
      <3>2. Pool!Alone
        BY <2>3, <2>5, <3>1 DEF Pool!Alone, PoolFrames, Refused
      <3> QED BY <1>1, <2>7, <3>2 DEF Pool!PoolNext
    <2> QED BY <2>6, <2>7
  <1>6. ASSUME \/ \E off \in BOOLEAN : AllocFrame(t, off)
               \/ TestUsed(t) \/ TestFree(t) \/ AllocFails(t)
               \/ SetLoad(t) \/ ClearLoad(t) \/ ClearStore(t)
        PROVE  given' = given
    BY <1>6 DEF AllocFrame, TestUsed, TestFree, AllocFails, SetLoad, ClearLoad, ClearStore
  <1> QED BY <1>0, <1>2, <1>4, <1>5, <1>6 DEF AllocStep, FreeStep

\* Until a store overtakes another call, alloc_frame takes a free frame and free_frame
\* gives back one that was taken; a call that runs alone takes the lowest frame and
\* fails only when there is none. For every size of the memory.
THEOREM LowestFrame == Spec => TakesLowest
  <1>1. FrameInv /\ FrameInv' /\ Lonely /\ Lonely' /\ [Next]_vars
          => [Pool!PoolNext]_<<Taken, Refused, mixed, overtaken>>
    BY PoolStep
  <1>2. Init => Pool!PoolInit /\ Lonely
    BY LonelyStart DEF Init, Pool!PoolInit
  <1>3. FrameInv /\ Lonely /\ [Next]_vars => Lonely'
    BY LonelyStep DEF FrameInv
  <1> QED BY <1>1, <1>2, <1>3, FrameInvariant, PTL
          DEF Spec, TakesLowest, Pool!PoolSpec, Taken, Refused
=============================================================================
