----------------------------- MODULE HeapProofs -----------------------------
(***************************************************************************)
(* Proofs about module Heap, for every heap start, page size, number of    *)
(* frames and set of request sizes.  Each operation on the block list has  *)
(* a lemma that it keeps the shape of the list; the inductive invariant    *)
(* adds what relates the list to the pointers the callers hold.            *)
(***************************************************************************)
EXTENDS Heap, TLAPS

\* The part of the invariant that holds even in the middle of kfree.
Shape(h) == IsHeap(h) /\ IsLinked(h) /\ IsTiled(h)

\* Rounding up to 16 gives a multiple of 16 that is not smaller, and leaves
\* multiples of 16 alone (ALIGN16).
LEMMA AlignUp ==
    ASSUME NEW x \in Nat
    PROVE  /\ ALIGN16(x) \in Nat
           /\ ALIGN16(x) % 16 = 0
           /\ ALIGN16(x) >= x
           /\ x % 16 = 0 => ALIGN16(x) = x
  BY SMT DEF ALIGN16

\* Sums and differences of multiples of 16 are multiples of 16.
LEMMA SumOf16 ==
    ASSUME NEW x \in Nat, NEW y \in Nat, x % 16 = 0, y % 16 = 0
    PROVE  (x + y) % 16 = 0 /\ (y >= x => (y - x) % 16 = 0)
  BY SMT

---------------------------------------------------------------------------
(* block_coalesce_next.                                                    *)

\* What a merge with the next block does to each field.
LEMMA CoalesceFields ==
    ASSUME NEW h, IsHeap(h), NEW b \in h.blocks,
           h.next[b] # Null, h.next[b] \notin h.used
    PROVE  LET r == block_coalesce_next(h, b)
               n == h.next[b]
           IN  /\ DOMAIN r = Fields
               /\ r.blocks = h.blocks \ {n}
               /\ r.used = h.used
               /\ r.size = [a \in h.blocks \ {n} |->
                              IF a = b THEN h.size[b] + h.size[n]
                                       ELSE h.size[a]]
               /\ r.next = [a \in h.blocks \ {n} |->
                              IF a = b THEN h.next[n] ELSE h.next[a]]
               /\ r.prev = [a \in h.blocks \ {n} |->
                              IF a = h.next[n] THEN b ELSE h.prev[a]]
               /\ r.first = h.first
               /\ r.last = LastAfter(h, h.next[n], b)
               /\ r.current = h.current
               /\ r.end = h.end
  BY DEF block_coalesce_next, IsHeap, Fields

\* Merging a block with its free successor keeps the list well formed.
LEMMA CoalesceShape ==
    ASSUME NEW h, Shape(h), NEW b \in h.blocks,
           h.next[b] # Null, h.next[b] \notin h.used
    PROVE  Shape(block_coalesce_next(h, b))
  <1> DEFINE r == block_coalesce_next(h, b)
             n == h.next[b]
             m == h.next[n]
  <1>1. /\ DOMAIN r = Fields
        /\ r.blocks = h.blocks \ {n}
        /\ r.used = h.used
        /\ r.size = [a \in h.blocks \ {n} |->
                       IF a = b THEN h.size[b] + h.size[n] ELSE h.size[a]]
        /\ r.next = [a \in h.blocks \ {n} |->
                       IF a = b THEN m ELSE h.next[a]]
        /\ r.prev = [a \in h.blocks \ {n} |->
                       IF a = m THEN b ELSE h.prev[a]]
        /\ r.first = h.first
        /\ r.last = LastAfter(h, m, b)
        /\ r.current = h.current
        /\ r.end = h.end
    BY CoalesceFields DEF Shape
  <1>2. /\ n = h.next[b] /\ m = h.next[n]
        /\ n \in h.blocks /\ n = b + h.size[b] /\ h.prev[n] = b
        /\ b \in Nat /\ n \in Nat /\ n # b /\ n > b
        /\ h.size[b] \in Nat /\ h.size[n] \in Nat /\ h.size[n] > 0
        /\ m \in h.blocks \cup {Null}
    BY DEF Shape, IsHeap, IsLinked, IsTiled, HEADER_SIZE
  <1>3. /\ m # Null => m = n + h.size[n] /\ h.prev[m] = n /\ m # n /\ m # b
        /\ m = Null => n = h.last /\ n + h.size[n] = h.current
    BY <1>2 DEF Shape, IsHeap, IsLinked
  <1>4. /\ b # n /\ h.first # n /\ h.last # b
        /\ m # Null => h.last # n
    BY <1>2 DEF Shape, IsHeap, IsLinked, IsTiled, HEADER_SIZE, Null
  <1> HIDE DEF r, n, m
  <1>5. /\ r.blocks \subseteq h.blocks
        /\ b \in r.blocks
        /\ m # Null => m \in r.blocks
        /\ \A a \in r.blocks : a # b => r.next[a] = h.next[a] /\ r.size[a] = h.size[a]
        /\ \A a \in r.blocks : a # m => r.prev[a] = h.prev[a]
        /\ r.next[b] = m /\ r.size[b] = h.size[b] + h.size[n]
        /\ m # Null => r.prev[m] = b
    BY <1>1, <1>2, <1>3, <1>4
  <1>6. /\ \A a \in r.blocks : a # b => h.next[a] # n
        /\ \A a \in r.blocks : a # m => h.prev[a] # n
    <2>1. \A a \in h.blocks : h.next[a] = n => a = b
      BY <1>2 DEF Shape, IsHeap, IsLinked
    <2>2. \A a \in h.blocks : h.prev[a] = n => a = m
      BY <1>2 DEF Shape, IsHeap, IsLinked
    <2> QED BY <1>5, <2>1, <2>2
  <1>7. IsHeap(r)
    <2>1. r.size \in [r.blocks -> Nat]
      BY <1>1, <1>2 DEF Shape, IsHeap
    <2>2. r.next \in [r.blocks -> r.blocks \cup {Null}]
      BY <1>1, <1>2, <1>3, <1>6 DEF Shape, IsHeap
    <2>3. r.prev \in [r.blocks -> r.blocks \cup {Null}]
      <3>1. \A a \in r.blocks : r.prev[a] \in r.blocks \cup {Null}
        BY <1>1, <1>5, <1>6 DEF Shape, IsHeap
      <3> QED BY <1>1, <3>1
    <2> QED BY <1>1, <1>2, <1>3, <1>4, <2>1, <2>2, <2>3
            DEF Shape, IsHeap, LastAfter
  <1>8. IsLinked(r)
    <2> SUFFICES ASSUME NEW a \in r.blocks
                 PROVE  /\ r.next[a] = Null <=> a = r.last
                        /\ r.next[a] = Null => a + r.size[a] = r.current
                        /\ r.next[a] # Null => /\ r.next[a] = a + r.size[a]
                                               /\ r.prev[r.next[a]] = a
                        /\ r.prev[a] = Null <=> a = r.first
                        /\ r.prev[a] # Null => r.next[r.prev[a]] = a
      BY DEF IsLinked
    <2>1. /\ r.next[a] = Null <=> a = r.last
          /\ r.next[a] = Null => a + r.size[a] = r.current
      <3>1. CASE a = b
        BY <1>1, <1>2, <1>3, <1>4, <1>5, <3>1 DEF LastAfter
      <3>2. CASE a # b
        <4>1. r.next[a] = Null => m # Null
          BY <1>1, <1>3, <1>5, <3>2 DEF Shape, IsLinked
        <4> QED BY <1>1, <1>5, <3>2, <4>1 DEF Shape, IsLinked, LastAfter
      <3> QED BY <3>1, <3>2
    <2>2. r.next[a] # Null => r.next[a] = a + r.size[a] /\ r.prev[r.next[a]] = a
      <3>1. CASE a = b
        BY <1>2, <1>3, <1>5, <3>1
      <3>2. CASE a # b
        <4>1. r.next[a] # Null => /\ r.next[a] \in h.blocks \ {n}
                                  /\ r.next[a] # m
          <5>1. r.next[a] = h.next[a] /\ h.next[a] # n /\ a \in h.blocks /\ a # n
            BY <1>1, <1>5, <1>6, <3>2
          <5>2. /\ h.next[a] \in h.blocks \cup {Null}
                /\ h.next[a] # Null => h.prev[h.next[a]] = a
            BY <5>1 DEF Shape, IsHeap, IsLinked
          <5>3. m # Null => h.prev[m] = n
            BY <1>3
          <5> QED BY <5>1, <5>2, <5>3
        <4> QED BY <1>1, <1>5, <3>2, <4>1 DEF Shape, IsLinked
      <3> QED BY <3>1, <3>2
    <2>3. r.prev[a] = Null <=> a = r.first
      BY <1>1, <1>2, <1>5 DEF Shape, IsHeap, IsLinked
    <2>4. r.prev[a] # Null => r.next[r.prev[a]] = a
      <3>1. CASE a = m
        BY <1>1, <1>5, <3>1 DEF Shape, IsHeap
      <3>2. CASE a # m
        <4>1. r.prev[a] # Null => /\ r.prev[a] \in r.blocks
                                  /\ r.prev[a] # b
          BY <1>1, <1>2, <1>5, <1>6, <3>2 DEF Shape, IsHeap, IsLinked
        <4> QED BY <1>5, <3>2, <4>1 DEF Shape, IsLinked
      <3> QED BY <3>1, <3>2
    <2> QED BY <2>1, <2>2, <2>3, <2>4
  <1>9. IsTiled(r)
    <2>1. \A a \in r.blocks :
            /\ a >= HeapStart /\ a % 16 = 0 /\ r.size[a] % 16 = 0
            /\ r.size[a] > HEADER_SIZE /\ a + r.size[a] <= r.current
      <3> TAKE a \in r.blocks
      <3>1. CASE a = b
        <4>1. h.size[b] % 16 = 0 /\ h.size[n] % 16 = 0
          BY <1>2 DEF Shape, IsTiled
        <4>2. r.size[b] % 16 = 0
          BY <1>2, <1>5, <4>1, SumOf16
        <4>3. /\ b >= HeapStart /\ b % 16 = 0 /\ h.size[b] > HEADER_SIZE
              /\ n + h.size[n] <= h.current
          BY <1>2 DEF Shape, IsTiled
        <4> QED BY <1>1, <1>2, <1>5, <3>1, <4>2, <4>3 DEF HEADER_SIZE
      <3>2. CASE a # b
        BY <1>1, <1>5, <3>2 DEF Shape, IsTiled
      <3> QED BY <3>1, <3>2
    <2>2. \A a, c \in r.blocks : a < c => a + r.size[a] <= c
      <3> SUFFICES ASSUME NEW a \in r.blocks, NEW c \in r.blocks, a < c
                   PROVE  a + r.size[a] <= c
        OBVIOUS
      <3>0. a \in Nat /\ c \in Nat /\ a \in h.blocks /\ c \in h.blocks /\ c # n
        BY <1>1 DEF Shape, IsHeap
      <3>1. CASE a = b
        <4>1. c >= n
          BY <1>2, <3>0, <3>1 DEF Shape, IsTiled
        <4>2. n + h.size[n] <= c
          BY <1>2, <3>0, <4>1 DEF Shape, IsTiled
        <4> QED BY <1>2, <1>5, <3>0, <3>1, <4>2
      <3>2. CASE a # b
        BY <1>5, <3>0, <3>2 DEF Shape, IsTiled
      <3> QED BY <3>1, <3>2
    <2> QED BY <1>1, <2>1, <2>2 DEF Shape, IsTiled
  <1> QED BY <1>7, <1>8, <1>9 DEF Shape, r

\* What the two merges keep: the used blocks with their sizes, and the block
\* itself when it has no free successor.
LEMMA CoalesceKeeps ==
    ASSUME NEW h, Shape(h), NEW b \in h.blocks \ h.used
    PROVE  LET r == block_coalesce_next(h, b) IN
           /\ Shape(r)
           /\ b \in r.blocks
           /\ r.used = h.used
           /\ \A a \in h.used : r.size[a] = h.size[a]
           /\ r.prev[b] = h.prev[b]
           /\ r.blocks \subseteq h.blocks
           /\ \A a \in r.blocks \ {b} : r.next[a] = h.next[a]
           /\ IF h.next[b] = Null \/ h.next[b] \in h.used
              THEN r.next[b] = h.next[b]
              ELSE /\ h.next[b] \in h.blocks \ h.used
                   /\ r.next[b] = h.next[h.next[b]]
  <1>1. CASE h.next[b] = Null \/ h.next[b] \in h.used
    BY <1>1 DEF block_coalesce_next
  <1>2. CASE h.next[b] # Null /\ h.next[b] \notin h.used
    <2> DEFINE r == block_coalesce_next(h, b)
               n == h.next[b]
    <2>1. Shape(r)
      BY <1>2, CoalesceShape
    <2>2. /\ r.blocks = h.blocks \ {n}
          /\ r.used = h.used
          /\ r.size = [a \in h.blocks \ {n} |->
                         IF a = b THEN h.size[b] + h.size[n] ELSE h.size[a]]
          /\ r.next = [a \in h.blocks \ {n} |->
                         IF a = b THEN h.next[n] ELSE h.next[a]]
          /\ r.prev = [a \in h.blocks \ {n} |->
                         IF a = h.next[n] THEN b ELSE h.prev[a]]
      BY <1>2, CoalesceFields DEF Shape
    <2>3. /\ n \in h.blocks /\ n # b /\ h.prev[n] = b
          /\ h.next[n] # b
      <3>1. n \in h.blocks /\ n = b + h.size[b] /\ h.size[b] > 0 /\ h.prev[n] = b
        BY <1>2 DEF Shape, IsHeap, IsLinked, IsTiled, HEADER_SIZE
      <3>2. b \in Nat /\ h.size[b] \in Nat /\ h.size[n] \in Nat
        BY <3>1 DEF Shape, IsHeap
      <3>3. h.next[n] # Null => h.next[n] = n + h.size[n]
        BY <3>1 DEF Shape, IsLinked
      <3>4. b # Null
        BY DEF Shape, IsHeap
      <3> HIDE DEF n
      <3> QED BY <3>1, <3>2, <3>3, <3>4
    <2>4. h.used \subseteq h.blocks \ {n}
      BY <1>2 DEF Shape, IsHeap
    <2> HIDE DEF r
    <2>5. /\ b \in r.blocks
          /\ \A a \in h.used : r.size[a] = h.size[a]
          /\ r.prev[b] = h.prev[b]
          /\ r.blocks \subseteq h.blocks
          /\ \A a \in r.blocks \ {b} : r.next[a] = h.next[a]
          /\ r.next[b] = h.next[n]
      BY <2>2, <2>3, <2>4
    <2> QED BY <1>2, <2>1, <2>2, <2>3, <2>5 DEF r
  <1> QED BY <1>1, <1>2

---------------------------------------------------------------------------
(* kfree.                                                                  *)

\* Marking a block free changes nothing else.
LEMMA MarkFree ==
    ASSUME NEW h, Shape(h), NEW b \in h.used
    PROVE  LET r == [h EXCEPT !.used = @ \ {b}] IN
           /\ Shape(r)
           /\ r.used = h.used \ {b}
           /\ r.blocks = h.blocks
           /\ r.size = h.size /\ r.next = h.next /\ r.prev = h.prev
  <1> DEFINE r == [h EXCEPT !.used = @ \ {b}]
  <1>1. /\ DOMAIN r = Fields
        /\ r.used = h.used \ {b}
        /\ r.blocks = h.blocks
        /\ r.size = h.size /\ r.next = h.next /\ r.prev = h.prev
        /\ r.first = h.first /\ r.last = h.last
        /\ r.current = h.current /\ r.end = h.end
    BY DEF Shape, IsHeap, Fields
  <1> HIDE DEF r
  <1>2. Shape(r)
    BY <1>1 DEF Shape, IsHeap, IsLinked, IsTiled
  <1> QED BY <1>1, <1>2 DEF r

\* kfree keeps the list well formed and coalesced, releases exactly the
\* block it is given and leaves the size of every other used block alone.
LEMMA ReleaseKeeps ==
    ASSUME NEW h, Shape(h), IsCoalesced(h), NEW b \in h.used
    PROVE  LET r == Release(h, b) IN
           /\ Shape(r)
           /\ IsCoalesced(r)
           /\ r.used = h.used \ {b}
           /\ \A a \in r.used : r.size[a] = h.size[a]
  <1> DEFINE g == [h EXCEPT !.used = @ \ {b}]
             k == block_coalesce_next(g, b)
             r == block_coalesce_prev(k, b)
             p == k.prev[b]
  <1>1. /\ Shape(g)
        /\ g.used = h.used \ {b}
        /\ g.blocks = h.blocks
        /\ g.size = h.size /\ g.next = h.next /\ g.prev = h.prev
    BY MarkFree
  <1>2. b \in g.blocks \ g.used
    BY <1>1 DEF Shape, IsHeap
  <1> HIDE DEF g
  <1>3. /\ Shape(k)
        /\ b \in k.blocks
        /\ k.used = g.used
        /\ \A a \in g.used : k.size[a] = g.size[a]
        /\ k.blocks \subseteq g.blocks
        /\ \A a \in k.blocks \ {b} : k.next[a] = g.next[a]
        /\ IF g.next[b] = Null \/ g.next[b] \in g.used
           THEN k.next[b] = g.next[b]
           ELSE /\ g.next[b] \in g.blocks \ g.used
                /\ k.next[b] = g.next[g.next[b]]
    BY <1>1, <1>2, CoalesceKeeps
  <1>4. k.next[b] # Null => k.next[b] \in k.used
    <2>1. b \notin {g.next[b], g.next[g.next[b]]} \/ g.next[b] = Null
      BY <1>1, <1>2 DEF Shape, IsHeap, IsLinked, IsTiled, HEADER_SIZE, Null
    <2> QED BY <1>1, <1>2, <1>3, <2>1 DEF IsCoalesced
  <1>5. \A a \in k.blocks \ k.used : a # b /\ k.next[a] # Null
                                     => k.next[a] \in k.used \cup {b}
    BY <1>1, <1>3 DEF IsCoalesced
  <1> HIDE DEF k
  <1>6. CASE p = Null \/ p \in k.used
    <2>1. r = k
      BY <1>6 DEF block_coalesce_prev
    <2>2. \A a \in k.blocks \ k.used : k.next[a] # b
      BY <1>3, <1>6 DEF Shape, IsHeap, IsLinked
    <2>3. IsCoalesced(k)
      BY <1>4, <1>5, <2>2 DEF IsCoalesced
    <2> QED BY <1>1, <1>3, <2>1, <2>3 DEF Release, g, k
  <1>7. CASE p # Null /\ p \notin k.used
    <2>1. r = block_coalesce_next(k, p)
      BY <1>7 DEF block_coalesce_prev
    <2>2. p \in k.blocks \ k.used /\ k.next[p] = b /\ b # Null /\ b \notin k.used
      BY <1>1, <1>3, <1>7 DEF Shape, IsHeap, IsLinked
    <2>3. /\ Shape(r)
          /\ r.used = k.used
          /\ \A a \in k.used : r.size[a] = k.size[a]
          /\ r.blocks \subseteq k.blocks
          /\ \A a \in r.blocks \ {p} : r.next[a] = k.next[a]
          /\ r.next[p] = k.next[b]
      BY <1>3, <2>1, <2>2, CoalesceKeeps
    <2>4. \A a \in k.blocks : k.next[a] = b => a = p
      BY <1>3, <2>2 DEF Shape, IsLinked
    <2>5. IsCoalesced(r)
      BY <1>4, <1>5, <2>2, <2>3, <2>4 DEF IsCoalesced
    <2> QED BY <1>1, <1>3, <2>3, <2>5 DEF Release, g, k
  <1> QED BY <1>6, <1>7

---------------------------------------------------------------------------
(* kmalloc.                                                                *)

\* Marking a free block used changes nothing else, and keeps neighbouring
\* free blocks apart.
LEMMA MarkUsed ==
    ASSUME NEW h, Shape(h), NEW b \in h.blocks,
           \A a \in h.blocks \ h.used :
               a # b /\ h.next[a] # Null => h.next[a] \in h.used \cup {b}
    PROVE  LET r == [h EXCEPT !.used = @ \cup {b}] IN
           /\ Shape(r)
           /\ IsCoalesced(r)
           /\ r.used = h.used \cup {b}
           /\ r.size = h.size
  <1> DEFINE r == [h EXCEPT !.used = @ \cup {b}]
  <1>1. /\ DOMAIN r = Fields
        /\ r.used = h.used \cup {b}
        /\ r.blocks = h.blocks
        /\ r.size = h.size /\ r.next = h.next /\ r.prev = h.prev
        /\ r.first = h.first /\ r.last = h.last
        /\ r.current = h.current /\ r.end = h.end
    BY DEF Shape, IsHeap, Fields
  <1> HIDE DEF r
  <1>2. Shape(r)
    BY <1>1 DEF Shape, IsHeap, IsLinked, IsTiled
  <1>3. IsCoalesced(r)
    BY <1>1 DEF IsCoalesced
  <1> QED BY <1>1, <1>2, <1>3 DEF r

\* Cutting a free block keeps the list well formed: the first part has the
\* asked size, the remainder is a free block behind it.
LEMMA SplitKeeps ==
    ASSUME NEW h, Shape(h), NEW b \in h.blocks \ h.used,
           NEW payload \in Nat, payload % 16 = 0, payload > 0,
           h.size[b] > HEADER_SIZE + payload + MIN_SPLIT
    PROVE  LET r == block_split(h, b, payload)
               rem == b + HEADER_SIZE + payload
           IN  /\ Shape(r)
               /\ r.used = h.used
               /\ r.blocks = h.blocks \cup {rem}
               /\ rem \notin h.blocks
               /\ r.size[b] = HEADER_SIZE + payload
               /\ \A a \in h.used : r.size[a] = h.size[a]
               /\ r.next[b] = rem
               /\ r.next[rem] = h.next[b]
               /\ \A a \in h.blocks \ {b} : r.next[a] = h.next[a]
  <1> DEFINE r == block_split(h, b, payload)
             total == HEADER_SIZE + payload
             rem == b + total
             n == h.next[b]
             newBlocks == h.blocks \cup {rem}
  <1>1. /\ DOMAIN r = Fields
        /\ r.blocks = newBlocks
        /\ r.used = h.used
        /\ r.size = [a \in newBlocks |->
                       CASE a = b -> total
                         [] a = rem -> h.size[b] - total
                         [] OTHER -> h.size[a]]
        /\ r.next = [a \in newBlocks |->
                       CASE a = b -> rem [] a = rem -> n [] OTHER -> h.next[a]]
        /\ r.prev = [a \in newBlocks |->
                       CASE a = rem -> b [] a = n -> rem [] OTHER -> h.prev[a]]
        /\ r.first = h.first
        /\ r.last = LastAfter(h, n, rem)
        /\ r.current = h.current
        /\ r.end = h.end
    <2>1. ~ (h.size[b] <= total + MIN_SPLIT)
      BY DEF Shape, IsHeap, HEADER_SIZE, MIN_SPLIT
    <2> QED BY <2>1 DEF block_split, Shape, IsHeap, Fields
  <1>2. /\ b \in Nat /\ total \in Nat /\ rem \in Nat /\ total > HEADER_SIZE
        /\ h.size[b] \in Nat /\ h.size[b] - total > MIN_SPLIT
        /\ total % 16 = 0 /\ rem > b /\ rem < b + h.size[b]
        /\ total < h.size[b] /\ h.size[b] - total \in Nat
    BY DEF Shape, IsHeap, HEADER_SIZE, MIN_SPLIT
  <1>3. /\ b % 16 = 0 /\ h.size[b] % 16 = 0 /\ b + h.size[b] <= h.current
        /\ b >= HeapStart
        /\ \A c \in h.blocks : b < c => b + h.size[b] <= c
        /\ \A c \in h.blocks : c < b => c + h.size[c] <= b
    BY DEF Shape, IsTiled
  <1>4. rem % 16 = 0 /\ (h.size[b] - total) % 16 = 0
    <2>1. rem = b + total
      OBVIOUS
    <2> HIDE DEF total, rem
    <2>2. (b + total) % 16 = 0
      BY <1>2, <1>3, SumOf16
    <2>3. (h.size[b] - total) % 16 = 0
      BY <1>2, <1>3, SumOf16
    <2> QED BY <2>1, <2>2, <2>3
  <1>5. rem \notin h.blocks
    BY <1>2, <1>3 DEF Shape, IsHeap
  <1>6. /\ n = h.next[b] /\ n \in h.blocks \cup {Null}
        /\ n # Null => n = b + h.size[b] /\ h.prev[n] = b /\ n # b /\ n # rem
        /\ n = Null <=> b = h.last
        /\ n = Null => b + h.size[b] = h.current
        /\ rem # Null /\ b # rem /\ rem # h.first /\ rem # h.last
    BY <1>2, <1>5 DEF Shape, IsHeap, IsLinked, Null
  <1>7. rem + (h.size[b] - total) = b + h.size[b]
    BY <1>2
  <1> HIDE DEF r, total, rem, n
  <1>8. /\ \A a \in h.blocks \ {b} : r.next[a] = h.next[a] /\ r.size[a] = h.size[a]
        /\ \A a \in h.blocks : a # n => r.prev[a] = h.prev[a]
        /\ r.size[b] = total /\ r.size[rem] = h.size[b] - total
        /\ r.next[b] = rem /\ r.next[rem] = n
        /\ r.prev[rem] = b /\ (n # Null => r.prev[n] = rem)
    BY <1>1, <1>5, <1>6
  <1>9. \A a \in h.blocks : h.next[a] = n /\ n # Null => a = b
    BY <1>6 DEF Shape, IsLinked
  <1>10. IsHeap(r)
    <2>1. r.size \in [r.blocks -> Nat]
      <3>1. \A a \in newBlocks : r.size[a] \in Nat
        BY <1>2, <1>5, <1>8 DEF Shape, IsHeap
      <3> QED BY <1>1, <3>1
    <2>2. r.next \in [r.blocks -> r.blocks \cup {Null}]
      <3>1. \A a \in newBlocks : r.next[a] \in newBlocks \cup {Null}
        BY <1>6, <1>8 DEF Shape, IsHeap
      <3> QED BY <1>1, <3>1
    <2>3. r.prev \in [r.blocks -> r.blocks \cup {Null}]
      <3>1. \A a \in newBlocks : r.prev[a] \in newBlocks \cup {Null}
        BY <1>6, <1>8 DEF Shape, IsHeap
      <3> QED BY <1>1, <3>1
    <2> QED BY <1>1, <1>2, <1>6, <2>1, <2>2, <2>3 DEF Shape, IsHeap, LastAfter
  <1>11. IsLinked(r)
    <2> SUFFICES ASSUME NEW a \in newBlocks
                 PROVE  /\ r.next[a] = Null <=> a = r.last
                        /\ r.next[a] = Null => a + r.size[a] = r.current
                        /\ r.next[a] # Null => /\ r.next[a] = a + r.size[a]
                                               /\ r.prev[r.next[a]] = a
                        /\ r.prev[a] = Null <=> a = r.first
                        /\ r.prev[a] # Null => r.next[r.prev[a]] = a
      BY <1>1 DEF IsLinked
    <2>1. CASE a = b
      <3>1. a + total = rem
        BY <2>1 DEF rem
      <3>2. a = b => r.last # b
        BY <1>1, <1>6 DEF LastAfter
      <3>3. /\ r.prev[b] = h.prev[b]
            /\ h.prev[b] # Null => h.prev[b] \in h.blocks \ {b}
        BY <1>2, <1>6, <1>8 DEF Shape, IsHeap, IsLinked, IsTiled, HEADER_SIZE
      <3>4. /\ r.prev[b] = Null <=> b = r.first
            /\ r.prev[b] # Null => h.next[r.prev[b]] = b
        BY <1>1, <3>3 DEF Shape, IsLinked
      <3>5. r.prev[b] # Null => r.next[r.prev[b]] = b
        BY <1>8, <3>3, <3>4
      <3> QED BY <1>6, <1>8, <2>1, <3>1, <3>2, <3>4, <3>5
    <2>2. CASE a = rem
      BY <1>1, <1>2, <1>6, <1>7, <1>8, <2>2 DEF LastAfter, Shape, IsHeap
    <2>3. CASE a \in h.blocks \ {b}
      <3>1. /\ r.next[a] = Null <=> a = r.last
            /\ r.next[a] = Null => a + r.size[a] = r.current
        <4>1. /\ r.next[a] = h.next[a] /\ r.size[a] = h.size[a]
              /\ h.next[a] = Null <=> a = h.last
              /\ h.next[a] = Null => a + h.size[a] = h.current
              /\ a # rem /\ a # b
          BY <1>5, <1>8, <2>3 DEF Shape, IsLinked
        <4>2. a = r.last <=> a = h.last
          BY <1>1, <1>6, <4>1 DEF LastAfter
        <4> QED BY <1>1, <4>1, <4>2
      <3>2. r.next[a] # Null => /\ r.next[a] = a + r.size[a]
                                /\ r.prev[r.next[a]] = a
        BY <1>6, <1>8, <1>9, <2>3 DEF Shape, IsHeap, IsLinked
      <3>3. r.prev[a] = Null <=> a = r.first
        BY <1>1, <1>6, <1>8, <2>3 DEF Shape, IsHeap, IsLinked
      <3>4. r.prev[a] # Null => r.next[r.prev[a]] = a
        BY <1>6, <1>8, <2>3 DEF Shape, IsHeap, IsLinked
      <3> QED BY <3>1, <3>2, <3>3, <3>4
    <2> QED BY <2>1, <2>2, <2>3
  <1>12. IsTiled(r)
    <2>1. \A a \in newBlocks :
            /\ a >= HeapStart /\ a % 16 = 0 /\ r.size[a] % 16 = 0
            /\ r.size[a] > HEADER_SIZE /\ a + r.size[a] <= r.current
      <3> SUFFICES ASSUME NEW a \in newBlocks
                   PROVE  /\ a >= HeapStart /\ a % 16 = 0 /\ r.size[a] % 16 = 0
                          /\ r.size[a] > HEADER_SIZE
                          /\ a + r.size[a] <= r.current
        OBVIOUS
      <3>0. HeapStart \in Nat /\ h.current \in Nat
        BY HeapAssumption DEF Shape, IsHeap
      <3>1. CASE a = b
        <4>1. b + total <= h.current
          BY <1>2, <1>3, <3>0
        <4> QED BY <1>1, <1>2, <1>3, <1>8, <3>1, <4>1
      <3>2. CASE a = rem
        <4>1. rem >= HeapStart
          BY <1>2, <1>3, <3>0
        <4>2. h.size[b] - total > HEADER_SIZE
          BY <1>2 DEF HEADER_SIZE, MIN_SPLIT
        <4> QED BY <1>1, <1>3, <1>4, <1>7, <1>8, <3>2, <4>1, <4>2
      <3>3. CASE a \in h.blocks \ {b}
        BY <1>1, <1>8, <3>3 DEF Shape, IsTiled
      <3> QED BY <3>1, <3>2, <3>3
    <2>2. \A a, c \in newBlocks : a < c => a + r.size[a] <= c
      <3> SUFFICES ASSUME NEW a \in newBlocks, NEW c \in newBlocks, a < c
                   PROVE  a + r.size[a] <= c
        OBVIOUS
      <3>0. a \in Nat /\ c \in Nat
        BY <1>2 DEF Shape, IsHeap
      <3>1. CASE a = b
        <4>1. c = rem \/ b + h.size[b] <= c
          BY <1>3, <3>0, <3>1
        <4>2. a + total = rem
          BY <3>1 DEF rem
        <4> QED BY <1>2, <1>8, <3>0, <3>1, <4>1, <4>2
      <3>2. CASE a = rem
        <4>1. c \in h.blocks /\ b < c
          BY <1>2, <3>0, <3>2
        <4> QED BY <1>3, <1>7, <1>8, <3>2, <4>1
      <3>3. CASE a \in h.blocks \ {b}
        <4>1. h.size[a] \in Nat /\ r.size[a] = h.size[a]
          BY <1>8, <3>3 DEF Shape, IsHeap
        <4>2. CASE c = rem
          <5>1. a < b
            BY <1>2, <1>3, <3>0, <3>3, <4>2
          <5> QED BY <1>2, <1>3, <3>0, <3>3, <4>1, <4>2, <5>1
        <4>3. CASE c \in h.blocks
          BY <3>3, <4>1, <4>3 DEF Shape, IsTiled
        <4> QED BY <4>2, <4>3
      <3> QED BY <3>1, <3>2, <3>3
    <2> QED BY <1>1, <2>1, <2>2 DEF Shape, IsTiled
  <1>13. \A a \in h.used : r.size[a] = h.size[a]
    BY <1>8 DEF Shape, IsHeap
  <1>14. b + HEADER_SIZE + payload = b + total
    BY <1>2 DEF total, HEADER_SIZE
  <1> QED BY <1>1, <1>5, <1>8, <1>10, <1>11, <1>12, <1>13, <1>14
          DEF Shape, r, rem, total, n

\* kmalloc's first-fit branch: the block it takes keeps room for the request,
\* no other used block changes, and no two free blocks become neighbours.
LEMMA FitKeeps ==
    ASSUME NEW h, Shape(h), IsCoalesced(h), NEW b \in h.blocks \ h.used,
           NEW payload \in Nat, payload % 16 = 0, payload > 0,
           h.size[b] >= HEADER_SIZE + payload
    PROVE  LET s == block_split(h, b, payload)
               r == [s EXCEPT !.used = @ \cup {b}]
           IN  /\ Shape(r)
               /\ IsCoalesced(r)
               /\ r.used = h.used \cup {b}
               /\ r.size[b] >= HEADER_SIZE + payload
               /\ \A a \in h.used : r.size[a] = h.size[a]
  <1> DEFINE s == block_split(h, b, payload)
             r == [s EXCEPT !.used = @ \cup {b}]
             rem == b + HEADER_SIZE + payload
  <1>1. h.size[b] \in Nat
    BY DEF Shape, IsHeap
  <1>2. CASE h.size[b] <= HEADER_SIZE + payload + MIN_SPLIT
    <2>1. s = h
      BY <1>2 DEF block_split
    <2>2. \A a \in h.blocks \ h.used :
              a # b /\ h.next[a] # Null => h.next[a] \in h.used \cup {b}
      BY DEF IsCoalesced
    <2> HIDE DEF s
    <2>3. Shape(r) /\ IsCoalesced(r) /\ r.used = h.used \cup {b} /\ r.size = h.size
      BY <2>1, <2>2, MarkUsed
    <2> QED BY <2>3 DEF s
  <1>3. CASE h.size[b] > HEADER_SIZE + payload + MIN_SPLIT
    <2>1. /\ Shape(s)
          /\ s.used = h.used
          /\ s.blocks = h.blocks \cup {rem}
          /\ rem \notin h.blocks
          /\ s.size[b] = HEADER_SIZE + payload
          /\ \A a \in h.used : s.size[a] = h.size[a]
          /\ s.next[b] = rem
          /\ s.next[rem] = h.next[b]
          /\ \A a \in h.blocks \ {b} : s.next[a] = h.next[a]
      BY <1>3, SplitKeeps
    <2> HIDE DEF s, rem
    <2>2. \A a \in s.blocks \ s.used :
              a # b /\ s.next[a] # Null => s.next[a] \in s.used \cup {b}
      BY <2>1 DEF IsCoalesced
    <2>3. /\ Shape(r) /\ IsCoalesced(r)
          /\ r.used = s.used \cup {b} /\ r.size = s.size
      BY <2>1, <2>2, MarkUsed
    <2>4. s.size[b] >= HEADER_SIZE + payload
      BY <2>1 DEF HEADER_SIZE
    <2> QED BY <2>1, <2>3, <2>4 DEF s
  <1> QED BY <1>1, <1>2, <1>3 DEF HEADER_SIZE, MIN_SPLIT

\* heap_append: a new free block between the last one and heap_current.
LEMMA AppendKeeps ==
    ASSUME NEW h, Shape(h), NEW bytes \in Nat, bytes % 16 = 0,
           bytes > HEADER_SIZE,
           NEW end \in Nat, h.current + bytes <= end
    PROVE  LET r == heap_append(h, bytes, end)
               b == h.current
           IN  /\ Shape(r)
               /\ b \notin h.blocks
               /\ r.blocks = h.blocks \cup {b}
               /\ r.used = h.used
               /\ r.size[b] = bytes
               /\ \A a \in h.used : r.size[a] = h.size[a]
               /\ \A a \in h.blocks : a # h.last => r.next[a] = h.next[a]
               /\ r.next[h.last] = b
               /\ r.next[b] = Null
  <1> DEFINE r == heap_append(h, bytes, end)
             b == h.current
             newBlocks == h.blocks \cup {b}
  <1>1. /\ b \in Nat /\ b % 16 = 0 /\ ALIGN16(b) = b /\ ALIGN16(bytes) = bytes
    BY AlignUp DEF Shape, IsHeap, IsTiled
  <1>2. /\ DOMAIN r = Fields
        /\ r.blocks = newBlocks
        /\ r.used = h.used
        /\ r.size = [a \in newBlocks |-> IF a = b THEN bytes ELSE h.size[a]]
        /\ r.next = [a \in newBlocks |-> CASE a = b -> Null
                                           [] a = h.last -> b
                                           [] OTHER -> h.next[a]]
        /\ r.prev = [a \in newBlocks |-> IF a = b THEN h.last ELSE h.prev[a]]
        /\ r.first = h.first
        /\ r.last = b
        /\ r.current = b + bytes
        /\ r.end = end
    BY <1>1 DEF heap_append, Shape, IsHeap, Fields
  <1>3. /\ \A a \in h.blocks : /\ a \in Nat /\ h.size[a] \in Nat
                               /\ h.size[a] > HEADER_SIZE
                               /\ a + h.size[a] <= b
        /\ h.last \in h.blocks /\ h.last + h.size[h.last] = b
        /\ h.next[h.last] = Null
    BY DEF Shape, IsHeap, IsTiled, IsLinked
  <1> HIDE DEF r, b
  <1>4. /\ b \notin h.blocks /\ b # Null /\ b > h.last
        /\ \A a \in h.blocks : a < b
    <2>1. \A a \in h.blocks : a < b
      BY <1>1, <1>3 DEF HEADER_SIZE
    <2> QED BY <1>1, <1>3, <2>1 DEF Null
  <1>5. /\ \A a \in h.blocks : r.size[a] = h.size[a] /\ r.prev[a] = h.prev[a]
        /\ \A a \in h.blocks : a # h.last => r.next[a] = h.next[a]
        /\ r.size[b] = bytes /\ r.next[b] = Null /\ r.prev[b] = h.last
        /\ r.next[h.last] = b
    BY <1>2, <1>3, <1>4
  <1>6. IsHeap(r)
    <2>1. r.size \in [r.blocks -> Nat]
      <3>1. \A a \in newBlocks : r.size[a] \in Nat
        BY <1>3, <1>5
      <3> QED BY <1>2, <3>1
    <2>2. r.next \in [r.blocks -> r.blocks \cup {Null}]
      <3>1. \A a \in newBlocks : r.next[a] \in newBlocks \cup {Null}
        BY <1>5 DEF Shape, IsHeap
      <3> QED BY <1>2, <3>1
    <2>3. r.prev \in [r.blocks -> r.blocks \cup {Null}]
      <3>1. \A a \in newBlocks : r.prev[a] \in newBlocks \cup {Null}
        BY <1>3, <1>5 DEF Shape, IsHeap
      <3> QED BY <1>2, <3>1
    <2>4. b + bytes \in Nat
      BY <1>1
    <2> QED BY <1>1, <1>2, <1>4, <2>1, <2>2, <2>3, <2>4 DEF Shape, IsHeap
  <1>7. IsLinked(r)
    <2> SUFFICES ASSUME NEW a \in newBlocks
                 PROVE  /\ r.next[a] = Null <=> a = r.last
                        /\ r.next[a] = Null => a + r.size[a] = r.current
                        /\ r.next[a] # Null => /\ r.next[a] = a + r.size[a]
                                               /\ r.prev[r.next[a]] = a
                        /\ r.prev[a] = Null <=> a = r.first
                        /\ r.prev[a] # Null => r.next[r.prev[a]] = a
      BY <1>2 DEF IsLinked
    <2>1. CASE a = b
      BY <1>2, <1>3, <1>4, <1>5, <2>1 DEF Shape, IsHeap
    <2>2. CASE a \in h.blocks /\ a = h.last
      <3>1. h.prev[a] # Null => h.prev[a] # h.last /\ h.prev[a] \in h.blocks
        BY <1>3, <2>2 DEF Shape, IsHeap, IsLinked
      <3> QED BY <1>2, <1>3, <1>4, <1>5, <2>2, <3>1 DEF Shape, IsLinked
    <2>3. CASE a \in h.blocks /\ a # h.last
      <3>1. h.prev[a] # Null => h.prev[a] # h.last /\ h.prev[a] \in h.blocks
        BY <1>3, <2>3 DEF Shape, IsHeap, IsLinked
      <3>2. h.next[a] # Null /\ h.next[a] \in h.blocks
        BY <2>3 DEF Shape, IsHeap, IsLinked
      <3> QED BY <1>2, <1>4, <1>5, <2>3, <3>1, <3>2 DEF Shape, IsLinked
    <2> QED BY <2>1, <2>2, <2>3
  <1>8. IsTiled(r)
    <2>1. (b + bytes) % 16 = 0
      BY <1>1, SumOf16
    <2>2. b >= HeapStart
      BY <1>3, <1>4, HeapAssumption DEF Shape, IsTiled
    <2>3. \A a \in newBlocks :
            /\ a >= HeapStart /\ a % 16 = 0 /\ r.size[a] % 16 = 0
            /\ r.size[a] > HEADER_SIZE /\ a + r.size[a] <= b + bytes
      <3> SUFFICES ASSUME NEW a \in newBlocks
                   PROVE  /\ a >= HeapStart /\ a % 16 = 0 /\ r.size[a] % 16 = 0
                          /\ r.size[a] > HEADER_SIZE /\ a + r.size[a] <= b + bytes
        OBVIOUS
      <3>1. CASE a = b
        BY <1>1, <1>5, <2>2, <3>1
      <3>2. CASE a \in h.blocks
        <4>1. a + h.size[a] <= b + bytes
          BY <1>1, <1>3, <3>2
        <4> QED BY <1>5, <3>2, <4>1 DEF Shape, IsTiled
      <3> QED BY <3>1, <3>2
    <2>4. \A a, c \in newBlocks : a < c => a + r.size[a] <= c
      <3> SUFFICES ASSUME NEW a \in newBlocks, NEW c \in newBlocks, a < c
                   PROVE  a + r.size[a] <= c
        OBVIOUS
      <3>1. a \in h.blocks
        BY <1>1, <1>3, <1>4
      <3>2. CASE c = b
        BY <1>3, <1>5, <3>1, <3>2
      <3>3. CASE c \in h.blocks
        BY <1>5, <3>1, <3>3 DEF Shape, IsTiled
      <3> QED BY <3>2, <3>3
    <2>5. b + bytes <= end
      BY DEF b
    <2>6. r.current % 16 = 0 /\ r.current <= r.end
      BY <1>2, <2>1, <2>5
    <2>7. \A a \in r.blocks :
            /\ a >= HeapStart /\ a % 16 = 0 /\ r.size[a] % 16 = 0
            /\ r.size[a] > HEADER_SIZE /\ a + r.size[a] <= r.current
      BY <1>2, <2>3
    <2>8. \A a, c \in r.blocks : a < c => a + r.size[a] <= c
      BY <1>2, <2>4
    <2> HIDE DEF newBlocks
    <2> QED BY <2>6, <2>7, <2>8 DEF IsTiled
  <1>9. \A a \in h.used : r.size[a] = h.size[a]
    BY <1>5 DEF Shape, IsHeap
  <1> QED BY <1>2, <1>4, <1>5, <1>6, <1>7, <1>8, <1>9 DEF Shape, r, b

---------------------------------------------------------------------------
(* The block list stays well formed, whoever frees what and how often.     *)

\* The types, with the history variables.
HistoryOK == /\ DOMAIN live \in SUBSET Nat
             /\ \A p \in DOMAIN live : live[p] \in Sizes
             /\ freed \in SUBSET Nat

ListInv == Shape(heap) /\ IsCoalesced(heap) /\ HistoryOK

\* The returned pointer is a number and is recorded with the asked size.
LEMMA ReturnTyped ==
    ASSUME HistoryOK, NEW b \in Nat, NEW n \in Sizes, Return(b, n)
    PROVE  HistoryOK'
  <1>1. b + HEADER_SIZE \in Nat
    BY DEF HEADER_SIZE
  <1> QED BY <1>1 DEF HistoryOK, Return

\* The rounded size of a request.
LEMMA Payload ==
    ASSUME NEW n \in Sizes, n # 0
    PROVE  /\ n \in Nat
           /\ ALIGN16(n) \in Nat /\ ALIGN16(n) % 16 = 0 /\ ALIGN16(n) > 0
           /\ ALIGN16(n) >= n
           /\ HEADER_SIZE + ALIGN16(n) \in Nat
           /\ (HEADER_SIZE + ALIGN16(n)) % 16 = 0
           /\ HEADER_SIZE + ALIGN16(n) > HEADER_SIZE
           /\ ALIGN16(HEADER_SIZE + ALIGN16(n)) = HEADER_SIZE + ALIGN16(n)
  <1>1. n \in Nat
    BY HeapAssumption
  <1>2. /\ ALIGN16(n) \in Nat /\ ALIGN16(n) % 16 = 0 /\ ALIGN16(n) >= n
    BY <1>1, AlignUp
  <1>3. /\ HEADER_SIZE + ALIGN16(n) \in Nat
        /\ (HEADER_SIZE + ALIGN16(n)) % 16 = 0
    BY <1>2 DEF HEADER_SIZE
  <1>4. ALIGN16(HEADER_SIZE + ALIGN16(n)) = HEADER_SIZE + ALIGN16(n)
    BY <1>3, AlignUp
  <1> QED BY <1>1, <1>2, <1>3, <1>4 DEF HEADER_SIZE

\* What the first-fit branch of kmalloc does to the list.
LEMMA FitStep ==
    ASSUME Shape(heap), IsCoalesced(heap), NEW n \in Sizes, MallocFit(n)
    PROVE  \E b \in heap.blocks \ heap.used :
             /\ Shape(heap') /\ IsCoalesced(heap')
             /\ heap'.used = heap.used \cup {b}
             /\ heap'.size[b] >= HEADER_SIZE + n
             /\ \A a \in heap.used : heap'.size[a] = heap.size[a]
             /\ Return(b, n)
  <1>1. PICK b \in heap.blocks :
          /\ Fits(heap, b, ALIGN16(n))
          /\ heap' = [block_split(heap, b, ALIGN16(n)) EXCEPT !.used = @ \cup {b}]
          /\ Return(b, n)
    BY DEF MallocFit
  <1>2. b \in heap.blocks \ heap.used /\ heap.size[b] >= HEADER_SIZE + ALIGN16(n)
    BY <1>1 DEF Fits
  <1>3. n # 0
    BY DEF MallocFit
  <1>4. /\ n \in Nat /\ ALIGN16(n) \in Nat /\ ALIGN16(n) % 16 = 0
        /\ ALIGN16(n) > 0 /\ ALIGN16(n) >= n
    BY <1>3, Payload
  <1>5. /\ Shape(heap') /\ IsCoalesced(heap')
        /\ heap'.used = heap.used \cup {b}
        /\ heap'.size[b] >= HEADER_SIZE + ALIGN16(n)
        /\ \A a \in heap.used : heap'.size[a] = heap.size[a]
    BY <1>1, <1>2, <1>4, FitKeeps
  <1>6. heap'.size[b] \in Nat
    BY <1>5, <1>2 DEF Shape, IsHeap
  <1>7. heap'.size[b] >= HEADER_SIZE + n
    BY <1>4, <1>5, <1>6 DEF HEADER_SIZE
  <1> QED BY <1>1, <1>2, <1>5, <1>7

\* What the appending branch of kmalloc does to the list.
LEMMA AppendStep ==
    ASSUME Shape(heap), IsCoalesced(heap), NEW n \in Sizes, MallocAppend(n)
    PROVE  \E b \in Nat \ heap.blocks :
             /\ Shape(heap') /\ IsCoalesced(heap')
             /\ heap'.used = heap.used \cup {b}
             /\ heap'.size[b] >= HEADER_SIZE + n
             /\ \A a \in heap.used : heap'.size[a] = heap.size[a]
             /\ Return(b, n)
  <1> DEFINE b == heap.current
             bytes == HEADER_SIZE + ALIGN16(n)
  <1>1. n # 0
    BY DEF MallocAppend
  <1>2. /\ n \in Nat /\ bytes \in Nat /\ bytes % 16 = 0 /\ bytes > HEADER_SIZE
        /\ ALIGN16(bytes) = bytes /\ ALIGN16(n) >= n /\ ALIGN16(n) \in Nat
    BY <1>1, Payload
  <1>3. b \in Nat /\ ALIGN16(b) = b
    BY AlignUp DEF Shape, IsHeap, IsTiled
  <1>4. PICK k \in 0 .. MaxPages :
          /\ b + bytes <= heap.end + k * PageSize
          /\ heap' = [heap_append(heap, bytes, heap.end + k * PageSize)
                        EXCEPT !.used = @ \cup {b}]
    BY <1>2, <1>3 DEF MallocAppend
  <1>5. Return(b, n)
    BY <1>3 DEF MallocAppend
  <1> DEFINE end == heap.end + k * PageSize
             s == heap_append(heap, bytes, end)
  <1>6. end \in Nat
    BY HeapAssumption DEF Shape, IsHeap
  <1>7. bytes >= HEADER_SIZE + n
    BY <1>2 DEF HEADER_SIZE
  <1> HIDE DEF bytes, end
  <1>8. /\ Shape(s)
        /\ b \notin heap.blocks
        /\ s.blocks = heap.blocks \cup {b}
        /\ s.used = heap.used
        /\ s.size[b] = bytes
        /\ \A a \in heap.used : s.size[a] = heap.size[a]
        /\ \A a \in heap.blocks : a # heap.last => s.next[a] = heap.next[a]
        /\ s.next[heap.last] = b
        /\ s.next[b] = Null
    BY <1>2, <1>4, <1>6, AppendKeeps DEF end
  <1>9. heap' = [s EXCEPT !.used = @ \cup {b}]
    BY <1>4 DEF end
  <1> HIDE DEF s
  <1>10. \A a \in s.blocks \ s.used :
            a # b /\ s.next[a] # Null => s.next[a] \in s.used \cup {b}
    BY <1>8 DEF IsCoalesced
  <1>11. /\ Shape(heap') /\ IsCoalesced(heap')
         /\ heap'.used = s.used \cup {b} /\ heap'.size = s.size
    BY <1>8, <1>9, <1>10, MarkUsed
  <1> HIDE DEF b
  <1> QED BY <1>3, <1>5, <1>7, <1>8, <1>11

\* When the frames run out only heap_end has moved.
LEMMA FailStep ==
    ASSUME Shape(heap), IsCoalesced(heap), NEW n \in Sizes, MallocFail(n)
    PROVE  /\ Shape(heap') /\ IsCoalesced(heap')
           /\ heap'.used = heap.used /\ heap'.size = heap.size
  <1>1. /\ heap.current \in Nat /\ ALIGN16(heap.current) = heap.current
        /\ heap.end \in Nat /\ heap.current <= heap.end
    BY AlignUp DEF Shape, IsHeap, IsTiled
  <1>2. PICK k \in 0 .. MaxPages :
          heap' = [heap EXCEPT !.current = heap.current,
                               !.end = heap.end + k * PageSize]
    BY <1>1 DEF MallocFail
  <1>3. heap.end + k * PageSize \in Nat /\ heap.end <= heap.end + k * PageSize
    BY <1>1, HeapAssumption
  <1>4. /\ DOMAIN heap' = Fields
        /\ heap'.used = heap.used
        /\ heap'.blocks = heap.blocks
        /\ heap'.size = heap.size /\ heap'.next = heap.next
        /\ heap'.prev = heap.prev
        /\ heap'.first = heap.first /\ heap'.last = heap.last
        /\ heap'.current = heap.current
        /\ heap'.end = heap.end + k * PageSize
    BY <1>2 DEF Shape, IsHeap, Fields
  <1>5. heap'.end \in Nat /\ heap'.current <= heap'.end
    BY <1>1, <1>3, <1>4
  <1>6. IsHeap(heap') /\ IsLinked(heap')
    BY <1>4, <1>5 DEF Shape, IsHeap, IsLinked
  <1>7. IsTiled(heap') /\ IsCoalesced(heap')
    BY <1>4, <1>5 DEF Shape, IsTiled, IsCoalesced
  <1> QED BY <1>4, <1>6, <1>7 DEF Shape

LEMMA InitList == Init => ListInv
  <1> SUFFICES ASSUME Init PROVE ListInv
    OBVIOUS
  <1>1. /\ HeapStart \in Nat /\ HeapStart # 0 /\ HeapStart % 16 = 0
        /\ PageSize \in Nat /\ PageSize % 16 = 0 /\ PageSize >= 48
    BY HeapAssumption
  <1>2. /\ HeapStart + PageSize \in Nat /\ (HeapStart + PageSize) % 16 = 0
    BY <1>1, SumOf16
  <1>3. /\ DOMAIN heap = Fields
        /\ heap.blocks = {HeapStart} /\ heap.used = {}
        /\ heap.size = [b \in {HeapStart} |-> PageSize]
        /\ heap.next = [b \in {HeapStart} |-> Null]
        /\ heap.prev = [b \in {HeapStart} |-> Null]
        /\ heap.first = HeapStart /\ heap.last = HeapStart
        /\ heap.current = HeapStart + PageSize
        /\ heap.end = HeapStart + PageSize
    BY DEF Init, Fields
  <1>4. IsHeap(heap) /\ IsLinked(heap)
    BY <1>1, <1>2, <1>3 DEF IsHeap, IsLinked, Null
  <1>5. IsTiled(heap)
    BY <1>1, <1>2, <1>3 DEF IsTiled, HEADER_SIZE
  <1>6. IsCoalesced(heap) /\ HistoryOK
    BY <1>3 DEF IsCoalesced, HistoryOK, Init
  <1> QED BY <1>4, <1>5, <1>6 DEF ListInv, Shape

LEMMA NextList == ListInv /\ [Next]_heapVars => ListInv'
  <1> SUFFICES ASSUME ListInv, [Next]_heapVars PROVE ListInv'
    OBVIOUS
  <1> USE DEF ListInv
  <1>1. ASSUME NEW n \in Sizes, MallocFit(n) PROVE ListInv'
    <2>1. PICK b \in heap.blocks \ heap.used :
             Shape(heap') /\ IsCoalesced(heap') /\ Return(b, n)
      BY <1>1, FitStep
    <2>2. b \in Nat
      BY DEF Shape, IsHeap
    <2> QED BY <2>1, <2>2, ReturnTyped
  <1>2. ASSUME NEW n \in Sizes, MallocAppend(n) PROVE ListInv'
    <2>1. PICK b \in Nat : Shape(heap') /\ IsCoalesced(heap') /\ Return(b, n)
      BY <1>2, AppendStep
    <2> QED BY <2>1, ReturnTyped
  <1>3. ASSUME NEW n \in Sizes, MallocFail(n) PROVE ListInv'
    <2>1. Shape(heap') /\ IsCoalesced(heap')
      BY <1>3, FailStep
    <2>2. HistoryOK'
      BY <1>3 DEF HistoryOK, MallocFail
    <2> QED BY <2>1, <2>2
  <1>4. ASSUME NEW p, heap' = Checked(heap, p)
        PROVE  Shape(heap') /\ IsCoalesced(heap')
    BY <1>4, ReleaseKeeps DEF Checked
  <1>5. ASSUME NEW p \in DOMAIN live, kfree(p) PROVE ListInv'
    <2>1. HistoryOK'
      BY <1>5 DEF HistoryOK, kfree
    <2> QED BY <1>4, <1>5, <2>1 DEF kfree
  <1>6. ASSUME NEW p \in freed, KfreeAgain(p) PROVE ListInv'
    <2>1. HistoryOK'
      BY <1>6 DEF HistoryOK, KfreeAgain
    <2> QED BY <1>4, <1>6, <2>1 DEF KfreeAgain
  <1>7. CASE UNCHANGED heapVars
    BY <1>7 DEF heapVars, HistoryOK
  <1> QED BY <1>1, <1>2, <1>3, <1>5, <1>6, <1>7 DEF Next

LEMMA ListInvariant == Spec => []ListInv
  BY InitList, NextList, PTL DEF Spec

\* Every reachable heap is well typed, whatever its callers free.
THEOREM TypeCorrect == Spec => []HeapTypeOK
  <1>1. ListInv => HeapTypeOK
    BY DEF ListInv, Shape, HistoryOK, HeapTypeOK
  <1> QED BY <1>1, ListInvariant, PTL

\* The links of the list agree with each other and with the addresses and
\* sizes of the blocks, even when pointers are freed twice.
THEOREM AlwaysLinked == Spec => []Linked
  <1>1. ListInv => Linked
    BY DEF ListInv, Shape, Linked
  <1> QED BY <1>1, ListInvariant, PTL

\* Blocks never overlap, leave the mapped heap or lose their alignment, even
\* when pointers are freed twice.
THEOREM AlwaysTiled == Spec => []Tiled
  <1>1. ListInv => Tiled
    BY DEF ListInv, Shape, Tiled
  <1> QED BY <1>1, ListInvariant, PTL

\* kfree's one-block look in both directions is enough: two free blocks are
\* never neighbours.
THEOREM AlwaysCoalesced == Spec => []Coalesced
  <1>1. ListInv => Coalesced
    BY DEF ListInv, Coalesced
  <1> QED BY <1>1, ListInvariant, PTL

---------------------------------------------------------------------------
(* What callers hold stays theirs, as long as no pointer is freed twice.   *)

HoldInv == ListInv /\ PayloadsHeld /\ freed = {}

\* Two pointers that callers hold are apart: their blocks are.
LEMMA HeldApart ==
    ASSUME NEW h, Shape(h), NEW a \in h.used, NEW c \in h.used, a # c,
           NEW m \in Nat, NEW n \in Nat,
           HEADER_SIZE + m <= h.size[a], HEADER_SIZE + n <= h.size[c]
    PROVE  A!Apart(a + HEADER_SIZE, m, c + HEADER_SIZE, n)
  <1>1. /\ a \in h.blocks /\ c \in h.blocks /\ a \in Nat /\ c \in Nat
        /\ h.size[a] \in Nat /\ h.size[c] \in Nat
    BY DEF Shape, IsHeap
  <1>2. a + h.size[a] <= c \/ c + h.size[c] <= a
    BY <1>1 DEF Shape, IsTiled
  <1>3. a + HEADER_SIZE + m <= c + HEADER_SIZE \/ c + HEADER_SIZE + n <= a + HEADER_SIZE
    BY <1>1, <1>2 DEF HEADER_SIZE
  <1> QED BY <1>3 DEF A!Apart

\* A call of kmalloc that succeeds: the new pointer joins the others, and the
\* block it names is held with enough room.
LEMMA ReturnHolds ==
    ASSUME HoldInv, Shape(heap'), NEW b \in Nat, b \notin heap.used,
           NEW n \in Sizes,
           heap'.used = heap.used \cup {b},
           heap'.size[b] >= HEADER_SIZE + n,
           \A a \in heap.used : heap'.size[a] = heap.size[a],
           Return(b, n)
    PROVE  PayloadsHeld' /\ freed' = {} /\ A!Alloc(n)
  <1> DEFINE p == b + HEADER_SIZE
  <1>1. /\ p \in Nat /\ p # 0 /\ p - HEADER_SIZE = b /\ n \in Nat
        /\ HEADER_SIZE + n <= heap'.size[b]
    <2>1. b \in heap'.blocks /\ heap'.size[b] \in Nat
      BY DEF Shape, IsHeap
    <2>2. n \in Nat
      BY HeapAssumption
    <2> QED BY <2>1, <2>2 DEF HEADER_SIZE
  <1>2. /\ live' = [q \in DOMAIN live \cup {p} |-> IF q = p THEN n ELSE live[q]]
        /\ freed' = {}
    BY DEF Return, HoldInv
  <1>3. /\ heap.used = {q - HEADER_SIZE : q \in DOMAIN live}
        /\ \A q \in DOMAIN live : HEADER_SIZE + live[q] <= heap.size[q - HEADER_SIZE]
        /\ \A q \in DOMAIN live : q \in Nat /\ live[q] \in Nat
    BY HeapAssumption DEF HoldInv, PayloadsHeld, ListInv, HistoryOK
  <1> HIDE DEF p
  <1>4. p \notin DOMAIN live
    BY <1>1, <1>3
  <1>5. heap'.used = {q - HEADER_SIZE : q \in DOMAIN live'}
    BY <1>1, <1>2, <1>3
  <1>6. \A q \in DOMAIN live' : HEADER_SIZE + live'[q] <= heap'.size[q - HEADER_SIZE]
    <2> SUFFICES ASSUME NEW q \in DOMAIN live'
                 PROVE  HEADER_SIZE + live'[q] <= heap'.size[q - HEADER_SIZE]
      OBVIOUS
    <2>1. CASE q = p
      BY <1>1, <1>2, <2>1
    <2>2. CASE q # p
      <3>1. q \in DOMAIN live /\ live'[q] = live[q]
        BY <1>2, <2>2
      <3>2. q - HEADER_SIZE \in heap.used
        BY <1>3, <3>1
      <3> QED BY <1>3, <3>1, <3>2
    <2> QED BY <2>1, <2>2
  <1>7. ASSUME NEW q \in DOMAIN live PROVE A!Apart(p, n, q, live[q])
    <2>1. /\ q - HEADER_SIZE \in heap.used /\ b \in heap'.used
          /\ q - HEADER_SIZE \in heap'.used /\ q - HEADER_SIZE # b
      BY <1>3, <1>7
    <2>2. HEADER_SIZE + live[q] <= heap'.size[q - HEADER_SIZE]
      BY <1>3, <1>7, <2>1
    <2>3. A!Apart(b + HEADER_SIZE, n, (q - HEADER_SIZE) + HEADER_SIZE, live[q])
      BY <1>1, <1>3, <1>7, <2>1, <2>2, HeldApart
    <2>4. (q - HEADER_SIZE) + HEADER_SIZE = q
      BY <1>3, <1>7 DEF HEADER_SIZE
    <2> QED BY <2>3, <2>4 DEF p
  <1>8. A!Alloc(n)
    <2>1. p \in DOMAIN live' \ DOMAIN live
      BY <1>2, <1>4
    <2> QED BY <1>1, <1>2, <1>7, <2>1 DEF A!Alloc
  <1> QED BY <1>2, <1>5, <1>6, <1>8 DEF PayloadsHeld

\* A free gives back the block of its pointer and no other.
LEMMA KfreeHolds ==
    ASSUME HoldInv, DoubleFree = FALSE, NEW p \in DOMAIN live, kfree(p)
    PROVE  PayloadsHeld' /\ freed' = {} /\ A!Free(p)
  <1>1. /\ heap.used = {q - HEADER_SIZE : q \in DOMAIN live}
        /\ \A q \in DOMAIN live : HEADER_SIZE + live[q] <= heap.size[q - HEADER_SIZE]
        /\ \A q \in DOMAIN live : q \in Nat
        /\ Shape(heap) /\ IsCoalesced(heap)
    BY DEF HoldInv, PayloadsHeld, ListInv, HistoryOK
  <1>2. /\ live' = [q \in DOMAIN live \ {p} |-> live[q]]
        /\ freed' = {}
    BY DEF kfree, HoldInv
  <1>3. p - HEADER_SIZE \in heap.used
    BY <1>1
  <1>4. heap' = Release(heap, p - HEADER_SIZE)
    BY <1>3 DEF kfree, Checked
  <1>5. /\ heap'.used = heap.used \ {p - HEADER_SIZE}
        /\ \A a \in heap'.used : heap'.size[a] = heap.size[a]
    BY <1>1, <1>3, <1>4, ReleaseKeeps
  <1>6. \A q \in DOMAIN live : q - HEADER_SIZE = p - HEADER_SIZE => q = p
    BY <1>1 DEF HEADER_SIZE
  <1>7. heap'.used = {q - HEADER_SIZE : q \in DOMAIN live'}
    BY <1>1, <1>2, <1>5, <1>6
  <1>8. \A q \in DOMAIN live' : HEADER_SIZE + live'[q] <= heap'.size[q - HEADER_SIZE]
    BY <1>1, <1>2, <1>5, <1>7
  <1> QED BY <1>2, <1>7, <1>8 DEF PayloadsHeld, A!Free

\* Every step of the heap keeps what callers hold and is a step, or a
\* stutter, of the abstract allocator.
LEMMA HoldStep ==
    ASSUME DoubleFree = FALSE, HoldInv, [Next]_heapVars
    PROVE  HoldInv' /\ [A!AllocatorNext]_live
  <1>0. ListInv'
    BY NextList DEF HoldInv
  <1>1. ASSUME NEW n \in Sizes, MallocFit(n)
        PROVE  HoldInv' /\ A!AllocatorNext
    <2>1. PICK b \in heap.blocks \ heap.used :
             /\ Shape(heap') /\ heap'.used = heap.used \cup {b}
             /\ heap'.size[b] >= HEADER_SIZE + n
             /\ \A a \in heap.used : heap'.size[a] = heap.size[a]
             /\ Return(b, n)
      BY <1>1, FitStep DEF HoldInv, ListInv
    <2>2. b \in Nat
      BY DEF HoldInv, ListInv, Shape, IsHeap
    <2>3. PayloadsHeld' /\ freed' = {} /\ A!Alloc(n)
      BY <2>1, <2>2, ReturnHolds
    <2> QED BY <1>0, <2>3 DEF HoldInv, A!AllocatorNext
  <1>2. ASSUME NEW n \in Sizes, MallocAppend(n)
        PROVE  HoldInv' /\ A!AllocatorNext
    <2>1. PICK b \in Nat \ heap.blocks :
             /\ Shape(heap') /\ heap'.used = heap.used \cup {b}
             /\ heap'.size[b] >= HEADER_SIZE + n
             /\ \A a \in heap.used : heap'.size[a] = heap.size[a]
             /\ Return(b, n)
      BY <1>2, AppendStep DEF HoldInv, ListInv
    <2>2. b \notin heap.used
      BY DEF HoldInv, ListInv, Shape, IsHeap
    <2>3. PayloadsHeld' /\ freed' = {} /\ A!Alloc(n)
      BY <2>1, <2>2, ReturnHolds
    <2> QED BY <1>0, <2>3 DEF HoldInv, A!AllocatorNext
  <1>3. ASSUME NEW n \in Sizes, MallocFail(n)
        PROVE  HoldInv' /\ UNCHANGED live
    <2>1. heap'.used = heap.used /\ heap'.size = heap.size
      BY <1>3, FailStep DEF HoldInv, ListInv
    <2>2. UNCHANGED <<live, freed>>
      BY <1>3 DEF MallocFail
    <2> QED BY <1>0, <2>1, <2>2 DEF HoldInv, PayloadsHeld
  <1>4. ASSUME NEW p \in DOMAIN live, kfree(p)
        PROVE  HoldInv' /\ A!AllocatorNext
    <2>1. PayloadsHeld' /\ freed' = {} /\ A!Free(p)
      BY <1>4, KfreeHolds
    <2> QED BY <1>0, <2>1 DEF HoldInv, A!AllocatorNext
  <1>5. ~ \E p \in freed : KfreeAgain(p)
    BY DEF HoldInv
  <1>6. CASE UNCHANGED heapVars
    BY <1>0, <1>6 DEF HoldInv, PayloadsHeld, heapVars
  <1> QED BY <1>1, <1>2, <1>3, <1>4, <1>5, <1>6 DEF Next

LEMMA InitHold == Init => HoldInv /\ A!AllocatorInit
  <1> SUFFICES ASSUME Init PROVE HoldInv /\ A!AllocatorInit
    OBVIOUS
  <1>1. live = [p \in {} |-> 0] /\ freed = {} /\ heap.used = {}
    BY DEF Init
  <1>2. PayloadsHeld
    BY <1>1 DEF PayloadsHeld
  <1> QED BY <1>1, <1>2, InitList DEF HoldInv, A!AllocatorInit

LEMMA HoldInvariant ==
    ASSUME DoubleFree = FALSE
    PROVE  Spec => []HoldInv
  <1>1. HoldInv /\ [Next]_heapVars => HoldInv'
    BY HoldStep
  <1> QED BY <1>1, InitHold, PTL DEF Spec

\* Memory that a caller holds is never split, merged or handed out again, and
\* a used block is never forgotten, when each pointer is freed at most once.
THEOREM PayloadsAlwaysHeld ==
    ASSUME DoubleFree = FALSE
    PROVE  Spec => []PayloadsHeld
  <1>1. HoldInv => PayloadsHeld
    BY DEF HoldInv
  <1> QED BY <1>1, HoldInvariant, PTL

\* kmalloc and kfree implement the abstract allocator: each call returns null
\* or a range apart from every other live range, and frees only its own.
THEOREM HeapImplementsAllocator ==
    ASSUME DoubleFree = FALSE
    PROVE  Spec => KeepsPromise
  <1>1. HoldInv /\ [Next]_heapVars => [A!AllocatorNext]_live
    BY HoldStep
  <1> QED BY <1>1, InitHold, HoldInvariant, PTL
          DEF Spec, KeepsPromise, A!AllocatorSpec

=============================================================================
