----------------------------- MODULE Allocator -----------------------------
(***************************************************************************)
(* What the memory interface promises its callers: alloc returns null or   *)
(* the address of a range that no live allocation overlaps, free gives one *)
(* allocation back, and neither touches the others.                        *)
(***************************************************************************)
EXTENDS Naturals

CONSTANT Sizes              \* the sizes the callers ask for

VARIABLE live               \* live[p]: the size that was asked for at p

\* The byte ranges [p, p+m) and [q, q+n) have no byte in common.
Apart(p, m, q, n) == p + m <= q \/ q + n <= p

AllocatorInit == live = [p \in {} |-> 0]

\* A successful call: exactly one range appears, apart from all the others.
Alloc(n) ==
    \E p \in DOMAIN live' \ DOMAIN live :
        /\ p # 0
        /\ live' = [q \in DOMAIN live \cup {p} |-> IF q = p THEN n ELSE live[q]]
        /\ \A q \in DOMAIN live : Apart(p, n, q, live[q])

Free(p) == live' = [q \in DOMAIN live \ {p} |-> live[q]]

AllocatorNext == \/ \E n \in Sizes : Alloc(n)
                 \/ \E p \in DOMAIN live : Free(p)

AllocatorSpec == AllocatorInit /\ [][AllocatorNext]_live

=============================================================================
