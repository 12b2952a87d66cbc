----------------------------- MODULE FramePool -----------------------------
(***************************************************************************)
(* What the allocator of frames promises, and what paging relies on: a     *)
(* call takes a frame that is free, and a frame that is given back was     *)
(* taken.  A call that no other overlaps takes the lowest one and is       *)
(* refused only when there is none.  Nothing is promised once a store has  *)
(* come between another call's reading and its own store.                  *)
(***************************************************************************)
EXTENDS Naturals

CONSTANT Pool       \* the numbers of the frames there are to take

VARIABLES
    taken,          \* those that callers hold
    refused,        \* a caller is about to be told that there is none
    mixed,          \* calls that are in progress have overlapped
    overtaken       \* a store has come between another call's reading and its store

PoolInit == taken = {} /\ ~refused /\ ~mixed /\ ~overtaken

Take(f) == f \in Pool \ taken /\ taken' = taken \cup {f}

TakeLowest(f) == Take(f) /\ \A g \in Pool \ taken : f <= g

GiveBack(f) == f \in taken /\ taken' = taken \ {f}

Refuse == Pool \subseteq taken /\ taken' = taken

\* The step of a call that runs alone.
Alone ==
    \/ ~refused /\ ~refused' /\ \E f \in Pool : TakeLowest(f) \/ GiveBack(f)
    \/ ~refused /\ refused' /\ Refuse
    \/ refused /\ ~refused' /\ taken' = taken
    \/ refused' = refused /\ taken' = taken

Together == taken' = taken \/ \E f \in Pool : Take(f) \/ GiveBack(f)

PoolNext ==
    \/ overtaken'
    \/ ~overtaken /\ ~overtaken' /\ IF mixed \/ mixed' THEN Together ELSE Alone

PoolSpec == PoolInit /\ [][PoolNext]_<<taken, refused, mixed, overtaken>>

=============================================================================
