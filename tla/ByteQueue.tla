----------------------------- MODULE ByteQueue ------------------------------
(***************************************************************************)
(* What the keyboard's ring buffer promises to its reader: the bytes that  *)
(* were taken in come out once each, in the order in which they came in.   *)
(***************************************************************************)
EXTENDS Naturals, Sequences

CONSTANT Capacity       \* how many bytes may be waiting

VARIABLES
    queue,      \* the bytes that have come in and have not been read
    got         \* the bytes that have been read, in order

Init == queue = << >> /\ got = << >>

\* Some bytes come in behind those that wait.
Put == /\ Len(queue') \in Len(queue) + 1 .. Capacity
       /\ SubSeq(queue', 1, Len(queue)) = queue
       /\ UNCHANGED got

\* The oldest one is read.
Get == /\ queue # << >>
       /\ got' = Append(got, Head(queue))
       /\ queue' = Tail(queue)

Next == Put \/ Get

Spec == Init /\ [][Next]_<<queue, got>>

=============================================================================
