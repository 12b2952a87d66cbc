----------------------------- MODULE Scheduler -----------------------------
(***************************************************************************)
(* The run queues of the scheduling engine and of its two managers         *)
(* (process rest and wait queue): their state and the primitives that      *)
(* change it.  A primitive is written as a relation between the current    *)
(* and the next state of the variables it assigns.  An interrupt handler   *)
(* runs a primitive as a whole; code that runs with interrupts enabled     *)
(* runs the removal from a list, and the insertion by process_start, step  *)
(* by step: each turn of the search loop, the swap, each statement of the  *)
(* insertion.  What an interrupt in the middle of one statement could do   *)
(* is not modelled.                                                        *)
(*                                                                         *)
(* The C arrays with a separate count (ready_list/ready_count and so on)   *)
(* are sequences: array slot i is element i+1.  A process is named by its  *)
(* process_t.  p->state is written and never read by the kernel, so it is  *)
(* not modelled; p->nice is 0 for every process the code creates.          *)
(***************************************************************************)
EXTENDS Integers, Sequences, FiniteSets

CONSTANTS
    Procs,          \* every process_t the heap hands out during a behaviour
    Idle,           \* idle_p, the process created first at boot
    NoProc,         \* the null pointer
    MaxProcesses,   \* MAX_PROCESSES: capacity of ready_list and sleep_list
    WaitQueueMax    \* WAIT_QUEUE_MAX: capacity of a wait queue

ASSUME ProcsAssumption == /\ Idle \in Procs
                          /\ NoProc \notin Procs

ASSUME CapacityAssumption == /\ MaxProcesses \in Nat \ {0}
                             /\ WaitQueueMax \in Nat \ {0}

VARIABLES
    ready,          \* ready_list[0 .. ready_count-1]
    sleeping,       \* sleep_list[0 .. sleep_count-1]
    waiting,        \* keyboard_queue.list[0 .. count-1]
    vruntime,       \* p->vruntime
    sleepTicks,     \* p->sleep_ticks
    globalMin       \* global_min_vruntime

schedVars == <<ready, sleeping, waiting, vruntime, sleepTicks, globalMin>>

SchedTypeOK ==
    /\ ready \in Seq(Procs)
    /\ sleeping \in Seq(Procs)
    /\ waiting \in Seq(Procs)
    /\ vruntime \in [Procs -> Nat]
    /\ sleepTicks \in [Procs -> Int]
    /\ globalMin \in Nat

---------------------------------------------------------------------------
(* Helpers on lists.                                                       *)

Elems(list) == {list[i] : i \in DOMAIN list}

\* The number of times p is linked from the three lists together.
Places(list, p) == {i \in DOMAIN list : list[i] = p}

Links(p) == Cardinality(Places(ready, p)) + Cardinality(Places(sleeping, p))
            + Cardinality(Places(waiting, p))

\* list[i] = list[--count]: the last element takes the place of element i.
SwapRemove(list, i) ==
    [j \in 1 .. Len(list) - 1 |-> IF j = i THEN list[Len(list)] ELSE list[j]]

\* What one turn of the search loop of the two removals finds at slot i when
\* it looks for p.
FoundAt(list, p, i) == i <= Len(list) /\ list[i] = p
OtherAt(list, p, i) == i <= Len(list) /\ list[i] # p
EndAt(list, i) == i > Len(list)

---------------------------------------------------------------------------
(* Virtual runtime.                                                        *)

weight_from_nice(nice) == 1024 \div (nice + 1)

\* Mutant of TickCharge: the quotient, below one, is cut before it is scaled.
TickChargeCut == (1 \div weight_from_nice(0)) * 1024

\* What one tick adds to the virtual runtime of the running process.
TickCharge == 1024 \div weight_from_nice(0)

\* update_min_vruntime with the virtual runtimes vr.
update_min_vruntime(vr) ==
    IF ready = << >>
    THEN globalMin' = globalMin
    ELSE \E i \in DOMAIN ready :
            /\ \A j \in DOMAIN ready : vr[ready[i]] <= vr[ready[j]]
            /\ globalMin' = vr[ready[i]]

---------------------------------------------------------------------------
(* Ready list.                                                             *)

\* Mutant of scheduler_add: a woken process keeps its old virtual runtime.
AddKeepingVruntime(p) ==
    IF Len(ready) >= MaxProcesses
    THEN UNCHANGED <<ready, vruntime>>
    ELSE /\ ready' = Append(ready, p)
         /\ UNCHANGED vruntime

scheduler_add(p) ==
    IF Len(ready) >= MaxProcesses
    THEN UNCHANGED <<ready, vruntime>>
    ELSE /\ ready' = Append(ready, p)
         /\ vruntime' = [vruntime EXCEPT ![p] = globalMin]

\* Mutant of RaiseNew: a new process starts from virtual runtime zero.
StartFromZero(p) == vruntime' = [vruntime EXCEPT ![p] = 0]

\* Its two statements, for process_start, which runs with interrupts enabled.
RaiseNew(p) == vruntime' = [vruntime EXCEPT ![p] = globalMin]
LinkNew(p) == ready' = Append(ready, p)

\* scheduler_next() returns p: the first process of least virtual runtime,
\* the idle process when nothing is ready.
scheduler_next(p) ==
    IF ready = << >>
    THEN p = Idle
    ELSE \E i \in DOMAIN ready :
            /\ p = ready[i]
            /\ \A j \in DOMAIN ready : vruntime[ready[i]] <= vruntime[ready[j]]
            /\ \A j \in 1 .. i - 1 : vruntime[ready[i]] < vruntime[ready[j]]

---------------------------------------------------------------------------
(* Sleep list and wait queue.                                              *)

add_to_sleep(p) ==
    sleeping' = IF Len(sleeping) >= MaxProcesses THEN sleeping
                                                 ELSE Append(sleeping, p)

\* Mutant of ChargeRunning: the charge is taken off instead of added.
ChargeBackwards(p) ==
    IF p \in {NoProc, Idle}
    THEN UNCHANGED <<vruntime, globalMin>>
    ELSE /\ vruntime' = [vruntime EXCEPT ![p] = @ - TickCharge]
         /\ update_min_vruntime(vruntime')

\* The first half of scheduler_tick: charge the running process.
ChargeRunning(p) ==
    IF p \in {NoProc, Idle}
    THEN UNCHANGED <<vruntime, globalMin>>
    ELSE /\ vruntime' = [vruntime EXCEPT ![p] = @ + TickCharge]
         /\ update_min_vruntime(vruntime')

\* One iteration of the second half of scheduler_tick, at slot i of the
\* sleep list.
WakeStep(i) ==
    LET p == sleeping[i] IN
    /\ sleepTicks' = [sleepTicks EXCEPT ![p] = @ - 1]
    /\ IF sleepTicks[p] - 1 <= 0
       THEN /\ sleeping' = SwapRemove(sleeping, i)
            /\ scheduler_add(p)
       ELSE UNCHANGED <<sleeping, ready, vruntime>>

\* wait()'s enqueue: silently skipped when the queue is full.
Enqueue(p) ==
    waiting' = IF Len(waiting) < WaitQueueMax THEN Append(waiting, p)
                                              ELSE waiting

\* Mutant of wake_up_one: the newest waiter is woken, not the oldest.
WakeNewest ==
    IF waiting = << >>
    THEN UNCHANGED <<waiting, ready, vruntime>>
    ELSE /\ waiting' = SubSeq(waiting, 1, Len(waiting) - 1)
         /\ scheduler_add(waiting[Len(waiting)])

\* wake_up_one: pop the head, shift the rest, make the head ready.
wake_up_one ==
    IF waiting = << >>
    THEN UNCHANGED <<waiting, ready, vruntime>>
    ELSE /\ waiting' = Tail(waiting)
         /\ scheduler_add(Head(waiting))

---------------------------------------------------------------------------
SchedInit(first) ==
    /\ ready = first
    /\ sleeping = << >>
    /\ waiting = << >>
    /\ vruntime = [p \in Procs |-> 0]
    /\ sleepTicks = [p \in Procs |-> 0]
    /\ globalMin = 0

=============================================================================
