--------------------------- MODULE FairScheduler ---------------------------
(***************************************************************************)
(* What the scheduling engine promises in the long run.  The primitives    *)
(* are those of module Scheduler; the timer handler, the removals from the *)
(* ready list and the switch to the idle process step as in module Kernel. *)
(* No process is created and none exits, so that a behaviour may go on for *)
(* ever.  Only differences of virtual runtimes decide anything, so they    *)
(* are counted from the least one whenever the handler returns.            *)
(***************************************************************************)
EXTENDS Scheduler, SequencesExt

CONSTANTS SleepArgs     \* arguments of sleep()

VARIABLES current,      \* current_process, which is also the one that executes
          pc,           \* where each process stands
          isr,          \* 0, or the slot of sleep_list the timer handler is at
          slot,         \* i, the loop variable of the removal p is in
          idleSpent,    \* idle_p->rsp names a frame that has been popped
          panicked,     \* that frame has been popped again
          overtaken     \* history: a removal from ready_list fell inside another

fairVars == <<schedVars, current, pc, isr, slot, idleSpent, panicked, overtaken>>

Apps == Procs \ {Idle}

Init == \E first \in SetToSeqs(Apps) :
            /\ SchedInit(first)
            /\ current = first[1]
            /\ pc = [p \in Procs |-> IF p = Idle THEN "halt" ELSE "app"]
            /\ isr = 0
            /\ slot = [p \in Procs |-> 1]
            /\ idleSpent = FALSE
            /\ panicked = FALSE
            /\ overtaken = FALSE

\* The machine is on the panic screen, or a removal has left the lists with a
\* process twice or not at all (Kernel, ListedOnce); that is followed no further.
Stopped == panicked \/ overtaken

At(p, step) == isr = 0 /\ ~ Stopped /\ current = p /\ pc[p] = step
Goto(p, step) == pc' = [pc EXCEPT ![p] = step]

\* Mutant of EnterTimer: the loop over sleep_list starts one slot late.
EnterTimerLate == /\ isr' = 2
                  /\ ChargeRunning(current)
                  /\ UNCHANGED <<ready, sleeping, waiting, sleepTicks, current, slot,
                                 idleSpent, panicked, overtaken>>

EnterTimer == /\ isr' = 1
              /\ ChargeRunning(current)
              /\ UNCHANGED <<ready, sleeping, waiting, sleepTicks, current, slot,
                             idleSpent, panicked, overtaken>>

Pulse == isr = 0 /\ ~ Stopped /\ EnterTimer /\ UNCHANGED pc

Yield(p) == At(p, "yield") /\ EnterTimer /\ Goto(p, "app")

\* A sleeper that has been woken leaves its slot to the last one, which is
\* looked at next.
AfterWake == IF Len(sleeping') < Len(sleeping) THEN isr ELSE isr + 1

TickSleeper == /\ isr \in 1 .. Len(sleeping)
               /\ WakeStep(isr)
               /\ isr' = AfterWake
               /\ UNCHANGED <<waiting, globalMin, current, pc, slot, idleSpent, panicked,
                              overtaken>>

Base == Min({globalMin} \cup {vruntime[p] : p \in Elems(ready)})

\* process_on_timer_interrupt.  The context of the idle process is never saved,
\* so that a second switch to it pops the frame of the first.
Switch ==
    /\ isr > Len(sleeping)
    /\ isr' = 0
    /\ \E next \in Procs :
        /\ scheduler_next(next)
        /\ current' = next
        /\ panicked' = (next = Idle /\ current # Idle /\ idleSpent)
        /\ idleSpent' = (idleSpent \/ next = Idle)
    /\ vruntime' = [p \in Procs |-> IF p \in Elems(ready) THEN vruntime[p] - Base ELSE 0]
    /\ globalMin' = globalMin - Base
    /\ UNCHANGED <<ready, sleeping, waiting, sleepTicks, pc, slot, overtaken>>

Timer == Pulse \/ TickSleeper \/ Switch

\* The keyboard interrupt.
Key == /\ isr = 0 /\ ~ Stopped /\ waiting # << >>
       /\ wake_up_one
       /\ UNCHANGED <<sleeping, sleepTicks, globalMin, current, pc, isr, slot, idleSpent,
                      panicked, overtaken>>

\* What no step of a call changes.
Rest == <<vruntime, globalMin, current, isr, idleSpent, panicked>>

sleep(p) == /\ At(p, "app")
            /\ \E n \in SleepArgs : n > 0 /\ sleepTicks' = [sleepTicks EXCEPT ![p] = n]
            /\ Goto(p, "sleep_remove")
            /\ UNCHANGED <<ready, sleeping, waiting, slot, overtaken, Rest>>

wait(p) == /\ At(p, "app")
           /\ Goto(p, "wait_remove")
           /\ UNCHANGED <<ready, sleeping, waiting, sleepTicks, slot, overtaken, Rest>>

\* A turn of the loop of scheduler_remove.
Search(p, here, swap, done) ==
    /\ At(p, here)
    /\ \/ FoundAt(ready, p, slot[p]) /\ Goto(p, swap) /\ UNCHANGED slot
       \/ /\ OtherAt(ready, p, slot[p])
          /\ slot' = [slot EXCEPT ![p] = @ + 1]
          /\ UNCHANGED pc
       \/ EndAt(ready, slot[p]) /\ Goto(p, done) /\ slot' = [slot EXCEPT ![p] = 1]
    /\ UNCHANGED <<ready, sleeping, waiting, sleepTicks, overtaken, Rest>>

\* Process q has looked at a slot of ready_list, or found itself there, and has
\* not made the swap yet.
Removing(q) == \/ pc[q] \in {"sleep_swap", "wait_swap"}
               \/ pc[q] \in {"sleep_remove", "wait_remove"} /\ slot[q] > 1

Swap(p, here, done) ==
    /\ At(p, here)
    /\ ready' = SwapRemove(ready, slot[p])
    /\ Goto(p, done)
    /\ slot' = [slot EXCEPT ![p] = 1]
    /\ overtaken' = \E q \in Apps \ {p} : Removing(q)
    /\ UNCHANGED <<sleeping, waiting, sleepTicks, Rest>>

SleepRemove(p) == \/ Search(p, "sleep_remove", "sleep_swap", "sleep_add")
                  \/ Swap(p, "sleep_swap", "sleep_add")

SleepAdd(p) == /\ At(p, "sleep_add")
               /\ add_to_sleep(p)
               /\ Goto(p, "yield")
               /\ UNCHANGED <<ready, waiting, sleepTicks, slot, overtaken, Rest>>

WaitRemove(p) == \/ Search(p, "wait_remove", "wait_swap", "wait_add")
                 \/ Swap(p, "wait_swap", "wait_add")

WaitAdd(p) == /\ At(p, "wait_add")
              /\ Enqueue(p)
              /\ Goto(p, "yield")
              /\ UNCHANGED <<ready, sleeping, sleepTicks, slot, overtaken, Rest>>

\* What a process does once it is in a call; whether it makes one is its own.
Advance(p) == \/ SleepRemove(p) \/ SleepAdd(p) \/ WaitRemove(p) \/ WaitAdd(p) \/ Yield(p)

Calls == \E p \in Apps : sleep(p) \/ wait(p)

Stay == Stopped /\ UNCHANGED fairVars

Next == Timer \/ Key \/ Calls \/ (\E p \in Apps : Advance(p)) \/ Stay

(* The timer never stops; a process that is given the processor again and  *)
(* again gets on with the call it is in, a tick being long for a few       *)
(* instructions; and someone keeps typing while a process waits for a key. *)
Fairness == /\ WF_fairVars(Timer)
            /\ \A p \in Apps : SF_fairVars(Advance(p))
            /\ SF_fairVars(Key)

Spec == Init /\ [][Next]_fairVars /\ Fairness

----------------------------------------------------------------------------
(* Whoever is in the sleep list becomes ready again, in whatever order the *)
(* list is shuffled by those that wake before it (scheduler_tick), unless  *)
(* a second switch to the idle process halts the machine first, or one     *)
(* removal from the ready list overtakes another.                          *)
SleepersWake == \A p \in Apps : p \in Elems(sleeping) ~> p \in Elems(ready) \/ Stopped

(* Whoever is in the keyboard's queue is woken, though others join the     *)
(* queue behind it for ever (wake_up_one), under the same two conditions.  *)
WaitersServed == \A p \in Apps : p \in Elems(waiting) ~> p \in Elems(ready) \/ Stopped

(* Once processes only compute, each of them that is ready gets the        *)
(* processor again and again: what runs is charged and falls behind        *)
(* (scheduler_tick, scheduler_next), for as long as no removal overtakes   *)
(* another.                                                                *)
ComputingShares ==
    (<>[][~Calls]_fairVars /\ []~overtaken) => \A p \in Apps : []<>(p \in Elems(ready) => current = p)

(* Not so while others sleep and wake: two that take turns are put before  *)
(* a third for ever.                                                       *)
ReadyRuns ==
    []~Stopped => \A p \in Apps : []<>(p \in Elems(ready) => current = p)
=============================================================================
