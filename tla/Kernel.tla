------------------------------- MODULE Kernel -------------------------------
(***************************************************************************)
(* The process engine, the process table, the timer interrupt and the code *)
(* of every process that calls them, on one CPU.                           *)
(*                                                                         *)
(* Interrupt handlers run through interrupt gates and are never            *)
(* interrupted.  Everything else runs with interrupts enabled (a process   *)
(* starts with RFLAGS_IF, core_run executes sti), so the timer may fire    *)
(* between any two steps of a kernel call.  A kernel call is therefore     *)
(* one action per statement that changes shared state and per turn of a    *)
(* loop that searches a list, and pc[t] says where thread t stands in it.  *)
(*                                                                         *)
(* A thread is a flow of control with a stack: one per process and Boot    *)
(* for KernelMain.  cpu is the thread that executes; current is            *)
(* current_process, which is not the same thing: inside exit and inside    *)
(* schedule() the executing thread is not the one current names.           *)
(***************************************************************************)
EXTENDS Scheduler

CONSTANTS
    First,      \* the process loader_app creates for the start-up application
    Boot,       \* the thread of KernelMain
    Panic,      \* value of cpu after an exception: the panic screen, halted
    Spent,      \* a saved stack pointer whose frame has been popped already
    SleepArgs,  \* arguments of sleep()
    SleepMsArgs,\* arguments of sleep_ms()
    Calls,      \* the kernel calls the applications make
    MaxTicks    \* bound on the timer interrupts of a behaviour

ASSUME ThreadsAssumption ==
    /\ First \in Procs \ {Idle}
    /\ Boot \notin Procs \cup {NoProc}
    /\ Panic \notin Procs \cup {NoProc, Boot}
    /\ Spent \notin Procs \cup {NoProc, Boot, Panic}

ASSUME BoundsAssumption ==
    /\ SleepArgs \subseteq Int
    /\ SleepMsArgs \subseteq Int
    /\ MaxTicks \in Nat

VARIABLES
    current,    \* current_process
    table,      \* process_table[1 .. MAX_PROCESSES-1]
    pid,        \* p->pid
    frame,      \* p->rsp: the thread whose saved registers it points at
    held,       \* what is allocated for the process_t p
    cr3,        \* the process whose address space is loaded
    cpu,        \* the thread that executes
    pc,         \* where each thread stands
    arg,        \* the local process_t pointer of the call thread t is in
    reg,        \* the argument of jump_to_first_task in thread t
    isr,        \* 0, or the slot of sleep_list the timer handler is at
    ticks,      \* ticks
    slot,       \* i, the loop variable of the removal thread t is in
    overtaken,  \* history: a removal from ready_list fell inside another one
    behind      \* history: those that process_start was about to link when
                \* global_min_vruntime was last computed

procVars == <<current, table, pid, frame, held, cr3, cpu, pc, arg, reg>>
clockVars == <<isr, ticks>>
callVars == <<slot, overtaken, behind>>
vars == <<schedVars, procVars, clockVars, callVars>>

Threads == Procs \cup {Boot}
Pids == 1 .. MaxProcesses - 1
Parts == {"pcb", "stack", "space", "context"}

Live(p) == "pcb" \in held[p]

\* The steps of a call after which the process is in no list.
ExitSteps == {"exit_detach", "exit_stack", "exit_space", "exit_slot"}
SchedSteps == {"sched_next", "sched_set", "sched_load", "sched_jump"}
Searches == {"sleep_remove", "wait_remove", "exit_remove"}
Swaps == {"sleep_swap", "wait_swap", "exit_swap"}
Unsleeps == {"exit_unsleep", "exit_unsleep_swap"}
Steps == {"none", "app", "halt", "sleep_add", "wait_add", "yield", "register",
          "start", "link", "gone"}
         \cup Searches \cup Swaps \cup Unsleeps \cup ExitSteps \cup SchedSteps

TypeOK ==
    /\ SchedTypeOK
    /\ current \in Procs \cup {NoProc}
    /\ table \in [Pids -> Procs \cup {NoProc}]
    /\ pid \in [Procs -> Nat]
    /\ frame \in [Procs -> Threads \cup {Spent}]
    /\ held \in [Procs -> SUBSET Parts]
    /\ cr3 \in Procs \cup {NoProc}
    /\ cpu \in Threads \cup {Panic}
    /\ pc \in [Threads -> Steps]
    /\ arg \in [Threads -> Procs \cup {NoProc}]
    /\ reg \in [Threads -> Threads \cup {Spent}]
    /\ isr \in Nat
    /\ ticks \in Nat
    /\ slot \in [Threads -> Nat \ {0}]
    /\ overtaken \in BOOLEAN
    /\ behind \subseteq Procs

---------------------------------------------------------------------------
(* KernelMain up to core_run: interrupts are off, the idle process has     *)
(* been created (pid 1) and loader_app has created and started the         *)
(* start-up application (pid 2), or has failed.                            *)

Init ==
    \E loaded \in BOOLEAN :
        LET created == IF loaded THEN {Idle, First} ELSE {Idle} IN
        /\ SchedInit(IF loaded THEN <<First>> ELSE << >>)
        /\ current = NoProc
        /\ pid = [p \in Procs |-> CASE p = Idle -> 1
                                    [] p \in created \ {Idle} -> 2
                                    [] OTHER -> 0]
        /\ table = [i \in Pids |-> CASE i = 1 -> Idle
                                     [] i = 2 /\ loaded -> First
                                     [] OTHER -> NoProc]
        /\ frame = [p \in Procs |-> p]
        /\ held = [p \in Procs |-> CASE p = Idle -> Parts \ {"context"}
                                     [] p \in created \ {Idle} -> Parts
                                     [] OTHER -> {}]
        /\ cr3 = NoProc
        /\ cpu = Boot
        /\ pc = [t \in Threads |-> CASE t = Boot -> "sched_next"
                                     [] t = Idle -> "halt"
                                     [] t \in created \ {Idle} -> "app"
                                     [] OTHER -> "none"]
        /\ arg = [t \in Threads |-> NoProc]
        /\ reg = [t \in Threads |-> Spent]
        /\ isr = 0
        /\ ticks = 0
        /\ slot = [t \in Threads |-> 1]
        /\ overtaken = FALSE
        /\ behind = {}

---------------------------------------------------------------------------
(* The timer interrupt.  isr_timer calls irq_handler(0) -> timer_handler   *)
(* -> scheduler_tick and then process_on_timer_interrupt; nothing else     *)
(* runs until it returns.                                                  *)

\* The processes that process_start has not linked yet, but whose virtual
\* runtime it has set already.
Linking == {arg[t] : t \in {u \in Procs : pc[u] = "link"}}

\* timer_handler up to the first half of scheduler_tick.
EnterTimer ==
    /\ isr' = 1
    /\ ticks' = ticks + 1
    /\ ChargeRunning(current)
    /\ behind' = IF current \in {NoProc, Idle} THEN behind ELSE Linking
    /\ UNCHANGED <<slot, overtaken>>

\* The hardware pulse, at any point of any thread.
TimerInterrupt ==
    /\ isr = 0
    /\ cpu # Panic
    /\ ticks < MaxTicks
    /\ EnterTimer
    /\ UNCHANGED <<ready, sleeping, waiting, sleepTicks, procVars>>

\* yield(): "int $32" enters the same handler from the running thread.
Yield(t) ==
    /\ isr = 0 /\ cpu = t /\ pc[t] = "yield"
    /\ ticks < MaxTicks
    /\ EnterTimer
    /\ pc' = [pc EXCEPT ![t] = "app"]
    /\ UNCHANGED <<ready, sleeping, waiting, sleepTicks, current,
                   table, pid, frame, held, cr3, cpu, arg, reg>>

\* One iteration of scheduler_tick's loop over sleep_list: the slot is
\* examined again when its process has been woken.
TickSleeper ==
    /\ isr \in 1 .. Len(sleeping)
    /\ WakeStep(isr)
    /\ isr' = IF Len(sleeping') < Len(sleeping) THEN isr ELSE isr + 1
    /\ UNCHANGED <<waiting, globalMin, procVars, ticks, callVars>>

\* The CPU pops the frame f that belongs to process p.  A spent frame holds
\* other values by now (iretq faults); the frame of a thread whose stack is
\* freed may or may not have been overwritten.
Resume(f, p, saved) ==
    /\ frame' = [saved EXCEPT ![p] = Spent]
    /\ \/ f # Spent /\ cpu' = f
       \/ /\ f = Spent \/ (f \in Procs /\ "stack" \notin held[f])
          /\ cpu' = Panic

\* Mutant of process_on_timer_interrupt: the rsp of the interrupted process
\* is saved only when it is switched away from, after current_process has
\* already been replaced.
SwitchSavingLate ==
    /\ isr > Len(sleeping)
    /\ isr' = 0
    /\ \E next \in Procs :
        /\ scheduler_next(next)
        /\ IF next = current
           THEN UNCHANGED <<current, cr3, cpu, frame>>
           ELSE /\ current' = next
                /\ cr3' = next
                /\ LET saved == IF next # Idle /\ cpu \in Threads
                                THEN [frame EXCEPT ![next] = cpu] ELSE frame
                   IN  Resume(saved[next], next, saved)
    /\ UNCHANGED <<schedVars, table, pid, held, pc, arg, reg, ticks,
                   callVars>>

\* process_on_timer_interrupt: save the interrupted context in the current
\* process (never in the idle process), pick the next one and, if it is
\* another one, switch address space and return its rsp to isr_timer.
process_on_timer_interrupt ==
    /\ isr > Len(sleeping)
    /\ isr' = 0
    /\ LET saved == IF current \in {NoProc, Idle} THEN frame
                    ELSE [frame EXCEPT ![current] = cpu]
       IN \E next \in Procs :
            /\ scheduler_next(next)
            /\ IF next = current
               THEN /\ frame' = IF current = Idle THEN frame
                                 ELSE [saved EXCEPT ![current] = Spent]
                    /\ UNCHANGED <<current, cr3, cpu>>
               ELSE /\ current' = next
                    /\ cr3' = next
                    /\ Resume(saved[next], next, saved)
    /\ UNCHANGED <<schedVars, table, pid, held, pc, arg, reg, ticks,
                   callVars>>

\* The keyboard interrupt pushes a character and calls wake_up_one; it
\* returns to the interrupted thread.
KeyboardInterrupt ==
    /\ isr = 0
    /\ cpu # Panic
    /\ waiting # << >>
    /\ wake_up_one
    /\ UNCHANGED <<sleeping, sleepTicks, globalMin, procVars, clockVars, callVars>>

---------------------------------------------------------------------------
(* Kernel calls of the running thread.                                     *)

At(t, step) == /\ isr = 0
               /\ cpu = t
               /\ pc[t] = step

Goto(t, step) == pc' = [pc EXCEPT ![t] = step]

\* An application calls into the kernel.
Enter(t, call) == /\ call \in Calls
                  /\ At(t, "app")

(* scheduler_remove and scheduler_remove_from_sleep, called by sleep(),     *)
(* wait() and exit with interrupts enabled: the loop looks for the process  *)
(* from slot 1 on, and one that is found is overwritten by the last one     *)
(* (list[i] = list[--count]), wherever either of them is by then.           *)

\* A turn of the loop; "here", "swap" and "done" name the steps of the call.
Search(t, list, here, swap, done) ==
    /\ At(t, here)
    /\ \/ /\ FoundAt(list, arg[t], slot[t])
          /\ Goto(t, swap)
          /\ UNCHANGED slot
       \/ /\ OtherAt(list, arg[t], slot[t])
          /\ slot' = [slot EXCEPT ![t] = @ + 1]
          /\ UNCHANGED pc
       \/ /\ EndAt(list, slot[t])
          /\ Goto(t, done)
          /\ slot' = [slot EXCEPT ![t] = 1]
    /\ UNCHANGED <<schedVars, current, table, pid, frame, held, cr3, cpu, arg, reg,
                   clockVars, overtaken, behind>>

SearchReady(t) ==
    \/ Search(t, ready, "sleep_remove", "sleep_swap", "sleep_add")
    \/ Search(t, ready, "wait_remove", "wait_swap", "wait_add")
    \/ Search(t, ready, "exit_remove", "exit_swap", "exit_unsleep")

SearchSleeping(t) ==
    Search(t, sleeping, "exit_unsleep", "exit_unsleep_swap", "exit_detach")

\* Thread u has looked at a slot of ready_list, or found its process there,
\* and has not made the swap yet.
Removing(u) == pc[u] \in Swaps \/ (pc[u] \in Searches /\ slot[u] > 1)

\* Mutant of Swap: the slot is given up, the last process is lost.
SwapLosesLast(t, here, done) ==
    /\ At(t, here)
    /\ ready' = SubSeq(ready, 1, Len(ready) - 1)
    /\ Goto(t, done)
    /\ slot' = [slot EXCEPT ![t] = 1]
    /\ overtaken' = (overtaken \/ \E u \in Procs \ {t} : Removing(u))
    /\ UNCHANGED <<sleeping, waiting, vruntime, sleepTicks, globalMin, current,
                   table, pid, frame, held, cr3, cpu, arg, reg, clockVars, behind>>

Swap(t, here, done) ==
    /\ At(t, here)
    /\ ready' = SwapRemove(ready, slot[t])
    /\ Goto(t, done)
    /\ slot' = [slot EXCEPT ![t] = 1]
    /\ overtaken' = (overtaken \/ \E u \in Procs \ {t} : Removing(u))
    /\ UNCHANGED <<sleeping, waiting, vruntime, sleepTicks, globalMin, current,
                   table, pid, frame, held, cr3, cpu, arg, reg, clockVars, behind>>

SwapReady(t) ==
    \/ Swap(t, "sleep_swap", "sleep_add")
    \/ Swap(t, "wait_swap", "wait_add")
    \/ Swap(t, "exit_swap", "exit_unsleep")

SwapSleeping(t) ==
    /\ At(t, "exit_unsleep_swap")
    /\ sleeping' = SwapRemove(sleeping, slot[t])
    /\ Goto(t, "exit_detach")
    /\ slot' = [slot EXCEPT ![t] = 1]
    /\ UNCHANGED <<ready, waiting, vruntime, sleepTicks, globalMin, current,
                   table, pid, frame, held, cr3, cpu, arg, reg, clockVars,
                   overtaken, behind>>

---------------------------------------------------------------------------
TimerFreq == 100        \* TIMER_FREQ

TicksOfMs(ms) == (ms * TimerFreq + 999) \div 1000

\* scheduler_sleep's assignment p->sleep_ticks = ticks, p being current.
BeginSleep(t, n) ==
    /\ sleepTicks' = [sleepTicks EXCEPT ![current] = n]
    /\ arg' = [arg EXCEPT ![t] = current]
    /\ Goto(t, "sleep_remove")
    /\ UNCHANGED <<ready, sleeping, waiting, vruntime, globalMin, current,
                   table, pid, frame, held, cr3, cpu, reg, clockVars, callVars>>

sleep(t) == /\ Enter(t, "sleep")
            /\ \E n \in SleepArgs : n > 0 /\ BeginSleep(t, n)

sleep_ms(t) == /\ Enter(t, "sleep")
               /\ \E ms \in SleepMsArgs : ms > 0 /\ BeginSleep(t, TicksOfMs(ms))

SleepAdd(t) ==
    /\ At(t, "sleep_add")
    /\ add_to_sleep(arg[t])
    /\ Goto(t, "yield")
    /\ UNCHANGED <<ready, waiting, vruntime, sleepTicks, globalMin, current,
                   table, pid, frame, held, cr3, cpu, arg, reg, clockVars, callVars>>

wait(t) ==
    /\ Enter(t, "wait")
    /\ arg' = [arg EXCEPT ![t] = current]
    /\ Goto(t, "wait_remove")
    /\ UNCHANGED <<schedVars, current, table, pid, frame, held, cr3, cpu, reg,
                   clockVars, callVars>>

WaitAdd(t) ==
    /\ At(t, "wait_add")
    /\ Enqueue(arg[t])
    /\ Goto(t, "yield")
    /\ UNCHANGED <<ready, sleeping, vruntime, sleepTicks, globalMin, current,
                   table, pid, frame, held, cr3, cpu, arg, reg, clockVars, callVars>>

---------------------------------------------------------------------------
(* create_process_common and process_start, as the loader calls them.      *)

\* A process_t of the heap that this behaviour has not used yet.  (The C
\* heap reuses addresses.  While NoDangling holds no stale pointer can tell
\* one that is used again from a new one, and what is said of the lists is
\* said under the same condition.)
Unused == {p \in Procs : held[p] = {} /\ pc[p] = "none"}

\* kernel_process_allocate_pid returns i.
FreePid(i) == /\ i \in Pids
              /\ table[i] = NoProc
              /\ \A j \in 1 .. i - 1 : table[j] # NoProc

\* The pid is chosen, the process_t, address space and stack are allocated
\* and the initial frame is written; nothing is published yet.
Create(t) ==
    /\ Enter(t, "create")
    /\ \E i \in Pids, p \in Unused :
        /\ FreePid(i)
        /\ pid' = [pid EXCEPT ![p] = i]
        /\ held' = [held EXCEPT ![p] = Parts]
        /\ frame' = [frame EXCEPT ![p] = p]
        /\ vruntime' = [vruntime EXCEPT ![p] = 0]
        /\ sleepTicks' = [sleepTicks EXCEPT ![p] = 0]
        /\ arg' = [arg EXCEPT ![t] = p]
        /\ pc' = [pc EXCEPT ![t] = "register", ![p] = "app"]
    /\ UNCHANGED <<ready, sleeping, waiting, globalMin, current, table, cr3,
                   cpu, reg, clockVars, callVars>>

\* The stack cannot be allocated: the process_t is freed, its address space
\* is not, and the loader returns -1.
CreateNoStack(t) ==
    /\ Enter(t, "create")
    /\ \E i \in Pids, p \in Unused :
        /\ FreePid(i)
        /\ held' = [held EXCEPT ![p] = {"space"}]
    /\ UNCHANGED <<schedVars, current, table, pid, frame, cr3, cpu, pc, arg, reg,
                   clockVars, callVars>>

Register(t) ==
    /\ At(t, "register")
    /\ table' = [table EXCEPT ![pid[arg[t]]] = arg[t]]
    /\ Goto(t, "start")
    /\ UNCHANGED <<schedVars, current, pid, frame, held, cr3, cpu, arg, reg,
                   clockVars, callVars>>

\* process_start up to the assignment of the virtual runtime in
\* scheduler_add, which returns at once when ready_list is full.
process_start(t) ==
    /\ At(t, "start")
    /\ IF Len(ready) >= MaxProcesses
       THEN Goto(t, "app") /\ UNCHANGED vruntime
       ELSE Goto(t, "link") /\ RaiseNew(arg[t])
    /\ UNCHANGED <<ready, sleeping, waiting, sleepTicks, globalMin, current, table,
                   pid, frame, held, cr3, cpu, arg, reg, clockVars, callVars>>

\* The store that links the process: the capacity was looked at before.  It
\* would be exceeded by the keyboard or the timer waking a process in
\* between, which takes more than MAX_PROCESSES processes.
Link(t) ==
    /\ At(t, "link")
    /\ LinkNew(arg[t])
    /\ Goto(t, "app")
    /\ UNCHANGED <<sleeping, waiting, vruntime, sleepTicks, globalMin, current,
                   table, pid, frame, held, cr3, cpu, arg, reg, clockVars, callVars>>

---------------------------------------------------------------------------
(* process_exit_current.                                                   *)

\* Mutant of ExitBegin: scheduler_api.remove is forgotten.
ExitWithoutRemove(t) ==
    /\ Enter(t, "exit")
    /\ current # NoProc
    /\ arg' = [arg EXCEPT ![t] = current]
    /\ Goto(t, "exit_unsleep")
    /\ UNCHANGED <<schedVars, current, table, pid, frame, held, cr3, cpu, reg,
                   clockVars, callVars>>

ExitBegin(t) ==
    /\ Enter(t, "exit")
    /\ current # NoProc
    /\ arg' = [arg EXCEPT ![t] = current]
    /\ Goto(t, "exit_remove")
    /\ UNCHANGED <<schedVars, current, table, pid, frame, held, cr3, cpu, reg,
                   clockVars, callVars>>

\* Mutant of ExitDetach: kernel_process_switch(NULL) is forgotten.
ExitStaysCurrent(t) ==
    /\ At(t, "exit_detach")
    /\ Goto(t, "exit_stack")
    /\ UNCHANGED <<schedVars, current, table, pid, frame, held, cr3, cpu, arg, reg,
                   clockVars, callVars>>

\* kernel_process_switch(NULL).
ExitDetach(t) ==
    /\ At(t, "exit_detach")
    /\ current' = NoProc
    /\ Goto(t, "exit_stack")
    /\ UNCHANGED <<schedVars, table, pid, frame, held, cr3, cpu, arg, reg,
                   clockVars, callVars>>

\* arp_context_cleanup and the stack the thread is still running on.
ExitStack(t) ==
    /\ At(t, "exit_stack")
    /\ held' = [held EXCEPT ![arg[t]] = @ \ {"context", "stack"}]
    /\ Goto(t, "exit_space")
    /\ UNCHANGED <<schedVars, current, table, pid, frame, cr3, cpu, arg, reg,
                   clockVars, callVars>>

ExitSpace(t) ==
    /\ At(t, "exit_space")
    /\ held' = [held EXCEPT ![arg[t]] = @ \ {"space"}]
    /\ Goto(t, "exit_slot")
    /\ UNCHANGED <<schedVars, current, table, pid, frame, cr3, cpu, arg, reg,
                   clockVars, callVars>>

\* kernel_process_register(p->pid, NULL) and the process_t itself.
ExitSlot(t) ==
    /\ At(t, "exit_slot")
    /\ table' = [table EXCEPT ![pid[arg[t]]] = NoProc]
    /\ held' = [held EXCEPT ![arg[t]] = @ \ {"pcb"}]
    /\ Goto(t, "sched_next")
    /\ UNCHANGED <<schedVars, current, pid, frame, cr3, cpu, arg, reg, clockVars, callVars>>

---------------------------------------------------------------------------
(* schedule(), called by core_run and at the end of exit.  current is null *)
(* there (ScheduleFromNull), so the context_switch branch is dead code.    *)

ScheduleNext(t) ==
    /\ At(t, "sched_next")
    /\ \E next \in Procs :
        /\ scheduler_next(next)
        /\ arg' = [arg EXCEPT ![t] = next]
    /\ Goto(t, "sched_set")
    /\ UNCHANGED <<schedVars, current, table, pid, frame, held, cr3, cpu, reg,
                   clockVars, callVars>>

ScheduleSet(t) ==
    /\ At(t, "sched_set")
    /\ current = NoProc
    /\ current' = arg[t]
    /\ Goto(t, "sched_load")
    /\ UNCHANGED <<schedVars, table, pid, frame, held, cr3, cpu, arg, reg,
                   clockVars, callVars>>

\* switch_address_space(next->address_space); next->rsp is loaded.
ScheduleLoad(t) ==
    /\ At(t, "sched_load")
    /\ cr3' = arg[t]
    /\ reg' = [reg EXCEPT ![t] = frame[arg[t]]]
    /\ Goto(t, "sched_jump")
    /\ UNCHANGED <<schedVars, current, table, pid, frame, held, cpu, arg,
                   clockVars, callVars>>

\* jump_to_first_task: the loaded frame is popped.
ScheduleJump(t) ==
    /\ At(t, "sched_jump")
    /\ Goto(t, "gone")
    /\ Resume(reg[t], arg[t], frame)
    /\ UNCHANGED <<schedVars, current, table, pid, held, cr3, arg, reg,
                   clockVars, callVars>>

---------------------------------------------------------------------------
\* After a panic the machine stays on the panic screen; at the bound of the
\* model the halted idle thread stays where it is.
Stopped == /\ cpu = Panic \/ (ticks = MaxTicks /\ isr = 0)
           /\ UNCHANGED vars

AppStep(t) ==
    \/ sleep(t) \/ sleep_ms(t) \/ SleepAdd(t) \/ wait(t) \/ WaitAdd(t) \/ Yield(t)
    \/ SearchReady(t) \/ SwapReady(t) \/ SearchSleeping(t) \/ SwapSleeping(t)
    \/ Create(t) \/ CreateNoStack(t) \/ Register(t) \/ process_start(t) \/ Link(t)
    \/ ExitBegin(t) \/ ExitDetach(t) \/ ExitStack(t) \/ ExitSpace(t)
    \/ ExitSlot(t)

ScheduleStep(t) == \/ ScheduleNext(t) \/ ScheduleSet(t)
                   \/ ScheduleLoad(t) \/ ScheduleJump(t)

Next ==
    \/ TimerInterrupt
    \/ TickSleeper
    \/ process_on_timer_interrupt
    \/ KeyboardInterrupt
    \/ \E t \in Procs : AppStep(t)
    \/ \E t \in Threads : ScheduleStep(t)
    \/ Stopped

Spec == Init /\ [][Next]_vars

---------------------------------------------------------------------------
(* Properties.                                                             *)

\* p has been created and not yet passed to scheduler_add.
Starting(p) == \E t \in Procs : /\ pc[t] \in {"register", "start", "link"}
                                /\ arg[t] = p

InSomeList(p) == p \in Elems(ready) \cup Elems(sleeping) \cup Elems(waiting)

\* A started process that is not inside the unlinked part of sleep(), wait()
\* or exit is linked exactly once from ready_list, sleep_list and the wait
\* queue together; one that is inside that part, or not yet linked by
\* process_start, or the idle process, is linked from none.
LinkedOnce ==
    \A p \in Procs :
        Links(p) =
            IF /\ pc[p] \in {"app", "yield", "register", "start", "link"}
                           \cup Searches \cup Swaps
               /\ ~ Starting(p)
            THEN 1 ELSE 0

\* Wherever the timer and the keyboard interrupt the kernel calls, the loops
\* of scheduler_remove included, every process is linked as LinkedOnce says
\* for as long as no process completes a removal from ready_list while
\* another one stands in the middle of its own (scheduler_add,
\* scheduler_remove, scheduler_tick, wake_up_one, process_start): the wakes
\* and insertions that fall inside a removal only lengthen the list it is
\* searching.
ListedOnce == ~ overtaken => LinkedOnce

\* No list, no slot of process_table and not current_process points at a
\* process_t that process_exit_current has given back to the heap, for as
\* long as no removal from ready_list has fallen inside another one.
NoDangling ==
    ~ overtaken => \A p \in Procs :
        \/ InSomeList(p)
        \/ p = current
        \/ \E i \in Pids : table[i] = p
        => Live(p)

\* A thread that executes outside exit and schedule() is the one
\* current_process names, runs in its own address space and on a stack that
\* is still allocated (process_on_timer_interrupt, schedule).
RunsAsItself ==
    (/\ isr = 0
     /\ cpu \in Procs
     /\ pc[cpu] \notin ExitSteps \cup SchedSteps)
    => /\ current = cpu
       /\ cr3 = cpu
       /\ Live(cpu) /\ "stack" \in held[cpu]

\* schedule() is only ever executed with current_process null, so its second
\* half, context_switch on a stack that holds no iretq frame, is never
\* reached, however the timer interrupts exit and core_run.
ScheduleFromNull ==
    (/\ isr = 0
     /\ cpu \in Threads
     /\ pc[cpu] \in {"sched_next", "sched_set"})
    => current = NoProc

\* global_min_vruntime is a lower bound of the virtual runtime of every ready
\* process at every point where an interrupt may read it, but for the
\* processes that process_start was linking when the minimum was last
\* computed: their virtual runtime was raised to an older minimum already
\* (scheduler_add, scheduler_tick).
ReadyAboveMin ==
    ~ overtaken => \A i \in DOMAIN ready :
        globalMin <= vruntime[ready[i]] \/ ready[i] \in behind

\* When global_min_vruntime moves backwards, and it does, it moves no further
\* than to the virtual runtime of a process that a tick overtook between the
\* two statements of scheduler_add in process_start (update_min_vruntime);
\* sleepers, waiters and processes started without that tick never move it
\* back.
MinMonotone ==
    [][(~ overtaken' /\ globalMin' < globalMin)
       => \E p \in behind : vruntime[p] <= globalMin']_vars

---------------------------------------------------------------------------
(* What comments of the source say, and the code does not do.  A run of    *)
(* LinkedOnce shows what one removal does inside another one.              *)

\* "The right order matters": a process inside sleep() or wait() that is off
\* the CPU is linked from a list that will bring it back (scheduler_sleep,
\* wait, both called with interrupts enabled).
BlockedIsListed ==
    \A p \in Procs :
        (pc[p] \in {"sleep_add", "wait_add"} /\ current # p) => InSomeList(p)

\* "EXIT - complete cleanup": a process that has entered the cleanup and has
\* lost the CPU for good has nothing allocated any more.
ExitCleansUp ==
    \A p \in Procs : (isr = 0 /\ pc[p] \in ExitSteps /\ cpu # p)
                     => held[p] = {}

\* Processes are kept apart: the saved context of a process is its own.
ContextIsOwn == \A p \in Procs : frame[p] \in {p, Spent}

\* Processes are kept apart: a process that has been started is the one its
\* pid names.
PidNamesProcess ==
    \A p \in Procs : (pc[p] = "app" /\ ~ Starting(p)) => table[pid[p]] = p

\* "scheduler_next() picks another process -> correct switch": no switch made
\* to the idle process after sleep() ends in an exception.
IdleSwitchIsCorrect == current = Idle => cpu # Panic

=============================================================================
