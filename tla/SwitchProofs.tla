---------------------------- MODULE SwitchProofs ----------------------------
(***************************************************************************)
(* Proofs about module Kernel, for every number of processes: wherever the *)
(* timer interrupts exit and schedule(), each thread has at most one saved *)
(* context, schedule() is only executed while current_process is null, and *)
(* a thread that executes outside them is the process it should be.        *)
(***************************************************************************)
EXTENDS KernelProofs

---------------------------------------------------------------------------
(* The inductive invariant: who is saved where.                            *)

\* The two steps of schedule() after the assignment to current_process.
AfterSet == {"sched_load", "sched_jump"}

\* Thread u is about to pop the frame in its register.  A thread that lost the
\* CPU while it was switching to the idle process never runs again.
Jumping(u) == pc[u] = "sched_jump" /\ (u = cpu \/ arg[u] # Idle)

\* The thread that executes has no saved context anywhere.
RunningNotSaved ==
    cpu \in Threads =>
        /\ \A p \in Procs : frame[p] # cpu
        /\ \A u \in Threads : Jumping(u) => reg[u] # cpu

\* Every other thread has one saved context at most: no two process_t have
\* the same one, nor two registers; a register and a process_t do only
\* between the load and the jump of the thread that executes.
SavedOnce ==
    /\ \A p, q \in Procs : frame[p] = frame[q] /\ p # q => frame[p] = Spent
    /\ \A u, v \in Threads :
        Jumping(u) /\ Jumping(v) /\ u # v /\ reg[u] = reg[v] => reg[u] = Spent
    /\ \A u \in Threads, p \in Procs :
        Jumping(u) /\ frame[p] = reg[u] /\ reg[u] # Spent => u = cpu /\ p = arg[u]

\* The idle thread never leaves its loop and is saved nowhere but at first.
IdleHalted ==
    /\ pc[Idle] = "halt"
    /\ frame[Idle] \in {Idle, Spent}
    /\ \A u \in Threads : pc[u] = "sched_jump" /\ arg[u] = Idle => reg[u] \in {Idle, Spent}

\* A process that does not exist yet has its initial frame.
FreshFrame == \A p \in Procs : pc[p] = "none" => frame[p] = p

\* A saved thread was not saved while current_process was null, and one saved
\* inside schedule() is saved in the process it was switching to.
SavedWhere ==
    /\ \A p \in Procs :
        frame[p] \in Threads =>
            /\ pc[frame[p]] \notin NullSteps
            /\ pc[frame[p]] \in AfterSet => arg[frame[p]] = p
    /\ \A u \in Threads :
        Jumping(u) /\ reg[u] \in Threads =>
            /\ pc[reg[u]] \notin NullSteps
            /\ pc[reg[u]] \in AfterSet => arg[reg[u]] = arg[u]

\* What current_process is while exit and schedule() run.
RunningWhere ==
    cpu \in Threads =>
        /\ pc[cpu] \in NullSteps => current = NoProc
        /\ pc[cpu] \in AfterSet => current = arg[cpu]

SwitchInv == /\ RunningNotSaved
             /\ SavedOnce
             /\ IdleHalted
             /\ FreshFrame
             /\ SavedWhere
             /\ RunningWhere

---------------------------------------------------------------------------
(* Steps that move no context.                                             *)

\* A step that leaves contexts, threads and current_process alone.
LEMMA SameKeeps ==
    ASSUME SwitchInv, UNCHANGED <<frame, reg, cpu, pc, arg, current>>
    PROVE  SwitchInv'
  <1>1. \A u \in Threads : Jumping(u)' = Jumping(u)
    BY DEF Jumping
  <1> QED BY <1>1 DEF SwitchInv, RunningNotSaved, SavedOnce, IdleHalted,
             FreshFrame, SavedWhere, RunningWhere

\* A step of the running thread t inside a call, which may create a process.
LEMMA LocalKeeps ==
    ASSUME KInv, SwitchInv, NEW t \in Threads, cpu = t,
           UNCHANGED <<frame, reg, cpu>>,
           pc[t] \notin {"none", "halt"},
           pc'[t] \notin {"none", "halt", "sched_jump"},
           \A u \in Threads : u # t =>
                /\ pc'[u] = pc[u] \/ (pc[u] = "none" /\ pc'[u] = "app")
                /\ arg'[u] = arg[u],
           pc'[t] \in NullSteps => current' = NoProc,
           pc'[t] \in AfterSet => current' = arg'[t]
    PROVE  SwitchInv'
  <1>1. \A u \in Threads : Jumping(u)' => u # t /\ Jumping(u) /\ arg'[u] = arg[u]
    BY DEF Jumping
  <1>2. Idle \in Threads /\ \A p \in Procs : p \in Threads
    BY ProcsAssumption DEF Threads
  <1>3. \A p \in Procs : frame[p] # t
    BY DEF SwitchInv, RunningNotSaved
  <1>4. \A u \in Threads : Jumping(u) => reg[u] # t
    BY DEF SwitchInv, RunningNotSaved
  <1>5. RunningNotSaved'
    BY <1>1, <1>3, <1>4 DEF RunningNotSaved
  <1>6. SavedOnce'
    BY <1>1 DEF SwitchInv, SavedOnce
  <1>7. IdleHalted'
    <2>1. \A u \in Threads : pc'[u] = "sched_jump" =>
              u # t /\ pc[u] = "sched_jump" /\ arg'[u] = arg[u]
      OBVIOUS
    <2>2. pc[Idle] = "halt" /\ Idle # t
      BY DEF SwitchInv, IdleHalted
    <2>3. pc'[Idle] = "halt"
      BY <1>2, <2>2
    <2> QED BY <2>1, <2>3 DEF SwitchInv, IdleHalted
  <1>8. FreshFrame'
    BY <1>2 DEF SwitchInv, FreshFrame
  <1>9. "app" \notin NullSteps /\ "app" \notin AfterSet
    BY DEF NullSteps, AfterSet
  <1>10. SavedWhere'
    <2>1. \A u \in Threads : u # t /\ pc[u] \notin NullSteps => pc'[u] \notin NullSteps
      BY <1>9
    <2>2. \A u \in Threads : u # t /\ pc'[u] \in AfterSet =>
              pc[u] \in AfterSet /\ arg'[u] = arg[u]
      BY <1>9
    <2>3. \A p \in Procs :
            frame[p] \in Threads =>
                /\ pc'[frame[p]] \notin NullSteps
                /\ pc'[frame[p]] \in AfterSet => arg'[frame[p]] = p
      BY <1>3, <2>1, <2>2 DEF SwitchInv, SavedWhere
    <2>4. \A u \in Threads :
            Jumping(u)' /\ reg[u] \in Threads =>
                /\ pc'[reg[u]] \notin NullSteps
                /\ pc'[reg[u]] \in AfterSet => arg'[reg[u]] = arg'[u]
      BY <1>1, <1>4, <2>1, <2>2 DEF SwitchInv, SavedWhere
    <2> QED BY <2>3, <2>4 DEF SavedWhere
  <1>11. RunningWhere'
    BY DEF RunningWhere
  <1> QED BY <1>5, <1>6, <1>7, <1>8, <1>10, <1>11 DEF SwitchInv

\* The same for a step that creates nothing.
LEMMA ThreadKeeps ==
    ASSUME KInv, SwitchInv, NEW t \in Threads, cpu = t,
           UNCHANGED <<frame, reg, cpu>>,
           NEW s \in Steps \ {"none", "halt", "sched_jump"},
           pc' = [pc EXCEPT ![t] = s], pc[t] \notin {"none", "halt"},
           NEW a, arg' = [arg EXCEPT ![t] = a],
           s \in NullSteps => current' = NoProc,
           s \in AfterSet => current' = a
    PROVE  SwitchInv'
  <1>1. pc'[t] = s /\ \A u \in Threads : u # t => pc'[u] = pc[u]
    BY PcStep DEF KInv
  <1>2. arg'[t] = a /\ \A u \in Threads : u # t => arg'[u] = arg[u]
    BY DEF KInv, Pointers
  <1> QED BY <1>1, <1>2, LocalKeeps

\* A call leaves its pointer alone, or sets it.
LEMMA ArgKept ==
    ASSUME KInv, NEW t \in Threads
    PROVE  arg = [arg EXCEPT ![t] = arg[t]]
  <1> QED BY DEF KInv, Pointers

---------------------------------------------------------------------------
(* The calls of the applications.                                          *)

\* The steps of scheduler_remove and scheduler_remove_from_sleep.
RemovalSteps == Searches \cup Swaps \cup Unsleeps

LEMMA SearchMoves ==
    ASSUME KInv, NEW t \in Procs, NEW list, NEW here, NEW swap, NEW done,
           Search(t, list, here, swap, done)
    PROVE  /\ cpu = t /\ pc[t] = here
           /\ \E s \in {here, swap, done} : pc' = [pc EXCEPT ![t] = s]
           /\ UNCHANGED <<frame, reg, cpu, cr3, current, held, arg>>
  <1>1. cpu = t /\ pc[t] = here /\ UNCHANGED <<frame, reg, cpu, cr3, current, held, arg>>
    BY DEF Search, At
  <1>2. pc = [pc EXCEPT ![t] = here]
    BY <1>1 DEF KInv, FlatTypeOK
  <1>3. \E s \in {here, swap, done} : pc' = [pc EXCEPT ![t] = s]
    BY <1>2 DEF Search, Goto
  <1> QED BY <1>1, <1>3

LEMMA RemovalMoves ==
    ASSUME KInv, NEW t \in Procs,
           SearchReady(t) \/ SwapReady(t) \/ SearchSleeping(t) \/ SwapSleeping(t)
    PROVE  /\ cpu = t /\ pc[t] \in RemovalSteps
           /\ \E s \in RemovalSteps \cup {"sleep_add", "wait_add", "exit_detach"} :
                /\ pc' = [pc EXCEPT ![t] = s]
                /\ s = "exit_detach" => pc[t] \in Unsleeps
           /\ UNCHANGED <<frame, reg, cpu, cr3, current, held, arg>>
  <1>1. {"sleep_remove", "wait_remove", "exit_remove", "sleep_swap", "wait_swap",
         "exit_swap", "exit_unsleep", "exit_unsleep_swap"} \subseteq RemovalSteps
        /\ {"exit_unsleep", "exit_unsleep_swap"} \subseteq Unsleeps
        /\ "exit_detach" \notin RemovalSteps
    BY DEF RemovalSteps, Searches, Swaps, Unsleeps
  <1>2. CASE SearchReady(t)
    <2>1. CASE Search(t, ready, "sleep_remove", "sleep_swap", "sleep_add")
      BY <1>1, <2>1, SearchMoves
    <2>2. CASE Search(t, ready, "wait_remove", "wait_swap", "wait_add")
      BY <1>1, <2>2, SearchMoves
    <2>3. CASE Search(t, ready, "exit_remove", "exit_swap", "exit_unsleep")
      BY <1>1, <2>3, SearchMoves
    <2> QED BY <1>2, <2>1, <2>2, <2>3 DEF SearchReady
  <1>3. CASE SwapReady(t)
    <2>1. PICK here \in Swaps, done \in {"sleep_add", "wait_add", "exit_unsleep"} :
            Swap(t, here, done)
      BY <1>3 DEF SwapReady, Swaps
    <2>2. /\ cpu = t /\ pc[t] = here /\ pc' = [pc EXCEPT ![t] = done]
          /\ UNCHANGED <<frame, reg, cpu, cr3, current, held, arg>>
      BY <2>1 DEF Swap, At, Goto
    <2> QED BY <1>1, <2>2 DEF RemovalSteps
  <1>4. CASE SearchSleeping(t)
    <2>1. Search(t, sleeping, "exit_unsleep", "exit_unsleep_swap", "exit_detach")
      BY <1>4 DEF SearchSleeping
    <2> QED BY <1>1, <2>1, SearchMoves
  <1>5. CASE SwapSleeping(t)
    <2>1. /\ cpu = t /\ pc[t] = "exit_unsleep_swap"
          /\ pc' = [pc EXCEPT ![t] = "exit_detach"]
          /\ UNCHANGED <<frame, reg, cpu, cr3, current, held, arg>>
      BY <1>5 DEF SwapSleeping, At, Goto
    <2> QED BY <1>1, <2>1
  <1> QED BY <1>2, <1>3, <1>4, <1>5

LEMMA AppKeepsSwitch ==
    ASSUME KInv, SwitchInv, NEW t \in Procs, AppStep(t)
    PROVE  SwitchInv'
  <1> DEFINE Moves(s, a) ==
        /\ cpu = t /\ pc' = [pc EXCEPT ![t] = s] /\ pc[t] \notin {"none", "halt"}
        /\ arg' = [arg EXCEPT ![t] = a]
        /\ UNCHANGED <<frame, reg, cpu>>
  <1>t. t \in Threads
    BY DEF Threads
  <1>k. arg = [arg EXCEPT ![t] = arg[t]]
    BY <1>t, ArgKept
  <1>2. ASSUME sleep(t) \/ sleep_ms(t) PROVE Moves("sleep_remove", current)
    <2>1. PICK n : BeginSleep(t, n)
      BY <1>2 DEF sleep, sleep_ms
    <2>2. cpu = t /\ pc[t] = "app"
      BY <1>2 DEF sleep, sleep_ms, Enter, At
    <2> QED BY <2>1, <2>2 DEF BeginSleep, Goto
  <1>3. ASSUME SearchReady(t) \/ SwapReady(t) \/ SearchSleeping(t) \/ SwapSleeping(t)
        PROVE  \E s \in RemovalSteps \cup {"sleep_add", "wait_add", "exit_detach"} :
                  Moves(s, arg[t])
    <2>1. "none" \notin RemovalSteps /\ "halt" \notin RemovalSteps
      BY DEF RemovalSteps, Searches, Swaps, Unsleeps
    <2>2. PICK s \in RemovalSteps \cup {"sleep_add", "wait_add", "exit_detach"} :
             pc' = [pc EXCEPT ![t] = s]
      BY <1>3, RemovalMoves
    <2>3. cpu = t /\ pc[t] \in RemovalSteps /\ UNCHANGED <<frame, reg, cpu, arg>>
      BY <1>3, RemovalMoves
    <2>4. Moves(s, arg[t])
      BY <1>k, <2>1, <2>2, <2>3
    <2> QED BY <2>4
  <1>4. ASSUME SleepAdd(t) \/ WaitAdd(t) PROVE Moves("yield", arg[t])
    BY <1>4, <1>k DEF SleepAdd, WaitAdd, At, Goto
  <1>5. ASSUME wait(t) PROVE Moves("wait_remove", current)
    BY <1>5 DEF wait, Enter, At, Goto
  <1>6. ASSUME process_start(t) PROVE Moves("app", arg[t]) \/ Moves("link", arg[t])
    BY <1>6, <1>k DEF process_start, At, Goto
  <1>7. ASSUME Yield(t) \/ Link(t) PROVE Moves("app", arg[t])
    BY <1>7, <1>k DEF Yield, Link, At, Goto
  <1>8. ASSUME Register(t) PROVE Moves("start", arg[t])
    BY <1>8, <1>k DEF Register, At, Goto
  <1>9. ASSUME ExitBegin(t) PROVE Moves("exit_remove", current)
    BY <1>9 DEF ExitBegin, Enter, At, Goto
  <1>10. ASSUME ExitDetach(t) PROVE Moves("exit_stack", arg[t]) /\ current' = NoProc
    BY <1>10, <1>k DEF ExitDetach, At, Goto
  <1>11. ASSUME ExitStack(t) PROVE Moves("exit_space", arg[t])
                                  /\ current' = current /\ pc[t] \in NullSteps
    BY <1>11, <1>k DEF ExitStack, At, Goto, NullSteps
  <1>12. ASSUME ExitSpace(t) PROVE Moves("exit_slot", arg[t])
                                  /\ current' = current /\ pc[t] \in NullSteps
    BY <1>12, <1>k DEF ExitSpace, At, Goto, NullSteps
  <1>13. ASSUME ExitSlot(t) PROVE Moves("sched_next", arg[t])
                                 /\ current' = current /\ pc[t] \in NullSteps
    BY <1>13, <1>k DEF ExitSlot, At, Goto, NullSteps
  <1>14. ASSUME pc[t] \in NullSteps, cpu = t PROVE current = NoProc
    BY <1>14, <1>t DEF SwitchInv, RunningWhere
  <1>15. ASSUME NEW s \in RemovalSteps
                     \cup {"sleep_add", "yield", "wait_add", "app", "start", "link",
                           "exit_detach"},
                NEW a, Moves(s, a)
         PROVE  SwitchInv'
    <2>1. s \in Steps \ {"none", "halt", "sched_jump"} /\ s \notin NullSteps
          /\ s \notin AfterSet
      BY DEF Steps, ExitSteps, NullSteps, AfterSet, RemovalSteps, Searches,
         Swaps, Unsleeps
    <2> QED BY <1>t, <1>15, <2>1, ThreadKeeps
  <1>16. ASSUME NEW s \in NullSteps, NEW a, Moves(s, a), current' = NoProc
         PROVE  SwitchInv'
    <2>1. s \in Steps \ {"none", "halt", "sched_jump"} /\ s \notin AfterSet
      BY DEF Steps, ExitSteps, SchedSteps, NullSteps, AfterSet
    <2> QED BY <1>t, <1>16, <2>1, ThreadKeeps
  <1>r. {"sleep_remove", "wait_remove", "exit_remove"} \subseteq RemovalSteps
    BY DEF RemovalSteps, Searches
  <1> HIDE DEF Moves
  <1>17. CASE sleep(t) \/ sleep_ms(t) \/ SleepAdd(t)
    BY <1>2, <1>4, <1>15, <1>17, <1>r
  <1>23. CASE SearchReady(t) \/ SwapReady(t) \/ SearchSleeping(t) \/ SwapSleeping(t)
    <2>1. PICK s \in RemovalSteps \cup {"sleep_add", "wait_add", "exit_detach"} :
             Moves(s, arg[t])
      BY <1>3, <1>23
    <2> QED BY <1>15, <2>1
  <1>18. CASE wait(t) \/ WaitAdd(t) \/ Yield(t) \/ Link(t)
    BY <1>4, <1>5, <1>7, <1>15, <1>18, <1>r
  <1>19. CASE Register(t) \/ process_start(t) \/ ExitBegin(t)
    BY <1>6, <1>8, <1>9, <1>15, <1>19, <1>r
  <1>20. CASE ExitDetach(t) \/ ExitStack(t) \/ ExitSpace(t) \/ ExitSlot(t)
    <2>1. \A s \in {"exit_stack", "exit_space", "exit_slot", "sched_next"} : s \in NullSteps
      BY DEF NullSteps
    <2>2. Moves("exit_stack", arg[t]) => cpu = t
      BY DEF Moves
    <2>3. Moves("exit_space", arg[t]) => cpu = t
      BY DEF Moves
    <2>4. Moves("exit_slot", arg[t]) => cpu = t
      BY DEF Moves
    <2>5. Moves("sched_next", arg[t]) => cpu = t
      BY DEF Moves
    <2> QED BY <1>10, <1>11, <1>12, <1>13, <1>14, <1>16, <1>20, <2>1, <2>2,
               <2>3, <2>4, <2>5
  <1>21. CASE Create(t)
    <2>1. PICK p \in Unused :
             /\ frame' = [frame EXCEPT ![p] = p]
             /\ arg' = [arg EXCEPT ![t] = p]
             /\ pc' = [pc EXCEPT ![t] = "register", ![p] = "app"]
      BY <1>21 DEF Create
    <2>2. cpu = t /\ pc[t] = "app" /\ reg' = reg /\ cpu' = cpu
      BY <1>21 DEF Create, Enter, At
    <2>3. p \in Procs /\ pc[p] = "none" /\ p # t /\ p \in Threads
      BY <2>1, <2>2 DEF Unused, Threads
    <2>4. /\ frame \in [Procs -> Threads \cup {Spent}] /\ pc \in [Threads -> Steps]
          /\ arg \in [Threads -> Known \cup {NoProc}]
      BY DEF KInv, FlatTypeOK, Pointers
    <2>5. frame[p] = p
      BY <2>3 DEF SwitchInv, FreshFrame
    <2>6. frame' = frame
      BY <2>1, <2>3, <2>4, <2>5
    <2>7. pc'[t] = "register" /\ pc'[p] = "app"
          /\ \A u \in Threads : u # t /\ u # p => pc'[u] = pc[u]
      BY <1>t, <2>1, <2>3, <2>4
    <2>8. \A u \in Threads : u # t => arg'[u] = arg[u]
      BY <2>1, <2>4
    <2>9. "register" \notin NullSteps /\ "register" \notin AfterSet
      BY DEF NullSteps, AfterSet
    <2>10. \A u \in Threads : u # t =>
                /\ pc'[u] = pc[u] \/ (pc[u] = "none" /\ pc'[u] = "app")
                /\ arg'[u] = arg[u]
      BY <2>3, <2>7, <2>8
    <2> QED BY <1>t, <2>2, <2>6, <2>7, <2>9, <2>10, LocalKeeps
  <1>22. CASE CreateNoStack(t)
    BY <1>22, SameKeeps DEF CreateNoStack
  <1> QED BY <1>17, <1>18, <1>19, <1>20, <1>21, <1>22, <1>23 DEF AppStep

---------------------------------------------------------------------------
(* schedule().                                                             *)

LEMMA LoadKeepsSwitch ==
    ASSUME KInv, SwitchInv, NEW t \in Threads, ScheduleLoad(t)
    PROVE  SwitchInv'
  <1>1. /\ cpu = t /\ pc[t] = "sched_load" /\ pc' = [pc EXCEPT ![t] = "sched_jump"]
        /\ reg' = [reg EXCEPT ![t] = frame[arg[t]]]
        /\ UNCHANGED <<frame, arg, cpu, current>>
    BY DEF ScheduleLoad, At, Goto
  <1>2. arg[t] \in Procs
    BY <1>1, ArgIsKnown DEF UsesArg
  <1>3. pc'[t] = "sched_jump" /\ \A u \in Threads : u # t => pc'[u] = pc[u]
    BY <1>1 DEF KInv, FlatTypeOK
  <1>4. reg'[t] = frame[arg[t]] /\ \A u \in Threads : u # t => reg'[u] = reg[u]
    BY <1>1 DEF KInv, FlatTypeOK
  <1>5. Idle \in Threads /\ Idle # t /\ \A p \in Procs : p \in Threads
    BY <1>1, ProcsAssumption DEF Threads, SwitchInv, IdleHalted
  <1>6. \A u \in Threads : u # t => Jumping(u)' = Jumping(u)
    BY <1>1, <1>3 DEF Jumping
  <1>7. \A p \in Procs : frame[p] # t
    BY <1>1 DEF SwitchInv, RunningNotSaved
  <1>8. \A u \in Threads : Jumping(u) => reg[u] # t
    BY <1>1 DEF SwitchInv, RunningNotSaved
  <1>9. RunningNotSaved'
    BY <1>1, <1>2, <1>4, <1>6, <1>7, <1>8 DEF RunningNotSaved
  <1>10. SavedOnce'
    <2>1. \A u \in Threads, p \in Procs :
            Jumping(u) /\ u # t /\ reg[u] # Spent => frame[p] # reg[u]
      BY <1>1 DEF SwitchInv, SavedOnce
    <2>2. \A u, v \in Threads :
            Jumping(u)' /\ Jumping(v)' /\ u # v /\ reg'[u] = reg'[v] => reg'[u] = Spent
      BY <1>2, <1>4, <1>6, <2>1 DEF SwitchInv, SavedOnce
    <2>3. \A u \in Threads, p \in Procs :
            Jumping(u)' /\ frame[p] = reg'[u] /\ reg'[u] # Spent => u = t /\ p = arg[u]
      BY <1>2, <1>4, <1>6, <2>1 DEF SwitchInv, SavedOnce
    <2> QED BY <1>1, <2>2, <2>3 DEF SwitchInv, SavedOnce
  <1>11. IdleHalted'
    BY <1>1, <1>3, <1>4, <1>5 DEF SwitchInv, IdleHalted
  <1>12. FreshFrame'
    BY <1>1, <1>3, <1>5 DEF SwitchInv, FreshFrame
  <1>13. SavedWhere'
    <2>1. \A p \in Procs :
            frame[p] \in Threads =>
                /\ pc'[frame[p]] \notin NullSteps
                /\ pc'[frame[p]] \in AfterSet => arg[frame[p]] = p
      BY <1>3, <1>7 DEF SwitchInv, SavedWhere
    <2>2. \A u \in Threads :
            Jumping(u)' /\ reg'[u] \in Threads =>
                /\ pc'[reg'[u]] \notin NullSteps
                /\ pc'[reg'[u]] \in AfterSet => arg[reg'[u]] = arg[u]
      BY <1>2, <1>3, <1>4, <1>6, <1>8, <2>1 DEF SwitchInv, SavedWhere
    <2> QED BY <1>1, <2>1, <2>2 DEF SavedWhere
  <1>14. RunningWhere'
    <2>1. "sched_jump" \notin NullSteps /\ "sched_load" \in AfterSet
      BY DEF NullSteps, AfterSet
    <2> QED BY <1>1, <1>3, <2>1 DEF SwitchInv, RunningWhere
  <1> QED BY <1>9, <1>10, <1>11, <1>12, <1>13, <1>14 DEF SwitchInv

LEMMA JumpKeepsSwitch ==
    ASSUME KInv, SwitchInv, NEW t \in Threads, ScheduleJump(t)
    PROVE  SwitchInv'
  <1> DEFINE f == reg[t]
  <1>1. /\ cpu = t /\ pc[t] = "sched_jump" /\ pc' = [pc EXCEPT ![t] = "gone"]
        /\ frame' = [frame EXCEPT ![arg[t]] = Spent]
        /\ cpu' \in {f, Panic} /\ (cpu' = f => f # Spent)
        /\ UNCHANGED <<reg, arg, current>>
    BY ThreadsAssumption DEF ScheduleJump, At, Goto, Resume
  <1>2. pc'[t] = "gone" /\ \A u \in Threads : u # t => pc'[u] = pc[u]
    BY <1>1 DEF KInv, FlatTypeOK
  <1>3. \A p \in Procs : /\ p # arg[t] => frame'[p] = frame[p]
                         /\ p = arg[t] => frame'[p] = Spent
    BY <1>1 DEF KInv, FlatTypeOK
  <1>4. Idle \in Threads /\ Idle # t /\ \A p \in Procs : p \in Threads
    BY <1>1, ProcsAssumption DEF Threads, SwitchInv, IdleHalted
  <1>5. Jumping(t) /\ f \in Threads \cup {Spent} /\ f # t
        /\ \A p \in Procs : frame[p] # t
    BY <1>1 DEF Jumping, KInv, FlatTypeOK, SwitchInv, RunningNotSaved
  <1>6. Spent \notin Threads /\ Panic \notin Threads
    BY ThreadsAssumption DEF Threads
  <1>7. f \in Threads => /\ pc[f] \notin NullSteps
                         /\ pc[f] \in AfterSet => arg[f] = arg[t]
    BY <1>5 DEF SwitchInv, SavedWhere
  <1>8. \A u \in Threads : Jumping(u)' => u # t /\ Jumping(u)
    <2>1. ASSUME f \in Threads, pc[f] = "sched_jump", arg[f] = Idle PROVE FALSE
      <3>1. arg[t] = Idle
        BY <1>7, <2>1 DEF AfterSet
      <3>2. f \in {Idle, Spent}
        BY <1>1, <3>1 DEF SwitchInv, IdleHalted
      <3> QED BY <1>6, <2>1, <3>2 DEF SwitchInv, IdleHalted
    <2> QED BY <1>1, <1>2, <1>5, <1>6, <2>1 DEF Jumping
  <1> HIDE DEF f
  <1>9. RunningNotSaved'
    <2>1. ASSUME NEW p \in Procs, cpu' = f PROVE frame'[p] # f
      BY <1>1, <1>3, <1>5, <2>1 DEF SwitchInv, SavedOnce, f
    <2>2. ASSUME NEW u \in Threads, Jumping(u)', cpu' = f PROVE reg[u] # f
      BY <1>1, <1>5, <1>8, <2>2 DEF SwitchInv, SavedOnce, f
    <2> QED BY <1>1, <1>6, <2>1, <2>2 DEF RunningNotSaved
  <1>10. SavedOnce'
    <2>1. \A u \in Threads, p \in Procs :
            Jumping(u)' /\ reg[u] # Spent => frame'[p] # reg[u]
      BY <1>1, <1>3, <1>8 DEF SwitchInv, SavedOnce
    <2>2. \A p, q \in Procs : frame'[p] = frame'[q] /\ p # q => frame'[p] = Spent
      BY <1>3 DEF SwitchInv, SavedOnce
    <2> QED BY <1>1, <1>8, <2>1, <2>2 DEF SwitchInv, SavedOnce
  <1>11. IdleHalted'
    BY <1>1, <1>2, <1>3, <1>4, ProcsAssumption DEF SwitchInv, IdleHalted
  <1>12. FreshFrame'
    <2>1. ASSUME NEW p \in Procs, pc'[p] = "none" PROVE p # arg[t]
      <3>1. pc[p] = "none"
        BY <1>2, <1>4, <2>1
      <3> QED BY <3>1, <1>4, ProcsAssumption DEF KInv, Pointers, Known
    <2> QED BY <1>2, <1>3, <1>4, <2>1 DEF SwitchInv, FreshFrame
  <1>13. SavedWhere'
    <2>1. \A p \in Procs :
            frame'[p] \in Threads =>
                /\ pc'[frame'[p]] \notin NullSteps
                /\ pc'[frame'[p]] \in AfterSet => arg[frame'[p]] = p
      BY <1>2, <1>3, <1>5, <1>6 DEF SwitchInv, SavedWhere
    <2>2. \A u \in Threads : Jumping(u)' => reg[u] # t
      BY <1>1, <1>8 DEF SwitchInv, RunningNotSaved
    <2>3. \A u \in Threads :
            Jumping(u)' /\ reg[u] \in Threads =>
                /\ pc'[reg[u]] \notin NullSteps
                /\ pc'[reg[u]] \in AfterSet => arg[reg[u]] = arg[u]
      BY <1>2, <1>8, <2>2 DEF SwitchInv, SavedWhere
    <2> QED BY <1>1, <2>1, <2>3 DEF SavedWhere
  <1>14. RunningWhere'
    <2>1. current = arg[t]
      BY <1>1 DEF SwitchInv, RunningWhere, AfterSet
    <2>2. cpu' \in Threads => cpu' = f /\ f \in Threads /\ f # t /\ pc'[f] = pc[f]
      BY <1>1, <1>2, <1>5, <1>6
    <2> QED BY <1>1, <1>7, <2>1, <2>2 DEF RunningWhere
  <1> QED BY <1>9, <1>10, <1>11, <1>12, <1>13, <1>14 DEF SwitchInv

LEMMA ScheduleKeepsSwitch ==
    ASSUME KInv, SwitchInv, NEW t \in Threads, ScheduleStep(t)
    PROVE  SwitchInv'
  <1>1. CASE ScheduleNext(t)
    <2>1. PICK next : arg' = [arg EXCEPT ![t] = next]
      BY <1>1 DEF ScheduleNext
    <2>2. /\ cpu = t /\ pc[t] = "sched_next" /\ pc' = [pc EXCEPT ![t] = "sched_set"]
          /\ UNCHANGED <<frame, reg, cpu, current>>
      BY <1>1 DEF ScheduleNext, At, Goto
    <2>3. "sched_set" \in Steps \ {"none", "halt", "sched_jump"}
          /\ "sched_set" \notin AfterSet /\ "sched_next" \in NullSteps
      BY DEF Steps, SchedSteps, AfterSet, NullSteps
    <2>4. current = NoProc
      BY <2>2, <2>3 DEF SwitchInv, RunningWhere
    <2> QED BY <2>1, <2>2, <2>3, <2>4, ThreadKeeps
  <1>2. CASE ScheduleSet(t)
    <2>1. /\ cpu = t /\ pc[t] = "sched_set" /\ pc' = [pc EXCEPT ![t] = "sched_load"]
          /\ current' = arg[t] /\ arg' = arg
          /\ UNCHANGED <<frame, reg, cpu>>
      BY <1>2 DEF ScheduleSet, At, Goto
    <2>2. "sched_load" \in Steps \ {"none", "halt", "sched_jump"}
          /\ "sched_load" \notin NullSteps
      BY DEF Steps, SchedSteps, NullSteps
    <2> QED BY <2>1, <2>2, ArgKept, ThreadKeeps
  <1> QED BY <1>1, <1>2, LoadKeepsSwitch, JumpKeepsSwitch DEF ScheduleStep

---------------------------------------------------------------------------
(* The switch in the timer interrupt.                                      *)

\* The interrupted thread goes on: its context was saved and is popped again.
LEMMA PopOwnKeeps ==
    ASSUME KInv, SwitchInv, current \in Known,
           \A p \in Procs : /\ p # current => frame'[p] = frame[p]
                            /\ p = current => frame'[p] = Spent,
           UNCHANGED <<reg, cpu, pc, arg, current>>
    PROVE  SwitchInv'
  <1>1. \A u \in Threads : Jumping(u)' = Jumping(u)
    BY DEF Jumping
  <1>2. Spent \notin Threads
    BY ThreadsAssumption DEF Threads
  <1>3. \A p \in Procs : pc[p] = "none" => p # current
    BY DEF Known
  <1>4. RunningNotSaved'
    BY <1>1, <1>2 DEF SwitchInv, RunningNotSaved
  <1>5. SavedOnce'
    BY <1>1 DEF SwitchInv, SavedOnce
  <1>6. IdleHalted' /\ FreshFrame'
    BY <1>3, ProcsAssumption DEF SwitchInv, IdleHalted, FreshFrame
  <1>7. SavedWhere' /\ RunningWhere'
    BY <1>1, <1>2 DEF SwitchInv, SavedWhere, RunningWhere
  <1> QED BY <1>4, <1>5, <1>6, <1>7 DEF SwitchInv

\* Another process is resumed; the interrupted thread is saved in the current
\* process unless that is null or the idle process.
LEMMA PopOtherKeeps ==
    ASSUME KInv, SwitchInv, cpu \in Threads, NEW next \in Known, next # current,
           \A p \in Procs :
                /\ p = next => frame'[p] = Spent
                /\ p = current /\ p # Idle => frame'[p] = cpu
                /\ p # next /\ (p # current \/ p = Idle) => frame'[p] = frame[p],
           cpu' \in Threads => cpu' = frame[next],
           current' = next,
           UNCHANGED <<reg, pc, arg>>
    PROVE  SwitchInv'
  <1> DEFINE f == frame[next]
  <1>1. Spent \notin Threads /\ next \in Procs /\ NoProc \notin Procs /\ Idle \in Procs
    BY ThreadsAssumption, ProcsAssumption DEF Threads, Known
  <1>2. \A p \in Procs : frame[p] # cpu
    BY DEF SwitchInv, RunningNotSaved
  <1>3. \A u \in Threads : Jumping(u) => reg[u] # cpu
    BY DEF SwitchInv, RunningNotSaved
  <1>4. f \in Threads => /\ pc[f] \notin NullSteps
                         /\ pc[f] \in AfterSet => arg[f] = next
    BY <1>1 DEF SwitchInv, SavedWhere
  <1>5. pc[cpu] = "sched_jump" => arg[cpu] = current
    BY DEF SwitchInv, RunningWhere, AfterSet
  <1>6. \A u \in Threads : Jumping(u)' => Jumping(u) /\ (u = cpu => arg[u] # Idle)
    <2>1. ASSUME f \in Threads, pc[f] = "sched_jump", arg[f] = Idle PROVE FALSE
      <3>1. next = Idle
        BY <1>4, <2>1 DEF AfterSet
      <3>2. f \in {Idle, Spent}
        BY <3>1 DEF SwitchInv, IdleHalted
      <3> QED BY <1>1, <2>1, <3>2 DEF SwitchInv, IdleHalted
    <2> QED BY <1>1, <1>2, <2>1 DEF Jumping
  <1>7. \A p \in Procs :
          \/ p = next /\ frame'[p] = Spent
          \/ p # next /\ p = current /\ p # Idle /\ frame'[p] = cpu
          \/ p # next /\ (p # current \/ p = Idle) /\ frame'[p] = frame[p]
    OBVIOUS
  <1> HIDE DEF f
  <1>8. RunningNotSaved'
    <2>1. ASSUME NEW p \in Procs, cpu' \in Threads PROVE frame'[p] # f
      <3>1. f \in Threads /\ f # cpu
        BY <1>1, <1>2, <2>1 DEF f
      <3> QED BY <1>1, <1>7, <3>1 DEF SwitchInv, SavedOnce, f
    <2>2. ASSUME NEW u \in Threads, Jumping(u)', cpu' \in Threads PROVE reg[u] # f
      <3>1. ASSUME reg[u] = f PROVE FALSE
        <4>1. f # Spent /\ Jumping(u)
          BY <1>1, <1>6, <2>2 DEF f
        <4>2. u = cpu /\ next = arg[u]
          BY <1>1, <3>1, <4>1 DEF SwitchInv, SavedOnce, f
        <4> QED BY <1>5, <4>1, <4>2 DEF Jumping
      <3> QED BY <3>1
    <2> QED BY <2>1, <2>2 DEF RunningNotSaved, f
  <1>9. SavedOnce'
    <2>1. \A p, q \in Procs : frame'[p] = frame'[q] /\ p # q => frame'[p] = Spent
      BY <1>2, <1>7 DEF SwitchInv, SavedOnce
    <2>2. ASSUME NEW u \in Threads, NEW p \in Procs, Jumping(u)', reg[u] # Spent
          PROVE  frame'[p] # reg[u]
      <3>1. Jumping(u) /\ (u = cpu => arg[u] # Idle) /\ reg[u] # cpu
        BY <1>3, <1>6, <2>2
      <3>2. ASSUME frame[p] = reg[u] PROVE p = current /\ p # Idle
        <4>1. u = cpu /\ p = arg[u]
          BY <2>2, <3>1, <3>2 DEF SwitchInv, SavedOnce
        <4> QED BY <1>5, <3>1, <4>1 DEF Jumping
      <3> QED BY <1>7, <2>2, <3>1, <3>2
    <2> QED BY <1>6, <2>1, <2>2 DEF SwitchInv, SavedOnce
  <1>10. IdleHalted'
    BY <1>1 DEF SwitchInv, IdleHalted
  <1>11. FreshFrame'
    <2>1. \A p \in Procs : pc[p] = "none" => p # current /\ p # next
      BY <1>1 DEF KInv, Pointers, Known
    <2> QED BY <1>7, <2>1 DEF SwitchInv, FreshFrame
  <1>12. SavedWhere'
    <2>1. current \in Procs => pc[cpu] \notin NullSteps
                               /\ (pc[cpu] \in AfterSet => arg[cpu] = current)
      BY <1>1 DEF SwitchInv, RunningWhere
    <2>2. \A p \in Procs :
            frame'[p] \in Threads =>
                /\ pc[frame'[p]] \notin NullSteps
                /\ pc[frame'[p]] \in AfterSet => arg[frame'[p]] = p
      BY <1>1, <1>7, <2>1 DEF SwitchInv, SavedWhere
    <2> QED BY <1>6, <2>2 DEF SwitchInv, SavedWhere
  <1>13. RunningWhere'
    BY <1>4 DEF RunningWhere, f
  <1> QED BY <1>8, <1>9, <1>10, <1>11, <1>12, <1>13 DEF SwitchInv

LEMMA InterruptKeepsSwitch ==
    ASSUME KInv, SwitchInv, process_on_timer_interrupt
    PROVE  SwitchInv'
  <1> DEFINE saved == IF current \in {NoProc, Idle} THEN frame
                      ELSE [frame EXCEPT ![current] = cpu]
  <1>1. UNCHANGED <<pc, arg, reg>>
    BY DEF process_on_timer_interrupt
  <1>2. PICK next \in Procs :
           /\ scheduler_next(next)
           /\ IF next = current
              THEN /\ frame' = IF current = Idle THEN frame
                               ELSE [saved EXCEPT ![current] = Spent]
                   /\ UNCHANGED <<current, cr3, cpu>>
              ELSE /\ current' = next
                   /\ cr3' = next
                   /\ Resume(saved[next], next, saved)
    BY DEF process_on_timer_interrupt
  <1>3. next \in Known
    BY <1>2, NextIsKnown DEF KInv
  <1>4. cpu \in Threads
    <2>1. isr > Len(sleeping) /\ Len(sleeping) \in Nat
      BY LenProperties DEF process_on_timer_interrupt, KInv, Lists
    <2> QED BY <2>1 DEF KInv, InterruptedThread, FlatTypeOK
  <1>5. /\ saved \in [Procs -> Threads \cup {Spent}]
        /\ \A p \in Procs : /\ p = current /\ p # Idle => saved[p] = cpu
                            /\ p # current \/ p = Idle => saved[p] = frame[p]
    BY <1>4, ProcsAssumption DEF KInv, FlatTypeOK
  <1> HIDE DEF saved
  <1>6. CASE next = current /\ current = Idle
    BY <1>1, <1>2, <1>6, SameKeeps
  <1>7. CASE next = current /\ current # Idle
    <2>1. frame' = [saved EXCEPT ![current] = Spent] /\ UNCHANGED <<current, cpu>>
      BY <1>2, <1>7
    <2> QED BY <1>1, <1>3, <1>5, <1>7, <2>1, PopOwnKeeps
  <1>8. CASE next # current
    <2>1. current' = next /\ Resume(saved[next], next, saved)
      BY <1>2, <1>8
    <2>2. Panic \notin Threads
      BY ThreadsAssumption DEF Threads
    <2>3. frame' = [saved EXCEPT ![next] = Spent]
          /\ (cpu' \in Threads => cpu' = saved[next])
      BY <2>1, <2>2 DEF Resume
    <2>4. saved[next] = frame[next]
      BY <1>2, <1>5, <1>8
    <2>5. \A p \in Procs :
            /\ p = next => frame'[p] = Spent
            /\ p = current /\ p # Idle => frame'[p] = cpu
            /\ p # next /\ (p # current \/ p = Idle) => frame'[p] = frame[p]
      BY <1>5, <1>8, <2>3
    <2> QED BY <1>1, <1>3, <1>4, <1>8, <2>1, <2>3, <2>4, <2>5, PopOtherKeeps
  <1> QED BY <1>6, <1>7, <1>8

---------------------------------------------------------------------------
(* The theorem.                                                            *)

LEMMA InitSwitch == Init => SwitchInv
  <1> SUFFICES ASSUME Init PROVE SwitchInv
    OBVIOUS
  <1>1. /\ frame = [p \in Procs |-> p] /\ cpu = Boot /\ current = NoProc
        /\ reg = [t \in Threads |-> Spent]
    BY DEF Init
  <1>2. Boot \in Threads /\ Boot \notin Procs /\ Idle \in Procs /\ Spent \notin Threads
        /\ \A p \in Procs : p \in Threads
    BY ThreadsAssumption, ProcsAssumption DEF Threads
  <1>3. /\ pc[Boot] = "sched_next" /\ pc[Idle] = "halt"
        /\ \A t \in Threads : t # Boot => pc[t] \in {"halt", "app", "none"}
    <2>0. PICK loaded \in BOOLEAN :
             LET created == IF loaded THEN {Idle, First} ELSE {Idle} IN
             pc = [t \in Threads |-> CASE t = Boot -> "sched_next"
                                       [] t = Idle -> "halt"
                                       [] t \in created \ {Idle} -> "app"
                                       [] OTHER -> "none"]
      BY DEF Init
    <2> DEFINE created == IF loaded THEN {Idle, First} ELSE {Idle}
    <2>1. /\ pc = [t \in Threads |-> CASE t = Boot -> "sched_next"
                                        [] t = Idle -> "halt"
                                        [] t \in created \ {Idle} -> "app"
                                        [] OTHER -> "none"]
          /\ Boot \notin created
      BY <2>0, ThreadsAssumption, ProcsAssumption
    <2> HIDE DEF created
    <2>2. Boot # Idle /\ Idle \in Threads
      BY <1>2
    <2>3. pc[Boot] = "sched_next"
      BY <1>2, <2>1
    <2>4. pc[Idle] = "halt"
      BY <2>1, <2>2
    <2>5. ASSUME NEW t \in Threads, t # Boot, t # Idle PROVE pc[t] \in {"app", "none"}
      <3>1. pc[t] = CASE t = Boot -> "sched_next"
                      [] t = Idle -> "halt"
                      [] t \in created \ {Idle} -> "app"
                      [] OTHER -> "none"
        BY <2>1
      <3>2. CASE t \in created
        BY <2>5, <3>1, <3>2
      <3>3. CASE t \notin created
        BY <2>5, <3>1, <3>3
      <3> QED BY <3>2, <3>3
    <2> QED BY <2>3, <2>4, <2>5
  <1>4. \A t \in Threads : ~ Jumping(t)
    BY <1>3 DEF Jumping
  <1>5. \A p \in Procs : pc[frame[p]] \notin NullSteps /\ pc[frame[p]] \notin AfterSet
    BY <1>1, <1>2, <1>3 DEF NullSteps, AfterSet
  <1>6. pc[cpu] \notin AfterSet
    BY <1>1, <1>3 DEF AfterSet
  <1>7. RunningNotSaved
    BY <1>1, <1>2, <1>4 DEF RunningNotSaved
  <1>8. SavedOnce
    BY <1>1, <1>4 DEF SavedOnce
  <1>9. IdleHalted
    BY <1>1, <1>2, <1>3 DEF IdleHalted
  <1>10. FreshFrame
    BY <1>1 DEF FreshFrame
  <1>11. SavedWhere
    BY <1>4, <1>5 DEF SavedWhere
  <1>12. RunningWhere
    BY <1>1, <1>6 DEF RunningWhere
  <1> QED BY <1>7, <1>8, <1>9, <1>10, <1>11, <1>12 DEF SwitchInv

LEMMA NextSwitch == KInv /\ SwitchInv /\ [Next]_vars => SwitchInv'
  <1> SUFFICES ASSUME KInv, SwitchInv, [Next]_vars PROVE SwitchInv'
    OBVIOUS
  <1>1. CASE TimerInterrupt \/ TickSleeper \/ KeyboardInterrupt \/ UNCHANGED vars
    BY <1>1, SameKeeps DEF TimerInterrupt, TickSleeper, KeyboardInterrupt,
       procVars, vars
  <1>2. ASSUME NEW t \in Procs, AppStep(t) PROVE SwitchInv'
    BY <1>2, AppKeepsSwitch
  <1>3. ASSUME NEW t \in Threads, ScheduleStep(t) PROVE SwitchInv'
    BY <1>3, ScheduleKeepsSwitch
  <1> QED BY <1>1, <1>2, <1>3, InterruptKeepsSwitch DEF Next, Stopped

LEMMA SwitchInvariant == Spec => []SwitchInv
  <1> QED BY InitSwitch, NextSwitch, KernelInvariant, PTL DEF Spec

\* schedule() is executed only while current_process is null, wherever the
\* timer interrupts exit and core_run: its call of context_switch, which would
\* save a frame of another layout in p->rsp, is never reached.
THEOREM ScheduleOnlyFromNull == Spec => []ScheduleFromNull
  <1>1. SwitchInv => ScheduleFromNull
    BY DEF SwitchInv, RunningWhere, ScheduleFromNull, NullSteps
  <1> QED BY <1>1, SwitchInvariant, PTL

---------------------------------------------------------------------------
(* The process that executes.  A thread outside exit and schedule() is the *)
(* process current_process names, in its own address space and on its own, *)
(* allocated, stack.  The inductive invariant.                             *)

\* The steps of a process that is not inside the cleanup of exit or schedule().
OutsideSteps == {"app", "halt", "sleep_add", "wait_add", "yield", "register",
                 "start", "link"} \cup RemovalSteps

\* The steps of the calls that a process makes about itself.
OwnSteps == {"sleep_add", "wait_add"} \cup RemovalSteps \cup ExitSteps

\* The saved context of a process is its own thread's, or that of a thread
\* that was preempted at the end of schedule(), on its way to the process.
OwnContext ==
    /\ \A p \in Procs :
        frame[p] \in Threads /\ pc[frame[p]] \notin AfterSet => frame[p] = p
    /\ \A u \in Threads :
        Jumping(u) /\ reg[u] \in Threads /\ pc[reg[u]] \notin AfterSet
        => reg[u] = arg[u]

\* The thread that executes is that of current_process, in its address space.
RunsOwn ==
    cpu \in Threads =>
        /\ pc[cpu] \notin NullSteps \cup AfterSet => current = cpu
        /\ pc[cpu] \notin NullSteps \cup {"sched_load"} => cr3 = current

\* A thread whose jump_to_first_task has been executed is never run again.
NeverGone ==
    /\ cpu \in Threads => pc[cpu] # "gone"
    /\ \A p \in Procs : frame[p] \in Threads => pc[frame[p]] # "gone"
    /\ \A u \in Threads : Jumping(u) /\ reg[u] \in Threads => pc[reg[u]] # "gone"

\* What a process stands on until it enters exit.
HeldOutside ==
    \A p \in Procs : pc[p] \in OutsideSteps => {"pcb", "stack"} \subseteq held[p]

\* sleep, wait and exit hold the pointer to the process that called them.
OwnCall == \A p \in Procs : pc[p] \in OwnSteps => arg[p] = p

ContextInv == OwnContext /\ RunsOwn /\ NeverGone
HeldInv == HeldOutside /\ OwnCall
RunInv == ContextInv /\ HeldInv

---------------------------------------------------------------------------
(* What the steps of a call do to the thread.                              *)

\* The running thread t goes to step s with pointer a; no context moves.
Moves(t, s, a) ==
    /\ cpu = t
    /\ pc' = [pc EXCEPT ![t] = s]
    /\ arg' = [arg EXCEPT ![t] = a]
    /\ UNCHANGED <<frame, reg, cpu, cr3>>

\* A step of t inside sleep, wait, yield or the creation of a process.
Inner(t) ==
    /\ pc[t] \in OutsideSteps \ {"halt"}
    /\ \E s, a :
        /\ s \in OutsideSteps \ {"halt"} /\ Moves(t, s, a)
        /\ s \in OwnSteps => a = current \/ (a = arg[t] /\ pc[t] \in OwnSteps)
    /\ UNCHANGED <<current, held>>

\* A step of exit: the one that ends the removals, and the ones on
\* current_process null, which give back parts of what the process holds.
ExitFirst(t) ==
    /\ pc[t] \in Unsleeps
    /\ Moves(t, "exit_detach", arg[t])
    /\ UNCHANGED <<current, held>>

ExitOnNull(t) ==
    /\ pc[t] \in ExitSteps
    /\ \E s \in NullSteps \ {"sched_set"} : Moves(t, s, arg[t])
    /\ current' = NoProc
    /\ \E parts \in SUBSET Parts : held' = [held EXCEPT ![arg[t]] = @ \ parts]

LEMMA CallMoves ==
    ASSUME KInv, SwitchInv, NEW t \in Procs, AppStep(t),
           ~ Create(t), ~ CreateNoStack(t)
    PROVE  Inner(t) \/ ExitFirst(t) \/ ExitOnNull(t)
  <1>t. t \in Threads
    BY DEF Threads
  <1>k. arg = [arg EXCEPT ![t] = arg[t]]
    BY <1>t, ArgKept
  <1>o. /\ {"yield", "app", "start", "link"} \cap OwnSteps = {}
        /\ {"sleep_remove", "wait_remove", "exit_remove"} \subseteq RemovalSteps
    BY DEF OwnSteps, ExitSteps, RemovalSteps, Searches, Swaps, Unsleeps
  <1>1. CASE sleep(t) \/ sleep_ms(t)
    <2>1. PICK n : BeginSleep(t, n)
      BY <1>1 DEF sleep, sleep_ms
    <2>2. cpu = t /\ pc[t] = "app"
      BY <1>1 DEF sleep, sleep_ms, Enter, At
    <2>3. Moves(t, "sleep_remove", current) /\ UNCHANGED <<current, held>>
      BY <2>1, <2>2 DEF BeginSleep, Goto, Moves
    <2> QED BY <1>o, <2>2, <2>3 DEF Inner, OutsideSteps
  <1>2. CASE wait(t)
    <2>1. Moves(t, "wait_remove", current) /\ pc[t] = "app" /\ UNCHANGED <<current, held>>
      BY <1>2 DEF wait, Enter, At, Goto, Moves
    <2> QED BY <1>o, <2>1 DEF Inner, OutsideSteps
  <1>3. CASE SearchReady(t) \/ SwapReady(t) \/ SearchSleeping(t) \/ SwapSleeping(t)
    <2>1. /\ cpu = t /\ pc[t] \in RemovalSteps
          /\ UNCHANGED <<frame, reg, cpu, cr3, current, held, arg>>
      BY <1>3, RemovalMoves
    <2>2. PICK s \in RemovalSteps \cup {"sleep_add", "wait_add", "exit_detach"} :
             /\ pc' = [pc EXCEPT ![t] = s]
             /\ s = "exit_detach" => pc[t] \in Unsleeps
      BY <1>3, RemovalMoves
    <2>3. Moves(t, s, arg[t])
      BY <1>k, <2>1, <2>2 DEF Moves
    <2>4. CASE s = "exit_detach"
      BY <2>1, <2>2, <2>3, <2>4 DEF ExitFirst
    <2>5. CASE s # "exit_detach"
      <3>1. "halt" \notin RemovalSteps
        BY DEF RemovalSteps, Searches, Swaps, Unsleeps
      <3>2. s \in OutsideSteps \ {"halt"} /\ pc[t] \in OutsideSteps \ {"halt"}
            /\ pc[t] \in OwnSteps
        BY <2>1, <2>2, <2>5, <3>1 DEF OutsideSteps, OwnSteps
      <3> QED BY <2>1, <2>3, <3>2 DEF Inner
    <2> QED BY <2>4, <2>5
  <1>5. CASE SleepAdd(t) \/ WaitAdd(t)
    <2>1. Moves(t, "yield", arg[t]) /\ pc[t] \in {"sleep_add", "wait_add"}
          /\ UNCHANGED <<current, held>>
      BY <1>5, <1>k DEF SleepAdd, WaitAdd, At, Goto, Moves
    <2> QED BY <1>o, <2>1 DEF Inner, OutsideSteps
  <1>6. CASE Yield(t) \/ process_start(t) \/ Link(t)
    <2>1. (Moves(t, "app", arg[t]) \/ Moves(t, "link", arg[t]))
          /\ pc[t] \in {"yield", "start", "link"} /\ UNCHANGED <<current, held>>
      BY <1>6, <1>k DEF Yield, process_start, Link, At, Goto, Moves
    <2> QED BY <1>o, <2>1 DEF Inner, OutsideSteps
  <1>7. CASE Register(t)
    <2>1. Moves(t, "start", arg[t]) /\ pc[t] = "register" /\ UNCHANGED <<current, held>>
      BY <1>7, <1>k DEF Register, At, Goto, Moves
    <2> QED BY <1>o, <2>1 DEF Inner, OutsideSteps
  <1>8. CASE ExitBegin(t)
    <2>1. Moves(t, "exit_remove", current) /\ pc[t] = "app" /\ UNCHANGED <<current, held>>
      BY <1>8 DEF ExitBegin, Enter, At, Goto, Moves
    <2> QED BY <1>o, <2>1 DEF Inner, OutsideSteps
  <1>n. ASSUME pc[t] \in NullSteps, cpu = t PROVE current = NoProc
    BY <1>t, <1>n DEF SwitchInv, RunningWhere
  <1>h. /\ held \in [Procs -> SUBSET Parts]
        /\ held = [held EXCEPT ![arg[t]] = @ \ {}]
    BY DEF KInv, FlatTypeOK
  <1>s. {"exit_stack", "exit_space", "exit_slot", "sched_next"} \subseteq NullSteps \ {"sched_set"}
    BY DEF NullSteps
  <1>9. CASE ExitDetach(t)
    <2>1. Moves(t, "exit_stack", arg[t]) /\ pc[t] = "exit_detach" /\ current' = NoProc
          /\ held' = held
      BY <1>9, <1>k DEF ExitDetach, At, Goto, Moves
    <2>2. {} \in SUBSET Parts
      OBVIOUS
    <2> QED BY <1>h, <1>s, <2>1, <2>2 DEF ExitOnNull, ExitSteps
  <1>10. CASE ExitStack(t)
    <2>1. Moves(t, "exit_space", arg[t]) /\ pc[t] = "exit_stack" /\ current' = current
          /\ cpu = t /\ held' = [held EXCEPT ![arg[t]] = @ \ {"context", "stack"}]
      BY <1>10, <1>k DEF ExitStack, At, Goto, Moves
    <2>2. current = NoProc /\ {"context", "stack"} \in SUBSET Parts
      BY <1>n, <2>1 DEF NullSteps, Parts
    <2> QED BY <1>s, <2>1, <2>2 DEF ExitOnNull, ExitSteps
  <1>11. CASE ExitSpace(t)
    <2>1. Moves(t, "exit_slot", arg[t]) /\ pc[t] = "exit_space" /\ current' = current
          /\ cpu = t /\ held' = [held EXCEPT ![arg[t]] = @ \ {"space"}]
      BY <1>11, <1>k DEF ExitSpace, At, Goto, Moves
    <2>2. current = NoProc /\ {"space"} \in SUBSET Parts
      BY <1>n, <2>1 DEF NullSteps, Parts
    <2> QED BY <1>s, <2>1, <2>2 DEF ExitOnNull, ExitSteps
  <1>12. CASE ExitSlot(t)
    <2>1. Moves(t, "sched_next", arg[t]) /\ pc[t] = "exit_slot" /\ current' = current
          /\ cpu = t /\ held' = [held EXCEPT ![arg[t]] = @ \ {"pcb"}]
      BY <1>12, <1>k DEF ExitSlot, At, Goto, Moves
    <2>2. current = NoProc /\ {"pcb"} \in SUBSET Parts
      BY <1>n, <2>1 DEF NullSteps, Parts
    <2> QED BY <1>s, <2>1, <2>2 DEF ExitOnNull, ExitSteps
  <1> QED BY <1>1, <1>2, <1>3, <1>5, <1>6, <1>7, <1>8, <1>9, <1>10, <1>11,
             <1>12 DEF AppStep

---------------------------------------------------------------------------
(* Contexts.                                                               *)

\* A step of the running thread t inside a call, which may create a process.
LEMMA CallKeepsContext ==
    ASSUME KInv, SwitchInv, ContextInv, NEW t \in Threads, cpu = t,
           UNCHANGED <<frame, reg, cpu>>,
           pc'[t] \notin {"sched_jump", "gone"},
           \A u \in Threads : u # t =>
                /\ pc'[u] = pc[u] \/ (pc[u] = "none" /\ pc'[u] = "app")
                /\ arg'[u] = arg[u],
           pc'[t] \notin NullSteps \cup AfterSet => current' = t,
           pc'[t] \notin NullSteps \cup {"sched_load"} => cr3' = current'
    PROVE  ContextInv'
  <1>1. \A u \in Threads : Jumping(u)' => u # t /\ Jumping(u) /\ arg'[u] = arg[u]
    BY DEF Jumping
  <1>2. \A p \in Procs : frame[p] # t
    BY DEF SwitchInv, RunningNotSaved
  <1>3. \A u \in Threads : Jumping(u) => reg[u] # t
    BY DEF SwitchInv, RunningNotSaved
  <1>4. \A u \in Threads : u # t => /\ pc'[u] \notin AfterSet => pc[u] \notin AfterSet
                                    /\ pc'[u] = "gone" => pc[u] = "gone"
    BY DEF AfterSet
  <1>5. OwnContext'
    BY <1>1, <1>2, <1>3, <1>4 DEF ContextInv, OwnContext
  <1>6. RunsOwn'
    BY DEF RunsOwn
  <1>7. NeverGone'
    BY <1>1, <1>2, <1>3, <1>4 DEF ContextInv, NeverGone
  <1> QED BY <1>5, <1>6, <1>7 DEF ContextInv

\* A step that leaves contexts, threads and current_process alone.
LEMMA SameKeepsContext ==
    ASSUME ContextInv, UNCHANGED <<frame, reg, cpu, pc, arg, current, cr3>>
    PROVE  ContextInv'
  <1>1. \A u \in Threads : Jumping(u)' = Jumping(u)
    BY DEF Jumping
  <1> QED BY <1>1 DEF ContextInv, OwnContext, RunsOwn, NeverGone

\* The effect of a step of one thread on pc and arg.
LEMMA MovesOne ==
    ASSUME KInv, NEW t \in Threads, NEW s, NEW a,
           pc' = [pc EXCEPT ![t] = s], arg' = [arg EXCEPT ![t] = a]
    PROVE  /\ pc'[t] = s /\ arg'[t] = a
           /\ \A u \in Threads : u # t => pc'[u] = pc[u] /\ arg'[u] = arg[u]
  <1> QED BY DEF KInv, FlatTypeOK, Pointers

LEMMA AppKeepsContext ==
    ASSUME KInv, SwitchInv, ContextInv, NEW t \in Procs, AppStep(t)
    PROVE  ContextInv'
  <1>t. t \in Threads
    BY DEF Threads
  <1>1. CASE Inner(t)
    <2>1. PICK s, a : s \in OutsideSteps \ {"halt"} /\ Moves(t, s, a)
      BY <1>1 DEF Inner
    <2>2. /\ pc'[t] = s
          /\ \A u \in Threads : u # t => pc'[u] = pc[u] /\ arg'[u] = arg[u]
      BY <1>t, <2>1, MovesOne DEF Moves
    <2>3. s \notin {"sched_jump", "gone"}
      BY <2>1 DEF OutsideSteps, RemovalSteps, Searches, Swaps, Unsleeps
    <2>4. pc[t] \notin NullSteps \cup AfterSet
      BY <1>1 DEF Inner, OutsideSteps, NullSteps, AfterSet, RemovalSteps,
         Searches, Swaps, Unsleeps
    <2>5. current = t /\ cr3 = current
      BY <1>t, <2>1, <2>4 DEF Moves, ContextInv, RunsOwn, AfterSet
    <2> QED BY <1>t, <1>1, <2>1, <2>2, <2>3, <2>5, CallKeepsContext DEF Moves, Inner
  <1>2. CASE ExitFirst(t)
    <2>1. /\ pc'[t] = "exit_detach"
          /\ \A u \in Threads : u # t => pc'[u] = pc[u] /\ arg'[u] = arg[u]
      BY <1>t, <1>2, MovesOne DEF Moves, ExitFirst
    <2>2. pc[t] \notin NullSteps \cup AfterSet
      BY <1>2 DEF ExitFirst, NullSteps, AfterSet, Unsleeps
    <2>3. current = t /\ cr3 = current
      BY <1>t, <1>2, <2>2 DEF ExitFirst, Moves, ContextInv, RunsOwn, AfterSet
    <2> QED BY <1>t, <1>2, <2>1, <2>3, CallKeepsContext DEF Moves, ExitFirst
  <1>3. CASE ExitOnNull(t)
    <2>1. PICK s \in NullSteps : Moves(t, s, arg[t])
      BY <1>3 DEF ExitOnNull
    <2>2. /\ pc'[t] = s
          /\ \A u \in Threads : u # t => pc'[u] = pc[u] /\ arg'[u] = arg[u]
      BY <1>t, <2>1, MovesOne DEF Moves
    <2>3. s \notin {"sched_jump", "gone"}
      BY DEF NullSteps
    <2> QED BY <1>t, <2>1, <2>2, <2>3, CallKeepsContext DEF Moves
  <1>4. CASE Create(t)
    <2>1. PICK p \in Unused :
             /\ frame' = [frame EXCEPT ![p] = p]
             /\ arg' = [arg EXCEPT ![t] = p]
             /\ pc' = [pc EXCEPT ![t] = "register", ![p] = "app"]
      BY <1>4 DEF Create
    <2>2. cpu = t /\ pc[t] = "app" /\ UNCHANGED <<reg, cpu, current, cr3>>
      BY <1>4 DEF Create, Enter, At
    <2>3. p \in Procs /\ pc[p] = "none" /\ p # t /\ p \in Threads
      BY <2>1, <2>2 DEF Unused, Threads
    <2>4. /\ frame \in [Procs -> Threads \cup {Spent}] /\ pc \in [Threads -> Steps]
          /\ arg \in [Threads -> Known \cup {NoProc}]
      BY DEF KInv, FlatTypeOK, Pointers
    <2>5. frame[p] = p
      BY <2>3 DEF SwitchInv, FreshFrame
    <2>6. frame' = frame
      BY <2>1, <2>3, <2>4, <2>5
    <2>7. pc'[t] = "register" /\ pc'[p] = "app"
          /\ \A u \in Threads : u # t /\ u # p => pc'[u] = pc[u]
      BY <1>t, <2>1, <2>3, <2>4
    <2>8. \A u \in Threads : u # t => arg'[u] = arg[u]
      BY <2>1, <2>4
    <2>9. \A u \in Threads : u # t =>
                /\ pc'[u] = pc[u] \/ (pc[u] = "none" /\ pc'[u] = "app")
                /\ arg'[u] = arg[u]
      BY <2>3, <2>7, <2>8
    <2>10. current = t /\ cr3 = current
      BY <1>t, <2>2 DEF ContextInv, RunsOwn, NullSteps, AfterSet
    <2> QED BY <1>t, <2>2, <2>6, <2>7, <2>9, <2>10, CallKeepsContext
  <1>5. CASE CreateNoStack(t)
    BY <1>5, SameKeepsContext DEF CreateNoStack
  <1> QED BY <1>1, <1>2, <1>3, <1>4, <1>5, CallMoves

LEMMA LoadKeepsContext ==
    ASSUME KInv, SwitchInv, ContextInv, NEW t \in Threads, ScheduleLoad(t)
    PROVE  ContextInv'
  <1>1. /\ cpu = t /\ pc[t] = "sched_load" /\ pc' = [pc EXCEPT ![t] = "sched_jump"]
        /\ reg' = [reg EXCEPT ![t] = frame[arg[t]]] /\ cr3' = arg[t]
        /\ UNCHANGED <<frame, arg, cpu, current>>
    BY DEF ScheduleLoad, At, Goto
  <1>2. arg[t] \in Procs
    BY <1>1, ArgIsKnown DEF UsesArg
  <1>3. pc'[t] = "sched_jump" /\ \A u \in Threads : u # t => pc'[u] = pc[u]
    BY <1>1 DEF KInv, FlatTypeOK
  <1>4. reg'[t] = frame[arg[t]] /\ \A u \in Threads : u # t => reg'[u] = reg[u]
    BY <1>1 DEF KInv, FlatTypeOK
  <1>5. \A u \in Threads : Jumping(u)' => u = t \/ Jumping(u)
    BY <1>1, <1>3 DEF Jumping
  <1>6. current = arg[t]
    BY <1>1 DEF SwitchInv, RunningWhere, AfterSet
  <1>7. \A p \in Procs : frame[p] # t
    BY <1>1 DEF SwitchInv, RunningNotSaved
  <1>8. \A u \in Threads : u # t /\ Jumping(u) => reg[u] # t
    BY <1>1 DEF SwitchInv, RunningNotSaved
  <1>9. \A p \in Procs :
          /\ frame[p] \in Threads /\ pc'[frame[p]] \notin AfterSet => frame[p] = p
          /\ frame[p] \in Threads => pc'[frame[p]] # "gone"
    BY <1>3, <1>7 DEF ContextInv, OwnContext, NeverGone
  <1>10. \A u \in Threads :
          Jumping(u)' /\ reg'[u] \in Threads =>
              /\ pc'[reg'[u]] \notin AfterSet => reg'[u] = arg[u]
              /\ pc'[reg'[u]] # "gone"
    <2>1. ASSUME NEW u \in Threads, Jumping(u)', reg'[u] \in Threads, u # t
          PROVE  /\ pc'[reg'[u]] \notin AfterSet => reg'[u] = arg[u]
                 /\ pc'[reg'[u]] # "gone"
      BY <1>3, <1>4, <1>5, <1>8, <2>1 DEF ContextInv, OwnContext, NeverGone
    <2> QED BY <1>2, <1>4, <1>9, <2>1
  <1>11. RunsOwn'
    BY <1>1, <1>3, <1>6 DEF RunsOwn, AfterSet
  <1> QED BY <1>1, <1>3, <1>9, <1>10, <1>11 DEF ContextInv, OwnContext, NeverGone

LEMMA JumpKeepsContext ==
    ASSUME KInv, SwitchInv, ContextInv, NEW t \in Threads, ScheduleJump(t)
    PROVE  ContextInv'
  <1> DEFINE f == reg[t]
  <1>1. /\ cpu = t /\ pc[t] = "sched_jump" /\ pc' = [pc EXCEPT ![t] = "gone"]
        /\ frame' = [frame EXCEPT ![arg[t]] = Spent]
        /\ cpu' \in {f, Panic} /\ (cpu' = f => f # Spent)
        /\ UNCHANGED <<reg, arg, current, cr3>>
    BY ThreadsAssumption DEF ScheduleJump, At, Goto, Resume
  <1>2. pc'[t] = "gone" /\ \A u \in Threads : u # t => pc'[u] = pc[u]
    BY <1>1 DEF KInv, FlatTypeOK
  <1>3. \A p \in Procs : frame'[p] = frame[p] \/ frame'[p] = Spent
    BY <1>1 DEF KInv, FlatTypeOK
  <1>4. Jumping(t) /\ f \in Threads \cup {Spent} /\ f # t
        /\ \A p \in Procs : frame[p] # t
    BY <1>1 DEF Jumping, KInv, FlatTypeOK, SwitchInv, RunningNotSaved
  <1>5. Spent \notin Threads /\ Panic \notin Threads
    BY ThreadsAssumption DEF Threads
  <1>6. f \in Threads => /\ pc[f] \notin NullSteps
                         /\ pc[f] \in AfterSet => arg[f] = arg[t]
                         /\ pc[f] \notin AfterSet => f = arg[t]
                         /\ pc[f] # "gone"
    BY <1>4 DEF SwitchInv, SavedWhere, ContextInv, OwnContext, NeverGone
  <1>7. \A u \in Threads : Jumping(u)' => u # t /\ Jumping(u)
    <2>1. ASSUME f \in Threads, pc[f] = "sched_jump", arg[f] = Idle PROVE FALSE
      <3>1. arg[t] = Idle
        BY <1>6, <2>1 DEF AfterSet
      <3>2. f \in {Idle, Spent}
        BY <1>1, <3>1 DEF SwitchInv, IdleHalted
      <3> QED BY <1>5, <2>1, <3>2 DEF SwitchInv, IdleHalted
    <2> QED BY <1>1, <1>2, <1>4, <1>5, <2>1 DEF Jumping
  <1>8. \A u \in Threads : Jumping(u) => reg[u] # t
    BY <1>1 DEF SwitchInv, RunningNotSaved
  <1>9. current = arg[t] /\ cr3 = current
    BY <1>1 DEF SwitchInv, RunningWhere, AfterSet, ContextInv, RunsOwn, NullSteps
  <1> HIDE DEF f
  <1>10. OwnContext'
    BY <1>1, <1>2, <1>3, <1>4, <1>5, <1>7, <1>8 DEF ContextInv, OwnContext
  <1>11. cpu' \in Threads => cpu' = f /\ f \in Threads /\ f # t /\ pc'[f] = pc[f]
    BY <1>1, <1>2, <1>4, <1>5
  <1>12. RunsOwn'
    BY <1>1, <1>6, <1>9, <1>11 DEF RunsOwn
  <1>13. NeverGone'
    <2>1. \A p \in Procs : frame'[p] \in Threads => pc'[frame'[p]] # "gone"
      BY <1>2, <1>3, <1>4, <1>5 DEF ContextInv, NeverGone
    <2>2. \A u \in Threads : Jumping(u)' /\ reg[u] \in Threads => pc'[reg[u]] # "gone"
      BY <1>2, <1>7, <1>8 DEF ContextInv, NeverGone
    <2> QED BY <1>1, <1>6, <1>11, <2>1, <2>2 DEF NeverGone
  <1> QED BY <1>10, <1>12, <1>13 DEF ContextInv

LEMMA ScheduleKeepsContext ==
    ASSUME KInv, SwitchInv, ContextInv, NEW t \in Threads, ScheduleStep(t)
    PROVE  ContextInv'
  <1>1. CASE ScheduleNext(t)
    <2>1. PICK next : arg' = [arg EXCEPT ![t] = next]
      BY <1>1 DEF ScheduleNext
    <2>2. /\ cpu = t /\ pc' = [pc EXCEPT ![t] = "sched_set"]
          /\ UNCHANGED <<frame, reg, cpu>>
      BY <1>1 DEF ScheduleNext, At, Goto
    <2>3. "sched_set" \in NullSteps
      BY DEF NullSteps
    <2>4. pc'[t] = "sched_set"
          /\ \A u \in Threads : u # t => pc'[u] = pc[u] /\ arg'[u] = arg[u]
      BY <2>1, <2>2, MovesOne
    <2> QED BY <2>2, <2>3, <2>4, CallKeepsContext
  <1>2. CASE ScheduleSet(t)
    <2>1. /\ cpu = t /\ pc' = [pc EXCEPT ![t] = "sched_load"] /\ arg' = arg
          /\ UNCHANGED <<frame, reg, cpu>>
      BY <1>2 DEF ScheduleSet, At, Goto
    <2>2. "sched_load" \in AfterSet
      BY DEF AfterSet
    <2>3. pc'[t] = "sched_load" /\ \A u \in Threads : u # t => pc'[u] = pc[u]
      BY <2>1 DEF KInv, FlatTypeOK
    <2> QED BY <2>1, <2>2, <2>3, CallKeepsContext
  <1> QED BY <1>1, <1>2, LoadKeepsContext, JumpKeepsContext DEF ScheduleStep

\* The timer interrupt pops the frame of the process it has chosen.
LEMMA InterruptKeepsContext ==
    ASSUME KInv, SwitchInv, ContextInv, process_on_timer_interrupt
    PROVE  ContextInv'
  <1> DEFINE saved == IF current \in {NoProc, Idle} THEN frame
                      ELSE [frame EXCEPT ![current] = cpu]
  <1>1. UNCHANGED <<pc, arg, reg>>
    BY DEF process_on_timer_interrupt
  <1>2. PICK next \in Procs :
           /\ scheduler_next(next)
           /\ IF next = current
              THEN /\ frame' = IF current = Idle THEN frame
                               ELSE [saved EXCEPT ![current] = Spent]
                   /\ UNCHANGED <<current, cr3, cpu>>
              ELSE /\ current' = next
                   /\ cr3' = next
                   /\ Resume(saved[next], next, saved)
    BY DEF process_on_timer_interrupt
  <1>3. cpu \in Threads
    <2>1. isr > Len(sleeping) /\ Len(sleeping) \in Nat
      BY LenProperties DEF process_on_timer_interrupt, KInv, Lists
    <2> QED BY <2>1 DEF KInv, InterruptedThread, FlatTypeOK
  <1>4. Spent \notin Threads /\ Panic \notin Threads /\ NoProc \notin Procs
        /\ Idle \in Procs /\ Idle \in Threads
    BY ThreadsAssumption, ProcsAssumption DEF Threads
  <1>5. /\ saved \in [Procs -> Threads \cup {Spent}]
        /\ \A p \in Procs :
             \/ saved[p] = frame[p]
             \/ p = current /\ p # Idle /\ saved[p] = cpu
    BY <1>3, <1>4 DEF KInv, FlatTypeOK
  <1>6. next # current => saved[next] = frame[next]
    BY <1>5
  <1> HIDE DEF saved
  <1>7. \A p \in Procs :
          \/ frame'[p] = frame[p]
          \/ frame'[p] = Spent
          \/ p = current /\ frame'[p] = cpu
    BY <1>2, <1>5 DEF Resume
  <1>8. \/ cpu' = cpu /\ UNCHANGED <<current, cr3>>
        \/ cpu' = frame[next] /\ current' = next /\ cr3' = next
        \/ cpu' = Panic
    BY <1>2, <1>6 DEF Resume
  <1>9. current \in Procs => /\ pc[cpu] \notin NullSteps
                             /\ pc[cpu] \notin AfterSet => cpu = current
                             /\ pc[cpu] # "gone"
    BY <1>3, <1>4 DEF SwitchInv, RunningWhere, ContextInv, RunsOwn, NeverGone
  <1>10. \A p \in Procs :
          frame'[p] \in Threads =>
              /\ pc[frame'[p]] \notin AfterSet => frame'[p] = p
              /\ pc[frame'[p]] # "gone"
    BY <1>4, <1>7, <1>9 DEF ContextInv, OwnContext, NeverGone
  <1>11. \A u \in Threads : Jumping(u)' => Jumping(u)
    <2>1. ASSUME cpu' = frame[next], frame[next] \in Threads,
                 pc[frame[next]] = "sched_jump", arg[frame[next]] = Idle
          PROVE  FALSE
      <3>1. next = Idle
        BY <2>1 DEF SwitchInv, SavedWhere, AfterSet
      <3>2. frame[next] \in {Idle, Spent} /\ pc[Idle] = "halt"
        BY <3>1 DEF SwitchInv, IdleHalted
      <3> QED BY <1>4, <2>1, <3>2
    <2> QED BY <1>1, <1>4, <1>8, <2>1 DEF Jumping
  <1>12. frame[next] \in Threads =>
              /\ pc[frame[next]] \notin AfterSet => frame[next] = next
              /\ pc[frame[next]] # "gone"
    BY DEF ContextInv, OwnContext, NeverGone
  <1>13. OwnContext'
    BY <1>1, <1>10, <1>11 DEF ContextInv, OwnContext
  <1>14. RunsOwn'
    <2>1. CASE cpu' = cpu /\ UNCHANGED <<current, cr3>>
      BY <1>1, <2>1 DEF ContextInv, RunsOwn
    <2>2. CASE cpu' = frame[next] /\ current' = next /\ cr3' = next
      BY <1>1, <1>12, <2>2 DEF RunsOwn
    <2> QED BY <1>4, <1>8, <2>1, <2>2 DEF RunsOwn
  <1>15. NeverGone'
    BY <1>1, <1>4, <1>8, <1>10, <1>11, <1>12 DEF ContextInv, NeverGone
  <1> QED BY <1>13, <1>14, <1>15 DEF ContextInv

LEMMA NextContext == KInv /\ SwitchInv /\ ContextInv /\ [Next]_vars => ContextInv'
  <1> SUFFICES ASSUME KInv, SwitchInv, ContextInv, [Next]_vars PROVE ContextInv'
    OBVIOUS
  <1>1. CASE TimerInterrupt \/ TickSleeper \/ KeyboardInterrupt \/ UNCHANGED vars
    BY <1>1, SameKeepsContext DEF TimerInterrupt, TickSleeper, KeyboardInterrupt,
       procVars, vars
  <1>2. ASSUME NEW t \in Procs, AppStep(t) PROVE ContextInv'
    BY <1>2, AppKeepsContext
  <1>3. ASSUME NEW t \in Threads, ScheduleStep(t) PROVE ContextInv'
    BY <1>3, ScheduleKeepsContext
  <1> QED BY <1>1, <1>2, <1>3, InterruptKeepsContext DEF Next, Stopped

---------------------------------------------------------------------------
(* What a process holds.                                                   *)

\* A step of one thread that gives nothing back.
LEMMA CallKeepsHeld ==
    ASSUME KInv, HeldInv, NEW t \in Threads, NEW s, NEW a,
           pc' = [pc EXCEPT ![t] = s], arg' = [arg EXCEPT ![t] = a], held' = held,
           s \in OutsideSteps /\ t \in Procs => pc[t] \in OutsideSteps,
           s \in OwnSteps => a = t
    PROVE  HeldInv'
  <1>1. /\ pc'[t] = s /\ arg'[t] = a
        /\ \A u \in Threads : u # t => pc'[u] = pc[u] /\ arg'[u] = arg[u]
    BY MovesOne
  <1>2. \A p \in Procs : p \in Threads
    BY DEF Threads
  <1> QED BY <1>1, <1>2 DEF HeldInv, HeldOutside, OwnCall

LEMMA AppKeepsHeld ==
    ASSUME KInv, SwitchInv, RunInv, NEW t \in Procs, AppStep(t)
    PROVE  HeldInv'
  <1>t. t \in Threads /\ \A p \in Procs : p \in Threads
    BY DEF Threads
  <1>i. HeldInv
    BY DEF RunInv
  <1>o. ASSUME cpu = t, pc[t] \in OutsideSteps PROVE current = t
    BY <1>t, <1>o DEF RunInv, ContextInv, RunsOwn, OutsideSteps, NullSteps,
       AfterSet, RemovalSteps, Searches, Swaps, Unsleeps
  <1>1. CASE Inner(t)
    <2>1. PICK s, a :
             /\ s \in OutsideSteps \ {"halt"} /\ Moves(t, s, a)
             /\ s \in OwnSteps => a = current \/ (a = arg[t] /\ pc[t] \in OwnSteps)
      BY <1>1 DEF Inner
    <2>2. s \in OwnSteps => a = t
      BY <1>o, <1>1, <2>1 DEF Inner, Moves, RunInv, HeldInv, OwnCall
    <2> QED BY <1>t, <1>i, <1>1, <2>1, <2>2, CallKeepsHeld DEF Inner, Moves
  <1>2. CASE ExitFirst(t)
    <2>1. Moves(t, "exit_detach", arg[t]) /\ held' = held /\ pc[t] \in Unsleeps
      BY <1>2 DEF ExitFirst
    <2>2. arg[t] = t
      BY <2>1 DEF RunInv, HeldInv, OwnCall, OwnSteps, RemovalSteps
    <2>3. "exit_detach" \notin OutsideSteps
      BY DEF OutsideSteps, RemovalSteps, Searches, Swaps, Unsleeps
    <2> QED BY <1>t, <1>i, <2>1, <2>2, <2>3, CallKeepsHeld DEF Moves
  <1>3. CASE ExitOnNull(t)
    <2>1. PICK s \in NullSteps \ {"sched_set"} : Moves(t, s, arg[t])
      BY <1>3 DEF ExitOnNull
    <2>2. PICK parts \in SUBSET Parts : held' = [held EXCEPT ![arg[t]] = @ \ parts]
      BY <1>3 DEF ExitOnNull
    <2>3. arg[t] = t
      BY <1>3 DEF ExitOnNull, RunInv, HeldInv, OwnCall, OwnSteps
    <2>4. /\ pc'[t] = s /\ arg'[t] = t
          /\ \A u \in Threads : u # t => pc'[u] = pc[u] /\ arg'[u] = arg[u]
      BY <1>t, <2>1, <2>3, MovesOne DEF Moves
    <2>5. s \notin OutsideSteps
      BY DEF OutsideSteps, NullSteps, RemovalSteps, Searches, Swaps, Unsleeps
    <2>6. \A p \in Procs : p # t => held'[p] = held[p]
      BY <2>2, <2>3 DEF KInv, FlatTypeOK
    <2> QED BY <1>t, <2>4, <2>5, <2>6 DEF RunInv, HeldInv, HeldOutside, OwnCall
  <1>4. CASE Create(t)
    <2>1. PICK p \in Unused :
             /\ held' = [held EXCEPT ![p] = Parts]
             /\ arg' = [arg EXCEPT ![t] = p]
             /\ pc' = [pc EXCEPT ![t] = "register", ![p] = "app"]
      BY <1>4 DEF Create
    <2>2. pc[t] = "app"
      BY <1>4 DEF Create, Enter, At
    <2>3. p \in Procs /\ p \in Threads /\ p # t
      BY <2>1, <2>2 DEF Unused, Threads
    <2>4. pc'[t] = "register" /\ pc'[p] = "app"
          /\ \A u \in Threads : u # t /\ u # p => pc'[u] = pc[u]
      BY <1>t, <2>1, <2>3 DEF KInv, FlatTypeOK
    <2>5. \A u \in Threads : u # t => arg'[u] = arg[u]
      BY <2>1 DEF KInv, Pointers
    <2>6. held'[p] = Parts /\ \A q \in Procs : q # p => held'[q] = held[q]
      BY <2>1, <2>3 DEF KInv, FlatTypeOK
    <2>7. {"pcb", "stack"} \subseteq Parts /\ "app" \in OutsideSteps
          /\ "app" \notin OwnSteps /\ "register" \notin OwnSteps
      BY DEF Parts, OutsideSteps, OwnSteps, ExitSteps, RemovalSteps, Searches,
         Swaps, Unsleeps
    <2> QED BY <1>t, <2>2, <2>3, <2>4, <2>5, <2>6, <2>7
            DEF RunInv, HeldInv, HeldOutside, OwnCall
  <1>5. CASE CreateNoStack(t)
    <2>1. PICK p \in Unused : held' = [held EXCEPT ![p] = {"space"}]
      BY <1>5 DEF CreateNoStack
    <2>2. pc[p] = "none" /\ UNCHANGED <<pc, arg>>
      BY <1>5, <2>1 DEF CreateNoStack, Unused
    <2>3. \A q \in Procs : q # p => held'[q] = held[q]
      BY <2>1 DEF KInv, FlatTypeOK
    <2>4. "none" \notin OutsideSteps
      BY DEF OutsideSteps, RemovalSteps, Searches, Swaps, Unsleeps
    <2> QED BY <2>2, <2>3, <2>4 DEF RunInv, HeldInv, HeldOutside, OwnCall
  <1> QED BY <1>1, <1>2, <1>3, <1>4, <1>5, CallMoves

LEMMA ScheduleKeepsHeld ==
    ASSUME KInv, HeldInv, NEW t \in Threads, ScheduleStep(t)
    PROVE  HeldInv'
  <1>1. \E s, a :
            /\ s \in {"sched_set", "sched_load", "sched_jump", "gone"}
            /\ pc' = [pc EXCEPT ![t] = s]
            /\ arg' = [arg EXCEPT ![t] = a]
            /\ held' = held
    BY ArgKept DEF ScheduleStep, ScheduleNext, ScheduleSet, ScheduleLoad,
       ScheduleJump, Goto
  <1>2. \A s \in {"sched_set", "sched_load", "sched_jump", "gone"} :
            s \notin OutsideSteps /\ s \notin OwnSteps
    BY DEF OutsideSteps, OwnSteps, ExitSteps, RemovalSteps, Searches, Swaps,
       Unsleeps
  <1> QED BY <1>1, <1>2, CallKeepsHeld

LEMMA NextHeld == KInv /\ SwitchInv /\ RunInv /\ [Next]_vars => HeldInv'
  <1> SUFFICES ASSUME KInv, SwitchInv, RunInv, [Next]_vars PROVE HeldInv'
    OBVIOUS
  <1>1. CASE TimerInterrupt \/ TickSleeper \/ KeyboardInterrupt
             \/ process_on_timer_interrupt \/ UNCHANGED vars
    <2>1. UNCHANGED <<pc, arg, held>>
      BY <1>1 DEF TimerInterrupt, TickSleeper, KeyboardInterrupt,
         process_on_timer_interrupt, procVars, vars
    <2> QED BY <2>1 DEF RunInv, HeldInv, HeldOutside, OwnCall
  <1>2. ASSUME NEW t \in Procs, AppStep(t) PROVE HeldInv'
    BY <1>2, AppKeepsHeld
  <1>3. ASSUME NEW t \in Threads, ScheduleStep(t) PROVE HeldInv'
    BY <1>3, ScheduleKeepsHeld DEF RunInv
  <1> QED BY <1>1, <1>2, <1>3 DEF Next, Stopped

---------------------------------------------------------------------------
(* The theorem.                                                            *)

LEMMA InitRun == Init => RunInv
  <1> SUFFICES ASSUME Init PROVE RunInv
    OBVIOUS
  <1>1. PICK loaded \in BOOLEAN :
          LET created == IF loaded THEN {Idle, First} ELSE {Idle} IN
          /\ held = [p \in Procs |-> CASE p = Idle -> Parts \ {"context"}
                                       [] p \in created \ {Idle} -> Parts
                                       [] OTHER -> {}]
          /\ pc = [t \in Threads |-> CASE t = Boot -> "sched_next"
                                       [] t = Idle -> "halt"
                                       [] t \in created \ {Idle} -> "app"
                                       [] OTHER -> "none"]
    BY DEF Init
  <1> DEFINE created == IF loaded THEN {Idle, First} ELSE {Idle}
  <1>2. /\ held = [p \in Procs |-> CASE p = Idle -> Parts \ {"context"}
                                     [] p \in created \ {Idle} -> Parts
                                     [] OTHER -> {}]
        /\ pc = [t \in Threads |-> CASE t = Boot -> "sched_next"
                                     [] t = Idle -> "halt"
                                     [] t \in created \ {Idle} -> "app"
                                     [] OTHER -> "none"]
    BY <1>1
  <1>3. /\ frame = [p \in Procs |-> p] /\ cpu = Boot
        /\ Boot \in Threads /\ Boot \notin Procs /\ Idle \in Procs
        /\ Boot \notin created /\ \A p \in Procs : p \in Threads
    BY ThreadsAssumption, ProcsAssumption DEF Init, Threads
  <1> HIDE DEF created
  <1>4. pc[Boot] = "sched_next"
    BY <1>2, <1>3
  <1>5. ASSUME NEW p \in Procs
        PROVE  /\ pc[p] \in {"halt", "app", "none"}
               /\ pc[p] # "none" => {"pcb", "stack"} \subseteq held[p]
    <2>1. CASE p = Idle
      BY <1>2, <1>3, <2>1 DEF Parts
    <2>2. CASE p # Idle /\ p \in created
      <3>1. pc[p] = "app" /\ held[p] = Parts
        BY <1>2, <1>3, <2>2
      <3> QED BY <3>1 DEF Parts
    <2>3. CASE p # Idle /\ p \notin created
      <3>1. pc[p] = "none"
        BY <1>2, <1>3, <2>3
      <3> QED BY <3>1
    <2> QED BY <2>1, <2>2, <2>3
  <1>6. \A t \in Threads : ~ Jumping(t)
    BY <1>4, <1>5 DEF Jumping, Threads
  <1>7. OwnContext /\ NeverGone
    BY <1>3, <1>4, <1>5, <1>6 DEF OwnContext, NeverGone
  <1>8. RunsOwn
    BY <1>3, <1>4 DEF RunsOwn, NullSteps
  <1>9. HeldOutside
    BY <1>5 DEF HeldOutside, OutsideSteps, RemovalSteps, Searches, Swaps, Unsleeps
  <1>10. OwnCall
    BY <1>5 DEF OwnCall, OwnSteps, ExitSteps, RemovalSteps, Searches, Swaps,
       Unsleeps
  <1> QED BY <1>7, <1>8, <1>9, <1>10 DEF RunInv, ContextInv, HeldInv

LEMMA RunInvariant == Spec => []RunInv
  <1>1. KInv /\ SwitchInv /\ RunInv /\ [Next]_vars => RunInv'
    BY NextContext, NextHeld DEF RunInv
  <1> QED BY <1>1, InitRun, KernelInvariant, SwitchInvariant, PTL DEF Spec

LEMMA RunInvMeaning == KInv /\ RunInv => RunsAsItself
  <1> SUFFICES ASSUME KInv, RunInv, cpu \in Procs,
                      pc[cpu] \notin ExitSteps \cup SchedSteps
               PROVE  current = cpu /\ cr3 = cpu /\ {"pcb", "stack"} \subseteq held[cpu]
    BY DEF RunsAsItself, Live
  <1>1. cpu \in Threads
    BY DEF Threads
  <1>2. pc[cpu] \notin NullSteps \cup AfterSet
    BY DEF NullSteps, AfterSet, ExitSteps, SchedSteps
  <1>3. current = cpu /\ cr3 = cpu
    BY <1>1, <1>2 DEF RunInv, ContextInv, RunsOwn, AfterSet
  <1>4. pc[cpu] # "none"
    BY <1>1, <1>2, <1>3, RunningIsKnown DEF Known
  <1>5. pc[cpu] \in Steps /\ pc[cpu] # "gone"
    BY <1>1 DEF KInv, FlatTypeOK, RunInv, ContextInv, NeverGone
  <1>6. pc[cpu] \in OutsideSteps
    BY <1>4, <1>5 DEF Steps, OutsideSteps, RemovalSteps
  <1> QED BY <1>3, <1>6 DEF RunInv, HeldInv, HeldOutside

\* A thread that executes outside exit and schedule() is the one that
\* current_process names, runs in its own address space and on a stack that is
\* still allocated, wherever the timer interrupts exit, schedule() and the
\* other calls (process_on_timer_interrupt, schedule, process_exit_current).
THEOREM AlwaysRunsAsItself == Spec => []RunsAsItself
  <1> QED BY RunInvariant, RunInvMeaning, KernelInvariant, PTL

=============================================================================
