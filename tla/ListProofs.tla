----------------------------- MODULE ListProofs -----------------------------
(***************************************************************************)
(* Proof about the lists of module Kernel, for every number of processes   *)
(* and for as long as no removal from ready_list falls inside another one: *)
(* no process is linked twice, whatever the timer and the keyboard         *)
(* interrupt; none is linked while it is inside exit or the unlinked part  *)
(* of sleep and wait, so that nothing points at a freed process_t; and, as *)
(* long as no list is full, every other started process is linked.         *)
(***************************************************************************)
EXTENDS SwitchProofs, FiniteSetTheorems

---------------------------------------------------------------------------
(* The inductive invariant.                                                *)

NoRepeat(list) == \A i, j \in DOMAIN list : list[i] = list[j] => i = j

\* No two links to the same process.
Apart ==
    /\ NoRepeat(ready) /\ NoRepeat(sleeping) /\ NoRepeat(waiting)
    /\ Elems(ready) \cap Elems(sleeping) = {}
    /\ Elems(ready) \cap Elems(waiting) = {}
    /\ Elems(sleeping) \cap Elems(waiting) = {}

\* Where a process may be that is in a list.
LinkedSteps == {"app", "yield", "register", "start", "link",
                "sleep_remove", "wait_remove", "exit_remove",
                "sleep_swap", "wait_swap", "exit_swap"}

ListedWhere == \A p \in Procs : InSomeList(p) => pc[p] \in LinkedSteps

\* A process that is blocked is on its way into yield, or past it: then it
\* has lost the CPU, or is about to in the interrupt that yield has raised.
BlockedWhere ==
    \A p \in Elems(sleeping) \cup Elems(waiting) :
        pc[p] = "yield" \/ (pc[p] = "app" /\ (cpu # p \/ isr # 0))

\* What schedule() has picked stays in the ready list until it is resumed.
PickIsReady ==
    cpu \in Threads /\ pc[cpu] \in {"sched_set"} \cup AfterSet
    => arg[cpu] = Idle \/ arg[cpu] \in Elems(ready)

CreateSteps == {"register", "start", "link"}

\* A process that has been created and not started is in no list, so it does
\* not run either, and one thread only is about to start it.
StartsOne ==
    \A u, v \in Threads :
        pc[u] \in CreateSteps /\ pc[v] \in CreateSteps /\ arg[u] = arg[v] => u = v

StartingWhere ==
    \A u \in Threads :
        pc[u] \in CreateSteps =>
            /\ pc[arg[u]] = "app"
            /\ ~ InSomeList(arg[u])
            /\ arg[u] \notin {cpu, current}

\* Where a removal stands: it is about to overwrite its process, or it has
\* passed slots that hold others.  Nobody inside exit is in the sleep list.
Removals ==
    \A u \in Procs :
        /\ pc[u] \in Swaps => slot[u] \in DOMAIN ready /\ ready[slot[u]] = u
        /\ pc[u] \in Searches => \A j \in DOMAIN ready : j < slot[u] => ready[j] # u
        /\ pc[u] \notin RemovalSteps => slot[u] = 1
        /\ pc[u] # "exit_unsleep_swap"

ListInv == /\ Apart
           /\ ListedWhere
           /\ BlockedWhere
           /\ PickIsReady
           /\ StartsOne
           /\ StartingWhere
           /\ Removals

\* The lists are as they should be until one removal is overtaken by another.
ListsHold == ~ overtaken => ListInv

\* current_process and the process table name processes that exist, and a
\* process is in no slot but that of its pid.
CurrentLive == current # NoProc => Live(current)

TableLive ==
    \A i \in Pids : table[i] # NoProc => pid[table[i]] = i /\ Live(table[i])

LiveInv == CurrentLive /\ TableLive

LiveHolds == ~ overtaken => LiveInv

---------------------------------------------------------------------------
(* The primitives on lists without repetition.                             *)

\* The swap of scheduler_remove and scheduler_tick takes out one element.
LEMMA SwapRemoveElems ==
    ASSUME NEW S, NEW list \in Seq(S), NoRepeat(list), NEW i \in DOMAIN list
    PROVE  /\ NoRepeat(SwapRemove(list, i))
           /\ Elems(SwapRemove(list, i)) = Elems(list) \ {list[i]}
  <1> DEFINE n == Len(list)
             new == SwapRemove(list, i)
  <1>1. n \in Nat /\ DOMAIN list = 1 .. n
    BY LenProperties
  <1>2. i \in 1 .. n /\ i \in Int /\ n \in 1 .. n
    BY <1>1
  <1>3. DOMAIN new = 1 .. n - 1
        /\ \A j \in 1 .. n - 1 : new[j] = IF j = i THEN list[n] ELSE list[j]
    BY DEF SwapRemove
  <1> HIDE DEF n, new
  <1>4. \A j, k \in 1 .. n : list[j] = list[k] => j = k
    BY <1>1 DEF NoRepeat
  <1>5. \A j \in 1 .. n - 1 : j \in 1 .. n /\ j # n
    BY <1>1
  <1>6. NoRepeat(new)
    BY <1>2, <1>3, <1>4, <1>5 DEF NoRepeat
  <1>7. \A j \in 1 .. n - 1 : new[j] \in Elems(list) \ {list[i]}
    BY <1>1, <1>2, <1>3, <1>4, <1>5 DEF Elems
  <1>8. ASSUME NEW j \in 1 .. n, j # i PROVE \E k \in 1 .. n - 1 : new[k] = list[j]
    <2>1. CASE j = n
      <3>1. i \in 1 .. n - 1
        BY <1>1, <1>2, <1>8, <2>1
      <3> QED BY <1>3, <2>1, <3>1
    <2>2. CASE j # n
      <3>1. j \in 1 .. n - 1
        BY <1>1, <2>2
      <3> QED BY <1>3, <1>8, <3>1
    <2> QED BY <2>1, <2>2
  <1>9. Elems(new) = Elems(list) \ {list[i]}
    BY <1>1, <1>2, <1>3, <1>4, <1>7, <1>8 DEF Elems
  <1> QED BY <1>6, <1>9 DEF new

LEMMA AppendElems ==
    ASSUME NEW S, NEW list \in Seq(S), NoRepeat(list), NEW p, p \notin Elems(list)
    PROVE  NoRepeat(Append(list, p)) /\ Elems(Append(list, p)) = Elems(list) \cup {p}
  <1> DEFINE n == Len(list)
             new == Append(list, p)
  <1>1. n \in Nat /\ DOMAIN list = 1 .. n
    BY LenProperties
  <1>2. list \in Seq(S \cup {p}) /\ p \in S \cup {p}
    BY SeqMonotonic
  <1>3. new \in Seq(S \cup {p}) /\ Len(new) = n + 1
        /\ (\A i \in 1 .. n : new[i] = list[i]) /\ new[n + 1] = p
    BY <1>2
  <1>4. DOMAIN new = 1 .. n + 1
    BY <1>3, LenProperties
  <1> HIDE DEF n, new
  <1>5. \A i \in 1 .. n + 1 : i \in 1 .. n \/ i = n + 1
    BY <1>1
  <1>6. n + 1 \in 1 .. n + 1 /\ \A i \in 1 .. n : i \in 1 .. n + 1
    BY <1>1
  <1>7. \A i \in 1 .. n : list[i] # p
    BY <1>1 DEF Elems
  <1>8. NoRepeat(new)
    BY <1>1, <1>3, <1>4, <1>5, <1>7 DEF NoRepeat
  <1>9. Elems(new) = Elems(list) \cup {p}
    BY <1>1, <1>3, <1>4, <1>5, <1>6 DEF Elems
  <1> QED BY <1>8, <1>9 DEF new

LEMMA TailElems ==
    ASSUME NEW S, NEW list \in Seq(S), NoRepeat(list), list # << >>
    PROVE  /\ NoRepeat(Tail(list))
           /\ Elems(Tail(list)) = Elems(list) \ {Head(list)}
           /\ Head(list) \in Elems(list)
  <1> DEFINE n == Len(list)
             new == Tail(list)
  <1>1. n \in Nat \ {0} /\ DOMAIN list = 1 .. n
    BY LenProperties, EmptySeq
  <1>2. new \in Seq(S) /\ Len(new) = n - 1 /\ \A i \in 1 .. n - 1 : new[i] = list[i + 1]
    BY HeadTailProperties
  <1>3. DOMAIN new = 1 .. n - 1
    BY <1>2, LenProperties
  <1>4. Head(list) = list[1]
    OBVIOUS
  <1> HIDE DEF n, new
  <1>5. \A i \in 1 .. n - 1 : i + 1 \in 1 .. n /\ i + 1 # 1
    BY <1>1
  <1>6. ASSUME NEW i \in 1 .. n, i # 1 PROVE \E k \in 1 .. n - 1 : new[k] = list[i]
    <2>1. i - 1 \in 1 .. n - 1 /\ (i - 1) + 1 = i
      BY <1>1, <1>6
    <2> QED BY <1>2, <2>1
  <1>7. \A i, j \in 1 .. n : list[i] = list[j] => i = j
    BY <1>1 DEF NoRepeat
  <1>8. \A i, j \in 1 .. n - 1 : i + 1 = j + 1 => i = j
    BY <1>1
  <1>9. NoRepeat(new)
    BY <1>2, <1>3, <1>5, <1>7, <1>8 DEF NoRepeat
  <1>10. 1 \in 1 .. n
    BY <1>1
  <1>a. \A k \in 1 .. n - 1 : new[k] \in Elems(list) \ {list[1]}
    BY <1>1, <1>2, <1>5, <1>7, <1>10 DEF Elems
  <1>b. \A x \in Elems(list) \ {list[1]} : x \in Elems(new)
    BY <1>1, <1>3, <1>6 DEF Elems
  <1>c. \A x \in Elems(new) : x \in Elems(list) \ {list[1]}
    BY <1>3, <1>a DEF Elems
  <1>11. Elems(new) = Elems(list) \ {list[1]}
    BY <1>b, <1>c
  <1>12. list[1] \in Elems(list)
    BY <1>1, <1>10 DEF Elems
  <1> QED BY <1>4, <1>9, <1>11, <1>12 DEF new

\* scheduler_add links a process that was in no list, or drops it.
LEMMA AddElems ==
    ASSUME NEW S, ready \in Seq(S), NoRepeat(ready), NEW p, p \notin Elems(ready),
           scheduler_add(p)
    PROVE  /\ NoRepeat(ready')
           /\ \/ Elems(ready') = Elems(ready) \cup {p}
              \/ Len(ready) >= MaxProcesses /\ Elems(ready') = Elems(ready)
  <1>1. CASE Len(ready) >= MaxProcesses
    BY <1>1 DEF scheduler_add
  <1>2. CASE ~ (Len(ready) >= MaxProcesses)
    <2>1. ready' = Append(ready, p)
      BY <1>2 DEF scheduler_add
    <2>2. NoRepeat(Append(ready, p)) /\ Elems(Append(ready, p)) = Elems(ready) \cup {p}
      BY AppendElems
    <2> QED BY <2>1, <2>2
  <1> QED BY <1>1, <1>2

---------------------------------------------------------------------------
(* What the invariant says of the thread that runs.                        *)

\* The elements of the lists are processes that have been created.
LEMMA ElemsKnown ==
    ASSUME KInv
    PROVE  /\ \A p : InSomeList(p) => p \in Known /\ p \in Procs /\ p \in Threads
           /\ Elems(ready) \subseteq Known
  <1>1. /\ ready \in [1 .. Len(ready) -> NotBehind] /\ DOMAIN ready = 1 .. Len(ready)
        /\ sleeping \in [1 .. Len(sleeping) -> Known] /\ DOMAIN sleeping = 1 .. Len(sleeping)
        /\ waiting \in [1 .. Len(waiting) -> Known] /\ DOMAIN waiting = 1 .. Len(waiting)
    BY LenProperties DEF KInv, Lists
  <1>2. Elems(ready) \subseteq Known /\ Elems(sleeping) \subseteq Known
        /\ Elems(waiting) \subseteq Known
    BY <1>1 DEF Elems, NotBehind
  <1> QED BY <1>2 DEF InSomeList, Known, Threads

\* A thread that is not at a linked step is in no list, in particular that of
\* the idle process is not.
LEMMA NotListed ==
    ASSUME KInv, ListInv, NEW t \in Threads, pc[t] \notin LinkedSteps
    PROVE  ~ InSomeList(t)
  <1> QED BY ElemsKnown DEF ListInv, ListedWhere

\* scheduler_next returns a ready process or the idle one.
LEMMA NextIsReady ==
    ASSUME NEW p, scheduler_next(p)
    PROVE  p = Idle \/ p \in Elems(ready)
  <1> QED BY DEF scheduler_next, Elems

\* What is picked is neither blocked nor about to be started.
LEMMA PickedIsFree ==
    ASSUME KInv, SwitchInv, ListInv, NEW p, p = Idle \/ p \in Elems(ready)
    PROVE  /\ p \notin Elems(sleeping) \cup Elems(waiting)
           /\ \A u \in Threads : pc[u] \in CreateSteps => arg[u] # p
  <1>1. Idle \in Threads /\ pc[Idle] = "halt"
    BY ProcsAssumption DEF Threads, SwitchInv, IdleHalted
  <1>2. CASE p = Idle
    <2>1. ~ InSomeList(p)
      BY <1>1, <1>2, NotListed DEF LinkedSteps
    <2> QED BY <1>1, <1>2, <2>1 DEF InSomeList, ListInv, StartingWhere
  <1>3. CASE p \in Elems(ready)
    BY <1>3 DEF ListInv, Apart, StartingWhere, InSomeList
  <1> QED BY <1>2, <1>3

---------------------------------------------------------------------------
(* What the other steps leave of a removal.                                *)

\* ready_list has at most got longer, by processes that are not looking for
\* themselves.
Lengthened ==
    /\ \A j \in DOMAIN ready : j \in DOMAIN ready' /\ ready'[j] = ready[j]
    /\ \A j \in DOMAIN ready' : j \in DOMAIN ready \/ pc[ready'[j]] \notin Searches

LEMMA AppendLengthens ==
    ASSUME NEW S, ready \in Seq(S), NEW p, pc[p] \notin Searches,
           ready' = Append(ready, p)
    PROVE  Lengthened
  <1> DEFINE n == Len(ready)
  <1>1. n \in Nat /\ DOMAIN ready = 1 .. n
    BY LenProperties
  <1>2. ready \in Seq(S \cup {p}) /\ p \in S \cup {p}
    BY SeqMonotonic
  <1>3. ready' \in Seq(S \cup {p}) /\ Len(ready') = n + 1
        /\ (\A i \in 1 .. n : ready'[i] = ready[i]) /\ ready'[n + 1] = p
    BY <1>2
  <1>4. DOMAIN ready' = 1 .. n + 1
    BY <1>3, LenProperties
  <1> HIDE DEF n
  <1>5. \A i \in 1 .. n + 1 : i \in 1 .. n \/ i = n + 1
    BY <1>1
  <1>6. \A i \in 1 .. n : i \in 1 .. n + 1
    BY <1>1
  <1> QED BY <1>1, <1>3, <1>4, <1>5, <1>6 DEF Lengthened

LEMMA AddLengthens ==
    ASSUME NEW S, ready \in Seq(S), NEW p, pc[p] \notin Searches, scheduler_add(p)
    PROVE  Lengthened
  <1>1. CASE Len(ready) >= MaxProcesses
    BY <1>1 DEF scheduler_add, Lengthened
  <1>2. CASE ~ (Len(ready) >= MaxProcesses)
    BY <1>2, AppendLengthens DEF scheduler_add
  <1> QED BY <1>1, <1>2

\* Thread t moves to step s, with its slot set for it.
LEMMA MovedRemovals ==
    ASSUME KInv, Removals, NEW t \in Threads, NEW s, pc' = [pc EXCEPT ![t] = s],
           s \notin Swaps, s # "exit_unsleep_swap",
           s \in Searches => slot'[t] = 1 /\ ready' = ready,
           s \notin RemovalSteps => slot'[t] = 1,
           \A u \in Threads : u # t => slot'[u] = slot[u],
           Lengthened
    PROVE  Removals'
  <1>1. pc'[t] = s /\ \A u \in Threads : u # t => pc'[u] = pc[u]
    BY DEF KInv, FlatTypeOK
  <1>2. \A u \in Procs : u \in Threads
    BY DEF Threads
  <1>3. ASSUME NEW u \in Procs, u # t
        PROVE  /\ pc'[u] \in Swaps => slot'[u] \in DOMAIN ready' /\ ready'[slot'[u]] = u
               /\ pc'[u] \in Searches => \A j \in DOMAIN ready' : j < slot'[u] => ready'[j] # u
               /\ pc'[u] \notin RemovalSteps => slot'[u] = 1
               /\ pc'[u] # "exit_unsleep_swap"
    <2>1. pc'[u] = pc[u] /\ slot'[u] = slot[u]
      BY <1>1, <1>2, <1>3
    <2>2. pc[u] \in Swaps => slot[u] \in DOMAIN ready' /\ ready'[slot[u]] = u
      BY DEF Removals, Lengthened
    <2>3. pc[u] \in Searches => \A j \in DOMAIN ready' : j < slot[u] => ready'[j] # u
      BY DEF Removals, Lengthened
    <2> QED BY <2>1, <2>2, <2>3 DEF Removals
  <1>4. \A j \in DOMAIN ready : ~ (j < 1)
    <2>1. DOMAIN ready = 1 .. Len(ready) /\ Len(ready) \in Nat
      BY LenProperties DEF KInv, Lists
    <2> QED BY <2>1
  <1> QED BY <1>1, <1>3, <1>4 DEF Removals

\* A call that is not inside a removal moves on.
LEMMA CallKeepsRemovals ==
    ASSUME KInv, Removals, NEW t \in Procs, pc[t] \notin RemovalSteps,
           NEW s, pc' = [pc EXCEPT ![t] = s],
           s \notin Swaps \cup Unsleeps, s \in Searches => ready' = ready,
           slot' = slot, Lengthened
    PROVE  Removals'
  <1>1. t \in Threads /\ slot'[t] = 1
    BY DEF Removals, Threads
  <1> QED BY <1>1, MovedRemovals DEF Unsleeps

LEMMA SameLengthened == UNCHANGED ready => Lengthened
  <1> QED BY DEF Lengthened

---------------------------------------------------------------------------
(* Steps.                                                                  *)

\* Interrupts before they return: processes leave the blocked lists, and only
\* for the ready list.
LEMMA WakeKeepsLists ==
    ASSUME KInv, ListInv, Apart',
           Elems(ready) \subseteq Elems(ready'),
           Elems(sleeping') \subseteq Elems(sleeping),
           Elems(waiting') \subseteq Elems(waiting),
           \A p : InSomeList(p)' => InSomeList(p),
           isr' = isr \/ isr' # 0,
           Lengthened, UNCHANGED <<pc, arg, cpu, current, slot>>
    PROVE  ListInv'
  <1>1. ListedWhere' /\ BlockedWhere'
    BY DEF ListInv, ListedWhere, BlockedWhere
  <1>2. PickIsReady'
    BY DEF ListInv, PickIsReady
  <1>3. StartsOne' /\ StartingWhere'
    BY DEF ListInv, StartsOne, StartingWhere
  <1>4. Removals'
    BY DEF ListInv, Removals, Lengthened
  <1> QED BY <1>1, <1>2, <1>3, <1>4 DEF ListInv

\* A step of thread t, which may leave lists and enter one.  The only other
\* process that may enter one is that which it starts.
LEMMA CallKeepsLists ==
    ASSUME KInv, SwitchInv, ListInv, Apart', Removals',
           NEW t \in Threads, cpu = t, isr = 0, cpu' = cpu,
           NEW s, NEW a, pc' = [pc EXCEPT ![t] = s], arg' = [arg EXCEPT ![t] = a],
           \A p : p # t /\ p \in (Elems(sleeping) \cup Elems(waiting))'
                  => p \in Elems(sleeping) \cup Elems(waiting),
           \A p : p # t /\ InSomeList(p)'
                  => InSomeList(p) \/ (p = arg[t] /\ pc[t] \in CreateSteps /\ s \notin CreateSteps),
           t \in (Elems(sleeping) \cup Elems(waiting))'
                  => s = "yield" \/ (s = "app" /\ isr' # 0),
           InSomeList(t)' => s \in LinkedSteps,
           s \in CreateSteps => a = arg[t] /\ pc[t] \in CreateSteps,
           s \in {"sched_set"} \cup AfterSet => a = Idle \/ a \in Elems(ready'),
           \/ current' \in {current, NoProc, Idle} \cup Elems(ready)
    PROVE  ListInv'
  <1>1. /\ pc'[t] = s /\ arg'[t] = a
        /\ \A u \in Threads : u # t => pc'[u] = pc[u] /\ arg'[u] = arg[u]
    BY MovesOne
  <1>2. \A p \in Procs : p \in Threads
    BY DEF Threads
  <1>3. \A u \in Threads : pc[u] \in CreateSteps =>
            /\ arg[u] \in Threads /\ arg[u] # NoProc
            /\ arg[u] \notin {t, current, Idle} /\ arg[u] \notin Elems(ready)
    <2>1. \A u \in Threads : pc[u] \in CreateSteps => arg[u] \in Procs /\ arg[u] # NoProc
      BY ArgIsKnown DEF UsesArg, CreateSteps
    <2> QED BY <1>2, <2>1, PickedIsFree DEF ListInv, StartingWhere
  <1>4. ListedWhere'
    <2>1. \A u \in Threads : pc[u] \in CreateSteps => pc[arg[u]] \in LinkedSteps
      BY DEF ListInv, StartingWhere, LinkedSteps
    <2> QED BY <1>1, <1>2, <2>1 DEF ListInv, ListedWhere
  <1>5. BlockedWhere'
    <2>1. ASSUME NEW p, p \in (Elems(sleeping) \cup Elems(waiting))', p # t
          PROVE  pc'[p] = "yield" \/ (pc'[p] = "app" /\ cpu' # p)
      <3>1. p \in Elems(sleeping) \cup Elems(waiting)
        BY <2>1
      <3>2. p \in Threads
        BY <3>1, ElemsKnown DEF InSomeList
      <3> QED BY <1>1, <2>1, <3>1, <3>2 DEF ListInv, BlockedWhere
    <2> QED BY <1>1, <2>1 DEF BlockedWhere
  <1>6. PickIsReady'
    BY <1>1 DEF PickIsReady
  <1>7. StartsOne'
    BY <1>1 DEF ListInv, StartsOne
  <1>8. StartingWhere'
    <2>1. ASSUME NEW u \in Threads, pc'[u] \in CreateSteps
          PROVE  pc[u] \in CreateSteps /\ arg'[u] = arg[u]
      BY <1>1, <2>1
    <2>2. ASSUME NEW u \in Threads, pc'[u] \in CreateSteps
          PROVE  (/\ pc[arg[u]] = "app"
                  /\ ~ InSomeList(arg[u])
                  /\ arg[u] \notin {cpu, current})'
      <3>1. pc[u] \in CreateSteps /\ arg'[u] = arg[u]
        BY <2>1, <2>2
      <3>2. pc[arg[u]] = "app" /\ ~ InSomeList(arg[u])
        BY <3>1 DEF ListInv, StartingWhere
      <3>3. arg[u] # arg[t] \/ pc[t] \notin CreateSteps \/ s \in CreateSteps
        BY <1>1, <2>2, <3>1 DEF ListInv, StartsOne
      <3>4. arg[u] # t /\ arg[u] \in Threads
            /\ arg[u] \notin {current, NoProc, Idle} \cup Elems(ready)
        BY <1>3, <3>1
      <3>5. ~ (arg[u] \in (Elems(ready) \cup Elems(sleeping) \cup Elems(waiting))')
        BY <1>1, <2>2, <3>2, <3>3, <3>4 DEF InSomeList
      <3> QED BY <1>1, <3>1, <3>2, <3>4, <3>5 DEF InSomeList
    <2> QED BY <2>2 DEF StartingWhere
  <1> QED BY <1>4, <1>5, <1>6, <1>7, <1>8 DEF ListInv

\* A running process that is not in a call is not blocked.
LEMMA RunningNotBlocked ==
    ASSUME KInv, ListInv, NEW t \in Procs, cpu = t, isr = 0, pc[t] # "yield"
    PROVE  t \notin Elems(sleeping) \cup Elems(waiting)
  <1> QED BY DEF ListInv, BlockedWhere

LEMMA SleepKeepsLists ==
    ASSUME KInv, SwitchInv, RunInv, ListInv, NEW t \in Procs,
           sleep(t) \/ sleep_ms(t) \/ SleepAdd(t) \/ Yield(t)
    PROVE  ListInv'
  <1>t. t \in Threads
    BY DEF Threads
  <1>s. \A s \in {"sleep_remove", "yield", "app"} :
            /\ s \notin CreateSteps /\ s \notin {"sched_set"} \cup AfterSet
            /\ s \notin Swaps \cup Unsleeps
    BY DEF CreateSteps, AfterSet, Swaps, Unsleeps
  <1>r. Removals /\ {"app", "sleep_add", "yield"} \cap RemovalSteps = {}
        /\ "yield" \notin Searches /\ "app" \notin Searches
    BY DEF ListInv, RemovalSteps, Searches, Swaps, Unsleeps
  <1>k. arg = [arg EXCEPT ![t] = arg[t]]
    BY <1>t, ArgKept
  <1>l. ready \in Seq(NotBehind) /\ sleeping \in Seq(Known)
    BY DEF KInv, Lists
  <1>1. CASE sleep(t) \/ sleep_ms(t)
    <2>1. PICK n : BeginSleep(t, n)
      BY <1>1 DEF sleep, sleep_ms
    <2>2. isr = 0 /\ cpu = t /\ pc[t] = "app"
      BY <1>1 DEF sleep, sleep_ms, Enter, At
    <2>3. /\ pc' = [pc EXCEPT ![t] = "sleep_remove"]
          /\ arg' = [arg EXCEPT ![t] = current]
          /\ UNCHANGED <<ready, sleeping, waiting, current, cpu, isr, slot>>
      BY <2>1 DEF BeginSleep, Goto, clockVars, callVars
    <2>4. t \notin Elems(sleeping) \cup Elems(waiting) /\ "sleep_remove" \in LinkedSteps
      BY <2>2, RunningNotBlocked DEF LinkedSteps
    <2>5. Apart'
      BY <2>3 DEF ListInv, Apart
    <2>6. Removals'
      BY <1>r, <1>s, <2>2, <2>3, SameLengthened, CallKeepsRemovals
    <2> QED BY <1>t, <1>s, <2>2, <2>3, <2>4, <2>5, <2>6, CallKeepsLists DEF InSomeList
  <1>3. CASE SleepAdd(t)
    <2>1. /\ isr = 0 /\ cpu = t /\ pc[t] = "sleep_add"
          /\ sleeping' = IF Len(sleeping) >= MaxProcesses THEN sleeping
                                                 ELSE Append(sleeping, arg[t])
          /\ pc' = [pc EXCEPT ![t] = "yield"]
          /\ UNCHANGED <<ready, waiting, current, cpu, arg, slot>>
      BY <1>3 DEF SleepAdd, At, Goto, add_to_sleep, callVars
    <2>2. arg[t] = t
      BY <2>1 DEF RunInv, HeldInv, OwnCall, OwnSteps
    <2>3. ~ InSomeList(t) /\ "yield" \in LinkedSteps
      BY <1>t, <2>1, NotListed DEF LinkedSteps
    <2>4. /\ NoRepeat(Append(sleeping, t))
          /\ Elems(Append(sleeping, t)) = Elems(sleeping) \cup {t}
      BY <1>l, <2>3, AppendElems DEF ListInv, Apart, InSomeList
    <2>5. NoRepeat(sleeping')
          /\ Elems(sleeping') \in {Elems(sleeping), Elems(sleeping) \cup {t}}
      BY <2>1, <2>2, <2>4 DEF ListInv, Apart
    <2>6. Apart'
      BY <2>1, <2>3, <2>5 DEF ListInv, Apart, InSomeList
    <2>7. Removals'
      BY <1>r, <1>s, <2>1, SameLengthened, CallKeepsRemovals
    <2> QED BY <1>t, <1>s, <1>k, <2>1, <2>3, <2>5, <2>6, <2>7, CallKeepsLists
            DEF InSomeList
  <1>4. CASE Yield(t)
    <2>1. /\ isr = 0 /\ cpu = t /\ pc[t] = "yield" /\ isr' = 1
          /\ pc' = [pc EXCEPT ![t] = "app"]
          /\ UNCHANGED <<ready, sleeping, waiting, current, cpu, arg, slot>>
      BY <1>4 DEF Yield, EnterTimer
    <2>2. Apart' /\ "app" \in LinkedSteps
      BY <2>1 DEF ListInv, Apart, LinkedSteps
    <2>3. /\ (Elems(sleeping) \cup Elems(waiting))' = Elems(sleeping) \cup Elems(waiting)
          /\ \A p : InSomeList(p)' = InSomeList(p)
          /\ isr' # 0
      BY <2>1 DEF InSomeList
    <2>4. Removals'
      BY <1>r, <1>s, <2>1, SameLengthened, CallKeepsRemovals
    <2> QED BY <1>t, <1>s, <1>k, <2>1, <2>2, <2>3, <2>4, CallKeepsLists
  <1> QED BY <1>1, <1>3, <1>4

LEMMA WaitKeepsLists ==
    ASSUME KInv, SwitchInv, RunInv, ListInv, NEW t \in Procs,
           wait(t) \/ WaitAdd(t)
    PROVE  ListInv'
  <1>t. t \in Threads
    BY DEF Threads
  <1>s. \A s \in {"wait_remove", "yield"} :
            /\ s \notin CreateSteps /\ s \notin {"sched_set"} \cup AfterSet
            /\ s \notin Swaps \cup Unsleeps
    BY DEF CreateSteps, AfterSet, Swaps, Unsleeps
  <1>r. Removals /\ {"app", "wait_add", "yield"} \cap RemovalSteps = {}
        /\ "yield" \notin Searches
    BY DEF ListInv, RemovalSteps, Searches, Swaps, Unsleeps
  <1>k. arg = [arg EXCEPT ![t] = arg[t]]
    BY <1>t, ArgKept
  <1>l. ready \in Seq(NotBehind) /\ waiting \in Seq(Known)
    BY DEF KInv, Lists
  <1>1. CASE wait(t)
    <2>1. /\ isr = 0 /\ cpu = t /\ pc[t] = "app"
          /\ pc' = [pc EXCEPT ![t] = "wait_remove"]
          /\ arg' = [arg EXCEPT ![t] = current]
          /\ UNCHANGED <<ready, sleeping, waiting, current, cpu, isr, slot>>
      BY <1>1 DEF wait, Enter, At, Goto, schedVars, clockVars, callVars
    <2>2. t \notin Elems(sleeping) \cup Elems(waiting) /\ "wait_remove" \in LinkedSteps
      BY <2>1, RunningNotBlocked DEF LinkedSteps
    <2>3. Apart'
      BY <2>1 DEF ListInv, Apart
    <2>4. Removals'
      BY <1>r, <1>s, <2>1, SameLengthened, CallKeepsRemovals
    <2> QED BY <1>t, <1>s, <2>1, <2>2, <2>3, <2>4, CallKeepsLists DEF InSomeList
  <1>3. CASE WaitAdd(t)
    <2>1. /\ isr = 0 /\ cpu = t /\ pc[t] = "wait_add"
          /\ waiting' = IF Len(waiting) < WaitQueueMax
                        THEN Append(waiting, arg[t]) ELSE waiting
          /\ pc' = [pc EXCEPT ![t] = "yield"]
          /\ UNCHANGED <<ready, sleeping, current, cpu, arg, slot>>
      BY <1>3 DEF WaitAdd, At, Goto, Enqueue, callVars
    <2>2. arg[t] = t
      BY <2>1 DEF RunInv, HeldInv, OwnCall, OwnSteps
    <2>3. ~ InSomeList(t) /\ "yield" \in LinkedSteps
      BY <1>t, <2>1, NotListed DEF LinkedSteps
    <2>4. /\ NoRepeat(Append(waiting, t))
          /\ Elems(Append(waiting, t)) = Elems(waiting) \cup {t}
      BY <1>l, <2>3, AppendElems DEF ListInv, Apart, InSomeList
    <2>5. NoRepeat(waiting')
          /\ Elems(waiting') \in {Elems(waiting), Elems(waiting) \cup {t}}
      BY <2>1, <2>2, <2>4 DEF ListInv, Apart
    <2>6. Apart'
      BY <2>1, <2>3, <2>5 DEF ListInv, Apart, InSomeList
    <2>7. Removals'
      BY <1>r, <1>s, <2>1, SameLengthened, CallKeepsRemovals
    <2> QED BY <1>t, <1>s, <1>k, <2>1, <2>3, <2>5, <2>6, <2>7, CallKeepsLists
            DEF InSomeList
  <1> QED BY <1>1, <1>3

\* A turn of the loop of scheduler_remove.
LEMMA SearchKeepsLists ==
    ASSUME KInv, SwitchInv, RunInv, ListInv, NEW t \in Procs,
           NEW here \in Searches, NEW swap \in Swaps,
           NEW done \in {"sleep_add", "wait_add", "exit_unsleep"},
           Search(t, ready, here, swap, done)
    PROVE  ListInv'
  <1>t. t \in Threads /\ \A u \in Procs : u \in Threads
    BY DEF Threads
  <1>k. arg = [arg EXCEPT ![t] = arg[t]]
    BY <1>t, ArgKept
  <1>s. /\ \A s \in Searches \cup Swaps : s \in LinkedSteps /\ s \in RemovalSteps
        /\ \A s \in Searches \cup Swaps \cup {done} :
            s \notin CreateSteps /\ s \notin {"sched_set"} \cup AfterSet
        /\ here # "yield" /\ here \notin Swaps /\ swap \notin Searches
        /\ swap # "exit_unsleep_swap" /\ done # "exit_unsleep_swap"
        /\ done \notin Searches \cup Swaps
    BY DEF CreateSteps, AfterSet, LinkedSteps, RemovalSteps, Searches, Swaps, Unsleeps
  <1>1. /\ isr = 0 /\ cpu = t /\ pc[t] = here
        /\ UNCHANGED <<ready, sleeping, waiting, current, cpu, arg>>
    BY DEF Search, At, schedVars
  <1>2. arg[t] = t
    BY <1>1, <1>s DEF RunInv, HeldInv, OwnCall, OwnSteps
  <1>3. slot \in [Threads -> Nat \ {0}] /\ slot[t] \in Nat \ {0}
        /\ DOMAIN ready = 1 .. Len(ready) /\ Len(ready) \in Nat
    BY <1>t, LenProperties DEF KInv, FlatTypeOK, Lists
  <1>4. /\ t \notin Elems(sleeping) \cup Elems(waiting)
        /\ Apart' /\ Removals
    BY <1>1, <1>s, RunningNotBlocked DEF ListInv, Apart
  <1>5. CASE /\ FoundAt(ready, arg[t], slot[t])
             /\ Goto(t, swap) /\ UNCHANGED slot
    <2>1. pc' = [pc EXCEPT ![t] = swap]
      BY <1>5 DEF Goto
    <2>2. slot[t] \in DOMAIN ready /\ ready[slot[t]] = t
      BY <1>2, <1>3, <1>5 DEF FoundAt
    <2>3. pc'[t] = swap /\ \A u \in Threads : u # t => pc'[u] = pc[u]
      BY <1>t, <2>1 DEF KInv, FlatTypeOK
    <2>4. Removals'
      BY <1>1, <1>4, <1>5, <1>s, <1>t, <2>2, <2>3 DEF Removals
    <2> QED BY <1>1, <1>4, <1>k, <1>s, <1>t, <2>1, <2>4, CallKeepsLists DEF InSomeList
  <1>6. CASE /\ OtherAt(ready, arg[t], slot[t])
             /\ slot' = [slot EXCEPT ![t] = @ + 1] /\ UNCHANGED pc
    <2>1. pc' = [pc EXCEPT ![t] = here]
      BY <1>1, <1>6, <1>t DEF KInv, FlatTypeOK
    <2>2. slot'[t] = slot[t] + 1 /\ \A u \in Threads : u # t => slot'[u] = slot[u]
      BY <1>3, <1>6, <1>t
    <2>3. \A j \in DOMAIN ready : j < slot[t] + 1 => j < slot[t] \/ j = slot[t]
      BY <1>3
    <2>4. \A j \in DOMAIN ready : j < slot[t] + 1 => ready[j] # t
      BY <1>1, <1>2, <1>4, <1>6, <2>3 DEF OtherAt, Removals
    <2>5. Removals'
      BY <1>1, <1>4, <1>6, <1>s, <1>t, <2>2, <2>4 DEF Removals
    <2> QED BY <1>1, <1>4, <1>k, <1>s, <1>t, <2>1, <2>5, CallKeepsLists DEF InSomeList
  <1>7. CASE /\ EndAt(ready, slot[t])
             /\ Goto(t, done) /\ slot' = [slot EXCEPT ![t] = 1]
    <2>1. pc' = [pc EXCEPT ![t] = done]
      BY <1>7 DEF Goto
    <2>2. \A j \in DOMAIN ready : j < slot[t]
      BY <1>3, <1>7 DEF EndAt
    <2>3. t \notin Elems(ready)
      BY <1>1, <1>4, <2>2 DEF Removals, Elems
    <2>4. slot'[t] = 1 /\ \A u \in Threads : u # t => slot'[u] = slot[u]
      BY <1>3, <1>7, <1>t
    <2>5. Removals'
      BY <1>1, <1>4, <1>s, <1>t, <2>1, <2>4, SameLengthened, MovedRemovals
    <2> QED BY <1>1, <1>4, <1>k, <1>s, <1>t, <2>1, <2>3, <2>5, CallKeepsLists
            DEF InSomeList
  <1> QED BY <1>5, <1>6, <1>7 DEF Search

\* The swap takes its process out, and no other removal is under way.
LEMMA SwapKeepsLists ==
    ASSUME KInv, SwitchInv, RunInv, ListInv, ~ overtaken', NEW t \in Procs,
           NEW here \in Swaps, NEW done \in {"sleep_add", "wait_add", "exit_unsleep"},
           Swap(t, here, done)
    PROVE  ListInv'
  <1>t. t \in Threads /\ \A u \in Procs : u \in Threads
    BY DEF Threads
  <1>k. arg = [arg EXCEPT ![t] = arg[t]]
    BY <1>t, ArgKept
  <1>s. /\ here # "yield" /\ here \in RemovalSteps
        /\ done \notin CreateSteps /\ done \notin {"sched_set"} \cup AfterSet
        /\ done \notin Searches \cup Swaps \cup {"exit_unsleep_swap"}
    BY DEF CreateSteps, AfterSet, RemovalSteps, Searches, Swaps, Unsleeps
  <1>1. /\ isr = 0 /\ cpu = t /\ pc[t] = here
        /\ ready' = SwapRemove(ready, slot[t])
        /\ pc' = [pc EXCEPT ![t] = done]
        /\ slot' = [slot EXCEPT ![t] = 1]
        /\ \A u \in Procs \ {t} : ~ Removing(u)
        /\ UNCHANGED <<sleeping, waiting, current, cpu, arg>>
    BY DEF Swap, At, Goto
  <1>2. slot[t] \in DOMAIN ready /\ ready[slot[t]] = t
    BY <1>1 DEF ListInv, Removals
  <1>3. NoRepeat(ready') /\ Elems(ready') = Elems(ready) \ {t}
    BY <1>1, <1>2, SwapRemoveElems DEF ListInv, Apart, KInv, Lists
  <1>4. t \notin Elems(sleeping) \cup Elems(waiting)
    BY <1>1, <1>s, RunningNotBlocked
  <1>5. Apart'
    BY <1>1, <1>3 DEF ListInv, Apart
  <1>6. pc'[t] = done /\ slot'[t] = 1
        /\ \A u \in Threads : u # t => pc'[u] = pc[u] /\ slot'[u] = slot[u]
    BY <1>1, <1>t DEF KInv, FlatTypeOK
  <1>7. \A j \in DOMAIN ready' : j \in Nat \ {0}
    <2>1. Len(ready) \in Nat
      BY LenProperties DEF KInv, Lists
    <2> QED BY <1>1, <2>1 DEF SwapRemove
  <1>8. ASSUME NEW u \in Procs, u # t
        PROVE  /\ pc'[u] \in Swaps => slot'[u] \in DOMAIN ready' /\ ready'[slot'[u]] = u
               /\ pc'[u] \in Searches => \A j \in DOMAIN ready' : j < slot'[u] => ready'[j] # u
               /\ pc'[u] \notin RemovalSteps => slot'[u] = 1
               /\ pc'[u] # "exit_unsleep_swap"
    <2>1. pc'[u] = pc[u] /\ slot'[u] = slot[u] /\ slot[u] \in Nat \ {0}
      BY <1>6, <1>8, <1>t DEF KInv, FlatTypeOK
    <2>2. pc[u] \notin Swaps /\ (pc[u] \in Searches => ~ (slot[u] > 1))
      BY <1>1, <1>8 DEF Removing
    <2>3. pc[u] \in Searches => \A j \in DOMAIN ready' : ~ (j < slot[u])
      BY <1>7, <2>1, <2>2
    <2> QED BY <2>1, <2>2, <2>3 DEF ListInv, Removals
  <1>9. Removals'
    BY <1>6, <1>8, <1>s DEF Removals
  <1> QED BY <1>1, <1>3, <1>4, <1>5, <1>9, <1>k, <1>s, <1>t, CallKeepsLists
          DEF InSomeList

\* exit looks for its process in the sleep list, where it cannot be.
LEMMA UnsleepKeepsLists ==
    ASSUME KInv, SwitchInv, RunInv, ListInv, NEW t \in Procs,
           SearchSleeping(t) \/ SwapSleeping(t)
    PROVE  ListInv'
  <1>t. t \in Threads
    BY DEF Threads
  <1>k. arg = [arg EXCEPT ![t] = arg[t]]
    BY <1>t, ArgKept
  <1>s. \A s \in {"exit_unsleep", "exit_detach"} :
            /\ s \notin CreateSteps /\ s \notin {"sched_set"} \cup AfterSet
            /\ s \notin LinkedSteps /\ s \notin Searches \cup Swaps
            /\ "exit_unsleep" \in RemovalSteps
    BY DEF CreateSteps, AfterSet, LinkedSteps, RemovalSteps, Searches, Swaps, Unsleeps
  <1>1. ~ SwapSleeping(t)
    BY DEF SwapSleeping, At, ListInv, Removals
  <1>2. Search(t, sleeping, "exit_unsleep", "exit_unsleep_swap", "exit_detach")
    BY <1>1 DEF SearchSleeping
  <1>3. /\ isr = 0 /\ cpu = t /\ pc[t] = "exit_unsleep"
        /\ UNCHANGED <<ready, sleeping, waiting, current, cpu, arg>>
    BY <1>2 DEF Search, At, schedVars
  <1>4. arg[t] = t /\ ~ InSomeList(t)
    BY <1>3, <1>s, <1>t, NotListed DEF RunInv, HeldInv, OwnCall, OwnSteps
  <1>5. Apart' /\ Removals
    BY <1>3 DEF ListInv, Apart
  <1>6. slot \in [Threads -> Nat \ {0}] /\ slot[t] \in Nat \ {0}
        /\ DOMAIN sleeping = 1 .. Len(sleeping) /\ Len(sleeping) \in Nat
    BY <1>t, LenProperties DEF KInv, FlatTypeOK, Lists
  <1>7. ~ FoundAt(sleeping, arg[t], slot[t])
    BY <1>4, <1>6 DEF FoundAt, InSomeList, Elems
  <1>8. PICK s \in {"exit_unsleep", "exit_detach"}, n \in Nat :
           /\ pc' = [pc EXCEPT ![t] = s] /\ slot' = [slot EXCEPT ![t] = n]
           /\ s = "exit_detach" => n = 1
    <2>1. CASE slot' = [slot EXCEPT ![t] = slot[t] + 1] /\ UNCHANGED pc
      <3>1. pc' = [pc EXCEPT ![t] = "exit_unsleep"]
        BY <1>3, <1>t, <2>1 DEF KInv, FlatTypeOK
      <3>2. slot[t] + 1 \in Nat
        BY <1>6
      <3> QED BY <2>1, <3>1, <3>2
    <2>2. CASE slot' = [slot EXCEPT ![t] = 1] /\ Goto(t, "exit_detach")
      <3>1. 1 \in Nat
        OBVIOUS
      <3> QED BY <2>2, <3>1 DEF Goto
    <2> QED BY <1>2, <1>7, <2>1, <2>2 DEF Search
  <1>9. slot'[t] = n /\ \A u \in Threads : u # t => slot'[u] = slot[u]
    BY <1>6, <1>8, <1>t
  <1>10. Removals'
    BY <1>3, <1>5, <1>8, <1>9, <1>s, <1>t, SameLengthened, MovedRemovals
  <1> QED BY <1>3, <1>4, <1>5, <1>8, <1>10, <1>k, <1>s, <1>t, CallKeepsLists
          DEF InSomeList

\* All removals.
LEMMA RemoveKeepsLists ==
    ASSUME KInv, SwitchInv, RunInv, ListInv, ~ overtaken', NEW t \in Procs,
           SearchReady(t) \/ SwapReady(t) \/ SearchSleeping(t) \/ SwapSleeping(t)
    PROVE  ListInv'
  <1>1. /\ {"sleep_remove", "wait_remove", "exit_remove"} \subseteq Searches
        /\ {"sleep_swap", "wait_swap", "exit_swap"} \subseteq Swaps
    BY DEF Searches, Swaps
  <1>2. CASE SearchReady(t)
    BY <1>1, <1>2, SearchKeepsLists DEF SearchReady
  <1>3. CASE SwapReady(t)
    BY <1>1, <1>3, SwapKeepsLists DEF SwapReady
  <1> QED BY <1>2, <1>3, UnsleepKeepsLists

LEMMA StartKeepsLists ==
    ASSUME KInv, SwitchInv, ListInv, NEW t \in Procs,
           Register(t) \/ process_start(t) \/ Link(t) \/ CreateNoStack(t)
    PROVE  ListInv'
  <1>t. t \in Threads /\ {"app", "start", "link"} \subseteq LinkedSteps
    BY DEF Threads, LinkedSteps
  <1>s. "app" \notin CreateSteps /\ {"start", "register", "link"} \subseteq CreateSteps
        /\ \A s \in {"start", "link", "app"} :
              s \notin {"sched_set"} \cup AfterSet /\ s \notin Swaps \cup Unsleeps
    BY DEF CreateSteps, AfterSet, Swaps, Unsleeps
  <1>r. Removals /\ {"app", "register", "start", "link"} \cap RemovalSteps = {}
        /\ {"app", "register", "start", "link"} \cap Searches = {}
    BY DEF ListInv, RemovalSteps, Searches, Swaps, Unsleeps
  <1>k. arg = [arg EXCEPT ![t] = arg[t]]
    BY <1>t, ArgKept
  <1>1. CASE Register(t)
    <2>1. /\ isr = 0 /\ cpu = t /\ pc[t] = "register"
          /\ pc' = [pc EXCEPT ![t] = "start"]
          /\ UNCHANGED <<ready, sleeping, waiting, current, cpu, arg, slot>>
      BY <1>1 DEF Register, At, Goto, schedVars, callVars
    <2>2. Apart'
      BY <2>1 DEF ListInv, Apart
    <2>3. t \notin Elems(sleeping) \cup Elems(waiting)
      BY <2>1, RunningNotBlocked
    <2>4. Removals'
      BY <1>r, <1>s, <2>1, SameLengthened, CallKeepsRemovals
    <2> QED BY <1>t, <1>s, <1>k, <2>1, <2>2, <2>3, <2>4, CallKeepsLists DEF InSomeList
  <1>2. CASE process_start(t)
    <2>1. /\ isr = 0 /\ cpu = t /\ pc[t] = "start"
          /\ UNCHANGED <<ready, sleeping, waiting, current, cpu, arg, slot>>
      BY <1>2 DEF process_start, At, callVars
    <2>0. PICK s \in {"app", "link"} : pc' = [pc EXCEPT ![t] = s]
      BY <1>2 DEF process_start, Goto
    <2>2. Apart'
      BY <2>1 DEF ListInv, Apart
    <2>3. t \notin Elems(sleeping) \cup Elems(waiting)
      BY <2>1, RunningNotBlocked
    <2>4. Removals'
      BY <1>r, <1>s, <2>0, <2>1, SameLengthened, CallKeepsRemovals
    <2>5. s \in LinkedSteps /\ s \notin {"sched_set"} \cup AfterSet
          /\ pc[t] \in CreateSteps
      BY <1>t, <1>s, <2>0, <2>1
    <2> QED BY <1>t, <1>k, <2>0, <2>1, <2>2, <2>3, <2>4, <2>5, CallKeepsLists
            DEF InSomeList
  <1>4. CASE Link(t)
    <2>1. /\ isr = 0 /\ cpu = t /\ pc[t] = "link" /\ ready' = Append(ready, arg[t])
          /\ pc' = [pc EXCEPT ![t] = "app"]
          /\ UNCHANGED <<sleeping, waiting, current, cpu, arg, slot>>
      BY <1>4 DEF Link, LinkNew, At, Goto, callVars
    <2>2. ~ InSomeList(arg[t]) /\ arg[t] # t /\ pc[arg[t]] = "app"
      BY <1>t, <1>s, <2>1 DEF ListInv, StartingWhere
    <2>3. /\ NoRepeat(ready')
          /\ Elems(ready') = Elems(ready) \cup {arg[t]}
      BY <2>1, <2>2, AppendElems DEF KInv, Lists, ListInv, Apart, InSomeList
    <2>4. Apart'
      BY <2>1, <2>2, <2>3 DEF ListInv, Apart, InSomeList
    <2>5. t \notin Elems(sleeping) \cup Elems(waiting)
      BY <2>1, RunningNotBlocked
    <2>6. Lengthened
      BY <1>r, <2>1, <2>2, AppendLengthens DEF KInv, Lists
    <2>7. Removals'
      BY <1>r, <1>s, <2>1, <2>6, CallKeepsRemovals
    <2>8. \A p : InSomeList(p)' => InSomeList(p) \/ p = arg[t]
      BY <2>1, <2>3 DEF InSomeList
    <2>9. pc[t] \in CreateSteps /\ t \notin (Elems(sleeping) \cup Elems(waiting))'
      BY <1>s, <2>1, <2>5
    <2> QED BY <1>t, <1>s, <1>k, <2>1, <2>4, <2>7, <2>8, <2>9, CallKeepsLists
  <1>3. CASE CreateNoStack(t)
    <2>1. UNCHANGED <<ready, sleeping, waiting, pc, arg, cpu, current, isr, slot>>
      BY <1>3 DEF CreateNoStack, schedVars, clockVars, callVars
    <2>2. Apart'
      BY <2>1 DEF ListInv, Apart
    <2> QED BY <2>1, <2>2, SameLengthened, WakeKeepsLists DEF InSomeList
  <1> QED BY <1>1, <1>2, <1>3, <1>4

\* The new process was in no list, because it had not been created.
LEMMA CreateKeepsLists ==
    ASSUME KInv, SwitchInv, ListInv, NEW t \in Procs, Create(t)
    PROVE  ListInv'
  <1>1. PICK p \in Unused :
           /\ arg' = [arg EXCEPT ![t] = p]
           /\ pc' = [pc EXCEPT ![t] = "register", ![p] = "app"]
    BY DEF Create
  <1>2. /\ isr = 0 /\ cpu = t /\ pc[t] = "app" /\ isr' = isr
        /\ UNCHANGED <<ready, sleeping, waiting, current, cpu, slot>>
    BY DEF Create, Enter, At, clockVars, callVars
  <1>3. t \in Threads /\ p \in Procs /\ p \in Threads /\ pc[p] = "none" /\ p # t
        /\ \A q \in Procs : q \in Threads
    BY <1>1, <1>2 DEF Unused, Threads
  <1>4. pc'[t] = "register" /\ pc'[p] = "app"
        /\ \A u \in Threads : u # t /\ u # p => pc'[u] = pc[u]
    BY <1>1, <1>3 DEF KInv, FlatTypeOK
  <1>5. arg'[t] = p /\ \A u \in Threads : u # t => arg'[u] = arg[u]
    BY <1>1, <1>3 DEF KInv, Pointers
  <1>6. ~ InSomeList(p) /\ p # current
    <2>1. ~ InSomeList(p)
      BY <1>3, NotListed DEF LinkedSteps
    <2> QED BY <1>3, <2>1, ProcsAssumption DEF KInv, Pointers, Known
  <1>7. t \notin Elems(sleeping) \cup Elems(waiting)
    BY <1>2, RunningNotBlocked
  <1>8. Apart'
    BY <1>2 DEF ListInv, Apart
  <1>9. ListedWhere'
    BY <1>2, <1>3, <1>4, <1>6 DEF ListInv, ListedWhere, LinkedSteps, InSomeList
  <1>10. BlockedWhere'
    <2>1. ASSUME NEW q \in Elems(sleeping) \cup Elems(waiting)
          PROVE  pc'[q] = "yield" \/ (pc'[q] = "app" /\ cpu' # q)
      <3>1. q # t /\ q \in Threads /\ InSomeList(q)
        BY <1>7, <2>1, ElemsKnown DEF InSomeList
      <3>2. pc'[q] = pc[q]
        BY <1>4, <1>6, <3>1
      <3> QED BY <1>2, <2>1, <3>1, <3>2 DEF ListInv, BlockedWhere
    <2> QED BY <1>2, <2>1 DEF BlockedWhere
  <1>11. PickIsReady'
    BY <1>2, <1>3, <1>4 DEF PickIsReady, AfterSet
  <1>12. \A u \in Threads : u # t /\ pc'[u] \in CreateSteps =>
            /\ pc[u] \in CreateSteps /\ arg'[u] = arg[u]
            /\ pc[arg[u]] = "app" /\ arg[u] # p /\ arg[u] # t /\ arg[u] \in Threads
    <2>1. \A u \in Threads : u # t /\ pc'[u] \in CreateSteps => pc[u] \in CreateSteps
      BY <1>4 DEF CreateSteps
    <2>2. \A u \in Threads : pc[u] \in CreateSteps => arg[u] \in Procs
      BY ArgIsKnown DEF UsesArg, CreateSteps
    <2> QED BY <1>2, <1>3, <1>5, <2>1, <2>2 DEF ListInv, StartingWhere
  <1>13. StartsOne'
    BY <1>5, <1>12 DEF ListInv, StartsOne
  <1>14. StartingWhere'
    <2>1. ASSUME NEW u \in Threads, pc'[u] \in CreateSteps, u # t
          PROVE  /\ pc'[arg'[u]] = "app"
                 /\ ~ InSomeList(arg[u])
                 /\ arg'[u] \notin {cpu, current}
      <3>1. pc'[arg[u]] = pc[arg[u]]
        BY <1>4, <1>12, <2>1
      <3> QED BY <1>12, <2>1, <3>1 DEF ListInv, StartingWhere
    <2>2. pc'[arg'[t]] = "app" /\ arg'[t] \notin {cpu, current}
      BY <1>2, <1>3, <1>4, <1>5, <1>6
    <2> QED BY <1>2, <1>5, <1>6, <1>12, <2>1, <2>2 DEF StartingWhere, InSomeList
  <1>15. Removals'
    <2>1. \A u \in Procs : pc'[u] = pc[u] \/ ({pc[u], pc'[u]} \subseteq {"app", "none", "register"})
      BY <1>2, <1>3, <1>4
    <2>2. {"app", "none", "register"} \cap (RemovalSteps \cup {"exit_unsleep_swap"}) = {}
          /\ Swaps \cup Searches \subseteq RemovalSteps
      BY DEF RemovalSteps, Searches, Swaps, Unsleeps
    <2> QED BY <1>2, <2>1, <2>2 DEF ListInv, Removals
  <1> QED BY <1>8, <1>9, <1>10, <1>11, <1>13, <1>14, <1>15 DEF ListInv

LEMMA ExitKeepsLists ==
    ASSUME KInv, SwitchInv, RunInv, ListInv, NEW t \in Procs,
           ExitBegin(t) \/ ExitDetach(t) \/ ExitStack(t) \/ ExitSpace(t) \/ ExitSlot(t)
    PROVE  ListInv'
  <1>t. t \in Threads
    BY DEF Threads
  <1>s. \A s \in {"exit_stack", "exit_space", "exit_slot", "sched_next"} :
            /\ s \notin CreateSteps /\ s \notin {"sched_set"} \cup AfterSet
            /\ s \notin LinkedSteps /\ s \notin Searches \cup Swaps \cup Unsleeps
    BY DEF CreateSteps, AfterSet, LinkedSteps, Searches, Swaps, Unsleeps
  <1>r. Removals /\ ExitSteps \cap RemovalSteps = {} /\ "app" \notin RemovalSteps
    BY DEF ListInv, ExitSteps, RemovalSteps, Searches, Swaps, Unsleeps
  <1>1. CASE ExitBegin(t)
    <2>1. /\ isr = 0 /\ cpu = t /\ pc[t] = "app"
          /\ pc' = [pc EXCEPT ![t] = "exit_remove"]
          /\ arg' = [arg EXCEPT ![t] = current]
          /\ UNCHANGED <<ready, sleeping, waiting, current, cpu, slot>>
      BY <1>1 DEF ExitBegin, Enter, At, Goto, schedVars, callVars
    <2>2. /\ "exit_remove" \in LinkedSteps /\ "exit_remove" \notin CreateSteps
          /\ "exit_remove" \notin {"sched_set"} \cup AfterSet
          /\ "exit_remove" \notin Swaps \cup Unsleeps
      BY DEF LinkedSteps, CreateSteps, AfterSet, Swaps, Unsleeps
    <2>3. t \notin Elems(sleeping) \cup Elems(waiting)
      BY <2>1, RunningNotBlocked
    <2>4. Apart'
      BY <2>1 DEF ListInv, Apart
    <2>5. Removals'
      BY <1>r, <2>1, <2>2, SameLengthened, CallKeepsRemovals
    <2> QED BY <1>t, <2>1, <2>2, <2>3, <2>4, <2>5, CallKeepsLists DEF InSomeList
  <1>2. CASE ExitDetach(t) \/ ExitStack(t) \/ ExitSpace(t) \/ ExitSlot(t)
    <2>1. \E s \in {"exit_stack", "exit_space", "exit_slot", "sched_next"} :
              pc' = [pc EXCEPT ![t] = s]
      BY <1>2 DEF ExitDetach, ExitStack, ExitSpace, ExitSlot, Goto
    <2>2. /\ isr = 0 /\ cpu = t /\ pc[t] \in ExitSteps
          /\ UNCHANGED <<ready, sleeping, waiting, cpu, arg, slot>>
          /\ current' \in {current, NoProc}
      BY <1>2 DEF ExitDetach, ExitStack, ExitSpace, ExitSlot, At, schedVars, ExitSteps,
         callVars
    <2>3. arg' = [arg EXCEPT ![t] = arg[t]]
      BY <1>t, <2>2, ArgKept
    <2>4. ~ InSomeList(t)
      BY <1>t, <2>2, NotListed DEF ExitSteps, LinkedSteps
    <2>5. Apart'
      BY <2>2 DEF ListInv, Apart
    <2>6. Removals'
      BY <1>r, <1>s, <2>1, <2>2, SameLengthened, CallKeepsRemovals
    <2> QED BY <1>t, <1>s, <2>1, <2>2, <2>3, <2>4, <2>5, <2>6, CallKeepsLists
            DEF InSomeList
  <1> QED BY <1>1, <1>2

\* Process p, which has been picked, becomes current_process and thread f,
\* which is p's own or on its way to p, is resumed.
LEMMA ResumeKeepsLists ==
    ASSUME KInv, SwitchInv, ListInv, NEW p, p = Idle \/ p \in Elems(ready),
           NEW f, cpu' \in {f, Panic}, current' = p,
           f \in Threads =>
                /\ pc[f] \notin NullSteps
                /\ pc[f] \in AfterSet => arg[f] = p
                /\ pc[f] \notin AfterSet => f = p,
           \A u \in Threads :
                \/ pc'[u] = pc[u]
                \/ u # f /\ pc[u] = "sched_jump" /\ pc'[u] = "gone",
           UNCHANGED <<ready, sleeping, waiting, arg, slot>>
    PROVE  ListInv'
  <1>1. /\ p \notin Elems(sleeping) \cup Elems(waiting)
        /\ \A u \in Threads : pc[u] \in CreateSteps => arg[u] # p
    BY PickedIsFree
  <1>2. Panic \notin Threads /\ \A q \in Procs : q \in Threads
    BY ThreadsAssumption DEF Threads
  <1>3. \A u \in Threads : pc[u] # "sched_jump" => pc'[u] = pc[u]
    OBVIOUS
  <1>4. Apart'
    BY DEF ListInv, Apart
  <1>5. ListedWhere'
    <2>1. \A q \in Procs : pc[q] \in LinkedSteps => pc'[q] = pc[q]
      BY <1>2, <1>3 DEF LinkedSteps
    <2> QED BY <2>1 DEF ListInv, ListedWhere, InSomeList
  <1>6. BlockedWhere'
    <2>1. ASSUME NEW q \in Elems(sleeping) \cup Elems(waiting)
          PROVE  pc'[q] = "yield" \/ (pc'[q] = "app" /\ cpu' # q)
      <3>1. q \in Threads /\ q # p
        BY <1>1, <2>1, ElemsKnown DEF InSomeList
      <3>2. pc[q] \in {"yield", "app"} /\ pc'[q] = pc[q]
        BY <1>3, <2>1, <3>1 DEF ListInv, BlockedWhere
      <3>3. cpu' # q \/ pc[q] \in AfterSet
        BY <1>2, <3>1
      <3> QED BY <3>2, <3>3 DEF AfterSet
    <2> QED BY <2>1 DEF BlockedWhere
  <1>7. PickIsReady'
    <2>1. ASSUME cpu' \in Threads, pc'[cpu'] \in {"sched_set"} \cup AfterSet
          PROVE  arg[cpu'] = p
      <3>1. cpu' = f /\ f \in Threads /\ pc'[f] = pc[f]
        BY <1>2, <2>1 DEF AfterSet
      <3> QED BY <2>1, <3>1 DEF NullSteps
    <2> QED BY <2>1 DEF PickIsReady
  <1>8. \A u \in Threads : pc'[u] \in CreateSteps => pc[u] \in CreateSteps
    BY DEF CreateSteps
  <1>9. StartsOne'
    BY <1>8 DEF ListInv, StartsOne
  <1>10. StartingWhere'
    <2>1. ASSUME NEW u \in Threads, pc[u] \in CreateSteps
          PROVE  /\ pc'[arg[u]] = "app" /\ ~ InSomeList(arg[u])
                 /\ arg[u] \notin {cpu', current'}
      <3>1. pc[arg[u]] = "app" /\ ~ InSomeList(arg[u]) /\ arg[u] # p
        BY <1>1, <2>1 DEF ListInv, StartingWhere
      <3>2. arg[u] \in Threads
        BY <1>2, <2>1, ArgIsKnown DEF UsesArg, CreateSteps
      <3>3. arg[u] # cpu'
        BY <1>2, <3>1, <3>2 DEF AfterSet
      <3> QED BY <1>3, <3>1, <3>2, <3>3
    <2> QED BY <1>8, <2>1 DEF StartingWhere, InSomeList
  <1>11. Removals'
    <2>1. {"sched_jump", "gone"} \cap (RemovalSteps \cup {"exit_unsleep_swap"}) = {}
          /\ Swaps \cup Searches \subseteq RemovalSteps
      BY DEF RemovalSteps, Searches, Swaps, Unsleeps
    <2>2. \A u \in Procs : pc'[u] = pc[u] \/ {pc[u], pc'[u]} \subseteq {"sched_jump", "gone"}
      BY <1>2
    <2> QED BY <2>1, <2>2 DEF ListInv, Removals
  <1> QED BY <1>4, <1>5, <1>6, <1>7, <1>9, <1>10, <1>11 DEF ListInv

LEMMA ScheduleKeepsLists ==
    ASSUME KInv, SwitchInv, RunInv, ListInv, NEW t \in Threads, ScheduleStep(t)
    PROVE  ListInv'
  <1>1. UNCHANGED <<ready, sleeping, waiting, slot>> /\ isr = 0 /\ cpu = t
    BY DEF ScheduleStep, ScheduleNext, ScheduleSet, ScheduleLoad, ScheduleJump,
       schedVars, callVars, At
  <1>2. Apart'
    BY <1>1 DEF ListInv, Apart
  <1>3. pc[t] \in {"sched_next"} \cup {"sched_set"} \cup AfterSet
    BY DEF ScheduleStep, ScheduleNext, ScheduleSet, ScheduleLoad, ScheduleJump, At,
       AfterSet
  <1>4. ~ InSomeList(t)
    BY <1>3, NotListed DEF LinkedSteps, AfterSet
  <1>k. arg = [arg EXCEPT ![t] = arg[t]]
    BY ArgKept
  <1>s. \A s \in {"sched_set", "sched_load", "sched_jump"} :
            /\ s \notin CreateSteps /\ s \notin RemovalSteps
            /\ s \notin Swaps /\ s \notin Searches /\ s # "exit_unsleep_swap"
    BY DEF CreateSteps, RemovalSteps, Searches, Swaps, Unsleeps
  <1>r. Removals /\ (t \in Procs => slot[t] = 1)
    <2>1. pc[t] \notin RemovalSteps
      BY <1>3 DEF AfterSet, RemovalSteps, Searches, Swaps, Unsleeps
    <2> QED BY <2>1 DEF ListInv, Removals
  <1>5. CASE ScheduleNext(t)
    <2>1. PICK next \in Procs : /\ scheduler_next(next)
                                /\ arg' = [arg EXCEPT ![t] = next]
      BY <1>5 DEF ScheduleNext
    <2>2. pc' = [pc EXCEPT ![t] = "sched_set"] /\ UNCHANGED <<cpu, current>>
      BY <1>5 DEF ScheduleNext, Goto
    <2>3. next = Idle \/ next \in Elems(ready)
      BY <2>1, NextIsReady
    <2>4. Removals'
      BY <1>1, <1>r, <1>s, <2>2 DEF Removals, KInv, FlatTypeOK, Threads
    <2> QED BY <1>1, <1>2, <1>4, <1>s, <2>1, <2>2, <2>3, <2>4, CallKeepsLists
            DEF InSomeList
  <1>6. CASE ScheduleSet(t) \/ ScheduleLoad(t)
    <2>1. /\ \E s \in {"sched_load", "sched_jump"} : pc' = [pc EXCEPT ![t] = s]
          /\ pc[t] \in {"sched_set"} \cup AfterSet
          /\ UNCHANGED <<cpu, arg>> /\ current' \in {current, arg[t]}
      BY <1>6 DEF ScheduleSet, ScheduleLoad, Goto, At, AfterSet
    <2>2. arg[t] = Idle \/ arg[t] \in Elems(ready)
      BY <1>1, <2>1 DEF ListInv, PickIsReady
    <2>3. current' \in {current, NoProc, Idle} \cup Elems(ready)
      BY <2>1, <2>2
    <2>4. Removals'
      BY <1>1, <1>r, <1>s, <2>1 DEF Removals, KInv, FlatTypeOK, Threads
    <2> QED BY <1>1, <1>2, <1>4, <1>k, <1>s, <2>1, <2>2, <2>3, <2>4, CallKeepsLists
            DEF InSomeList
  <1>7. CASE ScheduleJump(t)
    <2>1. /\ pc[t] = "sched_jump" /\ pc' = [pc EXCEPT ![t] = "gone"]
          /\ cpu' \in {reg[t], Panic}
          /\ UNCHANGED <<arg, current>>
      BY <1>7 DEF ScheduleJump, At, Goto, Resume
    <2>2. Jumping(t) /\ pc[t] \in AfterSet
      BY <1>1, <2>1 DEF Jumping, AfterSet
    <2>3. reg[t] # t /\ current = arg[t]
      BY <1>1, <2>2 DEF SwitchInv, RunningNotSaved, RunningWhere
    <2>4. reg[t] \in Threads =>
              /\ pc[reg[t]] \notin NullSteps
              /\ pc[reg[t]] \in AfterSet => arg[reg[t]] = arg[t]
              /\ pc[reg[t]] \notin AfterSet => reg[t] = arg[t]
      BY <2>2 DEF SwitchInv, SavedWhere, RunInv, ContextInv, OwnContext
    <2>5. arg[t] = Idle \/ arg[t] \in Elems(ready)
      BY <1>1, <2>2 DEF ListInv, PickIsReady
    <2>6. pc'[t] = "gone" /\ \A u \in Threads : u # t => pc'[u] = pc[u]
      BY <2>1 DEF KInv, FlatTypeOK
    <2>7. \A u \in Threads : \/ pc'[u] = pc[u]
                             \/ u # reg[t] /\ pc[u] = "sched_jump" /\ pc'[u] = "gone"
      BY <2>1, <2>3, <2>6
    <2> QED BY <1>1, <2>1, <2>3, <2>4, <2>5, <2>7, ResumeKeepsLists
  <1> QED BY <1>5, <1>6, <1>7 DEF ScheduleStep

LEMMA InterruptKeepsLists ==
    ASSUME KInv, SwitchInv, RunInv, ListInv, process_on_timer_interrupt
    PROVE  ListInv'
  <1> DEFINE saved == IF current \in {NoProc, Idle} THEN frame
                      ELSE [frame EXCEPT ![current] = cpu]
  <1>1. UNCHANGED <<ready, sleeping, waiting, pc, arg, slot>>
    BY DEF process_on_timer_interrupt, schedVars, callVars
  <1>2. PICK next \in Procs :
           /\ scheduler_next(next)
           /\ IF next = current
              THEN UNCHANGED <<current, cpu>>
              ELSE /\ current' = next
                   /\ Resume(saved[next], next, saved)
    BY DEF process_on_timer_interrupt
  <1>3. cpu \in Threads
    <2>1. isr > Len(sleeping) /\ Len(sleeping) \in Nat
      BY LenProperties DEF process_on_timer_interrupt, KInv, Lists
    <2> QED BY <2>1 DEF KInv, InterruptedThread, FlatTypeOK
  <1>4. next = Idle \/ next \in Elems(ready)
    BY <1>2, NextIsReady
  <1>5. CASE next = current
    <2>1. /\ pc[cpu] \notin NullSteps
          /\ pc[cpu] \in AfterSet => arg[cpu] = next
          /\ pc[cpu] \notin AfterSet => cpu = next
      BY <1>3, <1>5, ProcsAssumption
         DEF SwitchInv, RunningWhere, RunInv, ContextInv, RunsOwn
    <2>2. cpu' \in {cpu, Panic} /\ current' = next
      BY <1>2, <1>5
    <2> QED BY <1>1, <1>4, <2>1, <2>2, ResumeKeepsLists
  <1>6. CASE next # current
    <2>1. saved[next] = frame[next]
      BY <1>3, <1>6 DEF KInv, FlatTypeOK
    <2> HIDE DEF saved
    <2>2. cpu' \in {frame[next], Panic} /\ current' = next
      BY <1>2, <1>6, <2>1 DEF Resume
    <2>3. frame[next] \in Threads =>
              /\ pc[frame[next]] \notin NullSteps
              /\ pc[frame[next]] \in AfterSet => arg[frame[next]] = next
              /\ pc[frame[next]] \notin AfterSet => frame[next] = next
      BY DEF SwitchInv, SavedWhere, RunInv, ContextInv, OwnContext
    <2> QED BY <1>1, <1>4, <2>2, <2>3, ResumeKeepsLists
  <1> QED BY <1>5, <1>6

LEMMA SleeperKeepsLists ==
    ASSUME KInv, ListInv, TickSleeper
    PROVE  ListInv'
  <1>1. /\ isr \in 1 .. Len(sleeping)
        /\ WakeStep(isr)
        /\ UNCHANGED <<waiting, pc, arg, cpu, current, slot>>
    BY DEF TickSleeper, procVars, callVars
  <1>2. sleeping \in Seq(Known) /\ ready \in Seq(NotBehind)
        /\ Len(sleeping) \in Nat /\ DOMAIN sleeping = 1 .. Len(sleeping)
    BY LenProperties DEF KInv, Lists
  <1>3. isr \in DOMAIN sleeping /\ isr' # 0
    BY <1>1, <1>2 DEF TickSleeper
  <1> DEFINE p == sleeping[isr]
  <1>4. p \in Elems(sleeping)
    BY <1>3 DEF Elems
  <1>5. \/ /\ sleeping' = SwapRemove(sleeping, isr)
           /\ scheduler_add(p)
        \/ UNCHANGED <<sleeping, ready>>
    BY <1>1 DEF WakeStep
  <1>a. Apart
    BY DEF ListInv
  <1>6. /\ NoRepeat(SwapRemove(sleeping, isr))
        /\ Elems(SwapRemove(sleeping, isr)) = Elems(sleeping) \ {p}
    BY <1>2, <1>3, <1>a, SwapRemoveElems DEF Apart
  <1> HIDE DEF p
  <1>7. CASE sleeping' = SwapRemove(sleeping, isr) /\ scheduler_add(p)
    <2>1. NoRepeat(sleeping') /\ Elems(sleeping') = Elems(sleeping) \ {p}
      BY <1>6, <1>7
    <2>2. /\ NoRepeat(ready')
          /\ Elems(ready') \in {Elems(ready), Elems(ready) \cup {p}}
      BY <1>2, <1>4, <1>7, <1>a, AddElems DEF Apart
    <2>3. Apart'
      BY <1>1, <1>4, <1>a, <2>1, <2>2 DEF Apart
    <2>4. pc[p] \notin Searches
      BY <1>4 DEF ListInv, BlockedWhere, Searches
    <2>5. Lengthened
      BY <1>2, <1>7, <2>4, AddLengthens
    <2> QED BY <1>1, <1>3, <1>4, <2>1, <2>2, <2>3, <2>5, WakeKeepsLists DEF InSomeList
  <1>8. CASE UNCHANGED <<sleeping, ready>>
    <2>1. Apart'
      BY <1>1, <1>8, <1>a DEF Apart
    <2> QED BY <1>1, <1>3, <1>8, <2>1, SameLengthened, WakeKeepsLists DEF InSomeList
  <1> QED BY <1>5, <1>7, <1>8

LEMMA KeyboardKeepsLists ==
    ASSUME KInv, ListInv, KeyboardInterrupt
    PROVE  ListInv'
  <1>1. /\ waiting # << >> /\ waiting' = Tail(waiting) /\ scheduler_add(Head(waiting))
        /\ UNCHANGED <<sleeping, pc, arg, cpu, current, isr, slot>>
    BY DEF KeyboardInterrupt, wake_up_one, procVars, clockVars, callVars
  <1>2. waiting \in Seq(Known) /\ ready \in Seq(NotBehind)
    BY DEF KInv, Lists
  <1>a. Apart
    BY DEF ListInv
  <1>3. /\ NoRepeat(waiting') /\ Elems(waiting') = Elems(waiting) \ {Head(waiting)}
        /\ Head(waiting) \in Elems(waiting)
    BY <1>1, <1>2, <1>a, TailElems DEF Apart
  <1>4. /\ NoRepeat(ready')
        /\ Elems(ready') \in {Elems(ready), Elems(ready) \cup {Head(waiting)}}
    BY <1>1, <1>2, <1>3, <1>a, AddElems DEF Apart
  <1>5. Apart'
    BY <1>1, <1>3, <1>4, <1>a DEF Apart
  <1>6. pc[Head(waiting)] \notin Searches
    BY <1>3 DEF ListInv, BlockedWhere, Searches
  <1>7. Lengthened
    BY <1>1, <1>2, <1>6, AddLengthens
  <1> QED BY <1>1, <1>3, <1>4, <1>5, <1>7, WakeKeepsLists DEF InSomeList

LEMMA InitLists == Init => ListInv
  <1> SUFFICES ASSUME Init PROVE ListInv
    OBVIOUS
  <1>1. PICK loaded \in BOOLEAN :
          LET created == IF loaded THEN {Idle, First} ELSE {Idle} IN
          /\ ready = (IF loaded THEN <<First>> ELSE << >>)
          /\ pc = [t \in Threads |-> CASE t = Boot -> "sched_next"
                                       [] t = Idle -> "halt"
                                       [] t \in created \ {Idle} -> "app"
                                       [] OTHER -> "none"]
    BY DEF Init, SchedInit
  <1>2. sleeping = << >> /\ waiting = << >> /\ cpu = Boot
        /\ slot = [t \in Threads |-> 1]
    BY DEF Init, SchedInit
  <1> DEFINE created == IF loaded THEN {Idle, First} ELSE {Idle}
  <1>3. /\ pc = [t \in Threads |-> CASE t = Boot -> "sched_next"
                                     [] t = Idle -> "halt"
                                     [] t \in created \ {Idle} -> "app"
                                     [] OTHER -> "none"]
        /\ Boot \notin created /\ Boot # Idle /\ Boot \in Threads
        /\ First \in Threads /\ First # Idle /\ First # Boot
        /\ loaded => First \in created
    BY <1>1, ThreadsAssumption, ProcsAssumption DEF Threads
  <1> HIDE DEF created
  <1>4. pc[Boot] = "sched_next"
    BY <1>3
  <1>5. loaded => pc[First] = "app"
    BY <1>3
  <1>6. \A t \in Threads : pc[t] \in {"sched_next", "halt", "app", "none"}
    <2>1. ASSUME NEW t \in Threads PROVE pc[t] \in {"sched_next", "halt", "app", "none"}
      <3>1. pc[t] = CASE t = Boot -> "sched_next"
                      [] t = Idle -> "halt"
                      [] t \in created \ {Idle} -> "app"
                      [] OTHER -> "none"
        BY <1>3
      <3>2. CASE t = Boot
        BY <1>4, <3>2
      <3>3. CASE t = Idle
        BY <1>3, <3>1, <3>3
      <3>4. CASE t # Boot /\ t # Idle /\ t \in created
        BY <3>1, <3>4
      <3>5. CASE t # Boot /\ t # Idle /\ t \notin created
        BY <3>1, <3>5
      <3> QED BY <3>2, <3>3, <3>4, <3>5
    <2> QED BY <2>1
  <1>7. Elems(sleeping) = {} /\ Elems(waiting) = {}
        /\ NoRepeat(sleeping) /\ NoRepeat(waiting)
    BY <1>2 DEF Elems, NoRepeat
  <1>8. NoRepeat(ready) /\ \A p \in Elems(ready) : loaded /\ p = First
    BY <1>1 DEF Elems, NoRepeat
  <1>9. Apart
    BY <1>7, <1>8 DEF Apart
  <1>10. ListedWhere
    BY <1>5, <1>7, <1>8 DEF ListedWhere, InSomeList, LinkedSteps
  <1>11. BlockedWhere
    BY <1>7 DEF BlockedWhere
  <1>12. PickIsReady
    BY <1>2, <1>4 DEF PickIsReady, AfterSet
  <1>13. StartsOne /\ StartingWhere
    BY <1>6 DEF StartsOne, StartingWhere, CreateSteps
  <1>14. Removals
    <2>1. {"sched_next", "halt", "app", "none"} \cap RemovalSteps = {}
          /\ Swaps \cup Searches \cup {"exit_unsleep_swap"} \subseteq RemovalSteps
      BY DEF RemovalSteps, Searches, Swaps, Unsleeps
    <2>2. \A t \in Procs : t \in Threads /\ slot[t] = 1
      BY <1>2 DEF Threads
    <2>3. \A t \in Procs : pc[t] \notin RemovalSteps
      BY <1>6, <2>1, <2>2
    <2> QED BY <2>1, <2>2, <2>3 DEF Removals
  <1> QED BY <1>9, <1>10, <1>11, <1>12, <1>13, <1>14 DEF ListInv

\* What one removal has done to another is not undone.
LEMMA OvertakenStays == overtaken \in BOOLEAN /\ [Next]_vars => (overtaken => overtaken')
  <1> SUFFICES ASSUME overtaken = TRUE, [Next]_vars PROVE overtaken'
    OBVIOUS
  <1>1. CASE \/ TimerInterrupt \/ TickSleeper \/ process_on_timer_interrupt
             \/ KeyboardInterrupt \/ UNCHANGED vars
    BY <1>1 DEF TimerInterrupt, EnterTimer, TickSleeper, process_on_timer_interrupt,
       KeyboardInterrupt, vars, callVars
  <1>2. ASSUME NEW t \in Procs, AppStep(t) PROVE overtaken'
    <2>1. CASE SearchReady(t) \/ SearchSleeping(t) \/ SwapSleeping(t)
      BY <2>1 DEF SearchReady, SearchSleeping, Search, SwapSleeping
    <2>2. CASE SwapReady(t)
      BY <2>2 DEF SwapReady, Swap
    <2>3. CASE ~ (SearchReady(t) \/ SearchSleeping(t) \/ SwapSleeping(t) \/ SwapReady(t))
      BY <1>2, <2>3 DEF AppStep, sleep, sleep_ms, BeginSleep, SleepAdd, wait, WaitAdd,
         Yield, EnterTimer, Create, CreateNoStack, Register, process_start, Link,
         ExitBegin, ExitDetach, ExitStack, ExitSpace, ExitSlot, callVars
    <2> QED BY <2>1, <2>2, <2>3
  <1>3. ASSUME NEW t \in Threads, ScheduleStep(t) PROVE overtaken'
    BY <1>3 DEF ScheduleStep, ScheduleNext, ScheduleSet, ScheduleLoad, ScheduleJump,
       callVars
  <1> QED BY <1>1, <1>2, <1>3 DEF Next, Stopped

LEMMA NextLists == KInv /\ SwitchInv /\ RunInv /\ ListsHold /\ [Next]_vars => ListsHold'
  <1> SUFFICES ASSUME KInv, SwitchInv, RunInv, ListsHold, [Next]_vars, ~ overtaken'
               PROVE  ListInv'
    BY DEF ListsHold
  <1>0. ListInv
    BY OvertakenStays DEF ListsHold, KInv, FlatTypeOK
  <1>1. CASE TimerInterrupt \/ UNCHANGED vars
    <2>1. /\ UNCHANGED <<ready, sleeping, waiting, pc, arg, cpu, current, slot>>
          /\ isr' = isr \/ isr' # 0
      BY <1>1 DEF TimerInterrupt, EnterTimer, procVars, vars, schedVars, clockVars,
         callVars
    <2>2. Apart'
      BY <1>0, <2>1 DEF ListInv, Apart
    <2> QED BY <1>0, <2>1, <2>2, SameLengthened, WakeKeepsLists DEF InSomeList
  <1>2. ASSUME NEW t \in Procs, AppStep(t) PROVE ListInv'
    BY <1>0, <1>2, SleepKeepsLists, WaitKeepsLists, RemoveKeepsLists, StartKeepsLists,
       CreateKeepsLists, ExitKeepsLists DEF AppStep
  <1>3. ASSUME NEW t \in Threads, ScheduleStep(t) PROVE ListInv'
    BY <1>0, <1>3, ScheduleKeepsLists
  <1> QED BY <1>0, <1>1, <1>2, <1>3, SleeperKeepsLists, KeyboardKeepsLists,
             InterruptKeepsLists DEF Next, Stopped

LEMMA ListInvariant == Spec => []ListsHold
  <1>1. Init => ListsHold
    BY InitLists DEF ListsHold
  <1> QED BY <1>1, NextLists, KernelInvariant, SwitchInvariant, RunInvariant,
             PTL DEF Spec

---------------------------------------------------------------------------
(* Nothing points at a process that has been given back.                   *)

LEMMA ListedIsLive ==
    ASSUME KInv, SwitchInv, RunInv, ListInv, NEW p, p = Idle \/ InSomeList(p)
    PROVE  Live(p)
  <1>1. p \in Procs /\ pc[p] \in LinkedSteps \cup {"halt"}
    BY ProcsAssumption, ElemsKnown DEF ListInv, ListedWhere, SwitchInv, IdleHalted
  <1>2. pc[p] \in OutsideSteps
    BY <1>1 DEF OutsideSteps, LinkedSteps, RemovalSteps, Searches, Swaps
  <1> QED BY <1>1, <1>2 DEF RunInv, HeldInv, HeldOutside, Live

\* A step that frees nothing and switches to a process that has been picked.
LEMMA SwitchKeepsLive ==
    ASSUME KInv, SwitchInv, RunInv, ListInv, LiveInv,
           current' \in {current, NoProc, Idle} \cup Elems(ready),
           UNCHANGED <<held, table, pid>>
    PROVE  LiveInv'
  <1>1. Live(Idle) /\ \A p \in Elems(ready) : Live(p)
    BY ListedIsLive DEF InSomeList
  <1> QED BY <1>1 DEF LiveInv, CurrentLive, TableLive, Live

LEMMA AppKeepsLive ==
    ASSUME KInv, SwitchInv, RunInv, ListInv, LiveInv, NEW t \in Procs, AppStep(t)
    PROVE  LiveInv'
  <1>t. t \in Threads
    BY DEF Threads
  <1>h. /\ held \in [Procs -> SUBSET Parts] /\ pid \in [Procs -> Nat]
        /\ table \in [Pids -> Procs \cup {NoProc}]
        /\ current \in Procs \cup {NoProc}
    BY DEF KInv, FlatTypeOK, Pointers, Known
  <1>1. CASE Register(t)
    <2>1. /\ pc[t] = "register" /\ table' = [table EXCEPT ![pid[arg[t]]] = arg[t]]
          /\ UNCHANGED <<held, pid, current>>
      BY <1>1 DEF Register, At
    <2>2. arg[t] \in Procs /\ pc[arg[t]] = "app"
      BY <1>t, <2>1, ArgIsKnown DEF UsesArg, ListInv, StartingWhere, CreateSteps
    <2>3. Live(arg[t])
      BY <2>2 DEF RunInv, HeldInv, HeldOutside, OutsideSteps, Live
    <2>4. \A i \in Pids : \/ table'[i] = table[i]
                          \/ i = pid[arg[t]] /\ table'[i] = arg[t]
      BY <1>h, <2>1
    <2> QED BY <2>1, <2>3, <2>4 DEF LiveInv, CurrentLive, TableLive, Live
  <1>2. CASE ExitStack(t) \/ ExitSpace(t)
    <2>1. /\ \E parts \in SUBSET (Parts \ {"pcb"}) :
                held' = [held EXCEPT ![arg[t]] = @ \ parts]
          /\ UNCHANGED <<table, pid, current>>
      BY <1>2 DEF ExitStack, ExitSpace, Parts
    <2>2. \A p \in Procs : Live(p)' = Live(p)
      BY <1>h, <2>1 DEF Live
    <2> QED BY <1>h, <2>1, <2>2 DEF LiveInv, CurrentLive, TableLive
  <1>3. CASE ExitSlot(t)
    <2>1. /\ cpu = t /\ pc[t] = "exit_slot"
          /\ table' = [table EXCEPT ![pid[arg[t]]] = NoProc]
          /\ held' = [held EXCEPT ![arg[t]] = @ \ {"pcb"}]
          /\ UNCHANGED <<pid, current>>
      BY <1>3 DEF ExitSlot, At
    <2>2. arg[t] = t /\ current = NoProc
      BY <1>t, <2>1 DEF RunInv, HeldInv, OwnCall, OwnSteps, ExitSteps, SwitchInv,
         RunningWhere, NullSteps
    <2>3. \A p \in Procs : p # t => Live(p)' = Live(p)
      BY <1>h, <2>1, <2>2 DEF Live
    <2>4. \A i \in Pids : \/ table'[i] = NoProc
                          \/ table'[i] = table[i] /\ i # pid[t]
      BY <1>h, <2>1, <2>2
    <2> QED BY <1>h, <2>1, <2>2, <2>3, <2>4 DEF LiveInv, CurrentLive, TableLive
  <1>4. CASE Create(t) \/ CreateNoStack(t)
    <2>1. PICK p \in Unused, parts \in SUBSET Parts :
             held' = [held EXCEPT ![p] = parts]
             /\ \A q \in Procs : q # p => pid'[q] = pid[q]
      <3>1. CASE Create(t)
        BY <1>h, <3>1 DEF Create, Parts
      <3>2. CASE CreateNoStack(t)
        BY <3>2 DEF CreateNoStack, Parts
      <3> QED BY <1>4, <3>1, <3>2
    <2>2. UNCHANGED <<table, current>>
      BY <1>4 DEF Create, CreateNoStack
    <2>3. p \in Procs /\ ~ Live(p)
      BY DEF Unused, Live
    <2>4. \A q \in Procs : Live(q) => Live(q)' /\ pid'[q] = pid[q]
      BY <1>h, <2>1, <2>3 DEF Live
    <2> QED BY <1>h, <2>2, <2>4 DEF LiveInv, CurrentLive, TableLive
  <1>5. CASE ~ (\/ Register(t) \/ ExitStack(t) \/ ExitSpace(t) \/ ExitSlot(t)
                \/ Create(t) \/ CreateNoStack(t))
    <2>1. UNCHANGED <<held, table, pid>> /\ current' \in {current, NoProc}
      BY <1>5 DEF AppStep, sleep, sleep_ms, BeginSleep, SleepAdd, wait, WaitAdd, Yield,
         SearchReady, SearchSleeping, Search, SwapReady, Swap, SwapSleeping,
         process_start, Link, ExitBegin, ExitDetach
    <2> QED BY <2>1, SwitchKeepsLive
  <1> QED BY <1>1, <1>2, <1>3, <1>4, <1>5

LEMMA NextLive ==
    KInv /\ SwitchInv /\ RunInv /\ ListsHold /\ LiveHolds /\ [Next]_vars => LiveHolds'
  <1> SUFFICES ASSUME KInv, SwitchInv, RunInv, ListsHold, LiveHolds, [Next]_vars,
                      ~ overtaken'
               PROVE  LiveInv'
    BY DEF LiveHolds
  <1>0. ListInv /\ LiveInv
    BY OvertakenStays DEF ListsHold, LiveHolds, KInv, FlatTypeOK
  <1>1. CASE TimerInterrupt \/ TickSleeper \/ KeyboardInterrupt \/ UNCHANGED vars
    BY <1>0, <1>1, SwitchKeepsLive DEF TimerInterrupt, TickSleeper, KeyboardInterrupt,
       procVars, vars
  <1>2. CASE process_on_timer_interrupt
    <2>1. PICK next : scheduler_next(next) /\ current' \in {current, next}
      BY <1>2 DEF process_on_timer_interrupt
    <2> QED BY <1>0, <1>2, <2>1, NextIsReady, SwitchKeepsLive
            DEF process_on_timer_interrupt
  <1>3. ASSUME NEW t \in Procs, AppStep(t) PROVE LiveInv'
    BY <1>0, <1>3, AppKeepsLive
  <1>4. ASSUME NEW t \in Threads, ScheduleStep(t) PROVE LiveInv'
    <2>1. /\ UNCHANGED <<held, table, pid>>
          /\ current' = current \/ ScheduleSet(t)
      BY <1>4 DEF ScheduleStep, ScheduleNext, ScheduleLoad, ScheduleJump, ScheduleSet
    <2>2. CASE current' = current
      BY <1>0, <2>1, <2>2, SwitchKeepsLive
    <2>3. CASE ScheduleSet(t)
      <3>1. cpu = t /\ pc[t] = "sched_set" /\ current' = arg[t]
        BY <2>3 DEF ScheduleSet, At
      <3>2. arg[t] = Idle \/ arg[t] \in Elems(ready)
        BY <1>0, <3>1 DEF ListInv, PickIsReady
      <3> QED BY <1>0, <2>1, <3>1, <3>2, SwitchKeepsLive
    <2> QED BY <2>1, <2>2, <2>3
  <1> QED BY <1>1, <1>2, <1>3, <1>4 DEF Next, Stopped

LEMMA InitLive == Init => LiveInv
  <1> SUFFICES ASSUME Init PROVE LiveInv
    OBVIOUS
  <1>1. PICK loaded \in BOOLEAN :
          LET created == IF loaded THEN {Idle, First} ELSE {Idle} IN
          /\ pid = [p \in Procs |-> CASE p = Idle -> 1
                                      [] p \in created \ {Idle} -> 2
                                      [] OTHER -> 0]
          /\ table = [i \in Pids |-> CASE i = 1 -> Idle
                                       [] i = 2 /\ loaded -> First
                                       [] OTHER -> NoProc]
          /\ held = [p \in Procs |-> CASE p = Idle -> Parts \ {"context"}
                                       [] p \in created \ {Idle} -> Parts
                                       [] OTHER -> {}]
    BY DEF Init
  <1>2. Idle \in Procs /\ First \in Procs /\ First # Idle
    BY ThreadsAssumption, ProcsAssumption
  <1>3. pid[Idle] = 1 /\ Live(Idle)
    BY <1>1, <1>2 DEF Live, Parts
  <1>4. loaded => pid[First] = 2 /\ Live(First)
    BY <1>1, <1>2 DEF Live, Parts
  <1>5. ASSUME NEW i \in Pids
        PROVE  \/ i = 1 /\ table[i] = Idle
               \/ i = 2 /\ loaded /\ table[i] = First
               \/ table[i] = NoProc
    BY <1>1
  <1>6. current = NoProc
    BY DEF Init
  <1> QED BY <1>3, <1>4, <1>5, <1>6 DEF LiveInv, CurrentLive, TableLive

LEMMA LiveInvariant == Spec => []LiveHolds
  <1>1. Init => LiveHolds
    BY InitLive DEF LiveHolds
  <1> QED BY <1>1, NextLive, KernelInvariant, SwitchInvariant, RunInvariant,
             ListInvariant, PTL DEF Spec

\* No list, no slot of process_table and not current_process points at a
\* process_t that process_exit_current has given back to the heap, wherever
\* the timer and the keyboard interrupt removal, exit and creation, full lists
\* included, for as long as no removal has fallen inside another one.
THEOREM NeverDangling == Spec => []NoDangling
  <1>1. KInv /\ SwitchInv /\ RunInv /\ ListsHold /\ LiveHolds => NoDangling
    BY ListedIsLive, ProcsAssumption
       DEF NoDangling, ListsHold, LiveHolds, LiveInv, CurrentLive, TableLive
  <1> QED BY <1>1, KernelInvariant, SwitchInvariant, RunInvariant, ListInvariant,
             LiveInvariant, PTL

---------------------------------------------------------------------------
(* As long as no list is full when a process is to be linked, none is      *)
(* lost: every started process outside the unlinked part of a call is in   *)
(* a list.                                                                 *)

Roomy == /\ Len(ready) < MaxProcesses
         /\ Len(sleeping) < MaxProcesses
         /\ Len(waiting) < WaitQueueMax

AllListed ==
    \A p \in Procs : pc[p] \in LinkedSteps /\ ~ Starting(p) => InSomeList(p)

ListedHolds == ~ overtaken => AllListed

\* A step that moves no thread and unlinks nothing for good.
LEMMA SameKeepsListed ==
    ASSUME AllListed, UNCHANGED <<pc, arg>>,
           \A p : InSomeList(p) => InSomeList(p)'
    PROVE  AllListed'
  <1> QED BY DEF AllListed, Starting

\* A step of thread t.  It may unlink t, if it takes t to an unlinked step,
\* and it has linked the process it was to start when it leaves creation.
LEMMA CallKeepsListed ==
    ASSUME KInv, AllListed, NEW t \in Threads,
           NEW s, NEW a, pc' = [pc EXCEPT ![t] = s], arg' = [arg EXCEPT ![t] = a],
           \A p : p # t /\ InSomeList(p) => InSomeList(p)',
           s \in LinkedSteps =>
               InSomeList(t)' \/ (pc[t] \in LinkedSteps /\ (InSomeList(t) => InSomeList(t)')),
           \A p : pc[t] \in CreateSteps /\ p = arg[t] =>
               InSomeList(p)' \/ (s \in CreateSteps /\ a = p)
    PROVE  AllListed'
  <1>1. /\ pc'[t] = s /\ arg'[t] = a
        /\ \A u \in Threads : u # t => pc'[u] = pc[u] /\ arg'[u] = arg[u]
    BY MovesOne
  <1>2. \A p \in Procs : p \in Threads
    BY DEF Threads
  <1>3. ASSUME NEW p \in Procs, Starting(p) PROVE Starting(p)' \/ InSomeList(p)'
    <2>1. PICK u \in Procs : pc[u] \in CreateSteps /\ arg[u] = p
      BY <1>3 DEF Starting, CreateSteps
    <2>2. CASE u # t
      <3>1. pc'[u] \in CreateSteps /\ arg'[u] = p
        BY <1>1, <1>2, <2>1, <2>2
      <3> QED BY <3>1 DEF Starting, CreateSteps
    <2>3. CASE u = t
      BY <1>1, <2>1, <2>3 DEF Starting, CreateSteps
    <2> QED BY <2>2, <2>3
  <1>4. ASSUME NEW p \in Procs, pc'[p] \in LinkedSteps, ~ Starting(p)'
        PROVE  InSomeList(p)'
    <2>1. ~ Starting(p) \/ InSomeList(p)'
      BY <1>3, <1>4
    <2>2. CASE p # t
      BY <1>1, <1>2, <1>4, <2>1, <2>2 DEF AllListed
    <2>3. CASE p = t
      BY <1>1, <1>4, <2>1, <2>3 DEF AllListed
    <2> QED BY <2>2, <2>3
  <1> QED BY <1>4 DEF AllListed

LEMMA RoomyAdd ==
    ASSUME KInv, ListInv, Roomy, NEW p, p \notin Elems(ready), scheduler_add(p)
    PROVE  Elems(ready') = Elems(ready) \cup {p}
  <1>1. ready \in Seq(NotBehind) /\ NoRepeat(ready)
    BY DEF KInv, Lists, ListInv, Apart
  <1>2. ~ (Len(ready) >= MaxProcesses)
    BY <1>1, LenProperties, CapacityAssumption DEF Roomy
  <1> QED BY <1>1, <1>2, AddElems

\* Sleep and wait unlink their own process and link it again.
LEMMA BlockKeepsListed ==
    ASSUME KInv, SwitchInv, RunInv, ListInv, AllListed, Roomy, NEW t \in Procs,
           \/ sleep(t) \/ sleep_ms(t) \/ SleepAdd(t)
           \/ wait(t) \/ WaitAdd(t) \/ Yield(t)
    PROVE  AllListed'
  <1>t. t \in Threads
    BY DEF Threads
  <1>k. arg = [arg EXCEPT ![t] = arg[t]]
    BY <1>t, ArgKept
  <1>l. /\ ready \in Seq(NotBehind) /\ NoRepeat(ready)
        /\ sleeping \in Seq(Known) /\ NoRepeat(sleeping)
        /\ waiting \in Seq(Known) /\ NoRepeat(waiting)
        /\ Len(sleeping) \in Nat /\ Len(waiting) \in Nat
    BY LenProperties DEF KInv, Lists, ListInv, Apart
  <1>1. CASE sleep(t) \/ sleep_ms(t) \/ wait(t) \/ Yield(t)
    <2>1. /\ \E s, a :
                 /\ s \in {"sleep_remove", "wait_remove", "app"}
                 /\ pc' = [pc EXCEPT ![t] = s]
                 /\ arg' = [arg EXCEPT ![t] = a]
          /\ pc[t] \in {"app", "yield"}
          /\ UNCHANGED <<ready, sleeping, waiting>>
      BY <1>1, <1>k DEF sleep, sleep_ms, BeginSleep, wait, Yield, Enter, At, Goto,
         schedVars
    <2> QED BY <1>t, <2>1, CallKeepsListed DEF InSomeList, LinkedSteps, CreateSteps
  <1>3. CASE SleepAdd(t) \/ WaitAdd(t)
    <2>1. /\ pc' = [pc EXCEPT ![t] = "yield"]
          /\ cpu = t /\ pc[t] \in {"sleep_add", "wait_add"}
          /\ \/ sleeping' = Append(sleeping, arg[t]) /\ waiting' = waiting
             \/ waiting' = Append(waiting, arg[t]) /\ sleeping' = sleeping
          /\ UNCHANGED <<ready, arg>>
      BY <1>3, <1>l, CapacityAssumption DEF SleepAdd, WaitAdd, add_to_sleep, Enqueue,
         Roomy, At, Goto
    <2>2. arg[t] = t
      BY <2>1 DEF RunInv, HeldInv, OwnCall, OwnSteps
    <2>3. t \notin Elems(sleeping) /\ t \notin Elems(waiting)
      BY <1>t, <2>1, NotListed DEF InSomeList, LinkedSteps
    <2>4. /\ Elems(Append(sleeping, t)) = Elems(sleeping) \cup {t}
          /\ Elems(Append(waiting, t)) = Elems(waiting) \cup {t}
      BY <1>l, <2>3, AppendElems
    <2>5. \/ Elems(sleeping') = Elems(sleeping) \cup {t} /\ waiting' = waiting
          \/ Elems(waiting') = Elems(waiting) \cup {t} /\ sleeping' = sleeping
      BY <2>1, <2>2, <2>4
    <2>6. \A p : p = t \/ InSomeList(p) => InSomeList(p)'
      BY <2>1, <2>5 DEF InSomeList
    <2> QED BY <1>t, <1>k, <2>1, <2>6, CallKeepsListed DEF CreateSteps
  <1> QED BY <1>1, <1>3

\* A removal unlinks its own process, and takes it to an unlinked step.
LEMMA RemoveKeepsListed ==
    ASSUME KInv, SwitchInv, RunInv, ListInv, AllListed, NEW t \in Procs,
           SearchReady(t) \/ SwapReady(t) \/ SearchSleeping(t) \/ SwapSleeping(t)
    PROVE  AllListed'
  <1>t. t \in Threads
    BY DEF Threads
  <1>k. arg = [arg EXCEPT ![t] = arg[t]]
    BY <1>t, ArgKept
  <1>1. CASE SearchReady(t) \/ SearchSleeping(t)
    <2>1. UNCHANGED <<ready, sleeping, waiting>>
      BY <1>1 DEF SearchReady, SearchSleeping, Search, schedVars
    <2>2. PICK s : /\ pc' = [pc EXCEPT ![t] = s] /\ pc[t] \notin CreateSteps
                   /\ s \in LinkedSteps => pc[t] \in LinkedSteps
                   /\ arg' = arg
      <3>1. CASE SearchReady(t)
        <4>1. PICK here \in Searches, swap \in Swaps,
                   done \in {"sleep_add", "wait_add", "exit_unsleep"} :
                 Search(t, ready, here, swap, done)
          BY <3>1 DEF SearchReady, Searches, Swaps
        <4>2. pc[t] = here /\ arg' = arg
              /\ \E s \in {here, swap, done} : pc' = [pc EXCEPT ![t] = s]
          BY <4>1, SearchMoves
        <4>3. here \in LinkedSteps /\ here \notin CreateSteps
          BY DEF Searches, LinkedSteps, CreateSteps
        <4> QED BY <4>2, <4>3
      <3>2. CASE SearchSleeping(t)
        <4>1. pc[t] = "exit_unsleep" /\ arg' = arg
              /\ \E s \in {"exit_unsleep", "exit_unsleep_swap", "exit_detach"} :
                    pc' = [pc EXCEPT ![t] = s]
          BY <3>2, SearchMoves DEF SearchSleeping
        <4> QED BY <4>1 DEF LinkedSteps, CreateSteps
      <3> QED BY <1>1, <3>1, <3>2
    <2>3. arg' = [arg EXCEPT ![t] = arg[t]]
      BY <1>k, <2>2
    <2>4. \A p : InSomeList(p) => InSomeList(p)'
      BY <2>1 DEF InSomeList
    <2> QED BY <1>t, <2>2, <2>3, <2>4, CallKeepsListed
  <1>2. CASE SwapReady(t)
    <2>1. /\ pc[t] \in Swaps /\ ready' = SwapRemove(ready, slot[t])
          /\ \E s \in {"sleep_add", "wait_add", "exit_unsleep"} :
                pc' = [pc EXCEPT ![t] = s]
          /\ UNCHANGED <<sleeping, waiting, arg>>
      BY <1>2 DEF SwapReady, Swap, Swaps, At, Goto
    <2>2. slot[t] \in DOMAIN ready /\ ready[slot[t]] = t
      BY <2>1 DEF ListInv, Removals
    <2>3. Elems(ready') = Elems(ready) \ {t}
      BY <2>1, <2>2, SwapRemoveElems DEF ListInv, Apart, KInv, Lists
    <2>4. \A s \in {"sleep_add", "wait_add", "exit_unsleep"} : s \notin LinkedSteps
      BY DEF LinkedSteps
    <2>5. \A p : p # t /\ InSomeList(p) => InSomeList(p)'
      BY <2>1, <2>3 DEF InSomeList
    <2>6. pc[t] \notin CreateSteps
      BY <2>1 DEF Swaps, CreateSteps
    <2> QED BY <1>t, <1>k, <2>1, <2>4, <2>5, <2>6, CallKeepsListed
  <1>3. ~ SwapSleeping(t)
    BY DEF SwapSleeping, At, ListInv, Removals
  <1> QED BY <1>1, <1>2, <1>3

\* A process that is created is in no list, but then it is being started.
LEMMA StartKeepsListed ==
    ASSUME KInv, SwitchInv, ListInv, AllListed, Roomy, NEW t \in Procs,
           \/ Create(t) \/ CreateNoStack(t) \/ Register(t) \/ process_start(t)
           \/ Link(t)
    PROVE  AllListed'
  <1>t. t \in Threads
    BY DEF Threads
  <1>k. arg = [arg EXCEPT ![t] = arg[t]]
    BY <1>t, ArgKept
  <1>1. CASE Create(t)
    <2>1. PICK p \in Unused :
             /\ arg' = [arg EXCEPT ![t] = p]
             /\ pc' = [pc EXCEPT ![t] = "register", ![p] = "app"]
      BY <1>1 DEF Create
    <2>2. /\ pc[t] = "app" /\ UNCHANGED <<ready, sleeping, waiting>>
      BY <1>1 DEF Create, Enter, At
    <2>3. p \in Procs /\ p \in Threads /\ p # t
      BY <2>1, <2>2 DEF Unused, Threads
    <2>4. pc'[t] = "register" /\ \A u \in Threads : u # t /\ u # p => pc'[u] = pc[u]
      BY <1>t, <2>1, <2>3 DEF KInv, FlatTypeOK
    <2>5. arg'[t] = p /\ \A u \in Threads : u # t => arg'[u] = arg[u]
      BY <1>t, <2>1 DEF KInv, Pointers
    <2>6. Starting(p)'
      BY <2>4, <2>5 DEF Starting
    <2>7. ASSUME NEW q \in Procs, q # p, pc'[q] \in LinkedSteps, ~ Starting(q)'
          PROVE  InSomeList(q)
      <3>1. pc[q] \in LinkedSteps /\ \A u \in Procs : u \in Threads
        BY <2>2, <2>4, <2>7 DEF Threads, LinkedSteps
      <3>2. ASSUME NEW u \in Procs, pc[u] \in CreateSteps, arg[u] = q PROVE FALSE
        <4>1. u # t /\ u # p
          BY <2>1, <2>2, <3>2 DEF CreateSteps, Unused
        <4>2. pc'[u] \in CreateSteps /\ arg'[u] = q
          BY <2>4, <2>5, <3>1, <3>2, <4>1
        <4> QED BY <2>7, <4>2 DEF Starting, CreateSteps
      <3>3. ~ Starting(q)
        BY <3>2 DEF Starting, CreateSteps
      <3> QED BY <3>1, <3>3 DEF AllListed
    <2> QED BY <2>2, <2>6, <2>7 DEF AllListed, InSomeList
  <1>2. CASE CreateNoStack(t)
    BY <1>2, SameKeepsListed DEF CreateNoStack, schedVars, InSomeList
  <1>3. CASE Register(t)
    <2>1. /\ pc[t] = "register" /\ pc' = [pc EXCEPT ![t] = "start"]
          /\ UNCHANGED <<ready, sleeping, waiting, arg>>
      BY <1>3 DEF Register, At, Goto, schedVars
    <2> QED BY <1>t, <1>k, <2>1, CallKeepsListed DEF InSomeList, LinkedSteps, CreateSteps
  <1>4. CASE process_start(t)
    <2>1. ~ (Len(ready) >= MaxProcesses)
      BY LenProperties, CapacityAssumption DEF Roomy, KInv, Lists
    <2>2. /\ pc[t] = "start" /\ pc' = [pc EXCEPT ![t] = "link"]
          /\ UNCHANGED <<ready, sleeping, waiting, arg>>
      BY <1>4, <2>1 DEF process_start, At, Goto
    <2> QED BY <1>t, <1>k, <2>2, CallKeepsListed DEF InSomeList, LinkedSteps, CreateSteps
  <1>5. CASE Link(t)
    <2>1. /\ pc[t] = "link" /\ ready' = Append(ready, arg[t])
          /\ pc' = [pc EXCEPT ![t] = "app"]
          /\ UNCHANGED <<sleeping, waiting, arg>>
      BY <1>5 DEF Link, LinkNew, At, Goto
    <2>2. arg[t] \notin Elems(ready)
      BY <1>t, <2>1 DEF ListInv, StartingWhere, InSomeList, CreateSteps
    <2>3. Elems(ready') = Elems(ready) \cup {arg[t]}
      BY <2>1, <2>2, AppendElems DEF KInv, Lists, ListInv, Apart
    <2> QED BY <1>t, <1>k, <2>1, <2>3, CallKeepsListed
            DEF InSomeList, LinkedSteps, CreateSteps
  <1> QED BY <1>1, <1>2, <1>3, <1>4, <1>5

\* Exit begins with a removal and links nothing.
LEMMA ExitKeepsListed ==
    ASSUME KInv, SwitchInv, RunInv, ListInv, AllListed, NEW t \in Procs,
           ExitBegin(t) \/ ExitDetach(t) \/ ExitStack(t) \/ ExitSpace(t) \/ ExitSlot(t)
    PROVE  AllListed'
  <1>t. t \in Threads
    BY DEF Threads
  <1>1. CASE ExitBegin(t)
    <2>1. /\ pc[t] = "app"
          /\ pc' = [pc EXCEPT ![t] = "exit_remove"]
          /\ arg' = [arg EXCEPT ![t] = current]
          /\ UNCHANGED <<ready, sleeping, waiting>>
      BY <1>1 DEF ExitBegin, Enter, At, Goto, schedVars
    <2> QED BY <1>t, <2>1, CallKeepsListed DEF InSomeList, LinkedSteps, CreateSteps
  <1>2. CASE ExitDetach(t) \/ ExitStack(t) \/ ExitSpace(t) \/ ExitSlot(t)
    <2>1. /\ pc[t] \in ExitSteps
          /\ UNCHANGED <<ready, sleeping, waiting, arg>>
      BY <1>2 DEF ExitDetach, ExitStack, ExitSpace, ExitSlot, At, schedVars, ExitSteps
    <2>2. PICK s \in {"exit_stack", "exit_space", "exit_slot", "sched_next"} :
              pc' = [pc EXCEPT ![t] = s]
      BY <1>2 DEF ExitDetach, ExitStack, ExitSpace, ExitSlot, Goto
    <2>3. arg' = [arg EXCEPT ![t] = arg[t]]
      BY <1>t, <2>1, ArgKept
    <2>4. \A p : InSomeList(p) => InSomeList(p)'
      BY <2>1 DEF InSomeList
    <2>5. s \notin LinkedSteps /\ pc[t] \notin CreateSteps
      BY <2>1 DEF LinkedSteps, CreateSteps, ExitSteps
    <2> QED BY <1>t, <2>2, <2>3, <2>4, <2>5, CallKeepsListed
  <1> QED BY <1>1, <1>2

\* The interrupts move a process from a blocked list to the ready list.
LEMMA WakeKeepsListed ==
    ASSUME KInv, ListInv, AllListed, Roomy, TickSleeper \/ KeyboardInterrupt
    PROVE  AllListed'
  <1>a. /\ ready \in Seq(NotBehind) /\ NoRepeat(ready)
        /\ sleeping \in Seq(Known) /\ NoRepeat(sleeping)
        /\ waiting \in Seq(Known) /\ NoRepeat(waiting)
        /\ DOMAIN sleeping = 1 .. Len(sleeping)
    BY LenProperties DEF KInv, Lists, ListInv, Apart
  <1>b. /\ Elems(ready) \cap Elems(sleeping) = {}
        /\ Elems(ready) \cap Elems(waiting) = {}
    BY DEF ListInv, Apart
  <1>1. CASE TickSleeper
    <2>1. /\ isr \in DOMAIN sleeping /\ WakeStep(isr) /\ UNCHANGED <<waiting, pc, arg>>
      BY <1>1, <1>a DEF TickSleeper, procVars
    <2> DEFINE p == sleeping[isr]
    <2>2. p \in Elems(sleeping)
      BY <2>1 DEF Elems
    <2>3. \/ sleeping' = SwapRemove(sleeping, isr) /\ scheduler_add(p)
          \/ UNCHANGED <<sleeping, ready>>
      BY <2>1 DEF WakeStep
    <2>4. Elems(SwapRemove(sleeping, isr)) = Elems(sleeping) \ {p}
      BY <1>a, <2>1, SwapRemoveElems
    <2> HIDE DEF p
    <2>5. CASE sleeping' = SwapRemove(sleeping, isr) /\ scheduler_add(p)
      <3>1. Elems(sleeping') = Elems(sleeping) \ {p}
        BY <2>4, <2>5
      <3>2. Elems(ready') = Elems(ready) \cup {p}
        BY <1>b, <2>2, <2>5, RoomyAdd
      <3> QED BY <2>1, <3>1, <3>2, SameKeepsListed DEF InSomeList
    <2>6. CASE UNCHANGED <<sleeping, ready>>
      BY <2>1, <2>6, SameKeepsListed DEF InSomeList
    <2> QED BY <2>3, <2>5, <2>6
  <1>2. CASE KeyboardInterrupt
    <2>1. /\ waiting # << >> /\ waiting' = Tail(waiting) /\ scheduler_add(Head(waiting))
          /\ UNCHANGED <<sleeping, pc, arg>>
      BY <1>2 DEF KeyboardInterrupt, wake_up_one, procVars
    <2>2. /\ Elems(waiting') = Elems(waiting) \ {Head(waiting)}
          /\ Head(waiting) \in Elems(waiting)
      BY <1>a, <2>1, TailElems
    <2>3. Elems(ready') = Elems(ready) \cup {Head(waiting)}
      BY <1>b, <2>1, <2>2, RoomyAdd
    <2> QED BY <2>1, <2>2, <2>3, SameKeepsListed DEF InSomeList
  <1> QED BY <1>1, <1>2

LEMMA ScheduleKeepsListed ==
    ASSUME KInv, AllListed, NEW t \in Threads, ScheduleStep(t)
    PROVE  AllListed'
  <1>1. /\ \E s, a :
              /\ s \in SchedSteps \cup {"gone"}
              /\ pc' = [pc EXCEPT ![t] = s]
              /\ arg' = [arg EXCEPT ![t] = a]
        /\ pc[t] \in SchedSteps
        /\ UNCHANGED <<ready, sleeping, waiting>>
    <2>1. arg = [arg EXCEPT ![t] = arg[t]]
      BY ArgKept
    <2> QED BY <2>1 DEF ScheduleStep, ScheduleNext, ScheduleSet, ScheduleLoad,
            ScheduleJump, At, Goto, schedVars, SchedSteps
  <1> QED BY <1>1, CallKeepsListed DEF InSomeList, LinkedSteps, CreateSteps, SchedSteps

LEMMA NextListed ==
    KInv /\ SwitchInv /\ RunInv /\ ListsHold /\ ListedHolds /\ (overtaken \/ Roomy)
    /\ [Next]_vars
    => ListedHolds'
  <1> SUFFICES ASSUME KInv, SwitchInv, RunInv, ListsHold, ListedHolds,
                      overtaken \/ Roomy, [Next]_vars, ~ overtaken'
               PROVE  AllListed'
    BY DEF ListedHolds
  <1>0. ListInv /\ AllListed /\ Roomy
    BY OvertakenStays DEF ListsHold, ListedHolds, KInv, FlatTypeOK
  <1>1. CASE TimerInterrupt \/ process_on_timer_interrupt \/ UNCHANGED vars
    BY <1>0, <1>1, SameKeepsListed DEF TimerInterrupt, process_on_timer_interrupt,
       procVars, vars, schedVars, InSomeList
  <1>2. ASSUME NEW t \in Procs, AppStep(t) PROVE AllListed'
    BY <1>0, <1>2, BlockKeepsListed, RemoveKeepsListed, StartKeepsListed,
       ExitKeepsListed DEF AppStep
  <1>3. ASSUME NEW t \in Threads, ScheduleStep(t) PROVE AllListed'
    BY <1>0, <1>3, ScheduleKeepsListed
  <1> QED BY <1>0, <1>1, <1>2, <1>3, WakeKeepsListed DEF Next, Stopped

LEMMA InitListed == Init => AllListed
  <1> SUFFICES ASSUME Init PROVE AllListed
    OBVIOUS
  <1>1. PICK loaded \in BOOLEAN :
          LET created == IF loaded THEN {Idle, First} ELSE {Idle} IN
          /\ ready = (IF loaded THEN <<First>> ELSE << >>)
          /\ pc = [t \in Threads |-> CASE t = Boot -> "sched_next"
                                       [] t = Idle -> "halt"
                                       [] t \in created \ {Idle} -> "app"
                                       [] OTHER -> "none"]
    BY DEF Init, SchedInit
  <1>2. ASSUME NEW p \in Procs, pc[p] \in LinkedSteps PROVE loaded /\ p = First
    <2>1. p \in Threads /\ p # Boot /\ Idle # Boot
      BY ThreadsAssumption, ProcsAssumption DEF Threads
    <2>2. CASE p = Idle
      BY <1>1, <1>2, <2>1, <2>2 DEF LinkedSteps
    <2>3. CASE p # Idle
      <3>1. pc[p] = IF p \in (IF loaded THEN {Idle, First} ELSE {Idle}) \ {Idle}
                    THEN "app" ELSE "none"
        BY <1>1, <2>1, <2>3
      <3> QED BY <1>2, <2>3, <3>1 DEF LinkedSteps
    <2> QED BY <2>2, <2>3
  <1>3. loaded => First \in Elems(ready)
    BY <1>1 DEF Elems
  <1> QED BY <1>2, <1>3 DEF AllListed, InSomeList

\* In lists without common elements or repetitions a process that is in one
\* is linked once.
LEMMA LinksCounted ==
    ASSUME ListInv, NEW p
    PROVE  Links(p) = IF InSomeList(p) THEN 1 ELSE 0
  <1> DEFINE Linked(list) == p \in Elems(list)
  <1>1. ASSUME NEW list, NoRepeat(list)
        PROVE  Cardinality(Places(list, p)) = IF Linked(list) THEN 1 ELSE 0
    <2>1. CASE Linked(list)
      <3>1. PICK i \in DOMAIN list : list[i] = p
        BY <2>1 DEF Elems
      <3>2. Places(list, p) = {i}
        BY <1>1, <3>1 DEF Places, NoRepeat
      <3> QED BY <2>1, <3>2, FS_Singleton
    <2>2. CASE ~ Linked(list)
      <3>1. Places(list, p) = {}
        BY <2>2 DEF Places, Elems
      <3> QED BY <2>2, <3>1, FS_EmptySet
    <2> QED BY <2>1, <2>2
  <1>2. /\ Cardinality(Places(ready, p)) = IF Linked(ready) THEN 1 ELSE 0
        /\ Cardinality(Places(sleeping, p)) = IF Linked(sleeping) THEN 1 ELSE 0
        /\ Cardinality(Places(waiting, p)) = IF Linked(waiting) THEN 1 ELSE 0
    BY <1>1 DEF ListInv, Apart
  <1>3. /\ ~ (Linked(ready) /\ Linked(sleeping))
        /\ ~ (Linked(ready) /\ Linked(waiting))
        /\ ~ (Linked(sleeping) /\ Linked(waiting))
    BY DEF ListInv, Apart
  <1>4. CASE InSomeList(p)
    <2>1. Linked(ready) \/ Linked(sleeping) \/ Linked(waiting)
      BY <1>4 DEF InSomeList
    <2> QED BY <1>2, <1>3, <1>4, <2>1 DEF Links
  <1>5. CASE ~ InSomeList(p)
    <2>1. ~ Linked(ready) /\ ~ Linked(sleeping) /\ ~ Linked(waiting)
      BY <1>5 DEF InSomeList
    <2> QED BY <1>2, <1>5, <2>1 DEF Links
  <1> QED BY <1>4, <1>5

\* One that is being started is in none.
LEMMA ListedMeaning == ListsHold /\ ListedHolds => ListedOnce
  <1> SUFFICES ASSUME ListInv, AllListed, NEW p \in Procs
               PROVE  InSomeList(p) <=> pc[p] \in LinkedSteps /\ ~ Starting(p)
    <2>1. LinkedSteps = {"app", "yield", "register", "start", "link"}
                        \cup Searches \cup Swaps
      BY DEF LinkedSteps, Searches, Swaps
    <2> QED BY <2>1, LinksCounted DEF ListedOnce, LinkedOnce, ListsHold, ListedHolds
  <1>1. Starting(p) => ~ InSomeList(p)
    BY DEF Starting, ListInv, StartingWhere, CreateSteps, Threads
  <1> QED BY <1>1 DEF ListInv, ListedWhere, AllListed

\* As long as no list is full and no removal has fallen inside another one,
\* every started process outside the unlinked part of sleep(), wait() and exit
\* is linked exactly once, and every other one from nowhere, wherever the timer
\* and the keyboard interrupt the calls and the loops in them.  A full list
\* drops what is added to it, and the code does not notice.
THEOREM ListedOnceWithRoom == Spec /\ [](overtaken \/ Roomy) => []ListedOnce
  <1>1. Init => ListedHolds
    BY InitListed DEF ListedHolds
  <1> QED BY <1>1, NextListed, ListedMeaning, KernelInvariant, SwitchInvariant,
             RunInvariant, ListInvariant, PTL DEF Spec

---------------------------------------------------------------------------
(* When a list cannot become full.                                         *)

LiveProcs == {p \in Procs : Live(p)}

\* There is a process_t for no more processes than a list has slots.
FewLive == /\ IsFiniteSet(LiveProcs)
           /\ Cardinality(LiveProcs) <= MaxProcesses
           /\ Cardinality(LiveProcs) <= WaitQueueMax

\* A list holds no process twice and never the idle process, which is alive.
LEMMA ShorterThanLive ==
    ASSUME IsFiniteSet(LiveProcs), NEW S, NEW list \in Seq(S), NoRepeat(list),
           Elems(list) \subseteq LiveProcs \ {Idle}, Idle \in LiveProcs
    PROVE  Len(list) < Cardinality(LiveProcs)
  <1> DEFINE others == LiveProcs \ {Idle}
             n == Len(list)
             slots == 1 .. n
  <1>1. /\ IsFiniteSet(others) /\ Cardinality(others) = Cardinality(LiveProcs) - 1
        /\ Cardinality(LiveProcs) \in Nat /\ Cardinality(others) \in Nat
    BY FS_RemoveElement, FS_CardinalityType
  <1>2. n \in Nat /\ DOMAIN list = slots /\ list \in [slots -> S]
    BY LenProperties
  <1>3. list \in [slots -> others]
    BY <1>2 DEF Elems
  <1>4. IsFiniteSet(slots) /\ Cardinality(slots) = n
    BY <1>2, FS_Interval
  <1>5. \A i, j \in slots : i # j => list[i] # list[j]
    BY <1>2 DEF NoRepeat
  <1> HIDE DEF others, n, slots
  <1>6. ~ (Cardinality(others) < Cardinality(slots))
    <2>1. ASSUME Cardinality(others) < Cardinality(slots)
          PROVE  \E i, j \in slots : i # j /\ list[i] = list[j]
      BY <1>1, <1>3, <1>4, <2>1, FS_PigeonHole
    <2> QED BY <1>5, <2>1
  <1>7. n <= Cardinality(others)
    BY <1>1, <1>2, <1>4, <1>6
  <1> QED BY <1>1, <1>2, <1>7 DEF n

LEMMA FewAreRoomy ==
    KInv /\ SwitchInv /\ RunInv /\ ListsHold /\ FewLive => overtaken \/ Roomy
  <1> SUFFICES ASSUME KInv, SwitchInv, RunInv, ListInv, FewLive PROVE Roomy
    BY DEF ListsHold
  <1>1. Idle \in LiveProcs
    BY ListedIsLive, ProcsAssumption DEF LiveProcs
  <1>2. \A p : InSomeList(p) => p \in LiveProcs \ {Idle}
    <2>1. Idle \in Threads /\ pc[Idle] = "halt"
      BY ProcsAssumption DEF Threads, SwitchInv, IdleHalted
    <2>2. ~ InSomeList(Idle)
      BY <2>1, NotListed DEF LinkedSteps
    <2> QED BY <2>2, ElemsKnown, ListedIsLive DEF LiveProcs
  <1>3. /\ Elems(ready) \subseteq LiveProcs \ {Idle}
        /\ Elems(sleeping) \subseteq LiveProcs \ {Idle}
        /\ Elems(waiting) \subseteq LiveProcs \ {Idle}
    BY <1>2 DEF InSomeList
  <1>4. /\ ready \in Seq(NotBehind) /\ NoRepeat(ready)
        /\ sleeping \in Seq(Known) /\ NoRepeat(sleeping)
        /\ waiting \in Seq(Known) /\ NoRepeat(waiting)
    BY DEF KInv, Lists, ListInv, Apart
  <1>5. /\ Len(ready) < Cardinality(LiveProcs)
        /\ Len(sleeping) < Cardinality(LiveProcs)
        /\ Len(waiting) < Cardinality(LiveProcs)
    BY <1>1, <1>3, <1>4, ShorterThanLive DEF FewLive
  <1>6. /\ Len(ready) \in Nat /\ Len(sleeping) \in Nat /\ Len(waiting) \in Nat
        /\ Cardinality(LiveProcs) \in Nat
    BY <1>4, LenProperties, FS_CardinalityType DEF FewLive
  <1> QED BY <1>5, <1>6, CapacityAssumption DEF FewLive, Roomy

\* So processes are not lost while there is a process_t for at most as many
\* of them, the idle process included, as the lists have slots.
THEOREM ListedOnceWithFewLive == Spec /\ []FewLive => []ListedOnce
  <1> QED BY FewAreRoomy, ListedOnceWithRoom, KernelInvariant, SwitchInvariant,
             RunInvariant, ListInvariant, PTL

\* In particular when no more are ever created.
THEOREM AlwaysListedOnce ==
    ASSUME IsFiniteSet(Procs), Cardinality(Procs) <= MaxProcesses,
           Cardinality(Procs) <= WaitQueueMax
    PROVE  Spec => []ListedOnce
  <1>1. FewLive
    <2>1. LiveProcs \in SUBSET Procs
      BY DEF LiveProcs
    <2>2. IsFiniteSet(LiveProcs) /\ Cardinality(LiveProcs) <= Cardinality(Procs)
      BY <2>1, FS_Subset
    <2>3. Cardinality(LiveProcs) \in Nat /\ Cardinality(Procs) \in Nat
      BY <2>2, FS_CardinalityType
    <2> QED BY <2>2, <2>3, CapacityAssumption DEF FewLive
  <1> QED BY <1>1, ListedOnceWithFewLive, PTL
=============================================================================
