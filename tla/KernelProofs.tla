---------------------------- MODULE KernelProofs ----------------------------
(***************************************************************************)
(* Proofs about module Kernel, for every number of processes, every        *)
(* capacity of the lists and every argument of the calls: the state is     *)
(* well typed, no ready process is behind global_min_vruntime but for one  *)
(* that a tick overtook inside scheduler_add, and global_min_vruntime      *)
(* moves back to the virtual runtime of such a process at most.            *)
(***************************************************************************)
EXTENDS Kernel, SequenceTheorems, TLAPS

---------------------------------------------------------------------------
(* The inductive invariant.                                                *)

\* The processes that have been created; a process is never uncreated.
Known == {p \in Procs : pc[p] # "none"}

\* Those that scheduler_next may pick without going back in virtual time,
\* and those a tick overtook while process_start was linking them.
NotBehind == {p \in Known : globalMin <= vruntime[p] \/ p \in behind}

\* The part of TypeOK that is not about the lists.
FlatTypeOK ==
    /\ vruntime \in [Procs -> Nat]
    /\ sleepTicks \in [Procs -> Int]
    /\ globalMin \in Nat
    /\ table \in [Pids -> Procs \cup {NoProc}]
    /\ pid \in [Procs -> Nat]
    /\ frame \in [Procs -> Threads \cup {Spent}]
    /\ held \in [Procs -> SUBSET Parts]
    /\ cr3 \in Procs \cup {NoProc}
    /\ cpu \in Threads \cup {Panic}
    /\ pc \in [Threads -> Steps]
    /\ reg \in [Threads -> Threads \cup {Spent}]
    /\ isr \in Nat
    /\ ticks \in Nat
    /\ slot \in [Threads -> Nat \ {0}]
    /\ overtaken \in BOOLEAN
    /\ behind \subseteq Procs

Lists ==
    /\ ready \in Seq(NotBehind)
    /\ sleeping \in Seq(Known)
    /\ waiting \in Seq(Known)

\* A pointer to a process is null or names one that has been created.
Pointers ==
    /\ Idle \in Known
    /\ current \in Known \cup {NoProc}
    /\ arg \in [Threads -> Known \cup {NoProc}]

\* The steps of a call that follow the process_t pointer of the call.
UsesArg == {"sleep_add", "wait_add", "register", "start", "link", "sched_set",
            "sched_load"} \cup Searches \cup Swaps \cup Unsleeps

ArgIsSet == \A t \in Threads : pc[t] \in UsesArg => arg[t] # NoProc

\* A process that is about to be linked is not behind.
LinkNotBehind == \A t \in Procs : pc[t] = "link" => arg[t] \in NotBehind

\* current_process is null only while exit or core_run is on its way to the
\* assignment in schedule().
NullSteps == {"exit_stack", "exit_space", "exit_slot", "sched_next", "sched_set"}

NullOnlyThere ==
    current = NoProc => cpu = Panic \/ (cpu \in Threads /\ pc[cpu] \in NullSteps)

InterruptedThread == isr # 0 => cpu \in Threads

KInv == /\ FlatTypeOK
        /\ Lists
        /\ Pointers
        /\ ArgIsSet
        /\ LinkNotBehind
        /\ NullOnlyThere
        /\ InterruptedThread

---------------------------------------------------------------------------
(* Lists.                                                                  *)

\* What scheduler_remove's swap leaves are elements of the list it got,
\* wherever the slot it names has got to.
LEMMA SwapRemoveSeq ==
    ASSUME NEW S, NEW list \in Seq(S), NEW i
    PROVE  SwapRemove(list, i) \in Seq(S)
  <1>1. Len(list) \in Nat /\ DOMAIN list = 1 .. Len(list)
        /\ list \in [1 .. Len(list) -> S]
    BY LenProperties
  <1>2. CASE Len(list) = 0
    <2>1. 1 .. Len(list) - 1 = 1 .. 0
      BY <1>2
    <2>2. SwapRemove(list, i) \in [1 .. 0 -> S]
      BY <2>1 DEF SwapRemove
    <2> QED BY <2>2, SeqDef
  <1>3. CASE Len(list) # 0
    <2>1. Len(list) - 1 \in Nat
      BY <1>1, <1>3
    <2>2. SwapRemove(list, i) \in [1 .. Len(list) - 1 -> S]
      BY <1>1, <1>3 DEF SwapRemove
    <2> QED BY <2>1, <2>2, SeqDef
  <1> QED BY <1>2, <1>3

\* What scheduler_next returns has been created.
LEMMA NextIsKnown ==
    ASSUME Lists, Pointers, NEW p, scheduler_next(p)
    PROVE  p \in Known
  <1>1. CASE ready = << >>
    BY <1>1 DEF scheduler_next, Pointers
  <1>2. CASE ready # << >>
    <2>1. PICK i \in DOMAIN ready : p = ready[i]
      BY <1>2 DEF scheduler_next
    <2>2. ready \in [1 .. Len(ready) -> NotBehind]
          /\ DOMAIN ready = 1 .. Len(ready)
      BY LenProperties DEF Lists
    <2> QED BY <2>1, <2>2 DEF NotBehind
  <1> QED BY <1>1, <1>2

\* The lists stay good when nothing is put in and nobody falls behind.
LEMMA ListsGrow ==
    ASSUME Lists, Known \subseteq Known', NotBehind \subseteq NotBehind',
           ready' \in Seq(NotBehind) \/ ready' = ready,
           sleeping' \in Seq(Known) \/ sleeping' = sleeping,
           waiting' \in Seq(Known) \/ waiting' = waiting
    PROVE  Lists'
  <1>1. ready' \in Seq(NotBehind) /\ sleeping' \in Seq(Known)
        /\ waiting' \in Seq(Known)
    BY DEF Lists
  <1> QED BY <1>1, SeqMonotonic DEF Lists

\* scheduler_add puts its process at global_min_vruntime, so that nobody is
\* behind; the processes that have been created stay the same.
LEMMA AddKeepsLists ==
    ASSUME Lists, FlatTypeOK, NEW p \in Known, scheduler_add(p),
           Known \subseteq Known', globalMin' = globalMin, behind' = behind
    PROVE  /\ NotBehind \subseteq NotBehind'
           /\ ready' \in Seq(NotBehind')
           /\ vruntime' \in [Procs -> Nat]
  <1> USE DEF FlatTypeOK
  <1>1. CASE Len(ready) >= MaxProcesses
    <2>1. ready' = ready /\ vruntime' = vruntime
      BY <1>1 DEF scheduler_add
    <2>2. NotBehind \subseteq NotBehind'
      BY <2>1 DEF NotBehind
    <2> QED BY <2>1, <2>2, SeqMonotonic DEF Lists
  <1>2. CASE ~ (Len(ready) >= MaxProcesses)
    <2>1. ready' = Append(ready, p)
          /\ vruntime' = [vruntime EXCEPT ![p] = globalMin]
      BY <1>2 DEF scheduler_add
    <2>2. p \in Procs
      BY DEF Known
    <2>3. vruntime'[p] = globalMin /\ vruntime' \in [Procs -> Nat]
          /\ \A q \in Procs : q # p => vruntime'[q] = vruntime[q]
      BY <2>1, <2>2
    <2>4. NotBehind \subseteq NotBehind' /\ p \in NotBehind'
      BY <2>3 DEF NotBehind, Known
    <2>5. ready \in Seq(NotBehind')
      BY <2>4, SeqMonotonic DEF Lists
    <2>6. Append(ready, p) \in Seq(NotBehind')
      BY <2>4, <2>5
    <2> QED BY <2>1, <2>3, <2>4, <2>6
  <1> QED BY <1>1, <1>2

\* The charge of a tick raises one virtual runtime and then moves the
\* minimum to that of the process that is least advanced.
LEMMA ChargeKeepsLists ==
    ASSUME KInv, EnterTimer, ready' = ready, Known' = Known
    PROVE  /\ vruntime' \in [Procs -> Nat]
           /\ globalMin' \in Nat
           /\ \/ globalMin' >= globalMin
              \/ \E p \in behind : vruntime[p] <= globalMin'
           /\ behind' \subseteq Procs
           /\ ready' \in Seq(NotBehind')
           /\ \A t \in Procs : pc[t] = "link" => arg[t] \in NotBehind'
  <1>1. FlatTypeOK /\ ready \in Seq(NotBehind) /\ current \in Known \cup {NoProc}
    BY DEF KInv, Lists, Pointers
  <1>a. \A t \in Procs : pc[t] = "link" => arg[t] \in Known /\ arg[t] \in Procs
    BY DEF KInv, LinkNotBehind, NotBehind, Known
  <1>2. CASE current \in {NoProc, Idle}
    <2>1. vruntime' = vruntime /\ globalMin' = globalMin /\ behind' = behind
      BY <1>2 DEF EnterTimer, ChargeRunning
    <2>2. NotBehind' = NotBehind
      BY <2>1 DEF NotBehind
    <2>3. vruntime' \in [Procs -> Nat] /\ globalMin' \in Nat /\ behind' \subseteq Procs
          /\ globalMin' >= globalMin
      BY <1>1, <2>1 DEF FlatTypeOK
    <2> QED BY <1>1, <2>2, <2>3 DEF KInv, LinkNotBehind
  <1>3. CASE current \notin {NoProc, Idle}
    <2>1. /\ vruntime' = [vruntime EXCEPT ![current] = @ + TickCharge]
          /\ update_min_vruntime(vruntime')
          /\ behind' = Linking
      BY <1>3 DEF EnterTimer, ChargeRunning
    <2>2. TickCharge \in Nat
      BY DEF TickCharge, weight_from_nice
    <2>a. current \in Procs /\ vruntime \in [Procs -> Nat]
      BY <1>1, <1>3 DEF FlatTypeOK, Known
    <2>b. vruntime[current] + TickCharge \in Nat
          /\ vruntime[current] + TickCharge >= vruntime[current]
      BY <2>2, <2>a
    <2> HIDE DEF TickCharge
    <2>3. /\ vruntime' \in [Procs -> Nat]
          /\ \A p \in Procs : vruntime'[p] >= vruntime[p]
      BY <2>1, <2>a, <2>b
    <2>4. /\ ready \in [1 .. Len(ready) -> NotBehind]
          /\ DOMAIN ready = 1 .. Len(ready) /\ Len(ready) \in Nat
      BY <1>1, LenProperties
    <2>c. /\ behind' \subseteq Procs
          /\ \A t \in Procs : pc[t] = "link" => arg[t] \in behind'
      BY <1>a, <2>1 DEF Linking
    <2>d. \A t \in Procs : pc[t] = "link" => arg[t] \in NotBehind'
      BY <1>a, <2>c DEF NotBehind
    <2>5. CASE ready = << >>
      <3>1. globalMin' = globalMin
        BY <2>1, <2>5 DEF update_min_vruntime
      <3>2. ready' \in Seq(NotBehind')
        BY <2>5, EmptySeq
      <3>3. globalMin' \in Nat /\ globalMin' >= globalMin
        BY <1>1, <3>1 DEF FlatTypeOK
      <3> QED BY <2>3, <2>c, <2>d, <3>2, <3>3
    <2>6. CASE ready # << >>
      <3>1. PICK i \in DOMAIN ready :
               /\ \A j \in DOMAIN ready : vruntime'[ready[i]] <= vruntime'[ready[j]]
               /\ globalMin' = vruntime'[ready[i]]
        BY <2>1, <2>6 DEF update_min_vruntime
      <3>2. ready[i] \in NotBehind /\ ready[i] \in Procs
        BY <2>4 DEF NotBehind, Known
      <3>3. globalMin' \in Nat
        BY <2>3, <3>1, <3>2
      <3>4. globalMin' >= vruntime[ready[i]]
        BY <2>3, <3>1, <3>2
      <3>5. globalMin' >= globalMin \/ \E p \in behind : vruntime[p] <= globalMin'
        <4>1. CASE globalMin <= vruntime[ready[i]]
          <5>1. vruntime[ready[i]] \in Nat /\ globalMin \in Nat
            BY <1>1, <3>2 DEF FlatTypeOK
          <5> QED BY <3>3, <3>4, <4>1, <5>1
        <4>2. CASE ready[i] \in behind
          <5>1. vruntime[ready[i]] <= globalMin'
            BY <2>a, <3>2, <3>3, <3>4
          <5> QED BY <4>2, <5>1
        <4> QED BY <3>2, <4>1, <4>2 DEF NotBehind
      <3>6. \A j \in DOMAIN ready : ready[j] \in NotBehind'
        BY <2>4, <3>1 DEF NotBehind
      <3>7. ready \in [1 .. Len(ready) -> NotBehind']
        BY <2>4, <3>6
      <3>8. ready' \in Seq(NotBehind')
        BY <2>4, <3>7, SeqDef
      <3> QED BY <2>3, <2>c, <2>d, <3>3, <3>5, <3>8
    <2> QED BY <2>5, <2>6
  <1> QED BY <1>2, <1>3

---------------------------------------------------------------------------
(* Threads.                                                                *)

\* A step of a thread creates or keeps processes and moves that thread only.
LEMMA PcStep ==
    ASSUME FlatTypeOK, NEW t \in Threads, NEW s \in Steps \ {"none"},
           pc' = [pc EXCEPT ![t] = s]
    PROVE  /\ pc' \in [Threads -> Steps]
           /\ pc'[t] = s
           /\ \A u \in Threads : u # t => pc'[u] = pc[u]
           /\ Known \subseteq Known'
  <1>1. pc \in [Threads -> Steps]
    BY DEF FlatTypeOK
  <1>2. \A p \in Procs : p \in Threads
    BY DEF Threads
  <1> QED BY <1>1, <1>2 DEF Known

\* What remains to be shown for a step of the running thread inside a call.
LEMMA ThreadStep ==
    ASSUME KInv, NEW t \in Threads, cpu = t, isr' = 0, isr = 0,
           NEW s \in Steps \ {"none"}, pc' = [pc EXCEPT ![t] = s],
           NEW a \in Known \cup {NoProc}, arg' = [arg EXCEPT ![t] = a],
           s \in UsesArg => a # NoProc,
           s = "link" => a \in NotBehind', NotBehind \subseteq NotBehind',
           current' \in Known \cup {NoProc},
           current' = NoProc => cpu' = t /\ s \in NullSteps,
           FlatTypeOK', Lists'
    PROVE  KInv'
  <1>1. /\ pc'[t] = s
        /\ \A u \in Threads : u # t => pc'[u] = pc[u]
        /\ Known \subseteq Known'
    BY PcStep DEF KInv
  <1>2. arg \in [Threads -> Known \cup {NoProc}] /\ Idle \in Known
    BY DEF KInv, Pointers
  <1>3. arg' \in [Threads -> Known' \cup {NoProc}]
    BY <1>1, <1>2
  <1>4. Pointers'
    BY <1>1, <1>2, <1>3 DEF Pointers
  <1>5. arg'[t] = a /\ \A u \in Threads : u # t => arg'[u] = arg[u]
    BY <1>2
  <1>6. ArgIsSet'
    BY <1>1, <1>5 DEF KInv, ArgIsSet
  <1>9. LinkNotBehind'
    <2>1. \A p \in Procs : p \in Threads
      BY DEF Threads
    <2> QED BY <1>1, <1>5, <2>1 DEF KInv, LinkNotBehind
  <1>7. NullOnlyThere'
    BY <1>1 DEF NullOnlyThere
  <1>8. InterruptedThread'
    BY DEF InterruptedThread
  <1> QED BY <1>4, <1>6, <1>7, <1>8, <1>9 DEF KInv

\* The thread that executes outside exit and schedule() runs a process.
LEMMA RunningIsKnown ==
    ASSUME KInv, cpu \in Threads, pc[cpu] \notin NullSteps
    PROVE  current \in Known
  <1>1. Panic \notin Threads
    BY ThreadsAssumption DEF Threads
  <1> QED BY <1>1 DEF KInv, NullOnlyThere, Pointers

---------------------------------------------------------------------------
(* The calls of the applications.                                          *)

\* p->sleep_ticks = ticks.
LEMMA BeginSleepKeeps ==
    ASSUME KInv, NEW t \in Procs, NEW n \in Int, NEW call, Enter(t, call),
           BeginSleep(t, n)
    PROVE  KInv'
  <1>1. /\ isr = 0 /\ cpu = t /\ pc[t] = "app" /\ isr' = 0
        /\ sleepTicks' = [sleepTicks EXCEPT ![current] = n]
        /\ arg' = [arg EXCEPT ![t] = current]
        /\ pc' = [pc EXCEPT ![t] = "sleep_remove"]
        /\ UNCHANGED <<ready, sleeping, waiting, vruntime, globalMin, current,
                       table, pid, frame, held, cr3, cpu, reg, ticks, slot,
                       overtaken, behind>>
    BY DEF Enter, At, Goto, BeginSleep, clockVars, callVars
  <1>2. t \in Threads /\ "sleep_remove" \in Steps \ {"none"}
    BY DEF Threads, Steps, Searches
  <1>3. current \in Known
    BY <1>1, <1>2, RunningIsKnown DEF NullSteps
  <1>4. pc' \in [Threads -> Steps] /\ Known \subseteq Known'
    BY <1>1, <1>2, PcStep DEF KInv
  <1>5. FlatTypeOK'
    BY <1>1, <1>4 DEF KInv, FlatTypeOK
  <1>6. NotBehind \subseteq NotBehind' /\ Lists'
    <2>1. NotBehind \subseteq NotBehind'
      BY <1>1, <1>4 DEF NotBehind
    <2> QED BY <1>1, <1>4, <2>1, ListsGrow DEF KInv
  <1>7. current # NoProc
    BY <1>3, ProcsAssumption DEF Known
  <1> QED BY <1>1, <1>2, <1>3, <1>5, <1>6, <1>7, ThreadStep

\* The pointer a call holds after its first step names a known process.
LEMMA ArgIsKnown ==
    ASSUME KInv, NEW t \in Threads, pc[t] \in UsesArg
    PROVE  arg[t] \in Known /\ arg[t] \in Procs /\ arg[t] # NoProc
  <1> QED BY DEF KInv, ArgIsSet, Pointers, Known

\* A step that changes nothing but lists and the place of its thread.
LEMMA ListStep ==
    ASSUME KInv, NEW t \in Threads, cpu = t, isr = 0,
           NEW s \in Steps \ {"none"}, pc' = [pc EXCEPT ![t] = s],
           s \in UsesArg => arg[t] # NoProc,
           s = "link" => vruntime'[arg[t]] = globalMin,
           current = NoProc => s \in NullSteps,
           vruntime' \in [Procs -> Nat],
           slot' \in [Threads -> Nat \ {0}],
           overtaken' \in BOOLEAN,
           behind' = behind,
           Known \subseteq Known' => Lists' /\ NotBehind \subseteq NotBehind',
           UNCHANGED <<sleepTicks, globalMin, current, table, pid, frame, held,
                       cr3, cpu, arg, reg, clockVars>>
    PROVE  KInv'
  <1>1. isr' = 0 /\ ticks' = ticks
    BY DEF clockVars
  <1>2. pc' \in [Threads -> Steps] /\ Known \subseteq Known'
    BY PcStep DEF KInv
  <1>3. FlatTypeOK'
    BY <1>1, <1>2 DEF KInv, FlatTypeOK
  <1>4. arg[t] \in Known \cup {NoProc} /\ arg' = [arg EXCEPT ![t] = arg[t]]
        /\ current' \in Known \cup {NoProc}
    BY DEF KInv, Pointers
  <1>5. s = "link" => arg[t] \in NotBehind'
    <2>1. s = "link" => arg[t] \in Known
      BY <1>4 DEF UsesArg
    <2>2. globalMin \in Nat
      BY DEF KInv, FlatTypeOK
    <2> QED BY <1>2, <2>1, <2>2 DEF NotBehind
  <1> QED BY <1>1, <1>2, <1>3, <1>4, <1>5, ThreadStep

\* A turn of a search loop changes nothing but the slot looked at and the
\* place of its thread.
LEMMA SearchKeeps ==
    ASSUME KInv, NEW t \in Procs, NEW list, NEW here \in Searches \cup Unsleeps,
           NEW swap \in Steps \ {"none", "link"},
           NEW done \in Steps \ {"none", "link"},
           Search(t, list, here, swap, done)
    PROVE  KInv'
  <1>1. /\ isr = 0 /\ cpu = t /\ pc[t] = here
        /\ UNCHANGED <<ready, sleeping, waiting, vruntime, sleepTicks, globalMin,
                       current, table, pid, frame, held, cr3, cpu, arg, reg,
                       clockVars, overtaken, behind>>
    BY DEF Search, At, schedVars
  <1>t. t \in Threads /\ here \in Steps \ {"none", "link"} /\ here \in UsesArg
        /\ here \notin NullSteps
    BY DEF Threads, Steps, UsesArg, Searches, Unsleeps, NullSteps
  <1>2. PICK s \in {here, swap, done} : pc' = [pc EXCEPT ![t] = s]
    <2>1. pc = [pc EXCEPT ![t] = here]
      BY <1>1 DEF KInv, FlatTypeOK
    <2> QED BY <2>1 DEF Search, Goto
  <1>3. slot' \in [Threads -> Nat \ {0}]
    <2>1. slot \in [Threads -> Nat \ {0}]
      BY DEF KInv, FlatTypeOK
    <2>2. slot[t] + 1 \in Nat \ {0}
      BY <1>t, <2>1
    <2>3. slot' = slot \/ slot' = [slot EXCEPT ![t] = slot[t] + 1]
          \/ slot' = [slot EXCEPT ![t] = 1]
      BY DEF Search
    <2> QED BY <2>1, <2>2, <2>3
  <1>4. ASSUME Known \subseteq Known' PROVE Lists' /\ NotBehind \subseteq NotBehind'
    <2>1. NotBehind \subseteq NotBehind'
      BY <1>1, <1>4 DEF NotBehind
    <2> QED BY <1>1, <1>4, <2>1, ListsGrow DEF KInv
  <1>5. arg[t] # NoProc /\ current # NoProc
    BY <1>1, <1>t, ArgIsKnown, RunningIsKnown, ProcsAssumption DEF Known
  <1>6. vruntime' \in [Procs -> Nat] /\ overtaken' \in BOOLEAN
    BY <1>1 DEF KInv, FlatTypeOK
  <1>7. s \in Steps \ {"none"} /\ s # "link"
    BY <1>t
  <1> QED BY <1>1, <1>t, <1>2, <1>3, <1>4, <1>5, <1>6, <1>7, ListStep

LEMMA SwapKeeps ==
    ASSUME KInv, NEW t \in Procs, NEW here \in Swaps,
           NEW done \in Steps \ {"none", "link"}, Swap(t, here, done)
    PROVE  KInv'
  <1>1. /\ isr = 0 /\ cpu = t /\ pc[t] = here
        /\ ready' = SwapRemove(ready, slot[t])
        /\ pc' = [pc EXCEPT ![t] = done]
        /\ slot' = [slot EXCEPT ![t] = 1]
        /\ UNCHANGED <<sleeping, waiting, vruntime, behind>>
        /\ UNCHANGED <<sleepTicks, globalMin, current, table, pid, frame, held,
                       cr3, cpu, arg, reg, clockVars>>
    BY DEF Swap, At, Goto
  <1>t. t \in Threads /\ here \in UsesArg /\ here \notin NullSteps
    BY DEF Threads, UsesArg, Swaps, NullSteps
  <1>2. ready' \in Seq(NotBehind)
    BY <1>1, SwapRemoveSeq DEF KInv, Lists
  <1>3. ASSUME Known \subseteq Known' PROVE Lists' /\ NotBehind \subseteq NotBehind'
    <2>1. NotBehind \subseteq NotBehind'
      BY <1>1, <1>3 DEF NotBehind
    <2> QED BY <1>1, <1>2, <1>3, <2>1, ListsGrow DEF KInv
  <1>4. arg[t] # NoProc /\ current # NoProc
    BY <1>1, <1>t, ArgIsKnown, RunningIsKnown, ProcsAssumption DEF Known
  <1>5. vruntime' \in [Procs -> Nat] /\ slot' \in [Threads -> Nat \ {0}]
    <2>1. vruntime \in [Procs -> Nat] /\ slot \in [Threads -> Nat \ {0}]
      BY DEF KInv, FlatTypeOK
    <2>2. 1 \in Nat \ {0}
      OBVIOUS
    <2> QED BY <1>1, <2>1, <2>2
  <1>6. overtaken' \in BOOLEAN
    <2>1. overtaken \in BOOLEAN /\ overtaken' = (overtaken \/ \E u \in Procs \ {t} : Removing(u))
      BY DEF Swap, KInv, FlatTypeOK
    <2> QED BY <2>1
  <1> QED BY <1>1, <1>t, <1>3, <1>4, <1>5, <1>6, ListStep

\* scheduler_remove, called by the three calls.
LEMMA RemoveKeeps ==
    ASSUME KInv, NEW t \in Procs, SearchReady(t) \/ SwapReady(t)
    PROVE  KInv'
  <1>1. /\ {"sleep_remove", "wait_remove", "exit_remove"} \subseteq Searches
        /\ {"sleep_swap", "wait_swap", "exit_swap"} \subseteq Swaps
        /\ {"sleep_swap", "wait_swap", "exit_swap", "sleep_add", "wait_add",
            "exit_unsleep"} \subseteq Steps \ {"none", "link"}
    BY DEF Steps, Searches, Swaps, Unsleeps
  <1>2. CASE SearchReady(t)
    BY <1>1, <1>2, SearchKeeps DEF SearchReady
  <1>3. CASE SwapReady(t)
    BY <1>1, <1>3, SwapKeeps DEF SwapReady
  <1> QED BY <1>2, <1>3

LEMMA SleepKeeps ==
    ASSUME KInv, NEW t \in Procs,
           sleep(t) \/ sleep_ms(t) \/ SleepAdd(t)
    PROVE  KInv'
  <1>1. CASE sleep(t)
    BY <1>1, BeginSleepKeeps, BoundsAssumption DEF sleep
  <1>2. CASE sleep_ms(t)
    <2>1. PICK ms \in SleepMsArgs : BeginSleep(t, TicksOfMs(ms)) /\ Enter(t, "sleep")
      BY <1>2 DEF sleep_ms
    <2>2. ms \in Int
      BY BoundsAssumption
    <2>3. TicksOfMs(ms) \in Int
      BY <2>2 DEF TicksOfMs, TimerFreq
    <2> QED BY <2>1, <2>3, BeginSleepKeeps
  <1>t. t \in Threads /\ "yield" \in Steps \ {"none"}
    BY DEF Threads, Steps
  <1>4. CASE SleepAdd(t)
    <2>1. /\ isr = 0 /\ cpu = t /\ pc[t] = "sleep_add"
          /\ sleeping' = IF Len(sleeping) >= MaxProcesses THEN sleeping
                                                 ELSE Append(sleeping, arg[t])
          /\ pc' = [pc EXCEPT ![t] = "yield"]
          /\ UNCHANGED <<ready, waiting, vruntime>>
          /\ UNCHANGED <<sleepTicks, globalMin, current, table, pid, frame, held,
                         cr3, cpu, arg, reg, clockVars, slot, overtaken, behind>>
      BY <1>4 DEF SleepAdd, At, Goto, add_to_sleep, callVars
    <2>2. arg[t] \in Known
      BY <2>1, <1>t, ArgIsKnown DEF UsesArg
    <2>a. Append(sleeping, arg[t]) \in Seq(Known)
      BY <2>2 DEF KInv, Lists
    <2>3. sleeping' \in Seq(Known)
      BY <2>1, <2>a DEF KInv, Lists
    <2>4. ASSUME Known \subseteq Known' PROVE Lists' /\ NotBehind \subseteq NotBehind'
      <3>1. NotBehind \subseteq NotBehind'
        BY <2>1, <2>4 DEF NotBehind
      <3> QED BY <2>1, <2>3, <2>4, <3>1, ListsGrow DEF KInv
    <2>5. current # NoProc
      BY <2>1, <1>t, RunningIsKnown, ProcsAssumption DEF Known, NullSteps
    <2>6. vruntime' \in [Procs -> Nat] /\ slot' \in [Threads -> Nat \ {0}]
          /\ overtaken' \in BOOLEAN
      BY <2>1 DEF KInv, FlatTypeOK
    <2>7. "yield" \notin UsesArg
      BY DEF UsesArg, Searches, Swaps, Unsleeps
    <2> QED BY <1>t, <2>1, <2>4, <2>5, <2>6, <2>7, ListStep
  <1> QED BY <1>1, <1>2, <1>4

LEMMA WaitKeeps ==
    ASSUME KInv, NEW t \in Procs, wait(t) \/ WaitAdd(t)
    PROVE  KInv'
  <1>t. t \in Threads /\ {"wait_remove", "yield"} \subseteq Steps \ {"none"}
    BY DEF Threads, Steps, Searches
  <1>1. CASE wait(t)
    <2>1. /\ isr = 0 /\ cpu = t /\ pc[t] = "app" /\ isr' = 0
          /\ arg' = [arg EXCEPT ![t] = current]
          /\ pc' = [pc EXCEPT ![t] = "wait_remove"]
          /\ UNCHANGED <<ready, sleeping, waiting, vruntime, sleepTicks,
                         globalMin, current, table, pid, frame, held, cr3, cpu,
                         reg, ticks, slot, overtaken, behind>>
      BY <1>1 DEF wait, Enter, At, Goto, schedVars, clockVars, callVars
    <2>2. current \in Known /\ current # NoProc
      BY <1>t, <2>1, RunningIsKnown, ProcsAssumption DEF Known, NullSteps
    <2>3. pc' \in [Threads -> Steps] /\ Known \subseteq Known'
      BY <1>t, <2>1, PcStep DEF KInv
    <2>4. FlatTypeOK'
      BY <2>1, <2>3 DEF KInv, FlatTypeOK
    <2>5. NotBehind \subseteq NotBehind' /\ Lists'
      <3>1. NotBehind \subseteq NotBehind'
        BY <2>1, <2>3 DEF NotBehind
      <3> QED BY <2>1, <2>3, <3>1, ListsGrow DEF KInv
    <2> QED BY <1>t, <2>1, <2>2, <2>4, <2>5, ThreadStep
  <1>3. CASE WaitAdd(t)
    <2>1. /\ isr = 0 /\ cpu = t /\ pc[t] = "wait_add"
          /\ waiting' = IF Len(waiting) < WaitQueueMax
                        THEN Append(waiting, arg[t]) ELSE waiting
          /\ pc' = [pc EXCEPT ![t] = "yield"]
          /\ UNCHANGED <<ready, sleeping, vruntime>>
          /\ UNCHANGED <<sleepTicks, globalMin, current, table, pid, frame, held,
                         cr3, cpu, arg, reg, clockVars, slot, overtaken, behind>>
      BY <1>3 DEF WaitAdd, At, Goto, Enqueue, callVars
    <2>2. arg[t] \in Known
      BY <2>1, <1>t, ArgIsKnown DEF UsesArg
    <2>a. Append(waiting, arg[t]) \in Seq(Known)
      BY <2>2 DEF KInv, Lists
    <2>3. waiting' \in Seq(Known)
      BY <2>1, <2>a DEF KInv, Lists
    <2>4. ASSUME Known \subseteq Known' PROVE Lists' /\ NotBehind \subseteq NotBehind'
      <3>1. NotBehind \subseteq NotBehind'
        BY <2>1, <2>4 DEF NotBehind
      <3> QED BY <2>1, <2>3, <2>4, <3>1, ListsGrow DEF KInv
    <2>5. current # NoProc
      BY <2>1, <1>t, RunningIsKnown, ProcsAssumption DEF Known, NullSteps
    <2>6. vruntime' \in [Procs -> Nat] /\ slot' \in [Threads -> Nat \ {0}]
          /\ overtaken' \in BOOLEAN
      BY <2>1 DEF KInv, FlatTypeOK
    <2>7. "yield" \notin UsesArg
      BY DEF UsesArg, Searches, Swaps, Unsleeps
    <2> QED BY <1>t, <2>1, <2>4, <2>5, <2>6, <2>7, ListStep
  <1> QED BY <1>1, <1>3

\* create_process_common: the new process was in no list, because it had not
\* been created, so resetting its virtual runtime puts nobody behind.
LEMMA CreateKeeps ==
    ASSUME KInv, NEW t \in Procs, Create(t) \/ CreateNoStack(t)
    PROVE  KInv'
  <1>t. t \in Threads /\ {"register", "app"} \subseteq Steps \ {"none"}
        /\ \A p \in Procs : p \in Threads
    BY DEF Threads, Steps
  <1>1. CASE Create(t)
    <2>1. PICK i \in Pids, p \in Unused :
             /\ pid' = [pid EXCEPT ![p] = i]
             /\ held' = [held EXCEPT ![p] = Parts]
             /\ frame' = [frame EXCEPT ![p] = p]
             /\ vruntime' = [vruntime EXCEPT ![p] = 0]
             /\ sleepTicks' = [sleepTicks EXCEPT ![p] = 0]
             /\ arg' = [arg EXCEPT ![t] = p]
             /\ pc' = [pc EXCEPT ![t] = "register", ![p] = "app"]
      BY <1>1 DEF Create
    <2>2. /\ isr = 0 /\ cpu = t /\ pc[t] = "app" /\ isr' = 0
          /\ UNCHANGED <<ready, sleeping, waiting, globalMin, current, table,
                         cr3, cpu, reg, ticks, slot, overtaken, behind>>
      BY <1>1 DEF Create, Enter, At, clockVars, callVars
    <2>3. p \in Procs /\ p \notin Known /\ p # t /\ i \in Nat
          /\ pc \in [Threads -> Steps]
      BY <2>2 DEF Unused, Known, Pids, KInv, FlatTypeOK
    <2>4. /\ pc' \in [Threads -> Steps]
          /\ pc'[t] = "register" /\ pc'[p] = "app"
          /\ \A u \in Threads : u \notin {t, p} => pc'[u] = pc[u]
      BY <1>t, <2>1, <2>3
    <2>5. Known' = Known \cup {p}
      BY <1>t, <2>2, <2>3, <2>4 DEF Known
    <2>6. FlatTypeOK'
      BY <1>t, <2>1, <2>2, <2>3, <2>4 DEF KInv, FlatTypeOK
    <2>7. NotBehind \subseteq NotBehind' /\ Lists'
      <3>1. NotBehind \subseteq NotBehind'
        <4>1. \A q \in Known : vruntime'[q] = vruntime[q]
          BY <2>1, <2>3 DEF Known, KInv, FlatTypeOK
        <4> QED BY <2>2, <2>5, <4>1 DEF NotBehind
      <3> QED BY <2>2, <2>5, <3>1, ListsGrow DEF KInv
    <2>8. Pointers'
      BY <1>t, <2>1, <2>2, <2>5 DEF KInv, Pointers
    <2>9. ArgIsSet'
      <3>a. arg \in [Threads -> Known \cup {NoProc}]
        BY DEF KInv, Pointers
      <3>1. arg'[t] = p /\ \A u \in Threads : u # t => arg'[u] = arg[u]
        BY <1>t, <2>1, <3>a
      <3>2. p # NoProc /\ "app" \notin UsesArg
        BY <2>3, ProcsAssumption DEF UsesArg, Searches, Swaps, Unsleeps
      <3> QED BY <2>4, <3>1, <3>2 DEF KInv, ArgIsSet
    <2>10. NullOnlyThere'
      <3>1. current \in Known
        BY <1>t, <2>2, RunningIsKnown DEF NullSteps
      <3> QED BY <2>2, <3>1, ProcsAssumption DEF NullOnlyThere, Known
    <2>11. InterruptedThread'
      BY <2>2 DEF InterruptedThread
    <2>12. LinkNotBehind'
      <3>1. \A u \in Procs : pc'[u] = "link" => pc[u] = "link" /\ u # t
        BY <1>t, <2>2, <2>4
      <3>2. \A u \in Threads : u # t => arg'[u] = arg[u]
        BY <2>1 DEF KInv, Pointers
      <3> QED BY <1>t, <2>7, <3>1, <3>2 DEF KInv, LinkNotBehind
    <2> QED BY <2>6, <2>7, <2>8, <2>9, <2>10, <2>11, <2>12 DEF KInv
  <1>2. CASE CreateNoStack(t)
    <2>1. PICK p \in Unused : held' = [held EXCEPT ![p] = {"space"}]
      BY <1>2 DEF CreateNoStack
    <2>2. UNCHANGED <<ready, sleeping, waiting, vruntime, sleepTicks, globalMin,
                      current, table, pid, frame, cr3, cpu, pc, arg, reg, isr,
                      ticks, slot, overtaken, behind>>
      BY <1>2 DEF CreateNoStack, schedVars, clockVars, callVars
    <2>3. held' \in [Procs -> SUBSET Parts]
      BY <2>1 DEF KInv, FlatTypeOK, Parts
    <2>4. FlatTypeOK'
      BY <2>2, <2>3 DEF KInv, FlatTypeOK
    <2> QED BY <2>2, <2>4 DEF KInv, Lists, Pointers, ArgIsSet, LinkNotBehind, NullOnlyThere,
               InterruptedThread, Known, NotBehind
  <1> QED BY <1>1, <1>2

LEMMA StartKeeps ==
    ASSUME KInv, NEW t \in Procs, Register(t) \/ process_start(t) \/ Link(t)
    PROVE  KInv'
  <1>t. t \in Threads /\ {"start", "link", "app"} \subseteq Steps \ {"none"}
    BY DEF Threads, Steps
  <1>1. CASE Register(t)
    <2>1. /\ isr = 0 /\ cpu = t /\ pc[t] = "register" /\ isr' = 0
          /\ table' = [table EXCEPT ![pid[arg[t]]] = arg[t]]
          /\ pc' = [pc EXCEPT ![t] = "start"]
          /\ UNCHANGED <<ready, sleeping, waiting, vruntime, sleepTicks,
                         globalMin, current, pid, frame, held, cr3, cpu, arg,
                         reg, ticks, slot, overtaken, behind>>
      BY <1>1 DEF Register, At, Goto, schedVars, clockVars, callVars
    <2>2. arg[t] \in Known /\ arg[t] \in Procs /\ arg[t] # NoProc
          /\ arg' = [arg EXCEPT ![t] = arg[t]]
      BY <2>1, <1>t, ArgIsKnown DEF UsesArg, KInv, Pointers
    <2>3. pc' \in [Threads -> Steps] /\ Known \subseteq Known'
      BY <1>t, <2>1, PcStep DEF KInv
    <2>4. FlatTypeOK'
      BY <2>1, <2>2, <2>3 DEF KInv, FlatTypeOK
    <2>5. NotBehind \subseteq NotBehind' /\ Lists'
      <3>1. NotBehind \subseteq NotBehind'
        BY <2>1, <2>3 DEF NotBehind
      <3> QED BY <2>1, <2>3, <3>1, ListsGrow DEF KInv
    <2>6. current \in Known /\ current # NoProc
      BY <2>1, <1>t, RunningIsKnown, ProcsAssumption DEF Known, NullSteps
    <2> QED BY <1>t, <2>1, <2>2, <2>4, <2>5, <2>6, ThreadStep
  <1>2. ASSUME process_start(t) \/ Link(t)
        PROVE  /\ isr = 0 /\ cpu = t /\ t \in Threads
               /\ arg[t] \in Known /\ arg[t] \in Procs /\ arg[t] # NoProc
               /\ current # NoProc
               /\ UNCHANGED <<sleeping, waiting, behind>>
               /\ UNCHANGED <<sleepTicks, globalMin, current, table, pid, frame,
                              held, cr3, cpu, arg, reg, clockVars>>
               /\ slot' \in [Threads -> Nat \ {0}] /\ overtaken' \in BOOLEAN
    <2>1. /\ isr = 0 /\ cpu = t /\ pc[t] \in {"start", "link"}
          /\ UNCHANGED <<sleeping, waiting, sleepTicks, globalMin, current, table,
                         pid, frame, held, cr3, cpu, arg, reg, clockVars, slot,
                         overtaken, behind>>
      BY <1>2 DEF process_start, Link, At, callVars
    <2>2. arg[t] \in Known /\ arg[t] \in Procs /\ arg[t] # NoProc
      BY <2>1, <1>t, ArgIsKnown DEF UsesArg
    <2>3. current # NoProc
      BY <2>1, <1>t, RunningIsKnown, ProcsAssumption DEF Known, NullSteps
    <2> QED BY <1>t, <2>1, <2>2, <2>3 DEF KInv, FlatTypeOK
  <1>v. vruntime \in [Procs -> Nat] /\ globalMin \in Nat
    BY DEF KInv, FlatTypeOK
  <1>3. CASE process_start(t) /\ Len(ready) >= MaxProcesses
    <2>1. pc' = [pc EXCEPT ![t] = "app"] /\ ready' = ready /\ vruntime' = vruntime
      BY <1>3 DEF process_start, Goto
    <2>2. ASSUME Known \subseteq Known' PROVE Lists' /\ NotBehind \subseteq NotBehind'
      <3>1. NotBehind \subseteq NotBehind'
        BY <1>2, <1>3, <2>1, <2>2 DEF NotBehind
      <3> QED BY <1>2, <1>3, <2>1, <2>2, <3>1, ListsGrow DEF KInv
    <2> QED BY <1>t, <1>v, <1>2, <1>3, <2>1, <2>2, ListStep DEF UsesArg
  <1>4. CASE process_start(t) /\ ~ (Len(ready) >= MaxProcesses)
    <2>1. /\ pc' = [pc EXCEPT ![t] = "link"] /\ ready' = ready
          /\ vruntime' = [vruntime EXCEPT ![arg[t]] = globalMin]
      BY <1>4 DEF process_start, Goto, RaiseNew
    <2>2. /\ vruntime' \in [Procs -> Nat] /\ vruntime'[arg[t]] = globalMin
          /\ \A q \in Procs : q # arg[t] => vruntime'[q] = vruntime[q]
      BY <1>v, <1>2, <1>4, <2>1
    <2>3. ASSUME Known \subseteq Known' PROVE Lists' /\ NotBehind \subseteq NotBehind'
      <3>1. NotBehind \subseteq NotBehind'
        BY <1>v, <1>2, <1>4, <2>2, <2>3 DEF NotBehind, Known
      <3> QED BY <1>2, <1>4, <2>1, <2>3, <3>1, ListsGrow DEF KInv
    <2> QED BY <1>t, <1>2, <1>4, <2>1, <2>2, <2>3, ListStep
  <1>5. CASE Link(t)
    <2>1. /\ pc' = [pc EXCEPT ![t] = "app"] /\ vruntime' = vruntime
          /\ ready' = Append(ready, arg[t]) /\ pc[t] = "link"
      BY <1>5 DEF Link, At, Goto, LinkNew
    <2>2. arg[t] \in NotBehind
      BY <2>1 DEF KInv, LinkNotBehind
    <2>3. ready' \in Seq(NotBehind)
      BY <2>1, <2>2 DEF KInv, Lists
    <2>4. ASSUME Known \subseteq Known' PROVE Lists' /\ NotBehind \subseteq NotBehind'
      <3>1. NotBehind \subseteq NotBehind'
        BY <1>2, <1>5, <2>1, <2>4 DEF NotBehind
      <3> QED BY <1>2, <1>5, <2>3, <2>4, <3>1, ListsGrow DEF KInv
    <2> QED BY <1>t, <1>v, <1>2, <1>5, <2>1, <2>4, ListStep DEF UsesArg
  <1> QED BY <1>1, <1>3, <1>4, <1>5

---------------------------------------------------------------------------
(* Exit and schedule().                                                    *)

\* A step of exit or schedule() that leaves the lists alone.
LEMMA QuietStep ==
    ASSUME KInv, NEW t \in Threads, cpu = t, isr = 0,
           NEW s \in Steps \ {"none", "link"}, pc' = [pc EXCEPT ![t] = s],
           NEW a \in Known \cup {NoProc}, arg' = [arg EXCEPT ![t] = a],
           s \in UsesArg => a # NoProc,
           current' \in Known \cup {NoProc},
           current' = NoProc => cpu' = t /\ s \in NullSteps,
           table' \in [Pids -> Procs \cup {NoProc}],
           frame' \in [Procs -> Threads \cup {Spent}],
           held' \in [Procs -> SUBSET Parts],
           cr3' \in Procs \cup {NoProc},
           cpu' \in Threads \cup {Panic},
           reg' \in [Threads -> Threads \cup {Spent}],
           UNCHANGED <<schedVars, pid, clockVars, callVars>>
    PROVE  KInv'
  <1>1. UNCHANGED <<ready, sleeping, waiting, vruntime, sleepTicks, globalMin,
                    pid, isr, ticks, slot, overtaken, behind>>
    BY DEF schedVars, clockVars, callVars
  <1>2. pc' \in [Threads -> Steps] /\ Known \subseteq Known'
    BY PcStep DEF KInv
  <1>3. FlatTypeOK'
    BY <1>1, <1>2 DEF KInv, FlatTypeOK
  <1>4. NotBehind \subseteq NotBehind' /\ Lists'
    <2>1. NotBehind \subseteq NotBehind'
      BY <1>1, <1>2 DEF NotBehind
    <2> QED BY <1>1, <1>2, <2>1, ListsGrow DEF KInv
  <1> QED BY <1>1, <1>3, <1>4, ThreadStep

\* The same, when exit has reached a point after its list removals.
LEMMA ExitStep ==
    ASSUME KInv, NEW t \in Threads, cpu = t, isr = 0,
           NEW s \in {"exit_stack", "exit_space", "exit_slot", "sched_next"},
           pc' = [pc EXCEPT ![t] = s],
           current' \in {current, NoProc},
           table' \in [Pids -> Procs \cup {NoProc}],
           held' \in [Procs -> SUBSET Parts],
           UNCHANGED <<schedVars, pid, frame, cr3, cpu, arg, reg, clockVars,
                     callVars>>
    PROVE  KInv'
  <1>1. s \in Steps \ {"none", "link"} /\ s \notin UsesArg /\ s \in NullSteps
    BY DEF Steps, ExitSteps, SchedSteps, UsesArg, NullSteps, Searches, Swaps,
       Unsleeps
  <1>2. arg[t] \in Known \cup {NoProc} /\ arg' = [arg EXCEPT ![t] = arg[t]]
        /\ current' \in Known \cup {NoProc}
    BY DEF KInv, Pointers
  <1>3. /\ frame' \in [Procs -> Threads \cup {Spent}]
        /\ cr3' \in Procs \cup {NoProc}
        /\ cpu' \in Threads \cup {Panic}
        /\ reg' \in [Threads -> Threads \cup {Spent}]
    BY DEF KInv, FlatTypeOK
  <1> QED BY <1>1, <1>2, <1>3, QuietStep

LEMMA ExitKeeps ==
    ASSUME KInv, NEW t \in Procs,
           ExitBegin(t) \/ SearchSleeping(t) \/ SwapSleeping(t) \/ ExitDetach(t) \/ ExitStack(t) \/ ExitSpace(t)
           \/ ExitSlot(t)
    PROVE  KInv'
  <1>t. t \in Threads
        /\ {"exit_remove", "exit_detach"} \subseteq Steps \ {"none", "link"}
        /\ "exit_unsleep_swap" \in Steps \ {"none", "link"}
        /\ "exit_unsleep" \in Unsleeps /\ "exit_detach" \notin UsesArg
        /\ "exit_unsleep_swap" \in UsesArg /\ "exit_unsleep_swap" \notin NullSteps
    BY DEF Threads, Steps, ExitSteps, Searches, Unsleeps, UsesArg, Swaps, NullSteps
  <1>h. /\ held \in [Procs -> SUBSET Parts]
        /\ table \in [Pids -> Procs \cup {NoProc}]
    BY DEF KInv, FlatTypeOK
  <1>1. CASE ExitBegin(t)
    <2>1. /\ isr = 0 /\ cpu = t /\ pc[t] = "app" /\ isr' = 0
          /\ current # NoProc
          /\ arg' = [arg EXCEPT ![t] = current]
          /\ pc' = [pc EXCEPT ![t] = "exit_remove"]
          /\ UNCHANGED <<schedVars, current, table, pid, frame, held, cr3, cpu,
                         reg, clockVars, callVars>>
      BY <1>1 DEF ExitBegin, Enter, At, Goto, clockVars
    <2>2. current \in Known
      BY <1>t, <2>1, RunningIsKnown DEF NullSteps
    <2>3. /\ frame \in [Procs -> Threads \cup {Spent}]
          /\ cr3 \in Procs \cup {NoProc}
          /\ cpu \in Threads \cup {Panic}
          /\ reg \in [Threads -> Threads \cup {Spent}]
      BY DEF KInv, FlatTypeOK
    <2> QED BY <1>t, <1>h, <2>1, <2>2, <2>3, QuietStep
  <1>2. CASE ExitDetach(t)
    <2>1. /\ cpu = t /\ isr = 0 /\ pc' = [pc EXCEPT ![t] = "exit_stack"]
          /\ current' = NoProc /\ table' = table /\ held' = held
          /\ UNCHANGED <<schedVars, pid, frame, cr3, cpu, arg, reg, clockVars,
                     callVars>>
      BY <1>2 DEF ExitDetach, At, Goto
    <2> QED BY <1>t, <1>h, <2>1, ExitStep
  <1>3. CASE ExitStack(t)
    <2>1. /\ cpu = t /\ isr = 0 /\ pc' = [pc EXCEPT ![t] = "exit_space"]
          /\ held' = [held EXCEPT ![arg[t]] = @ \ {"context", "stack"}]
          /\ current' = current /\ table' = table
          /\ UNCHANGED <<schedVars, pid, frame, cr3, cpu, arg, reg, clockVars,
                     callVars>>
      BY <1>3 DEF ExitStack, At, Goto
    <2>2. held' \in [Procs -> SUBSET Parts]
      BY <1>h, <2>1
    <2> QED BY <1>t, <1>h, <2>1, <2>2, ExitStep
  <1>4. CASE ExitSpace(t)
    <2>1. /\ cpu = t /\ isr = 0 /\ pc' = [pc EXCEPT ![t] = "exit_slot"]
          /\ held' = [held EXCEPT ![arg[t]] = @ \ {"space"}]
          /\ current' = current /\ table' = table
          /\ UNCHANGED <<schedVars, pid, frame, cr3, cpu, arg, reg, clockVars,
                     callVars>>
      BY <1>4 DEF ExitSpace, At, Goto
    <2>2. held' \in [Procs -> SUBSET Parts]
      BY <1>h, <2>1
    <2> QED BY <1>t, <1>h, <2>1, <2>2, ExitStep
  <1>5. CASE ExitSlot(t)
    <2>1. /\ cpu = t /\ isr = 0 /\ pc' = [pc EXCEPT ![t] = "sched_next"]
          /\ table' = [table EXCEPT ![pid[arg[t]]] = NoProc]
          /\ held' = [held EXCEPT ![arg[t]] = @ \ {"pcb"}]
          /\ current' = current
          /\ UNCHANGED <<schedVars, pid, frame, cr3, cpu, arg, reg, clockVars,
                     callVars>>
      BY <1>5 DEF ExitSlot, At, Goto
    <2>2. /\ held' \in [Procs -> SUBSET Parts]
          /\ table' \in [Pids -> Procs \cup {NoProc}]
      BY <1>h, <2>1
    <2> QED BY <1>t, <2>1, <2>2, ExitStep
  <1>6. CASE SearchSleeping(t)
    BY <1>t, <1>6, SearchKeeps DEF SearchSleeping
  <1>7. CASE SwapSleeping(t)
    <2>1. /\ isr = 0 /\ cpu = t /\ pc[t] = "exit_unsleep_swap"
          /\ sleeping' = SwapRemove(sleeping, slot[t])
          /\ pc' = [pc EXCEPT ![t] = "exit_detach"]
          /\ slot' = [slot EXCEPT ![t] = 1]
          /\ UNCHANGED <<ready, waiting, vruntime, overtaken, behind>>
          /\ UNCHANGED <<sleepTicks, globalMin, current, table, pid, frame, held,
                         cr3, cpu, arg, reg, clockVars>>
      BY <1>7 DEF SwapSleeping, At, Goto
    <2>2. sleeping' \in Seq(Known)
      BY <2>1, SwapRemoveSeq DEF KInv, Lists
    <2>3. ASSUME Known \subseteq Known' PROVE Lists' /\ NotBehind \subseteq NotBehind'
      <3>1. NotBehind \subseteq NotBehind'
        BY <2>1, <2>3 DEF NotBehind
      <3> QED BY <2>1, <2>2, <2>3, <3>1, ListsGrow DEF KInv
    <2>4. arg[t] # NoProc /\ current # NoProc
      BY <2>1, <1>t, ArgIsKnown, RunningIsKnown, ProcsAssumption DEF Known
    <2>5. /\ vruntime' \in [Procs -> Nat] /\ slot' \in [Threads -> Nat \ {0}]
          /\ overtaken' \in BOOLEAN
      <3>1. /\ vruntime \in [Procs -> Nat] /\ slot \in [Threads -> Nat \ {0}]
            /\ overtaken \in BOOLEAN
        BY DEF KInv, FlatTypeOK
      <3>2. 1 \in Nat \ {0}
        OBVIOUS
      <3> QED BY <2>1, <3>1, <3>2
    <2> QED BY <1>t, <2>1, <2>3, <2>4, <2>5, ListStep
  <1> QED BY <1>1, <1>2, <1>3, <1>4, <1>5, <1>6, <1>7

\* The frame popped is a thread's, or the CPU ends in the panic screen.
LEMMA ResumeTypes ==
    ASSUME NEW f \in Threads \cup {Spent}, NEW p,
           NEW saved \in [Procs -> Threads \cup {Spent}],
           Resume(f, p, saved)
    PROVE  /\ frame' \in [Procs -> Threads \cup {Spent}]
           /\ cpu' \in Threads \cup {Panic}
  <1> QED BY DEF Resume

LEMMA ScheduleKeeps ==
    ASSUME KInv, NEW t \in Threads, ScheduleStep(t)
    PROVE  KInv'
  <1>t. {"sched_set", "sched_load", "sched_jump", "gone"}
          \subseteq Steps \ {"none", "link"}
    BY DEF Steps, SchedSteps
  <1>h. /\ held \in [Procs -> SUBSET Parts]
        /\ table \in [Pids -> Procs \cup {NoProc}]
        /\ frame \in [Procs -> Threads \cup {Spent}]
        /\ cr3 \in Procs \cup {NoProc}
        /\ cpu \in Threads \cup {Panic}
        /\ reg \in [Threads -> Threads \cup {Spent}]
        /\ current \in Known \cup {NoProc}
        /\ arg[t] \in Known \cup {NoProc} /\ arg = [arg EXCEPT ![t] = arg[t]]
    BY DEF KInv, FlatTypeOK, Pointers
  <1>n. NoProc \notin Known
    BY ProcsAssumption DEF Known
  <1>1. CASE ScheduleNext(t)
    <2>1. PICK next \in Procs : scheduler_next(next) /\ arg' = [arg EXCEPT ![t] = next]
      BY <1>1 DEF ScheduleNext
    <2>2. /\ cpu = t /\ isr = 0 /\ pc' = [pc EXCEPT ![t] = "sched_set"]
          /\ UNCHANGED <<schedVars, current, table, pid, frame, held, cr3, cpu,
                         reg, clockVars, callVars>>
      BY <1>1 DEF ScheduleNext, At, Goto
    <2>3. next \in Known
      BY <2>1, NextIsKnown DEF KInv
    <2>4. "sched_set" \in NullSteps
      BY DEF NullSteps
    <2> QED BY <1>t, <1>h, <1>n, <2>1, <2>2, <2>3, <2>4, QuietStep
  <1>2. CASE ScheduleSet(t)
    <2>1. /\ cpu = t /\ isr = 0 /\ pc[t] = "sched_set"
          /\ pc' = [pc EXCEPT ![t] = "sched_load"]
          /\ current' = arg[t] /\ arg' = arg
          /\ UNCHANGED <<schedVars, table, pid, frame, held, cr3, cpu, reg,
                         clockVars, callVars>>
      BY <1>2 DEF ScheduleSet, At, Goto
    <2>2. arg[t] \in Known
      BY <2>1, ArgIsKnown DEF UsesArg
    <2> QED BY <1>t, <1>h, <1>n, <2>1, <2>2, QuietStep
  <1>3. CASE ScheduleLoad(t)
    <2>1. /\ cpu = t /\ isr = 0 /\ pc[t] = "sched_load"
          /\ pc' = [pc EXCEPT ![t] = "sched_jump"]
          /\ cr3' = arg[t]
          /\ reg' = [reg EXCEPT ![t] = frame[arg[t]]] /\ arg' = arg
          /\ UNCHANGED <<schedVars, current, table, pid, frame, held, cpu,
                         clockVars, callVars>>
      BY <1>3 DEF ScheduleLoad, At, Goto
    <2>2. arg[t] \in Procs
      BY <2>1, ArgIsKnown DEF UsesArg
    <2>3. reg' \in [Threads -> Threads \cup {Spent}]
      BY <1>h, <2>1, <2>2
    <2>4. current # NoProc
      BY <2>1, <1>n, RunningIsKnown DEF NullSteps
    <2>5. "sched_jump" \notin UsesArg
      BY DEF UsesArg, Searches, Swaps, Unsleeps
    <2> QED BY <1>t, <1>h, <2>1, <2>2, <2>3, <2>4, <2>5, QuietStep
  <1>4. CASE ScheduleJump(t)
    <2>1. /\ cpu = t /\ isr = 0 /\ pc[t] = "sched_jump"
          /\ pc' = [pc EXCEPT ![t] = "gone"]
          /\ Resume(reg[t], arg[t], frame) /\ arg' = arg
          /\ UNCHANGED <<schedVars, current, table, pid, held, cr3, reg,
                         clockVars, callVars>>
      BY <1>4 DEF ScheduleJump, At, Goto
    <2>2. /\ frame' \in [Procs -> Threads \cup {Spent}]
          /\ cpu' \in Threads \cup {Panic}
      BY <1>h, <2>1, ResumeTypes
    <2>3. current # NoProc
      BY <2>1, <1>n, RunningIsKnown DEF NullSteps
    <2>4. "gone" \notin UsesArg
      BY DEF UsesArg, Searches, Swaps, Unsleeps
    <2> QED BY <1>t, <1>h, <2>1, <2>2, <2>3, <2>4, QuietStep
  <1> QED BY <1>1, <1>2, <1>3, <1>4 DEF ScheduleStep

---------------------------------------------------------------------------
(* Interrupts.                                                             *)

\* The handler is entered, from a thread or from yield().
LEMMA EnterTimerKeeps ==
    ASSUME KInv, isr = 0, cpu \in Threads, EnterTimer, Known' = Known,
           pc' \in [Threads -> Steps],
           \A t \in Threads : pc'[t] # pc[t] => pc'[t] = "app" /\ pc[t] = "yield",
           UNCHANGED <<ready, sleeping, waiting, sleepTicks, current, table, pid,
                       frame, held, cr3, cpu, arg, reg>>
    PROVE  KInv'
  <1>1. isr' = 1 /\ ticks' = ticks + 1
    BY DEF EnterTimer
  <1>2. /\ vruntime' \in [Procs -> Nat]
        /\ globalMin' \in Nat
        /\ behind' \subseteq Procs
        /\ ready' \in Seq(NotBehind')
        /\ \A t \in Procs : pc[t] = "link" => arg[t] \in NotBehind'
    BY ChargeKeepsLists
  <1>a. UNCHANGED <<slot, overtaken>>
    BY DEF EnterTimer
  <1>3. FlatTypeOK'
    BY <1>1, <1>a, <1>2 DEF KInv, FlatTypeOK
  <1>4. Lists'
    BY <1>2 DEF KInv, Lists
  <1>5. Pointers'
    BY DEF KInv, Pointers
  <1>6. ArgIsSet'
    <2>1. "app" \notin UsesArg
      BY DEF UsesArg, Searches, Swaps, Unsleeps
    <2> QED BY <2>1 DEF KInv, ArgIsSet
  <1>9. LinkNotBehind'
    <2>1. \A t \in Procs : pc'[t] = "link" => pc[t] = "link"
      BY DEF Threads
    <2> QED BY <1>2, <2>1 DEF LinkNotBehind
  <1>7. NullOnlyThere'
    <2>1. "yield" \notin NullSteps
      BY DEF NullSteps
    <2> QED BY <2>1 DEF KInv, NullOnlyThere
  <1>8. InterruptedThread'
    BY DEF InterruptedThread
  <1> QED BY <1>3, <1>4, <1>5, <1>6, <1>7, <1>8, <1>9 DEF KInv

LEMMA TimerKeeps ==
    ASSUME KInv, TimerInterrupt PROVE KInv'
  <1>1. /\ isr = 0 /\ cpu # Panic /\ EnterTimer
        /\ UNCHANGED <<ready, sleeping, waiting, sleepTicks, current, table, pid,
                       frame, held, cr3, cpu, pc, arg, reg>>
    BY DEF TimerInterrupt, procVars
  <1>2. cpu \in Threads /\ pc' \in [Threads -> Steps]
    BY <1>1 DEF KInv, FlatTypeOK
  <1>3. Known' = Known
    BY <1>1 DEF Known
  <1> QED BY <1>1, <1>2, <1>3, EnterTimerKeeps

LEMMA YieldKeeps ==
    ASSUME KInv, NEW t \in Procs, Yield(t) PROVE KInv'
  <1>1. /\ isr = 0 /\ cpu = t /\ pc[t] = "yield" /\ EnterTimer
        /\ pc' = [pc EXCEPT ![t] = "app"]
        /\ UNCHANGED <<ready, sleeping, waiting, sleepTicks, current,
                       table, pid, frame, held, cr3, cpu, arg, reg>>
    BY DEF Yield
  <1>2. t \in Threads /\ "app" \in Steps \ {"none"}
    BY DEF Threads, Steps
  <1>3. /\ pc' \in [Threads -> Steps] /\ pc'[t] = "app"
        /\ \A u \in Threads : u # t => pc'[u] = pc[u]
    BY <1>1, <1>2, PcStep DEF KInv
  <1>4. Known' = Known
    <2>1. \A p \in Procs : p \in Threads
      BY DEF Threads
    <2> QED BY <1>1, <1>3, <2>1 DEF Known
  <1> QED BY <1>1, <1>2, <1>3, <1>4, EnterTimerKeeps

LEMMA SleeperKeeps ==
    ASSUME KInv, TickSleeper PROVE KInv'
  <1>1. /\ isr \in 1 .. Len(sleeping)
        /\ WakeStep(isr)
        /\ isr' = IF Len(sleeping') < Len(sleeping) THEN isr ELSE isr + 1
        /\ UNCHANGED <<waiting, globalMin, current, table, pid, frame, held, cr3,
                       cpu, pc, arg, reg, ticks, slot, overtaken, behind>>
    BY DEF TickSleeper, procVars, callVars
  <1> DEFINE p == sleeping[isr]
  <1>2. /\ sleeping \in [1 .. Len(sleeping) -> Known]
        /\ DOMAIN sleeping = 1 .. Len(sleeping)
    BY LenProperties DEF KInv, Lists
  <1>3. p \in Known /\ p \in Procs
    BY <1>1, <1>2 DEF Known
  <1>4. Known' = Known
    BY <1>1 DEF Known
  <1>5. sleepTicks' = [sleepTicks EXCEPT ![p] = @ - 1]
    BY <1>1 DEF WakeStep
  <1>6. \/ /\ sleeping' = SwapRemove(sleeping, isr)
           /\ scheduler_add(p)
        \/ UNCHANGED <<sleeping, ready, vruntime>>
    BY <1>1 DEF WakeStep
  <1> HIDE DEF p
  <1>7. /\ NotBehind \subseteq NotBehind'
        /\ ready' \in Seq(NotBehind')
        /\ vruntime' \in [Procs -> Nat]
        /\ sleeping' \in Seq(Known)
    <2>1. CASE sleeping' = SwapRemove(sleeping, isr) /\ scheduler_add(p)
      <3>1. sleeping' \in Seq(Known)
        BY <1>1, <1>2, <2>1, SwapRemoveSeq DEF KInv, Lists
      <3> QED BY <1>1, <1>3, <1>4, <2>1, <3>1, AddKeepsLists DEF KInv
    <2>2. CASE UNCHANGED <<sleeping, ready, vruntime>>
      <3>1. NotBehind' = NotBehind
        BY <1>1, <1>4, <2>2 DEF NotBehind
      <3> QED BY <2>2, <3>1 DEF KInv, Lists, FlatTypeOK
    <2> QED BY <1>6, <2>1, <2>2
  <1>8. sleepTicks' \in [Procs -> Int] /\ isr' \in Nat /\ isr' # 0
    BY <1>1, <1>3, <1>5 DEF KInv, FlatTypeOK
  <1>9. FlatTypeOK'
    BY <1>1, <1>7, <1>8 DEF KInv, FlatTypeOK
  <1>10. Lists'
    BY <1>1, <1>4, <1>7 DEF KInv, Lists
  <1>11. Pointers' /\ ArgIsSet' /\ LinkNotBehind' /\ NullOnlyThere'
    BY <1>1, <1>4, <1>7 DEF KInv, Pointers, ArgIsSet, LinkNotBehind, NullOnlyThere
  <1>12. InterruptedThread'
    BY <1>1 DEF KInv, InterruptedThread
  <1> QED BY <1>9, <1>10, <1>11, <1>12 DEF KInv

\* The switch: current_process is never null afterwards.
LEMMA SwitchKeeps ==
    ASSUME KInv, process_on_timer_interrupt PROVE KInv'
  <1> DEFINE saved == IF current \in {NoProc, Idle} THEN frame
                      ELSE [frame EXCEPT ![current] = cpu]
  <1>1. /\ isr > Len(sleeping) /\ isr' = 0
        /\ UNCHANGED <<ready, sleeping, waiting, vruntime, sleepTicks, globalMin,
                       table, pid, held, pc, arg, reg, ticks, slot, overtaken,
                       behind>>
    BY DEF process_on_timer_interrupt, schedVars, callVars
  <1>2. PICK next \in Procs :
           /\ scheduler_next(next)
           /\ IF next = current
              THEN /\ frame' = IF current = Idle THEN frame
                               ELSE [saved EXCEPT ![current] = Spent]
                   /\ UNCHANGED <<current, cr3, cpu>>
              ELSE /\ current' = next
                   /\ cr3' = next
                   /\ Resume(saved[next], next, saved)
    BY DEF process_on_timer_interrupt
  <1>3. next \in Known
    BY <1>2, NextIsKnown DEF KInv
  <1>4. cpu \in Threads
    <2>1. Len(sleeping) \in Nat
      BY LenProperties DEF KInv, Lists
    <2> QED BY <1>1, <2>1 DEF KInv, InterruptedThread, FlatTypeOK
  <1>5. saved \in [Procs -> Threads \cup {Spent}]
    BY <1>4 DEF KInv, FlatTypeOK
  <1> HIDE DEF saved
  <1>6. /\ frame' \in [Procs -> Threads \cup {Spent}]
        /\ cpu' \in Threads \cup {Panic}
        /\ current' = next
        /\ cr3' \in Procs \cup {NoProc}
    <2>1. CASE next = current
      BY <1>2, <1>4, <1>5, <2>1 DEF KInv, FlatTypeOK
    <2>2. CASE next # current
      BY <1>2, <1>5, <2>2, ResumeTypes
    <2> QED BY <2>1, <2>2
  <1>7. Known' = Known
    BY <1>1 DEF Known
  <1>8. FlatTypeOK'
    BY <1>1, <1>6 DEF KInv, FlatTypeOK
  <1>9. Lists'
    BY <1>1, <1>7 DEF KInv, Lists, NotBehind
  <1>10. Pointers' /\ ArgIsSet' /\ LinkNotBehind'
    BY <1>1, <1>3, <1>6, <1>7 DEF KInv, Pointers, ArgIsSet, LinkNotBehind, NotBehind
  <1>11. NullOnlyThere' /\ InterruptedThread'
    BY <1>1, <1>2, <1>6, ProcsAssumption DEF NullOnlyThere, InterruptedThread
  <1> QED BY <1>8, <1>9, <1>10, <1>11 DEF KInv

LEMMA KeyboardKeeps ==
    ASSUME KInv, KeyboardInterrupt PROVE KInv'
  <1>1. /\ isr = 0 /\ waiting # << >>
        /\ waiting' = Tail(waiting) /\ scheduler_add(Head(waiting))
        /\ UNCHANGED <<sleeping, sleepTicks, globalMin, current, table, pid,
                       frame, held, cr3, cpu, pc, arg, reg, isr, ticks, slot,
                       overtaken, behind>>
    BY DEF KeyboardInterrupt, wake_up_one, procVars, clockVars, callVars
  <1>2. Head(waiting) \in Known /\ Tail(waiting) \in Seq(Known)
    BY <1>1, HeadTailProperties DEF KInv, Lists
  <1>3. Known' = Known
    BY <1>1 DEF Known
  <1>4. /\ NotBehind \subseteq NotBehind'
        /\ ready' \in Seq(NotBehind')
        /\ vruntime' \in [Procs -> Nat]
    BY <1>1, <1>2, <1>3, AddKeepsLists DEF KInv
  <1>5. FlatTypeOK'
    BY <1>1, <1>4 DEF KInv, FlatTypeOK
  <1>6. Lists'
    BY <1>1, <1>2, <1>3, <1>4 DEF KInv, Lists
  <1>7. LinkNotBehind'
    BY <1>1, <1>4 DEF KInv, LinkNotBehind
  <1> QED BY <1>1, <1>3, <1>5, <1>6, <1>7 DEF KInv, Pointers, ArgIsSet,
             NullOnlyThere, InterruptedThread

---------------------------------------------------------------------------
(* The theorems.                                                           *)

LEMMA InitKernel == Init => KInv
  <1> SUFFICES ASSUME Init PROVE KInv
    OBVIOUS
  <1>1. PICK loaded \in BOOLEAN :
          LET created == IF loaded THEN {Idle, First} ELSE {Idle} IN
          /\ SchedInit(IF loaded THEN <<First>> ELSE << >>)
          /\ pid = [p \in Procs |-> CASE p = Idle -> 1
                                      [] p \in created \ {Idle} -> 2
                                      [] OTHER -> 0]
          /\ table = [i \in Pids |-> CASE i = 1 -> Idle
                                       [] i = 2 /\ loaded -> First
                                       [] OTHER -> NoProc]
          /\ held = [p \in Procs |-> CASE p = Idle -> Parts \ {"context"}
                                       [] p \in created \ {Idle} -> Parts
                                       [] OTHER -> {}]
          /\ pc = [t \in Threads |-> CASE t = Boot -> "sched_next"
                                       [] t = Idle -> "halt"
                                       [] t \in created \ {Idle} -> "app"
                                       [] OTHER -> "none"]
    BY DEF Init
  <1>2. /\ current = NoProc /\ cr3 = NoProc /\ cpu = Boot
        /\ frame = [p \in Procs |-> p]
        /\ arg = [t \in Threads |-> NoProc]
        /\ reg = [t \in Threads |-> Spent]
        /\ isr = 0 /\ ticks = 0
        /\ slot = [t \in Threads |-> 1] /\ overtaken = FALSE /\ behind = {}
    BY DEF Init
  <1>3. /\ Idle \in Procs /\ First \in Procs /\ First # Idle
        /\ Boot \in Threads /\ Boot # Idle /\ Boot # First
        /\ \A p \in Procs : p \in Threads
    BY ProcsAssumption, ThreadsAssumption DEF Threads
  <1>4. pc \in [Threads -> Steps] /\ pc[Boot] = "sched_next"
        /\ pc[Idle] = "halt" /\ (loaded => pc[First] = "app")
    <2> DEFINE created == IF loaded THEN {Idle, First} ELSE {Idle}
    <2> DEFINE place(t) == CASE t = Boot -> "sched_next"
                             [] t = Idle -> "halt"
                             [] t \in created \ {Idle} -> "app"
                             [] OTHER -> "none"
    <2>1. pc = [t \in Threads |-> place(t)]
      BY <1>1
    <2>2. \A t \in Threads : place(t) \in {"sched_next", "halt", "app", "none"}
      OBVIOUS
    <2>3. {"sched_next", "halt", "app", "none"} \subseteq Steps
      BY DEF Steps, SchedSteps
    <2>4. place(Boot) = "sched_next"
      BY <1>3
    <2>5. place(Idle) = "halt"
      BY <1>3
    <2>6. ASSUME loaded PROVE place(First) = "app"
      <3>1. First \in created \ {Idle} /\ First # Boot /\ First # Idle
        BY <1>3, <2>6
      <3> HIDE DEF created
      <3> QED BY <3>1
    <2> HIDE DEF place
    <2> QED BY <1>3, <2>1, <2>2, <2>3, <2>4, <2>5, <2>6
  <1>5. /\ pid \in [Procs -> Nat]
        /\ table \in [Pids -> Procs \cup {NoProc}]
        /\ held \in [Procs -> SUBSET Parts]
    BY <1>1, <1>3 DEF Parts
  <1>6. /\ ready = (IF loaded THEN <<First>> ELSE << >>)
        /\ sleeping = << >> /\ waiting = << >>
        /\ vruntime = [p \in Procs |-> 0]
        /\ sleepTicks = [p \in Procs |-> 0]
        /\ globalMin = 0
    BY <1>1 DEF SchedInit
  <1>7. FlatTypeOK
    <2>1. slot \in [Threads -> Nat \ {0}] /\ overtaken \in BOOLEAN
          /\ behind \subseteq Procs
      <3>1. \A t \in Threads : 1 \in Nat \ {0}
        OBVIOUS
      <3>2. slot \in [Threads -> Nat \ {0}]
        BY <1>2, <3>1
      <3> QED BY <1>2, <3>2
    <2> QED BY <1>2, <1>3, <1>4, <1>5, <1>6, <2>1 DEF FlatTypeOK
  <1>8. Idle \in Known /\ (loaded => First \in NotBehind)
    BY <1>3, <1>4, <1>6 DEF Known, NotBehind
  <1>9. Lists
    <2>1. loaded => <<First>> \in Seq(NotBehind)
      BY <1>8
    <2> QED BY <1>6, <2>1, EmptySeq DEF Lists
  <1>10. Pointers
    BY <1>2, <1>8 DEF Pointers
  <1>11. ArgIsSet /\ LinkNotBehind
    <2>1. \A t \in Threads : pc[t] \in {"sched_next", "halt", "app", "none"}
      BY <1>1
    <2> QED BY <2>1 DEF ArgIsSet, UsesArg, Searches, Swaps, Unsleeps,
               LinkNotBehind, Threads
  <1>12. NullOnlyThere /\ InterruptedThread
    BY <1>2, <1>3, <1>4 DEF NullOnlyThere, NullSteps, InterruptedThread
  <1> QED BY <1>7, <1>9, <1>10, <1>11, <1>12 DEF KInv

LEMMA NextKernel == KInv /\ [Next]_vars => KInv'
  <1> SUFFICES ASSUME KInv, [Next]_vars PROVE KInv'
    OBVIOUS
  <1>1. ASSUME NEW t \in Procs, AppStep(t) PROVE KInv'
    BY <1>1, SleepKeeps, WaitKeeps, RemoveKeeps, YieldKeeps, CreateKeeps, StartKeeps,
       ExitKeeps DEF AppStep
  <1>2. ASSUME NEW t \in Threads, ScheduleStep(t) PROVE KInv'
    BY <1>2, ScheduleKeeps
  <1>3. CASE UNCHANGED vars
    BY <1>3 DEF vars, schedVars, procVars, clockVars, callVars, KInv,
       FlatTypeOK, Lists, Pointers, ArgIsSet, LinkNotBehind, NullOnlyThere, InterruptedThread, Known, NotBehind
  <1> QED BY <1>1, <1>2, <1>3, TimerKeeps, SleeperKeeps, SwitchKeeps,
             KeyboardKeeps DEF Next, Stopped

LEMMA KernelInvariant == Spec => []KInv
  <1> QED BY InitKernel, NextKernel, PTL DEF Spec

\* The invariant says what TypeOK and ReadyAboveMin say.
LEMMA KInvMeaning == KInv => TypeOK /\ ReadyAboveMin
  <1> SUFFICES ASSUME KInv PROVE TypeOK /\ ReadyAboveMin
    OBVIOUS
  <1>1. Known \subseteq Procs /\ NotBehind \subseteq Procs
    BY DEF Known, NotBehind
  <1>2. ready \in Seq(Procs) /\ sleeping \in Seq(Procs) /\ waiting \in Seq(Procs)
    BY <1>1, SeqMonotonic DEF KInv, Lists
  <1>3. current \in Procs \cup {NoProc} /\ arg \in [Threads -> Procs \cup {NoProc}]
    BY <1>1 DEF KInv, Pointers
  <1>4. ready \in [1 .. Len(ready) -> NotBehind] /\ DOMAIN ready = 1 .. Len(ready)
    BY LenProperties DEF KInv, Lists
  <1>5. ReadyAboveMin
    BY <1>4 DEF ReadyAboveMin, NotBehind
  <1> QED BY <1>2, <1>3, <1>5 DEF KInv, FlatTypeOK, TypeOK, SchedTypeOK

\* Only the charge of a tick assigns global_min_vruntime.
LEMMA MinStep ==
    KInv /\ [Next]_vars
    => \/ globalMin' >= globalMin
       \/ \E p \in behind : vruntime[p] <= globalMin'
  <1> DEFINE MinMove == \/ globalMin' >= globalMin
                        \/ \E p \in behind : vruntime[p] <= globalMin'
  <1> SUFFICES ASSUME KInv, [Next]_vars PROVE MinMove
    OBVIOUS
  <1>1. globalMin \in Nat
    BY DEF KInv, FlatTypeOK
  <1>2. CASE TimerInterrupt
    <2>1. EnterTimer /\ ready' = ready /\ pc' = pc
      BY <1>2 DEF TimerInterrupt, procVars
    <2>2. Known' = Known
      BY <2>1 DEF Known
    <2> QED BY <2>1, <2>2, ChargeKeepsLists
  <1>3. ASSUME NEW t \in Procs, Yield(t) PROVE MinMove
    <2>1. EnterTimer /\ ready' = ready /\ pc' = [pc EXCEPT ![t] = "app"]
          /\ pc[t] = "yield"
      BY <1>3 DEF Yield
    <2>2. t \in Threads /\ "app" \in Steps \ {"none"}
          /\ \A p \in Procs : p \in Threads
      BY DEF Threads, Steps
    <2>3. pc'[t] = "app" /\ \A u \in Threads : u # t => pc'[u] = pc[u]
      BY <2>1, <2>2, PcStep DEF KInv
    <2>4. Known' = Known
      BY <2>1, <2>2, <2>3 DEF Known
    <2> QED BY <2>1, <2>4, ChargeKeepsLists
  <1>4. ASSUME NEW t \in Procs, AppStep(t), ~ Yield(t)
        PROVE  globalMin' = globalMin
    BY <1>4 DEF AppStep, sleep, sleep_ms, BeginSleep, SleepAdd, wait, WaitAdd,
       SearchReady, SearchSleeping, Search, SwapReady, Swap, SwapSleeping,
       Create, CreateNoStack, Register, process_start, Link, ExitBegin,
       ExitDetach, ExitStack, ExitSpace, ExitSlot, schedVars
  <1>5. ASSUME NEW t \in Threads, ScheduleStep(t) PROVE globalMin' = globalMin
    BY <1>5 DEF ScheduleStep, ScheduleNext, ScheduleSet, ScheduleLoad,
       ScheduleJump, schedVars
  <1>6. CASE TickSleeper \/ process_on_timer_interrupt \/ KeyboardInterrupt
             \/ UNCHANGED vars
    BY <1>1, <1>6 DEF TickSleeper, process_on_timer_interrupt,
       KeyboardInterrupt, vars, schedVars
  <1>7. globalMin' = globalMin => MinMove
    BY <1>1
  <1> HIDE DEF MinMove
  <1> QED BY <1>2, <1>3, <1>4, <1>5, <1>6, <1>7 DEF Next, Stopped

\* Every reachable state of the kernel is well typed: in particular no list
\* ever holds a null pointer and p->rsp always names a thread's frame or one
\* that has been popped.
THEOREM KernelTypeCorrect == Spec => []TypeOK
  <1> QED BY KernelInvariant, KInvMeaning, PTL

\* No ready process has a virtual runtime below global_min_vruntime, wherever
\* interrupts, creations and wake-ups fall, but for one that a tick overtook
\* inside scheduler_add.
THEOREM AlwaysAboveMin == Spec => []ReadyAboveMin
  <1> QED BY KernelInvariant, KInvMeaning, PTL

\* global_min_vruntime moves back, if it does, to no less than the virtual
\* runtime of a process that a tick overtook inside scheduler_add.
THEOREM MinMovesBackToBehind == Spec => MinMonotone
  <1>1. ASSUME KInv, [Next]_vars
        PROVE  [(~ overtaken' /\ globalMin' < globalMin)
                => \E p \in behind : vruntime[p] <= globalMin']_vars
    <2>1. globalMin \in Nat
      BY <1>1 DEF KInv, FlatTypeOK
    <2>2. globalMin' \in Nat
      BY <1>1, NextKernel DEF KInv, FlatTypeOK
    <2> QED BY <1>1, <2>1, <2>2, MinStep
  <1> QED BY <1>1, KernelInvariant, PTL DEF Spec, MinMonotone

=============================================================================
