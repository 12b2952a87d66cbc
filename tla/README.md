# Verification of the SHAHiN kernel

TLA+ models of the kernel's core, the TLC runs that check them on small
instances, and TLAPS proofs of what matters most for every instance. Every
definition is a translation of the C and assembly code under `src/`;
`PROJECT.json` names the lines.

## 1. The system

SHAHiN is a 64-bit kernel for one CPU. `KernelMain` sets up memory, interrupts,
the file archive and the devices, creates the idle process and the start-up
application, and enters `core_run`, which enables interrupts and schedules the
first process. Applications are programs of the kernel's own language, compiled
by the kernel (or beforehand by the host's `arpc`) to machine code that calls
helpers of the kernel; every process is kernel code on a stack and in an address
space of its own.

### What runs concurrently

* **Processes** run with interrupts enabled: a new process starts with
  RFLAGS = 0x202, and `core_run` executes `sti`. They are preempted anywhere,
  also in the middle of a kernel call. No kernel call except `kmalloc` and
  `kfree` disables interrupts.
* **The timer interrupt** (100 Hz, or `int $32` from `yield`) charges virtual
  time, wakes sleepers and may switch process.
* **The keyboard and mouse interrupts** decode a byte, fill a buffer and, for the
  keyboard, wake one waiting process.

Interrupts enter through interrupt gates, so a handler is never interrupted:
a handler can be one step of a model, a kernel call cannot.

### Components

"Hard" names what a test would hardly reach; PROJECT.json lists each at its line.

| Component | State | Operations | Interacts with | Hard | What makes it correct |
|---|---|---|---|---|---|
| Scheduling engine | `ready_list`, `sleep_list`, `vruntime`, `global_min_vruntime` | add, remove, next, tick, yield, sleep, schedule | called by processes and by the timer handler on the same lists | a tick, or another removal, inside a removal or an insertion; ordering of virtual times | a process is linked exactly once; who is ready is not behind the least virtual time |
| Process rest manager | none | `sleep`, `sleep_ms` | scheduler | rounding; early wake by other processes' yields | a sleeper is not lost |
| Wait queue manager | `list`, `count` | `wait`, `wake_up_one`, `wake_up` | process code and the keyboard interrupt | preemption inside `wait`, capacity | a waiter is not lost, FIFO |
| Process engine, process table | `current_process`, `process_table`, the `process_t` with `rsp`, stack, address space | create, start, timer switch, exit, schedule | scheduler, heap, paging, language context | preemption of exit and of the switch itself | each context saved once and resumed once; no use after free |
| Timer, interrupt stubs | `ticks` | `isr_timer`, `timer_handler`, `jump_to_first_task` | scheduler, process engine | which stack a frame is on | the frame popped is a frame pushed |
| Interrupt set-up, ACPI power | device registers | boot-time writes | – | – | interrupt gates, one EOI per interrupt |
| Kernel heap | block list with headers in memory, `heap_current`, `heap_end` | `kmalloc`, `kfree` | frame allocator, paging | long sequences of splits and merges; frames run out half way | blocks tile the heap; live memory is never handed out again |
| Frame allocator | bitmap at the first frame after the kernel | `alloc_frame`, `free_frame` | heap (interrupts off), paging and process creation (interrupts on) | read-modify-write of a shared byte, index arithmetic | one holder per frame; frames exist |
| Paging, address spaces | page tables, the spaces' top tables | `paging_init`, `map_page`; create, switch, destroy a space | frame allocator, heap, process engine | splits of huge pages; failure half way; one shared kernel entry | the memory is mapped to itself; a frame has one owner and comes back |
| Memory gateway | – | `alloc`, `free`, byte access | heap | – | the promise of module Allocator |
| Boot, archive | archive table | parse the archive, print, start | loader | – | – |
| Application loader, language context | override context, one global | load, start, exit, context push and pop | process engine, language | another process in between two uses of the global | a process sees its own variables |
| Keyboard | `kb_buffer`, `key_state`, modifiers, prefix flag, language | interrupt handler, `keyboard_read`, `keyboard_is_pressed` | wait queue, language `input` | interrupt inside the read; sequences of prefixed scan codes | the buffer is a queue; no key or modifier sticks |
| Mouse | packet buffer, deltas, buttons | interrupt handler, readers | shares port 0x60 with the keyboard | packet loss, deltas zeroed while the handler adds | a movement is counted once |
| AHCI disk driver | port registers, command slots | find the controller, start the ports, read, write a sector | device | errors that keep a slot; waits without a time-out | a sector command tells whether it was done |
| File system (ArabFS) | a table of entries and one of inodes, in memory and on the disk | format, mount, create, mkdir, rmdir, delete, resolve | AHCI; not called by the kernel yet | a stop between two sectors; tables in memory older than the disk | entries stay, files have inodes of their own |
| Language: text of a script | lines | remove comments, join and split lines, parse | the compiler | what is in a string or in a bracket | the statements are those that were written |
| Language: compiler and its helpers | slots of a frame, two global traces, print buffer, variables | compile a function, run it | heap, context | an operand overwritten by a nested one | the code means what the source means |
| Language: programs and libraries | registries of functions, structures, variables, imported libraries; the compiled file | inline libraries, compile, load, relocate, run, import | archive, loader | offsets and relocations; imports in cycles and at run time | what is loaded is what was written; no library runs twice |
| Video, fonts, panic and development screens; host tools; support library | frame buffer | drawing, conversions | – | – | – |

## 2. The modules

| Module | What it is |
|---|---|
| `Scheduler` | the run queues and the primitives that change them |
| `Kernel` | processes, process table, timer and keyboard interrupts, and the kernel calls, step by step; extends `Scheduler` |
| `MCKernel` | the symmetry set of `Kernel` for TLC |
| `KernelProofs` | types and virtual time, proved |
| `SwitchProofs` | saved contexts, schedule() and the process that executes, proved |
| `ListProofs` | who is linked where, proved |
| `Allocator` | what `alloc` and `free` promise: an abstract specification |
| `Heap`, `HeapProofs` | the block list; it implements `Allocator`, proved |
| `FramePool` | what `alloc_frame` and `free_frame` promise: an abstract specification |
| `FrameAllocator`, `FrameProofs` | the bitmap, access by access; its types, and that it is correct and implements `FramePool` until two calls disturb each other, proved |
| `ByteQueue` | what the keyboard's buffer promises: an abstract specification |
| `Keyboard`, `MCKeyboard` | the keys, the scan codes, the handler, the ring buffer and its reader |
| `KeyboardProofs` | the decoder settles and the ring implements `ByteQueue`, proved |
| `FairScheduler` | `Scheduler`'s primitives under fairness, with virtual times relative to the least |
| `Mappings` | what paging promises: a space is a map of pages; an abstract specification |
| `AddressSpaces`, `MCAddressSpaces` | page tables, `map_page`, and the life of an address space |
| `AddressSpaceProofs` | one kernel, one owner, one page moved, nothing lost; it implements `Mappings`, proved |
| `Sata` | a sector command: what it returns and what it leaves in the driver |
| `ArabFS`, `MCArabFS` | the file system on its disk, sector by sector; extends `Sata` |
| `ArabFSProofs` | what a stop cannot undo, proved |
| `Source`, `Parser`, `Text`, `MCText` | the text of a script: comments, lines, statements (`Source`), expressions (`Parser`); `Text` composes them and states what they must do |
| `Values`, `Language` | values and their arithmetic; programs, names and nesting |
| `Meaning` | what a program of the language means: an abstract specification |
| `Compiler`, `Machine`, `MCMachine` | the compiler, as operators; the execution of its code, which implements `Meaning` |
| `Executable`, `Programs`, `MCPrograms` | from a script to a compiled file and back into a context, as operators; the programs of one context, as actions |

### Scheduler and Kernel

Each C array with a count is a sequence, and `list[i] = list[--count]` is
`SwapRemove`. A primitive (`scheduler_add`, `WakeStep`, ...) relates the current
and next value of the variables it assigns; the actions of `Kernel` use it. An
interrupt handler runs it as a whole. Processes run the two removals turn by turn of their
search loops, with the swap as a step of its own (`Search`, `Swap`; `slot[t]` is the loop
variable), and `process_start` runs the two statements of `scheduler_add` apart (`RaiseNew`, `LinkNew`).
`p->state` and the process's event field are written and never read, so they are
left out, and `p->nice` is always 0.

`cpu` is the thread that executes; `current` is `current_process`. They differ in
exit and in `schedule()`, and most of what can go wrong is there. `pc[t]` says
where thread t stands: a kernel call is one action per primitive or per
assignment to shared state, because the timer can fire in between. `arg[t]` is
the call's local `process_t *`. `frame[p]` is the thread whose registers
`p->rsp` points at, or `Spent` once they have been popped; `reg[t]` is the value
`schedule()` has loaded and is about to jump to. `held[p]` says which parts of a
process are still allocated. Two history variables say what has gone before: `overtaken`, that a
removal from `ready_list` has been completed while another one was under way, and
`behind`, which processes stood between the two statements of `scheduler_add` when
`global_min_vruntime` was last computed.

| Code | Action |
|---|---|
| `isr_timer` → `timer_handler` → `scheduler_tick`, up to the charge | `TimerInterrupt`, and `Yield` for `int $32` |
| one round of `scheduler_tick`'s loop over `sleep_list` | `TickSleeper` (nothing else runs between the rounds) |
| `process_on_timer_interrupt` and the stub's `iretq` | `process_on_timer_interrupt`, `Resume` |
| `keyboard_handler`'s call of `wake_up_one` | `KeyboardInterrupt` |
| `scheduler_remove`, `scheduler_remove_from_sleep` | `SearchReady`, `SwapReady`, `SearchSleeping`, `SwapSleeping` |
| `sleep`, `sleep_ms` | `sleep`, `sleep_ms`, the removal, `SleepAdd`, `Yield` |
| `wait` | `wait`, the removal, `WaitAdd`, `Yield` |
| create, register, start, as the loader calls them | `Create`, `CreateNoStack`, `Register`, `process_start`, `Link` |
| `process_exit_current` | `ExitBegin`, the removals, `ExitDetach`, `ExitStack`, `ExitSpace`, `ExitSlot` |
| `schedule` and `jump_to_first_task` | `ScheduleNext`, `ScheduleSet`, `ScheduleLoad`, `ScheduleJump` |
| an exception | `cpu = Panic` |

Abstractions:

* `sleep`, `sleep_ms` and `wait` are the kernel's interface to applications;
  within the repository only their declarations refer to them. The model lets every
  application call them at any time. `wake_up` has no caller and is left out.
* The allocations of process creation are one step: nothing is visible to others
  until `kernel_process_register`. The pid is chosen in that step, and the slot is
  taken in the next, as in the code.
* A `process_t` gets a fresh name. The C heap reuses addresses; while `NoDangling` holds
  no stale pointer is kept that could tell the difference.
* One statement is one step: `ready_list[ready_count++] = p` against the tick's own, instruction by
  instruction, is left out, and so is the test that `add_to_sleep` and `wait` make before their store.
* `ScheduleNext` runs `scheduler_next` as a whole: `current_process` is null there, so a tick inside the loop
  saves nothing of the thread and abandons it, as a tick before the loop does.
* `ScheduleSet` has the guard `current = NoProc`, because the other branch of
  `schedule()` calls `context_switch`, which no behaviour reaches: this is
  `ScheduleFromNull`, checked and proved for the state before the guard.
* A resumed thread whose stack has been freed may find its frame or not:
  `Resume` chooses.

### Heap and Allocator

A heap is a record (blocks, sizes, links, first, last, `heap_current`,
`heap_end`); `block_split`, `block_coalesce_next`, `block_coalesce_prev` and
`heap_append` are operators on it, and `kmalloc` is `MallocFit`, `MallocAppend`
or `MallocFail`. Both calls hold interrupts off, so each is one action. A failing
frame is modelled by `MaxPages`. `live` and `freed` are history variables: the
size asked for at each live pointer, and the pointers a caller may free again.
The refinement to `Allocator` is the identity on `live`.

Freeing a pointer twice, after its block was handed out again, takes the block
from its new holder; that is outside the promise of `kfree`. What must survive
it is the list itself, and does (`heap_refree`).

### FrameAllocator

One action per access to the bitmap: test, load of the byte, store of the byte. A caller of
`alloc_frame` holds interrupts off around the whole call, as `kmalloc` does through `irq_save`, or it does
not, as process creation, `map_page` and a program's `alloc_page` (`off`, chosen for each call);
`free_frame` is called with interrupts on. `FirstFree` and `LastFrame` give the layout that
`frame_allocator_init` computes; the multiple memory regions of the boot map are
reduced to where the last one ends.

Two callers can get one frame, and a set bit can be lost: it takes a store (`SetStore`, `ClearStore`)
between another call's reading of the same bit or byte and that call's own store. The history variable
`overtaken` says that one has happened, and nothing is promised after it; every other interleaving is
harmless, and that is what the properties say. Without the condition, TLC finds two holders of
one frame, which contradicts `مدير_الاطار.c:109-115`: an unused frame, reserve it.

`FramePool` has no bitmap and no accesses: what is taken was free and what is given back was taken
(`Together`); while no other call is in progress (`mixed`), the lowest frame is taken and `Refuse`
happens only when all are (`Alone`). The refinement maps `taken` to the frames with a holder and
`refused` to a search that stands at the end of the bitmap, about to return 0. `Alone` is the step that
`AllocFrame` of `AddressSpaces` takes for granted.

### Keyboard and ByteQueue

The keyboard (`Press`, `Release`, external) sends scan codes on `wire`;
`keyboard_handler` takes one, in the order of the code's tests; `keyboard_read`
is three steps. A byte of text is a record of the key, the modifiers and its
place in the key's UTF-8 text; the keymaps appear as the number of bytes of an
entry. The 8042 controller is a FIFO of bytes. `keyboard_queue` is in `Kernel`.

### FairScheduler

Three processes and idle, the primitives of `Scheduler`, and the same steps as in
`Kernel`, turns of the removal's loop included, without creation and exit. The idle process's context
is never saved, so a second switch to it pops a spent frame: the machine stands still on the panic screen
(`panicked`), and a behaviour in which every process is blocked twice ends there. What follows a
removal inside a removal is not modelled (`overtaken`). `SleepersWake` and `WaitersServed` say
that until one of the two has happened, nobody is left behind. Whenever the handler returns, the virtual
times and `global_min_vruntime` are reduced by the least of them: the code only
compares them, so behaviours become finite cycles without a bound on time.

### AddressSpaces

Memory is a row of pages; a page used as a table is a function from its entries.
The tables are reached through their physical address, as in the code, so
`RamIsIdentity` is what `map_page` itself relies on: for a memory of any size, also one
that reaches beyond the heap's window at 128 MB, all of it that no window covers. The frames under a window are another matter,
since the code would write tables through it: the model hands none of them out (`Next`), and says nothing of a
machine that does. `HeapInit`, `MapMmio` and
`MapTest` are the start-up (`heap_init`, `core_memory`); `HeapGrows`,
`AddressSpaceCreate`, `AllocPage`, `MapTo`, `Exit`, `AddressSpaceSwitch` and `MemoryMap`, by which a program
maps a page of its choice in the kernel's tables, what happens later. A call is one step: what two calls of
`alloc_frame` inside two of them do to each other is in `FrameAllocator`, and two walks of `map_page` at once are not modelled. `map_page` is a walk: `Descend` adds the missing table, splits the
huge page or follows the entry. When the frames run out inside `map_page`, the
code goes on with physical page 0 as a table, and so does the model, which maps
nothing more after that (`zeroTable`). Frames are a set here, of which the least
free one is taken; `FrameAllocator` has their bitmap and implements `FramePool`.
`map_to` has no caller in the kernel: the model lets any holder of a frame call it.

`Mappings` knows no tables: its state is the map of each live space and whether the frames
have run out. The refinement computes the map from the tables with `Translate`, the processor's walk.
`HeapInit`, `HeapGrows`, `MapMmio`, `MapTest` and `MemoryMap` are its `MapKernel`, `MapTo` is `MapUser`,
`AddressSpaceCreate` is `Create`, `Exit` is `Destroy`, any `map_page` without frames is `Fail`, and
`AllocPage` and the switch are stutters. It says which page moves and in which spaces,
and for a process that what it gets is nobody else's; which page the kernel's moves to it leaves open.

### Sata and ArabFS

`Sata` keeps what one command leaves for the next: whether the controller was
found, the port, the occupied slots, and whether the engine stopped. The polling
of registers is abstracted to the three outcomes a command has (`Succeeds`,
`Refused`, `Aborts`). In `ArabFS` an operation is a sequence of steps, one for each
sector it reads or writes, because the machine may stop between any two
(`Crash`) and start again with empty tables. An entry has 52 bytes and a sector 512, so that some entries lie in
two: `SectorOf` says for each field of an entry where it is, a name being cut in a head and a tail. The inodes are
loaded and saved sector by sector too; those behind the 128 sectors (from 631 on) are never on the disk.
Contents of files are left out; but that file data is written over the sectors of some
inodes (`Overlaid`: sectors 30 to 41 are the inode table's 10 to 21) is modelled. The disk is blank at first.

A stop between the two sectors of an entry leaves half of it. `EntriesSurvive` says that no other entry is
touched by that. `FilesHaveInodes` is about the entries whose mark, type and inode lie in one sector: of those on the disk
all but 49 and 59. For entry 59 it is false: cut after its mark it is a file with inode 0, whoever has that.

### The language

`Source` has `comment_remove` and `preprocess_script` on sequences of symbols;
`Parser` has the recursive descent on sequences of tokens, and `Text` a
grammar of its own to compare with. `Compiler` gives each function a sequence of
instructions, one for each group of bytes the code emits together; `Machine` runs
them, one a step, with registers, slots, the two traces, the heap blocks of texts and
the helpers `jit_rt_*`. `Meaning` runs the same programs from their trees, one
line a step; the refinement maps a state of the machine to the line it has begun, and to what
the source can see: variables, memory, screen, result. What the code refuses to
compile, `Meaning` must refuse. The meaning of an expression is the tree walk's, `ast_evaluate_typed`. Compiled code
differs from it in two places, and there alone `Meaning` leaves the value of the line open: where reading or comparing memory stands behind a
kept operand, whose typed slot of 24 bytes its arguments' slots of 8 bytes overwrite (`Sheltered`,
`مترجم_اللغة.c:2227-2245`), and where the right side of an `or` fails, which the tree walk does not look at when the left
side is true (`Certain`, `:1025`). With either condition made TRUE, TLC finds `ImplementsMeaning` violated. `Executable` lays a script out as a file of
cells, with headers, offsets and relocations, and reads it back. A library with no line but comments moves the lines
behind it by -1, from the last one on, so that each becomes the last one (`Replaced`, `لغة.c:483-488`); `Programs` adds the three
ways of running one (`RunScript`, `Start`, `Execute`) and the imports at run time.

## 3. The runs

| Run | Shows | States |
|---|---|---|
| `kernel_calls` | links, lifetimes, switches and virtual time, every interleaving of three applications' calls and interrupts, until one removal overtakes another | 692 647 |
| `kernel_fair` | sleepers wake and waiters are served unless the machine halts or a removal overtakes another; processes that compute share the processor | 91 824 |
| `heap_malloc` | what callers hold, and refinement of `Allocator` | 149 693 |
| `heap_refree` | the block list, also when pointers are freed again at any time | 13 277 |
| `frames_calls` | one holder, exact bitmap, refinement of `FramePool`, two callers with interrupts on or off | 380 759 |
| `address_spaces` | identity map, shared kernel, one owner per frame, nothing lost, `map_page` moves one page, refinement of `Mappings`, processes apart, with memory below and beyond the heap's window | 15 640 |
| `keyboard_typing` | the decoder settles, the ring buffer is a queue | 109 452 |
| `arabfs_calls` | a stopped format is done again, entries stay, files have inodes of their own, with stops inside tables and entries | 920 338 |
| `language_text` | parser against grammar, comments, statements | 2 406 328 |
| `language_runs` | compiled code implements `Meaning`, 12 507 programs | 397 583 |
| `programs_runs` | what is loaded is what was written; a library runs once | 26 178 |
| `kernel_blocked` | *violated:* preemption inside `sleep` or `wait` loses the process | |

`kernel_blocked` checks one statement of a comment of the source, quoted under
"findings" in `PROJECT.json`; its counterexample is a legal schedule of the code.

### Further configurations

These are not in the list of runs; each finds a counterexample of a property that a
text of the source states or its caller relies on, and is run the same way.

| Configuration (module) | Property | What the code does, and what says otherwise |
|---|---|---|
| `Kernel_exit` (`MCKernel`) | `ExitCleansUp` | a timer interrupt after `current_process` has become null abandons the exit: stack, space, slot and `process_t` stay. `محرك_العمليات.c:206` calls it a complete cleanup |
| `Kernel_context` (`MCKernel`) | `ContextIsOwn` | a timer interrupt inside `schedule()` saves the exiting thread's context as the next process's. `بوابة_العمليات.c:10`: processes run isolated |
| `Kernel_pid` (`MCKernel`) | `PidNamesProcess` | two creations at the same time choose one pid and one slot |
| `Kernel_idle` (`MCKernel`) | `IdleSwitchIsCorrect` | idle's context is never saved; the second switch to it pops a used frame. `مُدير_راحة_العمليات.c:18`: a correct switch |
| `Kernel_removal` (`MCKernel`) | `LinkedOnce` | a removal that is completed between another one's search and its swap leaves it a stale index: one process is lost and another stays linked, also when it exits. Every caller takes the process for removed |
| `Frames_ram` (`FrameAllocator`) | `FramesAreInRam` | the last bits of the bitmap stand for frames beyond the memory. `مدير_الاطار.c:49-51`: the number of frames |
| `Language_texts` (`MCMachine`) | `OperandsLive` | joining two text variables frees the left text before it is used. `مترجم_اللغة.c:2018`: both sides are kept in slots |
| `Programs_import` (`MCPrograms`) | `ImportKeepsFunctions` | an import at run time replaces functions of the program that asks for it, also the one that runs. `مجمع_الترجمة.c:780`: functions are added, none is cleared |

Eight properties of the list carry a condition that keeps out what the code does wrong; TLC finds each
violated once its condition is made TRUE: `~overtaken` (`ListedOnce`, `NoDangling`, and `OneHolder`, `BitmapIsExact` of the frames),
`Whole` (`FilesHaveInodes`), `PlainBraces` (`StatementsWhole`: `{(a)a}` is split in the middle), `Sheltered` and `Certain`
(`ImplementsMeaning`), and that every library has a line (`LoadedAsWritten`).
`ReadyAboveMin` and `MinMonotone` carry `~overtaken` too, for the proof; no run violates them without it.

`kernel_calls` finds no error although the violated runs change the same state:
its invariants say what remains true wherever the timer fires, as long as no removal is
completed inside another one. `ListedOnce`, for example, says a process is linked once *except* inside the
unlinked part of a call, and `BlockedIsListed` that it is not off the CPU there. The first holds, the second does not.
`MinMonotone` does not say that `global_min_vruntime` never goes back: it does, when a tick comes between the two
statements of `scheduler_add` in `process_start`; it says that nothing else takes it back.

### Bounds, and why they are enough

* `kernel_calls`: the idle process and three applications (one preempted, one
  running, one being created or waiting), three timer interrupts, sleeps of two
  ticks. Three ticks are enough to preempt a removal or an insertion at any turn, let another process make a call of its own
  inside it, and wake a sleeper; each mutant is found within them. With four the run takes
  longer than the others and passes too (3 572 314 states).
  Lists and the wait queue are larger than the number of processes, so their
  silent overflow is not reached (listed as a hazard). Symmetry permutes the
  applications other than the start-up one: no constant, guard or property
  distinguishes them, and no liveness is checked with it.
* `heap_malloc`: sizes 0, 1, 17 and 100 on three pages of 128 bytes: a request of 0,
  one that splits, one that fits exactly or leaves too little to split, and one
  that needs a second page; the frames can run out. `heap_refree`: two pages of 96 bytes and
  two sizes, since a pointer can be freed again for ever; its behaviours include those that free every
  pointer once, with splits, and merges in both directions.
* `frames_*`: two callers, each with interrupts on or off; six frames after the kernel, bytes of two bits and pages of
  two bytes, so that the bitmap has three bytes, of which some hold two frames' bits, and takes two
  frames of its own. Two are enough for every way one call can
  come between another's accesses; the theorems are for any number.
* `keyboard_typing`: an Arabic letter of two bytes and one of four, Shift, Win,
  Space and an arrow key; three key strokes with their releases, at most three
  codes under way, a ring of six slots that a second letter overflows. One
  Shift and one Win key, since each pair shares a flag in the code (a hazard).
  One reader: two readers interleaving inside `keyboard_read` break `IsQueue`,
  and nothing in the source says how many may read.

* `kernel_fair`: three applications, so that two can take turns before a third;
  sleeps of two ticks; no bound on time. Each property needs an order
  of list operations repeated for ever, which three processes already give.
* `address_spaces`: tables of three entries, so that all four levels and splits
  occur with pages numbered below 81; memories of 17 and 25 pages, one that ends before the heap's window (pages 21 and 22)
  and one that reaches beyond it and beyond the test page (23) and the page a program maps (24), with a number of
  directories that is rounded up; both run out in the middle of a mapping. Two spaces, which hold
  a user page each at once, and at most three pages from `alloc_page`.
* `arabfs_calls`: four entries in two sectors, of which one straddles them and one ends off the disk; three inodes in
  two sectors (one overlaid by file data, one off the disk), a directory and files, five calls, one failing command, any
  number of stops.
* `language_text`: all texts of six tokens (eight kinds, one for each way of
  parsing), and of six of ten symbols, parentheses, braces, quotes and line ends among them, and comments.
* `language_runs`: every expression of depth two over variables, numbers,
  subtraction, comparison, `and`, `or`, negation and calls of one and two arguments; reading and comparing memory on either
  side of an operation and as arguments of each other and of calls; every nesting of up to four lines of control, with
  returns of a value and of nothing; declarations, texts, memory,
  overflow (ints have four bits) and the limits of slots and frames. Texts are
  not joined here: that is `Language_texts`.
* `programs_runs`: three files with any of ten contents each: empty, only a comment, cyclic
  includes and imports, redefinitions, one name as prefix of another's parameter, structures,
  arrays, a missing end. At most six calls under way.

At `MaxTicks` the model stops the clock; `Stopped` and `Quiet` are the stutters
of the bound, so that deadlock is checked everywhere else. Deadlock is not
checked where programs end (`language_*`, `programs_*`) or the model stops at its
bound (`address_*`).

### Fairness

Only `FairScheduler` assumes any, and the code justifies it so:

* `WF(Timer)`: the hardware timer never stops, interrupts are enabled again after
  each handler, and the handler's loop over `sleep_list` is finite.
* `SF(Advance(p))`, for each process: once inside `sleep` or `wait`, a process that is given
  the processor again and again gets through the few instructions left and the turns of the removal's loop,
  since a tick is ten milliseconds. Strong, because in between it is preempted. Nothing
  is assumed of when a process makes a call, or of whether it ever does.
* `SF(Key)`: somebody keeps typing while a process waits for a key. Without it
  `wait` promises nothing, and `WaitersServed` says so only with it.

`ComputingShares` is as much as the scheduler gives. `ReadyRuns`, that every ready process
runs again and again, is false (add `ReadyRuns` to `Kernel_fair.cfg`): two processes
that sleep in turn come back at the least virtual time, before a third, for ever.

## 4. The proofs

Eight modules hold theorems; they hold for every value of the constants allowed by
the named assumptions (`ProcsAssumption`, `CapacityAssumption`, `ThreadsAssumption`,
`BoundsAssumption`, `HeapAssumption`, `FrameAssumption`, `KeyboardAssumption`,
`ArabFSAssumption`, `SpaceAssumption`), which TLC evaluates in the runs. All are about safety: liveness and
ENABLED are beyond the prover. Each inductive invariant was checked by TLC on the runs'
constants (`SpInv` with the labels computed from the tables).

* `KernelProofs`: **`KernelTypeCorrect`, `AlwaysAboveMin`, `MinMovesBackToBehind`.**
  `TypeOK` is not inductive: that lists hold no null pointer depends on which
  calls use `arg[t]`, on `current` being null only inside exit and `schedule()`
  (`NullOnlyThere`), and on only created processes being linked. `KInv` adds
  these, and strengthens "the ready list holds processes" to "it holds processes
  not behind `global_min_vruntime`, or in `behind`" (`NotBehind`), and the same of one about to be linked
  (`LinkNotBehind`). That is `ReadyAboveMin`; as `update_min_vruntime` takes the least of them,
  the minimum moves back to no less than one of `behind`.
* `SwitchProofs`: **`ScheduleOnlyFromNull`.** When the timer switches to a
  process, the thread it resumes must not be one that was saved while
  `current_process` was null. That needs to know which contexts exist:
  `RunningNotSaved` and `SavedOnce` say that a thread is saved in at most one
  place, counting the registers loaded by a `schedule()` that has itself been
  preempted; `SavedWhere` says which process holds it; `IdleHalted` that
  the idle process is never saved and that a thread preempted while it switches
  to idle is gone. `SwitchInv` is their conjunction, inductive together with `KInv`.
  **`AlwaysRunsAsItself`** from `RunInv`: `OwnContext` says that the context saved for a
  process is its own thread's, or that of a thread on its way to the process at the
  end of `schedule()` (which is what an interrupt there leaves); `RunsOwn`
  and `HeldOutside` carry that through the switch to the tables and the stack.
* `ListProofs`: **`NeverDangling`, `ListedOnceWithRoom`, `ListedOnceWithFewLive`,
  `AlwaysListedOnce`.** The invariant, `ListsHold`, is `ListInv` until a removal from
  `ready_list` is completed inside another one: `Removals` says what a removal knows of the list, that its process is at the slot it
  found, or not before the slot it has come to, which wakes and insertions keep, since they add at the end,
  and another removal's swap does not. `ListInv` has two halves. `Apart` and the clauses on places say at which
  step of its own calls, or of the creation that names it, a process is in no list:
  "at most once" and `NoDangling` follow, whatever the capacities. "At least once" is
  not true of every capacity: the code drops what it adds to a full list, unnoticed. So it is proved of
  behaviours in which no list is full (`Roomy`) until then, hence of those with at most
  `MaxProcesses` and `WaitQueueMax` (256 each in the source) live processes at a time (`FewLive`),
  by counting what the lists hold; hence of all behaviours when there are no
  more processes than that, as in `kernel_calls`.
* `HeapProofs`: **`TypeCorrect`, `AlwaysLinked`, `AlwaysTiled`,
  `AlwaysCoalesced`** from `ListInv`, whoever frees what and how often;
  **`PayloadsAlwaysHeld`, `HeapImplementsAllocator`** from `HoldInv`, when
  `DoubleFree = FALSE`. One lemma per operator (`block_split`, ...) states what it keeps
  and what it leaves alone; a call is a composition of them.
* `FrameProofs`: **`FrameTypeCorrect`**: every index a call computes lies in the bitmap, however calls are
  interleaved. **`AlwaysOneHolder`, `BitmapStaysExact`** from `FrameInv`, without a hypothesis on interrupts: until a store has
  come between another call's reading and its own store (`overtaken`), `Sound` says how the bitmap differs from what
  the holders' frames require, and `CallInv`, for each point of each call, that the bit it has found is still
  clear and the byte it has loaded is still what the bitmap has. **`LowestFrame`**, the refinement of `FramePool`, also needs
  `Lonely`: while no two calls have overlapped, every bit a search has passed is set, so that the bit found is
  the lowest, and a search at the end has seen them all.
* `KeyboardProofs`: **`KeyboardTypeCorrect`**, with `WireOK`: a prefix on the wire is followed by
  its code, and every code is a key's. **`AlwaysPressedIsHeld`** from
  `PressedInv`, which must also speak of the press about to be read. **`AlwaysModifiersSettle`**
  from `ModifierInv`: the last code under way of a family of keys, and the flag only when there is none,
  tells whether one is held. It assumes one Shift and one Win key, as
  two share a flag and the first release clears it (section 5).
  **`RingIsQueue`**: the ring implements `ByteQueue`, with an interrupt between any two
  steps of `keyboard_read`, for every ring size. `QueueInv` says that a reader past its test
  still finds the buffer non-empty, and at `advance` has the byte at the tail, since the handler
  refuses a byte rather than move the tail. It assumes one reader.
* `ArabFSProofs`: **`SignatureComesLast`, `NothingVanishes`, `FilesKeepInodes`** from `FsInv`,
  which says what is on the disk (`DiskOK`) as long as no command has failed, and what
  memory knows of it at each sector of a call (`WorkOK`) while the device also takes
  commands: which sectors it has loaded (`LoadedTo`, `InodesTo`); while the table is being saved, that it differs from the
  disk in the fields of the one entry being made (`Added`) or in the mark of a removable one (`Removed`), field by field, since an entry may be
  half written; that the inode of a file being created is on the disk before the entry and nobody else's (`OwnInode`,
  `Creating`). The layout `SectorOf` is any function, with entry 0 in the first sector. A device that refuses commands
  may leave memory stale, but then nothing reaches the disk: hence the two conditions.

* `AddressSpaceProofs`: **`KernelStaysShared`, `AlwaysOwnedOnce`, `NoFrameLost`,
  `OnePageMoves`** from `SpInv`, for every size of the tables and the
  memory and every number of spaces. That frames have one owner is not inductive on the tables alone:
  `OwnPages` follows entries down, and an entry may only be written because of what lies above
  it. So `Trees` says that the pages can be labelled: each with its role, and each page below a top table
  with its owner and the one entry it hangs under; what an entry leads to has the label
  it should (`DownOK`), what is labelled hangs there (`UpOK`), the top tables share
  entry 0 (`TopOK`), and the frames in use are those with a role (`UseOK`). A
  walk of `map_page` is three or four steps (`WalkStep`), each of which keeps the tree and every
  translation, then one write in a table that the page itself reads (`LastTable`) and that no other virtual page does: their digits are the
  indices in the labels (`OneReads`). So `map_page` does exactly what it is asked: the page goes there in
  the spaces meant, and nothing else moves (`Moved`). From the step that finds no frame on (`StuckStep`,
  `FallenStep`), only what needs no labels is kept: the shared entry, and `RamHuge`, that the
  memory's part of the identity map still has its huge pages.
  **`SpacesAreMaps`** is the refinement of `Mappings`, one lemma for each action: a translation reads the kernel's
  tables and its own space's only (`ReadsOnly`), so creation and exit disturb no other space; a
  process's pages are labelled as such (`UserPage`), so none of them is a frame that a caller holds.
  **`ProcessesStayApart`** uses nothing of the tables: it follows from the abstract maps (`ApartStep`).
  **`RamStaysIdentity`** adds `Straight` to `SpInv`: until the frames run out, each page of the memory that is not in a
  window is translated to itself. It follows for every memory that the tables reach (`EnoughDirectories`: the number of
  directories is rounded up), wherever the windows lie in it, since a call of `map_page` for a window moves the window's page
  alone (`StraightStep`). Afterwards `RamHuge` is what is left of it.

The assumptions on constants that are not evident:

* The kernel's windows lie below entry 0 of the top table, and `map_to`'s pages above it (`SpaceAssumption`):
  0x8000000, 0x3F000000 and the LAPIC's and IO-APIC's registers lie below 4 GB, entry 0 spans 512 GB.
  The pages that programs map with `memory_raw_map` (`MapPages`) are taken below entry 0 too, and count as windows.
* The memory is at most what entry 0 maps (`RamSizes`): the allocator caps it at 64 GB (`مدير_الاطار.c:25-28`).
  That `map_to`'s pages lie above is the model's choice, since nothing in the kernel calls it: a page mapped below
  entry 0 would appear in every space.
* No key has code 0x60 (`KeyboardAssumption`): its release would be 0xE0, the prefix. Scan code set 1 has no such key.
* Entry 0 lies in the first sector of the table (`ArabFSAssumption`): `diskfs_format` writes
  the sectors in order, and the table begins with it.

Only model-checked: the liveness of `FairScheduler`, and the
language (`Text`, `Machine`, `Programs`), whose parser, compiler and loader are
recursive operators: what they compute stays with TLC for good, as does
liveness.

## 5. What is not modelled

* Interrupt set-up, power management, drawing, host tools and the support library:
  straight-line code, register writes and drawing, without state that others share. The mouse:
  one handler, one reader.
* In the modelled parts: the instructions inside one statement of a list primitive
  (`ready_list[ready_count++]` against the tick's own), `wake_up`, which has no caller, and
  full lists; page permissions and the TLB; the contents of files, the block bitmap and
  the functions of ArabFS without a caller; the disk's registers; the keyboard's
  polling reader and language setter; the archive parser; in the language, the
  fractions of doubles, infinity, numbers in texts, colours, `input` and the bytes of machine code.
* One program at a time runs in `Machine` and `Programs`. The compiler, the traces,
  the print buffer, the parser's position and the loader's override context are globals
  shared by all processes, so two processes inside the language at once disturb each other;
  modelling it needs the scheduler between any two steps of `Machine`.

Hazards that no property covers, besides those of `PROJECT.json`:

* `مدير_الكومة.c:181`: a size near 2^64 wraps. `مدير_فضاء_العناوين.c:21`: the structure leaks
  when no frame is left.
* `محرك_العمليات.c:225`: the exiting thread runs on the stack it has freed; `:228` under the
  tables it has freed.
* `لوحة_المفاتيح.c:220`: a character is cut when the ring is full; `:246` and `:275`: keys that
  share an entry or a flag; `:298`: two readers.
* `الملفات.c:58`: a file without an entry is reported as created; `:109`: delete looks at inodes
  it has not loaded; `:23`: results of sector commands are ignored. `ساتا.c:366`: a slot is
  looked up and taken later; `:440`: waits without a time-out; `:445`: an error
  keeps the slot.
* `مترجم_اللغة.c:136`: globals shared by processes; `:727`: a text freed and then stored; `:729`:
  ints lose bits past 2^53; `:1204`: a print inside a print's argument. `رياضيات.c:8`: one static position.
  `مجمع_الترجمة.c:674`: structures are cleared when a compiled program starts.
  `لغة.c:283` and `:971`: freed twice on error paths. `الشروط.c:164`: a documented form of condition is refused.

## 6. Plan

Modules, most important behaviour first.

1. `Scheduler`, `Kernel`: done, with types, virtual time and `schedule()` proved.
   So are the lists and the process that executes.
2. `Allocator`, `Heap`, `FramePool`, `FrameAllocator`: done, proved.
3. `FairScheduler`: done. `Mappings`, `AddressSpaces`: done, proved.
4. `ByteQueue`, `Keyboard`: done, proved.
5. `Sata`, `ArabFS`: done for the calls that have callers, proved.
6. The language: done for one program at a time.
7. `LanguageContext`: two processes inside the language, over the globals of section 5; `InputLine`: the
   line editor of `input` on `ByteQueue`.
8. `ListRace`: the list statements instruction by instruction, `wake_up`, full lists.
9. `Mouse`: packets and deltas, with the keyboard on the same port.

Abstract specifications still worth stating: a run queue that loses nobody (for
`Kernel` with interrupts off in the calls) and a
file system as a map from paths to contents.
