# A verification of the simulated operating system

The repository holds a small operating system that runs on a simulated 16-bit
computer (`so-sim-cpp-exercicio`), the assembler for its programs
(`arq-sim-assembler`), and the C++ library both are built with (`my-lib`).
This directory models the operating system, the computer with its devices, the
assembler and the stateful parts of the library in TLA+, checks the models with
TLC and proves theorems about memory, scheduling, the kernel as a whole, the devices,
the timers, the event handler, the memory pool and the assembler's scanner with TLAPS.

Paths below are relative to `src/so-sim-cpp-exercicio/` unless they say otherwise.

## 1. Inventory

### The computer (`arch/`)

| part | state | operations | what makes it right |
|---|---|---|---|
| `Computer` | `alive`, the list of devices | `run` polls `run_cycle` of terminal, disk, timer, memory, CPU, in that order, for ever | every device gets its turn |
| instructions of `Cpu` | registers, `pc`, the words of the process | 9 instructions on registers, 3 with an immediate | a word means what the assembler meant by it |
| `Cpu` | registers, `pc`, `page_table` pointer, `has_interrupt`, `interrupt_code` | `run_cycle`: a pending interrupt *or* one instruction; `interrupt`: refused while one is pending; `vmem_to_phys`: the MMU | an accepted interrupt is served once; the MMU walks the table of the process that runs |
| `Timer` | `count`, `timer_interrupt_cycles` | counts cycles, asks for an interrupt until it is accepted | a tick that is due is served |
| `Terminal` | `has_char`, `typed_char` | `run_cycle` fetches a key and asks for an interrupt for as long as a character waits | no key is lost, repeated or overtaken |
| `VideoOutput` | per window a matrix of characters and a cursor | `print`, `roll`, `update`; two ports select a window and print to it | a window shows the last lines printed to it |
| `Memory` | the words | none of its own | |
| `Disk` | command state machine, table of open files, read buffer | commands and data through I/O ports, an interrupt when a read is ready | the bytes given out are those of the file that was opened, in order; not used by the operating system |

### The operating system (`os/`)

| part | state | operations | what makes it right |
|---|---|---|---|
| virtual memory (`mem_virtual.cpp`) | `physical_frames_used`, each process's `page_table` | `allocate_physical_frame`, `free_virtual_page`, `handle_demand_paging`, `vaddr_to_paddr` | a frame has one owner, or none and then it is free; a process only sees its own words |
| process manager (`process_manager.cpp`) | `process_table`, `current_rr_it`, `current_process`, `idle_process`, `next_pid`, the `Process` structs | `load_user_program`, `execute_process`, `schedule`, `destroy_process`, `update_sleeping_processes`, context switch | one process runs, it runs with its own registers, nobody waits for ever, no pointer dangles |
| handlers (`os.cpp`) | `cmd_buffer` | `boot`, `interrupt`, `syscall` (exit, print, malloc, free, sleep, time), shell commands (`load`, `kill`, `timer`, `quit`, `ps`, `help`) | processes and memory change together |

### The other parts

`arq-sim-assembler` is a sequential program run beforehand:

| part | state | operations | what makes it right |
|---|---|---|---|
| scanner (`lex.cpp`) | position in the buffer, line, state of the scanner, the token | `lex_get_token` | every character is in one token or skipped; lines are counted; the buffer is not left |
| parser (`syntax.cpp`) | the list of nodes | one function per kind of statement | a node holds what the statement says |
| linker (`linker.cpp`) | addresses of the nodes, the file written | place nodes, resolve labels, encode | the CPU executes what was written |

`my-lib` is the library. Bit fields are used for instructions and page table entries;
the simulator does not use the rest:

| part | state | operations | what makes it right |
|---|---|---|---|
| memory pool (`memory-pool.cpp`, `memory.h`) | per pool a free list *in the free chunks*, blocks | allocate and free by type, deleters that remember a size | no chunk is handed out twice or lost; nothing is written into an object |
| event handler (`event.h`) | list of subscribers, descriptors that point into it | subscribe, unsubscribe, publish, move, destroy | publish reaches all, whatever its callbacks do; a descriptor is valid exactly while it is subscribed |
| event timer (`event-timer.h`) | heap of events, descriptors, waiting coroutines | schedule, unschedule, trigger, forced resume | in order, once, not after a cancellation |
| interpolations (`interpolation.h`) | vector of running ones, each knows its place | add, remove, one pass per frame, coroutines | a pass advances each one once |
| bit fields (`bit.h`) | a number in a wider integer | fields, shifts, complements, assignments | the bits above the number stay 0 |
| matrices, vectors, quaternions, exceptions, macros | none | | |

### How the parts interact

`Computer::run` is the only loop and everything is called from it. The CPU calls
`OS::interrupt` when it takes an interrupt or when an instruction faults, and
`OS::syscall` for the instruction `syscall`; the operating system calls back into
the CPU (registers, page table pointer, physical memory) and through its I/O ports
into terminal and timer. There are no threads: a handler runs to its end between
two instructions, which is why one handler is one action in every model of the
operating system. What interleaves is the *order* of handlers: keys, ticks, faults and system calls come
in any order. The assembler and the CPU share no code: only the layout of an
instruction word and of the file (its first word, its entry at address 1) ties them
together. In `my-lib` callbacks and coroutines run *inside* `publish`,
`trigger_events` and `process_interpolation` and call back into them, so each of
these is several actions there, with the callbacks' calls in between.

### What is hard here

No test exists in `so-sim-cpp-exercicio`. The hazards are listed, each at its line,
in `PROJECT.json`; the main groups are

* two pointers to the same thing that every handler has to move together
  (`current_process` and the MMU's page table; `current_rr_it` and the list);
* pages, frames and blocks that are taken and given back by different handlers, and
  run out: partial loads, reuse of a frame, 16-bit wrap of block addresses;
* the state of a process, changed by a handler before `schedule()` and by `schedule()`;
* one place for a pending interrupt and one for a typed character;
* two descriptions of one encoding, in the assembler and in the CPU, and fields of a
  node that are never set;
* a scanner that trusts the 0 at the end of its buffer and the size of its tokens;
* containers that callbacks change while they are walked (subscribers, heap of events,
  vector of interpolations), and descriptors that are pointers into them;
* a free list kept in the memory of the objects, and deleters that remember its size;
* short reads, failed streams and files closed in the middle of a transfer on the disk;
* integers wider than the bits they stand for.

## 2. Modules

| module | models | code |
|---|---|---|
| `VirtualMemory` | frames, page tables, blocks, words | `mem_virtual.cpp`, the memory half of `process_manager.cpp`, `sys_malloc`, `sys_free` |
| `PrivateMemory` | abstract: each process has a zeroed address space of its own | |
| `ProcessManager` | process table, scheduler, context switch, timer handler, sleep, exit, kill | `process_manager.cpp`, the process half of `os.cpp` |
| `VirtualCpu` | abstract: each process has registers of its own | |
| `Kernel` | every handler over both: composes `ProcessManager` and `VirtualMemory` | `os.cpp`, faults of `cpu.cpp` |
| `OperatingSystem` | what is promised of `Kernel`, in the terms of `ProcessManager` | |
| `Machine` | the polling loop, timer, keyboard, interrupt line, command line | `arch.cpp`, `timer.cpp`, `terminal.cpp`, `cpu.cpp`, `handle_keyboard_input` |
| `KeyboardLine` | abstract: each key reaches the command line once, in order | |
| `InstructionSet` | the instructions of the CPU, one action per opcode | `execute_r`, `execute_i` in `cpu.cpp` |
| `Lexer` | the scanner, character by character | `../arq-sim-assembler/lex.cpp` |
| `Assembler` | parser and linker, statement by statement | `syntax.cpp`, `linker.cpp` there |
| `Toolchain` | composes `Assembler` and `InstructionSet`: a program is assembled, loaded and executed | |
| `Disk` | the disk device under an arbitrary driver | `arch/disk.cpp` |
| `VideoOutput` | the windows of the terminal | `arch/terminal.cpp` |
| `MemoryPool` | pools, blocks, free lists, deleters | `../my-lib/src/memory-pool.cpp`, `memory.h` |
| `EventHandler` | subscribers, descriptors, publish | `../my-lib/include/my-lib/event.h` |
| `EventTimer` | events with a time, coroutines that wait | `event-timer.h` there |
| `Interpolation` | the interpolation manager | `interpolation.h` there |
| `BitSet` | bit fields and their operators | `bit.h` there |
| `Library` | instances of the six modules that stand alone, from `Disk` to `Interpolation`, side by side, and what each promises | |
| `VirtualMemory_proofs` | theorems about `VirtualMemory`, and that it implements `PrivateMemory` | |
| `ProcessManager_proofs` | theorems about `ProcessManager`, and that it implements `VirtualCpu` | |
| `Kernel_proofs` | theorems about `Kernel`, and that it implements both its components | |
| `Machine_proofs` | theorems about `Machine`, and that it implements `KeyboardLine` | |
| `Lexer_proofs` | theorems about `Lexer` | |
| `Devices_proofs` | theorems about `Disk` and `VideoOutput`, as `Library` instantiates them | |
| `Addresses_proofs` | theorems about `EventTimer` and `MemoryPool`, as `Library` instantiates them | |
| `Library_proofs` | theorems about `EventHandler` and `Interpolation`, as `Library` instantiates them | |
| `MC*` | bounds and symmetry for TLC; `MCLibrary` explores the modules of `Library` and `BitSet` in one run, each for itself, `MCToolchain` the scanner beside the rest | |

`ImplementsPrivateMemory`, `ImplementsVirtualCpu` and `ImplementsKeyboardLine` state
that a detailed module implements its abstract one, under the refinement mapping
written above each. `Kernel` in turn implements both of its components
(`ImplementsProcessManager`, `ImplementsVirtualMemory`), so that what is checked or
proved of a component alone holds of the operating system as a whole.

Each definition's lines of code are in the `map` of `PROJECT.json`. Definitions whose
comment begins with *Mutant* are plausible faults; none is part of a specification,
and with any of them in place of the definition it is paired with, the property it
is paired with fails.

### VirtualMemory

A virtual address is `<<page, offset>>`, a physical one `<<frame, offset>>`: the split
the MMU makes. A word holds a tag that says where its content came from (`Zero`, a
word of a program image, a store by process p), which is exactly what isolation
needs to tell apart. A page table entry is a frame or `NotPresent`; the other bits are
always set together with Present and never differ. `num_pages` has the width the code
gives it (`PagesMod`, 2^16); a file is assumed to have fewer pages.

`Load` is `create_process_struct`, `process_memory_config` and the switch that always
follows; it stops silently when frames run out, and leaves the tail of the last page
as it was, as the code does. `DemandPage` writes the entry through the CPU's pointer
and copies it to the process, so that it would go wrong if the two differed. `Malloc`
wraps the page of the new block at the size of the address space. `Free` follows the
code in freeing one page when no block starts at the address; when one does, it must take
pages of that block only and leave every other block whole (`FreeKeepsOtherBlocks`). `Destroy` includes the
table the `schedule()` after it installs, when the process was on the CPU.

### ProcessManager

The state is one record per struct, the table as a sequence, the iterator as an
element of it or `End`. `Schedule` is an operator over the values the handlers have
computed so far (table, iterator, process on the CPU, fields), because most handlers
change some of these before they call it. `pc` and registers are one value, a
context; an instruction may change it to any other. `Kill` cuts its argument to the
width of a pid (`PidMod`, 2^16 in the code). Structs that do not exist have the
fields of a new one. `idle.bin` (see `arq-sim-assembler/asm-example/idle.asm`) loops
in its first page and makes no system call; this is the only fact about a program
the models use.

### Kernel

Each action is a conjunction of an action of `ProcessManager` and one of
`VirtualMemory`, and says which process of the one is which of the other. The
specification does *not* assume that `hw_table` and `current_process` agree:
`HardwareFollowsCurrent` says they do. Whatever a program executes, a system call
included, is fetched first (`Fetches`): a page that is not present is demanded before the
instruction can do anything. `sys_print_string` is an action of its own
because it translates addresses without asking for pages. `BootFails` is the boot without a
readable `idle.bin`: there is no process to run, and the first fetch ends the simulator. `Panic` is in the model and
`IdleNeverFaults` shows that it cannot happen. The system stops on `quit`, which is
why deadlock is not checked.

### Machine

One action is one `run_cycle` of one device; `turn` is the place in the loop. What the
timer handler and an instruction do is the subject of `Kernel`. The text of a command
is abstracted to its effect here: turn off, set the timer period, or nothing. `did`
only records what the CPU did last, for the properties. The disk never leaves Idle and
memory does nothing in its cycle, so they have no step here.

### Lexer, Assembler, InstructionSet, Toolchain

The scanner works on classes of characters, those it tells apart. One action is one
turn of its loop in one state with one class. What is not the program's to read or
write ends the model: a read behind the 0 at the end of the buffer (`outside`), a
write behind the array of a token (`overflow`). `ReadsStayInside` holds for a text whose strings
and comments are closed. Which those are is said without the scanner: `After` reads the text
character by character and knows of strings, escapes and comments only, and a text is
`Closed` when it ends in none of them. Other texts the code does read outside, which is listed
as a hazard. `TokensAreMaximal` compares the answers with a definition of the tokens that
scans nothing.

The parser is abstracted to statements: any of `Statements` may come next, or a syntax
error. A node's `reg` that `process_instruction_jump` never assigns is any of
`Leftovers`. `Link` is the four passes over the nodes down to the words of the file;
its errors (undefined label, no `_start`) write what the code has written by then.

`InstructionSet` decodes words as `get_bits` does and wraps at 16 bits. A division by
zero `crashed` the simulator, an unknown opcode is `invalid`; an address from `MemSize`
on is `outside` the model. A product is taken modulo 2^16, also one that overflows the `int` it
is computed in: the builds compute its low bits.

`ExecutesSource` is what the chain is for: whenever the CPU is at the address of a node
and its word was not overwritten, the step it takes is what the node's statement says,
labels meaning the address they stand at. `MeansR` and `MeansI` say it from the statements,
not from the encoding.

### Disk and VideoOutput

The driver of the disk is arbitrary: it may use any port at any time, as a program
with access to them could. Files are sequences of bytes; a stream has the position and the
failure bit of `std::ifstream`: a read that falls short gives what is left, and from then on
reads give nothing and the size is -1. The two words the constructor leaves uninitialized start
with any of `Values`. A port used in the wrong state ends the simulator (`Aborted`). `uploaded` is only in the model: the bytes given out for a
descriptor since it was opened, which `UploadsFollowFiles` compares with the file.

A window keeps its matrix and cursor; `paper` is only in the model, the lines the same
text fills if nothing ever scrolls away. `ScreenShowsTail` says that the matrix is the
end of the paper.

### MemoryPool, EventHandler, EventTimer, Interpolation, BitSet

Memory of the pool is a line of bytes, so that a pointer written by `free` over part of
an object would be seen: every byte holds a piece of a pointer, of an object, or
nothing known. An object is made through `allocate_type` or `make_unique` and may
be freed through a pointer of its base type.

Nodes of the subscriber list and events of the timer have addresses, and a freed
address is the next one handed out, as an allocator does: a pointer kept too long
then refers to something else, not to nothing. `publish`, `trigger_events` and
`process_interpolation` each start in an action, take a step per element, and end in
another; in between, callbacks may make the other calls, but not start such a walk again,
unsubscribe or remove what they were called for, or move and destroy the handler (section 5). `called`, `advanced`, `present` and
`removed` record what a pass has done, for the properties only. `PassesAdvance` states what
the code achieves: when an interpolation is removed during a pass, the last one takes its
place and may be passed over, at most one for each removal.

`BitSet` keeps, beside the storage, the set of the bits that should be 1, and each
operation changes both: the storage as the code does, with `& | ^` and the widths of C++,
the set as the operation's name says. `ImplementsBits` compares them.

## 3. Runs

| run | bounds | question and answer |
|---|---|---|
| `frames` | 2 processes, 3 usable frames, 3 virtual pages, `MaxPages` 3 | Frames are neither shared, nor leaked, nor mapped by the dead; blocks are disjoint, and a free takes no page of another block, as long as `num_pages` fits the address space. |
| `words` | 2 processes, 2 usable frames, 2 pages of 2 words | Reads and writes are those of a private zeroed memory. A page of two words is what it takes to have a partly filled last page. |
| `frames_exhausted` | as `frames` | Fails, as it should: see finding 1. |
| `blocks_wrap` | as `frames`, a program of 1 page, blocks of 2, `MaxPages` 5 | Fails: finding 2. |
| `process_manager` | 4 structs, 4 pids, quantum 2, sleeps of 0, 1, 2 ticks, 2 contexts | Consistency of the process table, and registers of one's own. |
| `scheduler_liveness` | 4 structs, 3 pids, sleeps of 0, 1 | Nobody starves, sleepers wake. |
| `kernel` | idle and two programs, 3 usable frames, 2 pages | The handlers keep both halves together. |
| `print_string` | as `kernel` | Fails: finding 3. |
| `machine` | 1 printable key, a line of 2, periods 0, 1, 2, 5 keys | Keys and ticks share the interrupt line safely. |
| `toolchain` | 4 statements of 20 different ones, 11 words of memory, 6 instructions; texts of 4 characters, tokens of 3 | Programs are executed as they were written; texts are scanned whole and within their buffer. |
| `wide_immediate` | statements with the integer 600 | Fails: finding 4. |
| `library` | see below | Each library component and each device keeps its promise under every order of calls. |

Why the bounds are enough to be interesting. Frames: with three frames two processes
compete, loads end half-way, and each way of freeing a frame is followed by each way
of taking it. Scheduler: with four structs the iterator's element can be erased with
elements before and after it, and a process of three can be passed over; a quantum of
two has both a tick that ends it and one that does not. Machine: five keys fill the
line, go over its end, delete, and enter a command; period 0 keeps the timer asking
in every cycle. `MaxPages`, `MaxPid` and `MaxTyped` are bounds of the models, not of
the code: `MaxPages` above the address space is the subject of `blocks_wrap`; the wrap
of `next_pid` after 65536 loads is outside the runs, and so is that of `num_pages` itself
(`PagesMod` is 8, above every `MaxPages`).

Toolchain: the first word and the entry take two of the eleven words, so that four
statements of two words fit; four statements are enough for a label before and after its use, a
second definition of it, data between instructions, and a store over a later
instruction; `Leftovers` has a register that is 0 and one that is not. Four characters
make every pair of tokens that touch, with something skipped between them; a token of
four goes over its array. They also make a string with an escaped quote in it, which is
closed although it has three quotes. The words behind a binary are 0 or 65535, for the frame's last owner.

Library, by component. Pool: two pools of chunks of 2 and 3 bytes in blocks of 4, so one
has two chunks to a block and the other one; 13 bytes are enough for three blocks, and an
object of 4 bytes is too large for both; three objects alive free in every order. Events: two handlers to
move between, four subscriptions. Timer: two coroutines, two callbacks, three events,
two times: a resume by force, the old event still in the heap, a new one at the same
or at another time, and an address handed out again. Interpolations: three, of length 1 and 2, two of them
awaited by coroutines: removal of the first, the middle and the last place in a pass. Disk: files of
three and one byte, so a read can end before, at and behind the end; both files open, and
`next_id` running out at the third. Bits: 5 bits in a storage of 8, where bits are left over, and 8, where
none are; values negative, small, and larger than the storage. Windows: two of two by two, four
lines printed, so both the width and the height overflow.

Deadlock is not checked where the code does stop: an assembler ends or fails, and these
models end at a crash, at an abort, at undefined behaviour and at their bounds.

Symmetry over the processes is used in runs of safety properties only.

**Fairness.** `ProcessManager!FairSpec` assumes that ticks keep coming: the timer
device asks for its interrupt in every cycle until it is accepted, and `Machine`
checks that it always is (`InterruptsServed`, for ticks and keys alike). Nothing is assumed of programs or of the
person at the keyboard. New programs stop arriving when `MaxPid` is reached: that
somebody who loads programs faster than ticks come could starve the others is
outside the claim. `Machine!Spec` assumes that `Computer::run` goes on looping, which
is the definition of the computer being on. Programs get to execute only with a timer
period above 0 (`ProgramsProgress`): after `timer 0` the CPU serves ticks only, but
keys still arrive (`InterruptsServed`), so the command can be taken back. `MaxTyped` bounds the keys: a
key in every cycle for ever, which the CPU would serve before anything else and which could keep the
timer and the programs waiting, is outside both properties.

### Findings

1. `LoadIsComplete`: `process_memory_config` gives up without an error when no frame is
   left (`process_manager.cpp:111`); the program is announced as loaded and started.
2. `FreeKeepsOtherBlocks` with `MaxPages` beyond the address space: `sys_malloc` wraps in 16
   bits (`os.cpp:470`) and returns success. In the run, of three pages, a program of one
   page allocates two blocks of two: the second wraps onto the page of the program and the first
   page of the first block, and freeing it unmaps both, though the first block still holds its page.
3. `PrintKillsOnlyInvalidAddress`: `sys_print_string` kills a process for a page that
   demand paging would have provided (`os.cpp:401`): in the run a block fresh from `sys_malloc`,
   the page of the system call itself being present.
4. `ImmediatesSurvive`: `execute_i` takes nine bits of an immediate (`cpu.cpp:187`); the
   assembler checks and encodes ten (`../arq-sim-assembler/arch.h:12`). `mov r1, 600` loads 88,
   and a jump to a label from address 512 on goes 512 words too low.

Met on the way, and of no consequence for a property: the assembler accepts the mnemonics of opcodes 6 to 14, of
which the CPU implements none, so such a program assembles and then faults; the indices of the windows
(`Terminal::Type`) start with the kernel's, while the comment at `terminal.cpp:131` calls index 0 the
CPU's; the linker's comment that using virtual address 0 traps (`linker.cpp:19`) is not what the
operating system does, which maps that page; `InterpolationManager::remove_interpolator` names a
member of the descriptor that does not exist, so nothing can have called it.

## 4. Proofs

TLAPS proves each theorem for every value of the constants that the named assumption
of the module allows.

### Frames (`VirtualMemory_proofs`)

`ConstantsAssumption` asks for at least three frames, so that one is left beside the
two reserved ones, and that the address space and every file have fewer pages than `num_pages` has
values. Processes, frames, pages, words and sizes are otherwise free.

* `TypeCorrect`: `Spec => []TypeOK`.
* `FramesAreOwned`: `Spec => []FrameOwnership`, which is `NoFrameShared` (no frame
  mapped twice), `UsedMeansOwned` (used = reserved or mapped by a live process: no leak,
  no double use), `MappedOnlyByLive` and `HardwareTableLive`.

The conjunction of the four parts with `TypeOK` is inductive as it stands. Each part
needs the others: that a frame taken by `DemandPage` is not shared follows from
`UsedMeansOwned` (whatever is mapped is marked, so what is free is not mapped); that
`Unmap` and `Destroy` do not clear the mark of a frame still in use follows from
`NoFrameShared`; and that a dead process's table holds nothing, needed when a struct
is reused, is `MappedOnlyByLive`. That the CPU's pointer is a live table,
`HardwareTableLive`, is what makes the entry written by `DemandPage` count as owned.
There is one lemma per action for the type, one per action for ownership, and small
lemmas on `FirstFree`, `TakesLowest`, `WithoutNth` and `FramesOf`.

* `BlocksAreDisjoint`: `Spec => []BlocksDisjoint` *if `MaxPages <= NumVPages`*, that is,
  if `sys_malloc` never takes `num_pages` past the address space. The code does not see to
  that; finding 2 is what happens otherwise.
* `FreeTakesOnlyItsBlock`: `Spec => FreeKeepsOtherBlocks`, on the same premise.
* `BlocksMeetOnlyAfterWrap`: the blocks of a process are apart for as long as
  its `num_pages` has not passed the address space; nothing but the wrap makes two meet. Its premise is
  only that `num_pages` itself does not wrap (`MaxPages < PagesMod`).

`BlocksDisjoint` alone is not inductive: that the next block is behind all the earlier ones
must be known. `BlocksInOrder` says that the list of blocks is sorted and ends before
`num_pages`; `sys_malloc` appends at `num_pages` and `sys_free` erases one element, which
keeps the order of the others (`InOrderAppend`, `InOrderWithoutNth`). `FreeBlockKeepsOthers` then follows a
free page by page: a block within the address space occupies the pages from its start on, and
those of two blocks in order do not meet (`OrderedAreDisjoint`).

* `MemoryIsPrivate`: `Spec => ImplementsPrivateMemory`, the refinement.

Abstractly a process has words; concretely, page tables, frames and what is in them.
The refinement rests on frame ownership alone: a store goes to a frame that, by
`NoFrameShared`, no other process reads; a page demanded is read as zeroed or as the
program's image only because `UsedMeansOwned` makes the frame it gets nobody's. One lemma
per action says what it does to `Reads`, the function the mapping is made of
(`StoreReads`, `DemandPageReads`, ...), and one that the step of `PrivateMemory` follows.

### Scheduler (`ProcessManager_proofs`)

`PMAssumption` is all that is assumed: any set of structs, any quantum above 0.

* `TypeCorrect`, `OneProcessRuns`, `NothingDangles`, `SleepersAreCounted` and `IdleIsLast`:
  the invariants of the run `process_manager` of the same content.
* `PidsAreUnique`: `UniquePids` *if `MaxPid < PidMod`*. The condition is necessary: `next_pid`
  is never checked and wraps after it, which is a hazard of the code.
* `EveryProcessHasACpu`: `Spec => ImplementsVirtualCpu`, the refinement.

None of the five is inductive alone. Their conjunction becomes so with `IdleKept`: before boot
nothing exists, and afterwards the idle process is in the table, has pid 0 and is
never blocked. It is what makes `schedule()` always find somebody: without it, the
case that nobody is ready leaves the CPU with no process.

Sleep, exit, a kill of the caller, the end of a slice and a tick of the idle process
all finish in `schedule()`, and just before it the invariant is broken: the process that slept is still on the CPU, the
one that died is gone from the table. `Handed` is what does hold there, and the lemma
`ScheduleInv` derives the whole invariant from it, so that each of these only has to
show what it hands over; a load and the other kills keep the invariant directly. `AfterErase` needs facts about the sequence left by an erase
(`EraseIsShift`, `EraseRemoves`), in particular that the returned iterator is in the
new list.

In the refinement, the abstract registers of a process are `ContextOf` it: those of the
CPU while it runs, those saved in its struct otherwise. The lemmas named `...Contexts`
show that a switch changes neither, though it copies both; from there each handler
maps to a step of `VirtualCpu` or to a stutter.

### Kernel (`Kernel_proofs`)

`OperatingSystem` extends `ProcessManager`, adds the constants and variables of the
memory, and instantiates `Kernel` as `K`. `Kernel` itself instantiates `ProcessManager`
under the same names, so `K!PM!Tick` and `Tick` are the same formula: the lemmas
`Same...` say so, one operator each, and the invariant proved of the
process manager is there for the kernel.

* `KernelRunsOneProcess`: `OneRunning` holds of the whole kernel, though its handlers are
  not all steps of `ProcessManager` (`sys_print_string` kills by pid, and then stops).
* `TheTwoPointersAgree`: `HardwareFollowsCurrent`. Inductive with what is known of the
  processes.
* `IdleIsResident`: `IdleNeverFaults`. Its invariant `MemInv` is about boot: before it,
  only the two reserved frames are used, so that `boot()` does get a frame for the first
  page of `idle.bin`; after it, no one unmaps that page. The premise `MemoryAssumption`
  is the part of `ConstantsAssumption` it needs: at least three frames and one page.
* `KernelUsesMemory`: `ImplementsVirtualMemory`. Every handler is one operation of
  `VirtualMemory` or leaves it alone, so frame ownership, private memory and the rest hold
  of the kernel. `IdleIsAnImage` says that a program may have one page, as `idle.bin` has.
* `KernelSchedules`: `ImplementsProcessManager` *if `MaxPid < PidMod`*. The premise is needed:
  `sys_print_string` ends its caller with the shell's `kill` (`os.cpp:408`), which destroys
  the process of that pid; that it is the caller holds only while pids are unique.

### Machine (`Machine_proofs`)

`MachineAssumption` bounds the numbers and fixes neither keys, periods nor line length.

* `TypeCorrect`: `Spec => []TypeOK`.
* `CharactersMatchInterrupts`: `CharacterMatchesInterrupt`. It says nothing between the
  terminal's poll and the timer's; there, `OnlyKeyboardBeforeTimer` makes it inductive: an
  interrupt that waits when the timer is polled can only be the keyboard's, because the CPU
  has served whatever the timer raised.
* `InterruptsAreKept`: the action property `NoInterruptLost`, from that invariant.
* `KeysReachTheLine`: `Spec => ImplementsKeyboardLine`, the refinement: the register and
  the interrupt together are a queue of one between the keyboard and the line.

### Scanner (`Lexer_proofs`)

The text is of any length and `LexerAssumption` asks only for room for one character in a token.

* `TypeCorrect`: with `Bounds`, that outside strings and comments the scanner never stands
  behind the 0 at the end of its buffer.
* `TokensAreWhole`: `TokensAreMaximal`. It speaks of finished tokens; `InProgress` says what is
  known of the one being read, per state of the scanner: all of it are digits, or letters and
  digits, or it began with a quote; and since the last answer, up to where it began, there was a
  `Gap` of blanks and comments.
* `NothingReadOutside`: `ReadsStayInside`. `ReadsInv` says that the scanner's state is what the text, read
  on its own up to that place, is in: `STRING` in a string, `COMMENT` in a comment, every other state in the
  code. A closed text is in the code at its end, so in a string or a comment the scanner is before it, and
  the character it takes is one of the text.
* `LinesAreRight`: `LinesCounted`. `LinesInv` says it in every state, up to the opening quote while
  a string is read, whose newlines are not counted and not known to be in a string yet.

### Disk and windows (`Devices_proofs`)

`DiskAssumption` says that files are bytes and that descriptors and sizes are numbers;
`VideoAssumption` that a window has at least one row and one column. The two instances are
those of `Library`, `Drive` and `Video`.

* `DiskDeliversFiles`: `Drive!Spec => []UploadsFollowFiles`. It becomes inductive with `DiskTyped`: while
  bytes are handed out, the descriptor they belong to is open and at least one byte is left, so that no
  answer is taken for the bytes of another file, or of a file closed since. `Follows` says that what
  was handed out, and behind it what waits in the buffer, is the file up to where its stream stands;
  a read moves bytes from the file to the buffer (`PiecesMeet`), and each answer one from
  the buffer to what was handed out (`FirstMoves`).
* `WindowsShowTheirTail`: `Video!Spec => []ScreenShowsTail`. `Shows` relates one window to its
  paper and is kept by each thing `print` does in one turn of its loop, one lemma each: a new line with
  or without a roll (`NextLineShows`), clearing behind the cursor (`ClearedShows`), a return
  (`ReturnShows`), a character (`CharacterShows`). Besides, no line of the paper is longer than
  the window is wide (`Paper`), by which the cursor stands at the end of its row exactly when the last line is full.

### Event timer and memory pool (`Addresses_proofs`)

In both, memory that is freed is handed out again at once, while pointers to it are kept. In `Timer` of
`Library` it is the least free address, and coroutines, descriptors and a heap name the events that lie
there. `TimerAssumption` says that the bounds are numbers.

* `WakeupsAreUnique`: `Timer!Spec => []OneWakeup`. What is alive has to be named from all sides
  before it is inductive: an event is in the heap or is the one whose callback runs (`Placed`), and the
  one a coroutine waits for is the one its promise names (`PromisesHold`); an event of a descriptor is named by
  no other (`Owned`, `DescriptorsHold`); a coroutine that was resumed by the event that fires is running
  and promises nothing until it waits again. Each operation is a lemma that keeps `Wakes`, the
  conjunction of these; `NeverWaits` and `ResumeEnds` say that whatever a resumed
  coroutine does, wait again at the address just freed included, leaves no second wakeup.

About `Pool` of `Library`, with `PoolAssumption`: sizes and bounds are numbers, there are finitely many types with
a pool, no object has size 0, and neither a type with a pool nor a pointer is larger than a block, so that each block has a chunk.

* `ObjectsStayIntact`: `Pool!Spec => []ObjectsIntact`; `FreeListsAreWhole`: `Pool!Spec => []FreeListsWhole`.

Both need the same invariant, `PoolInv`, for neither is inductive: an allocation hands out what the head of a free
list points to, so that it overwrites no object is known only if the list is whole, and the list, whose
pointers lie in the chunks themselves, stays whole only if no object is written over one of them.
The proof sees the heap as cells `<<address, width>>`, one for each chunk of each block and
one for each object with memory of its own. The cells lie apart and below the top of the heap
(`Tiled`); each object lies in a cell of its own and its deleter holds its size (`Housed`), which is how
`deallocate` finds the cell's pool again after a conversion; each object's bytes are its own (`Intact`);
and the list of each pool is a `Chain` through exactly its vacant cells (`Listed`). An
operation changes this in one of five ways, each a lemma: an object takes a chunk (`TakesChunk`) or memory of
its own (`TakesOwn`), gives it back (`GivesChunk`, `GivesOwn`), or a block is added (`AddsBlock`);
an allocation from an empty pool is an `AddsBlock` and then a `TakesChunk`. Below these are
the lemmas about chains: what is written elsewhere leaves one alone (`ChainStays`), `ChainPush`, `ChainPop`,
and that the chunks of a new block make one (`ChainOfBlock`).

`FreeListsWhole` walks the lists with a recursive function, `Walk`. That the walk meets the
chain (`WalkMeets`) is shown without induction over a predicate, by the least step at which they
would differ (`Least`).

### Event handlers and interpolations (`Library_proofs`)

Both are collections that callbacks change while they are walked.

About `Event` of `Library`, with `EventAssumption`: the bound is a number, and 0 stands for no handler.
No node and no descriptor is in two places of the lists (`Distinct`), whatever happens; that alone makes a
free node available to each `subscribe` (`NodeIsFresh`, by counting). Each operation changes the lists in one of
four ways, `Grown`, `Shrunk`, `Moved`, `Emptied`, and for each there is a lemma per part of the invariant `Handled`.

* `DescriptorsAreValid`: `Event!Spec => []SubscriptionsHold`. `PointsHold` says it from both ends, of each
  subscriber and of each descriptor; it is given up when a handler with subscribers is assigned to, the rest is not.
* `PublishCallsEveryone`: `Event!Spec => []PublishReachesAll`. While a walk stands at place k of its list, those called are
  the ones up to k (`Walks`, `Reached`); a callback that unsubscribes somebody before or behind that
  place moves it (`Was`), one that subscribes adds behind it, and the walk ends behind the last.

About `Interp` of `Library`. `InterpolationAssumption` says that the bounds are numbers, that lengths are not 0,
and that no coroutine is named 0, which stands for none. Here too a freed address, the least, is handed out again.

* `PlacesAreRight`: `Interp!Spec => []PlacesHold`. `Holds` says it of any vector: `vector_pos` and the vector are
  inverse to each other. `push` keeps it (`PushHolds`), and `pop`, which moves the last element into
  the place of the one it takes (`PopHolds`); a coroutine that is resumed by force and waits again is a push
  and then a pop, on the vector in between. `PromisesNamed` adds that no promise names the
  interpolation that is about to be destroyed.
* `PassesAdvanceEveryone`: `Interp!Spec => PassesAdvance`, two action properties. What a pass has
  advanced stands before its index, so what stands at the index was not advanced; and those it
  found but has not advanced, and which stand before its index (`Missed`), are at most as many as were
  removed (`InPassInv`): a removal brings one of them there at most, the last (`OneMissed`).
  At the end everything stands before the index.

### Only model-checked

Liveness (`ReadyRuns`, `SleepersWake`, `InterruptsServed`, `ProgramsProgress`),
and anything that needs ENABLED, is out of the prover's reach and stays with TLC. `BitSet`,
and the `Assembler` and `Toolchain` built on `InstructionSet`, compute with `Bitwise`,
which the prover cannot use: `ImplementsBits` and the properties of the toolchain are checked
on the small instances only. The type invariants of `MCToolchain` and `MCLibrary` join those of their modules,
`BitSet` and `Assembler` among them; what the proofs need of types they state themselves.

## 5. Not modelled

* In `Kernel` and `ProcessManager` an instruction stays an arbitrary change of the context,
  plus the memory access it makes: what holds there holds of every program.
  `InstructionSet` is not composed with them; the words of one process are its memory.
* The MMU's base-limit mode and the Dirty and Accessed bits, which nothing uses, and the
  protection faults, which no table can cause as every present page has all rights.
* Drawing the windows with ncurses, the parsing of command text, `main`, signals, and the
  reading and writing of host files: output, wording and pure I/O. The kinds of
  syntax error of the assembler are one; which tokens make up a statement is not modelled.
* `kill_current_process`, which has no caller.
* `BitSet` on 32 and 64 bits, where shifts by the whole width are undefined, and `BitSetWrapper`.
* A `publish`, a move or the end of a handler inside a callback of a `publish`, `trigger_events` inside that of an event, a pass inside that of an
  interpolation; what follows when a callback unsubscribes itself
  (the erased iterator is then advanced, undefined behaviour; the model stops there); a second `unsubscribe` with the very
  handle the first one emptied (`../my-lib/include/my-lib/event.h:350`), which is then used at line 338: a
  handle that was unsubscribed through a copy is modelled, and gets the exception; a callback that removes the interpolation
  it was called for, which would be destroyed twice (`interpolation.h:238` there); the destructors of
  `Timer`, `PoolManager` and `InterpolationManager`; the interpolated values, which are floats.
* A `PoolManager` for a type larger than a block: a block then has 0 chunks
  (`../my-lib/src/memory-pool.cpp:129`), which `PoolAssumption` excludes. The exception for a count
  other than 1, thrown before anything is done, and the alignment, which the pools ignore.
* Matrices, vectors, quaternions, `std::any` helpers, generators, exceptions: stateless, mostly
  floating point, and not used by the simulator.

## 6. Plan

Done: every component with state, and a theorem for every safety property of a passing run
that the prover can reach. What stays with TLC is listed at the end of section 4.
