---- MODULE Kernel ----
(***************************************************************************)
(* The operating system as the CPU calls it: each action is a handler of   *)
(* os/os.cpp with everything it does to the processes (ProcessManager) and *)
(* to memory (VirtualMemory) in the same step.                             *)
(*                                                                         *)
(* The two components share the set of processes that exist, and are tied  *)
(* by two pointers that every handler has to move together: the process    *)
(* whose registers are in the CPU (current_process) and the one whose page *)
(* table the MMU walks (hw_table).  What is promised of them is stated in  *)
(* OperatingSystem.                                                        *)
(***************************************************************************)
EXTENDS Integers, Sequences

CONSTANTS
    Procs, NoProc,
    Contexts, InitContext, Quantum, SleepTicks, PidMod, MaxPid, KillArgs,
    NumFrames, NumVPages, PageSize, ImagePages, BlockPages, PagesMod, MaxPages

VARIABLES
    process_table, current_rr_it, current_process, idle_process, next_pid, process, cpu,
    physical_frames_used, page_table, num_pages, allocations, hw_table, pmem,
    powered  \* Computer::alive: cleared by Cpu::turn_off

pmvars == <<process_table, current_rr_it, current_process, idle_process, next_pid, process, cpu>>
memvars == <<physical_frames_used, page_table, num_pages, allocations, hw_table, pmem>>
vars == <<pmvars, memvars, powered>>

PM == INSTANCE ProcessManager

Table == PM!Table

VM == INSTANCE VirtualMemory WITH live <- Table

Booted == idle_process # NoProc

Init == PM!Init /\ VM!Init /\ powered = TRUE

\* boot(): idle.bin is one page long.
Boot(p) == PM!Boot(p) /\ VM!Load(p, 1, PageSize)

\* boot() without an idle.bin that can be read: no page table is set, and the first fetch
\* ends the simulator (mylib_assert in vmem_to_phys).
BootFails == ~Booted /\ powered' = FALSE /\ UNCHANGED <<pmvars, memvars>>

\* Mutant: a program is loaded and not started.
LoadNotExecuted(p, n, last) ==
    /\ Booted
    /\ next_pid < MaxPid
    /\ p \notin Table
    /\ next_pid' = (next_pid + 1) % PidMod
    /\ process_table' = Append(process_table, p)
    /\ process' = [process EXCEPT ![p] = PM!NewProcess(next_pid')]
    /\ UNCHANGED <<current_rr_it, current_process, idle_process, cpu>>
    /\ VM!Load(p, n, last)

\* Mutant: the second idle.bin takes the place of the idle process.
LoadIdleReplaces(p) ==
    /\ Booted
    /\ PM!LoadAs(p, 0)
    /\ idle_process' = p
    /\ UNCHANGED next_pid
    /\ VM!Load(p, 1, PageSize)

\* The shell command load.
Load(p, n, last) == PM!LoadUser(p) /\ VM!Load(p, n, last)
LoadIdleAgain(p) == PM!LoadIdleAgain(p) /\ VM!Load(p, 1, PageSize)

\* destroy_process in a handler that ends process p, the schedule() after it included.
FreeMemoryOf(p) == p \in Table /\ VM!Destroy(p, current_process')

\* The shell command kill.
Kill(n) == PM!Kill(n) /\ \E p \in Procs : p \in Table \ Table' /\ FreeMemoryOf(p)

\* The shell commands quit and exit.
Quit == Booted /\ powered' = FALSE /\ UNCHANGED <<pmvars, memvars>>

\* The timer interrupt: only schedule() loads another page table.
Tick ==
    \/ PM!TickWithinQuantum /\ UNCHANGED memvars
    \/ (PM!TickEndsQuantum \/ PM!TickWhileIdle) /\ VM!SwitchTo(current_process')

(***************************************************************************)
(* Instructions.  A program may compute in its registers and use any       *)
(* address; idle.bin only fetches from its page.  An access to a page the  *)
(* MMU finds absent, the fetch itself first of all, comes back to          *)
(* handle_page_fault_or_gpf with the registers as they were, and is        *)
(* retried when the page could be made present.                            *)
(***************************************************************************)
RunsProgram == Booted /\ current_process # idle_process

\* The instruction at pc can be fetched: its page is present.
Fetches == \E v \in VM!VPages : VM!Present(hw_table, v) /\ (v = 0 \/ RunsProgram)

Compute == Booted /\ Fetches /\ PM!Instruction /\ UNCHANGED memvars

Store(a) == RunsProgram /\ Fetches /\ PM!Instruction /\ VM!Store(a)

Faults(v) == Booted /\ ~VM!Present(hw_table, v) /\ (v = 0 \/ RunsProgram)

PageFaultServed(v) == Faults(v) /\ UNCHANGED pmvars /\ VM!DemandPage(current_process, v)

\* A page that cannot be made present, or an instruction that does not exist.
Abort ==
    /\ RunsProgram
    /\ Fetches \/ \E v \in VM!VPages : Faults(v) /\ ~VM!CanDemandPage(current_process, v)
    /\ PM!EndCurrent
    /\ FreeMemoryOf(current_process)

\* "PANIC: Falha fatal de CPU no idle.bin! Desligando..."
Panic(v) ==
    /\ Faults(v)
    /\ current_process = idle_process
    /\ ~VM!CanDemandPage(current_process, v)
    /\ powered' = FALSE
    /\ UNCHANGED <<pmvars, memvars>>

(***************************************************************************)
(* System calls, made by user programs, by an instruction that was fetched *)
(* like any other.  sys_print_string translates the address itself         *)
(* (vaddr_to_paddr) and kills the caller when the page is not present,     *)
(* without asking for the page first.                                      *)
(***************************************************************************)
MakesSyscall == RunsProgram /\ PM!IsUser(current_process) /\ Fetches

\* Mutant: the memory of a process that exits is not freed.
ExitKeepsMemory == MakesSyscall /\ PM!EndCurrent /\ hw_table' = current_process' /\
    UNCHANGED <<physical_frames_used, page_table, num_pages, allocations, pmem>>

Exit == MakesSyscall /\ PM!EndCurrent /\ FreeMemoryOf(current_process)

PrintWouldFail(v) == powered /\ MakesSyscall /\ ~VM!Present(hw_table, v)

PrintStringFails(v) ==
    /\ PrintWouldFail(v)
    /\ PM!KillPid(process[current_process].id)
    /\ \E p \in Procs : p \in Table \ Table' /\ FreeMemoryOf(p)

Malloc(k) == MakesSyscall /\ PM!Instruction /\ VM!Malloc(current_process, k)

Free(a) == MakesSyscall /\ PM!Instruction /\ VM!Free(current_process, a)

\* Mutant: the context switch of sys_sleep does not set the page table.
SleepKeepsTable(t) == MakesSyscall /\ PM!Sleep(t) /\ UNCHANGED memvars

Sleep(t) == MakesSyscall /\ PM!Sleep(t) /\ VM!SwitchTo(current_process')

----------------------------------------------------------------------------
KernelStep ==
    \/ \E p \in Procs : Boot(p) \/ LoadIdleAgain(p)
    \/ \E p \in Procs, n \in ImagePages, last \in 1 .. PageSize : Load(p, n, last)
    \/ \E n \in KillArgs : Kill(n)
    \/ Tick
    \/ Compute
    \/ \E a \in VM!VAddrs : Store(a) \/ Free(a)
    \/ \E v \in VM!VPages : PageFaultServed(v) \/ PrintStringFails(v)
    \/ Abort
    \/ Exit
    \/ \E k \in BlockPages : Malloc(k)
    \/ \E t \in SleepTicks : Sleep(t)

Next ==
    /\ powered
    /\ \/ KernelStep /\ UNCHANGED powered
       \/ BootFails
       \/ Quit
       \/ \E v \in VM!VPages : Panic(v)

Spec == Init /\ [][Next]_vars

====
