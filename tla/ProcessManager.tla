---- MODULE ProcessManager ----
(***************************************************************************)
(* The process half of the operating system: the process table, the        *)
(* round-robin scheduler and the context switch of os/process_manager.cpp, *)
(* with the handlers of os/os.cpp that call them (timer interrupt, shell   *)
(* commands load and kill, sys_process_exit, sys_sleep, and the fault that *)
(* ends a process).                                                        *)
(*                                                                         *)
(* A handler runs to its end between two instructions, so it is one        *)
(* action; the functions it calls one after the other are operators over   *)
(* the intermediate values (Saved, Schedule, AfterErase).                  *)
(*                                                                         *)
(* The pc and the registers are one value, a context.                      *)
(***************************************************************************)
EXTENDS Integers, Sequences

CONSTANTS
    Procs,       \* the Process structs that can exist at the same time
    NoProc,      \* the null pointer
    Contexts,    \* values of the pc and registers
    InitContext, \* pc = 1 and all registers 0
    Quantum,     \* PROCESS_QUANTUM_TICKS
    SleepTicks,  \* the arguments programs give to sys_sleep
    PidMod,      \* 2^16, the width of next_pid and of Process::id
    MaxPid,      \* bound: loads stop when next_pid reaches it
    KillArgs     \* the numbers typed after the shell command kill

ASSUME PMAssumption ==
    /\ NoProc \notin Procs
    /\ InitContext \in Contexts
    /\ Quantum \in Nat \ {0}
    /\ SleepTicks \subseteq Nat
    /\ PidMod \in Nat \ {0}
    /\ MaxPid \in Nat
    /\ KillArgs \subseteq Nat

VARIABLES
    process_table,   \* std::list<Process*>, a sequence
    current_rr_it,   \* the round-robin iterator: an element, or End
    current_process,
    idle_process,
    next_pid,
    process,         \* the fields of each struct
    cpu              \* the context in the CPU

vars == <<process_table, current_rr_it, current_process, idle_process, next_pid, process, cpu>>

End == NoProc   \* process_table.end()

ProcessFields == [id : 0 .. PidMod - 1, state : {"Ready", "Running", "Blocked"},
                  sleep_ticks : Nat, quantum_ticks : Nat, context : Contexts]

\* create_process_struct; also what stands for the fields of a struct that does not exist.
NewProcess(pid) == [id |-> pid, state |-> "Ready", sleep_ticks |-> 0, quantum_ticks |-> 0,
                    context |-> InitContext]

Elements(table) == {table[i] : i \in 1 .. Len(table)}
Table == Elements(process_table)
IsUser(p) == process[p].id # 0

(***************************************************************************)
(* std::list::erase of the element p: the list without it, and the         *)
(* iterator erase returns, which is the one after p.                       *)
(***************************************************************************)
Position(table, p) == CHOOSE i \in 1 .. Len(table) : table[i] = p

Erase(table, p) ==
    LET n == Position(table, p)
    IN  SubSeq(table, 1, n - 1) \o SubSeq(table, n + 1, Len(table))

Following(table, p) ==
    LET n == Position(table, p) IN IF n = Len(table) THEN End ELSE table[n + 1]

\* Mutant: the iterator keeps pointing to the erased element.
AfterEraseDangling(p) == current_rr_it

\* The round-robin iterator once p is erased.
AfterErase(p) ==
    IF current_rr_it = p THEN Following(process_table, p) ELSE current_rr_it

----------------------------------------------------------------------------
\* Mutant: the process that leaves the CPU stays Running.
SavedStillRunning(procs, cur) ==
    [p \in Procs |-> IF p = cur THEN [procs[p] EXCEPT !.context = cpu] ELSE procs[p]]

\* Mutant: the registers are not saved.
SavedWithoutContext(procs, cur) ==
    [p \in Procs |->
        IF p = cur THEN [procs[p] EXCEPT !.state = IF @ = "Running" THEN "Ready" ELSE @]
        ELSE procs[p]]

\* save_current_context, when the process on the CPU is cur.
Saved(procs, cur) ==
    [p \in Procs |->
        IF p = cur
        THEN [procs[p] EXCEPT !.context = cpu, !.state = IF @ = "Running" THEN "Ready" ELSE @]
        ELSE procs[p]]

\* restore_process_context.
Restore(p, procs) ==
    /\ current_process' = p
    /\ process' = [q \in Procs |-> IF q = p THEN [procs[q] EXCEPT !.state = "Running"] ELSE procs[q]]
    /\ cpu' = procs[p].context

\* Mutant: the iterator is advanced after the look at an element, so the search starts
\* with the element it is on.
StepsFromCurrent(table, a, b) == ((Position(table, b) - Position(table, a)) % Len(table)) + 1

\* The number of times the iterator moves on, wrapping at the end, from a to reach b.
Steps(table, a, b) == ((Position(table, b) - Position(table, a) - 1) % Len(table)) + 1

\* Mutant: the test that skips the idle process skips pid 1 as well.
SchedulableAboveOne(table, procs) ==
    {p \in Elements(table) : procs[p].id > 1 /\ procs[p].state \in {"Ready", "Running"}}

Schedulable(table, procs) ==
    {p \in Elements(table) : procs[p].id # 0 /\ procs[p].state \in {"Ready", "Running"}}

(***************************************************************************)
(* schedule(), called with the process table `table', the iterator it, the *)
(* process cur on the CPU (NoProc once it was destroyed) and the fields    *)
(* procs.  The iterator moves at least once and comes back to where it     *)
(* started when it finds nobody; then the idle process runs.               *)
(***************************************************************************)
Schedule(table, it, cur, procs) ==
    LET saved == Saved(procs, cur)
        start == IF it = End THEN table[1] ELSE it
        ready == Schedulable(table, saved)
    IN  \/ \E p \in ready :
            /\ \A q \in ready : Steps(table, start, p) <= Steps(table, start, q)
            /\ current_rr_it' = p
            /\ Restore(p, saved)
        \/ /\ ready = {}
           /\ current_rr_it' = start
           /\ Restore(idle_process, saved)

----------------------------------------------------------------------------
\* init_process_manager.
Init ==
    /\ process_table = <<>>
    /\ current_rr_it = End
    /\ current_process = NoProc
    /\ idle_process = NoProc
    /\ next_pid = 0
    /\ process = [p \in Procs |-> NewProcess(0)]
    /\ cpu = InitContext

\* load_user_program and execute_process.
LoadAs(p, pid) ==
    /\ p \notin Table
    /\ process_table' = Append(process_table, p)
    /\ Restore(p, Saved([process EXCEPT ![p] = NewProcess(pid)], current_process))
    /\ UNCHANGED current_rr_it

\* The end of boot(): idle.bin is loaded and started.
Boot(p) ==
    /\ idle_process = NoProc
    /\ LoadAs(p, 0)
    /\ idle_process' = p
    /\ UNCHANGED next_pid

\* Mutant: next_pid is read and not incremented.
LoadUserSamePid(p) ==
    /\ idle_process # NoProc
    /\ next_pid < MaxPid
    /\ LoadAs(p, (next_pid + 1) % PidMod)
    /\ UNCHANGED <<idle_process, next_pid>>

\* The shell command load with the name of a user program.
LoadUser(p) ==
    /\ idle_process # NoProc
    /\ next_pid < MaxPid
    /\ next_pid' = (next_pid + 1) % PidMod
    /\ LoadAs(p, next_pid')
    /\ UNCHANGED idle_process

\* The shell command load idle.bin: a second process with pid 0.
LoadIdleAgain(p) ==
    /\ idle_process # NoProc
    /\ LoadAs(p, 0)
    /\ UNCHANGED <<idle_process, next_pid>>

(***************************************************************************)
(* destroy_process of the process on the CPU, after which every caller     *)
(* runs schedule(), and of another one, after which nobody does.           *)
(***************************************************************************)
DestroyCurrent(p) ==
    /\ p = current_process
    /\ process_table' = Erase(process_table, p)
    /\ Schedule(Erase(process_table, p), AfterErase(p), NoProc,
                [process EXCEPT ![p] = NewProcess(0)])
    /\ UNCHANGED <<idle_process, next_pid>>

DestroyOther(p) ==
    /\ p \in Table \ {current_process}
    /\ process_table' = Erase(process_table, p)
    /\ current_rr_it' = AfterErase(p)
    /\ process' = [process EXCEPT ![p] = NewProcess(0)]
    /\ UNCHANGED <<current_process, idle_process, next_pid, cpu>>

\* sys_process_exit, or a fault no page can cure, of the program that runs.  It is never
\* idle.bin: that program only loops in its first page, and makes no system call.
EndCurrent ==
    /\ current_process \notin {NoProc, idle_process}
    /\ DestroyCurrent(current_process)

\* cmd_kill_process: the first process with that pid is taken, and pid 0 is refused.
KillPid(pid) ==
    /\ pid # 0
    /\ \E i \in 1 .. Len(process_table) :
        /\ process[process_table[i]].id = pid
        /\ \A j \in 1 .. i - 1 : process[process_table[j]].id # pid
        /\ DestroyCurrent(process_table[i]) \/ DestroyOther(process_table[i])

\* The shell command kill with a number, which is cut to 16 bits.
Kill(n) == KillPid(n % PidMod)

\* Mutant: every process is aged, the ones that do not sleep included.
AgedAlways(proc) == [proc EXCEPT !.sleep_ticks = @ - 1]

\* Mutant: the last tick does not make the process ready.
AgedNeverWakes(proc) ==
    IF proc.state = "Blocked" /\ proc.sleep_ticks > 0 THEN [proc EXCEPT !.sleep_ticks = @ - 1] ELSE proc

(***************************************************************************)
(* The timer interrupt: update_sleeping_processes, then the quantum of the *)
(* running user process, or a schedule() when the idle process runs.       *)
(***************************************************************************)
Aged(proc) ==
    IF proc.state = "Blocked" /\ proc.sleep_ticks > 0
    THEN [proc EXCEPT !.sleep_ticks = @ - 1,
                      !.state = IF proc.sleep_ticks = 1 THEN "Ready" ELSE @]
    ELSE proc

UpdateSleeping(procs) == [p \in Procs |-> IF p \in Table THEN Aged(procs[p]) ELSE procs[p]]

RunsUser == IsUser(current_process) /\ process[current_process].state = "Running"

TickWithinQuantum ==
    /\ current_process # NoProc
    /\ RunsUser
    /\ process[current_process].quantum_ticks + 1 < Quantum
    /\ process' = [UpdateSleeping(process) EXCEPT ![current_process].quantum_ticks = @ + 1]
    /\ UNCHANGED <<process_table, current_rr_it, current_process, idle_process, next_pid, cpu>>

TickEndsQuantum ==
    /\ current_process # NoProc
    /\ RunsUser
    /\ process[current_process].quantum_ticks + 1 >= Quantum
    /\ Schedule(process_table, current_rr_it, current_process,
                [UpdateSleeping(process) EXCEPT ![current_process] =
                    [@ EXCEPT !.quantum_ticks = 0, !.state = "Ready"]])
    /\ UNCHANGED <<process_table, idle_process, next_pid>>

TickWhileIdle ==
    /\ current_process # NoProc
    /\ ~RunsUser
    /\ Schedule(process_table, current_rr_it, current_process, UpdateSleeping(process))
    /\ UNCHANGED <<process_table, idle_process, next_pid>>

Tick == TickWithinQuantum \/ TickEndsQuantum \/ TickWhileIdle

\* Mutant: sys_sleep blocks the caller for 0 ticks too.
SleepZeroBlocks(t) ==
    /\ current_process # NoProc
    /\ IsUser(current_process)
    /\ Schedule(process_table, current_rr_it, current_process,
                [process EXCEPT ![current_process] =
                    [@ EXCEPT !.sleep_ticks = t, !.state = "Blocked"]])
    /\ UNCHANGED <<process_table, idle_process, next_pid>>

\* sys_sleep(t) of the running user process; t = 0 only gives up the CPU.
Sleep(t) ==
    /\ current_process # NoProc
    /\ IsUser(current_process)
    /\ Schedule(process_table, current_rr_it, current_process,
                IF t = 0 THEN process
                ELSE [process EXCEPT ![current_process] =
                         [@ EXCEPT !.sleep_ticks = t, !.state = "Blocked"]])
    /\ UNCHANGED <<process_table, idle_process, next_pid>>

\* An instruction, or a system call that only answers in a register.
Instruction ==
    /\ current_process # NoProc
    /\ cpu' \in Contexts
    /\ UNCHANGED <<process_table, current_rr_it, current_process, idle_process, next_pid, process>>

Next ==
    \/ \E p \in Procs : Boot(p) \/ LoadUser(p) \/ LoadIdleAgain(p)
    \/ EndCurrent
    \/ \E n \in KillArgs : Kill(n)
    \/ Tick
    \/ \E t \in SleepTicks : Sleep(t)
    \/ Instruction

Spec == Init /\ [][Next]_vars

\* The timer device raises its interrupt for as long as the machine is on.
FairSpec == Spec /\ WF_vars(Tick)

----------------------------------------------------------------------------
TypeOK ==
    /\ process_table \in Seq(Procs)
    /\ current_rr_it \in Procs \cup {End}
    /\ current_process \in Procs \cup {NoProc}
    /\ idle_process \in Procs \cup {NoProc}
    /\ next_pid \in 0 .. PidMod - 1
    /\ process \in [Procs -> ProcessFields]
    /\ cpu \in Contexts

\* Once booted, exactly one process of the table is Running, and it is the one the
\* operating system believes to be on the CPU.
OneRunning ==
    idle_process # NoProc =>
        /\ current_process \in Table
        /\ \A p \in Table : process[p].state = "Running" <=> p = current_process

\* No pointer or iterator is left to a process that was destroyed.
NoDangling ==
    /\ current_rr_it \in Table \cup {End}
    /\ current_process \in Table \cup {NoProc}
    /\ idle_process \in Table \cup {NoProc}
    /\ \A i, j \in 1 .. Len(process_table) : process_table[i] = process_table[j] => i = j

\* A pid names one process, and was given out before.
UniquePids ==
    \A p, q \in Table : IsUser(p) =>
        /\ process[p].id <= next_pid
        /\ process[p].id = process[q].id => p = q

\* A sleeping process has ticks left to wait for, and nobody else has any: no process is
\* blocked with nothing to wake it.
SleepersHaveTicks ==
    \A p \in Table : process[p].state = "Blocked" <=> process[p].sleep_ticks > 0

\* The idle process runs only while no user process could.
IdleOnlyWhenNothingReady ==
    current_process = idle_process => \A p \in Table : IsUser(p) => process[p].state = "Blocked"

\* A user process that is ready gets the CPU, or is killed.
ReadyRuns ==
    \A p \in Procs :
        p \in Table /\ IsUser(p) /\ process[p].state = "Ready"
            ~> p \notin Table \/ current_process = p

\* A sleeping process wakes up, or is killed.
SleepersWake ==
    \A p \in Procs :
        p \in Table /\ process[p].state = "Blocked" ~> p \notin Table \/ process[p].state # "Blocked"

\* What is in the registers of process p: in the CPU while p runs, saved otherwise.
ContextOf(p) == IF p = current_process THEN cpu ELSE process[p].context

Abstract == INSTANCE VirtualCpu WITH
    live <- Table,
    running <- current_process,
    context <- [p \in Procs |-> ContextOf(p)]

\* Each process computes as if it had a CPU of its own.
ImplementsVirtualCpu == Abstract!Spec

====
