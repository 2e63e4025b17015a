---- MODULE Kernel_proofs ----
(***************************************************************************)
(* The operating system as a whole, for every number of processes, frames  *)
(* and pages: the MMU always walks the table of the process on the CPU,    *)
(* the idle process never faults, and every handler does to the processes  *)
(* and to memory only what ProcessManager and VirtualMemory allow.         *)
(*                                                                         *)
(* OperatingSystem instantiates Kernel as K, and Kernel ProcessManager as  *)
(* PM, over the constants and variables of the ProcessManager extended     *)
(* here: K!PM!X is X under another name, and what was proved of X can be   *)
(* cited for the kernel.                                                   *)
(***************************************************************************)
EXTENDS OperatingSystem, ProcessManager_proofs

\* What the proofs need of the assumption VirtualMemory makes of its constants.
MemoryAssumption ==
    /\ NumFrames \in Nat /\ NumFrames > 2
    /\ NumVPages \in Nat \ {0}
    /\ PageSize \in Nat \ {0}
    /\ ImagePages \subseteq Nat \ {0}

\* idle.bin, a program of one page, is one of the files that can be loaded.
IdleIsAnImage == 1 \in ImagePages

----------------------------------------------------------------------------
(***************************************************************************)
(* The names of PM.                                                        *)
(***************************************************************************)
LEMMA SameTable == K!Table = Table /\ K!Table' = Table' /\ K!PM!Table = Table
  BY DEF K!Table, K!PM!Table, Table, K!PM!Elements, Elements

LEMMA SameUser == \A p : K!PM!IsUser(p) <=> IsUser(p)
  BY DEF K!PM!IsUser, IsUser

LEMMA SameVars == K!PM!vars = vars /\ K!pmvars = vars
  BY DEF K!PM!vars, K!pmvars, vars

LEMMA SameInit == K!PM!Init <=> Init
  BY DEF K!PM!Init, Init, K!PM!End, End, K!PM!NewProcess, NewProcess

LEMMA SameLoadAs == \A p, pid : K!PM!LoadAs(p, pid) <=> LoadAs(p, pid)
  BY DEF K!PM!LoadAs, LoadAs, K!PM!Restore, Restore, K!PM!Saved, Saved,
         K!PM!NewProcess, NewProcess, K!PM!Table, Table, K!PM!Elements, Elements

LEMMA SameBoot == \A p : K!PM!Boot(p) <=> Boot(p)
  BY SameLoadAs DEF K!PM!Boot, Boot

LEMMA SameLoadUser == \A p : K!PM!LoadUser(p) <=> LoadUser(p)
  BY DEF K!PM!LoadUser, LoadUser, K!PM!LoadAs, LoadAs, K!PM!Restore, Restore, K!PM!Saved, Saved,
         K!PM!NewProcess, NewProcess, K!PM!Table, Table, K!PM!Elements, Elements

LEMMA SameLoadIdleAgain == \A p : K!PM!LoadIdleAgain(p) <=> LoadIdleAgain(p)
  BY SameLoadAs DEF K!PM!LoadIdleAgain, LoadIdleAgain

LEMMA SameSchedule ==
    ASSUME NEW table, NEW it, NEW cur, NEW procs
    PROVE  K!PM!Schedule(table, it, cur, procs) <=> Schedule(table, it, cur, procs)
  BY DEF K!PM!Schedule, Schedule, K!PM!Saved, Saved, K!PM!End, End, K!PM!Schedulable, Schedulable,
         K!PM!Elements, Elements, K!PM!Steps, Steps, K!PM!Position, Position, K!PM!Restore, Restore

LEMMA SameErase ==
    /\ \A table, p : K!PM!Erase(table, p) = Erase(table, p)
    /\ \A p : K!PM!AfterErase(p) = AfterErase(p)
  BY DEF K!PM!Erase, Erase, K!PM!Position, Position, K!PM!AfterErase, AfterErase,
         K!PM!Following, Following, K!PM!End, End

LEMMA SameDestroyCurrent == \A p : K!PM!DestroyCurrent(p) <=> DestroyCurrent(p)
  BY SameSchedule, SameErase DEF K!PM!DestroyCurrent, DestroyCurrent, K!PM!NewProcess, NewProcess

LEMMA SameDestroyOther == \A p : K!PM!DestroyOther(p) <=> DestroyOther(p)
  BY SameErase, SameTable DEF K!PM!DestroyOther, DestroyOther, K!PM!NewProcess, NewProcess

LEMMA SameEndCurrent == K!PM!EndCurrent <=> EndCurrent
  BY SameDestroyCurrent DEF K!PM!EndCurrent, EndCurrent

LEMMA SameKillPid == \A pid : K!PM!KillPid(pid) <=> KillPid(pid)
  BY SameDestroyCurrent, SameDestroyOther DEF K!PM!KillPid, KillPid

LEMMA SameKill == \A n : K!PM!Kill(n) <=> Kill(n)
  BY SameKillPid DEF K!PM!Kill, Kill

LEMMA SameTick ==
    /\ K!PM!TickWithinQuantum <=> TickWithinQuantum
    /\ K!PM!TickEndsQuantum <=> TickEndsQuantum
    /\ K!PM!TickWhileIdle <=> TickWhileIdle
<1>1. \A procs : K!PM!UpdateSleeping(procs) = UpdateSleeping(procs)
  BY SameTable DEF K!PM!UpdateSleeping, UpdateSleeping, K!PM!Aged, Aged
<1>2. K!PM!RunsUser <=> RunsUser
  BY SameUser DEF K!PM!RunsUser, RunsUser
<1> QED
  BY <1>1, <1>2, SameSchedule
  DEF K!PM!TickWithinQuantum, TickWithinQuantum, K!PM!TickEndsQuantum, TickEndsQuantum,
      K!PM!TickWhileIdle, TickWhileIdle

LEMMA SameSleep == \A t : K!PM!Sleep(t) <=> Sleep(t)
  BY SameSchedule, SameUser DEF K!PM!Sleep, Sleep

LEMMA SameInstruction == K!PM!Instruction <=> Instruction
  BY DEF K!PM!Instruction, Instruction

----------------------------------------------------------------------------
(***************************************************************************)
(* What each handler does to the processes is an action of ProcessManager, *)
(* but for sys_print_string, which calls the shell's kill with the pid of  *)
(* its caller.                                                             *)
(***************************************************************************)
PMAction ==
    \/ \E p \in Procs : Boot(p) \/ LoadUser(p) \/ LoadIdleAgain(p)
    \/ EndCurrent
    \/ \E n \in KillArgs : Kill(n)
    \/ Tick
    \/ \E t \in SleepTicks : Sleep(t)
    \/ Instruction

PrintStringKills == \E v \in K!VM!VPages : K!PrintStringFails(v)

LEMMA HandlerActions ==
    ASSUME [K!Next]_(K!vars)
    PROVE  PMAction \/ PrintStringKills \/ UNCHANGED vars
<1>1. CASE K!KernelStep
  <2>1. ASSUME NEW p \in Procs, K!Boot(p) \/ K!LoadIdleAgain(p) PROVE PMAction
    BY <2>1, SameBoot, SameLoadIdleAgain DEF K!Boot, K!LoadIdleAgain, PMAction
  <2>2. ASSUME NEW p \in Procs, NEW n, NEW last, K!Load(p, n, last) PROVE PMAction
    BY <2>2, SameLoadUser DEF K!Load, PMAction
  <2>3. ASSUME NEW n \in KillArgs, K!Kill(n) PROVE PMAction
    BY <2>3, SameKill DEF K!Kill, PMAction
  <2>4. CASE K!Tick
    BY <2>4, SameTick DEF K!Tick, Tick, PMAction
  <2>5. ASSUME NEW a, K!Compute \/ K!Store(a) \/ K!Free(a) PROVE PMAction
    BY <2>5, SameInstruction DEF K!Compute, K!Store, K!Free, PMAction
  <2>6. ASSUME NEW v, K!PageFaultServed(v) PROVE UNCHANGED vars
    BY <2>6 DEF K!PageFaultServed, K!pmvars, vars
  <2>7. CASE K!Abort \/ K!Exit
    BY <2>7, SameEndCurrent DEF K!Abort, K!Exit, PMAction
  <2>8. ASSUME NEW k, K!Malloc(k) PROVE PMAction
    BY <2>8, SameInstruction DEF K!Malloc, PMAction
  <2>9. ASSUME NEW t \in SleepTicks, K!Sleep(t) PROVE PMAction
    BY <2>9, SameSleep DEF K!Sleep, PMAction
  <2> QED
    BY <1>1, <2>1, <2>2, <2>3, <2>4, <2>5, <2>6, <2>7, <2>8, <2>9 DEF K!KernelStep, PrintStringKills
<1>2. CASE K!BootFails \/ K!Quit \/ (\E v \in K!VM!VPages : K!Panic(v)) \/ UNCHANGED K!vars
  BY <1>2 DEF K!BootFails, K!Quit, K!Panic, K!vars, K!pmvars, vars
<1> QED
  BY <1>1, <1>2 DEF K!Next

LEMMA PMActionIsNext == PMAction <=> Next
  BY DEF PMAction, Next

\* The scheduler's invariant holds in the whole operating system.
LEMMA KernelInv == Inv /\ [K!Next]_(K!vars) => Inv'
<1> SUFFICES ASSUME Inv, [K!Next]_(K!vars) PROVE Inv'
  OBVIOUS
<1>1. CASE PMAction \/ UNCHANGED vars
  BY <1>1, PMActionIsNext, NextInv
<1>2. CASE PrintStringKills
  BY <1>2, KillInv, SameKillPid DEF PrintStringKills, K!PrintStringFails
<1> QED
  BY <1>1, <1>2, HandlerActions

LEMMA KernelInvInit == K!Init => Inv
  BY InitInv, SameInit DEF K!Init

LEMMA KernelInvAlways == KernelSpec => []Inv
  BY KernelInvInit, KernelInv, PTL DEF KernelSpec, K!Spec

\* In the operating system with its paging code, too, exactly one process runs
\* (process_manager.cpp:262): no fault, page or frame gets in the scheduler's way.
THEOREM KernelRunsOneProcess == KernelSpec => []OneRunning
  BY KernelInvAlways, PTL DEF Inv

----------------------------------------------------------------------------
(***************************************************************************)
(* The two pointers.                                                       *)
(***************************************************************************)
LEMMA PointersMoveTogether ==
    HardwareFollowsCurrent /\ [K!Next]_(K!vars) => HardwareFollowsCurrent'
<1> SUFFICES ASSUME hw_table = current_process, [K!Next]_(K!vars)
             PROVE  hw_table' = current_process'
  BY DEF HardwareFollowsCurrent
<1>1. ASSUME NEW p, NEW n, NEW last, K!VM!Load(p, n, last) PROVE hw_table' = p
  BY <1>1 DEF K!VM!Load, K!VM!LoadInto
<1>2. ASSUME NEW p, NEW pid, LoadAs(p, pid) PROVE current_process' = p
  BY <1>2 DEF LoadAs, Restore
<1>3. ASSUME NEW p, K!FreeMemoryOf(p) PROVE hw_table' = current_process'
  BY <1>3 DEF K!FreeMemoryOf, K!VM!Destroy
<1>4. ASSUME Instruction PROVE current_process' = current_process
  BY <1>4 DEF Instruction
<1>5. ASSUME K!KernelStep
      PROVE  hw_table' = current_process'
  <2>1. ASSUME NEW p \in Procs, K!Boot(p) \/ K!LoadIdleAgain(p) PROVE hw_table' = current_process'
    BY <2>1, <1>1, <1>2, SameBoot, SameLoadIdleAgain
    DEF K!Boot, K!LoadIdleAgain, Boot, LoadIdleAgain
  <2>2. ASSUME NEW p \in Procs, NEW n, NEW last, K!Load(p, n, last) PROVE hw_table' = current_process'
    BY <2>2, <1>1, <1>2, SameLoadUser DEF K!Load, LoadUser
  <2>3. ASSUME NEW n, K!Kill(n) PROVE hw_table' = current_process'
    BY <2>3, <1>3 DEF K!Kill
  <2>4. CASE K!Tick
    <3>1. TickWithinQuantum => current_process' = current_process
      BY DEF TickWithinQuantum
    <3> QED
      BY <2>4, <3>1, SameTick DEF K!Tick, K!memvars, K!VM!SwitchTo
  <2>5. CASE K!Compute
    BY <2>5, <1>4, SameInstruction DEF K!Compute, K!memvars
  <2>6. ASSUME NEW a, K!Store(a) PROVE hw_table' = current_process'
    BY <2>6, <1>4, SameInstruction DEF K!Store, K!VM!Store
  <2>7. ASSUME NEW a, K!Free(a) PROVE hw_table' = current_process'
    BY <2>7, <1>4, SameInstruction
    DEF K!Free, K!VM!Free, K!VM!FreeBlock, K!VM!FreeSinglePage
  <2>8. ASSUME NEW v, K!PageFaultServed(v) PROVE hw_table' = current_process'
    BY <2>8 DEF K!PageFaultServed, K!VM!DemandPage, K!pmvars
  <2>9. ASSUME NEW v, K!PrintStringFails(v) PROVE hw_table' = current_process'
    BY <2>9, <1>3 DEF K!PrintStringFails
  <2>10. CASE K!Abort \/ K!Exit
    BY <2>10, <1>3 DEF K!Abort, K!Exit
  <2>11. ASSUME NEW k, K!Malloc(k) PROVE hw_table' = current_process'
    BY <2>11, <1>4, SameInstruction DEF K!Malloc, K!VM!Malloc
  <2>12. ASSUME NEW t, K!Sleep(t) PROVE hw_table' = current_process'
    BY <2>12 DEF K!Sleep, K!VM!SwitchTo
  <2> QED
    BY <1>5, <2>1, <2>2, <2>3, <2>4, <2>5, <2>6, <2>7, <2>8, <2>9, <2>10, <2>11, <2>12
    DEF K!KernelStep
<1>6. CASE K!BootFails \/ K!Quit \/ (\E v \in K!VM!VPages : K!Panic(v)) \/ UNCHANGED K!vars
  BY <1>6 DEF K!BootFails, K!Quit, K!Panic, K!vars, K!pmvars, K!memvars
<1> QED
  BY <1>5, <1>6 DEF K!Next

LEMMA PointersStart == K!Init => HardwareFollowsCurrent
  BY DEF K!Init, K!PM!Init, K!VM!Init, HardwareFollowsCurrent

\* Whatever handler runs, the MMU walks the page table of the process whose registers are
\* in the CPU: every set_page_table is paired with the context that is restored.
THEOREM TheTwoPointersAgree == KernelSpec => []HardwareFollowsCurrent
  BY PointersStart, PointersMoveTogether, PTL DEF KernelSpec, K!Spec

----------------------------------------------------------------------------
(***************************************************************************)
(* The page of the idle process.  Before boot all frames but the reserved  *)
(* ones are free, so boot() gets one for it; afterwards no handler takes   *)
(* it away, because idle.bin makes no system call and is never destroyed.  *)
(***************************************************************************)
MemoryTyped ==
    page_table \in [Procs -> [K!VM!VPages -> K!VM!Frames \cup {K!VM!NotPresent}]]

IdleInMemory ==
    /\ MemoryTyped
    /\ idle_process # NoProc => page_table[idle_process][0] # K!VM!NotPresent
    /\ idle_process = NoProc => physical_frames_used = K!VM!Reserved

MemInv == Inv /\ HardwareFollowsCurrent /\ IdleInMemory

LEMMA FrameNotAbsent == K!VM!NotPresent \notin K!VM!Frames
  BY DEF K!VM!NotPresent, K!VM!Frames

LEMMA FreeFramesAreFrames == K!VM!FreeFrames \subseteq K!VM!Frames
  BY DEF K!VM!FreeFrames

\* A load fills in the table of the new process and no other.
LEMMA LoadTable ==
    ASSUME MemoryTyped, NEW p \in Procs, NEW n \in Nat, NEW last, K!VM!Load(p, n, last)
    PROVE  /\ MemoryTyped'
           /\ \A q \in Procs \ {p} : page_table'[q] = page_table[q]
           /\ p \notin Table
<1>1. PICK k \in 0 .. n : \E m \in [0 .. k - 1 -> K!VM!FreeFrames] : K!VM!LoadInto(p, n, last, k, m)
  BY DEF K!VM!Load
<1>2. PICK m \in [0 .. k - 1 -> K!VM!FreeFrames] : K!VM!LoadInto(p, n, last, k, m)
  BY <1>1
<1> DEFINE row == [v \in K!VM!VPages |-> IF v < k THEN m[v] ELSE K!VM!NotPresent]
<1>3. page_table' = [page_table EXCEPT ![p] = row] /\ p \notin Table
  BY <1>2, SameTable DEF K!VM!LoadInto
<1>4. row \in [K!VM!VPages -> K!VM!Frames \cup {K!VM!NotPresent}]
  <2>1. \A v \in K!VM!VPages : v < k => v \in 0 .. k - 1
    BY DEF K!VM!VPages
  <2> QED
    BY <2>1, FreeFramesAreFrames
<1> HIDE DEF row
<1> QED
  BY <1>3, <1>4 DEF MemoryTyped

\* boot() gets a frame for idle.bin.
LEMMA BootIsResident ==
    ASSUME MemoryAssumption, IdleInMemory, idle_process = NoProc, NEW p \in Procs,
           K!VM!Load(p, 1, PageSize)
    PROVE  page_table'[p][0] # K!VM!NotPresent
<1>1. PICK k \in 0 .. 1 :
        \E m \in [0 .. k - 1 -> K!VM!FreeFrames] : K!VM!LoadInto(p, 1, PageSize, k, m)
  BY DEF K!VM!Load
<1>2. PICK m \in [0 .. k - 1 -> K!VM!FreeFrames] : K!VM!LoadInto(p, 1, PageSize, k, m)
  BY <1>1
<1>3. 2 \in K!VM!FreeFrames
  BY DEF MemoryAssumption, IdleInMemory, K!VM!FreeFrames, K!VM!Frames, K!VM!Reserved
<1>4. k = 1
  <2> SUFFICES ASSUME k = 0 PROVE FALSE
    OBVIOUS
  <2>1. DOMAIN m = {}
    OBVIOUS
  <2>2. K!VM!FreeFrames = {m[i] : i \in DOMAIN m}
    BY <1>2 DEF K!VM!LoadInto, MemoryAssumption
  <2> QED
    BY <1>3, <2>1, <2>2
<1>5. m[0] \in K!VM!FreeFrames /\ 0 \in K!VM!VPages
  BY <1>4 DEF MemoryAssumption, K!VM!VPages
<1>6. page_table'[p][0] = m[0]
  BY <1>2, <1>4, <1>5 DEF K!VM!LoadInto, IdleInMemory, MemoryTyped
<1> QED
  BY <1>5, <1>6, FreeFramesAreFrames, FrameNotAbsent

\* The end of a process unmaps its pages and nobody else's.
LEMMA DestroyTable ==
    ASSUME MemoryTyped, NEW p \in Procs, NEW next, K!VM!Destroy(p, next)
    PROVE  MemoryTyped' /\ \A q \in Procs \ {p} : page_table'[q] = page_table[q]
<1>1. page_table' = [page_table EXCEPT ![p] = [v \in K!VM!VPages |-> K!VM!NotPresent]]
  BY DEF K!VM!Destroy
<1> QED
  BY <1>1 DEF MemoryTyped

\* sys_free unmaps pages of the process that asks for it and nobody else's.
LEMMA FreeTable ==
    ASSUME MemoryTyped, NEW p \in Procs, NEW a, K!VM!Free(p, a)
    PROVE  MemoryTyped' /\ \A q \in Procs \ {p} : page_table'[q] = page_table[q]
<1>1. ASSUME NEW V, K!VM!Unmap(p, V)
      PROVE  MemoryTyped' /\ \A q \in Procs \ {p} : page_table'[q] = page_table[q]
  BY <1>1 DEF K!VM!Unmap, MemoryTyped
<1> QED
  BY <1>1 DEF K!VM!Free, K!VM!FreeBlock, K!VM!FreeSinglePage

\* A fault that is served makes a page present, and unmaps none.
LEMMA DemandPageTable ==
    ASSUME MemoryTyped, NEW p \in Procs, hw_table = p, NEW u \in K!VM!VPages,
           K!VM!DemandPage(p, u)
    PROVE  /\ MemoryTyped'
           /\ \A q \in Procs : \A v \in K!VM!VPages :
                page_table[q][v] # K!VM!NotPresent => page_table'[q][v] # K!VM!NotPresent
<1>1. PICK f \in K!VM!FreeFrames : page_table' = [page_table EXCEPT ![hw_table][u] = f, ![p][u] = f]
  BY DEF K!VM!DemandPage
<1>2. f \in K!VM!Frames
  BY FreeFramesAreFrames
<1>3. \A q \in Procs : \A v \in K!VM!VPages :
        page_table'[q][v] = IF q = p /\ v = u THEN f ELSE page_table[q][v]
  BY <1>1 DEF MemoryTyped
<1>4. MemoryTyped'
  BY <1>1, <1>2 DEF MemoryTyped
<1> QED
  BY <1>2, <1>3, <1>4, FrameNotAbsent

\* What boot() leaves in place: the idle process, in the table.
LEMMA IdleStays ==
    ASSUME Inv, PMAction \/ PrintStringKills \/ UNCHANGED vars, idle_process # NoProc
    PROVE  idle_process' = idle_process /\ idle_process \in Table /\ idle_process \in Procs
<1>1. idle_process \in Table /\ idle_process \in Procs
  BY DEF Inv, IdleKept, TypeOK
<1>2. ASSUME NEW p, DestroyCurrent(p) \/ DestroyOther(p) PROVE idle_process' = idle_process
  BY <1>2 DEF DestroyCurrent, DestroyOther
<1>3. ASSUME NEW pid, KillPid(pid) PROVE idle_process' = idle_process
  BY <1>2, <1>3 DEF KillPid
<1>4. CASE PMAction
  <2>1. ASSUME NEW p \in Procs, Boot(p) \/ LoadUser(p) \/ LoadIdleAgain(p)
        PROVE  idle_process' = idle_process
    BY <2>1 DEF Boot, LoadUser, LoadIdleAgain
  <2>2. ASSUME EndCurrent PROVE idle_process' = idle_process
    BY <1>2, <2>2 DEF EndCurrent
  <2>3. ASSUME NEW n, Kill(n) PROVE idle_process' = idle_process
    BY <1>3, <2>3 DEF Kill
  <2>4. ASSUME Tick \/ Instruction \/ \E t \in SleepTicks : Sleep(t)
        PROVE  idle_process' = idle_process
    BY <2>4 DEF Tick, TickWithinQuantum, TickEndsQuantum, TickWhileIdle, Sleep, Instruction
  <2> QED
    BY <1>1, <1>4, <2>1, <2>2, <2>3, <2>4 DEF PMAction
<1>5. CASE PrintStringKills
  BY <1>1, <1>3, <1>5, SameKillPid DEF PrintStringKills, K!PrintStringFails
<1>6. CASE UNCHANGED vars
  BY <1>1, <1>6 DEF vars
<1> QED
  BY <1>4, <1>5, <1>6

(***************************************************************************)
(* One step per handler: the table of the idle process keeps its page.     *)
(***************************************************************************)
LEMMA MemInvInit == MemoryAssumption /\ K!Init => MemInv
<1> SUFFICES ASSUME MemoryAssumption, K!Init PROVE MemInv
  OBVIOUS
<1>1. Inv /\ HardwareFollowsCurrent
  BY KernelInvInit, PointersStart
<1>2. idle_process = NoProc /\ physical_frames_used = K!VM!Reserved
  BY DEF K!Init, K!PM!Init, K!VM!Init
<1>3. MemoryTyped
  BY DEF MemoryTyped, K!Init, K!VM!Init
<1> QED
  BY <1>1, <1>2, <1>3 DEF MemInv, IdleInMemory

LEMMA MemInvNext == MemoryAssumption /\ MemInv /\ [K!Next]_(K!vars) => MemInv'
<1> SUFFICES ASSUME MemoryAssumption, MemInv, [K!Next]_(K!vars) PROVE MemInv'
  OBVIOUS
<1>1. Inv' /\ HardwareFollowsCurrent'
  BY KernelInv, PointersMoveTogether DEF MemInv
<1>2. idle_process # NoProc =>
        idle_process' = idle_process /\ idle_process \in Table /\ idle_process \in Procs
  BY HandlerActions, IdleStays DEF MemInv
<1>3. NoProc \notin Procs /\ 1 \in Nat /\ 0 \in K!VM!VPages
  BY PMAssumption DEF MemoryAssumption, K!VM!VPages
<1> DEFINE Kept(p) == MemoryTyped' /\ \A q \in Procs \ {p} : page_table'[q] = page_table[q]
\* A handler that works on the table of another process than the idle one.
<1>4. ASSUME idle_process # NoProc, NEW p, p # idle_process, Kept(p) PROVE IdleInMemory'
  BY <1>2, <1>3, <1>4 DEF MemInv, IdleInMemory
<1>5. ASSUME NEW p \in Procs, K!Boot(p) PROVE IdleInMemory'
  <2>1. idle_process = NoProc /\ idle_process' = p
    BY <1>5, SameBoot DEF K!Boot, Boot
  <2>2. K!VM!Load(p, 1, PageSize)
    BY <1>5 DEF K!Boot
  <2>3. MemoryTyped'
    BY <1>3, <2>2, LoadTable DEF MemInv, IdleInMemory
  <2>4. page_table'[p][0] # K!VM!NotPresent
    BY <2>1, <2>2, BootIsResident DEF MemInv
  <2> QED
    BY <1>3, <2>1, <2>3, <2>4 DEF IdleInMemory, K!VM!NotPresent
<1>6. ASSUME NEW p \in Procs, NEW n \in Nat, NEW last, K!VM!Load(p, n, last), idle_process # NoProc
      PROVE  IdleInMemory'
  <2>1. Kept(p) /\ p \notin Table
    BY <1>6, LoadTable DEF MemInv, IdleInMemory
  <2> QED
    BY <1>2, <1>4, <1>6, <2>1
<1>7. ASSUME NEW p \in Procs, p # idle_process, K!FreeMemoryOf(p) PROVE IdleInMemory'
  <2>1. K!VM!Destroy(p, current_process') /\ p \in Table
    BY <1>7, SameTable DEF K!FreeMemoryOf
  <2>2. Kept(p)
    BY <2>1, DestroyTable DEF MemInv, IdleInMemory
  <2>3. idle_process # NoProc
    BY <2>1 DEF MemInv, Inv, IdleKept, Table, Elements
  <2> QED
    BY <1>4, <1>7, <2>2, <2>3
<1>8. ASSUME NEW p \in Procs, p \in Table \ Table', K!FreeMemoryOf(p) PROVE IdleInMemory'
  <2>1. idle_process # NoProc
    BY <1>8 DEF MemInv, Inv, IdleKept, Table, Elements
  <2>2. idle_process' # NoProc /\ idle_process' \in Table'
    BY <1>1, <1>2, <2>1 DEF Inv, IdleKept
  <2>3. p # idle_process
    BY <1>2, <1>8, <2>1, <2>2
  <2> QED
    BY <1>7, <1>8, <2>3
<1>9. ASSUME page_table' = page_table, physical_frames_used' = physical_frames_used,
             idle_process' = idle_process
      PROVE  IdleInMemory'
  BY <1>9 DEF MemInv, IdleInMemory, MemoryTyped, K!VM!NotPresent, K!VM!Reserved, K!VM!VPages, K!VM!Frames
<1>10. ASSUME K!MakesSyscall
       PROVE  current_process \in Procs /\ current_process # idle_process /\ idle_process # NoProc
  BY <1>10, SameUser DEF K!MakesSyscall, K!RunsProgram, K!Booted, IsUser, MemInv, Inv, IdleKept, OneRunning, TypeOK,
     Table, Elements
<1>11. ASSUME K!KernelStep PROVE IdleInMemory'
  <2>1. ASSUME NEW p \in Procs, K!LoadIdleAgain(p) PROVE IdleInMemory'
    BY <1>3, <1>6, <2>1, SameLoadIdleAgain DEF K!LoadIdleAgain, LoadIdleAgain
  <2>2. ASSUME NEW p \in Procs, NEW n \in ImagePages, NEW last, K!Load(p, n, last) PROVE IdleInMemory'
    BY <1>6, <2>2, SameLoadUser DEF K!Load, LoadUser, MemoryAssumption
  <2>3. ASSUME NEW n, K!Kill(n) PROVE IdleInMemory'
    BY <1>8, <2>3, SameTable DEF K!Kill
  <2>4. CASE K!Tick
    <3>1. K!memvars' = K!memvars \/ K!VM!SwitchTo(current_process')
      BY <2>4 DEF K!Tick
    <3>2. page_table' = page_table /\ physical_frames_used' = physical_frames_used
      BY <3>1 DEF K!memvars, K!VM!SwitchTo
    <3>3. idle_process' = idle_process
      BY <2>4, SameTick DEF K!Tick, TickWithinQuantum, TickEndsQuantum, TickWhileIdle
    <3> QED
      BY <1>9, <3>2, <3>3
  <2>5. ASSUME NEW a, K!Compute \/ K!Store(a) PROVE IdleInMemory'
    <3>1. page_table' = page_table /\ physical_frames_used' = physical_frames_used
      BY <2>5 DEF K!Compute, K!Store, K!memvars, K!VM!Store
    <3>2. idle_process' = idle_process
      BY <2>5, SameInstruction DEF K!Compute, K!Store, Instruction
    <3> QED
      BY <1>9, <3>1, <3>2
  <2>6. ASSUME NEW a, K!Free(a) PROVE IdleInMemory'
    <3>1. K!MakesSyscall /\ K!VM!Free(current_process, a)
      BY <2>6 DEF K!Free
    <3>2. Kept(current_process)
      BY <1>10, <3>1, FreeTable DEF MemInv, IdleInMemory
    <3> QED
      BY <1>4, <1>10, <3>1, <3>2
  <2>7. ASSUME NEW v \in K!VM!VPages, K!PageFaultServed(v) PROVE IdleInMemory'
    <3>1. idle_process # NoProc /\ UNCHANGED vars /\ K!VM!DemandPage(current_process, v)
      BY <2>7 DEF K!PageFaultServed, K!Faults, K!Booted, K!pmvars, vars
    <3>2. current_process \in Procs /\ hw_table = current_process
      BY <3>1, ElementsType DEF MemInv, Inv, OneRunning, TypeOK, Table, HardwareFollowsCurrent
    <3>3. /\ MemoryTyped'
          /\ page_table[idle_process][0] # K!VM!NotPresent
               => page_table'[idle_process][0] # K!VM!NotPresent
      BY <1>2, <1>3, <3>1, <3>2, DemandPageTable DEF MemInv, IdleInMemory
    <3> QED
      BY <1>2, <3>1, <3>3 DEF MemInv, IdleInMemory, K!VM!NotPresent
  <2>8. ASSUME NEW v, K!PrintStringFails(v) PROVE IdleInMemory'
    BY <1>8, <2>8, SameTable DEF K!PrintStringFails
  <2>9. CASE K!Abort \/ K!Exit
    <3>1. K!FreeMemoryOf(current_process) /\ EndCurrent
      BY <2>9, SameEndCurrent DEF K!Abort, K!Exit
    <3>2. current_process \in Procs /\ current_process # idle_process
      BY <3>1 DEF EndCurrent, MemInv, Inv, TypeOK
    <3> QED
      BY <1>7, <3>1, <3>2
  <2>10. ASSUME NEW k, K!Malloc(k) PROVE IdleInMemory'
    <3>1. page_table' = page_table /\ physical_frames_used' = physical_frames_used
      BY <2>10 DEF K!Malloc, K!VM!Malloc
    <3>2. idle_process' = idle_process
      BY <2>10, SameInstruction DEF K!Malloc, Instruction
    <3> QED
      BY <1>9, <3>1, <3>2
  <2>11. ASSUME NEW t, K!Sleep(t) PROVE IdleInMemory'
    <3>1. page_table' = page_table /\ physical_frames_used' = physical_frames_used
      BY <2>11 DEF K!Sleep, K!VM!SwitchTo
    <3>2. idle_process' = idle_process
      BY <2>11, SameSleep DEF K!Sleep, Sleep
    <3> QED
      BY <1>9, <3>1, <3>2
  <2> HIDE DEF Kept
  <2> QED
    BY <1>5, <1>11, <2>1, <2>2, <2>3, <2>4, <2>5, <2>6, <2>7, <2>8, <2>9, <2>10, <2>11
    DEF K!KernelStep
<1>12. ASSUME K!BootFails \/ K!Quit \/ (\E v \in K!VM!VPages : K!Panic(v)) \/ UNCHANGED K!vars
       PROVE  IdleInMemory'
  <2>1. UNCHANGED <<page_table, physical_frames_used, idle_process>>
    BY <1>12 DEF K!BootFails, K!Quit, K!Panic, K!vars, K!pmvars, K!memvars
  <2> QED
    BY <1>9, <2>1
<1>13. IdleInMemory'
  BY <1>11, <1>12 DEF K!Next
<1> QED
  BY <1>1, <1>13 DEF MemInv

LEMMA MemInvAlways == ASSUME MemoryAssumption PROVE KernelSpec => []MemInv
<1>1. K!Init => MemInv
  BY MemInvInit
<1>2. MemInv /\ [K!Next]_(K!vars) => MemInv'
  BY MemInvNext
<1> QED
  BY <1>1, <1>2, PTL DEF KernelSpec, K!Spec

\* The first page of the idle process is in memory from boot() on, however few frames are
\* left (process_manager.cpp:110), so the panic of handle_page_fault_or_gpf cannot happen.
THEOREM IdleIsResident ==
    ASSUME MemoryAssumption
    PROVE  KernelSpec => []IdleNeverFaults
<1>1. MemInv => IdleNeverFaults
  BY DEF MemInv, IdleInMemory, IdleNeverFaults, K!Booted, K!VM!Present
<1> QED
  BY <1>1, MemInvAlways, PTL

----------------------------------------------------------------------------
(***************************************************************************)
(* Memory.  Every handler is one operation of VirtualMemory, or leaves its *)
(* variables alone.                                                        *)
(***************************************************************************)
LEMMA MemoryInit == K!Init => K!VM!Init
  BY DEF K!Init

LEMMA MemoryStep ==
    ASSUME MemoryAssumption, IdleIsAnImage, Inv, HardwareFollowsCurrent, [K!Next]_(K!vars)
    PROVE  [K!VM!Next]_(K!VM!vars)
<1>1. Table \subseteq Procs /\ K!Table = Table /\ hw_table = current_process
  BY SameTable, ElementsType DEF Inv, TypeOK, Table, HardwareFollowsCurrent
<1>2. K!Booted => current_process \in Procs /\ current_process # NoProc
  BY <1>1, PMAssumption DEF K!Booted, Inv, OneRunning
<1>3. K!MakesSyscall => K!Booted
  BY DEF K!MakesSyscall, K!RunsProgram
<1>4. ASSUME process_table' = process_table, K!memvars' = K!memvars PROVE UNCHANGED K!VM!vars
  BY <1>4 DEF K!VM!vars, K!memvars, K!Table, K!PM!Table, K!PM!Elements
<1>5. ASSUME NEW p \in Procs, NEW n \in ImagePages, NEW last \in 1 .. PageSize,
             K!VM!Load(p, n, last)
      PROVE  K!VM!Next
  BY <1>5 DEF K!VM!Next
<1>6. ASSUME NEW p \in Procs, K!VM!Load(p, 1, PageSize) PROVE K!VM!Next
  BY <1>5, <1>6 DEF IdleIsAnImage, MemoryAssumption
<1>7. ASSUME NEW p \in Procs, K!FreeMemoryOf(p) PROVE K!VM!Next
  <2>1. K!VM!Destroy(p, current_process')
    BY <1>7 DEF K!FreeMemoryOf
  <2>2. current_process' \in Procs
    BY <1>1, <2>1 DEF K!VM!Destroy
  <2> QED
    BY <2>1, <2>2 DEF K!VM!Next
<1>8. ASSUME K!VM!SwitchTo(current_process') PROVE K!VM!Next
  <2>1. current_process' \in Procs
    BY <1>1, <1>8 DEF K!VM!SwitchTo
  <2> QED
    BY <1>8, <2>1 DEF K!VM!Next
<1>9. ASSUME K!KernelStep PROVE K!VM!Next \/ UNCHANGED K!VM!vars
  <2>1. ASSUME NEW p \in Procs, K!Boot(p) \/ K!LoadIdleAgain(p) PROVE K!VM!Next
    BY <1>6, <2>1 DEF K!Boot, K!LoadIdleAgain
  <2>2. ASSUME NEW p \in Procs, NEW n \in ImagePages, NEW last \in 1 .. PageSize, K!Load(p, n, last)
        PROVE  K!VM!Next
    BY <1>5, <2>2 DEF K!Load
  <2>3. ASSUME NEW n, K!Kill(n) PROVE K!VM!Next
    BY <1>7, <2>3 DEF K!Kill
  <2>4. CASE K!Tick
    <3>1. TickWithinQuantum => process_table' = process_table
      BY DEF TickWithinQuantum
    <3> QED
      BY <1>4, <1>8, <2>4, <3>1, SameTick DEF K!Tick
  <2>5. CASE K!Compute
    <3>1. process_table' = process_table
      BY <2>5, SameInstruction DEF K!Compute, Instruction
    <3> QED
      BY <1>4, <2>5, <3>1 DEF K!Compute
  <2>6. ASSUME NEW a \in K!VM!VAddrs, K!Store(a) PROVE K!VM!Next
    BY <1>1, <1>2, <2>6 DEF K!Store, K!RunsProgram, K!VM!Next
  <2>7. ASSUME NEW a \in K!VM!VAddrs, K!Free(a) PROVE K!VM!Next
    BY <1>1, <1>2, <1>3, <2>7 DEF K!Free, K!VM!Next
  <2>8. ASSUME NEW v \in K!VM!VPages, K!PageFaultServed(v) PROVE K!VM!Next
    BY <1>1, <1>2, <2>8 DEF K!PageFaultServed, K!Faults, K!VM!Next
  <2>9. ASSUME NEW v, K!PrintStringFails(v) PROVE K!VM!Next
    BY <1>7, <2>9 DEF K!PrintStringFails
  <2>10. CASE K!Abort \/ K!Exit
    <3>1. K!Booted /\ K!FreeMemoryOf(current_process)
      BY <2>10 DEF K!Abort, K!RunsProgram, K!Exit, K!MakesSyscall
    <3> QED
      BY <1>2, <1>7, <3>1
  <2>11. ASSUME NEW k \in BlockPages, K!Malloc(k) PROVE K!VM!Next
    BY <1>1, <1>2, <1>3, <2>11 DEF K!Malloc, K!VM!Next
  <2>12. ASSUME NEW t, K!Sleep(t) PROVE K!VM!Next
    BY <1>8, <2>12 DEF K!Sleep
  <2> QED
    BY <1>9, <2>1, <2>2, <2>3, <2>4, <2>5, <2>6, <2>7, <2>8, <2>9, <2>10, <2>11, <2>12
    DEF K!KernelStep
<1>10. ASSUME K!BootFails \/ K!Quit \/ (\E v \in K!VM!VPages : K!Panic(v)) \/ UNCHANGED K!vars
       PROVE  UNCHANGED K!VM!vars
  <2>1. process_table' = process_table /\ K!memvars' = K!memvars
    BY <1>10 DEF K!BootFails, K!Quit, K!Panic, K!vars, K!pmvars, K!memvars
  <2> QED
    BY <1>4, <2>1
<1> QED
  BY <1>9, <1>10 DEF K!Next

\* The handlers of the operating system use memory as the paging code allows: whatever
\* VirtualMemory guarantees, the kernel has.
THEOREM KernelUsesMemory ==
    ASSUME MemoryAssumption, IdleIsAnImage
    PROVE  KernelSpec => ImplementsVirtualMemory
<1>1. Inv /\ HardwareFollowsCurrent /\ [K!Next]_(K!vars) => [K!VM!Next]_(K!VM!vars)
  BY MemoryStep
<1> QED
  BY <1>1, MemoryInit, KernelInvAlways, TheTwoPointersAgree, PTL
  DEF KernelSpec, K!Spec, ImplementsVirtualMemory, K!VM!Spec

----------------------------------------------------------------------------
(***************************************************************************)
(* The processes.  sys_print_string ends its caller with the shell's kill: *)
(* that is the end of the process on the CPU only if the pid names it      *)
(* alone, so this result needs next_pid not to wrap.                       *)
(***************************************************************************)
LEMMA PrintStringEndsCaller ==
    ASSUME Inv, UniquePids, PrintStringKills
    PROVE  EndCurrent
<1> DEFINE pid == process[current_process].id
<1>1. IsUser(current_process) /\ idle_process # NoProc /\ KillPid(pid)
  BY SameUser, SameKillPid
  DEF PrintStringKills, K!PrintStringFails, K!PrintWouldFail, K!MakesSyscall, K!RunsProgram, K!Booted
<1>2. /\ current_process \in Table /\ current_process \in Procs /\ current_process # NoProc
      /\ current_process # idle_process
  BY <1>1, PMAssumption, ElementsType DEF Inv, OneRunning, IdleKept, TypeOK, IsUser, Table
<1>3. PICK i \in 1 .. Len(process_table) :
        /\ process[process_table[i]].id = pid
        /\ DestroyCurrent(process_table[i]) \/ DestroyOther(process_table[i])
  BY <1>1 DEF KillPid
<1>4. process_table[i] = current_process
  <2>1. process_table[i] \in Table
    BY DEF Table, Elements
  <2> QED
    BY <1>1, <1>2, <1>3, <2>1 DEF UniquePids
<1>5. ~DestroyOther(current_process)
  BY DEF DestroyOther
<1> QED
  BY <1>2, <1>3, <1>4, <1>5 DEF EndCurrent

LEMMA ProcessStep ==
    ASSUME Inv, UniquePids, [K!Next]_(K!vars)
    PROVE  [Next]_vars
<1>1. CASE PrintStringKills
  BY <1>1, PrintStringEndsCaller DEF Next
<1> QED
  BY <1>1, HandlerActions, PMActionIsNext

\* The handlers of the operating system do to the processes only what the scheduler's own
\* specification allows, as long as fewer programs are loaded than there are pids.
THEOREM KernelSchedules ==
    ASSUME MaxPid < PidMod
    PROVE  KernelSpec => ImplementsProcessManager
<1>1. K!Init => Init /\ UniquePids
  BY SameInit, InitUnique DEF K!Init
<1>2. Inv /\ UniquePids /\ [K!Next]_(K!vars) => [Next]_vars /\ UniquePids'
  BY ProcessStep, NextUnique
<1> QED
  BY <1>1, <1>2, KernelInvAlways, PTL
  DEF KernelSpec, K!Spec, ImplementsProcessManager, Spec

====
