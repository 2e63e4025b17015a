---- MODULE VirtualMemory ----
(***************************************************************************)
(* The paging half of the operating system: the physical frame map of      *)
(* os/mem_virtual.cpp, the page table and allocation list each Process     *)
(* struct owns (os/process.h), the page-table pointer of the CPU           *)
(* (arch/cpu.h) and the words of physical memory behind it.                *)
(*                                                                         *)
(* Interrupts are polled between two instructions (Cpu::run_cycle), so a   *)
(* system call or an interrupt handler runs to its end before anything     *)
(* else happens: every operation below is one action.                      *)
(*                                                                         *)
(* A virtual address is the pair <<virtual page, offset>> the MMU splits   *)
(* it into, a physical address the pair <<frame, offset>>.  The content of *)
(* a word is not a number but what it stands for: zero, the word of a      *)
(* program image it was copied from, or a value some process stored.       *)
(***************************************************************************)
EXTENDS Integers, Sequences

CONSTANTS
    Procs,       \* the Process structs that can exist at the same time
    NoProc,      \* the null pointer
    NumFrames,   \* TOTAL_PHYSICAL_FRAMES
    NumVPages,   \* Config::ptes_per_table
    PageSize,    \* Config::page_size, in words
    ImagePages,  \* sizes, in pages, of the program files that can be loaded
    BlockPages,  \* sizes, in pages, that sys_malloc is asked for
    PagesMod,    \* 2^16, the width of Process::num_pages
    MaxPages     \* bound: a process's num_pages never grows beyond it

ASSUME ConstantsAssumption ==
    /\ NoProc \notin Procs
    /\ NumFrames \in Nat /\ NumFrames > 2
    /\ NumVPages \in Nat \ {0}
    /\ PageSize \in Nat \ {0}
    /\ PagesMod \in Nat /\ NumVPages < PagesMod
    /\ ImagePages \subseteq 1 .. PagesMod - 1
    /\ BlockPages \subseteq Nat \ {0}
    /\ MaxPages \in Nat

VARIABLES
    live,                 \* the structs in process_table
    physical_frames_used, \* the frames whose flag is set
    page_table,           \* Process::page_table
    num_pages,            \* Process::num_pages
    allocations,          \* Process::allocations
    hw_table,             \* the process whose table Cpu::page_table points to
    pmem                  \* the words of physical memory

vars == <<live, physical_frames_used, page_table, num_pages, allocations, hw_table, pmem>>

Frames == 0 .. NumFrames - 1
VPages == 0 .. NumVPages - 1
Offsets == 0 .. PageSize - 1
VAddrs == VPages \X Offsets
PAddrs == Frames \X Offsets

NotPresent == -1   \* an entry whose Present bit is 0

Zero == <<"zero", NoProc, <<0, 0>>>>
ImageWord(p, a) == <<"image", p, a>>
StoredWord(p) == <<"stored", p, <<0, 0>>>>
Content == {"zero", "image", "stored"} \X (Procs \cup {NoProc}) \X VAddrs

Block == [start_vpage : VPages, num_pages : Nat]

Reserved == {0, 1}   \* set in init_vmem, below the range allocate_physical_frame scans

\* Mutant: the scan of allocate_physical_frame goes one past the last frame.
FreeFramesOffByOne == (0 .. NumFrames) \ (physical_frames_used \cup Reserved)

FreeFrames == Frames \ (physical_frames_used \cup Reserved)

Present(p, v) == page_table[p][v] # NotPresent
FramesOf(p, V) == {page_table[p][v] : v \in {u \in V : Present(p, u)}}

(***************************************************************************)
(* allocate_physical_frame takes the lowest free frame and fails when      *)
(* there is none.  FirstFree(f) is one call; TakesLowest(m) is a loop of   *)
(* calls: m maps the pages 0, 1, ... it serves to the frames they got.     *)
(***************************************************************************)
FirstFree(f) == f \in FreeFrames /\ \A g \in FreeFrames : f <= g

TakesLowest(m) ==
    /\ \A i, j \in DOMAIN m : i < j => m[i] < m[j]
    /\ \A f \in FreeFrames : (\A i \in DOMAIN m : m[i] # f) => \A i \in DOMAIN m : m[i] < f

----------------------------------------------------------------------------
(***************************************************************************)
(* init_vmem, the Process structs before their first use, and the zeroed   *)
(* memory of the Memory constructor: the state boot() starts from.         *)
(***************************************************************************)
Init ==
    /\ live = {}
    /\ physical_frames_used = Reserved
    /\ page_table = [p \in Procs |-> [v \in VPages |-> NotPresent]]
    /\ num_pages = [p \in Procs |-> 0]
    /\ allocations = [p \in Procs |-> <<>>]
    /\ hw_table = NoProc
    /\ pmem = [a \in PAddrs |-> Zero]

(***************************************************************************)
(* load_user_program: create_process_struct, process_memory_config, and    *)
(* the set_page_table of the execute_process that always follows.  The     *)
(* file has n pages and `last' words in its last page.  The loop stops     *)
(* without an error at the first frame it cannot get, after k pages; the   *)
(* words of the last page beyond the file keep what the frame held.        *)
(***************************************************************************)
InImage(n, last, a) == a[1] < n - 1 \/ (a[1] = n - 1 /\ a[2] < last)

PageIn(m, f) == CHOOSE v \in DOMAIN m : m[v] = f

LoadInto(p, n, last, k, m) ==
    /\ p \notin live
    /\ k <= NumVPages
    /\ k = n \/ k = NumVPages \/ FreeFrames = {m[i] : i \in DOMAIN m}
    /\ TakesLowest(m)
    /\ live' = live \cup {p}
    /\ physical_frames_used' = physical_frames_used \cup {m[i] : i \in DOMAIN m}
    /\ page_table' = [page_table EXCEPT ![p] =
                         [v \in VPages |-> IF v < k THEN m[v] ELSE NotPresent]]
    /\ num_pages' = [num_pages EXCEPT ![p] = n]
    /\ allocations' = [allocations EXCEPT ![p] = <<>>]
    /\ pmem' = [a \in PAddrs |->
                  IF \E v \in DOMAIN m : m[v] = a[1] /\ InImage(n, last, <<v, a[2]>>)
                  THEN ImageWord(p, <<PageIn(m, a[1]), a[2]>>)
                  ELSE pmem[a]]
    /\ hw_table' = p

Load(p, n, last) ==
    \E k \in 0 .. n : \E m \in [0 .. k - 1 -> FreeFrames] : LoadInto(p, n, last, k, m)

\* set_page_table in restore_process_context, for a process that is switched to.
SwitchTo(p) ==
    /\ p \in live
    /\ hw_table' = p
    /\ UNCHANGED <<live, physical_frames_used, page_table, num_pages, allocations, pmem>>

(***************************************************************************)
(* destroy_process with free_process_memory.  When the process was the one *)
(* on the CPU its table goes away under the CPU's pointer, and the         *)
(* schedule() each such caller ends with points the CPU at `next'.         *)
(***************************************************************************)
Destroy(p, next) ==
    /\ p \in live
    /\ next \in live \ {p}
    /\ hw_table # p => next = hw_table
    /\ live' = live \ {p}
    /\ physical_frames_used' = physical_frames_used \ FramesOf(p, VPages)
    /\ page_table' = [page_table EXCEPT ![p] = [v \in VPages |-> NotPresent]]
    /\ num_pages' = [num_pages EXCEPT ![p] = 0]
    /\ allocations' = [allocations EXCEPT ![p] = <<>>]
    /\ hw_table' = next
    /\ UNCHANGED pmem

(***************************************************************************)
(* handle_demand_paging(p, ...), for the fault on page v.  The new entry   *)
(* is written through the CPU's pointer (configure_hardware_page) and then *)
(* copied into p's table: the two are the same table only if the CPU runs  *)
(* p, which is what the callers guarantee.                                 *)
(***************************************************************************)
CanDemandPage(p, v) == v < num_pages[p] /\ ~Present(p, v) /\ FreeFrames # {}

\* Mutant: the new frame is not cleared.
DemandPageUncleared(p, v) ==
    /\ CanDemandPage(p, v)
    /\ \E f \in FreeFrames :
        /\ FirstFree(f)
        /\ physical_frames_used' = physical_frames_used \cup {f}
        /\ page_table' = [page_table EXCEPT ![hw_table][v] = f, ![p][v] = f]
    /\ UNCHANGED <<live, num_pages, allocations, hw_table, pmem>>

DemandPage(p, v) ==
    /\ CanDemandPage(p, v)
    /\ \E f \in FreeFrames :
        /\ FirstFree(f)
        /\ physical_frames_used' = physical_frames_used \cup {f}
        /\ page_table' = [page_table EXCEPT ![hw_table][v] = f, ![p][v] = f]
        /\ pmem' = [a \in PAddrs |-> IF a[1] = f THEN Zero ELSE pmem[a]]
    /\ UNCHANGED <<live, num_pages, allocations, hw_table>>

\* Cpu::vmem_write: a store through the table the CPU points to.
Store(a) ==
    /\ hw_table # NoProc
    /\ Present(hw_table, a[1])
    /\ pmem' = [pmem EXCEPT ![<<page_table[hw_table][a[1]], a[2]>>] = StoredWord(hw_table)]
    /\ UNCHANGED <<live, physical_frames_used, page_table, num_pages, allocations, hw_table>>

\* Mutant: num_pages advances by one page, whatever the size of the block.
MallocOnePage(p, k) ==
    /\ num_pages[p] + k <= MaxPages
    /\ num_pages' = [num_pages EXCEPT ![p] = (@ + 1) % PagesMod]
    /\ allocations' = [allocations EXCEPT ![p] =
                          Append(@, [start_vpage |-> num_pages[p] % NumVPages, num_pages |-> k])]
    /\ UNCHANGED <<live, physical_frames_used, page_table, hw_table, pmem>>

(***************************************************************************)
(* sys_malloc of k pages.  No frame is taken: the block is a range of      *)
(* virtual pages after the last one handed out.  Its address is            *)
(* num_pages * page_size in 16 bits, so its page number wraps at           *)
(* ptes_per_table; num_pages itself has 16 bits too.                       *)
(***************************************************************************)
Malloc(p, k) ==
    /\ num_pages[p] + k <= MaxPages
    /\ num_pages' = [num_pages EXCEPT ![p] = (@ + k) % PagesMod]
    /\ allocations' = [allocations EXCEPT ![p] =
                          Append(@, [start_vpage |-> num_pages[p] % NumVPages, num_pages |-> k])]
    /\ UNCHANGED <<live, physical_frames_used, page_table, hw_table, pmem>>

(***************************************************************************)
(* sys_free: the first block that starts at the address, or one page when  *)
(* no block does; free_virtual_page then unmaps the pages of that range.   *)
(* num_pages does not shrink.                                              *)
(***************************************************************************)
StartsAt(blk, a) == blk.start_vpage = a[1] /\ a[2] = 0

\* Mutant: one page more than the block has is freed.
PageRangeInclusive(a, k) == {v \in VPages : a[1] <= v /\ v <= a[1] + k}

PageRange(a, k) == {v \in VPages : a[1] <= v /\ v < a[1] + k}

WithoutNth(s, n) == [i \in 1 .. Len(s) - 1 |-> IF i < n THEN s[i] ELSE s[i + 1]]

\* Mutant: the frames are freed and the page-table entries stay.
UnmapKeepsEntries(p, V) ==
    /\ physical_frames_used' = physical_frames_used \ FramesOf(p, V)
    /\ UNCHANGED page_table

Unmap(p, V) ==
    /\ physical_frames_used' = physical_frames_used \ FramesOf(p, V)
    /\ page_table' = [page_table EXCEPT ![p] =
                         [v \in VPages |-> IF v \in V THEN NotPresent ELSE page_table[p][v]]]

FreeBlock(p, a, n) ==
    /\ n \in 1 .. Len(allocations[p])
    /\ StartsAt(allocations[p][n], a)
    /\ \A i \in 1 .. n - 1 : ~StartsAt(allocations[p][i], a)
    /\ allocations' = [allocations EXCEPT ![p] = WithoutNth(@, n)]
    /\ Unmap(p, PageRange(a, allocations[p][n].num_pages))
    /\ UNCHANGED <<live, num_pages, hw_table, pmem>>

FreeSinglePage(p, a) ==
    /\ \A i \in 1 .. Len(allocations[p]) : ~StartsAt(allocations[p][i], a)
    /\ Unmap(p, PageRange(a, 1))
    /\ UNCHANGED <<live, num_pages, allocations, hw_table, pmem>>

Free(p, a) == (\E n \in 1 .. Len(allocations[p]) : FreeBlock(p, a, n)) \/ FreeSinglePage(p, a)

----------------------------------------------------------------------------
(***************************************************************************)
(* The callers: the shell loads, kills and exits processes, the scheduler  *)
(* switches between them, and only the process on the CPU faults, stores,  *)
(* allocates and frees.  A fault that CanDemandPage refuses ends in        *)
(* Destroy (handle_page_fault_or_gpf).                                     *)
(***************************************************************************)
Next ==
    \/ \E p \in Procs, n \in ImagePages, last \in 1 .. PageSize : Load(p, n, last)
    \/ \E p \in Procs : SwitchTo(p)
    \/ \E p, next \in Procs : Destroy(p, next)
    \/ hw_table # NoProc /\
        \/ \E v \in VPages : DemandPage(hw_table, v)
        \/ \E a \in VAddrs : Store(a)
        \/ \E k \in BlockPages : Malloc(hw_table, k)
        \/ \E a \in VAddrs : Free(hw_table, a)

Spec == Init /\ [][Next]_vars

----------------------------------------------------------------------------
TypeOK ==
    /\ live \in SUBSET Procs
    /\ physical_frames_used \in SUBSET Frames
    /\ page_table \in [Procs -> [VPages -> Frames \cup {NotPresent}]]
    /\ num_pages \in [Procs -> Nat]
    /\ allocations \in [Procs -> Seq(Block)]
    /\ hw_table \in Procs \cup {NoProc}
    /\ pmem \in [PAddrs -> Content]

\* No physical frame is mapped twice, by two processes or by two pages of one.
NoFrameShared ==
    \A p, q \in Procs : \A v, u \in VPages :
        Present(p, v) /\ page_table[p][v] = page_table[q][u] => p = q /\ v = u

\* A frame is marked used exactly when it is reserved or mapped by a live process:
\* the operating system neither leaks a frame nor hands out one still in use.
UsedMeansOwned ==
    physical_frames_used = Reserved \cup UNION {FramesOf(p, VPages) : p \in live}

\* The frames set aside at boot are never mapped, a process that is gone maps none, and
\* a live one only pages it was given (as long as num_pages keeps within its width).
MappedOnlyByLive ==
    \A p \in Procs : \A v \in VPages : Present(p, v) =>
        /\ p \in live /\ page_table[p][v] \notin Reserved
        /\ MaxPages < PagesMod => v < num_pages[p]

\* The MMU never walks the table of a process that was destroyed.
HardwareTableLive == hw_table = NoProc \/ hw_table \in live

\* FrameOwnership: who owns which frame, across every load, fault, free and kill.
FrameOwnership == NoFrameShared /\ UsedMeansOwned /\ MappedOnlyByLive /\ HardwareTableLive

\* The blocks of p lie inside the address space and have no page in common.
BlocksApart(p) ==
    \A i, j \in 1 .. Len(allocations[p]) :
        /\ allocations[p][i].start_vpage + allocations[p][i].num_pages <= NumVPages
        /\ i # j => LET b == allocations[p][i]  c == allocations[p][j]
                    IN  \/ b.start_vpage + b.num_pages <= c.start_vpage
                        \/ c.start_vpage + c.num_pages <= b.start_vpage

\* The blocks sys_malloc handed to one process and not freed since share no page
\* (process.h: "paginas que este bloco utiliza").
BlocksDisjoint == \A p \in Procs : BlocksApart(p)

\* The virtual pages of a block.
PagesOf(blk) ==
    {v \in VPages : blk.start_vpage <= v /\ v < blk.start_vpage + blk.num_pages}

\* A sys_free that gives a block back takes no page away from the blocks the process
\* still has: those pages are theirs ("paginas que este bloco utiliza", process.h:22).
FreeKeepsOtherBlocks ==
    [][\A p \in live \cap live' :
          Len(allocations'[p]) < Len(allocations[p]) =>
              \A i \in 1 .. Len(allocations'[p]) : \A v \in PagesOf(allocations'[p][i]) :
                  Present(p, v) => page_table'[p][v] # NotPresent]_vars

\* A load that succeeds has every page of the program in memory ("Programa carregado
\* com sucesso").
LoadIsComplete ==
    [][\A p \in Procs : p \in live' \ live =>
          \A v \in VPages : v < num_pages'[p] => page_table'[p][v] # NotPresent]_vars

\* What process p reads at address a: an unmapped page of p reads as zero, because
\* demand paging zero-fills the frame before the read is retried.
Reads(p, a) == IF Present(p, a[1]) THEN pmem[<<page_table[p][a[1]], a[2]>>] ELSE Zero

Abstract == INSTANCE PrivateMemory WITH
    running <- hw_table,
    vmem <- [p \in Procs |-> [a \in VAddrs |-> Reads(p, a)]]

\* The paging code gives every process a private, zero-initialised address space.
ImplementsPrivateMemory == Abstract!Spec

====
