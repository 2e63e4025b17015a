---- MODULE OperatingSystem ----
(***************************************************************************)
(* What the handlers of Kernel promise, in the terms of ProcessManager:    *)
(* the processes below are the ones the scheduler's specification is about,*)
(* so that what holds of it alone can be carried over to the whole.        *)
(***************************************************************************)
EXTENDS ProcessManager

CONSTANTS NumFrames, NumVPages, PageSize, ImagePages, BlockPages, PagesMod, MaxPages

VARIABLES physical_frames_used, page_table, num_pages, allocations, hw_table, pmem, powered

K == INSTANCE Kernel

\* The handlers of Kernel, run one after the other.
KernelSpec == K!Spec

\* The MMU walks the page table of the process whose registers are in the CPU.
HardwareFollowsCurrent == hw_table = current_process

\* No load, kill, free or shortage of frames can make the idle process fault, so the
\* operating system never panics.
IdleNeverFaults == K!Booted => K!VM!Present(idle_process, 0)

\* The operating system only does to the processes what the scheduler's own
\* specification allows, and to memory what the paging code's allows.
ImplementsProcessManager == Spec
ImplementsVirtualMemory == K!VM!Spec

\* sys_print_string kills its caller only for an address outside the pages the caller was
\* given ("Endereco de memoria invalido detectado").
PrintKillsOnlyInvalidAddress ==
    \A v \in K!VM!VPages : K!PrintWouldFail(v) => v >= num_pages[current_process]

====
