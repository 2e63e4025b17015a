---- MODULE VirtualCpu ----
(***************************************************************************)
(* What the scheduler promises a program: a CPU of its own.  The registers *)
(* of a process start from the same value for all and change only by the   *)
(* instructions the process itself executes, however often and wherever it *)
(* is interrupted, preempted or put to sleep in between.                   *)
(***************************************************************************)
CONSTANTS Procs, NoProc, Contexts, InitContext

VARIABLES
    live,    \* the processes that exist
    running, \* the one whose instructions are executed
    context  \* the pc and registers of each

vars == <<live, running, context>>

Init ==
    /\ live = {}
    /\ running = NoProc
    /\ context = [p \in Procs |-> InitContext]

\* A program is started with fresh registers and runs at once.
Create(p) ==
    /\ p \notin live
    /\ live' = live \cup {p}
    /\ running' = p
    /\ context' = [context EXCEPT ![p] = InitContext]

\* The process that runs changes its own registers.
Execute ==
    /\ running \in live
    /\ \E c \in Contexts : context' = [context EXCEPT ![running] = c]
    /\ UNCHANGED <<live, running>>

SwitchTo(p) ==
    /\ p \in live
    /\ running' = p
    /\ UNCHANGED <<live, context>>

Delete(p) ==
    /\ p \in live
    /\ live' = live \ {p}
    /\ running' \in live'
    /\ running # p => running' = running
    /\ context' = [context EXCEPT ![p] = InitContext]

Next == Execute \/ \E p \in Procs : Create(p) \/ SwitchTo(p) \/ Delete(p)

Spec == Init /\ [][Next]_vars

====
