---- MODULE PrivateMemory ----
(***************************************************************************)
(* What the paging code promises a program: an address space of its own.   *)
(* It starts as the program image followed by zeroes, changes only when    *)
(* the program itself stores a word or gives pages back, and nothing       *)
(* another process, the scheduler or the frame allocator does can be seen  *)
(* in it.  There are no frames, page tables or page faults here.           *)
(***************************************************************************)
EXTENDS Integers

CONSTANTS Procs, NoProc, NumVPages, PageSize, ImagePages

VARIABLES
    live,    \* the processes that exist
    running, \* the one that executes instructions
    vmem     \* what each process would read at each of its addresses

vars == <<live, running, vmem>>

VPages == 0 .. NumVPages - 1
Offsets == 0 .. PageSize - 1
VAddrs == VPages \X Offsets

Zero == <<"zero", NoProc, <<0, 0>>>>
ImageWord(p, a) == <<"image", p, a>>
StoredWord(p) == <<"stored", p, <<0, 0>>>>

Init ==
    /\ live = {}
    /\ running = NoProc
    /\ vmem = [p \in Procs |-> [a \in VAddrs |-> Zero]]

OthersKeep(p) == \A q \in Procs \ {p} : vmem'[q] = vmem[q]

\* The first k of the program's n pages are its image (the words of page n - 1
\* beyond the `last' ones of the file are not specified), everything else is zero.
Create(p, n, k, last) ==
    /\ p \notin live
    /\ live' = live \cup {p}
    /\ running' = p
    /\ OthersKeep(p)
    /\ DOMAIN vmem' = Procs
    /\ DOMAIN vmem'[p] = VAddrs
    /\ \A a \in VAddrs :
        /\ a[1] < k /\ (a[1] < n - 1 \/ a[2] < last) => vmem'[p][a] = ImageWord(p, a)
        /\ a[1] >= k => vmem'[p][a] = Zero

\* The running process stores a word.
Write(a) ==
    /\ running \in live
    /\ vmem' = [vmem EXCEPT ![running][a] = StoredWord(running)]
    /\ UNCHANGED <<live, running>>

\* The running process gives back pages: they read as zero from then on.
Release(V) ==
    /\ running \in live
    /\ vmem' = [vmem EXCEPT ![running] =
                   [a \in VAddrs |-> IF a[1] \in V THEN Zero ELSE vmem[running][a]]]
    /\ UNCHANGED <<live, running>>

Delete(p) ==
    /\ p \in live
    /\ live' = live \ {p}
    /\ running' \in live'
    /\ running # p => running' = running
    /\ vmem' = [vmem EXCEPT ![p] = [a \in VAddrs |-> Zero]]

SwitchTo(p) ==
    /\ p \in live
    /\ running' = p
    /\ UNCHANGED <<live, vmem>>

Next ==
    \/ \E p \in Procs, n \in ImagePages, last \in 1 .. PageSize :
        \E k \in 0 .. n : Create(p, n, k, last)
    \/ \E a \in VAddrs : Write(a)
    \/ \E V \in SUBSET VPages : Release(V)
    \/ \E p \in Procs : Delete(p)
    \/ \E p \in Procs : SwitchTo(p)

Spec == Init /\ [][Next]_vars

====
