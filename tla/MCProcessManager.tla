---- MODULE MCProcessManager ----
(***************************************************************************)
(* Bounds for TLC: the idle process and as many others as there are        *)
(* structs, a quantum of two ticks, and pids far below their width.        *)
(***************************************************************************)
EXTENDS ProcessManager, TLC

Symmetry == Permutations(Procs)

====
