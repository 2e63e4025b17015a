---- MODULE MCKernel ----
(***************************************************************************)
(* Bounds for TLC: the idle process and two user programs, over so few     *)
(* frames that they compete for them.                                      *)
(***************************************************************************)
EXTENDS OperatingSystem, TLC

Symmetry == Permutations(Procs)

====
