---- MODULE MCVirtualMemory ----
(***************************************************************************)
(* Bounds for TLC: two process structs, so that every frame one of them    *)
(* gives up can be taken by the other; three frames beyond the reserved    *)
(* two, fewer than two programs can ask for; and pages of two words, so    *)
(* that a last page can be half full.                                      *)
(***************************************************************************)
EXTENDS VirtualMemory, TLC

Symmetry == Permutations(Procs)

====
