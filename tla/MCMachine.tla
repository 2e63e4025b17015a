---- MODULE MCMachine ----
(***************************************************************************)
(* Bounds for TLC: enough keys to fill the command line, edit it and enter *)
(* two commands, and periods of 0, 1 and 2 cycles.                         *)
(***************************************************************************)
EXTENDS Machine

====
