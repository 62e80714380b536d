----------------------------- MODULE MCWatchdog -----------------------------
(* Watchdog for TLC: interchangeable tasks, constants from the .cfg files.   *)
EXTENDS Watchdog, TLC

Symmetry == Permutations(Tasks)
=============================================================================
