---------------------------- MODULE MCVfdControl ----------------------------
(* VfdControl for TLC: broadcast and two drives, as numNodes in vfd_task.cpp. *)
EXTENDS VfdControl

Frequencies == 0 .. 2
=============================================================================
