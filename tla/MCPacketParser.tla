---------------------------- MODULE MCPacketParser ----------------------------
(***************************************************************************)
(* A small instance of PacketParser: a one-byte wrapper, packets of one or *)
(* two bytes, a buffer of two longest packets as in packet_flow_tasks.h,   *)
(* and every stream of at most StreamLen bytes over the headers below.     *)
(* The real lengths are those of PacketLayout.                             *)
(***************************************************************************)
EXTENDS PacketParser, PacketLayout

\* One header per branch of extractPackets; good packets of both lengths, with
\* the expected number, a gap, and the number after which numbering wraps.
MCHeaders ==
    { [kind |-> "noise",  len |-> 1, seq |-> 0],
      [kind |-> "badId",  len |-> 1, seq |-> 0],
      [kind |-> "badCrc", len |-> 2, seq |-> 0],
      [kind |-> "good",   len |-> 1, seq |-> 1],
      [kind |-> "good",   len |-> 2, seq |-> 2],
      [kind |-> "good",   len |-> 1, seq |-> 0] }
===============================================================================
