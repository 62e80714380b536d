----------------------------- MODULE SerialBuffer -----------------------------
(***************************************************************************)
(* Bounded byte buffers between the host and the target, at the level of   *)
(* packets: the tty of the host, and the receive buffer of UsbTask.  What  *)
(* does not fit of a packet is cut off; the parser reports the piece that  *)
(* is left and finds the next packet behind it (PacketParser).  A packet   *)
(* takes two units, a piece one.                                           *)
(***************************************************************************)
EXTENDS Integers, Sequences, FiniteSets

Fragment == [id |-> "Fragment"]
ParsingError == [id |-> "ParsingError"]
DummyPacket(outId) == [id |-> "DummyPacket", outId |-> outId]
Heartbeat == [id |-> "Heartbeat"]
VfdSetFrequency(node, frequency) ==
  [id |-> "VfdSetFrequency", node |-> node, frequency |-> frequency]

Pieces(buf) == {i \in DOMAIN buf : buf[i] = Fragment}
Space(buf, capacity) == capacity - 2 * Len(buf) + Cardinality(Pieces(buf))

Fits(buf, capacity, p) == Space(buf, capacity) >= IF p = Fragment THEN 1 ELSE 2

\* The buffer after as much of p as fits was written to it.
WithWhatFits(buf, capacity, p) ==
  IF Fits(buf, capacity, p) THEN Append(buf, p)
  ELSE IF Space(buf, capacity) > 0 THEN Append(buf, Fragment)
  ELSE buf
===============================================================================
