------------------------------ MODULE Throughput ------------------------------
(***************************************************************************)
(* host_apps/throughput/main.cpp: sends numbered packets at a steady rate, *)
(* counts those that come back and reports losses.  The port is not        *)
(* blocking.  Time counts in usBetweenPackets; printing is left out.       *)
(* Bound of the model: MaxPackets are due in all.                          *)
(***************************************************************************)
EXTENDS SerialBuffer

CONSTANTS TtySize, MaxPackets

VARIABLES
  tty,                \* written and not sent yet
  incoming,           \* packets that can be read from the port
  t, nextPacketEvent,
  outId, outPktCount,
  lastInId, inPktCount

throughputVars == <<t, nextPacketEvent, outId, outPktCount, lastInId, inPktCount>>

\* As the commander does: the port is flushed both ways.
setupSerial == tty = <<>> /\ incoming = <<>>

Init ==
  /\ setupSerial
  /\ t = 0 /\ nextPacketEvent = 0
  /\ outId = 0 /\ outPktCount = 0
  /\ lastInId = 0 /\ inPktCount = 0

TimePasses ==
  /\ t < MaxPackets - 1
  /\ t' = t + 1
  /\ UNCHANGED <<tty, incoming, nextPacketEvent, outId, outPktCount, lastInId, inPktCount>>

WritePacket ==
  /\ t >= nextPacketEvent
  /\ Fits(tty, TtySize, DummyPacket(outId))
  /\ tty' = Append(tty, DummyPacket(outId))
  /\ outPktCount' = outPktCount + 1
  /\ outId' = outId + 1
  /\ nextPacketEvent' = nextPacketEvent + 1
  /\ UNCHANGED <<incoming, t, lastInId, inPktCount>>

\* The packet was written in part: it is due again, whole and with the same
\* number.  (An error, with nothing written, changes nothing.)
WriteFailsDropped ==
  /\ t >= nextPacketEvent
  /\ ~Fits(tty, TtySize, DummyPacket(outId))
  /\ tty' = WithWhatFits(tty, TtySize, DummyPacket(outId))
  /\ nextPacketEvent' = nextPacketEvent + 1
  /\ UNCHANGED <<incoming, t, outId, outPktCount, lastInId, inPktCount>>
WriteFailsCounted ==
  /\ t >= nextPacketEvent
  /\ ~Fits(tty, TtySize, DummyPacket(outId))
  /\ tty' = WithWhatFits(tty, TtySize, DummyPacket(outId))
  /\ outPktCount' = outPktCount + 1
  /\ outId' = outId + 1
  /\ nextPacketEvent' = nextPacketEvent + 1
  /\ UNCHANGED <<incoming, t, lastInId, inPktCount>>
WriteFails ==
  /\ t >= nextPacketEvent
  /\ ~Fits(tty, TtySize, DummyPacket(outId))
  /\ tty' = WithWhatFits(tty, TtySize, DummyPacket(outId))
  /\ UNCHANGED <<incoming, throughputVars>>

\* Reports of the target's parser come back too, and are printed only.
processPacket ==
  /\ incoming # <<>>
  /\ incoming' = Tail(incoming)
  /\ IF Head(incoming).id = "DummyPacket"
     THEN /\ inPktCount' = inPktCount + 1
          /\ lastInId' = Head(incoming).outId
     ELSE UNCHANGED <<inPktCount, lastInId>>
  /\ UNCHANGED <<tty, t, nextPacketEvent, outId, outPktCount>>

main == WritePacket \/ WriteFails \/ processPacket

\* The numbers of the report.
Dropped == lastInId + 1 - inPktCount
Pending == outPktCount - 1 - lastInId
===============================================================================
