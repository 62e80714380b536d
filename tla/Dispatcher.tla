------------------------------ MODULE Dispatcher ------------------------------
(***************************************************************************)
(* The way of a packet into the target of vfd_bench: the receive interrupt *)
(* of UsbTask (receiveCb), PacketIntake with its parser, and the task that *)
(* routes packets (vfd_bench/custom/src/dispatcher_task.cpp).  The buffers *)
(* between them are one, and PacketOutput with UsbTask is the channel they *)
(* implement (PacketChannel), here without the packets of other tasks and  *)
(* without transfers that end short: the way back loses nothing.           *)
(***************************************************************************)
EXTENDS SerialBuffer

CONSTANTS
  RxSize,             \* size of rxMsgBuf
  OutputLen           \* packets that fit on the way back

VARIABLES
  tty,
  rxMsgBuf,
  packet,             \* what func has read, or nothing
  incoming            \* packets on the way back to the host

NoPacket == [id |-> "None"]

Init ==
  /\ rxMsgBuf = <<>>
  /\ packet = NoPacket

receiveCb ==
  /\ tty # <<>>
  /\ tty' = Tail(tty)
  /\ rxMsgBuf' = WithWhatFits(rxMsgBuf, RxSize, Head(tty))
  /\ UNCHANGED <<packet, incoming>>

\* The parser reports a piece in its place.  The errors it reports for gaps
\* in the numbers only go the way back, and are left out.
extractPackets(p) == IF p = Fragment THEN ParsingError ELSE p

ReadDropsCommand ==
  /\ packet.id \in {"None", "VfdSetFrequency"}
  /\ rxMsgBuf # <<>>
  /\ packet' = extractPackets(Head(rxMsgBuf))
  /\ rxMsgBuf' = Tail(rxMsgBuf)
  /\ UNCHANGED <<tty, incoming>>
Read ==
  /\ packet = NoPacket
  /\ rxMsgBuf # <<>>
  /\ packet' = extractPackets(Head(rxMsgBuf))
  /\ rxMsgBuf' = Tail(rxMsgBuf)
  /\ UNCHANGED <<tty, incoming>>

\* A write waits until there is room.  The queue of the VFD task is not a
\* variable here: the composition writes packet to it in the same step.
ToVfdTask ==
  /\ packet.id = "VfdSetFrequency"
  /\ packet' = NoPacket
  /\ UNCHANGED <<tty, rxMsgBuf, incoming>>

ToOutput ==
  /\ packet.id \notin {"None", "VfdSetFrequency"}
  /\ Len(incoming) < OutputLen
  /\ incoming' = Append(incoming, packet)
  /\ packet' = NoPacket
  /\ UNCHANGED <<tty, rxMsgBuf>>
===============================================================================
