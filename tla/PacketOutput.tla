---------------------------- MODULE PacketOutput ----------------------------
(***************************************************************************)
(* PacketOutput (common/src/packet_flow_tasks.cpp): several tasks write    *)
(* packets into one message buffer under a mutex; the output task checks   *)
(* each, numbers it and writes it to the target, another message buffer.   *)
(*                                                                         *)
(* A packet is <<writer, how many it has written>>.  Both buffers count    *)
(* packets instead of bytes.  Bounds of the model: MaxPackets, the lengths *)
(* of the buffers, and SequenceNumbers, 2^32 in the code.                  *)
(***************************************************************************)
EXTENDS Naturals, Sequences

CONSTANTS
  Writers,          \* tasks that write to the output
  NoWriter,
  MaxPackets,       \* packets of each writer
  Malformed,        \* packets whose length does not fit their id
  MsgbufLen,        \* packets that fit in msgbuf
  TargetLen,        \* wrapped packets that fit in the target
  SequenceNumbers

Packets == Writers \X (1 .. MaxPackets)
Wrapped == Packets \X (0 .. SequenceNumbers - 1)

VARIABLES
  written,    \* packets each writer has got rid of
  writing,    \* where each writer is: no, locked or copying
  writeMutex, \* its holder
  msgbuf,
  wrap,       \* the numbered packet the output task holds, or <<>>
  num,        \* of the PacketSequencer
  target      \* the buffer of the target, as wrapped packets

writerVars == <<written, writing, writeMutex>>

Init ==
  /\ written = [w \in Writers |-> 0]
  /\ writing = [w \in Writers |-> "no"]
  /\ writeMutex = NoWriter
  /\ msgbuf = <<>>
  /\ wrap = <<>>
  /\ num = 0
  /\ target = <<>>

(***************************************************************************)
(* PacketOutput::write, called by TaskUtilities::write until it succeeds.  *)
(* A wait for the mutex that times out starts over and changes nothing.    *)
(* msgbuf.write, meant for one writer, finds room first and copies then.   *)
(***************************************************************************)
LockUnchecked(w) ==
  /\ written[w] < MaxPackets
  /\ writing[w] = "no"
  /\ writing' = [writing EXCEPT ![w] = "locked"]
  /\ writeMutex' = w
  /\ UNCHANGED <<written, msgbuf, wrap, num, target>>
Lock(w) ==
  /\ written[w] < MaxPackets
  /\ writing[w] = "no"
  /\ writeMutex = NoWriter
  /\ writing' = [writing EXCEPT ![w] = "locked"]
  /\ writeMutex' = w
  /\ UNCHANGED <<written, msgbuf, wrap, num, target>>

FindRoom(w) ==
  /\ writing[w] = "locked"
  /\ Len(msgbuf) < MsgbufLen
  /\ writing' = [writing EXCEPT ![w] = "copying"]
  /\ UNCHANGED <<written, writeMutex, msgbuf, wrap, num, target>>

\* The packet is in the buffer, and the scoped lock ends.
Send(w) ==
  /\ writing[w] = "copying"
  /\ msgbuf' = Append(msgbuf, <<w, written[w] + 1>>)
  /\ written' = [written EXCEPT ![w] = @ + 1]
  /\ writing' = [writing EXCEPT ![w] = "no"]
  /\ writeMutex' = NoWriter
  /\ UNCHANGED <<wrap, num, target>>

\* No room within the timeout: the mutex is given back before the next try.
SendTimesOutUnnoticed(w) ==
  /\ writing[w] = "locked"
  /\ Len(msgbuf) = MsgbufLen
  /\ writing' = [writing EXCEPT ![w] = "no"]
  /\ written' = [written EXCEPT ![w] = @ + 1]
  /\ writeMutex' = NoWriter
  /\ UNCHANGED <<msgbuf, wrap, num, target>>
SendTimesOut(w) ==
  /\ writing[w] = "locked"
  /\ Len(msgbuf) = MsgbufLen
  /\ writing' = [writing EXCEPT ![w] = "no"]
  /\ writeMutex' = NoWriter
  /\ UNCHANGED <<written, msgbuf, wrap, num, target>>

write(w) == Lock(w) \/ FindRoom(w) \/ Send(w) \/ SendTimesOut(w)

(***************************************************************************)
(* PacketOutput::func.                                                     *)
(***************************************************************************)
DropPacketNumbered ==
  /\ wrap = <<>>
  /\ msgbuf # <<>>
  /\ Head(msgbuf) \in Malformed
  /\ msgbuf' = Tail(msgbuf)
  /\ num' = (num + 1) % SequenceNumbers
  /\ UNCHANGED <<writerVars, wrap, target>>
DropPacket ==
  /\ wrap = <<>>
  /\ msgbuf # <<>>
  /\ Head(msgbuf) \in Malformed
  /\ msgbuf' = Tail(msgbuf)
  /\ UNCHANGED <<writerVars, wrap, num, target>>

\* The sequencer numbers the packet before it waits for the target.
Rewrap ==
  /\ wrap = <<>>
  /\ msgbuf # <<>>
  /\ Head(msgbuf) \notin Malformed
  /\ wrap' = <<Head(msgbuf), num>>
  /\ num' = (num + 1) % SequenceNumbers
  /\ msgbuf' = Tail(msgbuf)
  /\ UNCHANGED <<writerVars, target>>

WriteTarget ==
  /\ wrap # <<>>
  /\ Len(target) < TargetLen
  /\ target' = Append(target, wrap)
  /\ wrap' = <<>>
  /\ UNCHANGED <<writerVars, msgbuf, num>>

func == DropPacket \/ Rewrap \/ WriteTarget

TypeOK ==
  /\ written \in [Writers -> 0 .. MaxPackets]
  /\ writeMutex \in Writers \union {NoWriter}
  /\ writing \in [Writers -> {"no", "locked", "copying"}]
  /\ \A w \in Writers : writing[w] # "no" <=> writeMutex = w
  /\ msgbuf \in Seq(Packets) /\ Len(msgbuf) <= MsgbufLen
  /\ wrap \in Wrapped \union {<<>>}
  /\ num \in 0 .. SequenceNumbers - 1
  /\ target \in Seq(Wrapped) /\ Len(target) <= TargetLen
=============================================================================
