------------------------------ MODULE SerialLine ------------------------------
(***************************************************************************)
(* A serial line from a task that writes messages to a task that reads     *)
(* bytes, as main.cpp of loopback wires it: Producer, UartTasks, the wire, *)
(* a Coupling, and the reader of the Coupling's destination.  The receive  *)
(* side is UartRx for a task that keeps up: it hands on each byte.         *)
(*                                                                         *)
(* In half duplex the line is also that of vfd_bench: the writer is a      *)
(* Modbus master and a drive at the far end answers on the same wires.     *)
(* Bound of the model: the messages are those of Lengths.                  *)
(***************************************************************************)
EXTENDS Naturals, SequencesExt

CONSTANTS
  Lengths,      \* length of each message
  TSize, MsgBufLen, BufSize, DstSize

ASSUME SizesAssumption ==
  /\ {TSize, MsgBufLen, BufSize, DstSize} \subseteq Nat \ {0}
  /\ Lengths \in Seq(1 .. TSize)

VARIABLES
  halfDuplex, txMsgBuf, txDmaBuf, txPc, dmaLen, dmaPos, streamOn, dmaTC, uartTC,
  notified, driving, dr, shift,
  rxStreamBuf,    \* what the far end received and nobody has read
  buf, written, dst,
  sequenceNum,    \* of the Producer: messages written
  peer,           \* the drive: silent, asked or answering
  delivered       \* read from the destination

\* A byte is its message and its place in it.
Bytes == {<<m, i>> : m \in 1 .. Len(Lengths), i \in 1 .. TSize}

Tx == INSTANCE UartTx
Copy == INSTANCE Coupling WITH src <- rxStreamBuf

txVars == <<halfDuplex, txMsgBuf, txDmaBuf, txPc, dmaLen, dmaPos, streamOn, dmaTC,
            uartTC, notified, driving, dr, shift>>
copyVars == <<buf, written, dst>>
vars == <<txVars, rxStreamBuf, copyVars, sequenceNum, peer, delivered>>

Init ==
  /\ Tx!Init /\ Copy!Init
  /\ sequenceNum = 0
  /\ peer = "silent"
  /\ delivered = <<>>

Message(m) == [i \in 1 .. Lengths[m] |-> <<m, i>>]

\* Everything between the writer and the reader, the next byte to arrive first.
InUart == shift \o dr \o Tx!Unmoved
OnTheWay == dst \o Copy!Unwritten \o rxStreamBuf \o InUart \o FlattenSeq(txMsgBuf)

\* Producer: util.write until it succeeds, then the next number.  A Modbus master
\* writes its next request when the last one was sent and answered or given up.
Produce ==
  /\ sequenceNum < Len(Lengths)
  /\ halfDuplex => peer = "silent" /\ txMsgBuf = <<>> /\ InUart = <<>>
  /\ Tx!write(Message(sequenceNum + 1))
  /\ sequenceNum' = sequenceNum + 1
  /\ UNCHANGED <<rxStreamBuf, copyVars, peer, delivered>>

Transmit ==
  /\ Tx!txFunc \/ Tx!DmaFeeds \/ Tx!ShiftStarts
  /\ UNCHANGED <<rxStreamBuf, copyVars, sequenceNum, peer, delivered>>

Interrupt ==
  /\ Tx!dmaTxCallback \/ Tx!uartTcCallback
  /\ UNCHANGED <<rxStreamBuf, copyVars, sequenceNum, peer, delivered>>

\* A byte arrives; after the last one a drive has been asked.
Arrive ==
  /\ Tx!ShiftEnds
  /\ rxStreamBuf' = rxStreamBuf \o shift
  /\ peer' = IF halfDuplex /\ dr = <<>> THEN "asked" ELSE peer
  /\ UNCHANGED <<copyVars, sequenceNum, delivered>>

\* The drive waits for the line to be silent for longer than an interrupt and
\* the switch to the transmit task, the one of the highest priority, take.
PeerAnswers ==
  /\ peer = "asked"
  /\ Tx!TxTaskHasRun
  /\ peer' = "answering"
  /\ UNCHANGED <<txVars, rxStreamBuf, copyVars, sequenceNum, delivered>>

\* The answer ends, or there is none.
PeerSilent ==
  /\ peer # "silent"
  /\ peer' = "silent"
  /\ UNCHANGED <<txVars, rxStreamBuf, copyVars, sequenceNum, delivered>>

CopyBytes ==
  /\ Copy!func
  /\ UNCHANGED <<txVars, sequenceNum, peer, delivered>>

Consume ==
  /\ dst # <<>>
  /\ \E n \in 1 .. Len(dst) :
       /\ delivered' = delivered \o SubSeq(dst, 1, n)
       /\ dst' = SubSeq(dst, n + 1, Len(dst))
  /\ UNCHANGED <<txVars, rxStreamBuf, buf, written, sequenceNum, peer>>

\* The transmit task waits for data or for a notification, and the wait times out
\* and starts over.
TimesOut ==
  /\ \/ txPc = "read" /\ txMsgBuf = <<>>
     \/ txPc = "wait" /\ ~notified
  /\ UNCHANGED vars

Next == Produce \/ Transmit \/ Interrupt \/ Arrive \/ PeerAnswers \/ PeerSilent
        \/ CopyBytes \/ Consume \/ TimesOut

\* Every task gets its turn, interrupts are served, the hardware goes on, and an
\* exchange with a drive ends, if by a timeout.
Fairness ==
  /\ WF_vars(Produce) /\ WF_vars(Transmit) /\ WF_vars(Interrupt) /\ WF_vars(Arrive)
  /\ WF_vars(PeerSilent) /\ WF_vars(CopyBytes) /\ WF_vars(Consume)

Spec == Init /\ [][Next]_vars /\ Fairness

-------------------------------------------------------------------------------
(* Properties *)

TypeOK ==
  /\ Tx!TypeOK
  /\ written \in 0 .. Len(buf) /\ Len(buf) <= BufSize
  /\ Len(dst) <= DstSize
  /\ {buf, dst, rxStreamBuf, delivered} \subseteq Seq(Bytes)
  /\ sequenceNum \in 0 .. Len(Lengths)
  /\ peer \in {"silent", "asked", "answering"}

\* Each byte that was written comes out once and in order, though txDmaBuf is
\* filled again while the last bytes of the transfer before are still in the
\* UART, and though the Coupling's writes are cut at any place.
Channel == INSTANCE ByteChannel WITH Item <- Bytes, onTheWay <- OnTheWay
ImplementsChannel == Channel!ChannelSpec

\* In half duplex the line is driven while a byte is sent (txMode, rxMode), and
\* never by both ends: it is given back before a drive begins to answer.
OneEndDrives ==
  /\ halfDuplex /\ shift # <<>> => driving
  /\ peer = "answering" => ~driving

\* What was written arrives in the end, and the line listens again: no interrupt
\* is lost, no transfer is left waiting, no part of a chunk is forgotten.
EverythingArrives == <>[](sequenceNum = Len(Lengths) /\ OnTheWay = <<>> /\ ~driving)
===============================================================================
