----------------------------- MODULE OutputPath -----------------------------
(***************************************************************************)
(* The way of a packet from the tasks to the host, as main.cpp of          *)
(* vfd_bench connects it: PacketOutput writes to the message buffer of     *)
(* UsbTask.  Shown to implement PacketChannel.                             *)
(***************************************************************************)
EXTENDS Naturals, Sequences

CONSTANTS Writers, NoWriter, MaxPackets, Malformed, MsgbufLen, TargetLen, SequenceNumbers,
          TSize, MaxReceived

ASSUME WritersAssumption == NoWriter \notin Writers
ASSUME LengthsAssumption ==
  /\ {MaxPackets, MsgbufLen, TargetLen, SequenceNumbers, TSize} \subseteq Nat \ {0}
  /\ MaxReceived \in Nat

VARIABLES written, writing, writeMutex, msgbuf, wrap, num,
          txMsgBuf,
          txBuf, txLen, usbTxLength, txState, txTask, notification, rxReceivedTotal, sent,
          places, gone, unwarned

Output == INSTANCE PacketOutput WITH target <- txMsgBuf
Usb == INSTANCE UsbTask WITH Messages <- Output!Wrapped

outputVars == <<written, writing, writeMutex, msgbuf, wrap, num>>
usbVars == <<txBuf, txLen, usbTxLength, txState, txTask, notification, rxReceivedTotal, sent,
             places, gone, unwarned>>
vars == <<outputVars, txMsgBuf, usbVars>>

Init == Output!Init /\ Usb!Init

\* The packets on their way, the next one to arrive first.
PacketsOf(messages) == [i \in DOMAIN messages |-> messages[i][1]]
InTxBuf == IF txState \/ txTask \in {"pack", "link", "transmit"} THEN txBuf ELSE <<>>
InWrap == IF wrap = <<>> THEN <<>> ELSE <<wrap>>
OnTheWay == PacketsOf(InTxBuf \o txMsgBuf \o InWrap) \o msgbuf

\* All is written and nothing is on its way: every wait times out and starts over.
Idle ==
  /\ \A w \in Writers : written[w] = MaxPackets
  /\ OnTheWay = <<>>
  /\ UNCHANGED vars

Next ==
  \/ (\E w \in Writers : Output!write(w)) /\ UNCHANGED usbVars
  \/ Output!func /\ UNCHANGED usbVars
  \/ (Usb!txFunc \/ Usb!receiveCb \/ Usb!transmitCpltCb) /\ UNCHANGED outputVars
  \/ Idle

\* Tasks of one priority share the processor; the host takes what is sent.
Fairness ==
  /\ \A w \in Writers : WF_vars(Output!write(w) /\ UNCHANGED usbVars)
  /\ WF_vars(Output!func /\ UNCHANGED usbVars)
  /\ WF_vars(Usb!txFunc /\ UNCHANGED outputVars)
  /\ WF_vars(Usb!transmitCpltCb /\ UNCHANGED outputVars)

Spec == Init /\ [][Next]_vars /\ Fairness

----------------------------------------------------------------------------
(* Properties.                                                              *)

TypeOK == Output!TypeOK /\ Usb!TypeOK

\* Whatever the writers, the output task and the USB interrupts do at the same
\* time, the way to the host is the channel: no packet is doubled or overtaken,
\* and once the host was heard of (receiveCb) none is lost but a malformed one and
\* the tail of a transfer that ends short (transmitCpltCb), which txFunc warns
\* of before the next transfer ends.
Channel == INSTANCE PacketChannel WITH
  accepted <- written,
  queue <- OnTheWay,
  delivered <- PacketsOf(sent),
  listening <- rxReceivedTotal > 0
ImplementsChannel == Channel!ChannelSpec

\* The sequence numbers (num) of what the host receives tell it how many packets
\* it misses: from one packet to the next they advance by one, and by one more
\* for every packet that a short transfer lost in between.  A packet that is
\* dropped at the output uses no number.
NumbersFollow ==
  \A i \in 1 .. Len(sent) - 1 :
    sent[i + 1][2] = (sent[i][2] + (places[i + 1] - places[i])) % SequenceNumbers

\* While the library reads txBuf (txState), nothing is packed into it.
BufferHeld == [][txState => txBuf' = txBuf]_vars

\* Every writer gets rid of its packets, and all of them leave the target, with
\* or without a host (write, txFunc).
PathEmpties ==
  <>[](/\ OnTheWay = <<>>
       /\ \A w \in Writers : written[w] = MaxPackets)
=============================================================================
