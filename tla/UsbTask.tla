------------------------------- MODULE UsbTask -------------------------------
(***************************************************************************)
(* UsbTask (common/src/usb_task.cpp): the transmitting task, and the       *)
(* callbacks of the USB device library that runs the endpoints, which is   *)
(* not part of the repository.                                             *)
(*                                                                         *)
(* The task packs messages into txBuf, starts a transfer and waits for the *)
(* notification of its completion.  The length of the transfer is kept by  *)
(* the library, and a transfer may end short of it.  Assumed: the host     *)
(* configures the device once, before it sends anything, and no transfer   *)
(* ends with nothing sent (critical, which stops the program).  Lengths    *)
(* count half messages instead of bytes, so a transfer can end within one. *)
(* Bound of the model: MaxReceived, below the 2^32 where the total wraps.  *)
(***************************************************************************)
EXTENDS Naturals, Sequences

CONSTANTS
  Messages,      \* what is written to the task
  TSize,         \* messages that fit in txBuf
  MaxReceived    \* packets received from the host

VARIABLES
  txMsgBuf,
  txBuf,             \* the messages packed, the transfer's memory
  txLen,             \* length the task asked for; 0 before
  usbTxLength,       \* TxLength of the library
  txState,           \* TRUE: a transfer is in progress
  txTask,            \* what txFunc does: read, pack, link, set, transmit, wait
  notification,      \* notification value of txFunc
  rxReceivedTotal,
  sent,              \* messages received whole by the host
  places,            \* history: the place of each of sent among all that left txBuf
  gone,              \* history: how many messages have left txBuf
  unwarned           \* history: a transfer ended short and txFunc has not said so

txVars == <<txBuf, txLen, txTask>>
libraryVars == <<usbTxLength, txState, sent>>
lossVars == <<places, gone, unwarned>>
usbVars == <<txVars, libraryVars, notification, rxReceivedTotal, lossVars>>

Init ==
  /\ txMsgBuf = <<>>
  /\ txBuf = <<>>
  /\ txLen = 0
  /\ usbTxLength = 0
  /\ txState = FALSE
  /\ txTask = "read"
  /\ notification = 0
  /\ rxReceivedTotal = 0
  /\ sent = <<>>
  /\ places = <<>> /\ gone = 0 /\ unwarned = FALSE

(***************************************************************************)
(* txFunc.                                                                 *)
(***************************************************************************)
\* readAll: the first message, then every other one that is there and fits.
ReadFirst ==
  /\ txTask = "read"
  /\ txMsgBuf # <<>>
  /\ txBuf' = <<Head(txMsgBuf)>>
  /\ txMsgBuf' = Tail(txMsgBuf)
  /\ txTask' = "pack"
  /\ UNCHANGED <<txLen, libraryVars, notification, rxReceivedTotal, lossVars>>

ReadNext ==
  /\ txTask = "pack"
  /\ txMsgBuf # <<>>
  /\ Len(txBuf) < TSize
  /\ txBuf' = Append(txBuf, Head(txMsgBuf))
  /\ txMsgBuf' = Tail(txMsgBuf)
  /\ UNCHANGED <<txLen, txTask, libraryVars, notification, rxReceivedTotal, lossVars>>

ReadEnds ==
  /\ txTask = "pack"
  /\ txMsgBuf = <<>> \/ Len(txBuf) = TSize
  /\ txLen' = 2 * Len(txBuf)
  /\ txTask' = "link"
  /\ UNCHANGED <<txMsgBuf, txBuf, libraryVars, notification, rxReceivedTotal, lossVars>>

\* Nothing was received yet: what was packed is dropped.
SkipTransmit ==
  /\ txTask = "link"
  /\ rxReceivedTotal = 0
  /\ txTask' = "read"
  /\ gone' = gone + Len(txBuf)
  /\ UNCHANGED <<txMsgBuf, txBuf, txLen, libraryVars, notification, rxReceivedTotal>>
  /\ UNCHANGED <<places, unwarned>>

SetTxBufferUnlinked ==
  /\ txTask = "link"
  /\ ~txState
  /\ usbTxLength' = txLen
  /\ txTask' = "transmit"
  /\ UNCHANGED <<txMsgBuf, txBuf, txLen, txState, sent, notification, rxReceivedTotal, lossVars>>
\* A transfer still in progress would halt the program here (error).
SetTxBuffer ==
  /\ txTask = "link"
  /\ rxReceivedTotal > 0
  /\ ~txState
  /\ usbTxLength' = txLen
  /\ txTask' = "transmit"
  /\ UNCHANGED <<txMsgBuf, txBuf, txLen, txState, sent, notification, rxReceivedTotal, lossVars>>

TransmitPacket ==
  /\ txTask = "transmit"
  /\ ~txState
  /\ txState' = TRUE
  /\ txTask' = "wait"
  /\ UNCHANGED <<txMsgBuf, txBuf, txLen, usbTxLength, sent, notification, rxReceivedTotal, lossVars>>

TakeNotificationKept ==
  /\ txTask = "wait"
  /\ notification > 0
  /\ txTask' = "read"
  /\ unwarned' = (unwarned /\ notification = txLen)
  /\ UNCHANGED <<txMsgBuf, txBuf, txLen, libraryVars, notification, rxReceivedTotal, places, gone>>
\* A length below the one asked for is only warned of: the rest of txBuf is not
\* sent again.
TakeNotification ==
  /\ txTask = "wait"
  /\ notification > 0
  /\ notification' = 0
  /\ txTask' = "read"
  /\ unwarned' = (unwarned /\ notification = txLen)
  /\ UNCHANGED <<txMsgBuf, txBuf, txLen, libraryVars, rxReceivedTotal, places, gone>>

txFunc ==
  \/ ReadFirst \/ ReadNext \/ ReadEnds
  \/ SkipTransmit \/ SetTxBuffer \/ TransmitPacket \/ TakeNotification

(***************************************************************************)
(* Callbacks.                                                              *)
(***************************************************************************)
receiveCb ==
  /\ rxReceivedTotal < MaxReceived
  /\ rxReceivedTotal' = rxReceivedTotal + 1
  /\ UNCHANGED <<txMsgBuf, txVars, libraryVars, notification, lossVars>>

\* The transfer ends after len: the host has the messages of txBuf that lie
\* whole within it, and the rest is lost.  No bits are left of an earlier
\* notification, so setting the bits stores the length.  With no host there a
\* transfer never ends.
transmitCpltCb ==
  /\ txState
  /\ rxReceivedTotal > 0
  /\ txState' = FALSE
  /\ \E len \in 1 .. usbTxLength :
       /\ notification' = len
       /\ sent' = sent \o SubSeq(txBuf, 1, len \div 2)
       /\ places' = places \o [i \in 1 .. len \div 2 |-> gone + i]
       /\ unwarned' = (len # usbTxLength)
  /\ gone' = gone + Len(txBuf)
  /\ UNCHANGED <<txMsgBuf, txVars, usbTxLength, rxReceivedTotal>>

TypeOK ==
  /\ txMsgBuf \in Seq(Messages)
  /\ txBuf \in Seq(Messages) /\ Len(txBuf) <= TSize
  /\ txLen \in 0 .. 2 * TSize
  /\ usbTxLength \in 0 .. 2 * TSize
  /\ txState \in BOOLEAN
  /\ txTask \in {"read", "pack", "link", "transmit", "wait"}
  /\ txState => txTask = "wait" /\ usbTxLength = 2 * Len(txBuf)
  /\ notification \in 0 .. 2 * TSize
  /\ notification > 0 => txTask = "wait" /\ ~txState
  /\ rxReceivedTotal \in 0 .. MaxReceived
  /\ sent \in Seq(Messages)
  /\ gone \in Nat /\ places \in Seq(Nat) /\ Len(places) = Len(sent)
  /\ unwarned \in BOOLEAN
=============================================================================
