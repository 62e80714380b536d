-------------------------------- MODULE UartTx --------------------------------
(***************************************************************************)
(* The transmit side of UartTasks (common/src/uart_tasks.cpp): a task      *)
(* packs messages into txDmaBuf, a DMA stream feeds them to the data       *)
(* register of the UART, and an interrupt tells the task when it may use   *)
(* the buffer again.                                                       *)
(*                                                                         *)
(* In full duplex that is the end of the DMA transfer, while the last      *)
(* bytes are still in the UART.  In half duplex it is the end of the       *)
(* transmission on the line, and a pin drives the line in between.         *)
(* Message buffers count messages; a byte is any value.                    *)
(***************************************************************************)
EXTENDS Naturals, Sequences

CONSTANTS
  Bytes,
  TSize,        \* sizeof(txDmaBuf)
  MsgBufLen     \* messages that fit in txMsgBuf

VARIABLES
  halfDuplex,   \* halfDuplexCallbacks was given
  txMsgBuf,     \* messages, each a sequence of bytes
  txDmaBuf,     \* what readAll packed
  txPc,         \* where txFunc is in its loop
  dmaLen,       \* data length set in the DMA stream
  dmaPos,       \* bytes it has moved of them
  streamOn,     \* the stream is enabled
  dmaTC, uartTC,\* transfer-complete flags of the DMA stream and of the UART
  notified,     \* notification value of the task is not 0
  driving,      \* the pin of txMode and rxMode
  dr, shift     \* data and shift register of the UART: empty or one byte

dmaVars == <<dmaLen, dmaPos, streamOn>>
uartVars == <<dr, shift>>
txVars == <<halfDuplex, txMsgBuf, txDmaBuf, txPc, dmaVars, dmaTC, uartTC,
            notified, driving, uartVars>>

Init ==
  /\ halfDuplex \in BOOLEAN
  /\ txMsgBuf = <<>> /\ txDmaBuf = <<>>
  /\ txPc = "read"
  /\ dmaLen = 0 /\ dmaPos = 0 /\ streamOn = FALSE
  /\ dmaTC = FALSE /\ uartTC = FALSE
  /\ notified = FALSE
  /\ driving = FALSE
  /\ dr = <<>> /\ shift = <<>>

-------------------------------------------------------------------------------
(* Another task calls write, which succeeds once there is room.               *)

write(msg) ==
  /\ Len(txMsgBuf) < MsgBufLen
  /\ txMsgBuf' = Append(txMsgBuf, msg)
  /\ UNCHANGED <<halfDuplex, txDmaBuf, txPc, dmaVars, dmaTC, uartTC, notified,
                 driving, uartVars>>

-------------------------------------------------------------------------------
(* txFunc *)

\* readAll: the first message, then every other one that is there and fits.
ReadFirst ==
  /\ txPc = "read"
  /\ txMsgBuf # <<>>
  /\ txDmaBuf' = Head(txMsgBuf)
  /\ txMsgBuf' = Tail(txMsgBuf)
  /\ txPc' = "pack"
  /\ UNCHANGED <<halfDuplex, dmaVars, dmaTC, uartTC, notified, driving, uartVars>>

\* Mutant: the message is fetched before its length is compared with the room.
NextFitsUnchecked == txMsgBuf # <<>>

NextFits == txMsgBuf # <<>> /\ Len(txDmaBuf) + Len(Head(txMsgBuf)) <= TSize

ReadNext ==
  /\ txPc = "pack"
  /\ NextFits
  /\ txDmaBuf' = txDmaBuf \o Head(txMsgBuf)
  /\ txMsgBuf' = Tail(txMsgBuf)
  /\ UNCHANGED <<halfDuplex, txPc, dmaVars, dmaTC, uartTC, notified, driving,
                 uartVars>>

\* Nothing more fits.  A stream that is still enabled is an error, which halts
\* the program; otherwise its length is set and the line is taken.
SetUp ==
  /\ txPc = "pack"
  /\ ~NextFits
  /\ IF streamOn
     THEN txPc' = "halted" /\ UNCHANGED <<dmaLen, dmaPos, driving>>
     ELSE /\ txPc' = "enable"
          /\ dmaLen' = Len(txDmaBuf) /\ dmaPos' = 0
          /\ driving' = halfDuplex
  /\ UNCHANGED <<halfDuplex, txMsgBuf, txDmaBuf, streamOn, dmaTC, uartTC,
                 notified, uartVars>>

\* A stream whose flags of the last transfer are still set cannot be enabled.
EnableStream ==
  /\ txPc = "enable"
  /\ streamOn' = ~dmaTC
  /\ txPc' = "wait"
  /\ UNCHANGED <<halfDuplex, txMsgBuf, txDmaBuf, dmaLen, dmaPos, dmaTC, uartTC,
                 notified, driving, uartVars>>

\* Mutant: the notification value is not cleared on exit.
TakeNotificationKept ==
  /\ txPc = "wait" /\ notified
  /\ txPc' = "turn"
  /\ UNCHANGED <<halfDuplex, txMsgBuf, txDmaBuf, dmaVars, dmaTC, uartTC, notified,
                 driving, uartVars>>

TakeNotification ==
  /\ txPc = "wait" /\ notified
  /\ notified' = FALSE
  /\ txPc' = "turn"
  /\ UNCHANGED <<halfDuplex, txMsgBuf, txDmaBuf, dmaVars, dmaTC, uartTC, driving,
                 uartVars>>

\* Mutant: the line is given back only when the next message is there.
TurnRoundLate ==
  /\ txPc = "turn"
  /\ txPc' = "read"
  /\ driving' = (driving /\ txMsgBuf = <<>>)
  /\ UNCHANGED <<halfDuplex, txMsgBuf, txDmaBuf, dmaVars, dmaTC, uartTC, notified,
                 uartVars>>

\* rxMode
TurnRound ==
  /\ txPc = "turn"
  /\ driving' = FALSE
  /\ txPc' = "read"
  /\ UNCHANGED <<halfDuplex, txMsgBuf, txDmaBuf, dmaVars, dmaTC, uartTC, notified,
                 uartVars>>

txFunc == \/ ReadFirst \/ ReadNext \/ SetUp \/ EnableStream
          \/ TakeNotification \/ TurnRound

-------------------------------------------------------------------------------
(* Hardware.  The DMA refills an empty data register well within the time a    *)
(* byte takes on the line, so the UART never runs dry during a transfer.       *)

DmaFeeds ==
  /\ streamOn /\ dr = <<>>
  /\ dr' = <<txDmaBuf[dmaPos + 1]>>
  /\ dmaPos' = dmaPos + 1
  /\ streamOn' = (dmaPos + 1 < dmaLen)
  /\ dmaTC' = (dmaTC \/ dmaPos + 1 = dmaLen)
  /\ UNCHANGED <<halfDuplex, txMsgBuf, txDmaBuf, txPc, dmaLen, uartTC, notified,
                 driving, shift>>

ShiftStarts ==
  /\ shift = <<>> /\ dr # <<>>
  /\ shift' = dr
  /\ dr' = <<>>
  /\ UNCHANGED <<halfDuplex, txMsgBuf, txDmaBuf, txPc, dmaVars, dmaTC, uartTC,
                 notified, driving>>

\* The byte in the shift register is on the line; the far end takes it.
ShiftEnds ==
  /\ shift # <<>>
  /\ dr # <<>> \/ ~streamOn
  /\ shift' = <<>>
  /\ uartTC' = (uartTC \/ dr = <<>>)
  /\ UNCHANGED <<halfDuplex, txMsgBuf, txDmaBuf, txPc, dmaVars, dmaTC, notified,
                 driving, dr>>

-------------------------------------------------------------------------------
(* Interrupts *)

\* Enabled in full duplex only.
dmaTxCallback ==
  /\ ~halfDuplex /\ dmaTC
  /\ dmaTC' = FALSE
  /\ notified' = TRUE
  /\ UNCHANGED <<halfDuplex, txMsgBuf, txDmaBuf, txPc, dmaVars, uartTC, driving,
                 uartVars>>

\* Mutant: the flag of the DMA is forgotten.
uartTcCallbackDmaForgotten ==
  /\ halfDuplex /\ uartTC
  /\ uartTC' = FALSE
  /\ notified' = TRUE
  /\ UNCHANGED <<halfDuplex, txMsgBuf, txDmaBuf, txPc, dmaVars, dmaTC, driving,
                 uartVars>>

\* The part of uartCallback that is about the end of a transmission.
uartTcCallback ==
  /\ halfDuplex /\ uartTC
  /\ uartTC' = FALSE
  /\ dmaTC' = FALSE
  /\ notified' = TRUE
  /\ UNCHANGED <<halfDuplex, txMsgBuf, txDmaBuf, txPc, dmaVars, driving, uartVars>>

-------------------------------------------------------------------------------
\* The bytes of the transfer that the UART does not have yet.
Unmoved ==
  CASE txPc \in {"pack", "enable"} -> txDmaBuf
    [] txPc = "wait" -> SubSeq(txDmaBuf, dmaPos + 1, dmaLen)
    [] OTHER -> <<>>

\* Every interrupt of a finished transmission was served and the task has done
\* what it then had to do: it waits for data, or for a transmission to end.
TxTaskHasRun ==
  /\ ~(halfDuplex /\ uartTC)
  /\ txPc = "read" \/ (txPc = "wait" /\ ~notified)

TypeOK ==
  /\ halfDuplex \in BOOLEAN
  /\ txMsgBuf \in Seq(Seq(Bytes)) /\ Len(txMsgBuf) <= MsgBufLen
  /\ txDmaBuf \in Seq(Bytes) /\ Len(txDmaBuf) <= TSize
  /\ txPc \in {"read", "pack", "enable", "wait", "turn"}
  /\ dmaLen \in 0 .. TSize /\ dmaPos \in 0 .. dmaLen
  /\ streamOn \in BOOLEAN /\ dmaTC \in BOOLEAN /\ uartTC \in BOOLEAN
  /\ notified \in BOOLEAN /\ driving \in BOOLEAN
  /\ \A r \in {dr, shift} : r = <<>> \/ \E b \in Bytes : r = <<b>>
===============================================================================
