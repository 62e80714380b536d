-------------------------------- MODULE UartRx --------------------------------
(***************************************************************************)
(* The receive side of UartTasks (common/src/uart_tasks.cpp): DMA writes   *)
(* arriving bytes into a circular buffer, interrupts notify the rx task at *)
(* half and full buffer and when the line falls idle, and the task copies  *)
(* what is new to a stream buffer that another task reads.                 *)
(*                                                                         *)
(* A byte is known by the lap of the DMA and the index it was written at.  *)
(* Interrupt flags are levels that coalesce, the notification value        *)
(* coalesces again, and the task reads the DMA index some time after it    *)
(* has taken its notification: all the interleavings of the three.         *)
(***************************************************************************)
EXTENDS Integers, Sequences

CONSTANTS
    BufLen,         \* sizeof(rxDmaBuf)
    StreamSize,     \* TSize of rxStreamBuf
    MaxLaps,        \* bound: how often the DMA may pass the end of its buffer
    MaxLag,         \* how many bytes the DMA gets ahead of what the task copied
    ReaderStalls,   \* may a write wait so long for its reader that it times out
    IsrLatency      \* may the task take a step while an interrupt is due

ASSUME BufferAssumption ==
    /\ BufLen \in Nat \ {0, 1}
    /\ StreamSize \in Nat \ {0}
    /\ MaxLaps \in Nat
    /\ MaxLag \in Nat
    /\ ReaderStalls \in BOOLEAN
    /\ IsrLatency \in BOOLEAN

VARIABLES
    lap, idx,       \* the DMA: completed laps, next index to be written
    halfFlag,       \* DMA half-transfer flag
    fullFlag,       \* DMA transfer-complete flag
    lineBusy,       \* bytes have arrived since the line was last idle
    idleFlag,       \* UART idle-line flag
    notified,       \* the task's notification value is not 0
    rollover,       \* ... and has rxRolloverFlag set
    pc,             \* where rxFunc is in its loop
    sawRollover,    \* rxFunc: notifyValue >= rxRolloverFlag
    oldIdx, newIdx, \* rxFunc's locals
    lostBuffers,    \* rxFunc: rollovers notified less rollovers handled
    handedOn,       \* every byte written to rxStreamBuf so far
    consumed,       \* how many of those its reader has taken
    lapRead,        \* lap of the DMA when newIdx was read
    lapDone,        \* lapRead of the last turn that was finished
    handled         \* how often the task took lostBuffers down

dma == <<lap, idx, halfFlag, fullFlag, lineBusy, idleFlag>>
turn == <<sawRollover, oldIdx, newIdx, lostBuffers, lapRead, lapDone, handled>>
vars == <<dma, notified, rollover, pc, turn, handedOn, consumed>>

Stages == {"wait", "index", "straight", "tail", "head", "settle"}

-------------------------------------------------------------------------------
(* Helpers *)

\* What rxDmaBuf[i] holds: the byte of this lap, or still that of the lap before.
Slot(i) == IF i < idx THEN <<lap, i>> ELSE <<lap - 1, i>>

Chunk(from, n) == [k \in 1 .. n |-> Slot(from + k - 1)]

\* Bytes that have arrived and that the task has not finished with.
Lag == (lap - lapDone) * BufLen + idx - oldIdx

Free == StreamSize - (Len(handedOn) - consumed)

Init ==
    /\ lap = 0 /\ idx = 0
    /\ halfFlag = FALSE /\ fullFlag = FALSE
    /\ lineBusy = FALSE /\ idleFlag = FALSE
    /\ notified = FALSE /\ rollover = FALSE
    /\ pc = "wait"
    /\ sawRollover = FALSE
    /\ oldIdx = 0 /\ newIdx = 0
    /\ lostBuffers = 0
    /\ handedOn = <<>> /\ consumed = 0
    /\ lapRead = 0 /\ lapDone = 0 /\ handled = 0

-------------------------------------------------------------------------------
(* Hardware: circular DMA, line-idle detection *)

ByteArrives ==
    /\ lap < MaxLaps
    /\ Lag < MaxLag
    /\ lineBusy' = TRUE
    /\ idx' = (idx + 1) % BufLen
    /\ lap' = IF idx + 1 = BufLen THEN lap + 1 ELSE lap
    /\ halfFlag' = (halfFlag \/ idx + 1 = BufLen \div 2)
    /\ fullFlag' = (fullFlag \/ idx + 1 = BufLen)
    /\ UNCHANGED <<idleFlag, notified, rollover, pc, turn, handedOn, consumed>>

LineFallsIdle ==
    /\ lineBusy
    /\ lineBusy' = FALSE
    /\ idleFlag' = TRUE
    /\ UNCHANGED <<lap, idx, halfFlag, fullFlag, notified, rollover, pc, turn,
                   handedOn, consumed>>

-------------------------------------------------------------------------------
(* Interrupts *)

dmaRxCallback ==
    /\ halfFlag \/ fullFlag
    /\ halfFlag' = FALSE /\ fullFlag' = FALSE
    /\ notified' = TRUE
    /\ rollover' = (rollover \/ fullFlag)
    /\ UNCHANGED <<lap, idx, lineBusy, idleFlag, pc, turn, handedOn, consumed>>

\* Mutant: the idle line is acknowledged, the task is not told.
uartCallbackSilent ==
    /\ idleFlag
    /\ idleFlag' = FALSE
    /\ UNCHANGED <<lap, idx, halfFlag, fullFlag, lineBusy, notified, rollover,
                   pc, turn, handedOn, consumed>>

uartCallback ==
    /\ idleFlag
    /\ idleFlag' = FALSE
    /\ notified' = TRUE
    /\ UNCHANGED <<lap, idx, halfFlag, fullFlag, lineBusy, rollover, pc, turn,
                   handedOn, consumed>>

-------------------------------------------------------------------------------
(* rxFunc *)

\* taskNotifyTake(pdTRUE)
TakeNotification ==
    /\ pc = "wait" /\ notified
    /\ sawRollover' = rollover
    /\ notified' = FALSE /\ rollover' = FALSE
    /\ pc' = "index"
    /\ UNCHANGED <<dma, oldIdx, newIdx, lostBuffers, lapRead, lapDone, handled,
                   handedOn, consumed>>

\* Mutant: the index of the last byte is taken for the number of bytes.
ReadIndexOffByOne ==
    /\ pc = "index"
    /\ newIdx' = idx + 1
    /\ lapRead' = lap
    /\ pc' = IF idx + 1 > oldIdx THEN "straight" ELSE "settle"
    /\ UNCHANGED <<dma, notified, rollover, sawRollover, oldIdx, lostBuffers,
                   lapDone, handled, handedOn, consumed>>

ReadIndex ==
    /\ pc = "index"
    /\ newIdx' = idx
    /\ lapRead' = lap
    /\ pc' = CASE idx > oldIdx -> "straight"
               [] idx < oldIdx -> "tail"
               [] OTHER        -> "settle"
    /\ UNCHANGED <<dma, notified, rollover, sawRollover, oldIdx, lostBuffers,
                   lapDone, handled, handedOn, consumed>>

\* util.write(rxStreamBuf, rxDmaBuf + from, n), its result ignored.  The stream
\* buffer waits for room for all n bytes, but when its timeout ends with some
\* room it takes what fits; only a write of nothing at all is retried.
UtilWrite(from, n) ==
    \E k \in 1 .. n :
        /\ \/ k = n /\ Free >= n
           \/ k = Free /\ Free < n /\ ReaderStalls
        /\ handedOn' = handedOn \o Chunk(from, k)

WriteStraight ==
    /\ pc = "straight"
    /\ UtilWrite(oldIdx, newIdx - oldIdx)
    /\ pc' = "settle"
    /\ UNCHANGED <<dma, notified, rollover, turn, consumed>>

\* Mutant: a rollover of one byte is taken for none.
RolloverDataOffByOne == newIdx > 1

\* if (newIdx > 0): check if there's any rollover data to write
RolloverData == newIdx > 0

Rollover ==
    /\ lostBuffers' = lostBuffers - 1
    /\ handled' = handled + 1
    /\ UNCHANGED <<sawRollover, oldIdx, newIdx, lapRead, lapDone>>

WriteTail ==
    /\ pc = "tail"
    /\ UtilWrite(oldIdx, BufLen - oldIdx)
    /\ IF RolloverData
       THEN pc' = "head" /\ UNCHANGED turn
       ELSE pc' = "settle" /\ Rollover
    /\ UNCHANGED <<dma, notified, rollover, consumed>>

WriteHead ==
    /\ pc = "head"
    /\ UtilWrite(0, newIdx)
    /\ Rollover
    /\ pc' = "settle"
    /\ UNCHANGED <<dma, notified, rollover, consumed>>

\* Mutant: every notification counts as a rollover.
SettleCountsAll ==
    /\ pc = "settle"
    /\ oldIdx' = newIdx
    /\ lapDone' = lapRead
    /\ lostBuffers' = lostBuffers + 1
    /\ sawRollover' = FALSE
    /\ pc' = "wait"
    /\ UNCHANGED <<dma, notified, rollover, newIdx, lapRead, handled, handedOn,
                   consumed>>

\* oldIdx = newIdx; if (notifyValue >= rxRolloverFlag) lostBuffers++
Settle ==
    /\ pc = "settle"
    /\ oldIdx' = newIdx
    /\ lapDone' = lapRead
    /\ lostBuffers' = IF sawRollover THEN lostBuffers + 1 ELSE lostBuffers
    /\ sawRollover' = FALSE
    /\ pc' = "wait"
    /\ UNCHANGED <<dma, notified, rollover, newIdx, lapRead, handled, handedOn,
                   consumed>>

rxFunc ==
    /\ IsrLatency \/ ~(halfFlag \/ fullFlag \/ idleFlag)
    /\ \/ TakeNotification \/ ReadIndex \/ WriteStraight
       \/ WriteTail \/ WriteHead \/ Settle

\* Some task reads the stream buffer.
read ==
    /\ consumed < Len(handedOn)
    /\ consumed' \in consumed + 1 .. Len(handedOn)
    /\ UNCHANGED <<dma, notified, rollover, pc, turn, handedOn>>

Next == \/ ByteArrives \/ LineFallsIdle
        \/ dmaRxCallback \/ uartCallback
        \/ rxFunc \/ read

\* A line on which nothing more arrives falls idle; interrupts are served; the
\* rx task has a turn at its priority; the reader of the stream keeps reading.
Spec == /\ Init /\ [][Next]_vars
        /\ WF_vars(LineFallsIdle)
        /\ WF_vars(dmaRxCallback)
        /\ WF_vars(uartCallback)
        /\ WF_vars(rxFunc)
        /\ WF_vars(read)

-------------------------------------------------------------------------------
(* Properties *)

TypeOK ==
    /\ lap \in Nat /\ idx \in 0 .. BufLen - 1
    /\ halfFlag \in BOOLEAN /\ fullFlag \in BOOLEAN
    /\ lineBusy \in BOOLEAN /\ idleFlag \in BOOLEAN
    /\ notified \in BOOLEAN /\ rollover \in BOOLEAN /\ sawRollover \in BOOLEAN
    /\ pc \in Stages
    /\ oldIdx \in 0 .. BufLen - 1 /\ newIdx \in 0 .. BufLen - 1
    /\ lostBuffers \in Int
    /\ handedOn \in Seq(Int \X (0 .. BufLen - 1))
    /\ consumed \in 0 .. Len(handedOn)
    /\ lapRead \in Nat /\ lapDone \in Nat /\ handled \in Nat

Position(l, i) == l * BufLen + i

\* The bytes handed on are those that arrived, in order, none missing and none
\* twice: what the reader sees is a prefix of the line.
HandedOnInOrder ==
    \A k \in 1 .. Len(handedOn) :
        Position(handedOn[k][1], handedOn[k][2]) = k - 1

\* "Positive values indicate data loss" (uart_tasks.cpp): between turns of the
\* loop, fewer bytes have been handed on than had arrived.
PositiveMeansLoss ==
    pc = "wait" /\ lostBuffers > 0 =>
        Len(handedOn) < Position(lapRead, oldIdx)

\* Whenever the line stops, everything that arrived is handed on in the end,
\* also at an index for which no DMA interrupt is due.
EverythingHandedOn == <>[](Len(handedOn) = Position(lap, idx))
===============================================================================
