----------------------------- MODULE UartRxProofs -----------------------------
(***************************************************************************)
(* Theorems about UartRx for every buffer size, every speed of the DMA and *)
(* every behaviour of the reader: what a positive lostBuffers proves, and  *)
(* what is handed on; and about the registers of its stream (DmaFlags).    *)
(***************************************************************************)
EXTENDS UartRx, DmaFlags, SequenceTheorems, TLAPS

AsNumber(b) == IF b THEN 1 ELSE 0

\* The branch of rxFunc taken agrees with the indices it was chosen by.
BranchOK ==
    /\ pc = "straight" => newIdx > oldIdx
    /\ pc \in {"tail", "head"} => newIdx < oldIdx
    /\ pc = "head" => newIdx > 0

\* lostBuffers + handled is the number of rollovers the task was notified of.
\* Every one of them, and every one still under way, is a lap of the DMA ...
NotifiedLaps ==
    /\ lapRead <= lap
    /\ lostBuffers + handled + AsNumber(sawRollover) + AsNumber(rollover)
          + AsNumber(fullFlag) <= lap

\* ... and those notified before the index was read are laps of that reading.
NotifiedBeforeRead ==
    /\ pc # "index" => lostBuffers + handled + AsNumber(sawRollover) <= lapRead
    /\ pc = "wait" => sawRollover = FALSE

\* A turn hands on at most the bytes between its indices.
HandledBytes == handled * BufLen

HandedOnBound ==
    /\ pc = "settle" => Len(handedOn) <= HandledBytes + newIdx
    /\ pc = "head" => Len(handedOn) <= HandledBytes + BufLen
    /\ pc \notin {"settle", "head"} => Len(handedOn) <= HandledBytes + oldIdx

IInv == /\ TypeOK
        /\ BranchOK
        /\ NotifiedLaps
        /\ NotifiedBeforeRead
        /\ HandedOnBound

-------------------------------------------------------------------------------
\* Products of whole numbers: laps times buffer length.
LEMMA LapProduct ==
    ASSUME NEW a \in Nat, NEW c \in Nat
    PROVE  /\ a * c \in Nat
           /\ (a + 1) * c = a * c + c
OBVIOUS

LEMMA HandledBytesFacts ==
    ASSUME TypeOK
    PROVE  /\ HandledBytes \in Nat
           /\ handled' = handled => HandledBytes' = HandledBytes
           /\ handled' = handled + 1 => HandledBytes' = HandledBytes + BufLen
BY LapProduct, BufferAssumption DEF TypeOK, HandledBytes

LEMMA LapMonotonic ==
    ASSUME NEW a \in Nat, NEW b \in Nat, NEW c \in Nat, a < b
    PROVE  a * c + c <= b * c
<1>1. PICK d \in Nat : b = a + 1 + d
  <2>1. b - (a + 1) \in Nat /\ b = a + 1 + (b - (a + 1))
    OBVIOUS
  <2> QED
    BY <2>1
<1>2. b * c = a * c + c + d * c
  BY <1>1
<1>3. d * c \in Nat
  BY LapProduct
<1> QED
  BY <1>2, <1>3, LapProduct

\* A write puts at least one byte and at most n bytes of the buffer at the end
\* of the stream.
LEMMA WriteBound ==
    ASSUME TypeOK, NEW from \in 0 .. BufLen - 1, NEW n \in 1 .. BufLen - from,
           UtilWrite(from, n)
    PROVE  /\ handedOn' \in Seq(Int \X (0 .. BufLen - 1))
           /\ Len(handedOn') \in Len(handedOn) + 1 .. Len(handedOn) + n
<1>1. PICK k \in 1 .. n : handedOn' = handedOn \o Chunk(from, k)
  BY DEF UtilWrite
<1>2. \A i \in 1 .. k : Slot(from + i - 1) \in Int \X (0 .. BufLen - 1)
  BY BufferAssumption DEF Slot, TypeOK
<1>3. /\ Chunk(from, k) \in Seq(Int \X (0 .. BufLen - 1))
      /\ Len(Chunk(from, k)) = k
  BY <1>2 DEF Chunk
<1>4. handedOn \in Seq(Int \X (0 .. BufLen - 1))
  BY DEF TypeOK
<1> QED
  BY <1>1, <1>3, <1>4

LEMMA InvInit == Init => IInv
<1> SUFFICES ASSUME Init PROVE IInv
  OBVIOUS
<1>1. /\ handedOn \in Seq(Int \X (0 .. BufLen - 1))
      /\ Len(handedOn) = 0
  BY DEF Init
<1>2. TypeOK
  <2>1. idx \in 0 .. BufLen - 1 /\ consumed \in 0 .. Len(handedOn)
    BY <1>1, BufferAssumption DEF Init
  <2>2. oldIdx \in 0 .. BufLen - 1 /\ newIdx \in 0 .. BufLen - 1
    BY BufferAssumption DEF Init
  <2>3. /\ halfFlag \in BOOLEAN /\ fullFlag \in BOOLEAN
        /\ lineBusy \in BOOLEAN /\ idleFlag \in BOOLEAN
        /\ notified \in BOOLEAN /\ rollover \in BOOLEAN
        /\ sawRollover \in BOOLEAN
    BY DEF Init
  <2>4. /\ lap \in Nat /\ lostBuffers \in Int
        /\ lapRead \in Nat /\ lapDone \in Nat /\ handled \in Nat
    BY DEF Init
  <2>5. pc \in Stages
    BY DEF Init, Stages
  <2> QED
    BY <1>1, <2>1, <2>2, <2>3, <2>4, <2>5 DEF TypeOK
<1>3. HandledBytes = 0
  BY BufferAssumption DEF Init, HandledBytes
<1> QED
  BY <1>1, <1>2, <1>3, BufferAssumption
  DEF Init, IInv, BranchOK, NotifiedLaps, NotifiedBeforeRead, HandedOnBound,
      AsNumber

-------------------------------------------------------------------------------
\* Hardware, interrupts and the reader: the task's variables stay.
LEMMA OutsideStep ==
    ASSUME IInv,
           ByteArrives \/ LineFallsIdle \/ dmaRxCallback \/ uartCallback \/ read
    PROVE  IInv'
<1> USE BufferAssumption DEF IInv
<1>1. UNCHANGED <<pc, turn, handedOn>>
  BY DEF ByteArrives, LineFallsIdle, dmaRxCallback, uartCallback, read, turn
<1>2. BranchOK' /\ NotifiedBeforeRead' /\ HandedOnBound'
  BY <1>1, HandledBytesFacts
  DEF BranchOK, NotifiedBeforeRead, HandedOnBound, turn
<1>3. CASE ByteArrives
  <2>1. TypeOK'
    BY <1>1, <1>3 DEF ByteArrives, TypeOK, turn
  <2>2. \/ lap' = lap /\ fullFlag' = fullFlag
        \/ lap' = lap + 1
    BY <1>3 DEF ByteArrives, TypeOK
  <2>3. NotifiedLaps'
    BY <1>1, <1>3, <2>1, <2>2
    DEF ByteArrives, NotifiedLaps, AsNumber, TypeOK, turn
  <2> QED
    BY <1>2, <2>1, <2>3
<1>4. CASE LineFallsIdle \/ uartCallback
  <2>1. TypeOK'
    BY <1>1, <1>4 DEF LineFallsIdle, uartCallback, TypeOK, turn
  <2>2. NotifiedLaps'
    BY <1>1, <1>4 DEF LineFallsIdle, uartCallback, NotifiedLaps, AsNumber, turn
  <2> QED
    BY <1>2, <2>1, <2>2
<1>5. CASE dmaRxCallback
  <2>1. TypeOK'
    BY <1>1, <1>5 DEF dmaRxCallback, TypeOK, turn
  <2>2. NotifiedLaps'
    BY <1>1, <1>5 DEF dmaRxCallback, NotifiedLaps, AsNumber, TypeOK, turn
  <2> QED
    BY <1>2, <2>1, <2>2
<1>6. CASE read
  <2>1. TypeOK'
    BY <1>1, <1>6 DEF read, TypeOK, dma, turn
  <2>2. NotifiedLaps'
    BY <1>1, <1>6 DEF read, NotifiedLaps, AsNumber, dma, turn
  <2> QED
    BY <1>2, <2>1, <2>2
<1> QED
  BY <1>3, <1>4, <1>5, <1>6

LEMMA TakeStep ==
    ASSUME IInv, TakeNotification
    PROVE  IInv'
<1> USE DEF IInv, TakeNotification
<1>1. TypeOK'
  BY DEF TypeOK, Stages, dma
<1>2. BranchOK' /\ NotifiedBeforeRead'
  BY DEF BranchOK, NotifiedBeforeRead
<1>3. NotifiedLaps'
  BY DEF NotifiedLaps, NotifiedBeforeRead, AsNumber, TypeOK, dma
<1>4. HandedOnBound'
  BY HandledBytesFacts DEF HandedOnBound
<1> QED
  BY <1>1, <1>2, <1>3, <1>4

LEMMA ReadIndexStep ==
    ASSUME IInv, ReadIndex
    PROVE  IInv'
<1> USE DEF IInv, ReadIndex
<1>1. \/ pc' = "straight" /\ idx > oldIdx
      \/ pc' = "tail" /\ idx < oldIdx
      \/ pc' = "settle" /\ idx = oldIdx
  BY DEF TypeOK
<1>2. TypeOK'
  <2>1. pc' \in Stages
    BY <1>1 DEF Stages
  <2>2. newIdx' \in 0 .. BufLen - 1 /\ lapRead' \in Nat
    BY DEF TypeOK
  <2> QED
    BY <2>1, <2>2 DEF TypeOK, dma
<1>3. BranchOK'
  BY <1>1 DEF BranchOK
<1>4. NotifiedLaps' /\ NotifiedBeforeRead'
  BY <1>1 DEF NotifiedLaps, NotifiedBeforeRead, AsNumber, TypeOK, dma
<1>5. HandedOnBound'
  BY <1>1, HandledBytesFacts DEF HandedOnBound
<1> QED
  BY <1>2, <1>3, <1>4, <1>5

LEMMA SettleStep ==
    ASSUME IInv, Settle
    PROVE  IInv'
<1> USE DEF IInv, Settle
<1>1. TypeOK'
  <2>1. pc' \in Stages /\ sawRollover' \in BOOLEAN
    BY DEF Stages
  <2>2. lostBuffers' \in Int /\ lapDone' \in Nat /\ oldIdx' \in 0 .. BufLen - 1
    BY DEF TypeOK
  <2> QED
    BY <2>1, <2>2 DEF TypeOK, dma
<1>2. BranchOK'
  BY DEF BranchOK
<1>3. NotifiedLaps' /\ NotifiedBeforeRead'
  BY DEF NotifiedLaps, NotifiedBeforeRead, AsNumber, TypeOK, dma
<1>4. HandedOnBound'
  BY HandledBytesFacts DEF HandedOnBound
<1> QED
  BY <1>1, <1>2, <1>3, <1>4

LEMMA StraightStep ==
    ASSUME IInv, WriteStraight
    PROVE  IInv'
<1> USE BufferAssumption DEF IInv, WriteStraight
<1>1. /\ oldIdx \in 0 .. BufLen - 1
      /\ newIdx - oldIdx \in 1 .. BufLen - oldIdx
  BY DEF TypeOK, BranchOK
<1>2. /\ handedOn' \in Seq(Int \X (0 .. BufLen - 1))
      /\ Len(handedOn') \in Len(handedOn) + 1 .. Len(handedOn) + (newIdx - oldIdx)
  BY <1>1, WriteBound
<1>3. /\ Len(handedOn) \in Nat /\ HandledBytes \in Nat
      /\ HandledBytes' = HandledBytes
  BY HandledBytesFacts DEF TypeOK, turn
<1>4. TypeOK'
  BY <1>2, <1>3 DEF TypeOK, Stages, dma, turn
<1>5. BranchOK' /\ NotifiedLaps' /\ NotifiedBeforeRead'
  BY DEF BranchOK, NotifiedLaps, NotifiedBeforeRead, dma, turn
<1>6. HandedOnBound'
  BY <1>1, <1>2, <1>3 DEF HandedOnBound, TypeOK, turn
<1> QED
  BY <1>4, <1>5, <1>6

\* The bookkeeping of a handled rollover moves one from lostBuffers to handled.
LEMMA RolloverStep ==
    ASSUME IInv, Rollover, UNCHANGED <<dma, notified, rollover>>, pc' = "settle",
           pc \in {"tail", "head"}
    PROVE  BranchOK' /\ NotifiedLaps' /\ NotifiedBeforeRead'
<1>1. lostBuffers' + handled' = lostBuffers + handled
  BY DEF IInv, Rollover, TypeOK
<1> QED
  BY <1>1
  DEF IInv, BranchOK, NotifiedLaps, NotifiedBeforeRead, Rollover, dma, AsNumber,
      TypeOK

LEMMA TailStep ==
    ASSUME IInv, WriteTail
    PROVE  IInv'
<1> USE BufferAssumption DEF IInv
<1>1. /\ oldIdx \in 0 .. BufLen - 1
      /\ BufLen - oldIdx \in 1 .. BufLen - oldIdx
  BY DEF TypeOK
<1>2. /\ handedOn' \in Seq(Int \X (0 .. BufLen - 1))
      /\ Len(handedOn') \in Len(handedOn) + 1 .. Len(handedOn) + (BufLen - oldIdx)
  BY <1>1, WriteBound DEF WriteTail
<1>3. /\ Len(handedOn) \in Nat
      /\ HandledBytes \in Nat
      /\ handled' = handled => HandledBytes' = HandledBytes
      /\ handled' = handled + 1 => HandledBytes' = HandledBytes + BufLen
  BY HandledBytesFacts DEF TypeOK
<1>4. Len(handedOn') <= HandledBytes + BufLen
  BY <1>1, <1>2, <1>3 DEF WriteTail, HandedOnBound, TypeOK
<1>5. CASE RolloverData
  <2>1. pc' = "head" /\ UNCHANGED <<dma, notified, rollover, turn, consumed>>
    BY <1>5 DEF WriteTail
  <2>2. TypeOK'
    BY <1>2, <1>3, <2>1 DEF TypeOK, Stages, dma, turn
  <2>3. BranchOK' /\ NotifiedLaps' /\ NotifiedBeforeRead'
    BY <1>5, <2>1
    DEF WriteTail, BranchOK, NotifiedLaps, NotifiedBeforeRead, RolloverData,
        dma, turn
  <2>4. HandedOnBound'
    BY <1>3, <1>4, <2>1 DEF HandedOnBound, turn
  <2> QED
    BY <2>2, <2>3, <2>4
<1>6. CASE ~RolloverData
  <2>1. /\ pc = "tail" /\ pc' = "settle" /\ Rollover
        /\ UNCHANGED <<dma, notified, rollover, consumed>>
    BY <1>6 DEF WriteTail
  <2>2. TypeOK'
    BY <1>2, <1>3, <2>1 DEF TypeOK, Stages, Rollover, dma
  <2>3. BranchOK' /\ NotifiedLaps' /\ NotifiedBeforeRead'
    BY <2>1, RolloverStep
  <2>4. HandedOnBound'
    BY <1>2, <1>3, <1>4, <2>1 DEF HandedOnBound, Rollover, TypeOK
  <2> QED
    BY <2>2, <2>3, <2>4
<1> QED
  BY <1>5, <1>6

LEMMA HeadStep ==
    ASSUME IInv, WriteHead
    PROVE  IInv'
<1> USE BufferAssumption DEF IInv
<1>1. 0 \in 0 .. BufLen - 1 /\ newIdx \in 1 .. BufLen - 0
  BY DEF TypeOK, BranchOK, WriteHead
<1>2. /\ handedOn' \in Seq(Int \X (0 .. BufLen - 1))
      /\ Len(handedOn') \in Len(handedOn) + 1 .. Len(handedOn) + newIdx
  BY <1>1, WriteBound DEF WriteHead
<1>3. /\ Len(handedOn) \in Nat
      /\ HandledBytes \in Nat
      /\ handled' = handled => HandledBytes' = HandledBytes
      /\ handled' = handled + 1 => HandledBytes' = HandledBytes + BufLen
  BY HandledBytesFacts DEF TypeOK
<1>4. /\ pc = "head" /\ pc' = "settle" /\ Rollover
      /\ UNCHANGED <<dma, notified, rollover, consumed>>
  BY DEF WriteHead
<1>5. TypeOK'
  BY <1>2, <1>3, <1>4 DEF TypeOK, Stages, Rollover, dma
<1>6. BranchOK' /\ NotifiedLaps' /\ NotifiedBeforeRead'
  BY <1>4, RolloverStep
<1>7. HandedOnBound'
  BY <1>1, <1>2, <1>3, <1>4 DEF HandedOnBound, Rollover, TypeOK
<1> QED
  BY <1>5, <1>6, <1>7

-------------------------------------------------------------------------------
LEMMA InvStep == IInv /\ [Next]_vars => IInv'
<1> SUFFICES ASSUME IInv, [Next]_vars PROVE IInv'
  OBVIOUS
<1>1. CASE UNCHANGED vars
  BY <1>1
  DEF vars, dma, turn, IInv, TypeOK, BranchOK, NotifiedLaps, NotifiedBeforeRead,
      HandedOnBound, HandledBytes, AsNumber
<1> QED
  BY <1>1, OutsideStep, TakeStep, ReadIndexStep, SettleStep, StraightStep,
     TailStep, HeadStep
  DEF Next, rxFunc

THEOREM Invariance == Spec => []IInv
BY InvInit, InvStep, PTL DEF Spec

\* Indices stay inside rxDmaBuf and every copy inside the stream's bytes.
THEOREM TypeCorrect == Spec => []TypeOK
<1>1. IInv => TypeOK
  BY DEF IInv
<1> QED
  BY <1>1, Invariance, PTL

\* A positive lostBuffers is proof of lost data, however the interrupts, the
\* DMA and the task interleave and whatever is coalesced on the way.
THEOREM PositiveLostBuffersSound == Spec => []PositiveMeansLoss
<1>1. IInv => PositiveMeansLoss
  <2> SUFFICES ASSUME IInv, pc = "wait", lostBuffers > 0
               PROVE  Len(handedOn) < Position(lapRead, oldIdx)
    BY DEF PositiveMeansLoss
  <2>1. /\ handled \in Nat /\ lapRead \in Nat /\ BufLen \in Nat \ {0}
        /\ oldIdx \in Nat /\ Len(handedOn) \in Nat
    BY BufferAssumption DEF IInv, TypeOK
  <2>2. handled < lapRead
    BY <2>1 DEF IInv, NotifiedBeforeRead, AsNumber, TypeOK
  <2>3. handled * BufLen + BufLen <= lapRead * BufLen
    BY <2>1, <2>2, LapMonotonic
  <2>4. handled * BufLen \in Nat /\ lapRead * BufLen \in Nat
    BY <2>1, LapProduct
  <2>5. Len(handedOn) <= handled * BufLen + oldIdx
    BY DEF IInv, HandedOnBound, HandledBytes
  <2> QED
    BY <2>1, <2>3, <2>4, <2>5 DEF Position
<1> QED
  BY <1>1, Invariance, PTL

-------------------------------------------------------------------------------
(* What is handed on when the task keeps up: the DMA does not come back to a *)
(* byte the task has not finished with, and the stream takes whole writes.   *)
KeepsUp == MaxLag < BufLen /\ ~ReaderStalls

\* The DMA is less than a lap ahead of what the task has finished with.
Pace == \/ lap = lapDone /\ oldIdx <= idx
        \/ lap = lapDone + 1 /\ idx < oldIdx

\* The reading the turn works with lies between the two, and the branch says
\* whether the end of the buffer is among what is new.
ReadingOK ==
    /\ pc = "straight" => lapRead = lapDone
    /\ pc \in {"tail", "head"} => lapRead = lapDone + 1
    /\ pc = "settle" => \/ lapRead = lapDone /\ oldIdx <= newIdx
                        \/ lapRead = lapDone + 1 /\ newIdx < oldIdx
    /\ pc \notin {"wait", "index"} => \/ lapRead < lap
                                      \/ lapRead = lap /\ newIdx <= idx

\* How far the writes of the turn have got.
Written ==
    Len(handedOn) = CASE pc = "head"   -> Position(lapDone + 1, 0)
                      [] pc = "settle" -> Position(lapRead, newIdx)
                      [] OTHER         -> Position(lapDone, oldIdx)

OrderInv == IInv /\ Pace /\ ReadingOK /\ Written /\ HandedOnInOrder

LEMMA PositionFacts ==
    ASSUME NEW l \in Nat, NEW i \in Nat
    PROVE  /\ Position(l, i) \in Nat
           /\ Position(l, i) = Position(l, 0) + i
           /\ Position(l + 1, 0) = Position(l, 0) + BufLen
BY LapProduct, BufferAssumption DEF Position

\* A write at the end of the stream keeps it in order when each byte it takes
\* from the buffer is of the lap that is due.
LEMMA WriteInOrder ==
    ASSUME IInv, HandedOnInOrder, ~ReaderStalls, NEW l \in Nat,
           NEW from \in 0 .. BufLen - 1, NEW n \in 1 .. BufLen - from,
           UtilWrite(from, n),
           Len(handedOn) = Position(l, from),
           \A i \in from .. from + n - 1 : Slot(i) = <<l, i>>
    PROVE  HandedOnInOrder' /\ Len(handedOn') = Position(l, from) + n
<1>1. handedOn' = handedOn \o Chunk(from, n)
  BY DEF UtilWrite
<1>2. \A k \in 1 .. n : Chunk(from, n)[k] = <<l, from + k - 1>>
  BY BufferAssumption DEF Chunk
<1>3. \A i \in 1 .. n : Slot(from + i - 1) \in Int \X (0 .. BufLen - 1)
  BY BufferAssumption DEF Slot, IInv, TypeOK
<1>4. /\ Chunk(from, n) \in Seq(Int \X (0 .. BufLen - 1))
      /\ Len(Chunk(from, n)) = n
  <2> HIDE DEF IInv
  <2>1. n \in Nat
    OBVIOUS
  <2> QED
    BY ONLY <1>3, <2>1, SMT DEF Chunk
<1>5. handedOn \in Seq(Int \X (0 .. BufLen - 1))
  BY DEF IInv, TypeOK
<1>6. Len(handedOn') = Len(handedOn) + n
  <2> DEFINE c == Chunk(from, n)
  <2>1. /\ c \in Seq(Int \X (0 .. BufLen - 1)) /\ Len(c) = n
        /\ handedOn' = handedOn \o c
    BY <1>1, <1>4
  <2> DEFINE S == Int \X (0 .. BufLen - 1)
  <2>2. handedOn \in Seq(S) /\ c \in Seq(S)
    BY <1>5, <2>1
  <2> HIDE DEF c, S
  <2>3. Len(handedOn \o c) = Len(handedOn) + Len(c)
    BY <2>2, ConcatProperties
  <2> QED
    BY <2>1, <2>3, Zenon
<1>7. ASSUME NEW k \in 1 .. Len(handedOn')
      PROVE  Position(handedOn'[k][1], handedOn'[k][2]) = k - 1
  <2>1. CASE k <= Len(handedOn)
    <3>1. k \in 1 .. Len(handedOn)
      BY <1>4, <1>6, <2>1
    <3>2. handedOn'[k] = handedOn[k]
      <4> DEFINE c == Chunk(from, n)
                 S == Int \X (0 .. BufLen - 1)
      <4>1. handedOn \in Seq(S) /\ c \in Seq(S) /\ handedOn' = handedOn \o c
        BY <1>1, <1>4, <1>5
      <4> HIDE DEF c, S
      <4> QED
        BY <3>1, <4>1, ConcatProperties
    <3> QED
      BY <3>1, <3>2 DEF HandedOnInOrder
  <2>2. CASE k > Len(handedOn)
    <3> DEFINE j == k - Len(handedOn)
    <3>1. j \in 1 .. n /\ Len(handedOn) \in Nat /\ k = Len(handedOn) + j
      BY <1>5, <1>6, <2>2
    <3>2. handedOn'[k] = Chunk(from, n)[j]
      <4> DEFINE c == Chunk(from, n)
                 S == Int \X (0 .. BufLen - 1)
      <4>1. handedOn \in Seq(S) /\ c \in Seq(S) /\ handedOn' = handedOn \o c /\ Len(c) = n
        BY <1>1, <1>4, <1>5
      <4> HIDE DEF c, S
      <4>2. \A i \in 1 .. n : (handedOn \o c)[Len(handedOn) + i] = c[i]
        BY <4>1, ConcatProperties
      <4>3. handedOn'[k] = c[j]
        BY <3>1, <4>1, <4>2
      <4> QED
        BY <4>3 DEF c
    <3>3. handedOn'[k] = <<l, from + j - 1>>
      BY <1>2, <3>1, <3>2
    <3>4. from + j - 1 \in Nat
      BY <3>1
    <3>5. /\ Position(l, from + j - 1) = Position(l, 0) + (from + j - 1)
          /\ Position(l, from) = Position(l, 0) + from
          /\ Position(l, 0) \in Nat
      BY <3>4, PositionFacts
    <3> HIDE DEF j
    <3> QED
      BY <3>1, <3>3, <3>5
  <2> QED
    BY <1>5, <1>6, <2>1, <2>2
<1> QED
  BY <1>6, <1>7 DEF HandedOnInOrder

LEMMA OrderInit == Init => OrderInv
<1> SUFFICES ASSUME Init PROVE OrderInv
  OBVIOUS
<1>1. IInv
  BY InvInit
<1>2. Position(0, 0) = 0
  BY BufferAssumption DEF Position
<1>3. Pace /\ ReadingOK
  BY DEF Init, Pace, ReadingOK
<1>4. Len(handedOn) = 0
  BY DEF Init
<1>5. Written /\ HandedOnInOrder
  BY <1>2, <1>4 DEF Init, Written, HandedOnInOrder
<1> QED
  BY <1>1, <1>3, <1>5 DEF OrderInv

\* The DMA, the interrupts and the reader of the stream.
LEMMA OrderOutsideStep ==
    ASSUME OrderInv, KeepsUp,
           ByteArrives \/ LineFallsIdle \/ dmaRxCallback \/ uartCallback \/ read
    PROVE  Pace' /\ ReadingOK' /\ Written' /\ HandedOnInOrder'
<1>1. UNCHANGED <<pc, turn, handedOn>>
  BY DEF ByteArrives, LineFallsIdle, dmaRxCallback, uartCallback, read, turn
<1>2. Written' /\ HandedOnInOrder'
  BY <1>1 DEF OrderInv, Written, HandedOnInOrder, Position, turn
<1>3. TypeOK
  BY DEF OrderInv, IInv
<1>4. CASE ByteArrives
  <2>1. /\ lap' = IF idx + 1 = BufLen THEN lap + 1 ELSE lap
        /\ idx' = IF idx + 1 = BufLen THEN 0 ELSE idx + 1
    <3>1. idx' = (idx + 1) % BufLen /\ idx + 1 \in 1 .. BufLen
      BY <1>3, <1>4, BufferAssumption DEF ByteArrives, TypeOK
    <3>2. BufLen % BufLen = 0 /\ \A i \in 0 .. BufLen - 1 : i % BufLen = i
      BY BufferAssumption
    <3> QED
      BY <1>4, <3>1, <3>2, BufferAssumption DEF ByteArrives
  <2>2. Lag + 1 < BufLen
    <3>1. Lag \in Int
      <4>1. (lap - lapDone) * BufLen \in Int
        BY <1>3, BufferAssumption DEF TypeOK
      <4> QED
        BY <1>3, <4>1 DEF Lag, TypeOK
    <3> QED
      BY <1>4, <3>1, BufferAssumption DEF ByteArrives, KeepsUp
  <2>3. CASE lap = lapDone /\ oldIdx <= idx
    <3>1. Lag = idx - oldIdx
      <4>1. (lap - lapDone) * BufLen = 0
        BY <1>3, <2>3, BufferAssumption DEF TypeOK
      <4> QED
        BY <1>3, <4>1 DEF Lag, TypeOK
    <3>2. Pace'
      BY <1>1, <1>3, <2>1, <2>2, <2>3, <3>1, BufferAssumption
      DEF Pace, TypeOK, turn
    <3>3. ReadingOK'
      BY <1>1, <1>3, <2>1, <2>3 DEF OrderInv, ReadingOK, TypeOK, turn
    <3> QED
      BY <1>2, <3>2, <3>3
  <2>4. CASE lap = lapDone + 1 /\ idx < oldIdx
    <3>1. Lag = BufLen + idx - oldIdx
      <4>1. (lap - lapDone) * BufLen = BufLen
        BY <1>3, <2>4, BufferAssumption DEF TypeOK
      <4> QED
        BY <1>3, <4>1, BufferAssumption DEF Lag, TypeOK
    <3>2. Pace'
      BY <1>1, <1>3, <2>1, <2>2, <2>4, <3>1, BufferAssumption
      DEF Pace, TypeOK, turn
    <3>3. ReadingOK'
      BY <1>1, <1>3, <2>1, <2>4 DEF OrderInv, ReadingOK, TypeOK, turn
    <3> QED
      BY <1>2, <3>2, <3>3
  <2> QED
    BY <2>3, <2>4 DEF OrderInv, Pace
<1>5. CASE LineFallsIdle \/ dmaRxCallback \/ uartCallback \/ read
  <2>1. UNCHANGED <<lap, idx>>
    BY <1>5 DEF LineFallsIdle, dmaRxCallback, uartCallback, read, dma
  <2>2. Pace' /\ ReadingOK'
    BY <1>1, <2>1 DEF OrderInv, Pace, ReadingOK, turn
  <2> QED
    BY <1>2, <2>2
<1> QED
  BY <1>4, <1>5

\* The notification is taken, the index is read, the turn ends.
LEMMA OrderReadStep ==
    ASSUME OrderInv, TakeNotification \/ ReadIndex \/ Settle
    PROVE  Pace' /\ ReadingOK' /\ Written' /\ HandedOnInOrder'
<1>1. TypeOK
  BY DEF OrderInv, IInv
<1>2. HandedOnInOrder'
  BY DEF OrderInv, HandedOnInOrder, Position, TakeNotification, ReadIndex, Settle
<1>3. CASE TakeNotification
  BY <1>2, <1>3
  DEF TakeNotification, OrderInv, Pace, ReadingOK, Written, Position, dma
<1>4. CASE ReadIndex
  <2>1. \/ pc' = "straight" /\ idx > oldIdx
        \/ pc' = "tail" /\ idx < oldIdx
        \/ pc' = "settle" /\ idx = oldIdx
    BY <1>1, <1>4 DEF ReadIndex, TypeOK
  <2>2. /\ pc = "index" /\ newIdx' = idx /\ lapRead' = lap
        /\ UNCHANGED <<lap, idx, oldIdx, lapDone, handedOn>>
    BY <1>4 DEF ReadIndex, dma
  <2>3. Pace'
    BY <2>2 DEF OrderInv, Pace
  <2>4. ReadingOK'
    BY <1>1, <2>1, <2>2 DEF OrderInv, Pace, ReadingOK, TypeOK
  <2>5. Len(handedOn) = Position(lapDone, oldIdx)
    BY <2>2 DEF OrderInv, Written
  <2>6. Position(lapDone, oldIdx)' = Position(lapDone, oldIdx)
    BY <2>2 DEF Position
  <2>7. CASE pc' \in {"straight", "tail"}
    BY <1>2, <2>2, <2>3, <2>4, <2>5, <2>6, <2>7 DEF Written
  <2>8. CASE pc' = "settle" /\ idx = oldIdx
    <3>1. lap = lapDone
      BY <1>1, <2>8 DEF OrderInv, Pace, TypeOK
    <3>2. Position(lapRead, newIdx)' = Position(lapDone, oldIdx)
      BY <2>2, <2>8, <3>1 DEF Position
    <3> QED
      BY <1>2, <2>2, <2>3, <2>4, <2>5, <2>8, <3>2 DEF Written
  <2> QED
    BY <2>1, <2>7, <2>8
<1>5. CASE Settle
  <2>1. /\ pc = "settle" /\ pc' = "wait"
        /\ oldIdx' = newIdx /\ lapDone' = lapRead
        /\ UNCHANGED <<lap, idx, handedOn>>
    BY <1>5 DEF Settle, dma
  <2>2. Pace'
    BY <1>1, <2>1 DEF OrderInv, Pace, ReadingOK, TypeOK
  <2>3. ReadingOK'
    BY <2>1 DEF ReadingOK
  <2>4. Written'
    BY <2>1 DEF OrderInv, Written, Position
  <2> QED
    BY <1>2, <2>2, <2>3, <2>4
<1> QED
  BY <1>3, <1>4, <1>5

LEMMA OrderWriteStep ==
    ASSUME OrderInv, KeepsUp, WriteStraight \/ WriteTail \/ WriteHead
    PROVE  Pace' /\ ReadingOK' /\ Written' /\ HandedOnInOrder'
<1>1. /\ TypeOK /\ BranchOK /\ IInv /\ HandedOnInOrder /\ ~ReaderStalls
      /\ Pace /\ ReadingOK
  BY DEF OrderInv, IInv, KeepsUp
<1>2. /\ lapDone \in Nat /\ lapDone + 1 \in Nat /\ lapRead \in Nat /\ lap \in Nat
      /\ oldIdx \in 0 .. BufLen - 1 /\ newIdx \in 0 .. BufLen - 1
      /\ idx \in 0 .. BufLen - 1 /\ BufLen \in Nat
  BY <1>1, BufferAssumption DEF TypeOK
<1>3. UNCHANGED <<lap, idx, oldIdx, newIdx, lapRead, lapDone>>
  BY DEF WriteStraight, WriteTail, WriteHead, Rollover, dma, turn
<1>4. Pace'
  BY <1>1, <1>3 DEF Pace
<1>5. CASE WriteStraight
  <2>1. /\ pc = "straight" /\ pc' = "settle"
        /\ newIdx - oldIdx \in 1 .. BufLen - oldIdx
        /\ UtilWrite(oldIdx, newIdx - oldIdx)
        /\ lapRead = lapDone
    BY <1>1, <1>2, <1>5 DEF WriteStraight, BranchOK, ReadingOK
  <2>2. \A i \in oldIdx .. oldIdx + (newIdx - oldIdx) - 1 : Slot(i) = <<lapDone, i>>
    BY <1>1, <1>2, <2>1 DEF Slot, Pace, ReadingOK
  <2>3. Len(handedOn) = Position(lapDone, oldIdx)
    BY <2>1 DEF OrderInv, Written
  <2>4. /\ HandedOnInOrder'
        /\ Len(handedOn') = Position(lapDone, oldIdx) + (newIdx - oldIdx)
    BY <1>1, <1>2, <2>1, <2>2, <2>3, WriteInOrder
  <2>5. ReadingOK'
    BY <1>1, <1>2, <1>3, <2>1 DEF ReadingOK, BranchOK
  <2>6. Written'
    <3>1. Position(lapRead, newIdx)' = Position(lapDone, newIdx)
      BY <1>3, <2>1 DEF Position
    <3>2. /\ Position(lapDone, newIdx) = Position(lapDone, 0) + newIdx
          /\ Position(lapDone, oldIdx) = Position(lapDone, 0) + oldIdx
          /\ Position(lapDone, 0) \in Nat
      <4>1. newIdx \in Nat /\ oldIdx \in Nat
        BY <1>2
      <4> QED
        BY <1>2, <4>1, PositionFacts
    <3> QED
      BY <1>2, <2>1, <2>4, <3>1, <3>2 DEF Written
  <2> QED
    BY <1>4, <2>4, <2>5, <2>6
<1>6. CASE WriteTail
  <2>1. /\ pc = "tail" /\ pc' = IF newIdx > 0 THEN "head" ELSE "settle"
        /\ BufLen - oldIdx \in 1 .. BufLen - oldIdx
        /\ UtilWrite(oldIdx, BufLen - oldIdx)
        /\ lapRead = lapDone + 1 /\ newIdx < oldIdx
    BY <1>1, <1>2, <1>6 DEF WriteTail, RolloverData, BranchOK, ReadingOK
  <2>2. \A i \in oldIdx .. oldIdx + (BufLen - oldIdx) - 1 : Slot(i) = <<lapDone, i>>
    BY <1>1, <1>2, <2>1 DEF Slot, Pace, ReadingOK
  <2>3. Len(handedOn) = Position(lapDone, oldIdx)
    BY <2>1 DEF OrderInv, Written
  <2>4. /\ HandedOnInOrder'
        /\ Len(handedOn') = Position(lapDone, oldIdx) + (BufLen - oldIdx)
    BY <1>1, <1>2, <2>1, <2>2, <2>3, WriteInOrder
  <2>5. ReadingOK'
    BY <1>1, <1>2, <1>3, <2>1 DEF ReadingOK, BranchOK
  <2>6. Written'
    <3>1. /\ Position(lapDone + 1, 0)' = Position(lapDone + 1, 0)
          /\ Position(lapRead, newIdx)' = Position(lapDone + 1, newIdx)
      BY <1>3, <2>1 DEF Position
    <3>2. /\ Position(lapDone + 1, 0) = Position(lapDone, 0) + BufLen
          /\ Position(lapDone, oldIdx) = Position(lapDone, 0) + oldIdx
          /\ Position(lapDone, 0) \in Nat
      <4>1. oldIdx \in Nat /\ 0 \in Nat
        BY <1>2
      <4> QED
        BY <1>2, <4>1, PositionFacts
    <3>3. Len(handedOn') = Position(lapDone + 1, 0)
      BY <1>2, <2>4, <3>2
    <3>4. CASE newIdx > 0
      BY <2>1, <3>1, <3>3, <3>4 DEF Written
    <3>5. CASE ~(newIdx > 0)
      <4>1. newIdx = 0 /\ pc' = "settle"
        BY <1>2, <2>1, <3>5
      <4>2. Position(lapRead, newIdx)' = Position(lapDone + 1, 0)
        BY <3>1, <4>1
      <4> QED
        BY <3>3, <4>1, <4>2 DEF Written
    <3> QED
      BY <3>4, <3>5
  <2> QED
    BY <1>4, <2>4, <2>5, <2>6
<1>7. CASE WriteHead
  <2>1. /\ pc = "head" /\ pc' = "settle"
        /\ newIdx \in 1 .. BufLen - 0 /\ 0 \in 0 .. BufLen - 1
        /\ UtilWrite(0, newIdx)
        /\ lapRead = lapDone + 1 /\ newIdx < oldIdx
    BY <1>1, <1>2, <1>7 DEF WriteHead, BranchOK, ReadingOK
  <2>2. \A i \in 0 .. 0 + newIdx - 1 : Slot(i) = <<lapDone + 1, i>>
    BY <1>1, <1>2, <2>1 DEF Slot, Pace, ReadingOK
  <2>3. Len(handedOn) = Position(lapDone + 1, 0)
    BY <2>1 DEF OrderInv, Written
  <2>4. /\ HandedOnInOrder'
        /\ Len(handedOn') = Position(lapDone + 1, 0) + newIdx
    BY <1>1, <1>2, <2>1, <2>2, <2>3, WriteInOrder
  <2>5. ReadingOK'
    BY <1>1, <1>2, <1>3, <2>1 DEF ReadingOK, BranchOK
  <2>6. Written'
    <3>1. Position(lapRead, newIdx)' = Position(lapDone + 1, newIdx)
      BY <1>3, <2>1 DEF Position
    <3>2. Position(lapDone + 1, newIdx) = Position(lapDone + 1, 0) + newIdx
      <4>1. newIdx \in Nat
        BY <1>2
      <4> QED
        BY <1>2, <4>1, PositionFacts
    <3> QED
      BY <2>1, <2>4, <3>1, <3>2 DEF Written
  <2> QED
    BY <1>4, <2>4, <2>5, <2>6
<1> QED
  BY <1>5, <1>6, <1>7

LEMMA OrderStep == KeepsUp /\ OrderInv /\ [Next]_vars => OrderInv'
<1> SUFFICES ASSUME KeepsUp, OrderInv, [Next]_vars PROVE OrderInv'
  OBVIOUS
<1>1. IInv'
  BY InvStep DEF OrderInv
<1>2. CASE UNCHANGED vars
  <2>1. Pace' /\ ReadingOK' /\ Written' /\ HandedOnInOrder'
    BY <1>2
    DEF OrderInv, Pace, ReadingOK, Written, HandedOnInOrder, Position, vars,
        dma, turn
  <2> QED
    BY <1>1, <2>1 DEF OrderInv
<1>3. CASE Next
  <2>1. Pace' /\ ReadingOK' /\ Written' /\ HandedOnInOrder'
    BY <1>3, OrderOutsideStep, OrderReadStep, OrderWriteStep DEF Next, rxFunc
  <2> QED
    BY <1>1, <2>1 DEF OrderInv
<1> QED
  BY <1>2, <1>3

\* As long as the task keeps up with the DMA, what is handed on is the line
\* itself: no byte is missed, repeated or taken from the wrong lap, for every
\* buffer size and wherever the interrupts cut into the task's loop.
THEOREM HandedOnIsTheLine ==
    ASSUME KeepsUp
    PROVE  Spec => []HandedOnInOrder
<1>1. Init => OrderInv
  BY OrderInit
<1>2. OrderInv /\ [Next]_vars => OrderInv'
  BY OrderStep
<1>3. OrderInv => HandedOnInOrder
  BY DEF OrderInv
<1> QED
  BY <1>1, <1>2, <1>3, PTL DEF Spec

-------------------------------------------------------------------------------
(* The flags of the stream are those DmaFlags packs into two registers. *)

LEMMA Values ==
  /\ Flags = {"FE", "DME", "TE", "HT", "TC"}
  /\ DmaFlag["FE"] = 0 /\ DmaFlag["DME"] = 2 /\ DmaFlag["TE"] = 3
  /\ DmaFlag["HT"] = 4 /\ DmaFlag["TC"] = 5
  /\ flagOffset[1] = 0 /\ flagOffset[2] = 6 /\ flagOffset[3] = 16 /\ flagOffset[4] = 22
  BY DEF Flags, DmaFlag, flagOffset

LEMMA FlagNumbers ==
  ASSUME NEW f \in Flags
  PROVE  /\ DmaFlag[f] \in 0 .. 5
         /\ \A g \in Flags : DmaFlag[f] = DmaFlag[g] => f = g
  BY Values

LEMMA Offsets ==
  ASSUME NEW s \in Streams
  PROVE  /\ (s % 4) + 1 \in 1 .. 4
         /\ s < 4 => s % 4 = s
         /\ s >= 4 => s % 4 = s - 4
         /\ flagOffset[(s % 4) + 1] \in {0, 6, 16, 22}
  <1>1. s \in 0 .. 7
    BY DEF Streams
  <1>2. (s < 4 => s % 4 = s) /\ (s >= 4 => s % 4 = s - 4)
    BY <1>1
  <1>3. (s % 4) + 1 \in 1 .. 4
    BY <1>1, <1>2
  <1> QED
    BY <1>2, <1>3, Values

\* Every flag has a bit of a 32-bit mask.
LEMMA BitExists ==
  ASSUME NEW s \in Streams, NEW f \in Flags
  PROVE  Bit(s, f) \in 0 .. 31
  BY FlagNumbers, Offsets DEF Bit

\* No two flags of a controller share a bit: the offsets, which are not
\* multiples of one number, leave room for each stream's six.
THEOREM FlagsDistinct ==
  ASSUME NEW s \in Streams, NEW t \in Streams, NEW f \in Flags, NEW g \in Flags,
         Register(s) = Register(t), Bit(s, f) = Bit(t, g)
  PROVE  s = t /\ f = g
  <1> DEFINE i == (s % 4) + 1
             j == (t % 4) + 1
  <1>1. i \in 1 .. 4 /\ j \in 1 .. 4
    BY Offsets
  <1>2. DmaFlag[f] \in 0 .. 5 /\ DmaFlag[g] \in 0 .. 5
    BY FlagNumbers
  <1>3. DmaFlag[f] + flagOffset[i] = DmaFlag[g] + flagOffset[j]
    BY DEF Bit
  <1>4. i = j /\ DmaFlag[f] = DmaFlag[g]
    <2> HIDE DEF i, j
    <2> QED
      BY <1>1, <1>2, <1>3, Values
  <1>5. f = g
    BY <1>4, FlagNumbers
  <1>6. s % 4 = t % 4
    <2>1. s % 4 \in Nat /\ t % 4 \in Nat
      BY DEF Streams
    <2> QED
      BY <1>4, <2>1
  <1>7. (s < 4) = (t < 4)
    BY DEF Register
  <1>8. s = t
    BY <1>6, <1>7, Offsets DEF Streams
  <1> QED
    BY <1>5, <1>8

\* A call clears the flag it is asked about and leaves every other flag of the
\* eight streams as it was, so an interrupt of one stream never swallows the
\* event of another one.
THEOREM ClearsOnlyItsFlag ==
  ASSUME NEW status \in Status, NEW s \in Streams, NEW f \in Flags,
         NEW t \in Streams, NEW g \in Flags
  PROVE  LET after == dmaFlagCheckAndClear(status, s, f).status
         IN  /\ after \in Status
             /\ ~IsSet(after, s, f)
             /\ <<t, g>> # <<s, f>> => IsSet(after, t, g) = IsSet(status, t, g)
  <1> DEFINE after == dmaFlagCheckAndClear(status, s, f).status
  <1>1. after = [status EXCEPT ![Register(s)] = @ \ {Bit(s, f)}]
    BY DEF dmaFlagCheckAndClear
  <1>2. Register(s) \in {"LISR", "HISR"} /\ Register(t) \in {"LISR", "HISR"}
    BY DEF Register
  <1>3. after \in Status /\ after[Register(s)] = status[Register(s)] \ {Bit(s, f)}
    BY <1>1, <1>2 DEF Status
  <1>4. ~IsSet(after, s, f)
    BY <1>3 DEF IsSet
  <1>5. ASSUME <<t, g>> # <<s, f>>
        PROVE  IsSet(after, t, g) = IsSet(status, t, g)
    <2>1. CASE Register(t) = Register(s)
      <3>1. Bit(t, g) # Bit(s, f)
        BY <1>5, <2>1, FlagsDistinct
      <3> QED
        BY <2>1, <3>1, <1>3 DEF IsSet
    <2>2. CASE Register(t) # Register(s)
      <3>1. after[Register(t)] = status[Register(t)]
        BY <1>1, <1>2, <2>2 DEF Status
      <3> QED
        BY <3>1 DEF IsSet
    <2> QED
      BY <2>1, <2>2
  <1> QED
    BY <1>3, <1>4, <1>5
===============================================================================
