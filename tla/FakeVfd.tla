------------------------------- MODULE FakeVfd -------------------------------
(***************************************************************************)
(* FakeVfdTask (vfd_bench/custom/src/fake_vfd_task.cpp): a Modbus server   *)
(* that simulates the drives at all addresses.  It collects bytes, looks   *)
(* for a request at a growing index, and answers it after a delay; as a    *)
(* transceiver would, it first sends back every byte it receives.          *)
(*                                                                         *)
(* inBuf holds the received bytes; what lies behind them in memory is      *)
(* never looked at.                                                        *)
(***************************************************************************)
EXTENDS ModbusFrames

CONSTANTS
  Addresses,        \* addresses in use; 0 is the broadcast address
  MaxModbusPktSize, \* sizeof(inBuf)
  ReadSizes         \* how much a read returns if not all that is there

VARIABLES
  rx,               \* the receive stream of the UART, bytes still on the wire included
  tx,               \* what the UART sends, as its far end receives it
  inBuf, index,
  pc,               \* read, parse or respond
  outPkt,           \* the response that osDelay holds back
  frequencies

fakeVfdVars == <<rx, tx, inBuf, index, pc, outPkt, frequencies>>

Init ==
  /\ rx = <<>> /\ tx = <<>>
  /\ inBuf = <<>> /\ index = 0
  /\ pc = "read"
  /\ outPkt = <<>>
  /\ frequencies = [a \in Addresses |-> 0]

-------------------------------------------------------------------------------
\* The next bytes, as many as have arrived and fit, and their echo.
Read ==
  /\ pc = "read"
  /\ \E n \in (ReadSizes \union {Len(rx)}) \ {0} :
       /\ n <= Len(rx)
       /\ Len(inBuf) + n <= MaxModbusPktSize
       /\ inBuf' = inBuf \o SubSeq(rx, 1, n)
       /\ tx' = tx \o SubSeq(rx, 1, n)
       /\ rx' = SubSeq(rx, n + 1, Len(rx))
  /\ pc' = "parse"
  /\ UNCHANGED <<index, outPkt, frequencies>>

\* parseRequestToServer: the length of the request that buf begins with, 0 if
\* more bytes are needed, -1 if it begins with none.
parseRequestToServer(buf) ==
  LET bufLen == Len(buf)
      Needed(requiredLen) == IF bufLen < requiredLen THEN 0 ELSE requiredLen
      payloadAt == ModbusHeaderAndCrcSize + 7
  IN
  IF bufLen <= ModbusHeaderAndCrcSize THEN 0
  ELSE CASE buf[2] \in {ReadMultipleRegisters, WriteSingleRegister} ->
              Needed(ModbusHeaderAndCrcSize + 4)
         [] buf[2] = WriteMultipleRegisters ->
              IF bufLen < payloadAt THEN 0
              ELSE IF buf[7] \notin minWriteBytes .. maxWriteBytes THEN -1
              ELSE IF bufLen < payloadAt + buf[7] THEN 0
              ELSE IF buf[7] # 2 * Word(buf[5], buf[6]) THEN -1
              ELSE payloadAt + buf[7]
         [] OTHER -> -1

\* The status of a drive: of its registers only the two frequencies are simulated.
StatusResponse(node) ==
  LET registers == [r \in 1 .. statusRegNum |->
                      IF r \in {3, 4} THEN frequencies[node] ELSE 21845]
  IN Prepared(ModbusPacket(node, ReadMultipleRegisters, <<2 * statusRegNum>>, registers))

IsStatusRead(request) ==
  /\ request[2] = ReadMultipleRegisters
  /\ Word(request[3], request[4]) = statusRegAddress
  /\ Word(request[5], request[6]) = statusRegNum

IsFrequencyWrite(request) ==
  /\ request[2] = WriteSingleRegister
  /\ Word(request[3], request[4]) = frequencyRegAddress

\* What a request does to the drives, and the response it gets, if any.
HandleCommand(request) ==
  LET node == request[1]
      data == Word(request[5], request[6])
  IN
  CASE IsStatusRead(request) ->
         outPkt' = StatusResponse(node) /\ UNCHANGED frequencies
    [] IsFrequencyWrite(request) /\ node = 0 ->
         frequencies' = [a \in Addresses |-> data] /\ UNCHANGED outPkt
    [] IsFrequencyWrite(request) /\ node # 0 ->
         frequencies' = [frequencies EXCEPT ![node] = data] /\ outPkt' = request
    [] OTHER -> UNCHANGED <<outPkt, frequencies>>

\* Mutant: the bytes behind the request are forgotten.
RemainingDropped(totalConsumed) == <<>>

\* The bytes behind what was consumed move to the front.  memmove moves as many
\* as were consumed: if more remain, the others are left as they were.
Remaining(totalConsumed) ==
  LET left == Len(inBuf) - totalConsumed IN
  IF left <= totalConsumed
  THEN SubSeq(inBuf, totalConsumed + 1, Len(inBuf))
  ELSE SubSeq(inBuf, totalConsumed + 1, 2 * totalConsumed)
         \o SubSeq(inBuf, totalConsumed + 1, left)

DiscardConsumed(totalConsumed) ==
  /\ inBuf' = Remaining(totalConsumed)
  /\ index' = 0

\* Mutant: bytes that begin no request are waited on.
parsedLenWaits ==
  LET len == parseRequestToServer(SubSeq(inBuf, index + 1, Len(inBuf))) IN
  IF len = -1 THEN 0 ELSE len

\* The loop over the bytes in the buffer: it ends when more are needed ...
Enough == Len(inBuf) >= ModbusHeaderAndCrcSize + index
parsedLen == parseRequestToServer(SubSeq(inBuf, index + 1, Len(inBuf)))
inPkt == SubSeq(inBuf, index + 1, index + parsedLen)

AwaitBytes ==
  /\ pc = "parse"
  /\ ~Enough \/ parsedLen = 0
  /\ pc' = "read"
  /\ UNCHANGED <<rx, tx, inBuf, index, outPkt, frequencies>>

\* ... passes over a byte with which no request begins ...
SkipByte ==
  /\ pc = "parse"
  /\ Enough /\ parsedLen = -1
  /\ index' = index + 1
  /\ UNCHANGED <<rx, tx, inBuf, pc, outPkt, frequencies>>

\* ... and takes what has the form of a request out of the buffer, to handle it
\* if its CRC is right.
TakeRequest ==
  /\ pc = "parse"
  /\ Enough /\ parsedLen > 0
  /\ IF modbusValidCrc(inPkt)
     THEN HandleCommand(inPkt)
     ELSE UNCHANGED <<outPkt, frequencies>>
  /\ pc' = IF outPkt' # <<>> THEN "respond" ELSE "parse"
  /\ DiscardConsumed(index + parsedLen)
  /\ UNCHANGED <<rx, tx>>

\* The delay ends.
Respond ==
  /\ pc = "respond"
  /\ tx' = tx \o outPkt
  /\ outPkt' = <<>>
  /\ pc' = "parse"
  /\ UNCHANGED <<rx, inBuf, index, frequencies>>

func == Read \/ AwaitBytes \/ SkipByte \/ TakeRequest \/ Respond
===============================================================================
