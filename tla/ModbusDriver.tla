----------------------------- MODULE ModbusDriver -----------------------------
(***************************************************************************)
(* ModbusDriver (common/src/modbus_driver.cpp), byte by byte: sendRequest  *)
(* flushes the input, writes a request, reads its echo and then the        *)
(* response, each with what is left of one deadline.                       *)
(*                                                                         *)
(* The deadline is a tick count; here it ends when the environment says.   *)
(* The driver then reads once more what has arrived, without waiting.      *)
(***************************************************************************)
EXTENDS ModbusFrames

CONSTANTS
  MaxModbusPktSize, \* sizeof(inBuf)
  ReadSizes         \* how much a read returns if not all that is there

VARIABLES
  rx,           \* the receive stream of the UART, bytes still on the wire included
  tx,           \* what the UART sends, as its far end receives it
  inBuf,
  pc,           \* idle, echo or response
  request,      \* what outPkt holds: node, command and data,
  outBuf,       \* and its bytes
  readDone,     \* readMinBytesWithTimeout has left its loop
  expired       \* the deadline has passed

modbusDriverVars == <<rx, tx, inBuf, pc, request, outBuf, readDone, expired>>

Init ==
  /\ rx = <<>> /\ tx = <<>>
  /\ inBuf = <<>>
  /\ pc = "idle"
  /\ request = [node |-> 0, command |-> WriteSingleRegister, data |-> 0]
  /\ outBuf = <<>>
  /\ readDone = FALSE /\ expired = FALSE

\* The bytes read come from the front of the stream, n of them.
TakeBytes(n) ==
  /\ n <= Len(rx)
  /\ Len(inBuf) + n <= MaxModbusPktSize
  /\ inBuf' = inBuf \o SubSeq(rx, 1, n)
  /\ rx' = SubSeq(rx, n + 1, Len(rx))

shiftOutConsumedBytes(len) == inBuf' = SubSeq(inBuf, len + 1, Len(inBuf))

\* Everything that has arrived is dropped; what is still on the wire is not.
flushInput(arrived) ==
  /\ rx' = SubSeq(rx, arrived + 1, Len(rx))
  /\ inBuf' = <<>>

SendRequest(r, arrived) ==
  /\ pc = "idle"
  /\ request' = r
  /\ flushInput(arrived)
  /\ outBuf' = RequestFrame(r)
  /\ tx' = tx \o outBuf'
  /\ pc' = "echo"
  /\ readDone' = FALSE /\ expired' = FALSE

outLen == Len(outBuf)
targetLen == IF pc = "echo" THEN outLen ELSE modbusExpectedResponseLength(request)

\* One turn of readMinBytesWithTimeout that reads something, or does not wait.
ReadBytes ==
  /\ pc # "idle" /\ ~readDone
  /\ \E n \in ReadSizes \union {Len(rx)} :
       /\ n > 0 \/ expired
       /\ TakeBytes(n)
  /\ readDone' = (expired \/ Len(inBuf') >= targetLen)
  /\ UNCHANGED <<tx, pc, request, outBuf, expired>>

Expire ==
  /\ pc # "idle" /\ ~readDone /\ ~expired
  /\ expired' = TRUE
  /\ UNCHANGED <<rx, tx, inBuf, pc, request, outBuf, readDone>>

-------------------------------------------------------------------------------
(* The echo *)

EchoMatches == Len(inBuf) >= outLen /\ SubSeq(inBuf, 1, outLen) = outBuf

\* Nothing answers a broadcast.
EndEcho ==
  /\ pc = "echo" /\ readDone
  /\ EchoMatches
  /\ shiftOutConsumedBytes(outLen)
  /\ pc' = IF request.node = 0 THEN "idle" ELSE "response"
  /\ readDone' = FALSE
  /\ UNCHANGED <<rx, tx, request, outBuf, expired>>

BadEcho ==
  /\ pc = "echo" /\ readDone
  /\ ~EchoMatches
  /\ shiftOutConsumedBytes(Len(inBuf))
  /\ pc' = "idle"
  /\ readDone' = FALSE
  /\ UNCHANGED <<rx, tx, request, outBuf, expired>>

-------------------------------------------------------------------------------
(* The response *)

expectedResponseLen == modbusExpectedResponseLength(request)

IsException ==
  /\ Len(inBuf) >= ModbusExceptionPktSize
  /\ inBuf[2] = request.command + Exception
  /\ modbusValidCrc(SubSeq(inBuf, 1, ModbusExceptionPktSize))

\* Mutant: the CRC of a response is not looked at.
ValidResponseUnchecked ==
  /\ inBuf[1] = request.node /\ inBuf[2] = request.command
  /\ ResponseLength(inBuf) = expectedResponseLen

ValidResponse ==
  /\ modbusValidCrc(SubSeq(inBuf, 1, expectedResponseLen))
  /\ inBuf[1] = request.node /\ inBuf[2] = request.command
  /\ ResponseLength(inBuf) = expectedResponseLen

EndResponse ==
  /\ pc = "response" /\ readDone
  /\ pc' = "idle"
  /\ readDone' = FALSE
  /\ UNCHANGED <<rx, tx, request, outBuf, expired>>

\* VfdTask reports an exception and takes it out of the buffer.
ExceptionResponse ==
  /\ IsException
  /\ shiftOutConsumedBytes(ModbusExceptionPktSize)

NotEnoughBytes ==
  /\ ~IsException /\ Len(inBuf) < expectedResponseLen
  /\ inBuf' = <<>>

MalformedPacket ==
  /\ ~IsException /\ Len(inBuf) >= expectedResponseLen /\ ~ValidResponse
  /\ shiftOutConsumedBytes(expectedResponseLen)

\* VfdTask uses the response and takes it out of the buffer.
GoodResponse ==
  /\ ~IsException /\ Len(inBuf) >= expectedResponseLen /\ ValidResponse
  /\ shiftOutConsumedBytes(expectedResponseLen)

BadResponse ==
  /\ EndResponse
  /\ ExceptionResponse \/ NotEnoughBytes \/ MalformedPacket
===============================================================================
