----------------------------- MODULE ModbusFrames -----------------------------
(***************************************************************************)
(* The bytes of Modbus requests and responses (common/src/modbus_defs.cpp) *)
(* and their CRC (common/src/software_crc.cpp).  A frame is a sequence of  *)
(* bytes as on the wire: registers with the high byte first, the CRC with  *)
(* the low byte first.                                                     *)
(***************************************************************************)
EXTENDS Integers, Sequences, SequencesExt

\* The values of a uint8_t and of a uint16_t.
Byte == 0 .. 255
UINT16_MAX == 65535
Words == 0 .. UINT16_MAX

\* Registers that hold the state of a drive, and the one that sets its frequency.
statusRegAddress == 8448
statusRegNum == 8
paramReg(major, minor) == (major * 16 + minor) % 65536
frequencyRegAddress == paramReg(9, 26)

ReadMultipleRegisters == 3
WriteSingleRegister == 6
WriteMultipleRegisters == 16
Exception == 128

ModbusHeaderAndCrcSize == 4
ModbusExceptionPktSize == 5
minReadBytes == 2
maxReadBytes == 250
minWriteBytes == 2
maxWriteBytes == 246

Word(high, low) == high * 256 + low

\* invert16 on the way to the wire.
OnWire(words) == FlattenSeq([i \in DOMAIN words |-> <<words[i] \div 256, words[i] % 256>>])

\* x xor w, for a power of two, and the table of byte xor x.
FlipBit(x, w) == IF (x \div w) % 2 = 1 THEN x - w ELSE x + w
XorBit(x, byte, w) == IF (byte \div w) % 2 = 1 THEN FlipBit(x, w) ELSE x
XorByte == [byte \in Byte |-> [x \in Byte |->
  XorBit(XorBit(XorBit(XorBit(XorBit(XorBit(XorBit(XorBit(
    x, byte, 1), byte, 2), byte, 4), byte, 8), byte, 16), byte, 32), byte, 64), byte, 128)]]

\* A bit leaves the register, a 1 through the polynomial 16#A001, which is 16#8005
\* inverted.
ShiftBit(reg) ==
  LET rest == reg \div 2 IN
  IF reg % 2 = 1 THEN FlipBit(FlipBit(FlipBit(rest, 32768), 8192), 1) ELSE rest

\* What eight shifts make of each value of the register, a constant table.
ShiftByte == [reg \in Words |->
  ShiftBit(ShiftBit(ShiftBit(ShiftBit(ShiftBit(ShiftBit(ShiftBit(ShiftBit(reg))))))))]

\* A byte goes into the lower half of the register.
FeedByte(byte) == [reg \in Words |->
  ShiftByte[256 * (reg \div 256) + XorByte[byte][reg % 256]]]

crc16(data) ==
  LET reg[n \in 0 .. Len(data)] == IF n = 0 THEN UINT16_MAX ELSE FeedByte(data[n])[reg[n - 1]]
  IN reg[Len(data)]

\* modbusPreparePacketForTransmit: the CRC of the wire's bytes behind them.
Prepared(body) == LET crc == crc16(body) IN body \o <<crc % 256, crc \div 256>>

modbusValidCrc(frame) ==
  LET len == Len(frame) IN
  Word(frame[len], frame[len - 1]) = crc16(SubSeq(frame, 1, len - 2))

\* A packed struct ModbusPacket: the union holds words of the host behind the
\* header, and before the words of some packets a count of their bytes.
ModbusPacket(node, command, count, words) == <<node, command>> \o count \o OnWire(words)

\* Requests of the VFD task: a frequency is written, the status is read.
RequestFrame(r) ==
  Prepared(
    IF r.command = WriteSingleRegister
    THEN ModbusPacket(r.node, r.command, <<>>, <<frequencyRegAddress, r.data>>)
    ELSE ModbusPacket(r.node, r.command, <<>>, <<statusRegAddress, statusRegNum>>))

modbusExpectedResponseLength(r) ==
  IF r.command = ReadMultipleRegisters
  THEN ModbusHeaderAndCrcSize + 1 + 2 * statusRegNum
  ELSE ModbusHeaderAndCrcSize + 4

\* modbusGetLengthAndSwapEndianness of a response; 0 is an error.
ResponseLength(frame) ==
  CASE frame[2] = ReadMultipleRegisters ->
         IF frame[3] \in minReadBytes .. maxReadBytes /\ frame[3] % 2 = 0
         THEN frame[3] + 5 ELSE 0
    [] frame[2] \in {WriteSingleRegister, WriteMultipleRegisters} -> 8
    [] OTHER -> IF frame[2] >= Exception THEN ModbusExceptionPktSize ELSE 0
===============================================================================
