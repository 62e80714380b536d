----------------------------- MODULE PacketLayout -----------------------------
(***************************************************************************)
(* How many bytes a packet takes (common/inc/packets.h): the layout of its *)
(* structs on the target and on the host, which agree on it, and the       *)
(* lengths computed from them.  Senders take a packet's length from its    *)
(* ID, the parser accepts what lies between two limits taken from the      *)
(* structs, and buffers are sized by sizeof(Packet) or a number;           *)
(* PacketParserProofs relates the three.                                   *)
(***************************************************************************)
EXTENDS Naturals

CONSTANT maxLogMsgLength

ASSUME MaxLogMsgAssumption == maxLogMsgLength \in Nat /\ maxLogMsgLength >= 64

(***************************************************************************)
(* Layout: a type has a size and an alignment.                             *)
(***************************************************************************)
Type(size, align) == [size |-> size, align |-> align]

uint8_t == Type(1, 1)
uint16_t == Type(2, 2)
uint32_t == Type(4, 4)
Array(t, n) == Type(n * t.size, t.align)

\* The next multiple of align.
Aligned(n, align) == align * ((n + align - 1) \div align)

\* The end of a struct that ended at n, with one more member.
Behind(n, t) == Aligned(n, t.align) + t.size

\* A struct that ends at n is padded to its alignment; a packed one is not.
Struct(n, align) == Type(Aligned(n, align), align)
Packed(n) == Type(n, 1)

(***************************************************************************)
(* The bodies.                                                             *)
(***************************************************************************)
LogMessage == Struct(Behind(Behind(0, uint32_t), Array(uint8_t, maxLogMsgLength)), 4)
invalidCRC == Struct(Behind(Behind(0, uint32_t), uint32_t), 4)
invalidSequence == invalidCRC
ParsingError == invalidCRC                  \* a union; the rest are single words
WatchdogTimeout == Struct(Behind(Behind(0, uint32_t), Array(uint8_t, 16)), 4)
VfdSetFrequency == Struct(Behind(Behind(0, uint8_t), uint16_t), 2)
VfdStatus == Packed(8 * uint16_t.size + uint8_t.size)
DummyPacket == Struct(Behind(Behind(0, uint32_t), Array(uint8_t, 64)), 4)
ModbusError == Packed(uint16_t.size + 2 * uint8_t.size + 2 * uint32_t.size)

Bodies == {LogMessage, ParsingError, WatchdogTimeout, VfdSetFrequency, VfdStatus,
           ModbusError, DummyPacket}

\* The union of the bodies: the log message is the longest, and its alignment is
\* that of a word (LongestBody).
body == LogMessage

(***************************************************************************)
(* The packet, and the packet in its wrapper.                              *)
(***************************************************************************)
offsetofBody == Aligned(Behind(Behind(Behind(Behind(0, uint32_t), uint32_t), uint32_t),
                               uint32_t), body.align)
Packet == Struct(offsetofBody + body.size, 4)

offsetofPacket == Aligned(Behind(Behind(0, uint32_t), uint32_t), Packet.align)
WrappedPacket == Struct(offsetofPacket + Packet.size, 4)

maxWrappedPacketLength == WrappedPacket.size
minWrappedPacketLength == WrappedPacket.size - body.size
minPacketLength == Packet.size - body.size
wrapperLength == WrappedPacket.size - Packet.size

PacketIDs ==
  {"LogMessage", "Heartbeat", "ParsingErrorInvalidLength", "ParsingErrorInvalidCRC",
   "ParsingErrorInvalidID", "ParsingErrorInvalidSequence", "ParsingErrorDroppedBytes",
   "WatchdogTimeout", "VfdSetFrequency", "VfdStatus", "ModbusError", "DummyPacket"}

packetBodySizeFromID(id) ==
  CASE id = "LogMessage" -> LogMessage.size
    [] id = "Heartbeat" -> 0
    [] id = "ParsingErrorInvalidCRC" -> invalidCRC.size
    [] id = "ParsingErrorInvalidSequence" -> invalidSequence.size
    [] id = "WatchdogTimeout" -> WatchdogTimeout.size
    [] id = "VfdSetFrequency" -> VfdSetFrequency.size
    [] id = "VfdStatus" -> VfdStatus.size
    [] id = "ModbusError" -> ModbusError.size
    [] id = "DummyPacket" -> DummyPacket.size
    [] OTHER -> uint32_t.size               \* one word of ParsingError

packetSizeFromID(id) == minPacketLength + packetBodySizeFromID(id)
wrappedPacketSizeFromID(id) == minWrappedPacketLength + packetBodySizeFromID(id)

\* Buffers a packet passes through: the message buffers of 12 packets, which
\* store a length of a word with each (uint32_t), and those of UsbTask.
msgbufSize == 12 * Packet.size
UsbTaskTSize == 2048
=============================================================================
