\* Three packets each, over buffers of one and two packets.
CONSTANTS
  w1 = w1
  w2 = w2
  NoWriter = NoWriter
  Writers <- TheWriters
  Malformed <- TheMalformed
  MaxPackets = 3
  MsgbufLen = 1
  TargetLen = 2
  SequenceNumbers = 4
  TSize = 2
  MaxReceived = 1
SPECIFICATION Spec
INVARIANT NumbersFollow
PROPERTIES ImplementsChannel BufferHeld PathEmpties
