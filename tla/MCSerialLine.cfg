\* Two messages fit in a transfer or they do not; a chunk is cut by the destination.
CONSTANTS
  Lengths <- TheLengths
  TSize = 3
  MsgBufLen = 2
  BufSize = 3
  DstSize = 2
SPECIFICATION Spec
INVARIANTS TypeOK OneEndDrives
PROPERTIES ImplementsChannel EverythingArrives
