\* Two drives, and one address too many on the host.
\* Buffers for one packet and a piece of another; three keys or four packets.
CONSTANTS
  TtySize = 3
  RxSize = 3
  OutputLen = 1
  QueueLen = 1
  numVfds = 4
  MaxKeys = 3
  MaxFrequency = 1
  MaxHeartbeats = 1
  MaxPackets = 4
  numNodes = 3
  Freqs = {0, 1}
  Unset = 65535
  MaxCommands = 3
  HostAddresses = {0, 1, 2, 3}
  HostRepeats = TRUE
  HostWaits = FALSE
  FaultyBus = FALSE
SPECIFICATION BenchSpec
INVARIANT CountsAreTrue
PROPERTIES DrivesFollow CatchesUp
CHECK_DEADLOCK FALSE
