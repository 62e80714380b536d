\* The host starts a drive and then stops all of them by a broadcast.
CONSTANTS
  numNodes = 3
  Freqs <- Frequencies
  Unset = 65535
  QueueLen = 1
  MaxCommands = 2
  HostAddresses = {0, 1}
  HostRepeats = TRUE
  HostWaits = TRUE
  FaultyBus = FALSE
SPECIFICATION Spec
INVARIANT SettledNodesObey
