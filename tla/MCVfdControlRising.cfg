\* The host asks each drive for rising frequencies; the bus does anything.
CONSTANTS
  numNodes = 3
  Freqs <- Frequencies
  Unset = 65535
  QueueLen = 1
  MaxCommands = 2
  HostAddresses = {1, 2}
  HostRepeats = FALSE
  HostWaits = TRUE
  FaultyBus = TRUE
SPECIFICATION Spec
INVARIANTS SettledNodesObey
PROPERTIES AckIsTrue EveryNodeAsked CommandsTakeEffect
