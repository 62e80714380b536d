SPECIFICATION Spec
CONSTANTS
    IsrLatency = TRUE
    BufLen = 4
    StreamSize = 4
    MaxLaps = 3
\* The task has always finished with a byte before the DMA is back at it.
    MaxLag = 3
    ReaderStalls = FALSE
INVARIANTS
    TypeOK
    HandedOnInOrder
    PositiveMeansLoss
PROPERTIES
    EverythingHandedOn
\* MaxLaps ends the run.
CHECK_DEADLOCK FALSE
