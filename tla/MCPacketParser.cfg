SPECIFICATION Spec
CONSTANTS
    WrapperLength = 1
    MinPacketLength = 1
    MaxPacketLength = 2
    BufSize = 6
    StreamLen = 6
    SeqModulus = 3
    Headers <- MCHeaders
    maxLogMsgLength = 256
INVARIANTS
    TypeOK
    AccountsBalance
    LeftoverLeavesRoom
    NoPacketLost
    SequenceErrorsExact
    ChunkingIndependent
PROPERTIES
    ImplementsStream
    CallReturns
\* The stream is finite: the parser stops when all of it has been read.
CHECK_DEADLOCK FALSE
