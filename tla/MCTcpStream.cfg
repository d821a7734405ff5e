\* Safety, with calls that fail and reads that are interrupted.
CONSTANTS
    b1 = b1
    b2 = b2
    Socket = Socket
    Bytes = {b1, b2}
    Messages <- MCMessages
    MaxIncoming = 3
    MaxOutgoing = 2
    MaxEvents = 2
    SendBuffer = 2
    BufferMin = 1
    BufferSize = 2
    BufferStep = 1
    IoErrors = TRUE
    Interrupts = TRUE
SPECIFICATION Spec
CHECK_DEADLOCK FALSE
INVARIANTS
    TypeOK
    InterestMatchesQueue
    ReadHasSpace
PROPERTIES
    ImplementsStream
