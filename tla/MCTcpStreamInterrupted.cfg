\* A read that is interrupted loses the readiness of the stream.
CONSTANTS
    b1 = b1
    b2 = b2
    Socket = Socket
    Bytes = {b1, b2}
    Messages <- MCMessages
    MaxIncoming = 2
    MaxOutgoing = 1
    MaxEvents = 2
    SendBuffer = 2
    BufferMin = 1
    BufferSize = 2
    BufferStep = 1
    IoErrors = FALSE
    Interrupts = TRUE
SPECIFICATION Spec
CHECK_DEADLOCK FALSE
INVARIANTS
    NoLostReadiness
