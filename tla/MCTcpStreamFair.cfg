\* The protocol of the registry and liveness, without interrupted reads.  Bytes are
\* only counted here, so that one is enough.
CONSTANTS
    b1 = b1
    b2 = b1
    Socket = Socket
    Bytes = {b1}
    Messages <- MCMessages
    MaxIncoming = 2
    MaxOutgoing = 2
    MaxEvents = 2
    SendBuffer = 2
    BufferMin = 1
    BufferSize = 2
    BufferStep = 1
    IoErrors = TRUE
    Interrupts = FALSE
SPECIFICATION FairSpec
CHECK_DEADLOCK FALSE
PROPERTIES
    UsesRegistryProperly
    StreamIsLive
