\* All short segments, two of them waiting; three requests, two bodies.
CONSTANTS
    CR = CR
    LF = LF
    Colon = Colon
    Space = Space
    a = a
    Letters = {a}
    Bodies = {b1, b2}
    None = None
    MaxFirst = 5
    FirstSegments <- MCFirstSegments
    Segments <- MCSegments
    MaxEvents = 2
    MaxAnswers = 2
    MaxResponses = 1
    MaxRequests = 3
    MaxPerSegment = 2
    MaxData = 6
SPECIFICATION FairSpec
CHECK_DEADLOCK FALSE
INVARIANTS
    TypeOK
    HeadersAreParsed
    IdleIsSettled
PROPERTIES
    ImplementsExchange
    ExchangeIsLive
