\* A call of consume without a header leaves the bytes where they were.
CONSTANTS
    CR = CR
    LF = LF
    Colon = Colon
    Space = Space
    a = a
    Letters = {a}
    Bodies = {b1, b2}
    None = None
    MaxFirst = 5
    FirstSegments <- MCFirstSegments
    Segments <- MCSegments
    MaxEvents = 2
    MaxAnswers = 2
    MaxResponses = 1
    MaxRequests = 3
    MaxPerSegment = 2
    MaxData = 6
SPECIFICATION Spec
CHECK_DEADLOCK FALSE
PROPERTY ConsumeTrimsBytes
