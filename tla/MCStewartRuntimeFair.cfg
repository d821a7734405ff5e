\* Liveness, with process called by main and by handlers.
CONSTANTS
    a = a
    b = b
    c = c
    m1 = m1
    m2 = m2
    n = n
    Ids = {a, b, c}
    Messages = {m1, m2, n}
    Accepts <- MCAccepts
    MaxMailbox = 2
    MaxDepth = 2
SPECIFICATION FairSpec
\* main stops when its call of process returned an error.
CHECK_DEADLOCK FALSE
PROPERTIES
    MessagesAreConsumed
    IsLiveActorSystem
    QueuedActorIsServed
