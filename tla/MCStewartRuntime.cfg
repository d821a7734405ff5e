\* Three actors, every nesting of process calls that they allow.
CONSTANTS
    a = a
    b = b
    c = c
    m1 = m1
    m2 = m2
    n = n
    Ids = {a, b, c}
    Messages = {m1, m2, n}
    Accepts <- MCAccepts
    MaxMailbox = 2
    MaxDepth = 4
SPECIFICATION Spec
SYMMETRY Symmetry
INVARIANTS
    TypeOK
    QueueDistinct
    QueuedIffPending
    NotReentered
    TakenIffRunning
    StaleIdHasNoMail
    BorrowSucceeds
PROPERTIES
    OkMeansDrained
    NoOvertaking
    ImplementsActorSystem
