\* process returns early and leaves actors pending.
CONSTANTS
    a = a
    b = b
    c = c
    m1 = m1
    m2 = m2
    n = n
    Ids = {a, b, c}
    Messages = {m1, m2, n}
    Accepts <- MCAccepts
    MaxMailbox = 1
    MaxDepth = 1
SPECIFICATION Spec
PROPERTIES
    ProcessLeavesNonePending
