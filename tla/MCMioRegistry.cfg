\* Two sources, every order of kernel, loop and handler steps.
CONSTANTS
    s1 = s1
    s2 = s2
    Sources = {s1, s2}
    Capacity = 1
SPECIFICATION Spec
SYMMETRY Symmetry
CHECK_DEADLOCK FALSE
INVARIANTS
    TypeOK
    NoLostReadiness
    StateIsSignalled
    LoopNeverFails
