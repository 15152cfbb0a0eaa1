SPECIFICATION Spec
CONSTANTS
    Sid = {s1, s2}
    QueueCap = 1
    SendCap = 2
    Nil = Nil
SYMMETRY Symmetry
INVARIANTS
    TypeOK
    ClosedAtMostOnce
    EveryClientWatched
    OpenHasCloser
CHECK_DEADLOCK FALSE
