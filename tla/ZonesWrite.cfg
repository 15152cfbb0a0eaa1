SPECIFICATION FairSpec
CONSTANTS
    Caller = {c1, c2}
    Zone = {z1}
    Device = {d1, d2}
    Variants = 3
    Schema = {2, 3}
    Attempts = 2
    Nil = Nil
CHECK_DEADLOCK FALSE
INVARIANTS
    TypeOK
    AnnouncedHasHappened
    RichestPayload
PROPERTIES
    RequestsOnceInOrder
    EveryCallerAnswered
