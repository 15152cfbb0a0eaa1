SPECIFICATION Spec
CONSTANTS
    Request = {q1, q2}
    TTL = 3
    MaxDelay = 3
    Threshold = 2
    OpenTicks = 3
    Nil = Nil
INVARIANTS
    HitIsRecent
    TroubleForgotten
