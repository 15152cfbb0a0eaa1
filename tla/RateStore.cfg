SPECIFICATION Spec
CONSTANTS
    Key = {k1, k2}
    Caller = {c1, c2}
    HasRedis = TRUE
    Limit = 1
    Window = 1
    CheckDelay = 2
    Threshold = 2
    OpenTicks = 2
    LocalCap = 1
    LocalKeep = 1
    Nil = Nil
INVARIANTS
    MapUnderCap
    FallbackAtMostDoubles
    OneStoreKeepsLimit
    CircuitNeedsFailures
