SPECIFICATION StartSpec
CONSTANTS
    Sid = {s1, s2, s3}
    Room = {r1, r2}
    MaxRoomSize = 2
    MaxCalls = 2
    Nil = Nil
SYMMETRY Symmetry
CHECK_DEADLOCK FALSE
INVARIANTS
    NewsThenList
    ListsReachEverybody
    PeersInOrder
