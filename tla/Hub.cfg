SPECIFICATION FairSpec
CONSTANTS
    Sid = {s1}
    Room = {r1}
    Pin = {}
    Code = {c1}
    MaxRoomSize = 1
    EmptyTTL = 1
    QueueCap = 1
    SendCap = 1
    MaxRemovals = 1
    Nil = Nil
INVARIANTS
    SeatHasRemover
    OutsidersMoveOn
PROPERTIES
    DeadClientForgotten
    DroppedClientDisconnected
    MembersAreClients
    SeatFreedForGood
    EmptyChannelExpires
    ImplementsChannels
CHECK_DEADLOCK FALSE
