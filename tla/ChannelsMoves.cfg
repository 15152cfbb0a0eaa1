SPECIFICATION Spec
CONSTANTS
    Sid = {s1, s2}
    Room = {r1, r2}
    Pin = {}
    Code = {c1}
    MaxRoomSize = 1
    EmptyTTL = 1
    MaxRemovals = 1
    Nil = Nil
SYMMETRY Symmetry
INVARIANTS
    TypeOK
    MembershipConsistent
    SecretsMatchPrivacy
    OccupiedChannelListed
    EmptyChannelOnClock
    WithinCapacity
    NoOrphanMember
PROPERTIES
    ChannelIdentityStable
    EmptyClockRuns
    ImplementsDirectory
