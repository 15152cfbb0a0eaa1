SPECIFICATION Spec
CONSTANTS
    Sid = {s1, s2, s3}
    Room = {r1}
    MaxRoomSize = 3
    SendCap = 1
    Speaker = {s1}
    MaxVoice = 2
    Acker = {s2}
    MaxAcks = 2
    MaxEvents = 3
    Nil = Nil
SYMMETRY Symmetry
CHECK_DEADLOCK FALSE
CONSTRAINT FewEvents
INVARIANTS
    InOrder
    NobodySilenced
