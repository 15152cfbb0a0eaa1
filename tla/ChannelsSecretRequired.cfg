SPECIFICATION Spec
CONSTANTS
    Sid = {s1, s2}
    Room = {r1}
    Pin = {p1}
    Code = {c1}
    MaxRoomSize = 2
    EmptyTTL = 1
    MaxRemovals = 0
    Nil = Nil
SYMMETRY Symmetry
PROPERTIES
    SecretRequired
