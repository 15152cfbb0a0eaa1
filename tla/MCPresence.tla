------------------------------ MODULE MCPresence ------------------------------
(* Presence with interchangeable sessions and channels.                    *)
EXTENDS Presence, TLC

Symmetry == Permutations(Sid) \cup Permutations(Room)

\* Bound: a run starts with no session gone, with a new hub or with somebody in each channel.
StartInit ==
    /\ Init
    /\ \A s \in Sid : pump[s] = "reading"
    /\ \/ listed = {} /\ \A s \in Sid : client[s] = "queued"
       \/ \A r \in Room : Dir!Members(r) # {}

StartSpec == StartInit /\ [][Next]_vars
=============================================================================
