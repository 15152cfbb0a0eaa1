----------------------------- MODULE MCChannels -----------------------------
(* Channels with interchangeable sessions and channels.                    *)
EXTENDS Channels, TLC

Symmetry == Permutations(Sid) \cup Permutations(Room)
=============================================================================
