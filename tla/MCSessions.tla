----------------------------- MODULE MCSessions -----------------------------
(* Sessions with symmetric sids.  Symmetry is used by safety runs only.    *)
EXTENDS Sessions, TLC

Symmetry == Permutations(Sid)
=============================================================================
