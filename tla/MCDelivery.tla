----------------------------- MODULE MCDelivery -----------------------------
(* Delivery with interchangeable bystanders and channels.                  *)
EXTENDS Delivery, Functions, TLC

CONSTANT MaxEvents  \* bound: voice events and acknowledgements together

Symmetry == Permutations(Room) \cup Permutations(Sid \ (Speaker \cup Acker))

FewEvents == FoldFunction(+, 0, voiced) + FoldFunction(+, 0, acked) <= MaxEvents
=============================================================================
