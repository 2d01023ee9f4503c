--------------------------- MODULE MCTaskDispatch ---------------------------
(* TaskDispatch for TLC: the request slots are interchangeable. *)
EXTENDS TaskProperties, TLC

SlotSymmetry == Permutations(Slots)
=============================================================================
