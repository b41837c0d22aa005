------------------------------- MODULE MCPool -------------------------------
(* OverlappedPool with interchangeable overlappeds, for TLC. *)
EXTENDS OverlappedPool, TLC

ItemSymmetry == Permutations(Items)
=============================================================================
