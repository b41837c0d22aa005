----------------------------- MODULE MCDatabase -----------------------------
(* DatabaseWorker with interchangeable players, for TLC. *)
EXTENDS DatabaseWorker

PlayerSymmetry == Permutations(Players)
=============================================================================
