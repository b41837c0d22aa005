------------------------------ MODULE MCQueue ------------------------------
(* LockFreeCircleQueue on a small ring, for TLC. *)
EXTENDS LockFreeCircleQueue
=============================================================================
