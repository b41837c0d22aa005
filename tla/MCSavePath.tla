----------------------------- MODULE MCSavePath -----------------------------
(* SavePath for TLC: a name of sixteen characters, its first fifteen, and    *)
(* none; interchangeable clients and overlappeds.                            *)
EXTENDS SavePath

CONSTANTS full, fifteen

MCNames  == {full, fifteen, Empty}
MCCut    == [n \in Names |-> IF n = full THEN fifteen ELSE n]
MCBegins == [n \in Names |-> IF n = full THEN Names ELSE {n, Empty}]

PathSymmetry == Permutations(Clients) \cup Permutations(Overlappeds)
=============================================================================
