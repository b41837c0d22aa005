---------------------------- MODULE ScoreLedger ----------------------------
(***************************************************************************)
(* What DatabaseWorker promises of the Score table: the scores a player    *)
(* was acknowledged are a growing list, and the table holds one of them    *)
(* (or none), which is only ever replaced by a later one.                  *)
(***************************************************************************)
EXTENDS Naturals, Sequences

CONSTANTS Players, Scores

VARIABLES
  acked,    \* acked[p]: scores acknowledged to p, oldest first
  stored    \* stored[p]: which of them the table holds, 0 for none

ledger == <<acked, stored>>

Init ==
  /\ acked \in [Players -> Seq(Scores)]
  /\ stored \in [Players -> Nat]
  /\ \A p \in Players : stored[p] <= Len(acked[p])

Acknowledge(p, score) ==
  /\ acked' = [acked EXCEPT ![p] = Append(@, score)]
  /\ UNCHANGED stored

Store(p, which) ==
  /\ stored[p] <= which /\ which <= Len(acked[p])
  /\ stored' = [stored EXCEPT ![p] = which]
  /\ UNCHANGED acked

Next ==
  \E p \in Players :
    \/ \E score \in Scores : Acknowledge(p, score)
    \/ \E which \in 1 .. Len(acked[p]) : Store(p, which)

Spec == Init /\ [][Next]_ledger
=============================================================================
