------------------------------ MODULE MCServer ------------------------------
(* IocpServer for TLC: overlappeds created in one order, or in every order  *)
(* so that they are interchangeable.                                        *)
EXTENDS IocpServer, TLC

SomeOrder == FoldSet(LAMBDA o, order : Append(order, o), <<>>, Overlappeds)

OneCreation  == {SomeOrder}
AllCreations ==
  {[i \in DOMAIN SomeOrder |-> p[SomeOrder[i]]] : p \in Permutations(Overlappeds)}

OneEach   == [c \in Clients |-> 1]
ThreeEach == [c \in Clients |-> 3]
\* One client sends two messages, the others connect and hang up.
TwoFromOne ==
  LET talker == CHOOSE c \in Clients : TRUE
  IN  [c \in Clients |-> IF c = talker THEN 2 ELSE 0]

ServerSymmetry ==
  Permutations(Clients) \cup Permutations(Sessions) \cup Permutations(Overlappeds)
ThreadSymmetry == Permutations(Clients) \cup Permutations(Sessions)
=============================================================================
