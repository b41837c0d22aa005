------------------------------ MODULE MCRedis ------------------------------
(* RedisConnection on few threads and players, for TLC. *)
EXTENDS RedisConnection, TLC

RedisSymmetry == Permutations(Sessions) \cup Permutations(Players)

OneEach == [p \in Players |-> 1]
\* One player saves twice, so that one save is older, the others once.
TwiceOne ==
  LET again == CHOOSE p \in Players : TRUE
  IN  [p \in Players |-> IF p = again THEN 2 ELSE 1]
=============================================================================
