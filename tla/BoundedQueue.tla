---------------------------- MODULE BoundedQueue ----------------------------
(***************************************************************************)
(* What Utility::LockFreeCircleQueue promises its callers: a FIFO of at    *)
(* most Capacity items.  push() of a full queue is refused, pop() of an    *)
(* empty queue returns T(), every other call takes effect at one instant.  *)
(* `returned' is what the last completed call of each thread gave back.    *)
(***************************************************************************)
EXTENDS Integers, Sequences

CONSTANTS
  Pushers,   \* threads that call push
  Poppers,   \* threads that call pop
  Items,     \* values that can be queued
  NULL,      \* T(), the value pop returns when the queue is empty
  Capacity   \* number of items the queue can hold

VARIABLES queue, returned
vars == <<queue, returned>>

Init ==
  /\ queue = <<>>
  /\ returned = [t \in Pushers \cup Poppers |-> "none"]

Push(t, item) ==
  /\ Len(queue) < Capacity
  /\ queue' = Append(queue, item)
  /\ returned' = [returned EXCEPT ![t] = "true"]

PushRefused(t) ==
  /\ Len(queue) = Capacity
  /\ returned' = [returned EXCEPT ![t] = "false"]
  /\ UNCHANGED queue

Pop(t) ==
  /\ queue # <<>>
  /\ queue' = Tail(queue)
  /\ returned' = [returned EXCEPT ![t] = Head(queue)]

PopEmpty(t) ==
  /\ queue = <<>>
  /\ returned' = [returned EXCEPT ![t] = NULL]
  /\ UNCHANGED queue

Next ==
  \/ \E t \in Pushers, item \in Items : Push(t, item)
  \/ \E t \in Pushers : PushRefused(t)
  \/ \E t \in Poppers : Pop(t) \/ PopEmpty(t)

Spec == Init /\ [][Next]_vars
=============================================================================
