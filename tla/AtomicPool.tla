----------------------------- MODULE AtomicPool -----------------------------
(***************************************************************************)
(* What mOverlappedQueue promises the network core: a FIFO of the free     *)
(* overlappeds on which push and pop take effect at once, and overlappeds  *)
(* that pass from hand to hand.  A session that has taken a completion     *)
(* posts one free overlapped, then gives its own back; one that finds the  *)
(* pool full is lost.                                                      *)
(***************************************************************************)
EXTENDS Integers, Sequences

CONSTANTS
  Items,        \* the overlappeds
  Sessions,     \* session threads
  NULL,         \* no overlapped
  Capacity,     \* how many the pool can hold
  NumClients    \* clients, each with one accept at the start

VARIABLES
  made,         \* overlappeds that have been given to the pool
  pool,         \* the free ones, oldest first
  accepts,      \* AcceptReady calls that have returned
  posted,       \* those the kernel has
  held,         \* held[t]: the one session t has
  fetched       \* fetched[t]: t has posted the next one

vars == <<made, pool, accepts, posted, held, fetched>>

Init ==
  /\ made = {} /\ pool = <<>> /\ accepts = 0 /\ posted = {}
  /\ held = [t \in Sessions |-> NULL]
  /\ fetched = [t \in Sessions |-> FALSE]

Push(o) == pool' = IF Len(pool) < Capacity THEN Append(pool, o) ELSE pool

\* Pop, and post what was popped.
Post ==
  /\ pool # <<>> /\ Head(pool) \notin posted
  /\ pool' = Tail(pool)
  /\ posted' = posted \cup {Head(pool)}

Fill(o) ==
  /\ o \notin made /\ accepts = 0
  /\ made' = made \cup {o}
  /\ Push(o)
  /\ UNCHANGED <<accepts, posted, held, fetched>>

Accept ==
  /\ made = Items /\ accepts < NumClients
  /\ accepts' = accepts + 1
  /\ Post
  /\ UNCHANGED <<made, held, fetched>>

Complete(t, o) ==
  /\ accepts = NumClients /\ held[t] = NULL /\ o \in posted
  /\ posted' = posted \ {o}
  /\ held' = [held EXCEPT ![t] = o]
  /\ fetched' = [fetched EXCEPT ![t] = FALSE]
  /\ UNCHANGED <<made, pool, accepts>>

Receive(t) ==
  /\ held[t] # NULL /\ ~ fetched[t]
  /\ fetched' = [fetched EXCEPT ![t] = TRUE]
  /\ Post
  /\ UNCHANGED <<made, accepts, held>>

Recycle(t) ==
  /\ held[t] # NULL /\ fetched[t]
  /\ held' = [held EXCEPT ![t] = NULL]
  /\ Push(held[t])
  /\ UNCHANGED <<made, accepts, posted, fetched>>

Next ==
  \/ \E o \in Items : Fill(o)
  \/ Accept
  \/ \E t \in Sessions : \/ \E o \in Items : Complete(t, o)
                         \/ Receive(t) \/ Recycle(t)

Spec == Init /\ [][Next]_vars
=============================================================================
