--------------------------- MODULE OverlappedPool ---------------------------
(***************************************************************************)
(* mOverlappedQueue as the server uses it: LockFreeCircleQueue filled by   *)
(* the main thread in NetworkManager::Initialize and popped by it once per *)
(* client in Ready, then popped and pushed by every session thread.        *)
(* A session owns the overlapped of the completion it has taken; it pops   *)
(* another one, posts that to the kernel, and pushes the first back.       *)
(* The rest of a session (what it does with the data) is in IocpServer.    *)
(***************************************************************************)
EXTENDS LockFreeCircleQueue, FiniteSets

CONSTANTS
  Main,         \* the thread that runs Hub::Initialize
  NumClients    \* clients, each with one accept or receive outstanding

ASSUME PoolAssumption ==
  /\ Pushers = Poppers /\ Main \in Pushers
  /\ NumClients \in Nat
  /\ IsFiniteSet(Items)

VARIABLES
  created,      \* the overlappeds Initialize has constructed
  accepts,      \* how many AcceptReady calls have been made
  posted,       \* posted[o]: operations the kernel holds on overlapped o
  held          \* held[t]: the overlapped of the completion t is handling

poolVars == <<created, accepts, posted, held>>
allVars  == <<vars, poolVars>>

SessionThreads == Threads \ {Main}

\* Ready starts the sessions after the last AcceptReady.
Started == accepts = NumClients

PoolInit ==
  /\ Init
  /\ created = {}
  /\ accepts = 0
  /\ posted = [o \in Items |-> 0]
  /\ held = [t \in Threads |-> NULL]

-----------------------------------------------------------------------------
\* The steps of a call that leave the pool's bookkeeping alone.
WithinCall(t) ==
  /\ \/ PushNotFull(t) \/ PushWrite(t)
     \/ PopSomething(t) \/ PopRead(t)
  /\ UNCHANGED poolVars

\* for (i < 200) push(new CustomOverlapped())
Construct(o) ==
  /\ o \notin created
  /\ PushLoadInput(Main, o)
  /\ created' = created \cup {o}
  /\ UNCHANGED <<accepts, posted, held>>

\* A push returns: the thread has given its overlapped away, or leaked it.
PushReturns(t) ==
  /\ PushStoreInput(t) \/ PushFull(t)
  /\ held' = [held EXCEPT ![t] = NULL]
  /\ UNCHANGED <<created, accepts, posted>>

\* AcceptReady pops on the main thread.
AcceptPops ==
  /\ created = Items /\ accepts < NumClients
  /\ PopLoadOutput(Main)
  /\ UNCHANGED poolVars

\* A session takes the completion of an accept or a receive; the kernel is
\* done with that operation.
Completed(t, o) ==
  /\ Started /\ t \in SessionThreads
  /\ pc[t] = "idle" /\ held[t] = NULL /\ posted[o] > 0
  /\ held' = [held EXCEPT ![t] = o]
  /\ posted' = [posted EXCEPT ![o] = @ - 1]
  /\ returned' = [returned EXCEPT ![t] = "none"]
  /\ UNCHANGED <<mInputIndex, mOutputIndex, mBuffer, pc, index, data, created, accepts>>

\* ReceiveReady pops the overlapped of the next receive ...
ReceivePops(t) ==
  /\ held[t] # NULL /\ returned[t] = "none"
  /\ PopLoadOutput(t)
  /\ UNCHANGED poolVars

\* ... and posts it.
PopReturns(t) ==
  /\ PopStoreOutput(t)
  /\ posted' = [posted EXCEPT ![data[t]] = @ + 1]
  /\ accepts' = IF t = Main THEN accepts + 1 ELSE accepts
  /\ UNCHANGED <<created, held>>

\* Faulty variant: the overlapped is given back before the next one is posted.
RecyclePushesEarly(t) ==
  /\ held[t] # NULL
  /\ PushLoadInput(t, held[t])
  /\ UNCHANGED poolVars

\* The end of Process's loop pushes the overlapped of the completion back.
RecyclePushes(t) ==
  /\ held[t] # NULL /\ returned[t] # "none"
  /\ PushLoadInput(t, held[t])
  /\ UNCHANGED poolVars

PoolNext ==
  \/ \E o \in Items : Construct(o)
  \/ AcceptPops
  \/ \E t \in SessionThreads, o \in Items : Completed(t, o)
  \/ \E t \in SessionThreads : ReceivePops(t) \/ RecyclePushes(t)
  \/ \E t \in Threads : WithinCall(t) \/ PushReturns(t) \/ PopReturns(t)

PoolSpec == PoolInit /\ [][PoolNext]_allVars

\* No two threads are inside push at a time, nor inside pop.  Nothing in the code
\* sees to that: the sessions share the queue without a lock.
CallsApart ==
  \A t, u \in Threads :
    \/ pc[t] \in Pushing /\ pc[u] \in Pushing
    \/ pc[t] \in Popping /\ pc[u] \in Popping
    => t = u

\* The executions in which this happens to be so, whatever the number of sessions.
\* A push and a pop of two threads still interleave access by access.
ApartSpec == PoolInit /\ [][PoolNext /\ CallsApart']_allVars

-----------------------------------------------------------------------------
\* Those who may use overlapped o: the kernel once per operation, the session
\* that handles its completion, and the ring once per slot it fills.
Owners(o) ==
  posted[o]
  + Cardinality({t \in Threads : held[t] = o})
  + Cardinality({k \in DOMAIN Contents : Contents[k] = o})

(* push and pop move the ownership of an object (the comment on push,       *)
(* LockFreeCircleQueue.h:35): an overlapped is in the ring, at the kernel   *)
(* or with one thread, never in two of these places.                        *)
ExclusiveOwnership == \A o \in Items : Owners(o) <= 1

\* What the steps of the calls come to: a push or a pop takes effect where it
\* stores its index.
Atomic == INSTANCE AtomicPool WITH
  Sessions <- SessionThreads,
  Capacity <- mQueueMaxSize - 1,
  made     <- IF pc[Main] \in Pushing THEN created \ {data[Main]} ELSE created,
  pool     <- Contents,
  posted   <- {o \in Items : posted[o] > 0},
  held     <- [t \in SessionThreads |-> held[t]],
  fetched  <- [t \in SessionThreads |-> returned[t] # "none"]

(* As long as no two pushes and no two pops overlap, the four steps of a    *)
(* call may be taken as one, as IocpServer takes them, although sessions    *)
(* push while others pop: overlappeds go from the ring to the kernel, to a  *)
(* session and back in the order of the FIFO, a session posts the next one  *)
(* before it gives its own back, and only a full ring loses one             *)
(* (NetworkManager.cpp:99-105, Client.cpp:43 and 77, Session.cpp:36-124).   *)
ImplementsAtomicPool == Atomic!Spec
=============================================================================
