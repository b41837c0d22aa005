------------------------ MODULE LockFreeCircleQueue ------------------------
(***************************************************************************)
(* Utility::LockFreeCircleQueue<T> (include/LockFreeCircleQueue.h): a ring *)
(* of mQueueMaxSize slots with two atomic indices.  push and pop are four  *)
(* steps each, one per access to shared memory, so that calls of different *)
(* threads interleave as the compiled code lets them.  The loads are       *)
(* acquire and the stores release, so every step sees the steps before it. *)
(*                                                                         *)
(* The class itself does not say how many threads may call it: Pushers and *)
(* Poppers are parameters, and a thread may be in both.                    *)
(***************************************************************************)
EXTENDS Integers, Sequences

CONSTANTS
  Pushers,        \* threads that call push
  Poppers,        \* threads that call pop
  Items,          \* values that can be queued
  NULL,           \* T(): returned by pop when the queue is empty
  mQueueMaxSize   \* the argument of Construct

ASSUME QueueAssumption ==
  /\ mQueueMaxSize \in Nat \ {0}
  /\ Items \cap {NULL, "none", "true", "false"} = {}
  /\ NULL \notin {"none", "true", "false"}

VARIABLES
  mInputIndex,    \* next slot push fills
  mOutputIndex,   \* next slot pop empties
  mBuffer,        \* the slots
  pc,             \* where each thread stands in push or pop
  index,          \* its local currentInputIndex or currentOutputIndex
  data,           \* its argument of push, its local data of pop
  returned        \* what its last completed call returned

vars == <<mInputIndex, mOutputIndex, mBuffer, pc, index, data, returned>>

Threads == Pushers \cup Poppers
Slots   == 0 .. mQueueMaxSize - 1
NextSlot(i) == (i + 1) % mQueueMaxSize

\* new T[queueMaxSize]: no slot holds an item yet.
Init ==
  /\ mInputIndex = 0
  /\ mOutputIndex = 0
  /\ mBuffer  = [i \in Slots |-> NULL]
  /\ pc       = [t \in Threads |-> "idle"]
  /\ index    = [t \in Threads |-> 0]
  /\ data     = [t \in Threads |-> NULL]
  /\ returned = [t \in Threads |-> "none"]

Goto(t, from, to) ==
  /\ pc[t] = from
  /\ pc' = [pc EXCEPT ![t] = to]

Return(t, from, value) ==
  /\ Goto(t, from, "idle")
  /\ returned' = [returned EXCEPT ![t] = value]

-----------------------------------------------------------------------------
(* bool push(T&& data) *)

PushLoadInput(t, item) ==
  /\ Goto(t, "idle", "push_check")
  /\ index' = [index EXCEPT ![t] = mInputIndex]
  /\ data'  = [data EXCEPT ![t] = item]
  /\ UNCHANGED <<mInputIndex, mOutputIndex, mBuffer, returned>>

PushFull(t) ==
  /\ NextSlot(index[t]) = mOutputIndex
  /\ Return(t, "push_check", "false")
  /\ UNCHANGED <<mInputIndex, mOutputIndex, mBuffer, index, data>>

\* Faulty variants: push without the test for a full ring, and push that
\* publishes the index before it writes the slot.
PushNotFullUntested(t) ==
  /\ Goto(t, "push_check", "push_write")
  /\ UNCHANGED <<mInputIndex, mOutputIndex, mBuffer, index, data, returned>>

PushNotFullPublishing(t) ==
  /\ NextSlot(index[t]) # mOutputIndex
  /\ Goto(t, "push_check", "push_write")
  /\ mInputIndex' = NextSlot(index[t])
  /\ UNCHANGED <<mOutputIndex, mBuffer, index, data, returned>>

PushNotFull(t) ==
  /\ NextSlot(index[t]) # mOutputIndex
  /\ Goto(t, "push_check", "push_write")
  /\ UNCHANGED <<mInputIndex, mOutputIndex, mBuffer, index, data, returned>>

PushWrite(t) ==
  /\ Goto(t, "push_write", "push_store")
  /\ mBuffer' = [mBuffer EXCEPT ![index[t]] = data[t]]
  /\ UNCHANGED <<mInputIndex, mOutputIndex, index, data, returned>>

PushStoreInput(t) ==
  /\ Return(t, "push_store", "true")
  /\ mInputIndex' = NextSlot(index[t])
  /\ UNCHANGED <<mOutputIndex, mBuffer, index, data>>

-----------------------------------------------------------------------------
(* T pop() *)

PopLoadOutput(t) ==
  /\ Goto(t, "idle", "pop_check")
  /\ index' = [index EXCEPT ![t] = mOutputIndex]
  /\ UNCHANGED <<mInputIndex, mOutputIndex, mBuffer, data, returned>>

PopNothing(t) ==
  /\ index[t] = mInputIndex
  /\ Return(t, "pop_check", NULL)
  /\ UNCHANGED <<mInputIndex, mOutputIndex, mBuffer, index, data>>

PopSomething(t) ==
  /\ index[t] # mInputIndex
  /\ Goto(t, "pop_check", "pop_read")
  /\ UNCHANGED <<mInputIndex, mOutputIndex, mBuffer, index, data, returned>>

\* T is a raw pointer in every queue that is popped: std::move copies it.
PopRead(t) ==
  /\ Goto(t, "pop_read", "pop_store")
  /\ data' = [data EXCEPT ![t] = mBuffer[index[t]]]
  /\ UNCHANGED <<mInputIndex, mOutputIndex, mBuffer, index, returned>>

\* Faulty variant: pop reads the slot as Front() does and leaves it there.
PopStoreOutputFront(t) ==
  /\ Return(t, "pop_store", data[t])
  /\ UNCHANGED <<mInputIndex, mOutputIndex, mBuffer, index, data>>

PopStoreOutput(t) ==
  /\ Return(t, "pop_store", data[t])
  /\ mOutputIndex' = NextSlot(index[t])
  /\ UNCHANGED <<mInputIndex, mBuffer, index, data>>

-----------------------------------------------------------------------------
PushStep(t) ==
  \/ \E item \in Items : PushLoadInput(t, item)
  \/ PushFull(t) \/ PushNotFull(t) \/ PushWrite(t) \/ PushStoreInput(t)

PopStep(t) ==
  \/ PopLoadOutput(t) \/ PopNothing(t) \/ PopSomething(t)
  \/ PopRead(t) \/ PopStoreOutput(t)

Next ==
  \/ \E t \in Pushers : PushStep(t)
  \/ \E t \in Poppers : PopStep(t)

Spec == Init /\ [][Next]_vars

-----------------------------------------------------------------------------
(* What the two indices say, and the abstraction they define. *)

\* size(): the number of filled slots.
Size ==
  IF mInputIndex >= mOutputIndex
  THEN mInputIndex - mOutputIndex
  ELSE mQueueMaxSize - mOutputIndex + mInputIndex

\* The slot k places after the output index (print() walks the queue so).
SlotAt(k) == (mOutputIndex + k) % mQueueMaxSize

\* The queued items, oldest first.
Contents == [k \in 1 .. Size |-> mBuffer[SlotAt(k - 1)]]

Abstract == INSTANCE BoundedQueue
  WITH queue <- Contents, Capacity <- mQueueMaxSize - 1

-----------------------------------------------------------------------------
(* Type invariant of the members and of the locals of both functions. *)
TypeOK ==
  /\ mInputIndex \in Slots
  /\ mOutputIndex \in Slots
  /\ mBuffer \in [Slots -> Items \cup {NULL}]
  /\ pc \in [Threads -> {"idle", "push_check", "push_write", "push_store",
                         "pop_check", "pop_read", "pop_store"}]
  /\ index \in [Threads -> Slots]
  /\ data \in [Threads -> Items \cup {NULL}]
  /\ returned \in [Threads -> Items \cup {NULL, "none", "true", "false"}]

\* At most one thread pushes and at most one pops (it may be the same one).
SingleProducerConsumer ==
  /\ \A s, t \in Pushers : s = t
  /\ \A s, t \in Poppers : s = t

(* The strengthening that makes the refinement inductive: the producer owns *)
(* the input index and the slot it names while it is inside push, the       *)
(* consumer owns the output index while it is inside pop (no other thread   *)
(* may move them between the load in line 39/55 and the store in 49/64).    *)
Pushing == {"push_check", "push_write", "push_store"}
Popping == {"pop_check", "pop_read", "pop_store"}

ProducerOwnsInput ==
  \A t \in Threads : pc[t] \in Pushing =>
    /\ t \in Pushers
    /\ index[t] = mInputIndex
    /\ data[t] \in Items
    /\ pc[t] # "push_check" => NextSlot(mInputIndex) # mOutputIndex
    /\ pc[t] = "push_store" => mBuffer[mInputIndex] = data[t]

ConsumerOwnsOutput ==
  \A t \in Threads : pc[t] \in Popping =>
    /\ t \in Poppers
    /\ index[t] = mOutputIndex
    /\ pc[t] # "pop_check" => mOutputIndex # mInputIndex
    /\ pc[t] = "pop_store" => data[t] = mBuffer[mOutputIndex]

RingInv ==
  /\ TypeOK
  /\ ProducerOwnsInput
  /\ ConsumerOwnsOutput

(* With one producer and one consumer the ring is the bounded FIFO: a push  *)
(* is refused only when mQueueMaxSize-1 items are queued (the comment on    *)
(* mQueueMaxSize), a pop fails only when the queue is empty, items come out *)
(* once, in order, and never before they are written (lines 37-66).         *)
ImplementsBoundedQueue == Abstract!Spec
=============================================================================
