------------------------- MODULE OverlappedPoolProofs -------------------------
(***************************************************************************)
(* The pool of any number of session threads, for any ring, number of      *)
(* clients and overlappeds.  As long as no two pushes and no two pops       *)
(* overlap, nobody has an overlapped that somebody else has                *)
(* (PoolExclusive), and every push and pop of the server takes effect at   *)
(* one instant (PoolRefinement), although sessions push while others pop.  *)
(* Two overlapping calls of one kind are thus the only way the queue can   *)
(* fail the server; the run pool_two_sessions shows that they do.          *)
(***************************************************************************)
EXTENDS OverlappedPool, LockFreeCircleQueueProofs, FiniteSetTheorems

-----------------------------------------------------------------------------
(* The inductive invariant. *)

PoolTypes ==
  /\ TypeOK
  /\ created \subseteq Items /\ accepts \in Nat
  /\ posted \in [Items -> Nat] /\ held \in [Threads -> Items \cup {NULL}]

\* Who may be inside a call, and when.
Phases ==
  /\ accepts <= NumClients
  /\ accepts > 0 => created = Items
  /\ \A o \in Items : posted[o] > 0 => accepts > 0
  /\ pc[Main] \in Pushing => accepts = 0
  /\ pc[Main] \in Popping => created = Items /\ accepts < NumClients
  /\ held[Main] = NULL
  /\ \A t \in SessionThreads : /\ pc[t] # "idle" => held[t] # NULL
                               /\ held[t] # NULL => Started /\ accepts > 0
                               /\ pc[t] \in Pushing => data[t] = held[t]

\* An overlapped is in one slot, or posted once, or held, or being constructed.
Homes ==
  /\ \A i, j \in 1 .. Len(Contents) : Contents[i] = Contents[j] => i = j
  /\ \A i \in 1 .. Len(Contents) :
       /\ Contents[i] \in created /\ posted[Contents[i]] = 0
       /\ \A t \in Threads : held[t] # Contents[i]
       /\ pc[Main] \in Pushing => data[Main] # Contents[i]
  /\ \A o \in Items : /\ posted[o] <= 1
                      /\ posted[o] > 0 => \A t \in Threads : held[t] # o
  /\ \A t, u \in Threads : held[t] # NULL /\ held[t] = held[u] => t = u
  /\ pc[Main] \in Pushing => data[Main] \in created

PoolInv == PoolTypes /\ ProducerOwnsInput /\ ConsumerOwnsOutput /\ Phases /\ Homes

-----------------------------------------------------------------------------
(* One thread at a time inside push, and one inside pop. *)

\* Every thread of the pool may push and pop.
LEMMA AnyThread ==
  /\ Threads = Pushers /\ Threads = Poppers /\ Main \in Threads
  /\ \A t \in Threads : t = Main \/ t \in SessionThreads
  /\ \A t \in SessionThreads : t \in Threads /\ t # Main
  /\ NumClients \in Nat
  BY PoolAssumption DEF Threads, SessionThreads

\* The main thread has left the ring when a session has an overlapped, and no
\* session is inside a call while the main thread is.
LEMMA MainIsDone ==
  ASSUME TypeOK, Phases, NEW t \in SessionThreads, held[t] # NULL
  PROVE  pc[Main] = "idle"
  <1>1. pc[Main] # "idle" => pc[Main] \in Pushing \cup Popping
    BY AnyThread DEF TypeOK, Pushing, Popping
  <1>2. accepts = NumClients /\ accepts > 0
    BY DEF Phases, Started
  <1> QED  BY <1>1, <1>2, AnyThread DEF Phases

\* A push that no other push disturbs; a pop may be under way.
LEMMA PushOwns ==
  ASSUME TypeOK, ProducerOwnsInput, ConsumerOwnsOutput, NEW t \in Threads, PushStep(t),
         \A u \in Threads : u # t => pc[u] \notin Pushing
  PROVE  ProducerOwnsInput' /\ ConsumerOwnsOutput'
  <1> USE AnyThread DEF TypeOK, Goto, Return, ProducerOwnsInput, ConsumerOwnsOutput, Pushing, Popping
  <1>1. ASSUME NEW item \in Items, PushLoadInput(t, item)
        PROVE  ProducerOwnsInput' /\ ConsumerOwnsOutput'
    BY <1>1 DEF PushLoadInput
  <1>2. CASE PushFull(t)
    BY <1>2 DEF PushFull
  <1>3. CASE PushNotFull(t)
    BY <1>3 DEF PushNotFull, NextSlot
  <1>4. CASE PushWrite(t)
    <2>1. ProducerOwnsInput'
      BY <1>4 DEF PushWrite, NextSlot
    <2>2. ConsumerOwnsOutput'
      BY <1>4 DEF PushWrite
    <2> QED  BY <2>1, <2>2
  <1>5. CASE PushStoreInput(t)
    <2>1. NextSlot(mInputIndex) # mOutputIndex /\ index[t] = mInputIndex
      BY <1>5 DEF PushStoreInput
    <2>2. \A s \in Threads : pc'[s] \notin Pushing
      BY <1>5 DEF PushStoreInput
    <2>3. ConsumerOwnsOutput'
      BY <1>5, <2>1 DEF PushStoreInput
    <2> QED  BY <2>2, <2>3
  <1> QED  BY <1>1, <1>2, <1>3, <1>4, <1>5 DEF PushStep

\* A pop that no other pop disturbs; a push may be under way.
LEMMA PopOwns ==
  ASSUME TypeOK, ProducerOwnsInput, ConsumerOwnsOutput, NEW t \in Threads, PopStep(t),
         \A u \in Threads : u # t => pc[u] \notin Popping
  PROVE  ProducerOwnsInput' /\ ConsumerOwnsOutput'
  <1> USE AnyThread DEF TypeOK, Goto, Return, ProducerOwnsInput, ConsumerOwnsOutput, Pushing, Popping
  <1>1. CASE PopLoadOutput(t)
    BY <1>1 DEF PopLoadOutput, NextSlot
  <1>2. CASE PopNothing(t)
    BY <1>2 DEF PopNothing, NextSlot
  <1>3. CASE PopSomething(t)
    BY <1>3 DEF PopSomething, NextSlot
  <1>4. CASE PopRead(t)
    BY <1>4 DEF PopRead, NextSlot
  <1>5. CASE PopStoreOutput(t)
    <2>1. mOutputIndex # mInputIndex /\ index[t] = mOutputIndex
      BY <1>5 DEF PopStoreOutput
    <2>2. \A s \in Threads : pc'[s] \notin Popping
      BY <1>5 DEF PopStoreOutput
    <2>3. NextSlot(mInputIndex) # NextSlot(mOutputIndex)
      BY <2>1, NextSlotInjective
    <2>4. mOutputIndex' = NextSlot(mOutputIndex) /\ mInputIndex' = mInputIndex
      BY <1>5, <2>1 DEF PopStoreOutput
    <2>5. NextSlot(mInputIndex') # mOutputIndex'
      BY <2>3, <2>4
    <2>6. ProducerOwnsInput'
      BY <1>5, <2>5 DEF PopStoreOutput
    <2> QED  BY <2>2, <2>6
  <1> QED  BY <1>1, <1>2, <1>3, <1>4, <1>5 DEF PopStep

\* A step of one thread leaves where the others stand.
LEMMA OthersStay ==
  ASSUME TypeOK, NEW t \in Threads, PushStep(t) \/ PopStep(t), NEW u \in Threads, u # t
  PROVE  pc'[u] = pc[u] /\ data'[u] = data[u]
  <1> USE DEF TypeOK, Goto, Return
  <1>1. CASE PushStep(t)
    BY <1>1 DEF PushStep, PushLoadInput, PushFull, PushNotFull, PushWrite, PushStoreInput
  <1>2. CASE PopStep(t)
    BY <1>2 DEF PopStep, PopLoadOutput, PopNothing, PopSomething, PopRead, PopStoreOutput
  <1> QED  BY <1>1, <1>2

\* As long as calls of a kind stay apart, a step inside a call is a step of the ring.
LEMMA RingStep ==
  ASSUME CallsApart, CallsApart', PoolInv, NEW t \in Threads, PushStep(t) \/ PopStep(t)
  PROVE  TypeOK' /\ ProducerOwnsInput' /\ ConsumerOwnsOutput'
  <1>1. TypeOK'
    BY TypeStep, AnyThread DEF PoolInv, PoolTypes, Next
  <1>2. TypeOK /\ ProducerOwnsInput /\ ConsumerOwnsOutput
    BY DEF PoolInv, PoolTypes
  <1>3. \A u \in Threads : u # t => pc'[u] = pc[u]
    BY <1>2, OthersStay
  <1>4. CASE PushStep(t)
    <2>1. pc[t] \in Pushing \/ pc'[t] \in Pushing
      BY <1>2, <1>4 DEF TypeOK, PushStep, PushLoadInput, PushFull, PushNotFull,
                        PushWrite, PushStoreInput, Goto, Return, Pushing
    <2>2. \A u \in Threads : u # t => pc[u] \notin Pushing
      BY <1>3, <2>1 DEF CallsApart
    <2> QED  BY <1>1, <1>2, <1>4, <2>2, PushOwns
  <1>5. CASE PopStep(t)
    <2>1. pc[t] \in Popping \/ pc'[t] \in Popping
      BY <1>2, <1>5 DEF TypeOK, PopStep, PopLoadOutput, PopNothing, PopSomething,
                        PopRead, PopStoreOutput, Goto, Return, Popping
    <2>2. \A u \in Threads : u # t => pc[u] \notin Popping
      BY <1>3, <2>1 DEF CallsApart
    <2> QED  BY <1>1, <1>2, <1>5, <2>2, PopOwns
  <1> QED  BY <1>4, <1>5

\* The steps that neither publish nor free a slot leave the queued overlappeds
\* as they are.
LEMMA QuietStep ==
  ASSUME PoolInv, TypeOK', NEW t \in Threads,
         \/ \E o \in Items : PushLoadInput(t, o)
         \/ PushFull(t) \/ PushNotFull(t) \/ PushWrite(t)
         \/ PopLoadOutput(t) \/ PopSomething(t) \/ PopRead(t)
  PROVE  Contents' = Contents
  <1>0. TypeOK /\ index[t] \in Slots  BY DEF PoolInv, PoolTypes, TypeOK
  <1>1. UNCHANGED <<mInputIndex, mOutputIndex>>
    BY DEF PushLoadInput, PushFull, PushNotFull, PushWrite,
           PopLoadOutput, PopSomething, PopRead
  <1>2. \A i \in Slots : i # mInputIndex => mBuffer'[i] = mBuffer[i]
    <2>1. CASE PushWrite(t)
      <3>1. index[t] = mInputIndex
        BY <2>1 DEF PushWrite, Goto, PoolInv, ProducerOwnsInput, Pushing
      <3>2. mBuffer' = [mBuffer EXCEPT ![mInputIndex] = data[t]]
        BY <2>1, <3>1 DEF PushWrite
      <3> QED  BY <1>0, <3>2 DEF TypeOK
    <2>2. CASE ~ PushWrite(t)
      <3>1. mBuffer' = mBuffer
        BY <2>2 DEF PushLoadInput, PushFull, PushNotFull,
                    PopLoadOutput, PopSomething, PopRead
      <3> QED  BY <3>1
    <2> QED  BY <2>1, <2>2
  <1> QED  BY <1>0, <1>1, <1>2, SameContents

\* The store of a push appends what the thread pushes.
LEMMA PushPublishes ==
  ASSUME PoolInv, TypeOK', NEW t \in Threads, PushStoreInput(t)
  PROVE  /\ Contents' = Append(Contents, data[t])
         /\ data[t] \in Items
  <1>1. /\ index[t] = mInputIndex /\ data[t] \in Items
        /\ NextSlot(mInputIndex) # mOutputIndex
        /\ mBuffer[mInputIndex] = data[t]
    BY DEF PushStoreInput, Return, Goto, PoolInv, ProducerOwnsInput, Pushing
  <1>2. UNCHANGED <<mOutputIndex, mBuffer>> /\ mInputIndex' = NextSlot(mInputIndex)
    BY <1>1 DEF PushStoreInput
  <1>3. Contents' = Append(Contents, mBuffer[mInputIndex])
    BY <1>1, <1>2, StoreInputAppends DEF PoolInv, PoolTypes
  <1> QED  BY <1>1, <1>3

\* The store of a pop takes the oldest one, which is what the thread has read.
LEMMA PopTakes ==
  ASSUME PoolInv, TypeOK', NEW t \in Threads, PopStoreOutput(t)
  PROVE  /\ Contents # <<>>
         /\ Contents' = Tail(Contents)
         /\ data[t] = Head(Contents)
  <1>1. /\ index[t] = mOutputIndex /\ mOutputIndex # mInputIndex
        /\ data[t] = mBuffer[mOutputIndex]
    BY DEF PopStoreOutput, Return, Goto, PoolInv, ConsumerOwnsOutput, Popping
  <1>2. UNCHANGED <<mInputIndex, mBuffer>> /\ mOutputIndex' = NextSlot(mOutputIndex)
    BY <1>1 DEF PopStoreOutput
  <1> QED  BY <1>1, <1>2, StoreOutputTakesHead DEF PoolInv, PoolTypes

-----------------------------------------------------------------------------
(* The invariant is inductive. *)

\* The server starts with nothing constructed.
LEMMA PoolStarts == PoolInit => PoolInv
  <1> SUFFICES ASSUME PoolInit  PROVE PoolInv
    OBVIOUS
  <1>1. Init  BY DEF PoolInit
  <1>2. TypeOK /\ ProducerOwnsInput /\ ConsumerOwnsOutput
    BY <1>1, RingInvInit DEF RingInv
  <1>3. PoolTypes
    BY <1>2 DEF PoolInit, PoolTypes
  <1>4. \A t \in Threads : pc[t] = "idle" /\ held[t] = NULL
    BY DEF PoolInit, Init
  <1>5. Phases
    BY <1>4, AnyThread DEF PoolInit, Phases, Pushing, Popping
  <1>6. Len(Contents) = 0
    <2>1. Size = 0  BY QueueAssumption DEF PoolInit, Init, Size
    <2> QED  BY <1>2, <2>1, ContentsIsSeq
  <1>7. Homes
    <2>1. \A o \in Items : posted[o] = 0  BY DEF PoolInit
    <2>2. pc[Main] \notin Pushing  BY <1>4, AnyThread DEF Pushing
    <2> QED  BY <1>4, <1>6, <2>1, <2>2 DEF Homes
  <1> QED  BY <1>2, <1>3, <1>5, <1>7 DEF PoolInv

\* In the invariant a queued overlapped is one the server has constructed.
LEMMA QueuedTyped ==
  ASSUME PoolInv
  PROVE  /\ Len(Contents) \in Nat
         /\ \A i \in 1 .. Len(Contents) : Contents[i] \in Items
  <1>1. Contents \in Seq(Items \cup {NULL})
    BY ContentsIsSeq DEF PoolInv, PoolTypes
  <1>2. Len(Contents) \in Nat
    BY <1>1
  <1> QED  BY <1>2 DEF PoolInv, PoolTypes, Homes

\* An overlapped not yet constructed is nowhere.
LEMMA NewIsNowhere ==
  ASSUME PoolInv, NEW o \in Items, o \notin created
  PROVE  /\ accepts = 0 /\ \A x \in Items : posted[x] = 0
         /\ \A t \in Threads : held[t] = NULL
         /\ \A i \in 1 .. Len(Contents) : Contents[i] # o
  <1>1. accepts = 0
    BY DEF PoolInv, PoolTypes, Phases
  <1>2. \A x \in Items : posted[x] = 0
    BY <1>1 DEF PoolInv, PoolTypes, Phases
  <1>3. \A t \in Threads : held[t] = NULL
    BY <1>1, AnyThread DEF PoolInv, Phases
  <1> QED  BY <1>1, <1>2, <1>3 DEF PoolInv, Homes

\* The main thread begins to push a new overlapped.
LEMMA ConstructKeeps ==
  ASSUME CallsApart, CallsApart', PoolInv, NEW o \in Items, Construct(o)
  PROVE  PoolInv'
  <1>0. /\ o \notin created /\ PushLoadInput(Main, o) /\ created' = created \cup {o}
        /\ UNCHANGED <<accepts, posted, held>>
    BY DEF Construct
  <1>1. /\ accepts = 0 /\ \A x \in Items : posted[x] = 0
        /\ \A t \in Threads : held[t] = NULL
        /\ \A i \in 1 .. Len(Contents) : Contents[i] # o
    BY <1>0, NewIsNowhere
  <1>2. \A u \in Threads : u # Main => pc[u] = "idle"
    BY <1>1, AnyThread DEF PoolInv, Phases
  <1>3. TypeOK' /\ ProducerOwnsInput' /\ ConsumerOwnsOutput'
    BY <1>0, RingStep, AnyThread DEF PushStep
  <1>4. PoolTypes'
    BY <1>0, <1>3 DEF PoolTypes, PoolInv
  <1>5. /\ pc' = [pc EXCEPT ![Main] = "push_check"]
        /\ data' = [data EXCEPT ![Main] = o]
    BY <1>0 DEF PushLoadInput, Goto
  <1>6. pc'[Main] = "push_check" /\ data'[Main] = o
        /\ \A u \in SessionThreads : pc'[u] = "idle"
    BY <1>2, <1>5, AnyThread DEF PoolInv, PoolTypes, TypeOK
  <1>7. Phases'
    BY <1>0, <1>1, <1>6, AnyThread DEF PoolInv, Phases, Pushing, Popping
  <1>8. Contents' = Contents
    BY <1>0, <1>3, QuietStep, AnyThread
  <1>9. Homes'
    BY <1>0, <1>1, <1>6, <1>8 DEF PoolInv, Homes
  <1> QED  BY <1>3, <1>4, <1>7, <1>9 DEF PoolInv

\* A step within a call.
LEMMA WithinKeeps ==
  ASSUME CallsApart, CallsApart', PoolInv, NEW t \in Threads, WithinCall(t)
  PROVE  PoolInv'
  <1>0. UNCHANGED <<created, accepts, posted, held>>
        /\ (PushNotFull(t) \/ PushWrite(t) \/ PopSomething(t) \/ PopRead(t))
    BY DEF WithinCall, poolVars
  <1>1. pc[t] # "idle"
    BY <1>0 DEF PushNotFull, PushWrite, PopSomething, PopRead, Goto
  <1>3. TypeOK' /\ ProducerOwnsInput' /\ ConsumerOwnsOutput'
    BY <1>0, RingStep DEF PushStep, PopStep
  <1>4. PoolTypes'
    BY <1>0, <1>3 DEF PoolTypes, PoolInv
  <1>5. Contents' = Contents
    BY <1>0, <1>3, QuietStep
  <1>6. /\ \A u \in Threads : u # t => pc'[u] = pc[u] /\ data'[u] = data[u]
        /\ pc'[t] \in Pushing => pc[t] \in Pushing /\ data'[t] = data[t]
        /\ pc'[t] \in Popping => pc[t] \in Popping
    BY <1>0 DEF PushNotFull, PushWrite, PopSomething, PopRead, Goto, Pushing, Popping,
                PoolInv, PoolTypes, TypeOK
  <1>7. Phases'
    BY <1>0, <1>1, <1>6, AnyThread DEF PoolInv, Phases, Started
  <1>8. Homes'
    BY <1>0, <1>5, <1>6, AnyThread DEF PoolInv, Homes
  <1> QED  BY <1>3, <1>4, <1>7, <1>8 DEF PoolInv

\* The main thread begins the pop of an accept.
LEMMA AcceptKeeps ==
  ASSUME CallsApart, CallsApart', PoolInv, AcceptPops
  PROVE  PoolInv'
  <1>0. /\ created = Items /\ accepts < NumClients /\ PopLoadOutput(Main)
        /\ UNCHANGED <<created, accepts, posted, held>>
    BY DEF AcceptPops, poolVars
  <1>2. \A u \in Threads : u # Main => pc[u] = "idle"
    <2>1. ~ Started  BY <1>0, AnyThread DEF Started, PoolInv, PoolTypes
    <2> QED  BY <2>1, AnyThread DEF PoolInv, Phases
  <1>3. TypeOK' /\ ProducerOwnsInput' /\ ConsumerOwnsOutput'
    BY <1>0, RingStep, AnyThread DEF PopStep
  <1>4. PoolTypes'
    BY <1>0, <1>3 DEF PoolTypes, PoolInv
  <1>5. Contents' = Contents
    BY <1>0, <1>3, QuietStep, AnyThread
  <1>6. pc'[Main] = "pop_check" /\ \A u \in SessionThreads : pc'[u] = "idle"
    BY <1>0, <1>2, AnyThread DEF PopLoadOutput, Goto, PoolInv, PoolTypes, TypeOK
  <1>7. Phases'
    BY <1>0, <1>6, AnyThread DEF PoolInv, Phases, Pushing, Popping, Started
  <1>8. Homes'
    BY <1>0, <1>5, <1>6, AnyThread DEF PoolInv, Homes, Pushing
  <1> QED  BY <1>3, <1>4, <1>7, <1>8 DEF PoolInv

\* A session begins the pop of a receive.
LEMMA ReceiveKeeps ==
  ASSUME CallsApart, CallsApart', PoolInv, NEW t \in SessionThreads, ReceivePops(t)
  PROVE  PoolInv'
  <1>0. /\ held[t] # NULL /\ PopLoadOutput(t) /\ t \in Threads /\ t # Main
        /\ UNCHANGED <<created, accepts, posted, held>>
    BY AnyThread DEF ReceivePops, poolVars
  <1>3. TypeOK' /\ ProducerOwnsInput' /\ ConsumerOwnsOutput'
    BY <1>0, RingStep DEF PopStep
  <1>4. PoolTypes'
    BY <1>0, <1>3 DEF PoolTypes, PoolInv
  <1>5. Contents' = Contents
    BY <1>0, <1>3, QuietStep
  <1>6. /\ pc'[t] = "pop_check"
        /\ \A u \in Threads : u # t => pc'[u] = pc[u] /\ data'[u] = data[u]
    BY <1>0 DEF PopLoadOutput, Goto, PoolInv, PoolTypes, TypeOK
  <1>7. Phases'
    BY <1>0, <1>6, AnyThread DEF PoolInv, Phases, Pushing, Popping, Started
  <1>8. Homes'
    BY <1>0, <1>5, <1>6, AnyThread DEF PoolInv, Homes, Pushing
  <1> QED  BY <1>3, <1>4, <1>7, <1>8 DEF PoolInv

\* A session begins to push the overlapped it has handled.
LEMMA RecycleKeeps ==
  ASSUME CallsApart, CallsApart', PoolInv, NEW t \in SessionThreads, RecyclePushes(t)
  PROVE  PoolInv'
  <1>0. /\ held[t] # NULL /\ PushLoadInput(t, held[t]) /\ t \in Threads /\ t # Main
        /\ UNCHANGED <<created, accepts, posted, held>>
    BY AnyThread DEF RecyclePushes, poolVars
  <1>1. held[t] \in Items
    BY <1>0 DEF PoolInv, PoolTypes
  <1>3. TypeOK' /\ ProducerOwnsInput' /\ ConsumerOwnsOutput'
    BY <1>0, <1>1, RingStep DEF PushStep
  <1>4. PoolTypes'
    BY <1>0, <1>3 DEF PoolTypes, PoolInv
  <1>5. Contents' = Contents
    BY <1>0, <1>1, <1>3, QuietStep
  <1>6. /\ pc'[t] = "push_check" /\ data'[t] = held[t]
        /\ \A u \in Threads : u # t => pc'[u] = pc[u] /\ data'[u] = data[u]
    BY <1>0 DEF PushLoadInput, Goto, PoolInv, PoolTypes, TypeOK
  <1>7. Phases'
    BY <1>0, <1>6, AnyThread DEF PoolInv, Phases, Pushing, Popping, Started
  <1>8. Homes'
    BY <1>0, <1>5, <1>6, AnyThread DEF PoolInv, Homes, Pushing
  <1> QED  BY <1>3, <1>4, <1>7, <1>8 DEF PoolInv

\* A session takes a completion: the overlapped passes from the kernel to it.
LEMMA CompletedKeeps ==
  ASSUME PoolInv, NEW t \in SessionThreads, NEW o \in Items, Completed(t, o)
  PROVE  PoolInv'
  <1>0. /\ Started /\ pc[t] = "idle" /\ held[t] = NULL /\ posted[o] > 0
        /\ held' = [held EXCEPT ![t] = o]
        /\ posted' = [posted EXCEPT ![o] = @ - 1]
        /\ returned' = [returned EXCEPT ![t] = "none"]
        /\ UNCHANGED <<mInputIndex, mOutputIndex, mBuffer, pc, index, data, created, accepts>>
        /\ t \in Threads /\ t # Main
    BY AnyThread DEF Completed
  <1>1. posted[o] = 1 /\ accepts > 0 /\ \A u \in Threads : held[u] # o
    BY <1>0 DEF PoolInv, PoolTypes, Phases, Homes
  <1>2. TypeOK' /\ ProducerOwnsInput' /\ ConsumerOwnsOutput'
    BY <1>0 DEF PoolInv, PoolTypes, TypeOK, ProducerOwnsInput, ConsumerOwnsOutput, NextSlot
  <1>3. /\ \A x \in Items : posted'[x] = IF x = o THEN 0 ELSE posted[x]
        /\ \A u \in Threads : held'[u] = IF u = t THEN o ELSE held[u]
    BY <1>0, <1>1 DEF PoolInv, PoolTypes
  <1>4. PoolTypes'
    BY <1>0, <1>1, <1>2 DEF PoolTypes, PoolInv
  <1>5. Contents' = Contents
    BY <1>0 DEF Contents, Size, SlotAt
  <1>6. Phases'
    BY <1>0, <1>1, <1>3, AnyThread DEF PoolInv, Phases, Pushing, Popping, Started
  <1>7. \A i \in 1 .. Len(Contents) : Contents[i] # o
    BY <1>0, QueuedTyped DEF PoolInv, Homes
  <1>8. Homes'
    BY <1>0, <1>1, <1>3, <1>5, <1>7, QueuedTyped, AnyThread
    DEF PoolInv, PoolTypes, Homes
  <1> QED  BY <1>2, <1>4, <1>6, <1>8 DEF PoolInv

\* The thread whose push is under way: its overlapped is nowhere else.
LEMMA PushedIsAlone ==
  ASSUME PoolInv, NEW t \in Threads, pc[t] \in Pushing
  PROVE  /\ data[t] \in created /\ data[t] \in Items /\ posted[data[t]] = 0
         /\ \A u \in Threads : u # t => held[u] # data[t]
         /\ \A i \in 1 .. Len(Contents) : Contents[i] # data[t]
  <1>0. data[t] \in Items /\ pc[t] # "idle" /\ NULL \notin Items
    BY QueueAssumption DEF PoolInv, ProducerOwnsInput, Pushing
  <1>1. CASE t = Main
    <2>1. accepts = 0  BY <1>1 DEF PoolInv, Phases
    <2>2. \A u \in Threads : held[u] = NULL
      BY <2>1, AnyThread DEF PoolInv, Phases
    <2>3. posted[data[t]] = 0
      BY <2>1, <1>0 DEF PoolInv, PoolTypes, Phases
    <2> QED  BY <1>0, <1>1, <2>2, <2>3 DEF PoolInv, Homes
  <1>2. CASE t # Main
    <2>1. t \in SessionThreads /\ data[t] = held[t] /\ accepts > 0 /\ created = Items
      BY <1>0, <1>2, AnyThread DEF PoolInv, Phases
    <2>2. \A u \in Threads : u # t => held[u] # data[t]
      BY <1>0, <2>1, <1>2 DEF PoolInv, Homes
    <2>3. posted[data[t]] = 0
      BY <2>1, <1>0 DEF PoolInv, PoolTypes, Homes
    <2>4. \A i \in 1 .. Len(Contents) : Contents[i] # data[t]
      BY <2>1 DEF PoolInv, Homes
    <2> QED  BY <1>0, <2>1, <2>2, <2>3, <2>4
  <1> QED  BY <1>1, <1>2

\* A push returns: the overlapped passes to the ring, or is lost when it is full.
LEMMA PushReturnsKeeps ==
  ASSUME CallsApart, CallsApart', PoolInv, NEW t \in Threads, PushReturns(t)
  PROVE  PoolInv'
  <1>0. /\ PushStoreInput(t) \/ PushFull(t)
        /\ held' = [held EXCEPT ![t] = NULL]
        /\ UNCHANGED <<created, accepts, posted>>
    BY DEF PushReturns
  <1>1. pc[t] \in Pushing /\ pc[t] # "idle"
        /\ pc' = [pc EXCEPT ![t] = "idle"] /\ UNCHANGED data
    BY <1>0 DEF PushStoreInput, PushFull, Return, Goto, Pushing
  <1>3. TypeOK' /\ ProducerOwnsInput' /\ ConsumerOwnsOutput'
    BY <1>0, RingStep DEF PushStep
  <1>4. PoolTypes'
    BY <1>0, <1>3 DEF PoolTypes, PoolInv
  <1>5. /\ pc'[t] = "idle" /\ held'[t] = NULL
        /\ \A u \in Threads : u # t => pc'[u] = pc[u] /\ held'[u] = held[u]
    BY <1>0, <1>1 DEF PoolInv, PoolTypes, TypeOK
  <1>6. Phases'
    BY <1>0, <1>1, <1>5, AnyThread DEF PoolInv, Phases, Pushing, Popping, Started
  <1>7. Homes'
    <2>0. /\ data[t] \in created /\ data[t] \in Items /\ posted[data[t]] = 0
          /\ \A i \in 1 .. Len(Contents) : Contents[i] # data[t]
          /\ \A u \in Threads : u # t => held[u] # data[t]
      BY <1>1, PushedIsAlone
    <2>1. /\ \A i, j \in 1 .. Len(Contents') : Contents'[i] = Contents'[j] => i = j
          /\ \A i \in 1 .. Len(Contents') :
               /\ Contents'[i] \in created /\ posted[Contents'[i]] = 0
               /\ \A u \in Threads : u # t => held[u] # Contents'[i]
      <3>1. CASE PushFull(t)
        <4>1. Contents' = Contents  BY <3>1, <1>3, QuietStep
        <4> QED  BY <4>1 DEF PoolInv, Homes
      <3>2. CASE PushStoreInput(t)
        <4>1. Contents' = Append(Contents, data[t])
          BY <3>2, <1>3, PushPublishes
        <4>2. Contents \in Seq(Items \cup {NULL})
          BY ContentsIsSeq DEF PoolInv, PoolTypes
        <4>3. PICK s \in Seq(Items \cup {NULL}) : s = Contents
          BY <4>2
        <4>4. PICK d \in Items : d = data[t]
          BY <2>0
        <4>5. /\ Len(Append(s, d)) = Len(s) + 1 /\ Len(s) \in Nat
              /\ \A i \in 1 .. Len(Append(s, d)) :
                   IF i = Len(s) + 1 THEN Append(s, d)[i] = d
                   ELSE i \in 1 .. Len(s) /\ Append(s, d)[i] = s[i]
          OBVIOUS
        <4>6. /\ \A i, j \in 1 .. Len(s) : s[i] = s[j] => i = j
              /\ \A i \in 1 .. Len(s) : /\ s[i] \in created /\ posted[s[i]] = 0 /\ s[i] # d
                                        /\ \A u \in Threads : held[u] # s[i]
          BY <2>0, <4>3, <4>4 DEF PoolInv, Homes
        <4>7. PICK a : a = Append(s, d)
          OBVIOUS
        <4>8. Contents' = a
          BY <4>1, <4>3, <4>4, <4>7
        <4>9. \A i, j \in 1 .. Len(a) : a[i] = a[j] => i = j
          BY <4>5, <4>6, <4>7
        <4>10. \A i \in 1 .. Len(a) : /\ a[i] \in created /\ posted[a[i]] = 0
                                       /\ \A u \in Threads : u # t => held[u] # a[i]
          BY <2>0, <4>4, <4>5, <4>6, <4>7
        <4> QED  BY <4>8, <4>9, <4>10
      <3> QED  BY <1>0, <3>1, <3>2
    <2>2. \A i \in 1 .. Len(Contents') : \A u \in Threads : held'[u] # Contents'[i]
      <3>1. \A i \in 1 .. Len(Contents') : Contents'[i] # NULL
        BY <2>1, QueueAssumption DEF PoolInv, PoolTypes
      <3> QED  BY <3>1, <2>1, <1>5
    <2>3. pc'[Main] \in Pushing =>
            /\ pc[Main] \in Pushing /\ t # Main /\ accepts = 0
      BY <1>5, AnyThread DEF PoolInv, Phases, Pushing
    <2>4. pc'[Main] \notin Pushing
      BY <1>1, <2>3, AnyThread DEF PoolInv, Phases, Pushing
    <2>5. \A o \in Items : /\ posted'[o] <= 1
                           /\ posted'[o] > 0 => \A u \in Threads : held'[u] # o
      BY <1>0, <1>5, QueueAssumption DEF PoolInv, Homes
    <2>6. \A u, v \in Threads : held'[u] # NULL /\ held'[u] = held'[v] => u = v
      BY <1>5 DEF PoolInv, Homes
    <2> QED  BY <1>0, <2>1, <2>2, <2>4, <2>5, <2>6 DEF Homes
  <1> QED  BY <1>3, <1>4, <1>6, <1>7 DEF PoolInv

\* A pop returns: the overlapped passes from the ring to the kernel.
LEMMA PopReturnsKeeps ==
  ASSUME CallsApart, CallsApart', PoolInv, NEW t \in Threads, PopReturns(t)
  PROVE  PoolInv'
  <1>0. /\ PopStoreOutput(t)
        /\ posted' = [posted EXCEPT ![data[t]] = @ + 1]
        /\ accepts' = IF t = Main THEN accepts + 1 ELSE accepts
        /\ UNCHANGED <<created, held>>
    BY DEF PopReturns
  <1>1. pc[t] \in Popping /\ pc[t] # "idle"
        /\ pc' = [pc EXCEPT ![t] = "idle"] /\ UNCHANGED data
    BY <1>0 DEF PopStoreOutput, Return, Goto, Popping
  <1>3. TypeOK' /\ ProducerOwnsInput' /\ ConsumerOwnsOutput'
    BY <1>0, RingStep DEF PopStep
  <1>4. PICK s \in Seq(Items \cup {NULL}) : s = Contents
    BY ContentsIsSeq DEF PoolInv, PoolTypes
  <1>5. s # <<>> /\ Contents' = Tail(s) /\ data[t] = Head(s)
    BY <1>0, <1>3, <1>4, PopTakes
  <1>6. /\ Len(Tail(s)) = Len(s) - 1 /\ Len(s) \in Nat \ {0} /\ Head(s) = s[1]
        /\ \A i \in 1 .. Len(Tail(s)) : Tail(s)[i] = s[i + 1] /\ i + 1 \in 1 .. Len(s)
    BY <1>5
  <1>7. PICK d : d = data[t]
    OBVIOUS
  <1>8. /\ d \in Items /\ d \in created /\ posted[d] = 0
        /\ \A u \in Threads : held[u] # d
        /\ d = s[1]
    <2>1. d = s[1] /\ 1 \in 1 .. Len(s)  BY <1>5, <1>6, <1>7
    <2> QED  BY <2>1, <1>4 DEF PoolInv, PoolTypes, Homes
  <1>9. \A x \in Items : posted'[x] = IF x = d THEN 1 ELSE posted[x]
    BY <1>0, <1>7, <1>8 DEF PoolInv, PoolTypes
  <1>10. /\ accepts' \in Nat /\ accepts' <= NumClients /\ accepts' > 0 /\ created = Items
         /\ t # Main => accepts' = accepts /\ accepts > 0
         /\ t = Main => \A u \in SessionThreads : held[u] = NULL
    <2>1. CASE t = Main
      <3>1. created = Items /\ accepts < NumClients /\ accepts \in Nat
        BY <1>1, <2>1 DEF PoolInv, PoolTypes, Phases
      <3>2. \A u \in SessionThreads : held[u] = NULL
        BY <3>1, AnyThread DEF PoolInv, Phases, Started
      <3> QED  BY <1>0, <2>1, <3>1, <3>2, AnyThread
    <2>2. CASE t # Main
      <3>1. t \in SessionThreads  BY <2>2, AnyThread
      <3>2. accepts > 0 /\ created = Items /\ accepts <= NumClients /\ accepts \in Nat
        BY <1>1, <3>1 DEF PoolInv, PoolTypes, Phases
      <3> QED  BY <1>0, <2>2, <3>2
    <2> QED  BY <2>1, <2>2
  <1>11. posted' \in [Items -> Nat]
    BY <1>0, <1>7, <1>8 DEF PoolInv, PoolTypes
  <1>12. PoolTypes'
    BY <1>0, <1>3, <1>10, <1>11 DEF PoolTypes, PoolInv
  <1>13. /\ pc'[t] = "idle"
         /\ \A u \in Threads : u # t => pc'[u] = pc[u]
         /\ pc'[Main] \notin Pushing
    <2>1. pc'[t] = "idle" /\ \A u \in Threads : u # t => pc'[u] = pc[u]
      BY <1>1 DEF PoolInv, PoolTypes, TypeOK
    <2>2. t # Main => pc[Main] \notin Pushing
      BY <1>10, AnyThread DEF PoolInv, Phases
    <2> QED  BY <2>1, <2>2, AnyThread DEF Pushing
  <1>14. Phases'
    <2>1. \A u \in SessionThreads : held'[u] # NULL => Started' /\ accepts' > 0
      BY <1>0, <1>10 DEF PoolInv, Phases, Started
    <2>2. t # Main => pc[Main] = "idle"
      BY <1>1, MainIsDone, AnyThread DEF PoolInv, PoolTypes, Phases
    <2> QED
      BY <1>0, <1>1, <1>10, <1>13, <2>1, <2>2, AnyThread
      DEF PoolInv, Phases, Pushing, Popping
  <1>15. Homes'
    <2>0. /\ \A i, j \in 1 .. Len(s) : s[i] = s[j] => i = j
          /\ \A i \in 1 .. Len(s) : /\ s[i] \in created /\ posted[s[i]] = 0
                                    /\ \A u \in Threads : held[u] # s[i]
      BY <1>4 DEF PoolInv, Homes
    <2>1. PICK r : r = Tail(s)
      OBVIOUS
    <2>2. /\ Len(r) = Len(s) - 1 /\ Len(s) \in Nat \ {0}
          /\ \A i \in 1 .. Len(r) : r[i] = s[i + 1] /\ i + 1 \in 1 .. Len(s)
      BY <2>1, <1>6
    <2>3. \A i, j \in 1 .. Len(r) : r[i] = r[j] => i = j
      BY <2>0, <2>2
    <2>4. \A i \in 1 .. Len(r) : r[i] # d /\ r[i] \in Items
      <3>1. SUFFICES ASSUME NEW i \in 1 .. Len(r)  PROVE r[i] # d /\ r[i] \in Items
        OBVIOUS
      <3>2. r[i] = s[i + 1] /\ i + 1 \in 1 .. Len(s) /\ 1 \in 1 .. Len(s) /\ i + 1 # 1
        BY <2>2
      <3> QED  BY <3>2, <2>0, <1>8 DEF PoolInv, PoolTypes
    <2>5. \A i \in 1 .. Len(r) : /\ r[i] \in created /\ posted'[r[i]] = 0
                                 /\ \A u \in Threads : held[u] # r[i]
      BY <2>0, <2>2, <2>4, <1>9
    <2>6. /\ pc'[Main] \notin Pushing
          /\ \A u, v \in Threads : held[u] # NULL /\ held[u] = held[v] => u = v
      BY <1>13 DEF PoolInv, Homes
    <2>7. \A o \in Items : /\ posted'[o] <= 1
                           /\ posted'[o] > 0 => \A u \in Threads : held[u] # o
      BY <1>8, <1>9 DEF PoolInv, Homes
    <2>8. Contents' = r /\ held' = held /\ created' = created
      BY <1>0, <1>5, <2>1
    <2> QED  BY <2>3, <2>5, <2>6, <2>7, <2>8 DEF Homes
  <1> QED  BY <1>3, <1>12, <1>14, <1>15 DEF PoolInv

-----------------------------------------------------------------------------
(* From the invariant to the owners. *)

\* A set whose elements are all equal has at most one.
LEMMA AtMostOne ==
  ASSUME NEW S, \A x, y \in S : x = y
  PROVE  Cardinality(S) = IF S = {} THEN 0 ELSE 1
  <1>1. CASE S = {}
    BY <1>1, FS_EmptySet
  <1>2. CASE S # {}
    <2>1. PICK x : S = {x}
      BY <1>2
    <2> QED  BY <1>2, <2>1, FS_Singleton
  <1> QED  BY <1>1, <1>2

\* A place each, and at most one of each kind.
LEMMA HomesAreExclusive ==
  ASSUME PoolInv
  PROVE  ExclusiveOwnership
  <1> SUFFICES ASSUME NEW o \in Items  PROVE Owners(o) <= 1
    BY DEF ExclusiveOwnership
  <1> DEFINE Holders == {t \in Threads : held[t] = o}
             Filled  == {k \in DOMAIN Contents : Contents[k] = o}
  <1>1. o # NULL
    BY QueueAssumption
  <1>2. \A t, u \in Holders : t = u
    BY <1>1 DEF PoolInv, Homes
  <1>3. DOMAIN Contents = 1 .. Len(Contents)
    <2>1. Contents \in Seq(Items \cup {NULL})
      BY ContentsIsSeq DEF PoolInv, PoolTypes
    <2> QED  BY <2>1
  <1>4. \A k, l \in Filled : k = l
    BY <1>3 DEF PoolInv, Homes
  <1>5. posted[o] \in {0, 1} /\ (posted[o] > 0 => Holders = {} /\ Filled = {})
    <2>1. posted[o] \in Nat /\ posted[o] <= 1
      BY DEF PoolInv, PoolTypes, Homes
    <2>2. posted[o] > 0 => Holders = {}
      BY DEF PoolInv, Homes
    <2>3. posted[o] > 0 => Filled = {}
      BY <1>3 DEF PoolInv, Homes
    <2> QED  BY <2>1, <2>2, <2>3
  <1>6. Holders # {} => Filled = {}
    BY <1>3 DEF PoolInv, Homes
  <1>7. Cardinality(Holders) = IF Holders = {} THEN 0 ELSE 1
    <2> HIDE DEF Holders
    <2> QED  BY <1>2, AtMostOne
  <1>8. Cardinality(Filled) = IF Filled = {} THEN 0 ELSE 1
    <2> HIDE DEF Filled
    <2> QED  BY <1>4, AtMostOne
  <1>9. Owners(o) = posted[o] + Cardinality(Holders) + Cardinality(Filled)
    BY DEF Owners
  <1> HIDE DEF Holders, Filled
  <1> QED  BY <1>5, <1>6, <1>7, <1>8, <1>9

\* A step in which nothing changes.
LEMMA PoolStutters ==
  ASSUME PoolInv, UNCHANGED allVars
  PROVE  PoolInv'
  <1>1. UNCHANGED <<mInputIndex, mOutputIndex, mBuffer, pc, index, data, returned,
                    created, accepts, posted, held>>
    BY DEF allVars, vars, poolVars
  <1>2. TypeOK' /\ ProducerOwnsInput' /\ ConsumerOwnsOutput'
    BY <1>1 DEF PoolInv, PoolTypes, TypeOK, ProducerOwnsInput, ConsumerOwnsOutput, NextSlot
  <1>3. PoolTypes'
    BY <1>1, <1>2 DEF PoolInv, PoolTypes
  <1>4. Phases'
    BY <1>1 DEF PoolInv, Phases, Started
  <1>5. Contents' = Contents
    BY <1>1 DEF Contents, Size, SlotAt
  <1>6. Homes'
    BY <1>1, <1>5 DEF PoolInv, Homes
  <1> QED  BY <1>2, <1>3, <1>4, <1>6 DEF PoolInv

\* No step of the pool disturbs the invariant while calls of a kind stay apart.
LEMMA PoolStep == CallsApart /\ CallsApart' /\ PoolInv /\ [PoolNext]_allVars => PoolInv'
  <1> SUFFICES ASSUME CallsApart, CallsApart', PoolInv, [PoolNext]_allVars  PROVE PoolInv'
    OBVIOUS
  <1>1. ASSUME NEW o \in Items, Construct(o)  PROVE PoolInv'
    BY <1>1, ConstructKeeps
  <1>2. CASE AcceptPops
    BY <1>2, AcceptKeeps
  <1>3. ASSUME NEW t \in SessionThreads, NEW o \in Items, Completed(t, o)  PROVE PoolInv'
    BY <1>3, CompletedKeeps
  <1>4. ASSUME NEW t \in SessionThreads, ReceivePops(t) \/ RecyclePushes(t)  PROVE PoolInv'
    BY <1>4, ReceiveKeeps, RecycleKeeps
  <1>5. ASSUME NEW t \in Threads, WithinCall(t) \/ PushReturns(t) \/ PopReturns(t)
        PROVE  PoolInv'
    BY <1>5, WithinKeeps, PushReturnsKeeps, PopReturnsKeeps
  <1>6. CASE UNCHANGED allVars
    BY <1>6, PoolStutters
  <1> QED  BY <1>1, <1>2, <1>3, <1>4, <1>5, <1>6 DEF PoolNext

\* Any number of sessions: as long as no two pushes and no two pops overlap, push
\* and pop move the ownership of an overlapped (the comment at
\* LockFreeCircleQueue.h:35): it is in the ring, at the kernel or with one session,
\* never in two of these places.
THEOREM PoolExclusive == PoolSpec /\ []CallsApart => []ExclusiveOwnership
  <1>1. CallsApart /\ CallsApart' /\ PoolInv /\ [PoolNext]_allVars => PoolInv'
    BY PoolStep
  <1>2. PoolInv => ExclusiveOwnership
    BY HomesAreExclusive
  <1> QED  BY <1>1, <1>2, PoolStarts, PTL DEF PoolSpec

-----------------------------------------------------------------------------
(* The refinement of AtomicPool: the step that stores an index is the push   *)
(* or the pop, every other step of a call stutters.                          *)

\* A session is inside pop before it has been returned an overlapped, inside
\* push after.
Turns ==
  \A t \in SessionThreads : /\ pc[t] \in Pushing => returned[t] # "none"
                            /\ pc[t] \in Popping => returned[t] = "none"

\* Starting or continuing a call is in turn if the thread is.
LEMMA TurnsStep == PoolInv /\ Turns /\ [PoolNext]_allVars => Turns'
  <1> SUFFICES ASSUME PoolInv, Turns, [PoolNext]_allVars  PROVE Turns'
    OBVIOUS
  <1> USE AnyThread DEF Turns, PoolInv, PoolTypes, TypeOK, Pushing, Popping, Goto, Return
  <1>1. ASSUME NEW o \in Items, Construct(o)  PROVE Turns'
    BY <1>1 DEF Construct, PushLoadInput
  <1>2. CASE AcceptPops
    BY <1>2 DEF AcceptPops, PopLoadOutput
  <1>3. ASSUME NEW t \in SessionThreads, NEW o \in Items, Completed(t, o)  PROVE Turns'
    BY <1>3 DEF Completed
  <1>4. ASSUME NEW t \in SessionThreads, ReceivePops(t)  PROVE Turns'
    BY <1>4 DEF ReceivePops, PopLoadOutput
  <1>5. ASSUME NEW t \in SessionThreads, RecyclePushes(t)  PROVE Turns'
    BY <1>5 DEF RecyclePushes, PushLoadInput
  <1>6. ASSUME NEW t \in Threads, WithinCall(t)  PROVE Turns'
    BY <1>6 DEF WithinCall, PushNotFull, PushWrite, PopSomething, PopRead
  <1>7. ASSUME NEW t \in Threads, PushReturns(t)  PROVE Turns'
    BY <1>7 DEF PushReturns, PushStoreInput, PushFull
  <1>8. ASSUME NEW t \in Threads, PopReturns(t)  PROVE Turns'
    BY <1>8 DEF PopReturns, PopStoreOutput
  <1>9. CASE UNCHANGED allVars
    BY <1>9 DEF allVars, vars
  <1> QED
    BY <1>1, <1>2, <1>3, <1>4, <1>5, <1>6, <1>7, <1>8, <1>9 DEF PoolNext

\* An empty ring, and nothing constructed.
LEMMA AtomicInit == PoolInit => Atomic!Init
  <1> SUFFICES ASSUME PoolInit  PROVE Atomic!Init
    OBVIOUS
  <1>1. TypeOK /\ Size = 0
    BY RingInvInit, QueueAssumption DEF PoolInit, Init, RingInv, Size
  <1>2. Contents = <<>>
    BY <1>1, ContentsIsSeq
  <1>3. \A t \in Threads : pc[t] = "idle" /\ held[t] = NULL /\ returned[t] = "none"
    BY DEF PoolInit, Init
  <1>4. /\ (IF pc[Main] \in Pushing THEN created \ {data[Main]} ELSE created) = {}
        /\ accepts = 0 /\ {o \in Items : posted[o] > 0} = {}
    BY <1>3, AnyThread DEF PoolInit, Pushing
  <1>5. [t \in SessionThreads |-> held[t]] = [t \in SessionThreads |-> NULL]
    BY <1>3, AnyThread
  <1>6. [t \in SessionThreads |-> returned[t] # "none"] = [t \in SessionThreads |-> FALSE]
    <2>1. \A t \in SessionThreads : (returned[t] # "none") = FALSE
      BY <1>3, AnyThread
    <2> QED  BY <2>1, Zenon
  <1> QED  BY <1>2, <1>4, <1>5, <1>6 DEF Atomic!Init

\* The overlappeds that have been given to the pool.
Given == IF pc[Main] \in Pushing THEN created \ {data[Main]} ELSE created

\* A step that stores no index.
LEMMA AtomicStutters ==
  ASSUME PoolInv, TypeOK', NEW t \in Threads,
         \/ \E o \in Items : Construct(o)
         \/ t = Main /\ AcceptPops
         \/ t \in SessionThreads /\ (ReceivePops(t) \/ RecyclePushes(t))
         \/ WithinCall(t)
  PROVE  UNCHANGED Atomic!vars
  <1> USE AnyThread
  <1>1. UNCHANGED <<accepts, posted, held, returned>>
    BY DEF Construct, AcceptPops, ReceivePops, RecyclePushes, WithinCall, poolVars,
           PushLoadInput, PopLoadOutput, PushNotFull, PushWrite, PopSomething, PopRead
  <1>2. Contents' = Contents
    <2>1. ASSUME NEW o \in Items, Construct(o)  PROVE Contents' = Contents
      BY <2>1, QuietStep DEF Construct
    <2>2. CASE t \in SessionThreads /\ RecyclePushes(t)
      <3>1. held[t] \in Items
        BY <2>2 DEF RecyclePushes, PoolInv, PoolTypes
      <3> QED  BY <2>2, <3>1, QuietStep DEF RecyclePushes
    <2>3. CASE \/ t = Main /\ AcceptPops
               \/ t \in SessionThreads /\ ReceivePops(t)
               \/ WithinCall(t)
      BY <2>3, QuietStep DEF AcceptPops, ReceivePops, WithinCall
    <2> QED  BY <2>1, <2>2, <2>3
  <1>3. Given' = Given
    <2> USE DEF Given, PoolInv, PoolTypes, TypeOK, Pushing, Goto
    <2>1. ASSUME NEW o \in Items, Construct(o)  PROVE Given' = Given
      <3>1. /\ o \notin created /\ created' = created \cup {o}
            /\ pc[Main] = "idle" /\ pc'[Main] = "push_check" /\ data'[Main] = o
        BY <2>1 DEF Construct, PushLoadInput
      <3> QED  BY <3>1
    <2>2. CASE t = Main /\ AcceptPops
      <3>1. created' = created /\ pc[Main] = "idle" /\ pc'[Main] = "pop_check"
        BY <2>2 DEF AcceptPops, PopLoadOutput, poolVars
      <3> QED  BY <3>1
    <2>3. CASE t \in SessionThreads /\ (ReceivePops(t) \/ RecyclePushes(t))
      <3>1. created' = created /\ pc'[Main] = pc[Main] /\ data'[Main] = data[Main]
        BY <2>3 DEF ReceivePops, RecyclePushes, PopLoadOutput, PushLoadInput, poolVars
      <3> QED  BY <3>1
    <2>4. CASE WithinCall(t)
      <3>1. /\ created' = created /\ (pc'[Main] \in Pushing <=> pc[Main] \in Pushing)
            /\ pc[Main] \in Pushing => data'[Main] = data[Main]
        BY <2>4 DEF WithinCall, PushNotFull, PushWrite, PopSomething, PopRead, poolVars
      <3> QED  BY <3>1
    <2> QED  BY <2>1, <2>2, <2>3, <2>4
  <1> QED  BY <1>1, <1>2, <1>3 DEF Atomic!vars, Given

\* The kernel hands an overlapped to a session.
LEMMA AtomicCompletes ==
  ASSUME PoolInv, NEW t \in SessionThreads, NEW o \in Items, Completed(t, o)
  PROVE  Atomic!Complete(t, o)
  <1>0. /\ accepts = NumClients /\ held[t] = NULL /\ posted[o] > 0 /\ posted[o] \in Nat
        /\ held' = [held EXCEPT ![t] = o]
        /\ posted' = [posted EXCEPT ![o] = @ - 1]
        /\ returned' = [returned EXCEPT ![t] = "none"]
        /\ UNCHANGED <<mInputIndex, mOutputIndex, mBuffer, pc, index, data, created, accepts>>
    BY DEF Completed, Started, PoolInv, PoolTypes
  <1>1. Contents' = Contents /\ Given' = Given
    BY <1>0 DEF Contents, Size, SlotAt, Given
  <1>2. posted[o] = 1
    BY <1>0 DEF PoolInv, Homes
  <1>3. \A x \in Items : posted'[x] = IF x = o THEN 0 ELSE posted[x]
    BY <1>0, <1>2 DEF PoolInv, PoolTypes
  <1>4. {x \in Items : posted'[x] > 0} = {x \in Items : posted[x] > 0} \ {o}
    BY <1>3
  <1>5. [u \in SessionThreads |-> held'[u]]
          = [[u \in SessionThreads |-> held[u]] EXCEPT ![t] = o]
    BY <1>0, AnyThread DEF PoolInv, PoolTypes
  <1>6. [u \in SessionThreads |-> returned'[u] # "none"]
          = [[u \in SessionThreads |-> returned[u] # "none"] EXCEPT ![t] = FALSE]
    <2>1. /\ \A u \in SessionThreads : u # t => returned'[u] = returned[u]
          /\ returned'[t] = "none"
      BY <1>0, AnyThread DEF PoolInv, PoolTypes, TypeOK
    <2>2. (returned'[t] # "none") = FALSE
      BY <2>1
    <2> QED  BY <2>1, <2>2, Zenon
  <1>7. o \in {x \in Items : posted[x] > 0} /\ [u \in SessionThreads |-> held[u]][t] = NULL
    BY <1>0
  <1> QED
    BY <1>0, <1>1, <1>4, <1>5, <1>6, <1>7 DEF Atomic!Complete, Given

\* A push returns: Capacity tells whether the overlapped is stored or lost.
LEMMA PushedAtOnce ==
  ASSUME PoolInv, TypeOK', NEW t \in Threads, PushReturns(t)
  PROVE  /\ Contents' = IF Len(Contents) < mQueueMaxSize - 1
                        THEN Append(Contents, data[t]) ELSE Contents
         /\ UNCHANGED <<created, accepts, posted, data>>
         /\ held' = [held EXCEPT ![t] = NULL]
         /\ pc[t] \in Pushing /\ pc' = [pc EXCEPT ![t] = "idle"]
         /\ \E r \in {"true", "false"} : returned' = [returned EXCEPT ![t] = r]
  <1>0. Len(Contents) = Size /\ mInputIndex \in Slots /\ mOutputIndex \in Slots /\ TypeOK
    BY ContentsIsSeq DEF PoolInv, PoolTypes, TypeOK
  <1>1. /\ UNCHANGED <<created, accepts, posted, data>>
        /\ held' = [held EXCEPT ![t] = NULL]
        /\ pc[t] \in Pushing /\ pc' = [pc EXCEPT ![t] = "idle"]
        /\ \E r \in {"true", "false"} : returned' = [returned EXCEPT ![t] = r]
    BY DEF PushReturns, PushStoreInput, PushFull, Return, Goto, Pushing
  <1>2. index[t] = mInputIndex
    BY <1>1 DEF PoolInv, ProducerOwnsInput
  <1>3. CASE PushFull(t)
    <2>1. NextSlot(mInputIndex) = mOutputIndex
      BY <1>2, <1>3 DEF PushFull
    <2>2. Len(Contents) = mQueueMaxSize - 1
      BY <1>0, <2>1, SizeTellsEmptyFromFull
    <2>3. Contents' = Contents
      BY <1>3, QuietStep
    <2>4. ~ (Len(Contents) < mQueueMaxSize - 1)
      BY <2>2, QueueAssumption
    <2> QED  BY <1>1, <2>3, <2>4
  <1>4. CASE PushStoreInput(t)
    <2>1. NextSlot(mInputIndex) # mOutputIndex
      BY <1>4 DEF PushStoreInput, Return, Goto, PoolInv, ProducerOwnsInput, Pushing
    <2>2. UNCHANGED <<mOutputIndex, mBuffer>> /\ mInputIndex' = NextSlot(mInputIndex)
      BY <1>2, <1>4 DEF PushStoreInput
    <2>3. Len(Contents) < mQueueMaxSize - 1
      BY <1>0, <2>1, <2>2, StoreInputAppends
    <2>4. Contents' = Append(Contents, data[t])
      BY <1>4, PushPublishes
    <2> QED  BY <1>1, <2>3, <2>4
  <1> QED  BY <1>3, <1>4 DEF PushReturns

\* The push of Initialize, or the push at the end of Process.
LEMMA AtomicPushes ==
  ASSUME PoolInv, PoolInv', Turns, NEW t \in Threads, PushReturns(t)
  PROVE  (\E o \in Items : Atomic!Fill(o)) \/ (t \in SessionThreads /\ Atomic!Recycle(t))
  <1>0. TypeOK'  BY DEF PoolInv, PoolTypes
  <1>1. /\ Contents' = IF Len(Contents) < mQueueMaxSize - 1
                       THEN Append(Contents, data[t]) ELSE Contents
        /\ UNCHANGED <<created, accepts, posted, data>>
        /\ held' = [held EXCEPT ![t] = NULL]
        /\ pc[t] \in Pushing /\ pc' = [pc EXCEPT ![t] = "idle"]
        /\ \E r \in {"true", "false"} : returned' = [returned EXCEPT ![t] = r]
    BY <1>0, PushedAtOnce
  <1>2. /\ \A u \in Threads : u # t => held'[u] = held[u] /\ returned'[u] = returned[u]
                                       /\ pc'[u] = pc[u]
        /\ held'[t] = NULL /\ returned'[t] # "none" /\ pc'[t] = "idle"
    BY <1>1 DEF PoolInv, PoolTypes, TypeOK
  <1>3. data[t] \in Items /\ data[t] \in created
    BY <1>1, PushedIsAlone
  <1>4. {x \in Items : posted'[x] > 0} = {x \in Items : posted[x] > 0}
    BY <1>1
  <1>5. Atomic!Push(data[t])
    BY <1>1 DEF Atomic!Push
  <1>6. CASE t = Main
    <2>1. accepts = 0
      BY <1>1, <1>6 DEF PoolInv, Phases
    <2>2. Given = created \ {data[t]} /\ Given' = created
      BY <1>1, <1>2, <1>6 DEF Given, Pushing
    <2>3. data[t] \notin Given /\ Given' = Given \cup {data[t]}
      BY <1>3, <2>2
    <2>4. [u \in SessionThreads |-> held'[u]] = [u \in SessionThreads |-> held[u]]
      BY <1>2, <1>6, AnyThread
    <2>5. [u \in SessionThreads |-> returned'[u] # "none"]
            = [u \in SessionThreads |-> returned[u] # "none"]
      BY <1>2, <1>6, AnyThread
    <2>6. Atomic!Fill(data[t])
      BY <1>1, <1>4, <1>5, <2>1, <2>3, <2>4, <2>5 DEF Atomic!Fill, Given
    <2> QED  BY <1>3, <2>6
  <1>7. CASE t # Main
    <2>1. t \in SessionThreads
      BY <1>7, AnyThread
    <2>2. data[t] = held[t] /\ held[t] # NULL /\ returned[t] # "none"
      BY <1>1, <2>1 DEF PoolInv, Phases, Turns, Pushing
    <2>3. Given' = Given
      BY <1>1, <1>2, <1>7, AnyThread DEF Given
    <2>4. [u \in SessionThreads |-> held'[u]]
            = [[u \in SessionThreads |-> held[u]] EXCEPT ![t] = NULL]
      BY <1>2, <2>1, AnyThread
    <2>5. [u \in SessionThreads |-> returned'[u] # "none"]
            = [u \in SessionThreads |-> returned[u] # "none"]
      BY <1>2, <2>1, <2>2, AnyThread
    <2>6. /\ [u \in SessionThreads |-> held[u]][t] = data[t]
          /\ [u \in SessionThreads |-> held[u]][t] # NULL
          /\ [u \in SessionThreads |-> returned[u] # "none"][t]
      BY <2>1, <2>2
    <2>7. Atomic!Recycle(t)
      BY <1>1, <1>4, <1>5, <2>3, <2>4, <2>5, <2>6 DEF Atomic!Recycle, Given
    <2> QED  BY <2>1, <2>7
  <1> QED  BY <1>6, <1>7

\* A pop returns: AcceptReady's, or ReceiveReady's.
LEMMA AtomicPops ==
  ASSUME PoolInv, PoolInv', Turns, NEW t \in Threads, PopReturns(t)
  PROVE  Atomic!Accept \/ (t \in SessionThreads /\ Atomic!Receive(t))
  <1>0. /\ PopStoreOutput(t)
        /\ posted' = [posted EXCEPT ![data[t]] = @ + 1]
        /\ accepts' = IF t = Main THEN accepts + 1 ELSE accepts
        /\ UNCHANGED <<created, held>>
    BY DEF PopReturns
  <1>1. /\ pc[t] \in Popping /\ pc' = [pc EXCEPT ![t] = "idle"] /\ UNCHANGED data
        /\ returned' = [returned EXCEPT ![t] = data[t]]
    BY <1>0 DEF PopStoreOutput, Return, Goto, Popping
  <1>2. PICK d : d = data[t]
    OBVIOUS
  <1>3. /\ Contents # <<>> /\ Contents' = Tail(Contents) /\ d = Head(Contents)
    BY <1>0, <1>2, PopTakes DEF PoolInv, PoolTypes
  <1>4. d \in Items /\ posted[d] = 0
    <2>1. Contents \in Seq(Items \cup {NULL})
      BY ContentsIsSeq DEF PoolInv, PoolTypes
    <2>2. 1 \in 1 .. Len(Contents) /\ d = Contents[1]
      BY <1>3, <2>1
    <2> QED  BY <2>2, QueuedTyped DEF PoolInv, Homes
  <1>5. \A x \in Items : posted'[x] = IF x = d THEN 1 ELSE posted[x]
    BY <1>0, <1>2, <1>4 DEF PoolInv, PoolTypes
  <1>6. /\ {x \in Items : posted'[x] > 0} = {x \in Items : posted[x] > 0} \cup {d}
        /\ d \notin {x \in Items : posted[x] > 0}
    BY <1>4, <1>5
  <1>7. Atomic!Post
    BY <1>3, <1>6 DEF Atomic!Post
  <1>8. /\ \A u \in Threads : u # t => returned'[u] = returned[u] /\ pc'[u] = pc[u]
        /\ returned'[t] = d /\ pc'[t] = "idle" /\ d # "none"
    BY <1>1, <1>2, <1>4, QueueAssumption DEF PoolInv, PoolTypes, TypeOK
  <1>9. Given' = Given
    BY <1>0, <1>1, <1>8, AnyThread DEF Given, Pushing, Popping
  <1>10. [u \in SessionThreads |-> held'[u]] = [u \in SessionThreads |-> held[u]]
    BY <1>0
  <1>11. CASE t = Main
    <2>1. created = Items /\ accepts < NumClients
      BY <1>1, <1>11 DEF PoolInv, Phases
    <2>2. Given = Items
      BY <1>1, <1>11, <2>1 DEF Given, Pushing, Popping
    <2>3. [u \in SessionThreads |-> returned'[u] # "none"]
            = [u \in SessionThreads |-> returned[u] # "none"]
      BY <1>8, <1>11, AnyThread
    <2> QED
      BY <1>0, <1>7, <1>9, <1>10, <1>11, <2>1, <2>2, <2>3 DEF Atomic!Accept, Given
  <1>12. CASE t # Main
    <2>1. t \in SessionThreads
      BY <1>12, AnyThread
    <2>2. held[t] # NULL /\ returned[t] = "none"
      BY <1>1, <2>1 DEF PoolInv, Phases, Turns, Popping
    <2>3. [u \in SessionThreads |-> returned'[u] # "none"]
            = [[u \in SessionThreads |-> returned[u] # "none"] EXCEPT ![t] = TRUE]
      <3>1. (returned'[t] # "none") = TRUE
        BY <1>8
      <3>2. \A u \in SessionThreads : u # t => returned'[u] = returned[u]
        BY <1>8, AnyThread
      <3> QED  BY <3>1, <3>2, Zenon
    <2>4. /\ [u \in SessionThreads |-> held[u]][t] # NULL
          /\ ~ [u \in SessionThreads |-> returned[u] # "none"][t]
      BY <2>1, <2>2
    <2>5. accepts' = accepts
      BY <1>0, <1>12
    <2>6. Atomic!Receive(t)
      BY <1>7, <1>9, <1>10, <2>3, <2>4, <2>5 DEF Atomic!Receive, Given
    <2> QED  BY <2>1, <2>6
  <1> QED  BY <1>11, <1>12

\* Every step of the pool is a step of the atomic one, or a stutter.
LEMMA AtomicStep ==
  ASSUME PoolInv, PoolInv', Turns, [PoolNext]_allVars
  PROVE  [Atomic!Next]_(Atomic!vars)
  <1>0. TypeOK'  BY DEF PoolInv, PoolTypes
  <1>1. ASSUME NEW o \in Items, Construct(o)  PROVE UNCHANGED Atomic!vars
    BY <1>0, <1>1, AtomicStutters, AnyThread
  <1>2. CASE AcceptPops
    BY <1>0, <1>2, AtomicStutters, AnyThread
  <1>3. ASSUME NEW t \in SessionThreads, NEW o \in Items, Completed(t, o)
        PROVE  Atomic!Next
    BY <1>3, AtomicCompletes DEF Atomic!Next
  <1>4. ASSUME NEW t \in SessionThreads, ReceivePops(t) \/ RecyclePushes(t)
        PROVE  UNCHANGED Atomic!vars
    BY <1>0, <1>4, AtomicStutters, AnyThread
  <1>5. ASSUME NEW t \in Threads, WithinCall(t)  PROVE UNCHANGED Atomic!vars
    BY <1>0, <1>5, AtomicStutters
  <1>6. ASSUME NEW t \in Threads, PushReturns(t)  PROVE Atomic!Next
    BY <1>6, AtomicPushes DEF Atomic!Next
  <1>7. ASSUME NEW t \in Threads, PopReturns(t)  PROVE Atomic!Next
    BY <1>7, AtomicPops DEF Atomic!Next
  <1>8. CASE UNCHANGED allVars
    <2>1. UNCHANGED <<mInputIndex, mOutputIndex, mBuffer, pc, data, returned,
                      created, accepts, posted, held>>
      BY <1>8 DEF allVars, vars, poolVars
    <2>2. Contents' = Contents
      BY <2>1 DEF Contents, Size, SlotAt
    <2> QED  BY <2>1, <2>2 DEF Atomic!vars
  <1> QED
    BY <1>1, <1>2, <1>3, <1>4, <1>5, <1>6, <1>7, <1>8 DEF PoolNext

\* Any number of sessions: as long as no two pushes and no two pops overlap, the
\* calls of Initialize, AcceptReady, ReceiveReady and Process use the ring as if every
\* push and pop were one step, also where sessions push while others pop.  So
\* IocpServer, which takes them so, says what the server does until two calls of a
\* kind overlap.
THEOREM PoolRefinement == PoolSpec /\ []CallsApart => ImplementsAtomicPool
  <1> SUFFICES PoolSpec /\ []CallsApart => Atomic!Spec
    BY DEF ImplementsAtomicPool
  <1>1. CallsApart /\ CallsApart' /\ PoolInv /\ Turns /\ [PoolNext]_allVars
          => (PoolInv /\ Turns)'
    BY PoolStep, TurnsStep
  <1>2. PoolInit => Turns
    BY AnyThread DEF PoolInit, Init, Turns, Pushing, Popping
  <1>3. PoolInv /\ PoolInv' /\ Turns /\ [PoolNext]_allVars => [Atomic!Next]_(Atomic!vars)
    BY AtomicStep
  <1> QED
    BY <1>1, <1>2, <1>3, PoolStarts, AtomicInit, PTL DEF PoolSpec, Atomic!Spec
=============================================================================
