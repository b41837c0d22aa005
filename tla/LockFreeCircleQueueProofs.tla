--------------------- MODULE LockFreeCircleQueueProofs ---------------------
(***************************************************************************)
(* With one producer and one consumer LockFreeCircleQueue implements       *)
(* BoundedQueue, for every ring size and every set of items.               *)
(***************************************************************************)
EXTENDS LockFreeCircleQueue, SequenceTheorems, TLAPS

(* Below twice the modulus, % subtracts it at most once. *)
LEMMA ModWraps ==
  ASSUME NEW n \in Nat \ {0}, NEW i \in 0 .. 2 * n - 1
  PROVE  i % n = IF i < n THEN i ELSE i - n
  OBVIOUS

(* The index after slot i (LockFreeCircleQueue.h:40 and 64). *)
LEMMA NextSlotWraps ==
  ASSUME NEW i \in Slots
  PROVE  /\ NextSlot(i) = IF i = mQueueMaxSize - 1 THEN 0 ELSE i + 1
         /\ NextSlot(i) \in Slots
  <1>. DEFINE j == i + 1
  <1>1. j \in 0 .. 2 * mQueueMaxSize - 1 /\ mQueueMaxSize \in Nat \ {0}
    BY QueueAssumption DEF Slots
  <1>2. j % mQueueMaxSize = IF j < mQueueMaxSize THEN j ELSE j - mQueueMaxSize
    <2>. HIDE DEF j
    <2>. QED BY <1>1, ModWraps
  <1>. QED  BY <1>2, QueueAssumption DEF Slots, NextSlot

(* The slot k places after slot i. *)
LEMMA AddWraps ==
  ASSUME NEW i \in Slots, NEW k \in Slots
  PROVE  /\ (i + k) % mQueueMaxSize = IF i + k < mQueueMaxSize
                                      THEN i + k
                                      ELSE i + k - mQueueMaxSize
         /\ (i + k) % mQueueMaxSize \in Slots
  <1>. DEFINE j == i + k
  <1>1. j \in 0 .. 2 * mQueueMaxSize - 1 /\ mQueueMaxSize \in Nat \ {0}
    BY QueueAssumption DEF Slots
  <1>2. j % mQueueMaxSize = IF j < mQueueMaxSize THEN j ELSE j - mQueueMaxSize
    <2>. HIDE DEF j
    <2>. QED BY <1>1, ModWraps
  <1>. QED  BY <1>2, QueueAssumption DEF Slots

(* The slots of the queued items wrap at the end of the ring. *)
LEMMA SlotAtWraps ==
  ASSUME mOutputIndex \in Slots, NEW k \in Slots
  PROVE  /\ SlotAt(k) = IF mOutputIndex + k < mQueueMaxSize
                        THEN mOutputIndex + k
                        ELSE mOutputIndex + k - mQueueMaxSize
         /\ SlotAt(k) \in Slots
  BY AddWraps DEF SlotAt

(* One slot stays empty, so size() is below the ring size and the indices   *)
(* tell empty from full (the comment in LockFreeCircleQueue.h:12).          *)
LEMMA SizeTellsEmptyFromFull ==
  ASSUME mInputIndex \in Slots, mOutputIndex \in Slots
  PROVE  /\ Size \in Slots
         /\ Size = 0 <=> mInputIndex = mOutputIndex
         /\ Size = mQueueMaxSize - 1 <=> NextSlot(mInputIndex) = mOutputIndex
         /\ SlotAt(Size) = mInputIndex
         /\ \A k \in 0 .. Size - 1 : SlotAt(k) # mInputIndex
  <1>1. Size \in Slots /\ (Size = 0 <=> mInputIndex = mOutputIndex)
    BY QueueAssumption DEF Size, Slots
  <1>2. Size = mQueueMaxSize - 1 <=> NextSlot(mInputIndex) = mOutputIndex
    BY NextSlotWraps, QueueAssumption DEF Size, Slots
  <1>3. SlotAt(Size) = mInputIndex
    BY <1>1, SlotAtWraps, QueueAssumption DEF Size, Slots
  <1>4. ASSUME NEW k \in 0 .. Size - 1 PROVE SlotAt(k) # mInputIndex
    <2>1. k \in Slots
      BY <1>1, QueueAssumption DEF Slots
    <2>2. SlotAt(k) = IF mOutputIndex + k < mQueueMaxSize
                      THEN mOutputIndex + k
                      ELSE mOutputIndex + k - mQueueMaxSize
      BY <2>1, SlotAtWraps
    <2>. QED BY <2>2, QueueAssumption DEF Size, Slots
  <1>. QED BY <1>1, <1>2, <1>3, <1>4

(* The queued items form a sequence as long as size(). *)
LEMMA ContentsIsSeq ==
  ASSUME TypeOK
  PROVE  /\ Contents \in Seq(Items \cup {NULL})
         /\ Len(Contents) = Size
         /\ \A k \in 1 .. Size : Contents[k] = mBuffer[SlotAt(k - 1)]
  <1>1. Size \in Slots /\ Size \in Nat
    BY SizeTellsEmptyFromFull DEF TypeOK, Slots
  <1>2. ASSUME NEW k \in 1 .. Size
        PROVE  mBuffer[SlotAt(k - 1)] \in Items \cup {NULL}
    <2>1. k - 1 \in Slots
      BY <1>1, QueueAssumption DEF Slots
    <2>2. SlotAt(k - 1) \in Slots
      BY <2>1, SlotAtWraps DEF TypeOK
    <2>. QED BY <2>2 DEF TypeOK
  <1>3. Contents \in [1 .. Size -> Items \cup {NULL}]
    BY <1>2 DEF Contents
  <1>. QED BY <1>1, <1>3 DEF Contents

-----------------------------------------------------------------------------
(* The inductive invariant. *)

(* The constructor and Construct leave an empty ring nobody works on. *)
LEMMA RingInvInit == Init => RingInv
  <1>. SUFFICES ASSUME Init PROVE RingInv
    OBVIOUS
  <1>1. TypeOK
    BY QueueAssumption DEF Init, TypeOK, Slots
  <1>2. ProducerOwnsInput /\ ConsumerOwnsOutput
    BY DEF Init, ProducerOwnsInput, ConsumerOwnsOutput, Pushing, Popping
  <1>. QED BY <1>1, <1>2 DEF RingInv

(* Every step of push and pop keeps the members and locals typed. *)
LEMMA TypeStep == TypeOK /\ [Next]_vars => TypeOK'
  <1>. SUFFICES ASSUME TypeOK, [Next]_vars PROVE TypeOK'
    OBVIOUS
  <1>. USE DEF TypeOK, Goto, Return, Threads
  <1>1. CASE UNCHANGED vars
    BY <1>1 DEF vars
  <1>2. ASSUME NEW t \in Pushers, NEW item \in Items, PushLoadInput(t, item)
        PROVE  TypeOK'
    BY <1>2 DEF PushLoadInput
  <1>3. ASSUME NEW t \in Pushers, PushFull(t) PROVE TypeOK'
    BY <1>3 DEF PushFull
  <1>4. ASSUME NEW t \in Pushers, PushNotFull(t) PROVE TypeOK'
    BY <1>4 DEF PushNotFull
  <1>5. ASSUME NEW t \in Pushers, PushWrite(t) PROVE TypeOK'
    BY <1>5 DEF PushWrite
  <1>6. ASSUME NEW t \in Pushers, PushStoreInput(t) PROVE TypeOK'
    BY <1>6, NextSlotWraps DEF PushStoreInput
  <1>7. ASSUME NEW t \in Poppers, PopLoadOutput(t) PROVE TypeOK'
    BY <1>7 DEF PopLoadOutput
  <1>8. ASSUME NEW t \in Poppers, PopNothing(t) PROVE TypeOK'
    BY <1>8 DEF PopNothing
  <1>9. ASSUME NEW t \in Poppers, PopSomething(t) PROVE TypeOK'
    BY <1>9 DEF PopSomething
  <1>10. ASSUME NEW t \in Poppers, PopRead(t) PROVE TypeOK'
    BY <1>10 DEF PopRead
  <1>11. ASSUME NEW t \in Poppers, PopStoreOutput(t) PROVE TypeOK'
    BY <1>11, NextSlotWraps DEF PopStoreOutput
  <1>. QED
    BY <1>1, <1>2, <1>3, <1>4, <1>5, <1>6, <1>7, <1>8, <1>9, <1>10, <1>11
    DEF Next, PushStep, PopStep

(* Two slots with the same successor are the same slot. *)
LEMMA NextSlotInjective ==
  ASSUME NEW i \in Slots, NEW j \in Slots, NextSlot(i) = NextSlot(j)
  PROVE  i = j
  BY NextSlotWraps, QueueAssumption DEF Slots

(* A step of the producer keeps both ownerships: it moves the input index   *)
(* only to a slot that is not the output index, and writes only the slot of *)
(* the input index, which no consumer past its check is reading.            *)
LEMMA PushStepOwns ==
  ASSUME SingleProducerConsumer, RingInv, NEW t \in Pushers, PushStep(t)
  PROVE  ProducerOwnsInput' /\ ConsumerOwnsOutput'
  <1>. USE DEF RingInv, TypeOK, SingleProducerConsumer, Goto, Return, Threads,
               ProducerOwnsInput, ConsumerOwnsOutput, Pushing, Popping
  <1>1. ASSUME NEW item \in Items, PushLoadInput(t, item)
        PROVE  ProducerOwnsInput' /\ ConsumerOwnsOutput'
    BY <1>1 DEF PushLoadInput
  <1>2. CASE PushFull(t)
    BY <1>2 DEF PushFull
  <1>3. CASE PushNotFull(t)
    BY <1>3 DEF PushNotFull, NextSlot
  <1>4. CASE PushWrite(t)
    <2>1. ProducerOwnsInput'
      BY <1>4 DEF PushWrite, NextSlot
    <2>2. ConsumerOwnsOutput'
      BY <1>4 DEF PushWrite
    <2>. QED BY <2>1, <2>2
  <1>5. CASE PushStoreInput(t)
    <2>1. NextSlot(mInputIndex) # mOutputIndex /\ index[t] = mInputIndex
      BY <1>5 DEF PushStoreInput
    <2>2. \A s \in Threads : pc'[s] \notin Pushing
      BY <1>5 DEF PushStoreInput
    <2>3. ConsumerOwnsOutput'
      BY <1>5, <2>1 DEF PushStoreInput
    <2>. QED BY <2>2, <2>3
  <1>. QED BY <1>1, <1>2, <1>3, <1>4, <1>5 DEF PushStep

(* A step of the consumer keeps both ownerships: it moves the output index  *)
(* forward from a filled slot, so it cannot make the ring look full.        *)
LEMMA PopStepOwns ==
  ASSUME SingleProducerConsumer, RingInv, NEW t \in Poppers, PopStep(t)
  PROVE  ProducerOwnsInput' /\ ConsumerOwnsOutput'
  <1>. USE DEF RingInv, TypeOK, SingleProducerConsumer, Goto, Return, Threads,
               ProducerOwnsInput, ConsumerOwnsOutput, Pushing, Popping
  <1>1. CASE PopLoadOutput(t)
    BY <1>1 DEF PopLoadOutput, NextSlot
  <1>2. CASE PopNothing(t)
    BY <1>2 DEF PopNothing, NextSlot
  <1>3. CASE PopSomething(t)
    BY <1>3 DEF PopSomething, NextSlot
  <1>4. CASE PopRead(t)
    BY <1>4 DEF PopRead, NextSlot
  <1>5. CASE PopStoreOutput(t)
    <2>1. mOutputIndex # mInputIndex /\ index[t] = mOutputIndex
      BY <1>5 DEF PopStoreOutput
    <2>2. \A s \in Threads : pc'[s] \notin Popping
      BY <1>5 DEF PopStoreOutput
    <2>3. NextSlot(mInputIndex) # NextSlot(mOutputIndex)
      BY <2>1, NextSlotInjective
    <2>4. mOutputIndex' = NextSlot(mOutputIndex) /\ mInputIndex' = mInputIndex
      BY <1>5, <2>1 DEF PopStoreOutput
    <2>5. NextSlot(mInputIndex') # mOutputIndex'
      BY <2>3, <2>4
    <2>6. ProducerOwnsInput'
      BY <1>5, <2>5 DEF PopStoreOutput
    <2>. QED BY <2>2, <2>6
  <1>. QED BY <1>1, <1>2, <1>3, <1>4, <1>5 DEF PopStep

(* With one producer and one consumer every step keeps the ownership of *)
(* both indices.                                                         *)
LEMMA RingInvStep ==
  ASSUME SingleProducerConsumer, RingInv, [Next]_vars
  PROVE  RingInv'
  <1>1. TypeOK'
    BY TypeStep DEF RingInv
  <1>2. CASE UNCHANGED vars
    BY <1>2, <1>1 DEF vars, RingInv, ProducerOwnsInput, ConsumerOwnsOutput, NextSlot
  <1>3. CASE Next
    BY <1>1, <1>3, PushStepOwns, PopStepOwns DEF Next, RingInv
  <1>. QED BY <1>2, <1>3

(* Every index stays inside the ring and every member keeps its type,       *)
(* whatever the number of threads that push and pop.                        *)
THEOREM QueueTypeCorrect == Spec => []TypeOK
  <1>1. Init => TypeOK
    BY RingInvInit DEF RingInv
  <1>. QED BY <1>1, TypeStep, PTL DEF Spec

(* With one producer and one consumer each of them owns its index and the   *)
(* slot it names from the load to the store (lines 37-66).                  *)
THEOREM QueueOwnership == SingleProducerConsumer => (Spec => []RingInv)
  <1>. SUFFICES ASSUME SingleProducerConsumer PROVE Spec => []RingInv
    OBVIOUS
  <1>1. RingInv /\ [Next]_vars => RingInv'
    BY RingInvStep
  <1>. QED BY <1>1, RingInvInit, PTL DEF Spec

-----------------------------------------------------------------------------
(* The refinement: two steps of a call take effect, the others stutter. *)

(* In the invariant the queued items are Size many, read off the slots. *)
LEMMA ContentsTyped ==
  TypeOK => /\ Contents \in Seq(Items \cup {NULL})
            /\ Len(Contents) = Size
            /\ \A k \in 1 .. Size : Contents[k] = mBuffer[SlotAt(k - 1)]
  BY ContentsIsSeq

(* The same in the state after a step. *)
LEMMA ContentsTypedNext ==
  (TypeOK => /\ Contents \in Seq(Items \cup {NULL})
             /\ Len(Contents) = Size
             /\ \A k \in 1 .. Size : Contents[k] = mBuffer[SlotAt(k - 1)])'
  BY ContentsTyped, PTL

(* ContentsIsSeq in the state after the step. *)
LEMMA ContentsPrimed ==
  ASSUME TypeOK'
  PROVE  /\ Contents' \in Seq(Items \cup {NULL})
         /\ Len(Contents') = Size'
         /\ \A k \in 1 .. Size' :
              Contents'[k] = mBuffer'[(mOutputIndex' + (k - 1)) % mQueueMaxSize]
  BY ContentsTypedNext DEF SlotAt

(* A step that moves neither index nor the filled slots leaves the queued   *)
(* items as they were.                                                      *)
LEMMA SameContents ==
  ASSUME TypeOK, TypeOK', UNCHANGED <<mInputIndex, mOutputIndex>>,
         \A i \in Slots : i # mInputIndex => mBuffer'[i] = mBuffer[i]
  PROVE  Contents' = Contents
  <1>1. Size' = Size /\ Size \in Slots
    BY SizeTellsEmptyFromFull DEF Size, TypeOK
  <1>2. ASSUME NEW k \in 1 .. Size
        PROVE  mBuffer'[SlotAt(k - 1)'] = mBuffer[SlotAt(k - 1)]
    <2>1. k - 1 \in Slots /\ k - 1 \in 0 .. Size - 1
      BY <1>1, QueueAssumption DEF Slots
    <2>2. SlotAt(k - 1) \in Slots /\ SlotAt(k - 1) # mInputIndex
      BY <2>1, SlotAtWraps, SizeTellsEmptyFromFull DEF TypeOK
    <2>3. SlotAt(k - 1)' = SlotAt(k - 1)
      BY DEF SlotAt
    <2>. QED BY <2>2, <2>3
  <1>. QED BY <1>1, <1>2 DEF Contents

(* The store of line 49 appends the item that the slot already holds. *)
LEMMA StoreInputAppends ==
  ASSUME TypeOK, TypeOK', UNCHANGED <<mOutputIndex, mBuffer>>,
         NextSlot(mInputIndex) # mOutputIndex,
         mInputIndex' = NextSlot(mInputIndex)
  PROVE  /\ Contents' = Append(Contents, mBuffer[mInputIndex])
         /\ Len(Contents) < mQueueMaxSize - 1
  <1>0. mInputIndex \in Slots /\ mOutputIndex \in Slots
    BY DEF TypeOK
  <1>1. Size \in Slots /\ Size \in Nat /\ Size < mQueueMaxSize - 1
    <2>1. Size \in Slots /\ Size # mQueueMaxSize - 1
      BY <1>0, SizeTellsEmptyFromFull
    <2>. QED BY <2>1, QueueAssumption DEF Slots
  <1>2. Size' = Size + 1
    <2>2. mInputIndex' = IF mInputIndex = mQueueMaxSize - 1 THEN 0 ELSE mInputIndex + 1
      BY <1>0, NextSlotWraps
    <2>3. mInputIndex' # mOutputIndex /\ mOutputIndex' = mOutputIndex
      OBVIOUS
    <2>. QED BY <1>0, <2>2, <2>3, QueueAssumption DEF Size, Slots
  <1>3. /\ Len(Contents) = Size /\ Contents \in Seq(Items \cup {NULL})
        /\ Len(Contents') = Size' /\ Contents' \in Seq(Items \cup {NULL})
    BY ContentsIsSeq, ContentsPrimed
  <1>4. SlotAt(Size) = mInputIndex /\ mBuffer[mInputIndex] \in Items \cup {NULL}
    BY SizeTellsEmptyFromFull DEF TypeOK
  <1>5. ASSUME NEW k \in 1 .. Size + 1
        PROVE  Contents'[k] = Append(Contents, mBuffer[mInputIndex])[k]
    <2>1. Contents'[k] = mBuffer[SlotAt(k - 1)]
      BY <1>2, ContentsPrimed DEF SlotAt
    <2>2. CASE k \in 1 .. Size
      BY <2>1, <2>2, <1>3, <1>4, ContentsIsSeq, AppendProperties
    <2>3. CASE k = Size + 1
      <3>1. k - 1 = Size
        BY <2>3, <1>1
      <3>. QED BY <3>1, <2>1, <2>3, <1>3, <1>4, AppendProperties
    <2>4. k \in 1 .. Size \/ k = Size + 1
      <3>. HIDE DEF Size
      <3>. QED BY <1>1
    <2>. QED BY <2>2, <2>3, <2>4
  <1>6. /\ Append(Contents, mBuffer[mInputIndex]) \in Seq(Items \cup {NULL})
        /\ Len(Append(Contents, mBuffer[mInputIndex])) = Size + 1
    BY <1>3, <1>4, AppendProperties
  <1>7. Contents' = Append(Contents, mBuffer[mInputIndex])
    BY <1>2, <1>3, <1>5, <1>6, SeqEqual
  <1>. QED BY <1>1, <1>3, <1>7

(* The store of line 64 removes the oldest item, the one already read. *)
LEMMA StoreOutputTakesHead ==
  ASSUME TypeOK, TypeOK', UNCHANGED <<mInputIndex, mBuffer>>,
         mOutputIndex # mInputIndex,
         mOutputIndex' = NextSlot(mOutputIndex)
  PROVE  /\ Contents # <<>>
         /\ Contents' = Tail(Contents)
         /\ Head(Contents) = mBuffer[mOutputIndex]
  <1>0. mInputIndex \in Slots /\ mOutputIndex \in Slots /\ mOutputIndex' \in Slots
    BY DEF TypeOK
  <1>1. Size \in Slots /\ Size \in Nat \ {0}
    BY <1>0, SizeTellsEmptyFromFull, QueueAssumption DEF Slots
  <1>2. mOutputIndex' = IF mOutputIndex = mQueueMaxSize - 1 THEN 0 ELSE mOutputIndex + 1
    BY <1>0, NextSlotWraps
  <1>3. Size' = Size - 1
    BY <1>0, <1>2, QueueAssumption DEF Size, Slots
  <1>4. /\ Len(Contents) = Size /\ Contents \in Seq(Items \cup {NULL})
        /\ Len(Contents') = Size' /\ Contents' \in Seq(Items \cup {NULL})
    BY ContentsIsSeq, ContentsPrimed
  <1>5. Contents # <<>>
    BY <1>1, <1>4
  <1>6. Head(Contents) = mBuffer[mOutputIndex]
    <2>1. SlotAt(0) = mOutputIndex
      BY <1>0, SlotAtWraps, QueueAssumption DEF Slots
    <2>2. Contents[1] = mBuffer[SlotAt(1 - 1)]
      BY <1>1, ContentsIsSeq
    <2>. QED BY <2>1, <2>2, <1>4, <1>5
  <1>7. ASSUME NEW k \in 1 .. Size - 1
        PROVE  Contents'[k] = Tail(Contents)[k]
    <2>1. k - 1 \in Slots /\ k \in Slots /\ k + 1 \in 1 .. Size
      BY <1>1, QueueAssumption DEF Slots
    <2>2. (mOutputIndex' + (k - 1)) % mQueueMaxSize = (mOutputIndex + k) % mQueueMaxSize
      <3>1. (mOutputIndex' + (k - 1)) % mQueueMaxSize =
              IF mOutputIndex' + (k - 1) < mQueueMaxSize
              THEN mOutputIndex' + (k - 1)
              ELSE mOutputIndex' + (k - 1) - mQueueMaxSize
        <4>. DEFINE l == k - 1
        <4>1. l \in Slots /\ mOutputIndex' \in Slots
          BY <1>0, <2>1
        <4>2. (mOutputIndex' + l) % mQueueMaxSize =
                IF mOutputIndex' + l < mQueueMaxSize
                THEN mOutputIndex' + l
                ELSE mOutputIndex' + l - mQueueMaxSize
          <5>. HIDE DEF l
          <5>. QED BY <4>1, AddWraps
        <4>. QED BY <4>2
      <3>2. (mOutputIndex + k) % mQueueMaxSize =
              IF mOutputIndex + k < mQueueMaxSize
              THEN mOutputIndex + k
              ELSE mOutputIndex + k - mQueueMaxSize
        BY <1>0, <2>1, AddWraps
      <3>. QED BY <1>0, <1>2, <2>1, <3>1, <3>2, QueueAssumption DEF Slots
    <2>3. Contents'[k] = mBuffer[SlotAt(k)]
      BY <1>3, <2>2, ContentsPrimed DEF SlotAt
    <2>4. Contents[k + 1] = mBuffer[SlotAt((k + 1) - 1)] /\ (k + 1) - 1 = k
      BY <2>1, <1>1, ContentsIsSeq
    <2>5. Tail(Contents)[k] = Contents[k + 1]
      BY <1>4, <1>5, HeadTailProperties
    <2>. QED BY <2>3, <2>4, <2>5
  <1>8. Tail(Contents) \in Seq(Items \cup {NULL}) /\ Len(Tail(Contents)) = Size - 1
    BY <1>4, <1>5, HeadTailProperties
  <1>9. Contents' = Tail(Contents)
    BY <1>3, <1>4, <1>7, <1>8, SeqEqual
  <1>. QED BY <1>5, <1>6, <1>9

(* An empty ring is an empty queue. *)
LEMMA InitRefines == Init => Abstract!Init
  <1>. SUFFICES ASSUME Init PROVE Abstract!Init
    OBVIOUS
  <1>1. Size = 0
    BY QueueAssumption DEF Init, Size
  <1>2. Contents = <<>>
    <2>1. TypeOK
      BY RingInvInit DEF RingInv
    <2>. QED BY <1>1, <2>1, ContentsIsSeq
  <1>. QED BY <1>2 DEF Init, Abstract!Init, Threads

(* Every step of a push is the push, its refusal, or invisible. *)
LEMMA PushRefines ==
  ASSUME RingInv, RingInv', NEW t \in Pushers, PushStep(t)
  PROVE  [Abstract!Next]_(Abstract!vars)
  <1>. USE DEF Goto, Return, Threads
  <1>0. TypeOK /\ TypeOK' /\ t \in Threads /\ mInputIndex \in Slots /\ mOutputIndex \in Slots
    BY DEF RingInv, TypeOK
  <1>1. CASE \/ \E item \in Items : PushLoadInput(t, item)
             \/ PushNotFull(t)
    <2>1. UNCHANGED <<mInputIndex, mOutputIndex, mBuffer, returned>>
      BY <1>1 DEF PushLoadInput, PushNotFull
    <2>2. Contents' = Contents
      BY <2>1, <1>0, SameContents
    <2>. QED BY <2>1, <2>2 DEF Abstract!vars
  <1>2. CASE PushFull(t)
    <2>1. UNCHANGED <<mInputIndex, mOutputIndex, mBuffer>>
      BY <1>2 DEF PushFull
    <2>2. Contents' = Contents
      BY <2>1, <1>0, SameContents
    <2>3. NextSlot(mInputIndex) = mOutputIndex
      BY <1>2 DEF PushFull, RingInv, ProducerOwnsInput, Pushing
    <2>4. Len(Contents) = mQueueMaxSize - 1
      BY <2>3, <1>0, ContentsIsSeq, SizeTellsEmptyFromFull
    <2>5. Abstract!PushRefused(t)
      BY <1>2, <2>2, <2>4 DEF PushFull, Abstract!PushRefused
    <2>. QED BY <2>5 DEF Abstract!Next
  <1>3. CASE PushWrite(t)
    <2>1. index[t] = mInputIndex
      BY <1>3, <1>0 DEF PushWrite, RingInv, ProducerOwnsInput, Pushing
    <2>2. \A i \in Slots : i # mInputIndex => mBuffer'[i] = mBuffer[i]
      BY <1>3, <2>1, <1>0 DEF PushWrite, TypeOK
    <2>3. UNCHANGED <<mInputIndex, mOutputIndex, returned>>
      BY <1>3 DEF PushWrite
    <2>4. Contents' = Contents
      BY <2>2, <2>3, <1>0, SameContents
    <2>. QED BY <2>3, <2>4 DEF Abstract!vars
  <1>4. CASE PushStoreInput(t)
    <2>1. /\ index[t] = mInputIndex
          /\ NextSlot(mInputIndex) # mOutputIndex
          /\ mBuffer[mInputIndex] = data[t]
          /\ data[t] \in Items
      BY <1>4, <1>0 DEF PushStoreInput, RingInv, ProducerOwnsInput, Pushing
    <2>2. mInputIndex' = NextSlot(mInputIndex) /\ UNCHANGED <<mOutputIndex, mBuffer>>
      BY <1>4, <2>1 DEF PushStoreInput
    <2>3. /\ Contents' = Append(Contents, data[t])
          /\ Len(Contents) < mQueueMaxSize - 1
      BY <2>1, <2>2, <1>0, StoreInputAppends
    <2>4. Abstract!Push(t, data[t])
      BY <1>4, <2>3 DEF PushStoreInput, Abstract!Push
    <2>. QED BY <2>1, <2>4 DEF Abstract!Next
  <1>. QED BY <1>1, <1>2, <1>3, <1>4 DEF PushStep

(* Every step of a pop is the pop, its failure, or invisible. *)
LEMMA PopRefines ==
  ASSUME RingInv, RingInv', NEW t \in Poppers, PopStep(t)
  PROVE  [Abstract!Next]_(Abstract!vars)
  <1>. USE DEF Goto, Return, Threads
  <1>0. TypeOK /\ TypeOK' /\ t \in Threads /\ mInputIndex \in Slots /\ mOutputIndex \in Slots
    BY DEF RingInv, TypeOK
  <1>1. CASE PopLoadOutput(t) \/ PopSomething(t) \/ PopRead(t)
    <2>1. UNCHANGED <<mInputIndex, mOutputIndex, mBuffer, returned>>
      BY <1>1 DEF PopLoadOutput, PopSomething, PopRead
    <2>2. Contents' = Contents
      BY <2>1, <1>0, SameContents
    <2>. QED BY <2>1, <2>2 DEF Abstract!vars
  <1>2. CASE PopNothing(t)
    <2>1. UNCHANGED <<mInputIndex, mOutputIndex, mBuffer>>
      BY <1>2 DEF PopNothing
    <2>2. Contents' = Contents
      BY <2>1, <1>0, SameContents
    <2>3. mOutputIndex = mInputIndex
      BY <1>2, <1>0 DEF PopNothing, RingInv, ConsumerOwnsOutput, Popping
    <2>4. Contents = <<>>
      BY <2>3, <1>0, ContentsIsSeq, SizeTellsEmptyFromFull
    <2>5. Abstract!PopEmpty(t)
      BY <1>2, <2>2, <2>4 DEF PopNothing, Abstract!PopEmpty
    <2>. QED BY <2>5 DEF Abstract!Next
  <1>3. CASE PopStoreOutput(t)
    <2>1. /\ index[t] = mOutputIndex
          /\ mOutputIndex # mInputIndex
          /\ data[t] = mBuffer[mOutputIndex]
      BY <1>3, <1>0 DEF PopStoreOutput, RingInv, ConsumerOwnsOutput, Popping
    <2>2. mOutputIndex' = NextSlot(mOutputIndex) /\ UNCHANGED <<mInputIndex, mBuffer>>
      BY <1>3, <2>1 DEF PopStoreOutput
    <2>3. /\ Contents # <<>>
          /\ Contents' = Tail(Contents)
          /\ Head(Contents) = data[t]
      BY <2>1, <2>2, <1>0, StoreOutputTakesHead
    <2>4. Abstract!Pop(t)
      BY <1>3, <2>3 DEF PopStoreOutput, Abstract!Pop
    <2>. QED BY <2>4 DEF Abstract!Next
  <1>. QED BY <1>1, <1>2, <1>3 DEF PopStep

(* With one producer and one consumer the ring is the bounded FIFO, for     *)
(* every ring size and every set of items (lines 37-66).                    *)
THEOREM QueueRefinement == SingleProducerConsumer => (Spec => ImplementsBoundedQueue)
  <1>. SUFFICES ASSUME SingleProducerConsumer PROVE Spec => Abstract!Spec
    BY DEF ImplementsBoundedQueue
  <1>1. Spec => []RingInv
    BY QueueOwnership
  <1>2. RingInv /\ RingInv' /\ [Next]_vars => [Abstract!Next]_(Abstract!vars)
    <2>. SUFFICES ASSUME RingInv, RingInv', [Next]_vars
                  PROVE  [Abstract!Next]_(Abstract!vars)
      OBVIOUS
    <2>1. CASE UNCHANGED vars
      BY <2>1 DEF vars, Abstract!vars, Contents, Size, SlotAt
    <2>2. CASE Next
      BY <2>2, PushRefines, PopRefines DEF Next
    <2>. QED BY <2>1, <2>2
  <1>. QED BY <1>1, <1>2, InitRefines, PTL DEF Spec, Abstract!Spec
=============================================================================
