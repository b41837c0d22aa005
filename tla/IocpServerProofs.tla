---------------------------- MODULE IocpServerProofs ----------------------------
(***************************************************************************)
(* What the server around the completion port keeps, for any number of     *)
(* clients, session threads and overlappeds and whatever faults occur:     *)
(*   - the types of its state (ServerTypeCorrect);                         *)
(*   - one owner for every overlapped (OverlappedsOwned).                  *)
(* IocpConnectionProofs goes on to the connections.                        *)
(***************************************************************************)
EXTENDS IocpServer, FiniteSetTheorems, SequenceTheorems, TLAPS

-----------------------------------------------------------------------------
(* Queues.  The pool, the operations of a socket and the completions are    *)
(* sequences that grow at the end and lose their head or, when an operation *)
(* completes, one place.                                                    *)

\* Append adds its element, and keeps the elements distinct if it is new.
LEMMA AppendElements ==
  ASSUME NEW S, NEW q \in Seq(S), NEW x \in S
  PROVE  /\ Range(Append(q, x)) = Range(q) \cup {x}
         /\ IsInjective(q) /\ x \notin Range(q) => IsInjective(Append(q, x))
  <1>1. /\ Len(q) \in Nat /\ DOMAIN q = 1 .. Len(q)
        /\ DOMAIN Append(q, x) = 1 .. Len(q) + 1
        /\ \A i \in 1 .. Len(q) : Append(q, x)[i] = q[i]
        /\ Append(q, x)[Len(q) + 1] = x
    BY AppendProperties, LenProperties
  <1>2. \A i \in 1 .. Len(q) + 1 : i \in 1 .. Len(q) \/ i = Len(q) + 1
    BY <1>1
  <1>3. Range(Append(q, x)) = Range(q) \cup {x}
    BY <1>1, <1>2 DEF Range
  <1>4. ASSUME IsInjective(q), x \notin Range(q)  PROVE IsInjective(Append(q, x))
    BY <1>1, <1>2, <1>4 DEF Range, IsInjective
  <1> QED  BY <1>3, <1>4

\* Tail takes the head away.
LEMMA TailElements ==
  ASSUME NEW S, NEW q \in Seq(S), q # <<>>
  PROVE  /\ Head(q) \in Range(q) /\ Head(q) = q[1] /\ 1 \in DOMAIN q
         /\ DOMAIN Tail(q) = 1 .. Len(q) - 1
         /\ \A i \in DOMAIN Tail(q) : i + 1 \in DOMAIN q /\ Tail(q)[i] = q[i + 1]
         /\ \A i \in DOMAIN q : i = 1 \/ (i - 1 \in DOMAIN Tail(q) /\ q[i] = Tail(q)[i - 1])
         /\ IsInjective(q) => Range(Tail(q)) = Range(q) \ {Head(q)} /\ IsInjective(Tail(q))
  <1>1. /\ Len(q) \in Nat \ {0} /\ DOMAIN q = 1 .. Len(q) /\ Head(q) = q[1]
        /\ Len(Tail(q)) = Len(q) - 1 /\ DOMAIN Tail(q) = 1 .. Len(q) - 1
        /\ \A i \in 1 .. Len(q) - 1 : Tail(q)[i] = q[i + 1]
    BY HeadTailProperties, EmptySeq, LenProperties
  <1>2. Head(q) \in Range(q) /\ 1 \in DOMAIN q  BY <1>1 DEF Range
  <1>3. \A i \in DOMAIN Tail(q) : i + 1 \in DOMAIN q /\ Tail(q)[i] = q[i + 1]
    BY <1>1
  <1>4. \A i \in DOMAIN q : i = 1 \/ (i - 1 \in DOMAIN Tail(q) /\ q[i] = Tail(q)[i - 1])
    BY <1>1
  <1>5. ASSUME IsInjective(q)
        PROVE  Range(Tail(q)) = Range(q) \ {Head(q)} /\ IsInjective(Tail(q))
    <2>1. ASSUME NEW i \in DOMAIN Tail(q)  PROVE Tail(q)[i] \in Range(q) \ {Head(q)}
      BY <1>1, <1>3, <1>5, <2>1 DEF Range, IsInjective
    <2>2. ASSUME NEW y \in Range(q) \ {Head(q)}  PROVE y \in Range(Tail(q))
      <3>1. PICK i \in DOMAIN q : q[i] = y  BY DEF Range
      <3>2. i # 1  BY <1>1, <3>1
      <3> QED  BY <1>4, <3>1, <3>2 DEF Range
    <2>3. ASSUME NEW i \in DOMAIN Tail(q), NEW j \in DOMAIN Tail(q), Tail(q)[i] = Tail(q)[j]
          PROVE  i = j
      <3>1. i + 1 = j + 1  BY <1>3, <1>5, <2>3 DEF IsInjective
      <3> QED  BY <1>1, <3>1
    <2>4. IsInjective(Tail(q))  BY <2>3 DEF IsInjective
    <2> QED  BY <2>1, <2>2, <2>4 DEF Range
  <1> QED  BY <1>1, <1>2, <1>3, <1>4, <1>5

\* RemoveAt closes the gap it leaves.
LEMMA RemoveAtElements ==
  ASSUME NEW S, NEW q \in Seq(S), NEW k \in DOMAIN q
  PROVE  /\ RemoveAt(q, k) \in Seq(S)
         /\ DOMAIN RemoveAt(q, k) = 1 .. Len(q) - 1
         /\ \A i \in DOMAIN RemoveAt(q, k) :
              RemoveAt(q, k)[i] = IF i < k THEN q[i] ELSE q[i + 1]
  <1>1. Len(q) \in Nat /\ DOMAIN q = 1 .. Len(q) /\ k \in 1 .. Len(q)
    BY LenProperties
  <1>2. \A i \in 1 .. Len(q) : q[i] \in S  BY <1>1
  <1> DEFINE a == SubSeq(q, 1, k - 1)
             b == SubSeq(q, k + 1, Len(q))
  <1>3. /\ a \in Seq(S) /\ Len(a) = k - 1 /\ \A i \in 1 .. k - 1 : a[i] = q[i]
    <2>1. \A i \in 1 .. k - 1 : q[i] \in S  BY <1>1, <1>2
    <2>2. 1 \in Int /\ k - 1 \in Int  BY <1>1
    <2>3. /\ a \in Seq(S) /\ Len(a) = IF 1 <= k - 1 THEN k - 1 - 1 + 1 ELSE 0
          /\ \A i \in 1 .. k - 1 - 1 + 1 : a[i] = q[1 + i - 1]
      BY ONLY <2>1, <2>2, SubSeqProperties
    <2>4. k - 1 - 1 + 1 = k - 1 /\ \A i \in 1 .. k - 1 : 1 + i - 1 = i  BY <1>1
    <2> HIDE DEF a
    <2> QED  BY <1>1, <2>3, <2>4
  <1>4. /\ b \in Seq(S) /\ Len(b) = Len(q) - k /\ \A i \in 1 .. Len(q) - k : b[i] = q[k + i]
    <2>1. \A i \in k + 1 .. Len(q) : q[i] \in S  BY <1>1, <1>2
    <2>2. k + 1 \in Int /\ Len(q) \in Int  BY <1>1
    <2>3. /\ b \in Seq(S)
          /\ Len(b) = IF k + 1 <= Len(q) THEN Len(q) - (k + 1) + 1 ELSE 0
          /\ \A i \in 1 .. Len(q) - (k + 1) + 1 : b[i] = q[k + 1 + i - 1]
      BY ONLY <2>1, <2>2, SubSeqProperties
    <2>4. Len(q) - (k + 1) + 1 = Len(q) - k /\ \A i \in 1 .. Len(q) - k : k + 1 + i - 1 = k + i
      BY <1>1
    <2> HIDE DEF b
    <2> QED  BY <1>1, <2>3, <2>4
  <1>5. RemoveAt(q, k) = a \o b  BY DEF RemoveAt
  <1> HIDE DEF a, b
  <1>6. /\ a \o b \in Seq(S) /\ Len(a \o b) = Len(q) - 1
        /\ \A i \in 1 .. Len(q) - 1 : (a \o b)[i] = IF i <= Len(a) THEN a[i] ELSE b[i - Len(a)]
    <2>1. /\ a \o b \in Seq(S) /\ Len(a \o b) = Len(a) + Len(b)
          /\ \A i \in 1 .. Len(a) + Len(b) : (a \o b)[i] = IF i <= Len(a) THEN a[i] ELSE b[i - Len(a)]
      BY <1>3, <1>4, ConcatProperties
    <2>2. Len(a) + Len(b) = Len(q) - 1  BY <1>1, <1>3, <1>4
    <2> QED  BY <2>1, <2>2
  <1>7. DOMAIN (a \o b) = 1 .. Len(q) - 1  BY <1>6, LenProperties
  <1>8. ASSUME NEW i \in 1 .. Len(q) - 1
        PROVE  (a \o b)[i] = IF i < k THEN q[i] ELSE q[i + 1]
    <2>1. CASE i < k
      BY <1>1, <1>3, <1>6, <2>1
    <2>2. CASE ~ (i < k)
      <3>1. i - Len(a) \in 1 .. Len(q) - k /\ ~ (i <= Len(a)) /\ k + (i - Len(a)) = i + 1
        BY <1>1, <1>3, <2>2
      <3> QED  BY <1>4, <1>6, <2>2, <3>1
    <2> QED  BY <2>1, <2>2
  <1> QED  BY <1>5, <1>6, <1>7, <1>8

\* RemoveAt takes the element at its place away.
LEMMA RemoveAtRange ==
  ASSUME NEW S, NEW q \in Seq(S), NEW k \in DOMAIN q, IsInjective(q)
  PROVE  /\ Range(RemoveAt(q, k)) = Range(q) \ {q[k]}
         /\ IsInjective(RemoveAt(q, k))
  <1> DEFINE r == RemoveAt(q, k)
  <1>1. /\ Len(q) \in Nat /\ DOMAIN q = 1 .. Len(q) /\ k \in 1 .. Len(q)
        /\ DOMAIN r = 1 .. Len(q) - 1
        /\ \A i \in 1 .. Len(q) - 1 : r[i] = IF i < k THEN q[i] ELSE q[i + 1]
    BY RemoveAtElements, LenProperties
  <1> HIDE DEF r
  <1>2. ASSUME NEW i \in DOMAIN r  PROVE r[i] \in Range(q) \ {q[k]}
    <2>1. CASE i < k
      <3>1. i \in DOMAIN q /\ i # k /\ r[i] = q[i]  BY <1>1, <2>1
      <3> QED  BY <3>1 DEF Range, IsInjective
    <2>2. CASE ~ (i < k)
      <3>1. i + 1 \in DOMAIN q /\ i + 1 # k /\ r[i] = q[i + 1]  BY <1>1, <2>2
      <3> QED  BY <3>1 DEF Range, IsInjective
    <2> QED  BY <2>1, <2>2
  <1>3. ASSUME NEW j \in DOMAIN q, j # k  PROVE q[j] \in Range(r)
    <2>1. CASE j < k
      <3>1. j \in DOMAIN r /\ r[j] = q[j]  BY <1>1, <2>1
      <3> QED  BY <3>1 DEF Range
    <2>2. CASE j > k
      <3>1. j - 1 \in DOMAIN r /\ ~ (j - 1 < k) /\ j - 1 + 1 = j  BY <1>1, <2>2
      <3>2. r[j - 1] = q[j]  BY <1>1, <3>1
      <3> QED  BY <3>1, <3>2 DEF Range
    <2> QED  BY <1>1, <1>3, <2>1, <2>2
  <1>4. ASSUME NEW i \in DOMAIN r, NEW j \in DOMAIN r, r[i] = r[j]  PROVE i = j
    <2> DEFINE Old(n) == IF n < k THEN n ELSE n + 1
    <2>1. Old(i) \in DOMAIN q /\ Old(j) \in DOMAIN q /\ r[i] = q[Old(i)] /\ r[j] = q[Old(j)]
      BY <1>1
    <2>2. Old(i) = Old(j)  BY <1>4, <2>1 DEF IsInjective
    <2> QED  BY <1>1, <2>2
  <1>5. Range(r) = Range(q) \ {q[k]}
    <2>1. \A y \in Range(q) \ {q[k]} : \E j \in DOMAIN q : j # k /\ q[j] = y
      BY DEF Range
    <2> QED  BY <1>2, <1>3, <2>1 DEF Range
  <1>6. IsInjective(r)  BY <1>4 DEF IsInjective
  <1> QED  BY <1>5, <1>6 DEF r

-----------------------------------------------------------------------------
(* Types.  A session that handles a completion has taken one.               *)

Handled == \A s \in Sessions : Holding(s) => cur[s] \in Completion

TypeInv == TypeOK /\ Handled

Contents ==
  [op : {"default", "accept", "recv", "send"}, id : Clients \cup {None}, msg : Nat]

\* The ring holds one overlapped less than Initialize creates.
LEMMA CapacityNat == Capacity \in Nat /\ Capacity + 1 = Cardinality(Overlappeds)
  <1> USE ServerAssumption
  <1>1. Cardinality(Clients) \in Nat /\ Cardinality(Overlappeds) \in Nat
    BY FS_CardinalityType
  <1> QED  BY <1>1 DEF Capacity

\* Before Initialize nothing exists.
LEMMA TypeInit == Init => TypeInv
  <1> SUFFICES ASSUME Init  PROVE TypeInv  OBVIOUS
  <1>1. Cleared \in Contents  BY DEF Cleared, Contents
  <1>2. ov \in [Overlappeds -> Contents]  BY <1>1 DEF Init
  <1>3. /\ main = "initialize" /\ crashed = "no" /\ lost \subseteq Overlappeds
        /\ pool \in Seq(Overlappeds) /\ completions \in Seq(Completion)
    BY DEF Init
  <1>4. /\ pending \in [Clients -> Seq(Overlappeds)]
        /\ at \in [Sessions -> {"off", "wait", "dispatch", "send", "rearm", "recycle"}]
        /\ cur \in [Sessions -> Completion \cup {NoCompletion}]
        /\ sock \in [Clients -> {"new", "listening", "open", "fin", "rst"}]
    BY DEF Init
  <1>5. /\ asked \in [Clients -> Seq({"request", "unknown"})]
        /\ received \in [Clients -> Nat] /\ answered \in [Clients -> Seq(Nat)]
    BY DEF Init
  <1>6. Handled  BY DEF Init, Handled, Holding
  <1> QED
    BY <1>2, <1>3, <1>4, <1>5, <1>6 DEF TypeInv, TypeOK, Contents

\* What a session serves: a client, or nobody before it is known.
LEMMA ServedTyped ==
  ASSUME TypeInv, NEW s \in Sessions, Holding(s)
  PROVE  /\ cur[s] \in Completion /\ cur[s].ov \in Overlappeds
         /\ ServedClient(s) \in Clients \cup {None}
         /\ ov[cur[s].ov] \in Contents
  <1>1. cur[s] \in Completion  BY DEF TypeInv, Handled
  <1>2. cur[s].ov \in Overlappeds /\ cur[s].key \in Clients \cup {None}
    BY <1>1 DEF Completion
  <1>3. ov[cur[s].ov] \in Contents  BY <1>2 DEF TypeInv, TypeOK, Contents
  <1>4. ov[cur[s].ov].id \in Clients \cup {None}  BY <1>3 DEF Contents
  <1> QED  BY <1>1, <1>2, <1>3, <1>4 DEF ServedClient

\* The contents that the program gives an overlapped.
LEMMA ContentsTyped ==
  /\ Cleared \in Contents
  /\ [Cleared EXCEPT !.op = "recv"] \in Contents
  /\ \A c \in Clients : [op |-> "accept", id |-> c, msg |-> 0] \in Contents
  /\ TypeInv => \A s \in Sessions : Holding(s) => Reply(s) \in Contents
  <1>1. Cleared \in Contents /\ [Cleared EXCEPT !.op = "recv"] \in Contents
    BY DEF Cleared, Contents
  <1>2. \A c \in Clients : [op |-> "accept", id |-> c, msg |-> 0] \in Contents
    BY DEF Contents
  <1>3. ASSUME TypeInv, NEW s \in Sessions, Holding(s)
        PROVE  Reply(s) \in Contents
    <2>1. ServedClient(s) \in Clients \cup {None} /\ ov[cur[s].ov] \in Contents
      BY <1>3, ServedTyped
    <2>2. ov[cur[s].ov].msg \in Nat  BY <2>1 DEF Contents
    <2> QED  BY <2>1, <2>2 DEF Reply, Contents
  <1> QED  BY <1>1, <1>2, <1>3

\* pop(), Clear() and the setters.
LEMMA FillTyped ==
  ASSUME TypeInv, NEW contents \in Contents, Fill(contents)
  PROVE  /\ Head(pool) \in Overlappeds /\ pool' \in Seq(Overlappeds)
         /\ ov' \in [Overlappeds -> Contents]
  <1>1. pool \in Seq(Overlappeds) /\ pool # <<>> /\ ov \in [Overlappeds -> Contents]
    BY DEF TypeInv, TypeOK, Contents, Fill
  <1> QED  BY <1>1, HeadTailProperties DEF Fill

\* An operation that the kernel takes, or refuses.
LEMMA PostTyped ==
  ASSUME TypeInv, NEW contents \in Contents, NEW c, Post(c, contents)
  PROVE  /\ pool' \in Seq(Overlappeds) /\ lost' \subseteq Overlappeds
         /\ ov' \in [Overlappeds -> Contents]
         /\ pending' \in [Clients -> Seq(Overlappeds)] /\ completions' = completions
  <1>1. /\ Head(pool) \in Overlappeds /\ pool' \in Seq(Overlappeds)
        /\ ov' \in [Overlappeds -> Contents]
    BY FillTyped DEF Post
  <1>2. pending' \in [Clients -> Seq(Overlappeds)]
    <2>1. pending \in [Clients -> Seq(Overlappeds)]  BY DEF TypeInv, TypeOK
    <2>2. \A d \in Clients : Append(pending[d], Head(pool)) \in Seq(Overlappeds)
      BY <1>1, <2>1
    <2>3. pending' = [pending EXCEPT ![c] = Append(pending[c], Head(pool))]  BY DEF Post
    <2> QED  BY <2>1, <2>2, <2>3
  <1> QED  BY <1>1, <1>2 DEF TypeInv, TypeOK, Post

\* A refused call keeps the types.
LEMMA RefusedTyped ==
  ASSUME TypeInv, NEW contents \in Contents, PostRefused(contents)
  PROVE  /\ pool' \in Seq(Overlappeds) /\ lost' \subseteq Overlappeds
         /\ ov' \in [Overlappeds -> Contents]
         /\ pending' = pending /\ completions' = completions
  <1>1. /\ Head(pool) \in Overlappeds /\ pool' \in Seq(Overlappeds)
        /\ ov' \in [Overlappeds -> Contents]
    BY FillTyped DEF PostRefused
  <1> QED  BY <1>1 DEF TypeInv, TypeOK, PostRefused, kernel

\* The main thread keeps the types.
LEMMA MainTyped == ASSUME TypeInv, MainStep  PROVE TypeInv'
  <1> USE ServerAssumption
  <1>1. CASE Initialize
    <2>1. PICK created \in Creations :
            pool' = SubSeq(created, 1, Capacity) /\ lost' = {created[Capacity + 1]}
      BY <1>1 DEF Initialize
    <2>2. /\ Capacity \in Nat /\ \A i \in 1 .. Capacity : created[i] \in Overlappeds
          /\ created[Capacity + 1] \in Overlappeds
      BY CapacityNat
    <2>3. SubSeq(created, 1, Capacity) \in Seq(Overlappeds)
      BY <2>2, SubSeqProperties
    <2> QED
      BY <1>1, <2>1, <2>2, <2>3
         DEF Initialize, kernel, peers, TypeInv, TypeOK, Handled, Holding
  <1>2. CASE InitializeFails \/ ReadyWithoutClients \/ AcceptsPosted \/ ReadySuccess
               \/ SetSendCallback
    BY <1>2 DEF InitializeFails, ReadyWithoutClients, AcceptsPosted, ReadySuccess,
                SetSendCallback, objects, kernel, peers, TypeInv, TypeOK, Handled, Holding
  <1>3. ASSUME NEW c \in Clients, AcceptReady(c)  PROVE TypeInv'
    <2>1. [op |-> "accept", id |-> c, msg |-> 0] \in Contents  BY ContentsTyped
    <2>2. /\ pool' \in Seq(Overlappeds) /\ lost' \subseteq Overlappeds
          /\ ov' \in [Overlappeds -> Contents]
          /\ pending' \in [Clients -> Seq(Overlappeds)] /\ completions' = completions
      BY <1>3, <2>1, PostTyped DEF AcceptReady
    <2> QED
      BY <1>3, <2>2 DEF AcceptReady, threads, TypeInv, TypeOK, Handled, Holding, Contents
  <1>4. ASSUME NEW c \in Clients, AcceptRefused(c)  PROVE TypeInv'
    <2>1. [op |-> "accept", id |-> c, msg |-> 0] \in Contents  BY ContentsTyped
    <2>2. /\ pool' \in Seq(Overlappeds) /\ lost' \subseteq Overlappeds
          /\ ov' \in [Overlappeds -> Contents]
          /\ pending' = pending /\ completions' = completions
      BY <1>4, <2>1, RefusedTyped DEF AcceptRefused
    <2> QED
      BY <1>4, <2>2 DEF AcceptRefused, threads, TypeInv, TypeOK, Handled, Holding, Contents
  <1>5. ASSUME NEW c \in Clients, AcceptSocketError(c)  PROVE TypeInv'
    BY <1>5 DEF AcceptSocketError, objects, kernel, threads, TypeInv, TypeOK, Handled, Holding
  <1>6. ASSUME NEW s \in Sessions, SpawnSession(s)  PROVE TypeInv'
    BY <1>6 DEF SpawnSession, objects, kernel, peers, TypeInv, TypeOK, Handled, Holding
  <1> QED  BY <1>1, <1>2, <1>3, <1>4, <1>5, <1>6 DEF MainStep

\* A session takes a completion from the port.
LEMMA TakeTyped ==
  ASSUME TypeInv, NEW s \in Sessions, NEW next \in {"dispatch", "rearm", "recycle"},
         Take(s, next)
  PROVE  TypeInv'
  <1>1. completions \in Seq(Completion) /\ completions # <<>>  BY DEF TypeInv, TypeOK, Take
  <1>2. Head(completions) \in Completion /\ Tail(completions) \in Seq(Completion)
    BY <1>1, HeadTailProperties
  <1>3. /\ cur' \in [Sessions -> Completion \cup {NoCompletion}]
        /\ at' \in [Sessions -> {"off", "wait", "dispatch", "send", "rearm", "recycle"}]
    BY <1>2 DEF TypeInv, TypeOK, Take
  <1>4. Handled'
    <2> SUFFICES ASSUME NEW r \in Sessions, Holding(r)'  PROVE cur'[r] \in Completion
      BY DEF Handled
    <2>1. CASE r = s
      BY <1>2, <2>1 DEF TypeInv, TypeOK, Take
    <2>2. CASE r # s
      BY <2>2 DEF TypeInv, TypeOK, Handled, Holding, Take
    <2> QED  BY <2>1, <2>2
  <1> QED
    BY <1>2, <1>3, <1>4 DEF Take, objects, peers, TypeInv, TypeOK

\* A step of a session within the handling of a completion.
LEMMA GotoHandled ==
  ASSUME TypeInv, NEW s \in Sessions, NEW from \in {"dispatch", "send", "rearm"},
         NEW to \in {"send", "rearm", "recycle"}, Goto(s, from, to), cur' = cur
  PROVE  /\ at' \in [Sessions -> {"off", "wait", "dispatch", "send", "rearm", "recycle"}]
         /\ Handled'
         /\ \A r \in Sessions : Holding(r)' <=> Holding(r)
  BY DEF TypeInv, TypeOK, Handled, Holding, Goto

\* What a session does with the completion, up to the next GetQueuedCompletionStatus.
LEMMA SessionTyped ==
  ASSUME TypeInv, NEW s \in Sessions, SessionStep(s)
  PROVE  TypeInv'
  <1>1. CASE TakeAccepted(s) \/ TakeMessage(s) \/ TakeDisconnect(s) \/ TakeSent(s)
    BY <1>1, TakeTyped DEF TakeAccepted, TakeMessage, TakeDisconnect, TakeSent
  <1>2. CASE TakeFailed(s)
    <2>1. completions \in Seq(Completion) /\ completions # <<>>
      BY <1>2 DEF TypeInv, TypeOK, TakeFailed
    <2>2. Head(completions) \in Completion /\ Tail(completions) \in Seq(Completion)
      BY <2>1, HeadTailProperties
    <2>3. Head(completions).ov \in Overlappeds  BY <2>2 DEF Completion
    <2> QED
      BY <1>2, <2>2, <2>3 DEF TakeFailed, threads, peers, TypeInv, TypeOK, Handled, Holding
  <1>3. CASE DispatchRequest(s) \/ DispatchUnknown(s) \/ ReceiveSocketError(s)
    <2>1. /\ at' \in [Sessions -> {"off", "wait", "dispatch", "send", "rearm", "recycle"}]
          /\ Handled'
      BY <1>3, GotoHandled DEF DispatchRequest, DispatchUnknown, ReceiveSocketError
    <2> QED
      BY <1>3, <2>1 DEF DispatchRequest, DispatchUnknown, ReceiveSocketError,
                        objects, kernel, peers, TypeInv, TypeOK
  <1>4. CASE DispatchEmptyCallback(s)
    BY <1>4 DEF DispatchEmptyCallback, objects, kernel, peers, TypeInv, TypeOK, Handled, Holding
  <1>5. CASE SendPosted(s) \/ ReceivePosted(s)
    <2>1. /\ at' \in [Sessions -> {"off", "wait", "dispatch", "send", "rearm", "recycle"}]
          /\ Handled'
      BY <1>5, GotoHandled DEF SendPosted, ReceivePosted
    <2>2. Holding(s)  BY <1>5 DEF SendPosted, ReceivePosted, Goto, Holding
    <2>3. Reply(s) \in Contents /\ [Cleared EXCEPT !.op = "recv"] \in Contents
      BY <2>2, ContentsTyped
    <2>4. /\ pool' \in Seq(Overlappeds) /\ lost' \subseteq Overlappeds
          /\ ov' \in [Overlappeds -> Contents]
          /\ pending' \in [Clients -> Seq(Overlappeds)] /\ completions' = completions
      BY <1>5, <2>3, PostTyped DEF SendPosted, ReceivePosted
    <2> QED
      BY <1>5, <2>1, <2>4 DEF SendPosted, ReceivePosted, peers, TypeInv, TypeOK, Contents
  <1>6. CASE SendRefused(s) \/ ReceiveRefused(s)
    <2>1. /\ at' \in [Sessions -> {"off", "wait", "dispatch", "send", "rearm", "recycle"}]
          /\ Handled'
      BY <1>6, GotoHandled DEF SendRefused, ReceiveRefused
    <2>2. Holding(s)  BY <1>6 DEF SendRefused, ReceiveRefused, Goto, Holding
    <2>3. Reply(s) \in Contents /\ [Cleared EXCEPT !.op = "recv"] \in Contents
      BY <2>2, ContentsTyped
    <2>4. /\ pool' \in Seq(Overlappeds) /\ lost' \subseteq Overlappeds
          /\ ov' \in [Overlappeds -> Contents]
          /\ pending' = pending /\ completions' = completions
      BY <1>6, <2>3, RefusedTyped DEF SendRefused, ReceiveRefused
    <2>5. pending' \in [Clients -> Seq(Overlappeds)] /\ completions' \in Seq(Completion)
      BY <2>4 DEF TypeInv, TypeOK
    <2>6. UNCHANGED <<main, cur, crashed, peers>>
      BY <1>6 DEF SendRefused, ReceiveRefused
    <2> QED  BY <2>1, <2>4, <2>5, <2>6 DEF peers, TypeInv, TypeOK, Contents
  <1>7. CASE PopNull(s)
    BY <1>7 DEF PopNull, PopNothing, objects, kernel, peers, TypeInv, TypeOK, Handled, Holding
  <1>8. CASE Recycle(s)
    <2>1. Holding(s)  BY <1>8 DEF Recycle, Goto, Holding
    <2>2. cur[s].ov \in Overlappeds  BY <2>1, ServedTyped
    <2>3. Append(pool, cur[s].ov) \in Seq(Overlappeds)
      <3>1. pool \in Seq(Overlappeds)  BY DEF TypeInv, TypeOK
      <3> QED  BY <2>2, <3>1, AppendProperties
    <2>4. ov' \in [Overlappeds -> Contents]
      <3>1. ov \in [Overlappeds -> Contents]  BY DEF TypeInv, TypeOK, Contents
      <3> QED  BY <1>8, <3>1, ContentsTyped DEF Recycle
    <2>5. /\ cur' \in [Sessions -> Completion \cup {NoCompletion}]
          /\ at' \in [Sessions -> {"off", "wait", "dispatch", "send", "rearm", "recycle"}]
      BY <1>8 DEF TypeInv, TypeOK, Recycle, Goto
    <2>6. Handled'
      BY <1>8 DEF TypeInv, TypeOK, Handled, Holding, Recycle, Goto
    <2> QED
      BY <1>8, <2>3, <2>4, <2>5, <2>6 DEF Recycle, Goto, kernel, peers, TypeInv, TypeOK, Contents
  <1> QED  BY <1>1, <1>2, <1>3, <1>4, <1>5, <1>6, <1>7, <1>8 DEF SessionStep

\* The kernel completes an operation that it holds.
LEMMA CompleteTyped ==
  ASSUME TypeInv, NEW c \in Clients, NEW i \in DOMAIN pending[c],
         NEW key \in Clients \cup {None}, NEW bytes \in Nat, NEW ok \in BOOLEAN,
         Complete(c, i, key, bytes, ok)
  PROVE  /\ pending[c][i] \in Overlappeds
         /\ pending' \in [Clients -> Seq(Overlappeds)] /\ completions' \in Seq(Completion)
         /\ UNCHANGED <<pool, lost, threads>>
  <1>1. pending[c] \in Seq(Overlappeds) /\ completions \in Seq(Completion)
    BY DEF TypeInv, TypeOK
  <1>2. pending[c][i] \in Overlappeds  BY <1>1
  <1>3. RemoveAt(pending[c], i) \in Seq(Overlappeds)  BY <1>1, RemoveAtElements
  <1>4. pending' \in [Clients -> Seq(Overlappeds)]
    BY <1>3 DEF TypeInv, TypeOK, Complete
  <1> DEFINE x == [ov |-> pending[c][i], key |-> key, bytes |-> bytes, ok |-> ok]
  <1>5. x \in Completion  BY <1>2 DEF Completion
  <1>6. completions' = Append(completions, x)  BY DEF Complete
  <1> HIDE DEF x
  <1>7. completions' \in Seq(Completion)  BY <1>1, <1>5, <1>6
  <1> QED  BY <1>2, <1>4, <1>7 DEF Complete

\* What the kernel and the peers do keeps the types.
LEMMA KernelTyped ==
  ASSUME TypeInv, NEW c \in Clients, KernelStep(c)
  PROVE  TypeInv'
  <1> DEFINE Port == /\ pending' \in [Clients -> Seq(Overlappeds)]
                     /\ completions' \in Seq(Completion)
                     /\ UNCHANGED <<pool, lost, threads>>
  <1>0. ov \in [Overlappeds -> Contents] /\ \A kind : \A i \in Posted(c, kind) : i \in DOMAIN pending[c]
    BY DEF TypeInv, TypeOK, Contents, Posted
  <1>1. ASSUME Port, ov' \in [Overlappeds -> Contents],
               sock' \in [Clients -> {"new", "listening", "open", "fin", "rst"}],
               received' \in [Clients -> Nat], answered' \in [Clients -> Seq(Nat)],
               asked' = asked
        PROVE  TypeInv'
    BY <1>1 DEF threads, TypeInv, TypeOK, Handled, Holding, Contents
  <1>2. CASE Connect(c) \/ ConnectFails(c) \/ DeliverEnd(c) \/ Abort(c)
    <2>1. PICK i \in DOMAIN pending[c], key \in {c, None}, ok \in BOOLEAN :
            Complete(c, i, key, 0, ok)
      BY <1>0, <1>2 DEF Connect, ConnectFails, DeliverEnd, Abort
    <2>2. Port  BY <2>1, CompleteTyped
    <2>3. /\ ov' = ov /\ UNCHANGED <<asked, received, answered>>
          /\ sock' \in [Clients -> {"new", "listening", "open", "fin", "rst"}]
      BY <1>2 DEF Connect, ConnectFails, DeliverEnd, Abort, peers, TypeInv, TypeOK
    <2> QED  BY <1>0, <1>1, <2>2, <2>3 DEF TypeInv, TypeOK
  <1>3. CASE Deliver(c)
    <2>1. PICK n \in received[c] + 1 .. Len(asked[c]), i \in Posted(c, "recv") :
            /\ Complete(c, i, c, n - received[c], TRUE)
            /\ ov' = [ov EXCEPT ![pending[c][i]].msg = received[c] + 1]
            /\ received' = [received EXCEPT ![c] = n]
      BY <1>3 DEF Deliver
    <2>2. received[c] \in Nat /\ Len(asked[c]) \in Nat
      <3>1. received[c] \in Nat /\ asked[c] \in Seq({"request", "unknown"})
        BY DEF TypeInv, TypeOK
      <3> QED  BY <3>1, LenProperties
    <2>3. n \in Nat /\ n - received[c] \in Nat  BY <2>2
    <2>4. Port  BY <1>0, <2>1, <2>3, CompleteTyped
    <2>5. pending[c][i] \in Overlappeds  BY <1>0, <2>1, <2>3, CompleteTyped
    <2>6. ov' \in [Overlappeds -> Contents]
      <3>1. ov' = [ov EXCEPT ![pending[c][i]] = [@ EXCEPT !.msg = received[c] + 1]]
        BY <2>1
      <3>2. [ov[pending[c][i]] EXCEPT !.msg = received[c] + 1] \in Contents
        BY <1>0, <2>2, <2>5 DEF Contents
      <3> QED  BY <1>0, <3>1, <3>2
    <2>7. received' \in [Clients -> Nat]  BY <2>1, <2>3 DEF TypeInv, TypeOK
    <2> QED  BY <1>1, <1>3, <2>4, <2>6, <2>7 DEF Deliver, TypeInv, TypeOK
  <1>4. CASE Transmit(c)
    <2>1. PICK i \in Posted(c, "send") :
            /\ Complete(c, i, c, 1, TRUE)
            /\ answered' = [answered EXCEPT ![c] = Append(@, ov[pending[c][i]].msg)]
      BY <1>4 DEF Transmit
    <2>2. Port /\ pending[c][i] \in Overlappeds  BY <1>0, <2>1, CompleteTyped
    <2>3. ov[pending[c][i]].msg \in Nat  BY <1>0, <2>2 DEF Contents
    <2>4. answered' \in [Clients -> Seq(Nat)]
      <3>1. answered \in [Clients -> Seq(Nat)]  BY DEF TypeInv, TypeOK
      <3>2. Append(answered[c], ov[pending[c][i]].msg) \in Seq(Nat)  BY <2>3, <3>1
      <3> QED  BY <2>1, <3>1, <3>2
    <2> QED  BY <1>0, <1>1, <1>4, <2>2, <2>4 DEF Transmit, TypeInv, TypeOK
  <1> QED  BY <1>2, <1>3, <1>4 DEF KernelStep

\* What a peer does keeps the types.
LEMMA PeerTyped ==
  ASSUME TypeInv, NEW c \in Clients, PeerStep(c)
  PROVE  TypeInv'
  <1>1. ASSUME NEW kind \in {"request", "unknown"}, Ask(c, kind)  PROVE TypeInv'
    <2>1. asked' \in [Clients -> Seq({"request", "unknown"})]
      <3>1. asked \in [Clients -> Seq({"request", "unknown"})]  BY DEF TypeInv, TypeOK
      <3>2. Append(asked[c], kind) \in Seq({"request", "unknown"})  BY <3>1
      <3> QED  BY <1>1, <3>1, <3>2 DEF Ask
    <2> QED
      BY <1>1, <2>1 DEF Ask, objects, kernel, threads, TypeInv, TypeOK, Handled, Holding
  <1>2. ASSUME NEW how \in {"fin", "rst"}, Hangup(c, how)  PROVE TypeInv'
    BY <1>2 DEF Hangup, objects, kernel, threads, TypeInv, TypeOK, Handled, Holding
  <1> QED  BY <1>1, <1>2 DEF PeerStep

\* Every step keeps the types.
LEMMA TypeStep == TypeInv /\ [Next]_vars => TypeInv'
  <1> SUFFICES ASSUME TypeInv, [Next]_vars  PROVE TypeInv'  OBVIOUS
  <1>1. CASE UNCHANGED vars
    BY <1>1 DEF vars, objects, kernel, threads, peers, TypeInv, TypeOK, Handled, Holding
  <1>2. CASE Next
    BY <1>2, MainTyped, SessionTyped, KernelTyped, PeerTyped DEF Next
  <1> QED  BY <1>1, <1>2

\* So they always hold.
LEMMA TypeInvHolds == Spec => []TypeInv
  BY TypeInit, TypeStep, PTL DEF Spec

\* The pool, the completion port, the threads and the connections keep their
\* types through every step of Network::NetworkManager, Session and Client.
THEOREM ServerTypeCorrect == Spec => []TypeOK
  <1>1. TypeInv => TypeOK  BY DEF TypeInv
  <1> QED  BY <1>1, TypeInvHolds, PTL

-----------------------------------------------------------------------------
(* Owners.  The places an overlapped can be in; every step moves one from   *)
(* one place to another, or none.                                           *)

Started == main \notin {"initialize", "failed"}

InPool      == Range(pool)
AtKernel(c) == Range(pending[c])
Port        == Range(completions)
AtPort      == {x.ov : x \in Port}
HeldBy(s)   == IF Holding(s) THEN {cur[s].ov} ELSE {}

\* Before the pool exists nothing has begun.
Unstarted ==
  ~ Started =>
    /\ pool = <<>> /\ lost = {} /\ completions = <<>> /\ crashed \in {"no", "null client map"}
    /\ ov = [o \in Overlappeds |-> Cleared]
    /\ \A c \in Clients : pending[c] = <<>> /\ sock[c] = "new"
    /\ \A s \in Sessions : at[s] = "off"

\* No place holds an overlapped twice.
EachOnce ==
  /\ IsInjective(pool)
  /\ \A c \in Clients : IsInjective(pending[c])
  /\ IsInjective(completions)
  /\ \A x, y \in Port : x.ov = y.ov => x = y

\* No overlapped is in two places.
Apart ==
  /\ lost \cap InPool = {} /\ lost \cap AtPort = {} /\ InPool \cap AtPort = {}
  /\ \A c \in Clients :
       /\ AtKernel(c) \cap InPool = {} /\ AtKernel(c) \cap lost = {}
       /\ AtKernel(c) \cap AtPort = {}
       /\ \A d \in Clients \ {c} : AtKernel(c) \cap AtKernel(d) = {}
  /\ \A s \in Sessions :
       /\ HeldBy(s) \cap InPool = {} /\ HeldBy(s) \cap lost = {} /\ HeldBy(s) \cap AtPort = {}
       /\ \A c \in Clients : HeldBy(s) \cap AtKernel(c) = {}
       /\ \A r \in Sessions \ {s} : HeldBy(s) \cap HeldBy(r) = {}

\* None is forgotten without being counted as lost.
Placed ==
  \A o \in Overlappeds : \/ o \in lost \/ o \in InPool \/ o \in AtPort
                         \/ \E c \in Clients : o \in AtKernel(c)
                         \/ \E s \in Sessions : o \in HeldBy(s)

\* What an overlapped says of its operation while the kernel, the port or a
\* session has it.
Working(s)  == at[s] \in {"dispatch", "send", "rearm"}
ClientOf(x) == IF ov[x.ov].op = "accept" THEN ov[x.ov].id ELSE x.key

Operated(x) ==
  /\ ov[x.ov].op # "default" /\ ClientOf(x) \in Clients
  /\ ov[x.ov].op = "send" => ov[x.ov].id = x.key
  /\ x.ok /\ x.bytes > 0 => ov[x.ov].op \in {"recv", "send"}

KernelOps ==
  \A c \in Clients : \A o \in AtKernel(c) :
    ov[o].op # "default" /\ (ov[o].op \in {"accept", "send"} => ov[o].id = c)
PortOps == \A x \in Port : Operated(x)
SessionOps ==
  \A s \in Sessions : Holding(s) =>
    /\ Operated(cur[s])
    /\ Working(s) => IsChain(cur[s].ov)
    /\ at[s] \in {"dispatch", "send"} =>
         ov[cur[s].ov].op = "recv" /\ cur[s].ok /\ cur[s].bytes > 0

Operations == KernelOps /\ PortOps /\ SessionOps

OwnInv ==
  /\ TypeInv /\ Unstarted /\ EachOnce /\ Apart /\ Operations
  /\ Started => Placed

\* Before Initialize there are no owners.
LEMMA OwnInit == Init => OwnInv
  <1> SUFFICES ASSUME Init  PROVE OwnInv  OBVIOUS
  <1>1. TypeInv  BY TypeInit
  <1>2. ~ Started /\ Unstarted  BY DEF Init, Started, Unstarted
  <1>3. Range(<<>>) = {} /\ IsInjective(<<>>)  BY DEF Range, IsInjective
  <1>4. InPool = {} /\ Port = {} /\ AtPort = {} /\ lost = {}
    BY <1>3 DEF Init, InPool, Port, AtPort
  <1>5. \A c \in Clients : AtKernel(c) = {} /\ pending[c] = <<>>
    BY <1>3 DEF Init, AtKernel
  <1>6. \A s \in Sessions : ~ Holding(s) /\ HeldBy(s) = {}
    BY DEF Init, Holding, HeldBy
  <1>7. EachOnce  BY <1>3, <1>4, <1>5 DEF Init, EachOnce
  <1>8. Apart  BY <1>4, <1>5, <1>6 DEF Apart
  <1>9. Operations
    BY <1>4, <1>5, <1>6 DEF Operations, KernelOps, PortOps, SessionOps
  <1> QED  BY <1>1, <1>2, <1>7, <1>8, <1>9 DEF OwnInv

\* Moves between places.
LEMMA PoolToKernel ==
  ASSUME Apart, NEW c \in Clients, NEW o \in InPool, InPool' = InPool \ {o},
         AtKernel(c)' = AtKernel(c) \cup {o},
         \A d \in Clients \ {c} : AtKernel(d)' = AtKernel(d),
         AtPort' = AtPort, lost' = lost, \A s \in Sessions : HeldBy(s)' = HeldBy(s)
  PROVE  Apart' /\ (Placed => Placed')
  <1>1. Apart'  BY DEF Apart
  <1>2. ASSUME Placed  PROVE Placed'
    BY <1>2 DEF Placed
  <1> QED  BY <1>1, <1>2

\* pop() takes an overlapped from the ring for a call that is then refused.
LEMMA PoolToNobody ==
  ASSUME Apart, NEW o \in InPool, InPool' = InPool \ {o}, lost' = lost \cup {o},
         \A d \in Clients : AtKernel(d)' = AtKernel(d),
         AtPort' = AtPort, \A s \in Sessions : HeldBy(s)' = HeldBy(s)
  PROVE  Apart' /\ (Placed => Placed')
  <1>1. Apart'  BY DEF Apart
  <1>2. ASSUME Placed  PROVE Placed'
    BY <1>2 DEF Placed
  <1> QED  BY <1>1, <1>2

\* The kernel completes an operation: its overlapped moves to the completion queue.
LEMMA KernelToPort ==
  ASSUME Apart, NEW c \in Clients, NEW o \in AtKernel(c), InPool' = InPool,
         AtKernel(c)' = AtKernel(c) \ {o},
         \A d \in Clients \ {c} : AtKernel(d)' = AtKernel(d),
         AtPort' = AtPort \cup {o}, lost' = lost, \A s \in Sessions : HeldBy(s)' = HeldBy(s)
  PROVE  Apart' /\ (Placed => Placed')
  <1>1. Apart'  BY DEF Apart
  <1>2. ASSUME Placed  PROVE Placed'
    BY <1>2 DEF Placed
  <1> QED  BY <1>1, <1>2

\* A session takes a completion.
LEMMA PortToSession ==
  ASSUME Apart, NEW s \in Sessions, NEW o \in AtPort, InPool' = InPool,
         \A d \in Clients : AtKernel(d)' = AtKernel(d),
         AtPort' = AtPort \ {o}, lost' = lost, HeldBy(s) = {}, HeldBy(s)' = {o},
         \A r \in Sessions \ {s} : HeldBy(r)' = HeldBy(r)
  PROVE  Apart' /\ (Placed => Placed')
  <1>1. Apart'  BY DEF Apart
  <1>2. ASSUME Placed  PROVE Placed'
    BY <1>2 DEF Placed
  <1> QED  BY <1>1, <1>2

\* A session leaves the overlapped of a failed completion to nobody.
LEMMA PortToNobody ==
  ASSUME Apart, NEW o \in AtPort, InPool' = InPool,
         \A d \in Clients : AtKernel(d)' = AtKernel(d),
         AtPort' = AtPort \ {o}, lost' = lost \cup {o},
         \A s \in Sessions : HeldBy(s)' = HeldBy(s)
  PROVE  Apart' /\ (Placed => Placed')
  <1>1. Apart'  BY DEF Apart
  <1>2. ASSUME Placed  PROVE Placed'
    BY <1>2 DEF Placed
  <1> QED  BY <1>1, <1>2

\* A session pushes its overlapped back.
LEMMA SessionToPool ==
  ASSUME Apart, NEW s \in Sessions, NEW o, HeldBy(s) = {o}, InPool' = InPool \cup {o},
         \A d \in Clients : AtKernel(d)' = AtKernel(d),
         AtPort' = AtPort, lost' = lost, HeldBy(s)' = {},
         \A r \in Sessions \ {s} : HeldBy(r)' = HeldBy(r)
  PROVE  Apart' /\ (Placed => Placed')
  <1>1. Apart'  BY DEF Apart
  <1>2. ASSUME Placed  PROVE Placed'
    BY <1>2 DEF Placed
  <1> QED  BY <1>1, <1>2

\* A step that moves no overlapped keeps the owners.
LEMMA Unmoved ==
  ASSUME InPool' = InPool, \A d \in Clients : AtKernel(d)' = AtKernel(d),
         AtPort' = AtPort, lost' = lost, \A s \in Sessions : HeldBy(s)' = HeldBy(s)
  PROVE  /\ Apart => Apart'
         /\ Placed => Placed'
  <1>1. ASSUME Apart  PROVE Apart'  BY <1>1 DEF Apart
  <1>2. ASSUME Placed  PROVE Placed'  BY <1>2 DEF Placed
  <1> QED  BY <1>1, <1>2

\* pop() takes the overlapped from the pool, and only its contents change.
LEMMA FillMoves ==
  ASSUME OwnInv, NEW contents \in Contents, Fill(contents)
  PROVE  /\ Head(pool) \in InPool /\ Head(pool) \in Overlappeds
         /\ InPool' = InPool \ {Head(pool)} /\ IsInjective(pool)'
         /\ ov'[Head(pool)] = contents
         /\ \A o \in Overlappeds \ {Head(pool)} : ov'[o] = ov[o]
  <1>1. pool \in Seq(Overlappeds) /\ pool # <<>> /\ IsInjective(pool)
        /\ ov \in [Overlappeds -> Contents]
    BY DEF OwnInv, TypeInv, TypeOK, Contents, EachOnce, Fill
  <1>2. /\ Head(pool) \in Range(pool) /\ Range(Tail(pool)) = Range(pool) \ {Head(pool)}
        /\ IsInjective(Tail(pool)) /\ Head(pool) \in Overlappeds
    BY <1>1, TailElements, HeadTailProperties
  <1>3. pool' = Tail(pool) /\ ov' = [ov EXCEPT ![Head(pool)] = contents]  BY DEF Fill
  <1> QED  BY <1>1, <1>2, <1>3 DEF InPool

\* An operation that the kernel has taken is held for its client.
LEMMA PostMoves ==
  ASSUME OwnInv, NEW contents \in Contents, NEW c \in Clients, Post(c, contents)
  PROVE  /\ Head(pool) \in InPool /\ Head(pool) \in Overlappeds
         /\ InPool' = InPool \ {Head(pool)} /\ IsInjective(pool)'
         /\ AtKernel(c)' = AtKernel(c) \cup {Head(pool)}
         /\ \A d \in Clients \ {c} : AtKernel(d)' = AtKernel(d)
         /\ \A d \in Clients : IsInjective(pending[d])'
         /\ Port' = Port /\ AtPort' = AtPort /\ completions' = completions /\ lost' = lost
         /\ ov'[Head(pool)] = contents
         /\ \A o \in Overlappeds \ {Head(pool)} : ov'[o] = ov[o]
  <1>1. /\ Head(pool) \in InPool /\ Head(pool) \in Overlappeds
        /\ InPool' = InPool \ {Head(pool)} /\ IsInjective(pool)'
        /\ ov'[Head(pool)] = contents
        /\ \A o \in Overlappeds \ {Head(pool)} : ov'[o] = ov[o]
    BY FillMoves DEF Post
  <1>2. Head(pool) \notin AtKernel(c)  BY <1>1 DEF OwnInv, Apart
  <1>3. /\ pending \in [Clients -> Seq(Overlappeds)]
        /\ \A d \in Clients : IsInjective(pending[d])
    BY DEF OwnInv, TypeInv, TypeOK, EachOnce
  <1>4. /\ pending' = [pending EXCEPT ![c] = Append(pending[c], Head(pool))]
        /\ completions' = completions /\ lost' = lost
    BY DEF Post
  <1>5. /\ Range(Append(pending[c], Head(pool))) = Range(pending[c]) \cup {Head(pool)}
        /\ IsInjective(Append(pending[c], Head(pool)))
    BY <1>1, <1>2, <1>3, AppendElements DEF AtKernel
  <1>6. /\ pending'[c] = Append(pending[c], Head(pool))
        /\ \A d \in Clients \ {c} : pending'[d] = pending[d]
    BY <1>3, <1>4
  <1>7. /\ AtKernel(c)' = AtKernel(c) \cup {Head(pool)}
        /\ \A d \in Clients \ {c} : AtKernel(d)' = AtKernel(d)
    BY <1>5, <1>6 DEF AtKernel
  <1>8. \A d \in Clients : IsInjective(pending[d])'
    BY <1>3, <1>5, <1>6
  <1>9. Port' = Port /\ AtPort' = AtPort  BY <1>4 DEF Port, AtPort
  <1> QED  BY <1>1, <1>4, <1>7, <1>8, <1>9

\* One that it refuses is nobody's.
LEMMA RefusedMoves ==
  ASSUME OwnInv, NEW contents \in Contents, PostRefused(contents)
  PROVE  /\ Head(pool) \in InPool /\ Head(pool) \in Overlappeds
         /\ InPool' = InPool \ {Head(pool)} /\ IsInjective(pool)'
         /\ lost' = lost \cup {Head(pool)}
         /\ pending' = pending /\ \A d \in Clients : AtKernel(d)' = AtKernel(d)
         /\ Port' = Port /\ AtPort' = AtPort /\ completions' = completions
         /\ ov'[Head(pool)] = contents
         /\ \A o \in Overlappeds \ {Head(pool)} : ov'[o] = ov[o]
  <1>1. /\ Head(pool) \in InPool /\ Head(pool) \in Overlappeds
        /\ InPool' = InPool \ {Head(pool)} /\ IsInjective(pool)'
        /\ ov'[Head(pool)] = contents
        /\ \A o \in Overlappeds \ {Head(pool)} : ov'[o] = ov[o]
    BY FillMoves DEF PostRefused
  <1>2. pending' = pending /\ completions' = completions /\ lost' = lost \cup {Head(pool)}
    BY DEF PostRefused, kernel
  <1>3. /\ \A d \in Clients : AtKernel(d)' = AtKernel(d)
        /\ Port' = Port /\ AtPort' = AtPort
    BY <1>2 DEF AtKernel, Port, AtPort
  <1> QED  BY <1>1, <1>2, <1>3

\* A completed operation goes from its client to the port.
LEMMA CompleteMoves ==
  ASSUME OwnInv, NEW c \in Clients, NEW i \in DOMAIN pending[c],
         NEW key \in Clients \cup {None}, NEW bytes \in Nat, NEW ok \in BOOLEAN,
         Complete(c, i, key, bytes, ok)
  PROVE  LET x == [ov |-> pending[c][i], key |-> key, bytes |-> bytes, ok |-> ok]
         IN  /\ x.ov \in AtKernel(c) /\ x.ov \in Overlappeds
             /\ x \in Completion /\ x.ov = pending[c][i]
             /\ AtKernel(c)' = AtKernel(c) \ {x.ov}
             /\ \A d \in Clients \ {c} : AtKernel(d)' = AtKernel(d)
             /\ \A d \in Clients : IsInjective(pending[d])'
             /\ Port' = Port \cup {x} /\ AtPort' = AtPort \cup {x.ov}
             /\ completions' = Append(completions, x) /\ IsInjective(completions)'
             /\ InPool' = InPool /\ pool' = pool /\ lost' = lost /\ UNCHANGED threads
             /\ \A s \in Sessions : HeldBy(s)' = HeldBy(s)
  <1> DEFINE x == [ov |-> pending[c][i], key |-> key, bytes |-> bytes, ok |-> ok]
  <1>1. /\ pending \in [Clients -> Seq(Overlappeds)] /\ completions \in Seq(Completion)
        /\ \A d \in Clients : IsInjective(pending[d])
        /\ IsInjective(completions)
    BY DEF OwnInv, TypeInv, TypeOK, EachOnce
  <1>2. x.ov = pending[c][i] /\ x.ov \in Overlappeds /\ x.ov \in AtKernel(c) /\ x \in Completion
    <2>1. pending[c][i] \in Overlappeds /\ pending[c][i] \in AtKernel(c)
      BY <1>1 DEF AtKernel, Range
    <2>2. x \in Completion  BY <2>1 DEF Completion
    <2> QED  BY <2>1, <2>2
  <1>3. /\ pending' = [pending EXCEPT ![c] = RemoveAt(pending[c], i)]
        /\ completions' = Append(completions, x)
        /\ pool' = pool /\ lost' = lost /\ UNCHANGED threads
    BY DEF Complete
  <1> HIDE DEF x
  <1>4. /\ Range(RemoveAt(pending[c], i)) = Range(pending[c]) \ {x.ov}
        /\ IsInjective(RemoveAt(pending[c], i))
    BY <1>1, <1>2, RemoveAtRange
  <1>5. /\ pending'[c] = RemoveAt(pending[c], i)
        /\ \A d \in Clients \ {c} : pending'[d] = pending[d]
    BY <1>1, <1>3
  <1>6. /\ AtKernel(c)' = AtKernel(c) \ {x.ov}
        /\ \A d \in Clients \ {c} : AtKernel(d)' = AtKernel(d)
        /\ \A d \in Clients : IsInjective(pending[d])'
    BY <1>1, <1>4, <1>5 DEF AtKernel
  <1>7. x \notin Port
    <2>1. x.ov \notin AtPort  BY <1>2 DEF OwnInv, Apart
    <2> QED  BY <2>1 DEF AtPort
  <1>8. Port' = Port \cup {x} /\ IsInjective(completions)'
    BY <1>1, <1>2, <1>3, <1>7, AppendElements DEF Port
  <1>9. AtPort' = AtPort \cup {x.ov}  BY <1>8 DEF AtPort
  <1>10. InPool' = InPool /\ \A s \in Sessions : HeldBy(s)' = HeldBy(s)
    BY <1>3 DEF InPool, HeldBy, Holding, threads
  <1> QED  BY <1>2, <1>3, <1>6, <1>8, <1>9, <1>10 DEF x

\* GetQueuedCompletionStatus takes the oldest completion.
LEMMA TakeMoves ==
  ASSUME OwnInv, completions # <<>>, completions' = Tail(completions)
  PROVE  /\ Head(completions) \in Port /\ Head(completions) \in Completion
         /\ Head(completions).ov \in Overlappeds /\ Head(completions).ov \in AtPort
         /\ Port' = Port \ {Head(completions)}
         /\ AtPort' = AtPort \ {Head(completions).ov}
         /\ IsInjective(completions)'
  <1>1. /\ completions \in Seq(Completion) /\ IsInjective(completions)
        /\ \A x, y \in Port : x.ov = y.ov => x = y
    BY DEF OwnInv, TypeInv, TypeOK, EachOnce
  <1>2. /\ Head(completions) \in Port /\ Port' = Port \ {Head(completions)}
        /\ IsInjective(completions)'
    BY <1>1, TailElements DEF Port
  <1>3. Head(completions) \in Completion  BY <1>1, HeadTailProperties
  <1>4. Head(completions).ov \in Overlappeds  BY <1>3 DEF Completion
  <1>5. AtPort' = AtPort \ {Head(completions).ov} /\ Head(completions).ov \in AtPort
    BY <1>1, <1>2 DEF AtPort
  <1> QED  BY <1>2, <1>3, <1>4, <1>5

\* Who holds a completion has been started by the main thread.
LEMMA BegunStarted ==
  ASSUME OwnInv
  PROVE  /\ \A s \in Sessions : at[s] # "off" => Started
         /\ \A c \in Clients : pending[c] # <<>> \/ sock[c] # "new" => Started
         /\ pool # <<>> \/ completions # <<>> => Started
  BY DEF OwnInv, Unstarted

\* Once it has started, the server stays so.
LEMMA StaysStarted == Started /\ Next => Started'
  <1>1. Started /\ MainStep => Started'
    BY DEF Started, MainStep, Initialize, InitializeFails, ReadyWithoutClients, AcceptReady,
           AcceptRefused, AcceptSocketError, AcceptsPosted, SpawnSession, ReadySuccess,
           SetSendCallback, threads
  <1>2. \A s \in Sessions : SessionStep(s) => main' = main
    BY DEF SessionStep, TakeAccepted, TakeMessage, TakeDisconnect, TakeSent, Take, TakeFailed,
           DispatchRequest, DispatchUnknown, DispatchEmptyCallback, SendPosted, SendRefused,
           ReceivePosted, ReceiveRefused, ReceiveSocketError, PopNull, Recycle, threads
  <1>3. \A c \in Clients : KernelStep(c) \/ PeerStep(c) => main' = main
    BY DEF KernelStep, Connect, ConnectFails, Deliver, DeliverEnd, Transmit, Abort, Complete,
           PeerStep, Ask, Hangup, threads
  <1> QED  BY <1>1, <1>2, <1>3 DEF Next, Started

\* A step that moves no overlapped and begins no handling.
LEMMA QuietStep ==
  ASSUME OwnInv, TypeInv', Unstarted', Started' => Started,
         UNCHANGED <<pool, lost, ov, pending, completions, cur>>,
         \A s \in Sessions : /\ Holding(s)' <=> Holding(s)
                             /\ Working(s)' => Working(s)
                             /\ at'[s] \in {"dispatch", "send"} => at[s] \in {"dispatch", "send"}
  PROVE  OwnInv'
  <1>1. /\ InPool' = InPool /\ Port' = Port /\ AtPort' = AtPort
        /\ \A d \in Clients : AtKernel(d)' = AtKernel(d)
        /\ \A s \in Sessions : HeldBy(s)' = HeldBy(s)
    BY DEF InPool, Port, AtPort, AtKernel, HeldBy
  <1>2. Apart' /\ (Placed => Placed')  BY <1>1, Unmoved DEF OwnInv
  <1>3. EachOnce'  BY <1>1 DEF OwnInv, EachOnce
  <1>4. KernelOps' /\ PortOps'
    BY <1>1 DEF OwnInv, Operations, KernelOps, PortOps, Operated, ClientOf
  <1>5. SessionOps'
    BY DEF OwnInv, Operations, SessionOps, Operated, ClientOf, IsChain
  <1> QED  BY <1>2, <1>3, <1>4, <1>5 DEF OwnInv, Operations

\* Initialize fills the pool; the last overlapped it creates does not fit.
LEMMA InitializeOwned == ASSUME OwnInv, Initialize  PROVE OwnInv'
  <1> USE ServerAssumption
  <1>0. TypeInv'  BY MainTyped DEF OwnInv, MainStep
  <1>1. PICK created \in Creations :
          pool' = SubSeq(created, 1, Capacity) /\ lost' = {created[Capacity + 1]}
    BY DEF Initialize
  <1>2. /\ Capacity \in Nat /\ Capacity + 1 = Cardinality(Overlappeds)
        /\ created \in [1 .. Capacity + 1 -> Overlappeds] /\ IsInjective(created)
    BY CapacityNat
  <1>3. /\ Len(pool') = Capacity /\ DOMAIN pool' = 1 .. Capacity
        /\ \A i \in 1 .. Capacity : pool'[i] = created[i]
    <2>1. \A i \in 1 .. Capacity : created[i] \in Overlappeds  BY <1>2
    <2>2. /\ pool' \in Seq(Overlappeds) /\ Len(pool') = Capacity
          /\ \A i \in 1 .. Capacity : pool'[i] = created[i]
      BY <1>1, <1>2, <2>1, SubSeqProperties
    <2> QED  BY <2>2, LenProperties
  <1>4. /\ UNCHANGED <<ov, pending, completions, at, cur, sock, crashed>>
        /\ main = "initialize" /\ main' = "accept"
    BY DEF Initialize, kernel, peers
  <1>5. ~ Started /\ Started'  BY <1>4 DEF Started
  <1>6. /\ completions = <<>> /\ \A c \in Clients : pending[c] = <<>>
        /\ \A s \in Sessions : at[s] = "off"
    BY <1>5 DEF OwnInv, Unstarted
  <1>7. Range(<<>>) = {} /\ IsInjective(<<>>)  BY DEF Range, IsInjective
  <1>8. /\ Port' = {} /\ AtPort' = {} /\ \A c \in Clients : AtKernel(c)' = {}
        /\ \A s \in Sessions : ~ Holding(s)' /\ HeldBy(s)' = {}
    BY <1>4, <1>6, <1>7 DEF Port, AtPort, AtKernel, Holding, HeldBy
  <1>9. IsInjective(pool)'  BY <1>2, <1>3 DEF IsInjective
  <1>10. EachOnce'  BY <1>4, <1>6, <1>7, <1>8, <1>9 DEF EachOnce
  <1>11. lost' \cap InPool' = {}
    <2>1. \A i \in 1 .. Capacity : i # Capacity + 1 /\ created[i] # created[Capacity + 1]
      BY <1>2 DEF IsInjective
    <2> QED  BY <1>1, <1>3, <2>1 DEF InPool, Range
  <1>12. Apart'  BY <1>8, <1>11 DEF Apart
  <1>13. Operations'
    BY <1>8 DEF Operations, KernelOps, PortOps, SessionOps
  <1>14. Placed'
    <2>1. \A o \in Overlappeds : \E i \in 1 .. Capacity + 1 : created[i] = o
      <3>1. created \in Injection(1 .. Capacity + 1, Overlappeds)  BY <1>2 DEF Injection
      <3>2. IsFiniteSet(1 .. Capacity + 1) /\ Cardinality(1 .. Capacity + 1) = Capacity + 1
        BY <1>2, FS_Interval
      <3>3. created \in Surjection(1 .. Capacity + 1, Overlappeds)
        BY <1>2, <3>1, <3>2, FS_Injection
      <3> QED  BY <3>3 DEF Surjection
    <2>2. ASSUME NEW o \in Overlappeds  PROVE o \in lost' \/ o \in InPool'
      <3>1. PICK i \in 1 .. Capacity + 1 : created[i] = o  BY <2>1
      <3>2. CASE i = Capacity + 1  BY <1>1, <3>1, <3>2
      <3>3. CASE i \in 1 .. Capacity  BY <1>3, <3>1, <3>3 DEF InPool, Range
      <3> QED  BY <1>2, <3>2, <3>3
    <2> QED  BY <2>2 DEF Placed
  <1> QED  BY <1>0, <1>5, <1>10, <1>12, <1>13, <1>14 DEF OwnInv, Unstarted

\* What a session or a completion says of its overlapped is not changed by
\* what is done to another.
LEMMA OperatedKept ==
  ASSUME OwnInv, NEW x, ov'[x.ov] = ov[x.ov], Operated(x)
  PROVE  Operated(x)'
  BY DEF Operated, ClientOf

\* A session that stays at its completion.
LEMMA SessionOpsKept ==
  ASSUME OwnInv, cur' = cur,
         \A s \in Sessions : /\ Holding(s)' => Holding(s) /\ ov'[cur[s].ov] = ov[cur[s].ov]
                             /\ Working(s)' => Working(s)
                             /\ at'[s] \in {"dispatch", "send"} => at[s] \in {"dispatch", "send"}
  PROVE  SessionOps'
  BY DEF OwnInv, Operations, SessionOps, Operated, ClientOf, IsChain

\* What is in use is not in the pool.
LEMMA InUse ==
  ASSUME OwnInv, NEW o \in InPool
  PROVE  /\ \A d \in Clients : \A p \in AtKernel(d) : p \in Overlappeds \ {o}
         /\ \A x \in Port : x \in Completion /\ x.ov \in Overlappeds \ {o}
         /\ \A s \in Sessions : Holding(s) => cur[s].ov \in Overlappeds \ {o}
         /\ \A p \in lost : p \in Overlappeds \ {o}
  <1>1. \A d \in Clients : \A p \in AtKernel(d) : p \in Overlappeds \ {o}
    <2>1. \A d \in Clients : AtKernel(d) \subseteq Overlappeds
      BY RangeOfSeq DEF AtKernel, OwnInv, TypeInv, TypeOK
    <2> QED  BY <2>1 DEF OwnInv, Apart
  <1>2. \A x \in Port : x \in Completion /\ x.ov \in Overlappeds \ {o}
    <2>1. Port \subseteq Completion
      BY RangeOfSeq DEF Port, OwnInv, TypeInv, TypeOK
    <2>2. \A x \in Port : x.ov \in Overlappeds /\ x.ov \in AtPort
      BY <2>1 DEF Completion, AtPort
    <2> QED  BY <2>1, <2>2 DEF OwnInv, Apart
  <1>3. \A s \in Sessions : Holding(s) => cur[s].ov \in Overlappeds \ {o}
    <2>1. \A s \in Sessions : Holding(s) => cur[s].ov \in Overlappeds /\ cur[s].ov \in HeldBy(s)
      BY ServedTyped DEF OwnInv, HeldBy
    <2> QED  BY <2>1 DEF OwnInv, Apart
  <1>4. \A p \in lost : p \in Overlappeds \ {o}
    BY DEF OwnInv, TypeInv, TypeOK, Apart
  <1> QED  BY <1>1, <1>2, <1>3, <1>4

\* Borrowing an overlapped for an operation, wherever the caller stands.
LEMMA PostOwned ==
  ASSUME OwnInv, TypeInv', Started', NEW contents \in Contents, NEW c \in Clients,
         Post(c, contents), contents.op # "default",
         contents.op \in {"accept", "send"} => contents.id = c, cur' = cur,
         \A s \in Sessions : /\ Holding(s)' <=> Holding(s)
                             /\ Working(s)' => Working(s)
                             /\ at'[s] \in {"dispatch", "send"} => at[s] \in {"dispatch", "send"}
  PROVE  OwnInv'
  <1> DEFINE o == Head(pool)
  <1>1. /\ o \in InPool /\ o \in Overlappeds
        /\ InPool' = InPool \ {o} /\ IsInjective(pool)'
        /\ AtKernel(c)' = AtKernel(c) \cup {o}
        /\ \A d \in Clients \ {c} : AtKernel(d)' = AtKernel(d)
        /\ \A d \in Clients : IsInjective(pending[d])'
        /\ Port' = Port /\ AtPort' = AtPort /\ completions' = completions /\ lost' = lost
        /\ ov'[o] = contents
        /\ \A p \in Overlappeds \ {o} : ov'[p] = ov[p]
    BY PostMoves
  <1> HIDE DEF o
  <1>2. \A s \in Sessions : HeldBy(s)' = HeldBy(s)  BY DEF HeldBy
  <1>3. Apart' /\ (Placed => Placed')  BY <1>1, <1>2, PoolToKernel DEF OwnInv
  <1>4. EachOnce'  BY <1>1 DEF OwnInv, EachOnce
  <1>5. /\ \A d \in Clients : \A p \in AtKernel(d) : p \in Overlappeds \ {o}
        /\ \A x \in Port : x.ov \in Overlappeds \ {o}
        /\ \A s \in Sessions : Holding(s) => cur[s].ov \in Overlappeds \ {o}
    BY <1>1, InUse
  <1>6. KernelOps'
    BY <1>1, <1>5 DEF OwnInv, Operations, KernelOps
  <1>7. PortOps'
    BY <1>1, <1>5, OperatedKept DEF OwnInv, Operations, PortOps
  <1>8. SessionOps'
    BY <1>1, <1>5, SessionOpsKept
  <1>9. Placed  BY BegunStarted DEF OwnInv, Post, Fill
  <1> QED  BY <1>3, <1>4, <1>6, <1>7, <1>8, <1>9 DEF OwnInv, Operations, Unstarted

\* Losing one to a refused call.
LEMMA RefusedOwned ==
  ASSUME OwnInv, TypeInv', Started', NEW contents \in Contents, PostRefused(contents), cur' = cur,
         \A s \in Sessions : /\ Holding(s)' <=> Holding(s)
                             /\ Working(s)' => Working(s)
                             /\ at'[s] \in {"dispatch", "send"} => at[s] \in {"dispatch", "send"}
  PROVE  OwnInv'
  <1> DEFINE o == Head(pool)
  <1>1. /\ o \in InPool /\ o \in Overlappeds
        /\ InPool' = InPool \ {o} /\ IsInjective(pool)' /\ lost' = lost \cup {o}
        /\ pending' = pending /\ \A d \in Clients : AtKernel(d)' = AtKernel(d)
        /\ Port' = Port /\ AtPort' = AtPort /\ completions' = completions
        /\ \A p \in Overlappeds \ {o} : ov'[p] = ov[p]
    BY RefusedMoves
  <1> HIDE DEF o
  <1>2. \A s \in Sessions : HeldBy(s)' = HeldBy(s)  BY DEF HeldBy
  <1>3. Apart' /\ (Placed => Placed')  BY <1>1, <1>2, PoolToNobody DEF OwnInv
  <1>4. EachOnce'  BY <1>1 DEF OwnInv, EachOnce
  <1>5. /\ \A d \in Clients : \A p \in AtKernel(d) : p \in Overlappeds \ {o}
        /\ \A x \in Port : x.ov \in Overlappeds \ {o}
        /\ \A s \in Sessions : Holding(s) => cur[s].ov \in Overlappeds \ {o}
    BY <1>1, InUse
  <1>6. KernelOps'
    BY <1>1, <1>5 DEF OwnInv, Operations, KernelOps
  <1>7. PortOps'
    BY <1>1, <1>5, OperatedKept DEF OwnInv, Operations, PortOps
  <1>8. SessionOps'
    BY <1>1, <1>5, SessionOpsKept
  <1>9. Placed  BY BegunStarted DEF OwnInv, PostRefused, Fill
  <1> QED  BY <1>3, <1>4, <1>6, <1>7, <1>8, <1>9 DEF OwnInv, Operations, Unstarted

\* The completion of an operation: its overlapped keeps what it says, but for
\* the message that a receive has taken.
LEMMA CompleteOwned ==
  ASSUME OwnInv, TypeInv', NEW c \in Clients, NEW i \in DOMAIN pending[c],
         NEW key \in Clients \cup {None}, NEW bytes \in Nat, NEW ok \in BOOLEAN,
         Complete(c, i, key, bytes, ok),
         \A o \in Overlappeds : ov'[o].op = ov[o].op /\ ov'[o].id = ov[o].id,
         ov[pending[c][i]].op # "accept" => key = c,
         ok /\ bytes > 0 => ov[pending[c][i]].op \in {"recv", "send"}
  PROVE  OwnInv'
  <1> DEFINE x == [ov |-> pending[c][i], key |-> key, bytes |-> bytes, ok |-> ok]
  <1>1. /\ x.ov \in AtKernel(c) /\ x.ov \in Overlappeds
        /\ x \in Completion /\ x.ov = pending[c][i]
        /\ AtKernel(c)' = AtKernel(c) \ {x.ov}
        /\ \A d \in Clients \ {c} : AtKernel(d)' = AtKernel(d)
        /\ \A d \in Clients : IsInjective(pending[d])'
        /\ Port' = Port \cup {x} /\ AtPort' = AtPort \cup {x.ov}
        /\ completions' = Append(completions, x) /\ IsInjective(completions)'
        /\ InPool' = InPool /\ pool' = pool /\ lost' = lost /\ UNCHANGED threads
        /\ \A s \in Sessions : HeldBy(s)' = HeldBy(s)
    BY CompleteMoves
  <1>2. x.key = key /\ x.bytes = bytes /\ x.ok = ok  OBVIOUS
  <1> HIDE DEF x
  <1>3. Apart' /\ (Placed => Placed')  BY <1>1, KernelToPort DEF OwnInv
  <1>4. EachOnce'
    <2>1. \A y \in Port : y.ov # x.ov
      BY <1>1 DEF OwnInv, Apart, AtPort
    <2> QED  BY <1>1, <2>1 DEF OwnInv, EachOnce
  <1>5. KernelOps'
    <2>1. \A d \in Clients : AtKernel(d) \subseteq Overlappeds
      BY RangeOfSeq DEF AtKernel, OwnInv, TypeInv, TypeOK
    <2> QED  BY <1>1, <2>1 DEF OwnInv, Operations, KernelOps
  <1>6. PortOps'
    <2>1. Port \subseteq Completion
      BY RangeOfSeq DEF Port, OwnInv, TypeInv, TypeOK
    <2>2. \A y \in Port : y.ov \in Overlappeds  BY <2>1 DEF Completion
    <2>3. ASSUME NEW y \in Port'  PROVE Operated(y)'
      <3>1. CASE y \in Port
        BY <2>2, <3>1 DEF OwnInv, Operations, PortOps, Operated, ClientOf
      <3>2. CASE y = x
        <4>1. Operated(y)
          BY <1>1, <1>2, <3>2 DEF OwnInv, Operations, KernelOps, Operated, ClientOf
        <4> QED  BY <1>1, <3>2, <4>1 DEF Operated, ClientOf
      <3> QED  BY <1>1, <3>1, <3>2
    <2> QED  BY <2>3 DEF PortOps
  <1>7. SessionOps'
    <2>1. \A s \in Sessions : Holding(s) => cur[s].ov \in Overlappeds
      BY ServedTyped DEF OwnInv
    <2>2. cur' = cur /\ at' = at  BY <1>1 DEF threads
    <2> QED
      BY <2>1, <2>2 DEF OwnInv, Operations, SessionOps, Operated, ClientOf, IsChain, Holding, Working
  <1>8. pending[c] # <<>>
    <2>1. DOMAIN <<>> = {}  OBVIOUS
    <2> QED  BY <2>1
  <1>9. Started /\ Started' /\ Placed
    BY <1>1, <1>8, BegunStarted DEF OwnInv, Started, threads
  <1> QED  BY <1>3, <1>4, <1>5, <1>6, <1>7, <1>9 DEF OwnInv, Operations, Unstarted

\* Taking a completion: the session is told what its overlapped says.
LEMMA TakeOwned ==
  ASSUME OwnInv, TypeInv', NEW s \in Sessions, NEW next \in {"dispatch", "rearm", "recycle"},
         Take(s, next),
         next # "recycle" => TakenOp \in {"accept", "recv"},
         next = "dispatch" => TakenOp = "recv" /\ Head(completions).bytes > 0
  PROVE  OwnInv'
  <1> DEFINE x == Head(completions)
  <1>1. /\ x \in Port /\ x \in Completion /\ x.ov \in Overlappeds /\ x.ov \in AtPort
        /\ Port' = Port \ {x} /\ AtPort' = AtPort \ {x.ov} /\ IsInjective(completions)'
    BY TakeMoves DEF Take
  <1>2. /\ completions # <<>> /\ at[s] = "wait" /\ x.ok
        /\ UNCHANGED <<objects, pending, main, crashed>>
        /\ cur' = [cur EXCEPT ![s] = x] /\ at' = [at EXCEPT ![s] = next]
    BY DEF Take
  <1> HIDE DEF x
  <1>3. cur'[s] = x /\ at'[s] = next /\ \A r \in Sessions \ {s} : cur'[r] = cur[r] /\ at'[r] = at[r]
    BY <1>2 DEF OwnInv, TypeInv, TypeOK
  <1>4. /\ InPool' = InPool /\ lost' = lost /\ \A d \in Clients : AtKernel(d)' = AtKernel(d)
        /\ ov' = ov
    BY <1>2 DEF InPool, AtKernel, objects
  <1>5. /\ HeldBy(s) = {} /\ HeldBy(s)' = {x.ov}
        /\ \A r \in Sessions \ {s} : HeldBy(r)' = HeldBy(r)
    BY <1>2, <1>3 DEF HeldBy, Holding
  <1>6. Apart' /\ (Placed => Placed')  BY <1>1, <1>4, <1>5, PortToSession DEF OwnInv
  <1>7. EachOnce'  BY <1>1, <1>2, <1>4 DEF OwnInv, EachOnce, objects
  <1>8. KernelOps' /\ PortOps'
    BY <1>1, <1>4 DEF OwnInv, Operations, KernelOps, PortOps, Operated, ClientOf
  <1>9. SessionOps'
    <2> SUFFICES ASSUME NEW r \in Sessions, Holding(r)'
                 PROVE  /\ Operated(cur[r])'
                        /\ Working(r)' => IsChain(cur[r].ov)'
                        /\ at'[r] \in {"dispatch", "send"} =>
                             ov'[cur'[r].ov].op = "recv" /\ cur'[r].ok /\ cur'[r].bytes > 0
      BY DEF SessionOps
    <2>1. CASE r = s
      <3>1. Operated(x)  BY <1>1 DEF OwnInv, Operations, PortOps
      <3>2. Operated(cur[s])'  BY <1>3, <1>4, <3>1 DEF Operated, ClientOf
      <3>3. next # "recycle" => ov[x.ov].op \in {"accept", "recv"}  BY DEF TakenOp, x
      <3>4. next = "dispatch" => ov[x.ov].op = "recv" /\ x.bytes > 0  BY DEF TakenOp, x
      <3> QED  BY <1>2, <1>3, <1>4, <2>1, <3>2, <3>3, <3>4 DEF Working, IsChain
    <2>2. CASE r # s
      BY <1>3, <1>4, <2>2 DEF OwnInv, Operations, SessionOps, Operated, ClientOf, Working,
                              IsChain, Holding
    <2> QED  BY <2>1, <2>2
  <1>10. Started /\ Started' /\ Placed
    BY <1>2, BegunStarted DEF OwnInv, Started
  <1> QED  BY <1>6, <1>7, <1>8, <1>9, <1>10 DEF OwnInv, Operations, Unstarted

\* A failed operation: its overlapped is nobody's.
LEMMA FailedOwned == ASSUME OwnInv, TypeInv', NEW s \in Sessions, TakeFailed(s)  PROVE OwnInv'
  <1>1. /\ completions # <<>> /\ completions' = Tail(completions)
        /\ lost' = lost \cup {Head(completions).ov}
        /\ UNCHANGED <<pool, ov, pending, main, at, cur>>
    BY DEF TakeFailed, threads
  <1>2. /\ Head(completions).ov \in AtPort
        /\ Port' = Port \ {Head(completions)} /\ AtPort' = AtPort \ {Head(completions).ov}
        /\ IsInjective(completions)'
    BY <1>1, TakeMoves
  <1>3. /\ InPool' = InPool /\ \A d \in Clients : AtKernel(d)' = AtKernel(d)
        /\ \A r \in Sessions : HeldBy(r)' = HeldBy(r)
    BY <1>1 DEF InPool, AtKernel, HeldBy, Holding
  <1>4. Apart' /\ (Placed => Placed')  BY <1>1, <1>2, <1>3, PortToNobody DEF OwnInv
  <1>5. EachOnce'  BY <1>1, <1>2 DEF OwnInv, EachOnce
  <1>6. KernelOps' /\ PortOps'
    BY <1>1, <1>2, <1>3 DEF OwnInv, Operations, KernelOps, PortOps, Operated, ClientOf
  <1>7. SessionOps'
    BY <1>1 DEF OwnInv, Operations, SessionOps, Operated, ClientOf, IsChain, Holding, Working
  <1>8. Started /\ Started' /\ Placed  BY <1>1, BegunStarted DEF OwnInv, Started
  <1> QED  BY <1>4, <1>5, <1>6, <1>7, <1>8 DEF OwnInv, Operations, Unstarted

\* The end of the loop body gives the overlapped back.
LEMMA RecycleOwned == ASSUME OwnInv, TypeInv', NEW s \in Sessions, Recycle(s)  PROVE OwnInv'
  <1> DEFINE o == cur[s].ov
  <1>1. /\ at[s] = "recycle" /\ at' = [at EXCEPT ![s] = "wait"]
        /\ ov' = [ov EXCEPT ![o] = Cleared] /\ pool' = Append(pool, o)
        /\ cur' = [cur EXCEPT ![s] = NoCompletion]
        /\ UNCHANGED <<lost, pending, completions, main>>
    BY DEF Recycle, Goto, kernel
  <1>2. o \in Overlappeds /\ HeldBy(s) = {o}
    BY <1>1, ServedTyped DEF OwnInv, Holding, HeldBy
  <1>3. pool \in Seq(Overlappeds) /\ IsInjective(pool) /\ o \notin Range(pool)
    BY <1>2 DEF OwnInv, TypeInv, TypeOK, EachOnce, Apart, InPool
  <1>4. InPool' = InPool \cup {o} /\ IsInjective(pool)'
    BY <1>1, <1>2, <1>3, AppendElements DEF InPool
  <1> HIDE DEF o
  <1>5. /\ \A p \in Overlappeds \ {o} : ov'[p] = ov[p]
        /\ at'[s] = "wait" /\ \A r \in Sessions \ {s} : cur'[r] = cur[r] /\ at'[r] = at[r]
    BY <1>1, <1>2 DEF OwnInv, TypeInv, TypeOK
  <1>6. HeldBy(s)' = {} /\ \A r \in Sessions \ {s} : HeldBy(r)' = HeldBy(r)
    BY <1>5 DEF HeldBy, Holding
  <1>7. /\ \A d \in Clients : AtKernel(d)' = AtKernel(d)
        /\ Port' = Port /\ AtPort' = AtPort
    BY <1>1 DEF AtKernel, Port, AtPort
  <1>8. Apart' /\ (Placed => Placed')
    BY <1>1, <1>2, <1>4, <1>6, <1>7, SessionToPool DEF OwnInv
  <1>9. EachOnce'  BY <1>1, <1>4, <1>7 DEF OwnInv, EachOnce
  <1>10. /\ \A d \in Clients : \A p \in AtKernel(d) : p \in Overlappeds \ {o}
         /\ \A x \in Port : x.ov \in Overlappeds \ {o}
         /\ \A r \in Sessions \ {s} : Holding(r) => cur[r].ov \in Overlappeds \ {o}
    <2>1. \A d \in Clients : AtKernel(d) \subseteq Overlappeds
      BY RangeOfSeq DEF AtKernel, OwnInv, TypeInv, TypeOK
    <2>2. Port \subseteq Completion
      BY RangeOfSeq DEF Port, OwnInv, TypeInv, TypeOK
    <2>3. \A x \in Port : x.ov \in Overlappeds /\ x.ov \in AtPort
      BY <2>2 DEF Completion, AtPort
    <2>4. \A r \in Sessions : Holding(r) => cur[r].ov \in Overlappeds /\ cur[r].ov \in HeldBy(r)
      BY ServedTyped DEF OwnInv, HeldBy
    <2> QED  BY <1>2, <2>1, <2>3, <2>4 DEF OwnInv, Apart
  <1>11. KernelOps'
    BY <1>5, <1>7, <1>10 DEF OwnInv, Operations, KernelOps
  <1>12. PortOps'
    BY <1>5, <1>7, <1>10, OperatedKept DEF OwnInv, Operations, PortOps
  <1>13. SessionOps'
    BY <1>5, <1>10 DEF OwnInv, Operations, SessionOps, Operated, ClientOf, IsChain, Holding, Working
  <1>14. Started /\ Started' /\ Placed  BY <1>1, BegunStarted DEF OwnInv, Started
  <1> QED  BY <1>8, <1>9, <1>11, <1>12, <1>13, <1>14 DEF OwnInv, Operations, Unstarted

\* The client that a working session serves.
LEMMA ServedKnown ==
  ASSUME OwnInv, NEW s \in Sessions, Holding(s)
  PROVE  ServedClient(s) \in Clients /\ ServedClient(s) = ClientOf(cur[s])
  BY DEF OwnInv, Operations, SessionOps, Operated, ServedClient, ClientOf

\* Every step keeps the owners: the main thread's,
LEMMA MainOwned == ASSUME OwnInv, MainStep  PROVE OwnInv'
  <1>0. TypeInv'  BY MainTyped DEF OwnInv
  <1>1. CASE Initialize  BY <1>1, InitializeOwned
  <1>2. CASE InitializeFails
    <2>1. ~ Started /\ ~ Started'  BY <1>2 DEF InitializeFails, Started
    <2>2. UNCHANGED <<pool, lost, ov, pending, completions, at, cur, sock, crashed>>
      BY <1>2 DEF InitializeFails, objects, kernel, peers
    <2>3. Unstarted'  BY <2>1, <2>2 DEF OwnInv, Unstarted
    <2> QED  BY <1>0, <2>1, <2>2, <2>3, QuietStep DEF Holding, Working
  <1>3. CASE ReadyWithoutClients
    <2>1. ~ Started /\ ~ Started'  BY <1>3 DEF ReadyWithoutClients, Started
    <2>2. UNCHANGED <<pool, lost, ov, pending, completions, at, cur, sock>>
          /\ crashed' = "null client map"
      BY <1>3 DEF ReadyWithoutClients, objects, kernel, peers
    <2>3. Unstarted'  BY <2>1, <2>2 DEF OwnInv, Unstarted
    <2> QED  BY <1>0, <2>1, <2>2, <2>3, QuietStep DEF Holding, Working
  <1>4. ASSUME NEW c \in Clients, AcceptReady(c)  PROVE OwnInv'
    <2> DEFINE contents == [op |-> "accept", id |-> c, msg |-> 0]
    <2>1. contents \in Contents /\ contents.op = "accept" /\ contents.id = c  BY DEF Contents
    <2>2. /\ Post(c, contents) /\ main = "accept" /\ UNCHANGED <<main, at, cur>>
      BY <1>4 DEF AcceptReady, threads
    <2> HIDE DEF contents
    <2>3. Started'  BY <2>2 DEF Started
    <2> QED  BY <1>0, <2>1, <2>2, <2>3, PostOwned DEF Holding, Working
  <1>5. ASSUME NEW c \in Clients, AcceptRefused(c)  PROVE OwnInv'
    <2> DEFINE contents == [op |-> "accept", id |-> c, msg |-> 0]
    <2>1. contents \in Contents  BY DEF Contents
    <2>2. /\ PostRefused(contents) /\ main = "accept" /\ UNCHANGED <<main, at, cur>>
      BY <1>5 DEF AcceptRefused, threads
    <2> HIDE DEF contents
    <2>3. Started'  BY <2>2 DEF Started
    <2> QED  BY <1>0, <2>1, <2>2, <2>3, RefusedOwned DEF Holding, Working
  <1>6. ASSUME NEW c \in Clients, AcceptSocketError(c)  PROVE OwnInv'
    <2>1. Started /\ Started'  BY <1>6 DEF AcceptSocketError, Started, threads
    <2>2. UNCHANGED <<pool, lost, ov, pending, completions, at, cur>>
      BY <1>6 DEF AcceptSocketError, objects, kernel, threads
    <2> QED  BY <1>0, <2>1, <2>2, QuietStep DEF Holding, Working, Unstarted
  <1>7. CASE AcceptsPosted \/ ReadySuccess \/ SetSendCallback
    <2>1. Started /\ Started'
      BY <1>7 DEF AcceptsPosted, ReadySuccess, SetSendCallback, Started
    <2>2. UNCHANGED <<pool, lost, ov, pending, completions, at, cur>>
      BY <1>7 DEF AcceptsPosted, ReadySuccess, SetSendCallback, objects, kernel
    <2> QED  BY <1>0, <2>1, <2>2, QuietStep DEF Holding, Working, Unstarted
  <1>8. ASSUME NEW s \in Sessions, SpawnSession(s)  PROVE OwnInv'
    <2>1. Started /\ Started'  BY <1>8 DEF SpawnSession, Started
    <2>2. /\ UNCHANGED <<pool, lost, ov, pending, completions, cur>>
          /\ at[s] = "off" /\ at' = [at EXCEPT ![s] = "wait"]
      BY <1>8 DEF SpawnSession, objects, kernel
    <2>3. at'[s] = "wait" /\ \A r \in Sessions \ {s} : at'[r] = at[r]
      BY <2>2 DEF OwnInv, TypeInv, TypeOK
    <2> QED  BY <1>0, <2>1, <2>2, <2>3, QuietStep DEF Holding, Working, Unstarted
  <1> QED  BY <1>1, <1>2, <1>3, <1>4, <1>5, <1>6, <1>7, <1>8 DEF MainStep

\* a session thread's,
LEMMA SessionOwned == ASSUME OwnInv, NEW s \in Sessions, SessionStep(s)  PROVE OwnInv'
  <1>0. TypeInv'  BY SessionTyped DEF OwnInv
  <1>1. /\ at \in [Sessions -> {"off", "wait", "dispatch", "send", "rearm", "recycle"}]
        /\ main' = main
    <2>1. at \in [Sessions -> {"off", "wait", "dispatch", "send", "rearm", "recycle"}]
      BY DEF OwnInv, TypeInv, TypeOK
    <2>2. main' = main
      BY DEF SessionStep, TakeAccepted, TakeMessage, TakeDisconnect, TakeSent, Take, TakeFailed,
             DispatchRequest, DispatchUnknown, DispatchEmptyCallback, SendPosted, SendRefused,
             ReceivePosted, ReceiveRefused, ReceiveSocketError, PopNull, Recycle, threads
    <2> QED  BY <2>1, <2>2
  <1>2. CASE TakeAccepted(s) \/ TakeMessage(s) \/ TakeDisconnect(s) \/ TakeSent(s)
    <2>1. CASE TakeAccepted(s)  BY <1>0, <2>1, TakeOwned DEF TakeAccepted
    <2>2. CASE TakeMessage(s)  BY <1>0, <2>2, TakeOwned DEF TakeMessage
    <2>3. CASE TakeDisconnect(s)  BY <1>0, <2>3, TakeOwned DEF TakeDisconnect
    <2>4. CASE TakeSent(s)  BY <1>0, <2>4, TakeOwned DEF TakeSent
    <2> QED  BY <1>2, <2>1, <2>2, <2>3, <2>4
  <1>3. CASE TakeFailed(s)  BY <1>0, <1>3, FailedOwned
  <1>4. CASE DispatchRequest(s) \/ DispatchUnknown(s) \/ DispatchEmptyCallback(s) \/ PopNull(s)
    <2>1. at[s] # "off" /\ Started  BY <1>4, BegunStarted
      DEF DispatchRequest, DispatchUnknown, DispatchEmptyCallback, PopNull, Goto
    <2>2. Started'  BY <1>1, <2>1 DEF Started
    <2>3. /\ UNCHANGED <<pool, lost, ov, pending, completions, cur>>
          /\ \/ at' = at
             \/ at[s] = "dispatch" /\ at' = [at EXCEPT ![s] = "send"]
             \/ at[s] = "dispatch" /\ at' = [at EXCEPT ![s] = "rearm"]
      BY <1>4 DEF DispatchRequest, DispatchUnknown, DispatchEmptyCallback, PopNull, PopNothing,
                  Goto, objects, kernel
    <2>4. \A r \in Sessions : /\ Holding(r)' <=> Holding(r)
                              /\ Working(r)' => Working(r)
                              /\ at'[r] \in {"dispatch", "send"} => at[r] \in {"dispatch", "send"}
      BY <1>1, <2>3 DEF Holding, Working
    <2> QED  BY <1>0, <2>1, <2>2, <2>3, <2>4, QuietStep DEF Unstarted
  <1>5. ASSUME NEW from \in {"send", "rearm"}, NEW to \in {"rearm", "recycle"}, Goto(s, from, to)
        PROVE  /\ Started' /\ ServedClient(s) \in Clients
               /\ \A r \in Sessions :
                    /\ Holding(r)' <=> Holding(r)
                    /\ Working(r)' => Working(r)
                    /\ at'[r] \in {"dispatch", "send"} => at[r] \in {"dispatch", "send"}
    <2>1. at[s] = from /\ at' = [at EXCEPT ![s] = to]  BY <1>5 DEF Goto
    <2>2. at[s] # "off" /\ Holding(s)  BY <2>1 DEF Holding
    <2>3. Started' /\ ServedClient(s) \in Clients
      BY <1>1, <2>2, BegunStarted, ServedKnown DEF Started
    <2>4. at'[s] = to /\ \A r \in Sessions \ {s} : at'[r] = at[r]  BY <1>1, <2>1
    <2> QED  BY <2>1, <2>3, <2>4 DEF Holding, Working
  <1>6. CASE SendPosted(s) \/ SendRefused(s)
    <2>1. Goto(s, "send", "rearm") /\ cur' = cur  BY <1>6 DEF SendPosted, SendRefused
    <2>2. ServedClient(s) \in Clients /\ Holding(s)  BY <1>5, <2>1 DEF Goto, Holding
    <2>3. Reply(s) \in Contents /\ Reply(s).op = "send" /\ Reply(s).id = ServedClient(s)
      <3>1. ov[cur[s].ov].msg \in Nat  BY <2>2, ServedTyped DEF OwnInv, Contents
      <3> QED  BY <2>2, <3>1 DEF Reply, Contents
    <2> HIDE DEF Reply
    <2>4. CASE SendPosted(s)
      <3>1. Post(ServedClient(s), Reply(s))  BY <2>4 DEF SendPosted
      <3> QED  BY <1>0, <1>5, <2>1, <2>2, <2>3, <3>1, PostOwned
    <2>5. CASE SendRefused(s)
      <3>1. PostRefused(Reply(s))  BY <2>5 DEF SendRefused
      <3> QED  BY <1>0, <1>5, <2>1, <2>3, <3>1, RefusedOwned
    <2> QED  BY <1>6, <2>4, <2>5
  <1>7. CASE ReceivePosted(s) \/ ReceiveRefused(s)
    <2> DEFINE contents == [Cleared EXCEPT !.op = "recv"]
    <2>1. Goto(s, "rearm", "recycle") /\ cur' = cur  BY <1>7 DEF ReceivePosted, ReceiveRefused
    <2>2. ServedClient(s) \in Clients  BY <1>5, <2>1
    <2>3. contents \in Contents /\ contents.op = "recv"  BY DEF Contents, Cleared
    <2> HIDE DEF contents
    <2>4. CASE ReceivePosted(s)
      <3>1. Post(ServedClient(s), contents)  BY <2>4 DEF ReceivePosted, contents
      <3> QED  BY <1>0, <1>5, <2>1, <2>2, <2>3, <3>1, PostOwned
    <2>5. CASE ReceiveRefused(s)
      <3>1. PostRefused(contents)  BY <2>5 DEF ReceiveRefused, contents
      <3> QED  BY <1>0, <1>5, <2>1, <2>3, <3>1, RefusedOwned
    <2> QED  BY <1>7, <2>4, <2>5
  <1>8. CASE ReceiveSocketError(s)
    <2>1. /\ Goto(s, "rearm", "recycle")
          /\ UNCHANGED <<pool, lost, ov, pending, completions, cur>>
      BY <1>8 DEF ReceiveSocketError, objects, kernel
    <2>2. Started  BY <1>1, <1>5, <2>1 DEF Started
    <2> QED  BY <1>0, <1>5, <2>1, <2>2, QuietStep DEF Unstarted
  <1>9. CASE Recycle(s)  BY <1>0, <1>9, RecycleOwned
  <1> QED  BY <1>2, <1>3, <1>4, <1>6, <1>7, <1>8, <1>9 DEF SessionStep

\* the kernel's,
LEMMA KernelOwned == ASSUME OwnInv, NEW c \in Clients, KernelStep(c)  PROVE OwnInv'
  <1>0. TypeInv'  BY KernelTyped DEF OwnInv
  <1>1. CASE Connect(c) \/ ConnectFails(c)
    <2>1. PICK i \in Posted(c, "accept"), ok \in BOOLEAN : Complete(c, i, None, 0, ok)
      BY <1>1 DEF Connect, ConnectFails
    <2>2. /\ i \in DOMAIN pending[c] /\ ov[pending[c][i]].op = "accept"
          /\ ov' = ov
      BY <1>1, <2>1 DEF Posted, Connect, ConnectFails
    <2> QED  BY <1>0, <2>1, <2>2, CompleteOwned
  <1>2. CASE Deliver(c)
    <2>1. PICK n \in received[c] + 1 .. Len(asked[c]), i \in Posted(c, "recv") :
            /\ Complete(c, i, c, n - received[c], TRUE)
            /\ ov' = [ov EXCEPT ![pending[c][i]].msg = received[c] + 1]
      BY <1>2 DEF Deliver
    <2>2. i \in DOMAIN pending[c] /\ ov[pending[c][i]].op = "recv"  BY <2>1 DEF Posted
    <2>3. received[c] \in Nat /\ n - received[c] \in Nat
      <3>1. received[c] \in Nat /\ asked[c] \in Seq({"request", "unknown"})
        BY DEF OwnInv, TypeInv, TypeOK
      <3>2. Len(asked[c]) \in Nat  BY <3>1, LenProperties
      <3> QED  BY <2>1, <3>1, <3>2
    <2>4. \A o \in Overlappeds : ov'[o].op = ov[o].op /\ ov'[o].id = ov[o].id
      BY <2>1 DEF OwnInv, TypeInv, TypeOK
    <2> QED  BY <1>0, <2>1, <2>2, <2>3, <2>4, CompleteOwned
  <1>3. CASE DeliverEnd(c) \/ Abort(c)
    <2>1. PICK i \in DOMAIN pending[c], ok \in BOOLEAN : Complete(c, i, c, 0, ok)
      BY <1>3 DEF DeliverEnd, Abort, Posted
    <2>2. ov' = ov  BY <1>3 DEF DeliverEnd, Abort
    <2> QED  BY <1>0, <2>1, <2>2, CompleteOwned
  <1>4. CASE Transmit(c)
    <2>1. PICK i \in Posted(c, "send") : Complete(c, i, c, 1, TRUE)  BY <1>4 DEF Transmit
    <2>2. i \in DOMAIN pending[c] /\ ov[pending[c][i]].op = "send" /\ ov' = ov
      BY <1>4, <2>1 DEF Posted, Transmit
    <2> QED  BY <1>0, <2>1, <2>2, CompleteOwned
  <1> QED  BY <1>1, <1>2, <1>3, <1>4 DEF KernelStep

\* and the peers'.
LEMMA PeerOwned == ASSUME OwnInv, NEW c \in Clients, PeerStep(c)  PROVE OwnInv'
  <1>1. TypeInv'  BY PeerTyped DEF OwnInv
  <1>2. /\ UNCHANGED <<pool, lost, ov, pending, completions, cur, main, at>>
        /\ sock[c] # "new"
    BY DEF PeerStep, Ask, Hangup, objects, kernel, threads
  <1>3. Started /\ Started'  BY <1>2, BegunStarted DEF Started
  <1> QED  BY <1>1, <1>2, <1>3, QuietStep DEF Unstarted, Holding, Working

\* Every step keeps the owners apart.
LEMMA OwnStep == OwnInv /\ [Next]_vars => OwnInv'
  <1> SUFFICES ASSUME OwnInv, [Next]_vars  PROVE OwnInv'  OBVIOUS
  <1>1. CASE UNCHANGED vars
    <2>1. TypeInv'  BY <1>1, TypeStep DEF OwnInv
    <2>2. UNCHANGED <<pool, lost, ov, pending, completions, at, cur, main, sock, crashed>>
      BY <1>1 DEF vars, objects, kernel, threads, peers
    <2>3. Unstarted' /\ (Started' => Started)  BY <2>2 DEF OwnInv, Unstarted, Started
    <2> QED  BY <2>1, <2>2, <2>3, QuietStep DEF Holding, Working
  <1>2. CASE Next  BY <1>2, MainOwned, SessionOwned, KernelOwned, PeerOwned DEF Next
  <1> QED  BY <1>1, <1>2

\* So they always are.
LEMMA OwnInvHolds == Spec => []OwnInv
  BY OwnInit, OwnStep, PTL DEF Spec

-----------------------------------------------------------------------------
(* One owner.  References counts the places; in each an overlapped is at    *)
(* most once.                                                               *)

\* A set with at most one element has none or one.
LEMMA AtMostOne ==
  ASSUME NEW S, \A a, b \in S : a = b
  PROVE  /\ IsFiniteSet(S)
         /\ Cardinality(S) = IF S = {} THEN 0 ELSE 1
  <1>1. CASE S = {}  BY <1>1, FS_EmptySet
  <1>2. CASE S # {}
    <2>1. PICK a : a \in S  BY <1>2
    <2>2. S = {a}  BY <2>1
    <2> QED  BY <1>2, <2>2, FS_Singleton
  <1> QED  BY <1>1, <1>2

\* The kernel holds no more operations of a socket than there are overlappeds.
LEMMA PendingBounded ==
  ASSUME OwnInv, NEW c \in Clients
  PROVE  DOMAIN pending[c] \subseteq 1 .. Cardinality(Overlappeds)
  <1>1. pending[c] \in Seq(Overlappeds) /\ IsInjective(pending[c])
    BY DEF OwnInv, TypeInv, TypeOK, EachOnce
  <1>2. Len(pending[c]) \in Nat /\ DOMAIN pending[c] = 1 .. Len(pending[c])
        /\ pending[c] \in [1 .. Len(pending[c]) -> Overlappeds]
    BY <1>1, LenProperties
  <1>3. pending[c] \in Injection(1 .. Len(pending[c]), Overlappeds)
    BY <1>1, <1>2 DEF Injection, IsInjective
  <1>4. /\ IsFiniteSet(1 .. Len(pending[c]))
        /\ Cardinality(1 .. Len(pending[c])) = Len(pending[c])
    BY <1>2, FS_Interval
  <1>5. IsFiniteSet(Overlappeds) /\ Cardinality(Overlappeds) \in Nat
    BY ServerAssumption, FS_CardinalityType
  <1>6. Len(pending[c]) <= Cardinality(Overlappeds)
    BY <1>3, <1>4, <1>5, FS_Injection
  <1> QED  BY <1>2, <1>5, <1>6

\* In each kind of place an overlapped is once or not at all.
LEMMA EachPlaceOnce ==
  ASSUME OwnInv, NEW o \in Overlappeds
  PROVE  /\ Cardinality({i \in DOMAIN pool : pool[i] = o}) = IF o \in InPool THEN 1 ELSE 0
         /\ Cardinality({ci \in Clients \X (1 .. Cardinality(Overlappeds)) :
                           ci[2] \in DOMAIN pending[ci[1]] /\ pending[ci[1]][ci[2]] = o})
              = IF \E c \in Clients : o \in AtKernel(c) THEN 1 ELSE 0
         /\ Cardinality({i \in DOMAIN completions : completions[i].ov = o})
              = IF o \in AtPort THEN 1 ELSE 0
         /\ Cardinality({s \in Sessions : Holding(s) /\ cur[s].ov = o})
              = IF \E s \in Sessions : o \in HeldBy(s) THEN 1 ELSE 0
  <1> DEFINE inPool   == {i \in DOMAIN pool : pool[i] = o}
             atKernel == {ci \in Clients \X (1 .. Cardinality(Overlappeds)) :
                            ci[2] \in DOMAIN pending[ci[1]] /\ pending[ci[1]][ci[2]] = o}
             atPort   == {i \in DOMAIN completions : completions[i].ov = o}
             held     == {s \in Sessions : Holding(s) /\ cur[s].ov = o}
  <1>1. /\ \A a, b \in inPool : a = b
        /\ o \in InPool <=> inPool # {}
    BY DEF OwnInv, EachOnce, IsInjective, InPool, Range
  <1>2. /\ \A a, b \in atKernel : a = b
        /\ (\E c \in Clients : o \in AtKernel(c)) <=> atKernel # {}
    <2>1. ASSUME NEW a \in atKernel, NEW b \in atKernel  PROVE a = b
      <3>1. /\ a[1] \in Clients /\ o \in AtKernel(a[1]) /\ b[1] \in Clients /\ o \in AtKernel(b[1])
            /\ a = <<a[1], a[2]>> /\ b = <<b[1], b[2]>>
        BY DEF AtKernel, Range
      <3>2. a[1] = b[1]  BY <3>1 DEF OwnInv, Apart
      <3>3. a[2] = b[2]  BY <3>1, <3>2 DEF OwnInv, EachOnce, IsInjective
      <3> QED  BY <3>1, <3>2, <3>3
    <2>2. ASSUME NEW c \in Clients, o \in AtKernel(c)  PROVE atKernel # {}
      <3>1. PICK i \in DOMAIN pending[c] : pending[c][i] = o  BY <2>2 DEF AtKernel, Range
      <3>2. i \in 1 .. Cardinality(Overlappeds)  BY <3>1, PendingBounded
      <3>3. <<c, i>> \in atKernel  BY <3>1, <3>2
      <3> QED  BY <3>3
    <2>3. ASSUME NEW a \in atKernel  PROVE \E c \in Clients : o \in AtKernel(c)
      BY DEF AtKernel, Range
    <2> QED  BY <2>1, <2>2, <2>3
  <1>3. /\ \A a, b \in atPort : a = b
        /\ o \in AtPort <=> atPort # {}
    <2>1. ASSUME NEW a \in atPort, NEW b \in atPort  PROVE a = b
      <3>1. completions[a] \in Port /\ completions[b] \in Port  BY DEF Port, Range
      <3> QED  BY <3>1 DEF OwnInv, EachOnce, IsInjective
    <2>2. o \in AtPort <=> atPort # {}  BY DEF AtPort, Port, Range
    <2> QED  BY <2>1, <2>2
  <1>4. /\ \A a, b \in held : a = b
        /\ (\E s \in Sessions : o \in HeldBy(s)) <=> held # {}
    <2>1. \A s \in Sessions : s \in held <=> o \in HeldBy(s)  BY DEF HeldBy
    <2> HIDE DEF held
    <2>2. held \subseteq Sessions  BY DEF held
    <2> QED  BY <2>1, <2>2 DEF OwnInv, Apart
  <1> HIDE DEF inPool, atKernel, atPort, held
  <1>5. /\ Cardinality(inPool) = IF o \in InPool THEN 1 ELSE 0
        /\ Cardinality(atKernel) = IF \E c \in Clients : o \in AtKernel(c) THEN 1 ELSE 0
        /\ Cardinality(atPort) = IF o \in AtPort THEN 1 ELSE 0
        /\ Cardinality(held) = IF \E s \in Sessions : o \in HeldBy(s) THEN 1 ELSE 0
    BY <1>1, <1>2, <1>3, <1>4, AtMostOne
  <1> QED  BY <1>5 DEF inPool, atKernel, atPort, held

\* An overlapped has exactly one owner, the pool, the kernel, the completion
\* queue or one session thread, unless a refused or failed operation has left it
\* to nobody: no operation writes into one that Client::ReceiveReady or Send
\* takes from the pool (Client.cpp:41-120, Session.cpp:30-110).
THEOREM OverlappedsOwned == Spec => []OneOwner
  <1>1. ASSUME OwnInv  PROVE OneOwner
    <2> SUFFICES ASSUME Started, NEW o \in Overlappeds
                 PROVE  References(o) = IF o \in lost THEN 0 ELSE 1
      BY DEF OneOwner, Started
    <2>1. Apart /\ Placed  BY <1>1 DEF OwnInv
    <2>2. References(o) = (IF o \in InPool THEN 1 ELSE 0)
                          + (IF \E c \in Clients : o \in AtKernel(c) THEN 1 ELSE 0)
                          + (IF o \in AtPort THEN 1 ELSE 0)
                          + (IF \E s \in Sessions : o \in HeldBy(s) THEN 1 ELSE 0)
      BY <1>1, EachPlaceOnce DEF References
    <2>3. CASE o \in lost
      <3>1. /\ o \notin InPool /\ o \notin AtPort
            /\ ~ \E c \in Clients : o \in AtKernel(c)
            /\ ~ \E s \in Sessions : o \in HeldBy(s)
        BY <2>1, <2>3 DEF Apart
      <3> QED  BY <2>2, <2>3, <3>1
    <2>4. CASE o \in InPool
      <3>1. /\ o \notin lost /\ o \notin AtPort
            /\ ~ \E c \in Clients : o \in AtKernel(c)
            /\ ~ \E s \in Sessions : o \in HeldBy(s)
        BY <2>1, <2>4 DEF Apart
      <3> QED  BY <2>2, <2>4, <3>1
    <2>5. CASE o \in AtPort
      <3>1. /\ o \notin lost /\ o \notin InPool
            /\ ~ \E c \in Clients : o \in AtKernel(c)
            /\ ~ \E s \in Sessions : o \in HeldBy(s)
        BY <2>1, <2>5 DEF Apart
      <3> QED  BY <2>2, <2>5, <3>1
    <2>6. CASE \E c \in Clients : o \in AtKernel(c)
      <3>1. /\ o \notin lost /\ o \notin InPool /\ o \notin AtPort
            /\ ~ \E s \in Sessions : o \in HeldBy(s)
        BY <2>1, <2>6 DEF Apart
      <3> QED  BY <2>2, <2>6, <3>1
    <2>7. CASE \E s \in Sessions : o \in HeldBy(s)
      <3>1. /\ o \notin lost /\ o \notin InPool /\ o \notin AtPort
            /\ ~ \E c \in Clients : o \in AtKernel(c)
        BY <2>1, <2>7 DEF Apart
      <3> QED  BY <2>2, <2>7, <3>1
    <2> QED  BY <2>1, <2>3, <2>4, <2>5, <2>6, <2>7 DEF Placed
  <1> QED  BY <1>1, OwnInvHolds, PTL
=============================================================================
