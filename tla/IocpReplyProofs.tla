---------------------------- MODULE IocpReplyProofs ----------------------------
(***************************************************************************)
(* What the server answers and what it leaks, from the owners and the      *)
(* chains of the overlappeds (IocpServerProofs, IocpConnectionProofs):     *)
(*   - replies only to requests, each once, in order (RepliesOrdered);     *)
(*   - a bounded number of lost overlappeds (LeaksBounded);                *)
(*   - how many overlappeds are enough (PoolNeverDry).                     *)
(***************************************************************************)
EXTENDS IocpConnectionProofs, FunctionTheorems

-----------------------------------------------------------------------------
(* Replies.  The sends to a client that its peer has not got and will not   *)
(* get any more but from the kernel.                                        *)

Unanswered(c) ==
  {o \in Overlappeds :
     /\ ov[o].op = "send" /\ ov[o].id = c
     /\ o \in lost \/ o \in AtKernel(c) \/ \E x \in Port : x.ov = o /\ ~ x.ok}

IsRequest(c, m) == m \in 1 .. received[c] /\ asked[c][m] = "request"

\* A message later than whatever has been answered or is being sent.
Newest(c, m) ==
  /\ m \in 1 .. received[c]
  /\ \A o \in Unanswered(c) : ov[o].msg < m
  /\ \A k \in DOMAIN answered[c] : answered[c][k] < m

\* Completions of client c: a message it has asked, a reply it has got.
Message(x, c) == x.ok /\ x.bytes > 0 /\ ov[x.ov].op = "recv" /\ x.key = c
SentOk(x, c)  == x.ok /\ ov[x.ov].op = "send" /\ x.key = c

\* The replies that were got but whose completion, behind the i-th, no session
\* has taken: the window bounds them together with the messages.
Behind(c, i)    == {completions[j].ov : j \in {k \in DOMAIN completions :
                                                 k > i /\ SentOk(completions[k], c)}}
Within(c, m, i) == m + Cardinality(Behind(c, i)) <= Window + Len(answered[c])

UnansweredRule(c) ==
  /\ \A o \in Unanswered(c) : /\ IsRequest(c, ov[o].msg)
                              /\ ov[o].msg \notin Range(answered[c])
                              /\ Within(c, ov[o].msg, 0)
  /\ \A a, b \in Unanswered(c) : ov[a].msg = ov[b].msg => a = b

\* The kernel holds the sends of a client in the order of their requests.
OrderRule(c) ==
  /\ \A i, j \in DOMAIN pending[c] :
       i < j /\ ov[pending[c][i]].op = "send" /\ ov[pending[c][j]].op = "send"
         => ov[pending[c][i]].msg < ov[pending[c][j]].msg
  /\ \A i \in DOMAIN pending[c] : ov[pending[c][i]].op = "send" =>
       \A k \in DOMAIN answered[c] : answered[c][k] < ov[pending[c][i]].msg

AnsweredRule(c) ==
  /\ \A k \in DOMAIN answered[c] : IsRequest(c, answered[c][k]) /\ Within(c, answered[c][k], 0)
  /\ \A j, k \in DOMAIN answered[c] : j < k => answered[c][j] < answered[c][k]

QueueRule(c) ==
  \A i \in DOMAIN completions : Message(completions[i], c) =>
    /\ Newest(c, ov[completions[i].ov].msg)
    /\ Within(c, ov[completions[i].ov].msg, i)

ServeRule(c) ==
  \A s \in Sessions : at[s] \in {"dispatch", "send"} /\ ServedClient(s) = c =>
    /\ Newest(c, ov[cur[s].ov].msg)
    /\ Within(c, ov[cur[s].ov].msg, 0)
    /\ at[s] = "send" => IsRequest(c, ov[cur[s].ov].msg)

WindowRule(c) ==
  received[c] <= Len(asked[c]) /\ Len(asked[c]) <= Window + Len(answered[c])

ReplyRule(c) ==
  /\ WindowRule(c) /\ UnansweredRule(c) /\ OrderRule(c) /\ AnsweredRule(c)
  /\ QueueRule(c) /\ ServeRule(c)

ReplyInv == ChainInv /\ \A c \in Clients : ReplyRule(c)

\* Nothing is asked or answered at first.
LEMMA ReplyInit == Init => ReplyInv
  <1> SUFFICES ASSUME Init  PROVE ReplyInv  OBVIOUS
  <1>1. ChainInv  BY ChainInit
  <1> USE ServerAssumption
  <1>2. Range(<<>>) = {} /\ Len(<<>>) = 0 /\ DOMAIN <<>> = {}  BY DEF Range
  <1>3. /\ completions = <<>> /\ \A o \in Overlappeds : ov[o].op = "default"
        /\ \A s \in Sessions : at[s] = "off"
    BY DEF Init, Cleared
  <1>4. ASSUME NEW c \in Clients  PROVE ReplyRule(c)
    <2>1. pending[c] = <<>> /\ asked[c] = <<>> /\ answered[c] = <<>> /\ received[c] = 0
      BY DEF Init
    <2>2. Unanswered(c) = {}  BY <1>3 DEF Unanswered
    <2>3. WindowRule(c)  BY <1>2, <2>1 DEF WindowRule
    <2>4. UnansweredRule(c) /\ OrderRule(c) /\ AnsweredRule(c)
      BY <1>2, <2>1, <2>2 DEF UnansweredRule, OrderRule, AnsweredRule
    <2>5. QueueRule(c) /\ ServeRule(c)  BY <1>2, <1>3 DEF QueueRule, ServeRule
    <2> QED  BY <2>3, <2>4, <2>5 DEF ReplyRule
  <1> QED  BY <1>1, <1>4 DEF ReplyInv

\* The types of what the rules speak about.
LEMMA ReplyTypes ==
  ASSUME TypeInv, NEW c \in Clients
  PROVE  /\ Window \in Nat
         /\ received[c] \in Nat /\ Len(asked[c]) \in Nat /\ Len(answered[c]) \in Nat
         /\ DOMAIN asked[c] = 1 .. Len(asked[c]) /\ DOMAIN answered[c] = 1 .. Len(answered[c])
         /\ \A k \in DOMAIN answered[c] : answered[c][k] \in Nat
         /\ \A i \in DOMAIN completions : i \in Nat \ {0} /\ completions[i] \in Port
         /\ \A i \in DOMAIN pending[c] : i \in Nat /\ pending[c][i] \in AtKernel(c)
         /\ \A o \in Overlappeds : ov[o].msg \in Nat
         /\ AtKernel(c) \subseteq Overlappeds
         /\ \A x \in Port : x \in Completion /\ x.ov \in Overlappeds /\ x.bytes \in Nat
  <1>1. received[c] \in Nat /\ asked[c] \in Seq({"request", "unknown"}) /\ answered[c] \in Seq(Nat)
    BY DEF TypeInv, TypeOK
  <1>2. completions \in Seq(Completion) /\ pending[c] \in Seq(Overlappeds)
    BY DEF TypeInv, TypeOK
  <1>3. \A o \in Overlappeds : ov[o].msg \in Nat  BY DEF TypeInv, TypeOK
  <1>4. /\ Len(asked[c]) \in Nat /\ Len(answered[c]) \in Nat
        /\ DOMAIN asked[c] = 1 .. Len(asked[c]) /\ DOMAIN answered[c] = 1 .. Len(answered[c])
        /\ \A k \in DOMAIN answered[c] : answered[c][k] \in Nat
    BY <1>1, LenProperties
  <1>5. /\ Len(completions) \in Nat /\ DOMAIN completions = 1 .. Len(completions)
        /\ Len(pending[c]) \in Nat /\ DOMAIN pending[c] = 1 .. Len(pending[c])
    BY <1>2, LenProperties
  <1>6. /\ \A i \in DOMAIN completions : i \in Nat \ {0} /\ completions[i] \in Port
        /\ \A i \in DOMAIN pending[c] : i \in Nat /\ pending[c][i] \in AtKernel(c)
    BY <1>5 DEF Port, AtKernel, Range
  <1>7. AtKernel(c) \subseteq Overlappeds /\ Port \subseteq Completion
    BY <1>2, RangeOfSeq DEF AtKernel, Port
  <1>8. \A x \in Port : x \in Completion /\ x.ov \in Overlappeds /\ x.bytes \in Nat
    BY <1>7 DEF Completion
  <1> QED  BY <1>1, <1>3, <1>4, <1>6, <1>7, <1>8, ServerAssumption

\* Replies behind a completion are finitely many.
LEMMA BehindType ==
  ASSUME TypeInv, NEW c \in Clients, NEW i \in Int
  PROVE  /\ Behind(c, i) \subseteq Overlappeds
         /\ IsFiniteSet(Behind(c, i)) /\ Cardinality(Behind(c, i)) \in Nat
  <1>1. Behind(c, i) \subseteq Overlappeds  BY ReplyTypes DEF Behind
  <1>2. IsFiniteSet(Behind(c, i))
    <2>1. Behind(c, i) \in SUBSET Overlappeds  BY <1>1
    <2> QED  BY <2>1, FS_Subset, ServerAssumption
  <1> QED  BY <1>1, <1>2, FS_CardinalityType

\* A message stays within the window while no reply comes to be behind it and
\* no answer is forgotten.
LEMMA WithinKept ==
  ASSUME TypeInv, TypeInv', NEW c \in Clients, NEW m \in Nat, NEW i \in Int, NEW j \in Int,
         Within(c, m, i), Behind(c, j)' \subseteq Behind(c, i),
         Len(answered[c]) <= Len(answered'[c])
  PROVE  Within(c, m, j)'
  <1>1. /\ Cardinality(Behind(c, i)) \in Nat /\ Len(answered[c]) \in Nat
        /\ IsFiniteSet(Behind(c, i))
    BY BehindType, ReplyTypes
  <1>2. Len(answered'[c]) \in Nat
    <2>1. answered'[c] \in Seq(Nat)  BY DEF TypeInv, TypeOK
    <2> QED  BY <2>1, LenProperties
  <1>3. /\ Cardinality(Behind(c, j)') \in Nat
        /\ Cardinality(Behind(c, j)') <= Cardinality(Behind(c, i))
    <2>1. Behind(c, j)' \in SUBSET Behind(c, i)  OBVIOUS
    <2> QED  BY <1>1, <2>1, FS_Subset, FS_CardinalityType
  <1>4. Window \in Nat  BY ServerAssumption
  <1> QED  BY <1>1, <1>2, <1>3, <1>4 DEF Within

\* Where the sends of a client and what it has got stay the same, so does
\* their order.
LEMMA OrderKept ==
  ASSUME OwnInv, NEW c \in Clients, OrderRule(c), answered'[c] = answered[c],
         \A p \in AtKernel(c) : ov'[p] = ov[p],
         \/ pending'[c] = pending[c]
         \/ \E o \in Overlappeds : pending'[c] = Append(pending[c], o) /\ ov'[o].op # "send"
  PROVE  OrderRule(c)'
  <1>1. /\ pending[c] \in Seq(Overlappeds)
        /\ \A i \in DOMAIN pending[c] : ov'[pending[c][i]] = ov[pending[c][i]]
    <2>1. pending[c] \in Seq(Overlappeds)  BY DEF OwnInv, TypeInv, TypeOK
    <2> QED  BY <2>1 DEF AtKernel, Range
  <1>2. CASE pending'[c] = pending[c]
    BY <1>1, <1>2 DEF OrderRule
  <1>3. ASSUME NEW o \in Overlappeds, pending'[c] = Append(pending[c], o), ov'[o].op # "send"
        PROVE  OrderRule(c)'
    <2>1. /\ Len(pending[c]) \in Nat /\ DOMAIN pending[c] = 1 .. Len(pending[c])
          /\ DOMAIN pending'[c] = 1 .. Len(pending[c]) + 1
          /\ \A i \in 1 .. Len(pending[c]) : pending'[c][i] = pending[c][i]
          /\ pending'[c][Len(pending[c]) + 1] = o
      BY <1>1, <1>3, AppendProperties, LenProperties
    <2>2. \A i \in DOMAIN pending'[c] : ov'[pending'[c][i]].op = "send" =>
            /\ i \in DOMAIN pending[c] /\ pending'[c][i] = pending[c][i]
            /\ ov'[pending'[c][i]] = ov[pending[c][i]]
      BY <1>1, <1>3, <2>1
    <2> QED  BY <2>2 DEF OrderRule
  <1> QED  BY <1>2, <1>3

\* The completions wait as they are.
LEMMA QueueKept ==
  ASSUME OwnInv, TypeInv', NEW c \in Clients, QueueRule(c), completions' = completions,
         \A x \in Port : ov'[x.ov] = ov[x.ov], received'[c] = received[c],
         answered'[c] = answered[c], Unanswered(c)' = Unanswered(c),
         \A o \in Unanswered(c) : ov'[o] = ov[o]
  PROVE  /\ QueueRule(c)'
         /\ \A i \in Int : Behind(c, i)' = Behind(c, i)
         /\ \A m : Newest(c, m) => Newest(c, m)'
  <1>1. \A i \in DOMAIN completions : /\ i \in Nat /\ completions[i] \in Port
                                      /\ ov'[completions[i].ov] = ov[completions[i].ov]
    BY ReplyTypes DEF OwnInv
  <1>2. \A i \in DOMAIN completions :
          /\ SentOk(completions[i], c)' <=> SentOk(completions[i], c)
          /\ Message(completions[i], c)' <=> Message(completions[i], c)
    BY <1>1 DEF SentOk, Message
  <1>3. \A i \in Int : Behind(c, i)' = Behind(c, i)  BY <1>2 DEF Behind
  <1>4. \A m : Newest(c, m) => Newest(c, m)'  BY DEF Newest
  <1>5. ASSUME NEW i \in DOMAIN completions, Message(completions[i], c)'
        PROVE  Newest(c, ov[completions[i].ov].msg)' /\ Within(c, ov[completions[i].ov].msg, i)'
    <2>1. /\ Newest(c, ov[completions[i].ov].msg) /\ Within(c, ov[completions[i].ov].msg, i)
      BY <1>2, <1>5 DEF QueueRule
    <2>2. Newest(c, ov[completions[i].ov].msg)'
      BY <1>1, <2>1 DEF Newest
    <2>3. Within(c, ov[completions[i].ov].msg, i)'
      BY <1>1, <1>3, <2>1 DEF Within
    <2> QED  BY <2>2, <2>3
  <1>6. QueueRule(c)'  BY <1>5 DEF QueueRule
  <1> QED  BY <1>3, <1>4, <1>6

\* A step that answers nothing, completes nothing and takes nothing.
LEMMA RuleKept ==
  ASSUME ReplyInv, TypeInv', NEW c \in Clients, completions' = completions,
         \A x \in Port : ov'[x.ov] = ov[x.ov],
         asked'[c] = asked[c], received'[c] = received[c], answered'[c] = answered[c],
         Unanswered(c)' = Unanswered(c), \A o \in Unanswered(c) : ov'[o] = ov[o],
         \A p \in AtKernel(c) : ov'[p] = ov[p],
         \/ pending'[c] = pending[c]
         \/ \E o \in Overlappeds : pending'[c] = Append(pending[c], o) /\ ov'[o].op # "send",
         \A s \in Sessions : at'[s] \in {"dispatch", "send"} =>
           /\ at[s] \in {"dispatch", "send"} /\ cur'[s] = cur[s]
           /\ ov'[cur[s].ov] = ov[cur[s].ov]
           /\ at'[s] = "send" => at[s] = "send" \/ MessageKind(s) = "request"
  PROVE  ReplyRule(c)'
  <1>1. ChainInv /\ OwnInv /\ TypeInv /\ ReplyRule(c)  BY DEF ReplyInv, ChainInv, OwnInv
  <1>2. WindowRule(c)'  BY <1>1 DEF ReplyRule, WindowRule
  <1>3. OrderRule(c)'  BY <1>1, OrderKept DEF ReplyRule
  <1>4. /\ QueueRule(c)'
        /\ \A i \in Int : Behind(c, i)' = Behind(c, i)
        /\ \A m : Newest(c, m) => Newest(c, m)'
    BY <1>1, QueueKept DEF ReplyRule
  <1>5. Behind(c, 0)' = Behind(c, 0)  BY <1>4
  <1>6. UnansweredRule(c)'
    BY <1>1, <1>5 DEF ReplyRule, UnansweredRule, IsRequest, Within
  <1>7. AnsweredRule(c)'
    BY <1>1, <1>5 DEF ReplyRule, AnsweredRule, IsRequest, Within
  <1>8. ServeRule(c)'
    <2> SUFFICES ASSUME NEW s \in Sessions, at'[s] \in {"dispatch", "send"}, ServedClient(s)' = c
                 PROVE  /\ Newest(c, ov[cur[s].ov].msg)'
                        /\ Within(c, ov[cur[s].ov].msg, 0)'
                        /\ at'[s] = "send" => IsRequest(c, ov[cur[s].ov].msg)'
      BY DEF ServeRule
    <2>1. /\ at[s] \in {"dispatch", "send"} /\ ServedClient(s) = c
          /\ ov'[cur'[s].ov] = ov[cur[s].ov]
      BY DEF ServedClient
    <2>2. /\ Newest(c, ov[cur[s].ov].msg) /\ Within(c, ov[cur[s].ov].msg, 0)
          /\ at[s] = "send" => IsRequest(c, ov[cur[s].ov].msg)
      BY <1>1, <2>1 DEF ReplyRule, ServeRule
    <2>3. Newest(c, ov[cur[s].ov].msg)'  BY <2>1, <2>2 DEF Newest
    <2>4. Within(c, ov[cur[s].ov].msg, 0)'  BY <1>5, <2>1, <2>2 DEF Within
    <2>5. at'[s] = "send" => IsRequest(c, ov[cur[s].ov].msg)'
      BY <2>1, <2>2 DEF IsRequest, Newest, MessageKind
    <2> QED  BY <2>3, <2>4, <2>5
  <1> QED  BY <1>2, <1>3, <1>4, <1>6, <1>7, <1>8 DEF ReplyRule

\* What is done to an overlapped of the pool, or of a session, is no send
\* unless it says so.
LEMMA UnansweredKept ==
  ASSUME OwnInv, NEW o \in Overlappeds, \A p \in Overlappeds \ {o} : ov'[p] = ov[p],
         ov'[o].op # "send", o \notin lost, o \notin AtPort, \A d \in Clients : o \notin AtKernel(d),
         lost' \in {lost, lost \cup {o}}, Port' = Port, NEW c \in Clients,
         AtKernel(c)' \in {AtKernel(c), AtKernel(c) \cup {o}}
  PROVE  /\ Unanswered(c)' = Unanswered(c)
         /\ \A p \in Unanswered(c) : ov'[p] = ov[p]
  <1>1. o \notin Unanswered(c)  BY DEF Unanswered, AtPort
  <1>2. o \notin Unanswered(c)'  BY DEF Unanswered
  <1>3. \A p \in Overlappeds \ {o} : p \in Unanswered(c)' <=> p \in Unanswered(c)
    BY DEF Unanswered
  <1>4. Unanswered(c) \subseteq Overlappeds /\ Unanswered(c)' \subseteq Overlappeds
    BY DEF Unanswered
  <1> QED  BY <1>1, <1>2, <1>3, <1>4

\* A step that touches no overlapped, and no connection but to close it.
LEMMA QuietReplies ==
  ASSUME ReplyInv, ChainInv', UNCHANGED <<lost, ov, pending, completions, asked, received, answered>>,
         \A s \in Sessions : at'[s] \in {"dispatch", "send"} =>
           /\ at[s] \in {"dispatch", "send"} /\ cur'[s] = cur[s]
           /\ at'[s] = "send" => at[s] = "send" \/ MessageKind(s) = "request"
  PROVE  ReplyInv'
  <1>1. Port' = Port /\ \A d \in Clients : AtKernel(d)' = AtKernel(d)  BY DEF Port, AtKernel
  <1>2. \A d \in Clients : Unanswered(d)' = Unanswered(d)  BY <1>1 DEF Unanswered
  <1>3. TypeInv'  BY DEF ChainInv, OwnInv
  <1>4. ASSUME NEW c \in Clients  PROVE ReplyRule(c)'
    BY <1>1, <1>2, <1>3, RuleKept
  <1> QED  BY <1>4 DEF ReplyInv

\* An operation that is no reply, posted or refused.
LEMMA PostReplies ==
  ASSUME ReplyInv, ChainInv', NEW contents \in Contents, contents.op # "send", NEW c \in Clients,
         Post(c, contents) \/ PostRefused(contents),
         UNCHANGED <<asked, received, answered, cur>>,
         \A s \in Sessions : at'[s] \in {"dispatch", "send"} => at'[s] = at[s]
  PROVE  ReplyInv'
  <1>0. OwnInv /\ TypeInv'  BY DEF ReplyInv, ChainInv, OwnInv
  <1>1. PICK o \in Overlappeds : o = Head(pool)
    BY <1>0, PostMoves, RefusedMoves
  <1>2. /\ o \in InPool /\ ov'[o] = contents
        /\ \A p \in Overlappeds \ {o} : ov'[p] = ov[p]
        /\ Port' = Port /\ completions' = completions
        /\ lost' \in {lost, lost \cup {o}}
        /\ \A d \in Clients : AtKernel(d)' \in {AtKernel(d), AtKernel(d) \cup {o}}
    <2>1. CASE Post(c, contents)  BY <1>0, <1>1, <2>1, PostMoves
    <2>2. CASE PostRefused(contents)  BY <1>0, <1>1, <2>2, RefusedMoves
    <2> QED  BY <2>1, <2>2
  <1>3. o \notin lost /\ o \notin AtPort /\ \A d \in Clients : o \notin AtKernel(d)
    BY <1>0, <1>2 DEF OwnInv, Apart
  <1>4. \A d \in Clients : /\ Unanswered(d)' = Unanswered(d)
                           /\ \A p \in Unanswered(d) : ov'[p] = ov[p]
    BY <1>0, <1>2, <1>3, UnansweredKept
  <1>5. \A d \in Clients : pending'[d] = pending[d] \/ pending'[d] = Append(pending[d], o)
    <2>1. pending \in [Clients -> Seq(Overlappeds)]  BY <1>0 DEF OwnInv, TypeInv, TypeOK
    <2> QED  BY <1>1, <2>1 DEF Post, PostRefused, kernel
  <1>6. /\ \A d \in Clients : \A p \in AtKernel(d) : ov'[p] = ov[p]
        /\ \A x \in Port : ov'[x.ov] = ov[x.ov]
        /\ \A s \in Sessions : Holding(s) => ov'[cur[s].ov] = ov[cur[s].ov]
    BY <1>0, <1>2, InUse
  <1>7. ASSUME NEW d \in Clients  PROVE ReplyRule(d)'
    <2>1. \A s \in Sessions : at'[s] \in {"dispatch", "send"} =>
            /\ at[s] \in {"dispatch", "send"} /\ cur'[s] = cur[s]
            /\ ov'[cur[s].ov] = ov[cur[s].ov]
            /\ at'[s] = "send" => at[s] = "send" \/ MessageKind(s) = "request"
      BY <1>6 DEF Holding
    <2>2. \/ pending'[d] = pending[d]
          \/ pending'[d] = Append(pending[d], o) /\ ov'[o].op # "send"
      BY <1>2, <1>5
    <2> QED  BY <1>0, <1>2, <1>4, <1>6, <2>1, <2>2, RuleKept
  <1> QED  BY <1>7 DEF ReplyInv

\* The end of the loop body.
LEMMA RecycleReplies == ASSUME ReplyInv, ChainInv', NEW s \in Sessions, Recycle(s)  PROVE ReplyInv'
  <1>0. OwnInv /\ TypeInv'  BY DEF ReplyInv, ChainInv, OwnInv
  <1>1. PICK o : o = cur[s].ov  OBVIOUS
  <1>2. /\ at[s] = "recycle" /\ at' = [at EXCEPT ![s] = "wait"]
        /\ ov' = [ov EXCEPT ![o] = Cleared]
        /\ cur' = [cur EXCEPT ![s] = NoCompletion]
        /\ UNCHANGED <<lost, pending, completions, asked, received, answered>>
    BY <1>1 DEF Recycle, Goto, kernel, peers
  <1>3. o \in Overlappeds /\ o \in HeldBy(s)
    BY <1>0, <1>1, <1>2, ServedTyped DEF OwnInv, Holding, HeldBy
  <1>4. o \notin lost /\ o \notin AtPort /\ \A d \in Clients : o \notin AtKernel(d)
    BY <1>0, <1>3 DEF OwnInv, Apart
  <1>5. Port' = Port /\ \A d \in Clients : AtKernel(d)' = AtKernel(d)
    BY <1>2 DEF Port, AtKernel
  <1>6. ov'[o].op # "send" /\ \A p \in Overlappeds \ {o} : ov'[p] = ov[p]
    BY <1>0, <1>2, <1>3 DEF OwnInv, TypeInv, TypeOK, Cleared
  <1>7. \A d \in Clients : /\ Unanswered(d)' = Unanswered(d)
                           /\ \A p \in Unanswered(d) : ov'[p] = ov[p]
    BY <1>0, <1>2, <1>3, <1>4, <1>5, <1>6, UnansweredKept
  <1>8. /\ \A d \in Clients : \A p \in AtKernel(d) : ov'[p] = ov[p]
        /\ \A x \in Port : ov'[x.ov] = ov[x.ov]
    <2>1. \A d \in Clients : AtKernel(d) \subseteq Overlappeds  BY <1>0, ReplyTypes DEF OwnInv
    <2>2. \A x \in Port : x.ov \in Overlappeds /\ x.ov \in AtPort
      <3>1. Port \subseteq Completion
        BY <1>0, RangeOfSeq DEF Port, OwnInv, TypeInv, TypeOK
      <3> QED  BY <3>1 DEF Completion, AtPort
    <2> QED  BY <1>4, <1>6, <2>1, <2>2
  <1>9. \A r \in Sessions : at'[r] \in {"dispatch", "send"} =>
          /\ at[r] \in {"dispatch", "send"} /\ cur'[r] = cur[r] /\ at'[r] = at[r]
          /\ ov'[cur[r].ov] = ov[cur[r].ov]
    <2>1. at'[s] = "wait" /\ \A r \in Sessions \ {s} : at'[r] = at[r] /\ cur'[r] = cur[r]
      BY <1>0, <1>2 DEF OwnInv, TypeInv, TypeOK
    <2>2. \A r \in Sessions \ {s} : Holding(r) => cur[r].ov \in Overlappeds /\ cur[r].ov # o
      <3>1. \A r \in Sessions : Holding(r) => cur[r].ov \in HeldBy(r)  BY DEF HeldBy
      <3>2. \A r \in Sessions : Holding(r) => cur[r].ov \in Overlappeds
        BY <1>0, ServedTyped DEF OwnInv
      <3> QED  BY <1>0, <1>3, <3>1, <3>2 DEF OwnInv, Apart
    <2> QED  BY <1>6, <2>1, <2>2 DEF Holding
  <1>10. ASSUME NEW d \in Clients  PROVE ReplyRule(d)'
    BY <1>0, <1>2, <1>7, <1>8, <1>9, RuleKept
  <1> QED  BY <1>10 DEF ReplyInv

\* The session that works for a client has its chain, and no other does.
LEMMA WorksAlone ==
  ASSUME ChainInv, NEW s \in Sessions, Working(s), NEW c \in Clients, c = ServedClient(s)
  PROVE  /\ \A x \in Port : ~ Message(x, c)
         /\ \A r \in Sessions \ {s} : Working(r) => ServedClient(r) # c
  <1>1. c = ClientOf(cur[s])
    BY ServedKnown DEF ChainInv, Working, Holding
  <1>2. /\ cur[s].ov \in ChainSet(c) /\ cur[s].ov \in HeldBy(s)
        /\ \A r \in Sessions : Working(r) => /\ cur[r].ov \in HeldBy(r)
                                             /\ cur[r].ov \in ChainSet(ClientOf(cur[r]))
    BY <1>1, ChainPlaces DEF ChainInv, ChainSet
  <1>3. \A p \in ChainSet(c) : p = cur[s].ov  BY <1>2 DEF ChainInv, ChainRule
  <1>4. ASSUME NEW x \in Port, Message(x, c)  PROVE FALSE
    <2>1. IsChain(x.ov) /\ ClientOf(x) = c  BY <1>4 DEF Message, IsChain, ClientOf
    <2>2. x.ov \in ChainSet(c) /\ x.ov \in AtPort
      BY <2>1 DEF ChainSet, PortChains, AtPort
    <2>3. cur[s].ov \in AtPort  BY <1>3, <2>2
    <2> QED  BY <1>2, <2>3 DEF ChainInv, OwnInv, Apart
  <1>5. ASSUME NEW r \in Sessions \ {s}, Working(r), ServedClient(r) = c  PROVE FALSE
    <2>1. ClientOf(cur[r]) = c  BY <1>5 DEF ServedClient, ClientOf
    <2>2. cur[r].ov = cur[s].ov /\ cur[r].ov \in HeldBy(r)  BY <1>2, <1>3, <1>5, <2>1
    <2> QED  BY <1>2, <2>2 DEF ChainInv, OwnInv, Apart
  <1> QED  BY <1>4, <1>5

\* A reply to the newest request joins those that are not answered.
LEMMA SendReplies ==
  ASSUME ReplyInv, ChainInv', NEW s \in Sessions, SendPosted(s) \/ SendRefused(s)
  PROVE  ReplyInv'
  <1>0. ChainInv /\ OwnInv /\ TypeInv /\ TypeInv'  BY DEF ReplyInv, ChainInv, OwnInv
  <1>1. /\ at[s] = "send" /\ at' = [at EXCEPT ![s] = "rearm"]
        /\ UNCHANGED <<cur, asked, received, answered>>
    BY DEF SendPosted, SendRefused, Goto, peers
  <1>2. /\ at'[s] = "rearm" /\ \A r \in Sessions \ {s} : at'[r] = at[r]
        /\ Holding(s) /\ Working(s)
    BY <1>0, <1>1 DEF OwnInv, TypeInv, TypeOK, Holding, Working
  <1>3. PICK c \in Clients : c = ServedClient(s)
    BY <1>0, <1>2, ServedKnown
  <1>4. PICK m \in Nat : m = ov[cur[s].ov].msg
    BY <1>0, <1>2, ServedTyped DEF Contents
  <1>5. /\ Newest(c, m) /\ Within(c, m, 0) /\ IsRequest(c, m)
    BY <1>1, <1>3, <1>4 DEF ReplyInv, ReplyRule, ServeRule
  <1> DEFINE contents == [op |-> "send", id |-> c, msg |-> m]
  <1>6. /\ contents \in Contents /\ contents = Reply(s)
        /\ contents.op = "send" /\ contents.id = c /\ contents.msg = m
    BY <1>3, <1>4 DEF Contents, Reply
  <1>7. Post(c, contents) \/ PostRefused(contents)
    BY <1>3, <1>6 DEF SendPosted, SendRefused
  <1> HIDE DEF contents
  <1>8. PICK o \in Overlappeds : o = Head(pool)
    BY <1>0, <1>6, <1>7, PostMoves, RefusedMoves
  <1>9. /\ o \in InPool /\ ov'[o] = contents
        /\ \A p \in Overlappeds \ {o} : ov'[p] = ov[p]
        /\ Port' = Port /\ completions' = completions
        /\ \/ lost' = lost /\ AtKernel(c)' = AtKernel(c) \cup {o}
           \/ lost' = lost \cup {o} /\ AtKernel(c)' = AtKernel(c)
        /\ \A d \in Clients \ {c} : AtKernel(d)' = AtKernel(d)
    <2>1. CASE Post(c, contents)  BY <1>0, <1>6, <1>8, <2>1, PostMoves
    <2>2. CASE PostRefused(contents)  BY <1>0, <1>6, <1>8, <2>2, RefusedMoves
    <2> QED  BY <1>7, <2>1, <2>2
  <1>10. /\ \A d \in Clients : \A p \in AtKernel(d) : ov'[p] = ov[p]
         /\ \A x \in Port : ov'[x.ov] = ov[x.ov]
         /\ \A r \in Sessions : Holding(r) => ov'[cur[r].ov] = ov[cur[r].ov]
    BY <1>0, <1>9, InUse
  <1>11. /\ \A d \in Clients \ {c} : pending'[d] = pending[d]
         /\ pending'[c] = pending[c] \/ pending'[c] = Append(pending[c], o)
    <2>1. pending \in [Clients -> Seq(Overlappeds)]  BY <1>0 DEF OwnInv, TypeInv, TypeOK
    <2> QED  BY <1>7, <1>8, <2>1 DEF Post, PostRefused, kernel
  <1>12. o \notin lost /\ o \notin AtPort /\ \A d \in Clients : o \notin AtKernel(d)
    BY <1>0, <1>9 DEF OwnInv, Apart
  <1>13. /\ Unanswered(c)' = Unanswered(c) \cup {o} /\ o \notin Unanswered(c)
         /\ \A p \in Unanswered(c) : ov'[p] = ov[p]
    <2>1. o \in Unanswered(c)'  BY <1>6, <1>9 DEF Unanswered
    <2>2. o \notin Unanswered(c)  BY <1>12 DEF Unanswered, AtPort
    <2>3. \A p \in Overlappeds \ {o} : p \in Unanswered(c)' <=> p \in Unanswered(c)
      BY <1>9 DEF Unanswered
    <2>4. Unanswered(c) \subseteq Overlappeds /\ Unanswered(c)' \subseteq Overlappeds
      BY DEF Unanswered
    <2> QED  BY <1>9, <2>1, <2>2, <2>3, <2>4
  <1>14. \A r \in Sessions : at'[r] \in {"dispatch", "send"} =>
           /\ at[r] \in {"dispatch", "send"} /\ cur'[r] = cur[r] /\ at'[r] = at[r] /\ r # s
           /\ ov'[cur[r].ov] = ov[cur[r].ov]
    BY <1>1, <1>2, <1>10 DEF Holding
  <1>15. ASSUME NEW d \in Clients \ {c}  PROVE ReplyRule(d)'
    <2>1. /\ Unanswered(d)' = Unanswered(d)
          /\ \A p \in Unanswered(d) : ov'[p] = ov[p]
      <3>1. o \notin Unanswered(d)' /\ o \notin Unanswered(d)
        BY <1>6, <1>9, <1>12 DEF Unanswered, AtPort
      <3>2. \A p \in Overlappeds \ {o} : p \in Unanswered(d)' <=> p \in Unanswered(d)
        BY <1>9 DEF Unanswered
      <3>3. Unanswered(d) \subseteq Overlappeds /\ Unanswered(d)' \subseteq Overlappeds
        BY DEF Unanswered
      <3> QED  BY <1>9, <3>1, <3>2, <3>3
    <2> QED  BY <1>0, <1>1, <1>9, <1>10, <1>11, <1>14, <2>1, RuleKept
  <1>16. ReplyRule(c)'
    <2>1. ReplyRule(c)  BY DEF ReplyInv
    <2>2. Behind(c, 0)' = Behind(c, 0)
      <3>1. \A i \in DOMAIN completions : completions[i] \in Port /\ i \in Nat
        BY <1>0, ReplyTypes
      <3>2. \A i \in DOMAIN completions : SentOk(completions[i], c)' <=> SentOk(completions[i], c)
        BY <1>9, <1>10, <3>1 DEF SentOk
      <3> QED  BY <1>9, <3>2 DEF Behind
    <2>3. WindowRule(c)'  BY <1>1, <2>1 DEF ReplyRule, WindowRule
    <2>4. UnansweredRule(c)'
      <3>1. ASSUME NEW p \in Unanswered(c)'
            PROVE  /\ IsRequest(c, ov[p].msg)'
                   /\ ov'[p].msg \notin Range(answered'[c])
                   /\ Within(c, ov[p].msg, 0)'
        <4>1. CASE p \in Unanswered(c)
          BY <1>1, <1>13, <2>1, <2>2, <4>1 DEF ReplyRule, UnansweredRule, IsRequest, Within
        <4>2. CASE p = o
          <5>1. m \notin Range(answered[c])
            <6>1. \A k \in DOMAIN answered[c] : answered[c][k] \in Nat  BY <1>0, ReplyTypes
            <6> QED  BY <1>5, <6>1 DEF Newest, Range
          <5> QED  BY <1>1, <1>5, <1>6, <1>9, <2>2, <4>2, <5>1 DEF IsRequest, Within
        <4> QED  BY <1>13, <4>1, <4>2
      <3>2. \A p \in Unanswered(c) : ov[p].msg \in Nat /\ ov[p].msg < m
        BY <1>0, <1>5, ReplyTypes DEF Newest, Unanswered
      <3>3. \A a, b \in Unanswered(c)' : ov'[a].msg = ov'[b].msg => a = b
        BY <1>6, <1>9, <1>13, <2>1, <3>2 DEF ReplyRule, UnansweredRule
      <3> QED  BY <3>1, <3>3 DEF UnansweredRule
    <2>5. OrderRule(c)'
      <3>1. CASE pending'[c] = pending[c]
        BY <1>0, <1>1, <1>10, <2>1, <3>1, OrderKept DEF ReplyRule
      <3>2. CASE pending'[c] = Append(pending[c], o)
        <4>0. pending[c] \in Seq(Overlappeds)  BY <1>0 DEF TypeInv, TypeOK
        <4>1. /\ Len(pending[c]) \in Nat /\ DOMAIN pending[c] = 1 .. Len(pending[c])
              /\ DOMAIN pending'[c] = 1 .. Len(pending[c]) + 1
              /\ \A i \in 1 .. Len(pending[c]) : pending'[c][i] = pending[c][i]
              /\ pending'[c][Len(pending[c]) + 1] = o
          BY <3>2, <4>0, AppendProperties, LenProperties
        <4>2. \A i \in DOMAIN pending[c] : /\ pending[c][i] \in AtKernel(c)
                                           /\ ov'[pending[c][i]] = ov[pending[c][i]]
          BY <1>0, <1>10, ReplyTypes
        <4>3. \A i \in DOMAIN pending[c] : ov[pending[c][i]].op = "send" => ov[pending[c][i]].msg < m
          <5>1. ASSUME NEW i \in DOMAIN pending[c], ov[pending[c][i]].op = "send"
                PROVE  pending[c][i] \in Unanswered(c)
            <6>1. pending[c][i] \in Overlappeds  BY <1>0, <4>2, ReplyTypes
            <6> QED  BY <1>0, <4>2, <5>1, <6>1 DEF Unanswered, OwnInv, Operations, KernelOps
          <5> QED  BY <1>5, <5>1 DEF Newest
        <4>4. ov'[o].op = "send" /\ ov'[o].msg = m /\ answered'[c] = answered[c]
          BY <1>1, <1>6, <1>9
        <4>5. \A k \in DOMAIN answered[c] : answered[c][k] < m  BY <1>5 DEF Newest
        <4>6. \A i \in DOMAIN pending'[c] : i \in DOMAIN pending[c] \/ i = Len(pending[c]) + 1
          BY <4>1
        <4>7. ASSUME NEW i \in DOMAIN pending'[c], NEW j \in DOMAIN pending'[c], i < j,
                     ov'[pending'[c][i]].op = "send", ov'[pending'[c][j]].op = "send"
              PROVE  ov'[pending'[c][i]].msg < ov'[pending'[c][j]].msg
          <5>1. i \in DOMAIN pending[c] /\ pending'[c][i] = pending[c][i]  BY <4>1, <4>7
          <5>2. CASE j \in DOMAIN pending[c]
            BY <2>1, <4>1, <4>2, <4>7, <5>1, <5>2 DEF ReplyRule, OrderRule
          <5>3. CASE j = Len(pending[c]) + 1
            BY <4>1, <4>2, <4>3, <4>4, <4>7, <5>1, <5>3
          <5> QED  BY <4>6, <5>2, <5>3
        <4>8. ASSUME NEW i \in DOMAIN pending'[c], ov'[pending'[c][i]].op = "send"
              PROVE  \A k \in DOMAIN answered'[c] : answered'[c][k] < ov'[pending'[c][i]].msg
          <5>1. CASE i \in DOMAIN pending[c]
            BY <2>1, <4>1, <4>2, <4>4, <4>8, <5>1 DEF ReplyRule, OrderRule
          <5>2. CASE i = Len(pending[c]) + 1  BY <4>1, <4>4, <4>5, <5>2
          <5> QED  BY <4>6, <5>1, <5>2
        <4> QED  BY <4>7, <4>8 DEF OrderRule
      <3> QED  BY <1>11, <3>1, <3>2
    <2>6. AnsweredRule(c)'
      BY <1>1, <2>1, <2>2 DEF ReplyRule, AnsweredRule, IsRequest, Within
    <2>7. QueueRule(c)'
      <3>1. \A i \in DOMAIN completions : completions[i] \in Port /\ i \in Nat
        BY <1>0, ReplyTypes
      <3>2. \A i \in DOMAIN completions : ~ Message(completions[i], c)
        BY <1>0, <1>2, <1>3, <3>1, WorksAlone
      <3>3. \A i \in DOMAIN completions : ~ Message(completions[i], c)'
        BY <1>9, <1>10, <3>1, <3>2 DEF Message
      <3> QED  BY <1>9, <3>3 DEF QueueRule
    <2>8. ServeRule(c)'
      <3>1. ASSUME NEW r \in Sessions, at'[r] \in {"dispatch", "send"}  PROVE ServedClient(r)' # c
        <4>1. Working(r) /\ r # s  BY <1>14, <3>1 DEF Working
        <4>2. ServedClient(r) # c  BY <1>0, <1>2, <1>3, <4>1, WorksAlone
        <4> QED  BY <1>14, <3>1, <4>2 DEF ServedClient
      <3> QED  BY <3>1 DEF ServeRule
    <2> QED  BY <2>3, <2>4, <2>5, <2>6, <2>7, <2>8 DEF ReplyRule
  <1> QED  BY <1>15, <1>16 DEF ReplyInv

\* The oldest completion is taken: each of the others is one place nearer.
LEMMA TailKept ==
  ASSUME ReplyInv, TypeInv', NEW c \in Clients,
         completions # <<>>, completions' = Tail(completions),
         UNCHANGED <<ov, pending, asked, received, answered>>, Unanswered(c)' = Unanswered(c),
         \A s \in Sessions : at'[s] \in {"dispatch", "send"} /\ ServedClient(s)' = c =>
           \/ at'[s] = at[s] /\ cur'[s] = cur[s]
           \/ /\ at'[s] = "dispatch" /\ cur'[s] = Head(completions)
              /\ Message(Head(completions), c)
  PROVE  ReplyRule(c)'
  <1>0. OwnInv /\ TypeInv /\ ReplyRule(c)  BY DEF ReplyInv, ChainInv, OwnInv
  <1>1. /\ 1 \in DOMAIN completions /\ Head(completions) = completions[1]
        /\ \A i \in DOMAIN completions' : /\ i \in Nat \ {0} /\ i + 1 \in DOMAIN completions
                                          /\ completions'[i] = completions[i + 1]
        /\ \A i \in DOMAIN completions : i = 1 \/ (i - 1 \in DOMAIN completions'
                                                   /\ completions[i] = completions'[i - 1])
        /\ \A i \in DOMAIN completions : i \in Nat \ {0}
    <2>1. completions \in Seq(Completion) /\ completions' \in Seq(Completion)
      BY <1>0 DEF TypeInv, TypeOK
    <2>2. \A i \in DOMAIN completions' : i \in Nat \ {0}
      BY <2>1, LenProperties
    <2>3. \A i \in DOMAIN completions : i \in Nat \ {0}
      BY <2>1, LenProperties
    <2> QED  BY <2>1, <2>2, <2>3, TailElements
  <1>2. \A x : /\ SentOk(x, c)' <=> SentOk(x, c)
               /\ Message(x, c)' <=> Message(x, c)
    BY DEF SentOk, Message
  <1>3. \A i \in Nat : Behind(c, i)' = Behind(c, i + 1)
    <2> SUFFICES ASSUME NEW i \in Nat  PROVE Behind(c, i)' = Behind(c, i + 1)
      OBVIOUS
    <2>1. ASSUME NEW o \in Behind(c, i)'  PROVE o \in Behind(c, i + 1)
      <3>1. PICK j \in DOMAIN completions' : /\ j > i /\ SentOk(completions[j], c)'
                                             /\ o = completions'[j].ov
        BY DEF Behind
      <3>2. /\ j + 1 \in DOMAIN completions /\ j + 1 > i + 1
            /\ completions'[j] = completions[j + 1]
        BY <1>1, <3>1
      <3>3. SentOk(completions[j + 1], c)  BY <3>1, <3>2 DEF SentOk
      <3> QED  BY <3>1, <3>2, <3>3 DEF Behind
    <2>2. ASSUME NEW o \in Behind(c, i + 1)  PROVE o \in Behind(c, i)'
      <3>1. PICK j \in DOMAIN completions : /\ j > i + 1 /\ SentOk(completions[j], c)
                                            /\ o = completions[j].ov
        BY DEF Behind
      <3>2. /\ j - 1 \in DOMAIN completions' /\ j - 1 > i
            /\ completions'[j - 1] = completions[j]
        BY <1>1, <3>1
      <3>3. PICK k \in DOMAIN completions' : k > i /\ completions'[k] = completions[j]
        BY <3>2
      <3>4. SentOk(completions[k], c)'  BY <3>1, <3>3 DEF SentOk
      <3> QED  BY <3>1, <3>3, <3>4 DEF Behind
    <2> QED  BY <2>1, <2>2
  <1>4. Behind(c, 0)' = Behind(c, 1) /\ Behind(c, 0)' \subseteq Behind(c, 0)
    <2>1. Behind(c, 0)' = Behind(c, 0 + 1)  BY <1>3
    <2>2. Behind(c, 1) \subseteq Behind(c, 0)
      <3>1. \A j \in DOMAIN completions : j \in Nat /\ (j > 1 => j > 0)  BY <1>1
      <3> QED  BY <3>1 DEF Behind
    <2> QED  BY <2>1, <2>2
  <1>5. \A m \in Nat : Within(c, m, 0) => Within(c, m, 0)'
    <2>1. Len(answered[c]) <= Len(answered'[c])  BY <1>0, ReplyTypes
    <2> QED  BY <1>0, <1>4, <2>1, WithinKept
  <1>6. \A m : Newest(c, m) => Newest(c, m)'  BY DEF Newest
  <1>7. WindowRule(c)'  BY <1>0 DEF ReplyRule, WindowRule
  <1>8. UnansweredRule(c)'
    <2>1. \A o \in Unanswered(c) : ov[o].msg \in Nat  BY <1>0, ReplyTypes DEF Unanswered
    <2>2. \A o \in Unanswered(c) : Within(c, ov[o].msg, 0)'
      BY <1>0, <1>5, <2>1 DEF ReplyRule, UnansweredRule, Within
    <2> QED  BY <1>0, <2>2 DEF ReplyRule, UnansweredRule, IsRequest
  <1>9. OrderRule(c)'  BY <1>0 DEF ReplyRule, OrderRule
  <1>10. AnsweredRule(c)'
    <2>1. \A k \in DOMAIN answered[c] : answered[c][k] \in Nat  BY <1>0, ReplyTypes
    <2>2. \A k \in DOMAIN answered[c] : Within(c, answered[c][k], 0)'
      BY <1>0, <1>5, <2>1 DEF ReplyRule, AnsweredRule, Within
    <2> QED  BY <1>0, <2>2 DEF ReplyRule, AnsweredRule, IsRequest
  <1>11. QueueRule(c)'
    <2> SUFFICES ASSUME NEW i \in DOMAIN completions', Message(completions[i], c)'
                 PROVE  /\ Newest(c, ov[completions[i].ov].msg)'
                        /\ Within(c, ov[completions[i].ov].msg, i)'
      BY DEF QueueRule
    <2>1. i \in Nat /\ i + 1 \in DOMAIN completions /\ completions'[i] = completions[i + 1]
      BY <1>1
    <2>2. Message(completions[i + 1], c)  BY <2>1 DEF Message
    <2>3. /\ Newest(c, ov[completions[i + 1].ov].msg)
          /\ Within(c, ov[completions[i + 1].ov].msg, i + 1)
      BY <1>0, <2>1, <2>2 DEF ReplyRule, QueueRule
    <2>4. Newest(c, ov[completions[i].ov].msg)'  BY <2>1, <2>3 DEF Newest
    <2>5. Within(c, ov[completions[i].ov].msg, i)'  BY <1>3, <2>1, <2>3 DEF Within
    <2> QED  BY <2>4, <2>5
  <1>12. ServeRule(c)'
    <2> SUFFICES ASSUME NEW s \in Sessions, at'[s] \in {"dispatch", "send"}, ServedClient(s)' = c
                 PROVE  /\ Newest(c, ov[cur[s].ov].msg)'
                        /\ Within(c, ov[cur[s].ov].msg, 0)'
                        /\ at'[s] = "send" => IsRequest(c, ov[cur[s].ov].msg)'
      BY DEF ServeRule
    <2>1. CASE at'[s] = at[s] /\ cur'[s] = cur[s]
      <3>1. ServedClient(s) = c  BY <2>1 DEF ServedClient
      <3>2. /\ Newest(c, ov[cur[s].ov].msg) /\ Within(c, ov[cur[s].ov].msg, 0)
            /\ at[s] = "send" => IsRequest(c, ov[cur[s].ov].msg)
        BY <1>0, <2>1, <3>1 DEF ReplyRule, ServeRule
      <3>3. ov[cur[s].ov].msg \in Nat
        <4>1. Holding(s)  BY <2>1 DEF Holding
        <4> QED  BY <1>0, <4>1, ServedTyped DEF Contents
      <3>4. Newest(c, ov[cur[s].ov].msg)'  BY <2>1, <3>2 DEF Newest
      <3>5. Within(c, ov[cur[s].ov].msg, 0)'  BY <1>5, <2>1, <3>2, <3>3 DEF Within
      <3> QED  BY <2>1, <3>2, <3>4, <3>5 DEF IsRequest
    <2>2. CASE at'[s] = "dispatch" /\ cur'[s] = Head(completions) /\ Message(Head(completions), c)
      <3>1. /\ Newest(c, ov[completions[1].ov].msg)
            /\ Within(c, ov[completions[1].ov].msg, 1)
        BY <1>0, <1>1, <2>2 DEF ReplyRule, QueueRule
      <3>2. cur'[s] = completions[1]  BY <1>1, <2>2
      <3>3. Newest(c, ov[cur[s].ov].msg)'  BY <3>1, <3>2 DEF Newest
      <3>4. Within(c, ov[cur[s].ov].msg, 0)'  BY <1>4, <3>1, <3>2 DEF Within
      <3> QED  BY <2>2, <3>3, <3>4
    <2> QED  BY <2>1, <2>2
  <1> QED  BY <1>7, <1>8, <1>9, <1>10, <1>11, <1>12 DEF ReplyRule

\* A session takes a completion,
LEMMA TakeReplies ==
  ASSUME ReplyInv, ChainInv', NEW s \in Sessions, NEW next \in {"dispatch", "rearm", "recycle"},
         Take(s, next), next = "dispatch" => TakenOp = "recv" /\ Head(completions).bytes > 0
  PROVE  ReplyInv'
  <1>0. OwnInv /\ TypeInv /\ TypeInv'  BY DEF ReplyInv, ChainInv, OwnInv
  <1>1. PICK x \in Completion : x = Head(completions)
    BY <1>0, TakeMoves DEF Take
  <1>2. /\ completions # <<>> /\ completions' = Tail(completions) /\ x.ok
        /\ cur' = [cur EXCEPT ![s] = x] /\ at' = [at EXCEPT ![s] = next]
        /\ UNCHANGED <<lost, ov, pending, asked, received, answered>>
    BY <1>1 DEF Take, objects, peers
  <1>3. cur'[s] = x /\ at'[s] = next /\ \A r \in Sessions \ {s} : cur'[r] = cur[r] /\ at'[r] = at[r]
    BY <1>0, <1>2 DEF TypeInv, TypeOK
  <1>4. Port' = Port \ {x}  BY <1>0, <1>1, <1>2, TakeMoves
  <1>5. \A c \in Clients : Unanswered(c)' = Unanswered(c)
    BY <1>2, <1>4 DEF Unanswered, AtKernel
  <1>6. ASSUME NEW c \in Clients  PROVE ReplyRule(c)'
    <2>1. ASSUME NEW r \in Sessions, at'[r] \in {"dispatch", "send"}, ServedClient(r)' = c
          PROVE  \/ at'[r] = at[r] /\ cur'[r] = cur[r]
                 \/ /\ at'[r] = "dispatch" /\ cur'[r] = Head(completions)
                    /\ Message(Head(completions), c)
      <3>1. CASE r # s  BY <1>3, <3>1
      <3>2. CASE r = s
        <4>1. next = "dispatch" /\ ov[x.ov].op = "recv" /\ x.bytes > 0
          BY <1>1, <1>3, <2>1, <3>2 DEF TakenOp
        <4>2. x.key = c  BY <1>2, <1>3, <2>1, <3>2, <4>1 DEF ServedClient
        <4> QED  BY <1>1, <1>2, <1>3, <3>2, <4>1, <4>2 DEF Message
      <3> QED  BY <3>1, <3>2
    <2> QED  BY <1>0, <1>2, <1>5, <2>1, TailKept
  <1> QED  BY <1>6 DEF ReplyInv

\* or finds it failed.
LEMMA FailedReplies ==
  ASSUME ReplyInv, ChainInv', NEW s \in Sessions, TakeFailed(s)  PROVE ReplyInv'
  <1>0. OwnInv /\ TypeInv /\ TypeInv'  BY DEF ReplyInv, ChainInv, OwnInv
  <1>1. PICK x \in Completion : x = Head(completions)
    BY <1>0, TakeMoves DEF TakeFailed
  <1>2. /\ completions # <<>> /\ completions' = Tail(completions) /\ ~ x.ok
        /\ lost' = lost \cup {x.ov}
        /\ UNCHANGED <<ov, pending, asked, received, answered, at, cur>>
    BY <1>1 DEF TakeFailed, threads, peers
  <1>3. /\ Port' = Port \ {x} /\ x \in Port /\ x.ov \in Overlappeds
        /\ \A y \in Port : y.ov = x.ov => y = x
    BY <1>0, <1>1, <1>2, TakeMoves DEF OwnInv, EachOnce
  <1>4. \A c \in Clients : Unanswered(c)' = Unanswered(c)
    BY <1>2, <1>3 DEF Unanswered, AtKernel
  <1>5. ASSUME NEW c \in Clients  PROVE ReplyRule(c)'
    BY <1>0, <1>2, <1>4, TailKept
  <1> QED  BY <1>5 DEF ReplyInv

\* A completion joins the others behind them.
LEMMA JoinedQueue ==
  ASSUME TypeInv, NEW c \in Clients, NEW x \in Completion, completions' = Append(completions, x),
         \A y \in Port : ov'[y.ov] = ov[y.ov]
  PROVE  /\ \A i \in DOMAIN completions' :
              \/ /\ i \in DOMAIN completions /\ completions'[i] = completions[i]
                 /\ ov'[completions[i].ov] = ov[completions[i].ov]
                 /\ Message(completions[i], c)' <=> Message(completions[i], c)
              \/ i = Len(completions) + 1 /\ completions'[i] = x
         /\ \A i \in Int : Behind(c, i)' \subseteq Behind(c, i) \cup {x.ov}
         /\ ~ SentOk(x, c)' => \A i \in Int : Behind(c, i)' \subseteq Behind(c, i)
         /\ \A n \in Nat : n = Len(completions) + 1 => Behind(c, n)' = {}
         /\ Len(completions) \in Nat
  <1>0. completions \in Seq(Completion)  BY DEF TypeInv, TypeOK
  <1>1. /\ Len(completions) \in Nat /\ DOMAIN completions = 1 .. Len(completions)
        /\ DOMAIN completions' = 1 .. Len(completions) + 1
        /\ \A i \in 1 .. Len(completions) : completions'[i] = completions[i]
        /\ completions'[Len(completions) + 1] = x
    BY <1>0, AppendProperties, LenProperties
  <1>2. \A i \in DOMAIN completions : /\ completions[i] \in Port
                                      /\ ov'[completions[i].ov] = ov[completions[i].ov]
    BY ReplyTypes
  <1>3. \A i \in DOMAIN completions : Message(completions[i], c)' <=> Message(completions[i], c)
    BY <1>1, <1>2 DEF Message
  <1>4. \A i \in DOMAIN completions : SentOk(completions[i], c)' <=> SentOk(completions[i], c)
    BY <1>1, <1>2 DEF SentOk
  <1>5. \A i \in DOMAIN completions' : i \in DOMAIN completions \/ i = Len(completions) + 1
    BY <1>1
  <1>6. ASSUME NEW i \in Int, NEW o \in Behind(c, i)'
        PROVE  o \in Behind(c, i) \/ (o = x.ov /\ SentOk(x, c)')
    <2>1. PICK j \in DOMAIN completions' : /\ j > i /\ SentOk(completions[j], c)'
                                           /\ o = completions'[j].ov
      BY <1>6 DEF Behind
    <2>2. CASE j \in DOMAIN completions
      BY <1>1, <1>4, <2>1, <2>2 DEF Behind
    <2>3. CASE j = Len(completions) + 1
      <3>1. completions'[j] = x  BY <1>1, <2>3
      <3> QED  BY <2>1, <3>1 DEF SentOk
    <2> QED  BY <1>5, <2>2, <2>3
  <1>7. ASSUME NEW n \in Nat, n = Len(completions) + 1  PROVE Behind(c, n)' = {}
    <2>1. \A j \in DOMAIN completions' : ~ (j > n)  BY <1>1, <1>7
    <2> QED  BY <2>1 DEF Behind
  <1> QED  BY <1>1, <1>2, <1>3, <1>5, <1>6, <1>7

\* The kernel gives up one of the operations of a client: those that remain
\* keep their order.
LEMMA RemovedOrder ==
  ASSUME TypeInv, NEW c \in Clients, NEW i \in DOMAIN pending[c], OrderRule(c),
         pending'[c] = RemoveAt(pending[c], i),
         \A p \in AtKernel(c) : /\ ov'[p].op = ov[p].op
                                /\ ov[p].op = "send" => ov'[p].msg = ov[p].msg
  PROVE  /\ \A j, k \in DOMAIN pending'[c] :
              j < k /\ ov'[pending'[c][j]].op = "send" /\ ov'[pending'[c][k]].op = "send"
                => ov'[pending'[c][j]].msg < ov'[pending'[c][k]].msg
         /\ \A j \in DOMAIN pending'[c] : \E k \in DOMAIN pending[c] \ {i} :
              /\ pending'[c][j] = pending[c][k]
              /\ ov'[pending'[c][j]].op = ov[pending[c][k]].op
              /\ ov[pending[c][k]].op = "send" => ov'[pending'[c][j]].msg = ov[pending[c][k]].msg
         /\ answered'[c] = answered[c] => OrderRule(c)'
  <1> DEFINE Old(j) == IF j < i THEN j ELSE j + 1
  <1>0. pending[c] \in Seq(Overlappeds)  BY DEF TypeInv, TypeOK
  <1>1. /\ Len(pending[c]) \in Nat /\ DOMAIN pending[c] = 1 .. Len(pending[c])
        /\ i \in 1 .. Len(pending[c])
        /\ DOMAIN pending'[c] = 1 .. Len(pending[c]) - 1
        /\ \A j \in DOMAIN pending'[c] :
             pending'[c][j] = IF j < i THEN pending[c][j] ELSE pending[c][j + 1]
    BY <1>0, RemoveAtElements, LenProperties
  <1>2. \A j \in DOMAIN pending'[c] : /\ Old(j) \in DOMAIN pending[c] \ {i}
                                      /\ pending'[c][j] = pending[c][Old(j)]
    BY <1>1
  <1>3. \A j, k \in DOMAIN pending'[c] : j < k => Old(j) < Old(k)  BY <1>1
  <1>4. \A k \in DOMAIN pending[c] : pending[c][k] \in AtKernel(c)  BY DEF AtKernel, Range
  <1> HIDE DEF Old
  <1>5. \A j \in DOMAIN pending'[c] :
          /\ ov'[pending'[c][j]].op = ov[pending[c][Old(j)]].op
          /\ ov[pending[c][Old(j)]].op = "send" =>
               ov'[pending'[c][j]].msg = ov[pending[c][Old(j)]].msg
    BY <1>2, <1>4
  <1>6. \A j, k \in DOMAIN pending'[c] :
          j < k /\ ov'[pending'[c][j]].op = "send" /\ ov'[pending'[c][k]].op = "send"
            => ov'[pending'[c][j]].msg < ov'[pending'[c][k]].msg
    BY <1>2, <1>3, <1>5 DEF OrderRule
  <1>7. \A j \in DOMAIN pending'[c] : \E k \in DOMAIN pending[c] \ {i} :
          /\ pending'[c][j] = pending[c][k]
          /\ ov'[pending'[c][j]].op = ov[pending[c][k]].op
          /\ ov[pending[c][k]].op = "send" => ov'[pending'[c][j]].msg = ov[pending[c][k]].msg
    BY <1>2, <1>5
  <1>8. ASSUME answered'[c] = answered[c]  PROVE OrderRule(c)'
    <2>1. \A j \in DOMAIN pending'[c] : ov'[pending'[c][j]].op = "send" =>
            \A k \in DOMAIN answered'[c] : answered'[c][k] < ov'[pending'[c][j]].msg
      BY <1>2, <1>5, <1>8 DEF OrderRule
    <2> QED  BY <1>6, <2>1 DEF OrderRule
  <1> QED  BY <1>6, <1>7, <1>8

\* A completion that is no reply client c has got: at most its newest message.
LEMMA JoinedKept ==
  ASSUME ReplyInv, TypeInv', NEW c \in Clients, NEW x \in Completion,
         completions' = Append(completions, x), ~ SentOk(x, c)',
         Message(x, c)' => Newest(c, ov[x.ov].msg)',
         \A y \in Port : ov'[y.ov] = ov[y.ov], OrderRule(c)', UNCHANGED <<at, cur>>,
         \A s \in Sessions : Holding(s) => ov'[cur[s].ov] = ov[cur[s].ov],
         asked'[c] = asked[c], answered'[c] = answered[c],
         received'[c] = received[c] \/ received'[c] \in received[c] .. Len(asked[c]),
         Unanswered(c)' = Unanswered(c), \A o \in Unanswered(c) : ov'[o] = ov[o]
  PROVE  ReplyRule(c)'
  <1>0. OwnInv /\ TypeInv /\ ReplyRule(c)  BY DEF ReplyInv, ChainInv, OwnInv
  <1>1. /\ \A i \in DOMAIN completions' :
             \/ /\ i \in DOMAIN completions /\ completions'[i] = completions[i]
                /\ ov'[completions[i].ov] = ov[completions[i].ov]
                /\ Message(completions[i], c)' <=> Message(completions[i], c)
             \/ i = Len(completions) + 1 /\ completions'[i] = x
        /\ \A i \in Int : Behind(c, i)' \subseteq Behind(c, i)
        /\ \A n \in Nat : n = Len(completions) + 1 => Behind(c, n)' = {}
        /\ Len(completions) \in Nat
    BY <1>0, JoinedQueue
  <1>2. \A m \in Nat, i \in Int : Within(c, m, i) => Within(c, m, i)'
    <2>1. Len(answered[c]) <= Len(answered'[c])  BY <1>0, ReplyTypes
    <2> QED  BY <1>0, <1>1, <2>1, WithinKept
  <1>3. /\ WindowRule(c)' /\ received[c] <= received'[c] /\ received'[c] \in Nat
        /\ received[c] \in Nat
    BY <1>0, ReplyTypes DEF ReplyRule, WindowRule
  <1>4. \A m : m \in 1 .. received[c] => m \in 1 .. received'[c]
    BY <1>3
  <1>5. UnansweredRule(c)'
    <2>1. \A o \in Unanswered(c) : ov[o].msg \in Nat  BY <1>0, ReplyTypes DEF Unanswered
    <2>2. \A o \in Unanswered(c) : Within(c, ov[o].msg, 0)'
      BY <1>0, <1>2, <2>1 DEF ReplyRule, UnansweredRule, Within
    <2>3. \A o \in Unanswered(c) : IsRequest(c, ov[o].msg)'
      BY <1>0, <1>4 DEF ReplyRule, UnansweredRule, IsRequest
    <2> QED  BY <1>0, <2>2, <2>3 DEF ReplyRule, UnansweredRule
  <1>6. AnsweredRule(c)'
    <2>1. \A k \in DOMAIN answered[c] : answered[c][k] \in Nat  BY <1>0, ReplyTypes
    <2>2. \A k \in DOMAIN answered[c] : Within(c, answered[c][k], 0)'
      BY <1>0, <1>2, <2>1 DEF ReplyRule, AnsweredRule, Within
    <2>3. \A k \in DOMAIN answered[c] : IsRequest(c, answered[c][k])'
      BY <1>0, <1>4 DEF ReplyRule, AnsweredRule, IsRequest
    <2> QED  BY <1>0, <2>2, <2>3 DEF ReplyRule, AnsweredRule
  <1>7. QueueRule(c)'
    <2> SUFFICES ASSUME NEW i \in DOMAIN completions', Message(completions[i], c)'
                 PROVE  /\ Newest(c, ov[completions[i].ov].msg)'
                        /\ Within(c, ov[completions[i].ov].msg, i)'
      BY DEF QueueRule
    <2>1. ASSUME /\ i \in DOMAIN completions /\ completions'[i] = completions[i]
                 /\ ov'[completions[i].ov] = ov[completions[i].ov]
                 /\ Message(completions[i], c)
          PROVE  Newest(c, ov[completions[i].ov].msg)' /\ Within(c, ov[completions[i].ov].msg, i)'
      <3>2. i \in Int /\ ov[completions[i].ov].msg \in Nat
        BY <1>0, <2>1, ReplyTypes
      <3>3. /\ Newest(c, ov[completions[i].ov].msg) /\ Within(c, ov[completions[i].ov].msg, i)
        BY <1>0, <2>1 DEF ReplyRule, QueueRule
      <3>4. Newest(c, ov[completions[i].ov].msg)'  BY <1>4, <2>1, <3>3 DEF Newest
      <3>5. Within(c, ov[completions[i].ov].msg, i)'  BY <1>2, <2>1, <3>2, <3>3 DEF Within
      <3> QED  BY <3>4, <3>5
    <2>2. CASE completions'[i] = x /\ i = Len(completions) + 1
      <3>1. PICK m : m = ov'[x.ov].msg  OBVIOUS
      <3>2. Message(x, c)'  BY <2>2 DEF Message
      <3>3. Newest(c, ov[completions[i].ov].msg)'  BY <2>2, <3>2 DEF Newest
      <3>4. m \in 1 .. received'[c]  BY <3>1, <3>2 DEF Newest
      <3>5. m <= Window + Len(answered'[c])
        BY <1>0, <1>3, <3>4, ReplyTypes DEF ReplyRule, WindowRule
      <3>6. Behind(c, i)' = {}  BY <1>1, <2>2
      <3>7. Within(c, m, i)'
        <4>1. Cardinality({}) = 0 /\ m + 0 = m  BY <3>4, FS_EmptySet
        <4> QED  BY <3>5, <3>6, <4>1 DEF Within
      <3> QED  BY <2>2, <3>1, <3>3, <3>7
    <2> QED  BY <1>1, <2>1, <2>2
  <1>8. ServeRule(c)'
    <2> SUFFICES ASSUME NEW s \in Sessions, at'[s] \in {"dispatch", "send"}, ServedClient(s)' = c
                 PROVE  /\ Newest(c, ov[cur[s].ov].msg)'
                        /\ Within(c, ov[cur[s].ov].msg, 0)'
                        /\ at'[s] = "send" => IsRequest(c, ov[cur[s].ov].msg)'
      BY DEF ServeRule
    <2>1. Holding(s) /\ at'[s] = at[s] /\ ov'[cur'[s].ov] = ov[cur[s].ov]  BY DEF Holding
    <2>2. ServedClient(s) = c  BY <2>1 DEF ServedClient
    <2>3. /\ Newest(c, ov[cur[s].ov].msg) /\ Within(c, ov[cur[s].ov].msg, 0)
          /\ at[s] = "send" => IsRequest(c, ov[cur[s].ov].msg)
      BY <1>0, <2>1, <2>2 DEF ReplyRule, ServeRule
    <2>4. ov[cur[s].ov].msg \in Nat  BY <1>0, <2>1, ServedTyped DEF Contents
    <2>5. Newest(c, ov[cur[s].ov].msg)'  BY <1>4, <2>1, <2>3 DEF Newest
    <2>6. Within(c, ov[cur[s].ov].msg, 0)'  BY <1>2, <2>1, <2>3, <2>4 DEF Within
    <2> QED  BY <1>4, <2>1, <2>3, <2>5, <2>6 DEF IsRequest
  <1> QED  BY <1>0, <1>3, <1>5, <1>6, <1>7, <1>8 DEF ReplyRule

\* An operation of one client completes: nothing changes for the others.
LEMMA OtherReplies ==
  ASSUME ReplyInv, TypeInv', NEW c \in Clients, NEW i \in DOMAIN pending[c],
         NEW key \in Clients \cup {None}, NEW bytes \in Nat, NEW ok \in BOOLEAN,
         Complete(c, i, key, bytes, ok),
         \A p \in Overlappeds : p # pending[c][i] => ov'[p] = ov[p],
         ov'[pending[c][i]].op = ov[pending[c][i]].op, ov'[pending[c][i]].id = ov[pending[c][i]].id,
         NEW d \in Clients \ {c}, key # d,
         asked'[d] = asked[d], received'[d] = received[d], answered'[d] = answered[d]
  PROVE  ReplyRule(d)'
  <1>0. OwnInv /\ TypeInv /\ ReplyRule(d)  BY DEF ReplyInv, ChainInv, OwnInv
  <1>1. PICK x \in Completion :
          x = [ov |-> pending[c][i], key |-> key, bytes |-> bytes, ok |-> ok]
    <2>1. pending[c][i] \in Overlappeds  BY <1>0, ReplyTypes
    <2> QED  BY <2>1 DEF Completion
  <1>2. PICK o \in Overlappeds : o = pending[c][i]  BY <1>0, ReplyTypes
  <1>3. /\ x.ov = o /\ x.key = key /\ o \in AtKernel(c)
        /\ AtKernel(d)' = AtKernel(d) /\ Port' = Port \cup {x} /\ lost' = lost
        /\ completions' = Append(completions, x) /\ UNCHANGED <<at, cur>>
    <2>1. x.ov = o /\ x.key = key  BY <1>1, <1>2
    <2>2. /\ o \in AtKernel(c) /\ \A b \in Clients \ {c} : AtKernel(b)' = AtKernel(b)
          /\ Port' = Port \cup {x} /\ lost' = lost
      BY <1>0, <1>1, <1>2, CompleteMoves
    <2>3. completions' = Append(completions, x) /\ UNCHANGED threads
      BY <1>1 DEF Complete
    <2> QED  BY <2>1, <2>2, <2>3 DEF threads
  <1>4. pending'[d] = pending[d]
    BY <1>0 DEF Complete, TypeInv, TypeOK
  <1>5. /\ o \notin lost /\ o \notin AtPort /\ o \notin AtKernel(d)
        /\ \A s \in Sessions : o \notin HeldBy(s)
    BY <1>0, <1>3 DEF OwnInv, Apart
  <1>6. ov'[o].op = ov[o].op /\ ov'[o].id = ov[o].id /\ \A p \in Overlappeds \ {o} : ov'[p] = ov[p]
    BY <1>2
  <1>7. ~ (ov[o].op = "send" /\ ov[o].id = d)
    BY <1>0, <1>3 DEF OwnInv, Operations, KernelOps
  <1>8. x.key # d  BY <1>3, ServerAssumption
  <1>9. ~ SentOk(x, d)' /\ ~ Message(x, d)'  BY <1>8 DEF SentOk, Message
  <1>10. /\ \A y \in Port : ov'[y.ov] = ov[y.ov]
         /\ \A p \in AtKernel(d) : ov'[p] = ov[p]
         /\ \A s \in Sessions : Holding(s) => ov'[cur[s].ov] = ov[cur[s].ov]
    <2>1. \A y \in Port : y.ov \in Overlappeds \ {o}
      BY <1>0, <1>5, ReplyTypes DEF AtPort
    <2>2. \A p \in AtKernel(d) : p \in Overlappeds \ {o}
      BY <1>0, <1>5, ReplyTypes
    <2>3. \A s \in Sessions : Holding(s) => cur[s].ov \in Overlappeds \ {o}
      BY <1>0, <1>5, ServedTyped DEF HeldBy
    <2> QED  BY <1>6, <2>1, <2>2, <2>3
  <1>11. /\ Unanswered(d)' = Unanswered(d)
         /\ \A p \in Unanswered(d) : ov'[p] = ov[p]
    <2>1. o \notin Unanswered(d) /\ o \notin Unanswered(d)'
      BY <1>6, <1>7 DEF Unanswered
    <2>2. \A p \in Overlappeds \ {o} : p \in Unanswered(d)' <=> p \in Unanswered(d)
      BY <1>3, <1>6 DEF Unanswered
    <2>3. Unanswered(d) \subseteq Overlappeds /\ Unanswered(d)' \subseteq Overlappeds
      BY DEF Unanswered
    <2> QED  BY <1>6, <2>1, <2>2, <2>3
  <1>12. OrderRule(d)'  BY <1>0, <1>4, <1>10, OrderKept DEF ReplyRule
  <1> QED  BY <1>3, <1>9, <1>10, <1>11, <1>12, JoinedKept

\* What else completes for the client than a message or a reply got.
LEMMA QuietCompletion ==
  ASSUME ReplyInv, TypeInv', NEW c \in Clients, NEW i \in DOMAIN pending[c],
         NEW key \in {c, None}, NEW bytes \in Nat, NEW ok \in BOOLEAN,
         Complete(c, i, key, bytes, ok), ~ (ok /\ bytes > 0), ok => ov[pending[c][i]].op # "send",
         UNCHANGED <<ov, asked, received, answered>>
  PROVE  ReplyRule(c)'
  <1>0. OwnInv /\ TypeInv /\ ReplyRule(c)  BY DEF ReplyInv, ChainInv, OwnInv
  <1>1. PICK x \in Completion :
          x = [ov |-> pending[c][i], key |-> key, bytes |-> bytes, ok |-> ok]
    <2>1. pending[c][i] \in Overlappeds  BY <1>0, ReplyTypes
    <2> QED  BY <2>1 DEF Completion
  <1>2. PICK o \in Overlappeds : o = pending[c][i]  BY <1>0, ReplyTypes
  <1>3. /\ x.ov = o /\ x.ok = ok /\ x.bytes = bytes /\ o \in AtKernel(c)
        /\ AtKernel(c)' = AtKernel(c) \ {o} /\ Port' = Port \cup {x} /\ lost' = lost
        /\ completions' = Append(completions, x) /\ UNCHANGED <<at, cur>>
    BY <1>0, <1>1, <1>2, CompleteMoves DEF threads
  <1>4. pending'[c] = RemoveAt(pending[c], i)
    BY <1>0 DEF Complete, TypeInv, TypeOK
  <1>5. ~ SentOk(x, c)' /\ ~ Message(x, c)'  BY <1>2, <1>3 DEF SentOk, Message
  <1>6. Unanswered(c)' = Unanswered(c)
    <2>1. o \notin lost /\ o \notin AtPort  BY <1>0, <1>3 DEF OwnInv, Apart
    <2>2. o \in Unanswered(c)' <=> o \in Unanswered(c)
      BY <1>2, <1>3, <2>1 DEF Unanswered, AtPort
    <2>3. \A p \in Overlappeds \ {o} : p \in Unanswered(c)' <=> p \in Unanswered(c)
      BY <1>3 DEF Unanswered
    <2>4. Unanswered(c) \subseteq Overlappeds /\ Unanswered(c)' \subseteq Overlappeds
      BY DEF Unanswered
    <2> QED  BY <2>2, <2>3, <2>4
  <1>7. OrderRule(c)'  BY <1>0, <1>4, RemovedOrder DEF ReplyRule
  <1> QED  BY <1>3, <1>5, <1>6, <1>7, JoinedKept

\* A receive gets the newest message that has arrived.
LEMMA DeliverReplies ==
  ASSUME ReplyInv, ChainInv', NEW c \in Clients, Deliver(c)  PROVE ReplyInv'
  <1>0. OwnInv /\ TypeInv /\ TypeInv' /\ ReplyRule(c)  BY DEF ReplyInv, ChainInv, OwnInv
  <1>1. PICK n \in received[c] + 1 .. Len(asked[c]), i \in Posted(c, "recv") :
          /\ Complete(c, i, c, n - received[c], TRUE)
          /\ ov' = [ov EXCEPT ![pending[c][i]].msg = received[c] + 1]
          /\ received' = [received EXCEPT ![c] = n]
    BY DEF Deliver
  <1>2. /\ received[c] \in Nat /\ Len(asked[c]) \in Nat /\ n \in Nat
        /\ n - received[c] \in Nat /\ received[c] < n
    BY <1>0, <1>1, ReplyTypes
  <1>3. i \in DOMAIN pending[c] /\ ov[pending[c][i]].op = "recv" /\ UNCHANGED <<asked, answered>>
    BY <1>1 DEF Posted, Deliver
  <1>4. PICK o \in Overlappeds : o = pending[c][i]  BY <1>0, <1>3, ReplyTypes
  <1> DEFINE bytes == n - received[c]
  <1>5. PICK x \in Completion : x = [ov |-> o, key |-> c, bytes |-> bytes, ok |-> TRUE]
    BY <1>2 DEF Completion
  <1>6. /\ x.ov = o /\ o \in AtKernel(c)
        /\ AtKernel(c)' = AtKernel(c) \ {o} /\ Port' = Port \cup {x} /\ lost' = lost
        /\ completions' = Append(completions, x) /\ UNCHANGED <<at, cur>>
    <2>1. bytes \in Nat /\ c \in Clients \cup {None} /\ TRUE \in BOOLEAN /\ i \in DOMAIN pending[c]
      BY <1>2, <1>3
    <2>2. Complete(c, i, c, bytes, TRUE)  BY <1>1
    <2> HIDE DEF bytes
    <2>3. /\ o \in AtKernel(c) /\ AtKernel(c)' = AtKernel(c) \ {o}
          /\ Port' = Port \cup {x} /\ lost' = lost
      BY <1>0, <1>4, <1>5, <2>1, <2>2, CompleteMoves
    <2>4. completions' = Append(completions, x) /\ UNCHANGED threads
      BY <1>4, <1>5, <2>2 DEF Complete
    <2>5. x.ov = o  BY <1>5
    <2> QED  BY <2>3, <2>4, <2>5 DEF threads
  <1>7. /\ ov'[o].op = "recv" /\ ov'[o].id = ov[o].id /\ ov'[o].msg = received[c] + 1
        /\ \A p \in Overlappeds \ {o} : ov'[p] = ov[p]
    BY <1>0, <1>1, <1>3, <1>4 DEF TypeInv, TypeOK
  <1>8. received'[c] = n /\ \A d \in Clients \ {c} : received'[d] = received[d]
    BY <1>0, <1>1 DEF TypeInv, TypeOK
  <1>9. ASSUME NEW d \in Clients \ {c}  PROVE ReplyRule(d)'
    <2>1. /\ bytes \in Nat /\ c \in Clients \cup {None} /\ TRUE \in BOOLEAN /\ i \in DOMAIN pending[c]
          /\ c # d /\ Complete(c, i, c, bytes, TRUE)
      BY <1>1, <1>2, <1>3
    <2> HIDE DEF bytes
    <2>2. /\ asked'[d] = asked[d] /\ received'[d] = received[d] /\ answered'[d] = answered[d]
          /\ \A p \in Overlappeds : p # pending[c][i] => ov'[p] = ov[p]
          /\ ov'[pending[c][i]].op = ov[pending[c][i]].op
          /\ ov'[pending[c][i]].id = ov[pending[c][i]].id
      BY <1>3, <1>4, <1>7, <1>8
    <2>3. PICK ok \in BOOLEAN : ok  OBVIOUS
    <2>4. Complete(c, i, c, bytes, ok)  BY <2>1, <2>3 DEF Complete
    <2> QED  BY <1>0, <2>1, <2>2, <2>4, OtherReplies
  <1>10. /\ o \notin lost /\ o \notin AtPort /\ \A s \in Sessions : o \notin HeldBy(s)
    BY <1>0, <1>6 DEF OwnInv, Apart
  <1>11. /\ Unanswered(c)' = Unanswered(c)
         /\ \A p \in Unanswered(c) : ov'[p] = ov[p]
    <2>1. o \notin Unanswered(c) /\ o \notin Unanswered(c)'
      BY <1>3, <1>4, <1>7 DEF Unanswered
    <2>2. \A p \in Overlappeds \ {o} : p \in Unanswered(c)' <=> p \in Unanswered(c)
      BY <1>6, <1>7 DEF Unanswered
    <2>3. Unanswered(c) \subseteq Overlappeds /\ Unanswered(c)' \subseteq Overlappeds
      BY DEF Unanswered
    <2>4. Unanswered(c)' = Unanswered(c)
      <3>1. ASSUME NEW p \in Unanswered(c)  PROVE p \in Unanswered(c)'
        BY <2>1, <2>2, <2>3
      <3>2. ASSUME NEW p \in Unanswered(c)'  PROVE p \in Unanswered(c)
        BY <2>1, <2>2, <2>3
      <3> QED  BY <3>1, <3>2
    <2> QED  BY <1>7, <2>1, <2>3, <2>4
  <1>12. /\ \A y \in Port : ov'[y.ov] = ov[y.ov]
         /\ \A s \in Sessions : Holding(s) => ov'[cur[s].ov] = ov[cur[s].ov]
    <2>1. \A y \in Port : y.ov \in Overlappeds \ {o}
      BY <1>0, <1>10, ReplyTypes DEF AtPort
    <2>2. \A s \in Sessions : Holding(s) => cur[s].ov \in Overlappeds \ {o}
      BY <1>0, <1>10, ServedTyped DEF HeldBy
    <2> QED  BY <1>7, <2>1, <2>2
  <1>13. OrderRule(c)'
    <2>1. pending'[c] = RemoveAt(pending[c], i)
      BY <1>0, <1>1 DEF Complete, TypeInv, TypeOK
    <2>2. \A p \in AtKernel(c) : /\ ov'[p].op = ov[p].op
                                 /\ ov[p].op = "send" => ov'[p].msg = ov[p].msg
      <3>1. AtKernel(c) \subseteq Overlappeds  BY <1>0, ReplyTypes
      <3> QED  BY <1>3, <1>4, <1>7, <3>1
    <2> QED  BY <1>0, <1>3, <2>1, <2>2, RemovedOrder DEF ReplyRule
  <1>14. ~ SentOk(x, c)'  BY <1>6, <1>7 DEF SentOk
  <1>15. Newest(c, ov[x.ov].msg)'
    <2>1. \A p \in Unanswered(c) : ov[p].msg \in 1 .. received[c]
      BY <1>0 DEF ReplyRule, UnansweredRule, IsRequest
    <2>2. \A k \in DOMAIN answered[c] : answered[c][k] \in 1 .. received[c]
      BY <1>0 DEF ReplyRule, AnsweredRule, IsRequest
    <2>3. PICK m : m = received[c] + 1  OBVIOUS
    <2>4. \A p \in Unanswered(c)' : ov'[p].msg < m  BY <1>2, <1>11, <2>1, <2>3
    <2>5. \A k \in DOMAIN answered'[c] : answered'[c][k] < m  BY <1>2, <1>3, <2>2, <2>3
    <2>6. m \in 1 .. received'[c]  BY <1>2, <1>8, <2>3
    <2> QED  BY <1>6, <1>7, <2>3, <2>4, <2>5, <2>6 DEF Newest
  <1>16. received'[c] \in received[c] .. Len(asked[c])  BY <1>1, <1>2, <1>8
  <1>17. ReplyRule(c)'
    BY <1>0, <1>3, <1>6, <1>11, <1>12, <1>13, <1>14, <1>15, <1>16, JoinedKept
  <1> QED  BY <1>9, <1>17 DEF ReplyInv

\* The peer gets the oldest reply that the kernel holds for it.
LEMMA TransmitReplies ==
  ASSUME ReplyInv, ChainInv', NEW c \in Clients, Transmit(c)  PROVE ReplyInv'
  <1>0. OwnInv /\ TypeInv /\ TypeInv' /\ ReplyRule(c)  BY DEF ReplyInv, ChainInv, OwnInv
  <1>1. PICK i \in Posted(c, "send"), ok \in BOOLEAN :
          /\ Oldest(c, "send", i) /\ Complete(c, i, c, 1, ok) /\ ok
          /\ answered' = [answered EXCEPT ![c] = Append(@, ov[pending[c][i]].msg)]
    BY DEF Transmit
  <1>2. /\ i \in DOMAIN pending[c] /\ ov[pending[c][i]].op = "send"
        /\ UNCHANGED <<ov, asked, received>>
    BY <1>1 DEF Posted, Transmit
  <1>3. PICK o \in Overlappeds : o = pending[c][i]  BY <1>0, <1>2, ReplyTypes
  <1>4. PICK m \in Nat : m = ov[o].msg  BY <1>0, ReplyTypes
  <1>5. PICK x \in Completion : x = [ov |-> o, key |-> c, bytes |-> 1, ok |-> ok]
    BY DEF Completion
  <1>6. /\ x.ov = o /\ x.key = c /\ x.ok = ok /\ o \in AtKernel(c)
        /\ AtKernel(c)' = AtKernel(c) \ {o} /\ Port' = Port \cup {x} /\ lost' = lost
        /\ completions' = Append(completions, x) /\ UNCHANGED <<at, cur>>
    <2>1. c \in Clients \cup {None} /\ 1 \in Nat /\ Complete(c, i, c, 1, ok)  BY <1>1
    <2>2. /\ o \in AtKernel(c) /\ AtKernel(c)' = AtKernel(c) \ {o}
          /\ Port' = Port \cup {x} /\ lost' = lost
      BY <1>0, <1>2, <1>3, <1>5, <2>1, CompleteMoves
    <2>3. completions' = Append(completions, x) /\ UNCHANGED threads
      BY <1>3, <1>5, <2>1 DEF Complete
    <2>4. x.ov = o /\ x.key = c /\ x.ok = ok  BY <1>5
    <2> QED  BY <2>2, <2>3, <2>4 DEF threads
  <1>7. /\ answered'[c] = Append(answered[c], m)
        /\ \A d \in Clients \ {c} : answered'[d] = answered[d]
    BY <1>0, <1>1, <1>3, <1>4 DEF TypeInv, TypeOK
  <1>8. ASSUME NEW d \in Clients \ {c}  PROVE ReplyRule(d)'
    <2>1. /\ c \in Clients \cup {None} /\ 1 \in Nat /\ i \in DOMAIN pending[c] /\ c # d
          /\ Complete(c, i, c, 1, ok)
      BY <1>1, <1>2
    <2> QED  BY <1>0, <1>2, <1>7, <2>1, OtherReplies
  <1>9. PICK n \in Nat : n = Len(answered[c])  BY <1>0, ReplyTypes
  <1>10. /\ DOMAIN answered[c] = 1 .. n /\ DOMAIN answered'[c] = 1 .. n + 1
         /\ Len(answered'[c]) = n + 1 /\ answered'[c][n + 1] = m
         /\ \A k \in 1 .. n : answered'[c][k] = answered[c][k]
         /\ Range(answered'[c]) = Range(answered[c]) \cup {m}
    <2>1. answered[c] \in Seq(Nat)  BY <1>0 DEF TypeInv, TypeOK
    <2> QED  BY <1>7, <1>9, <2>1, AppendProperties, LenProperties, AppendElements
  <1>11. o \notin lost /\ o \notin AtPort  BY <1>0, <1>6 DEF OwnInv, Apart
  <1>12. /\ Unanswered(c)' = Unanswered(c) \ {o} /\ o \in Unanswered(c)
    <2>1. o \in Unanswered(c)
      BY <1>0, <1>2, <1>3, <1>6 DEF Unanswered, OwnInv, Operations, KernelOps
    <2>2. o \notin Unanswered(c)'
      BY <1>1, <1>6, <1>11 DEF Unanswered, AtPort
    <2>3. \A p \in Overlappeds \ {o} : p \in Unanswered(c)' <=> p \in Unanswered(c)
      BY <1>1, <1>2, <1>6 DEF Unanswered
    <2>4. Unanswered(c) \subseteq Overlappeds /\ Unanswered(c)' \subseteq Overlappeds
      BY DEF Unanswered
    <2> QED  BY <2>1, <2>2, <2>3, <2>4
  <1>13. /\ \A j \in DOMAIN completions' :
              \/ /\ j \in DOMAIN completions /\ completions'[j] = completions[j]
                 /\ Message(completions[j], c)' <=> Message(completions[j], c)
              \/ j = Len(completions) + 1 /\ completions'[j] = x
         /\ \A j \in Int : Behind(c, j)' \subseteq Behind(c, j) \cup {o}
    BY <1>0, <1>2, <1>6, JoinedQueue
  <1>14. ASSUME NEW k \in Nat, NEW j \in Int, Within(c, k, j)  PROVE Within(c, k, j)'
    <2>1. IsFiniteSet(Behind(c, j)) /\ Cardinality(Behind(c, j)) \in Nat
      BY <1>0, BehindType
    <2>2. IsFiniteSet({o}) /\ Cardinality({o}) = 1  BY FS_Singleton
    <2>3. /\ Cardinality(Behind(c, j)') \in Nat
          /\ Cardinality(Behind(c, j)') <= Cardinality(Behind(c, j)) + 1
      <3>1. PICK B : B = Behind(c, j)'  OBVIOUS
      <3>2. B \subseteq Behind(c, j) \cup {o}  BY <1>13, <3>1
      <3> QED  BY <2>1, <2>2, <3>1, <3>2, Covered
    <2>4. k + Cardinality(Behind(c, j)) <= Window + n  BY <1>9, <1>14 DEF Within
    <2>5. k + Cardinality(Behind(c, j)') <= Window + (n + 1)
      BY <2>1, <2>3, <2>4, ServerAssumption
    <2> QED  BY <1>10, <2>5 DEF Within
  <1>15. \A k : IsRequest(c, k)' <=> IsRequest(c, k)  BY <1>2 DEF IsRequest
  <1>16. ASSUME NEW k, Newest(c, k)  PROVE Newest(c, k)'
    <2>1. m < k  BY <1>4, <1>12, <1>16 DEF Newest
    <2>2. \A j \in 1 .. n + 1 : answered'[c][j] < k
      <3>1. \A j \in 1 .. n : answered'[c][j] < k  BY <1>10, <1>16 DEF Newest
      <3> QED  BY <1>10, <2>1, <3>1
    <2> QED  BY <1>2, <1>10, <1>12, <1>16, <2>2 DEF Newest
  <1>17. WindowRule(c)'
    BY <1>0, <1>2, <1>9, <1>10, ReplyTypes DEF ReplyRule, WindowRule
  <1>18. UnansweredRule(c)'
    <2>1. \A p \in Unanswered(c) : ov[p].msg \in Nat  BY <1>0, ReplyTypes DEF Unanswered
    <2>2. \A p \in Unanswered(c) : Within(c, ov[p].msg, 0)'
      BY <1>0, <1>2, <1>14, <2>1 DEF ReplyRule, UnansweredRule, Within
    <2>3. \A p \in Unanswered(c) : IsRequest(c, ov[p].msg)'
      BY <1>0, <1>2 DEF ReplyRule, UnansweredRule, IsRequest
    <2>4. \A p \in Unanswered(c)' : ov'[p].msg \notin Range(answered'[c])
      BY <1>0, <1>2, <1>4, <1>10, <1>12 DEF ReplyRule, UnansweredRule
    <2>5. \A a, b \in Unanswered(c)' : ov'[a].msg = ov'[b].msg => a = b
      BY <1>0, <1>2, <1>12 DEF ReplyRule, UnansweredRule
    <2> QED  BY <1>12, <2>2, <2>3, <2>4, <2>5 DEF UnansweredRule
  <1>19. OrderRule(c)'
    <2>1. pending'[c] = RemoveAt(pending[c], i)
      BY <1>0, <1>1 DEF Complete, TypeInv, TypeOK
    <2>2. /\ \A j, k \in DOMAIN pending'[c] :
               j < k /\ ov'[pending'[c][j]].op = "send" /\ ov'[pending'[c][k]].op = "send"
                 => ov'[pending'[c][j]].msg < ov'[pending'[c][k]].msg
          /\ \A j \in DOMAIN pending'[c] : \E k \in DOMAIN pending[c] \ {i} :
               pending'[c][j] = pending[c][k]
      BY <1>0, <1>2, <2>1, RemovedOrder DEF ReplyRule
    <2>3. ASSUME NEW j \in DOMAIN pending'[c], ov'[pending'[c][j]].op = "send"
          PROVE  \A k \in DOMAIN answered'[c] : answered'[c][k] < ov'[pending'[c][j]].msg
      <3>1. PICK k \in DOMAIN pending[c] \ {i} : pending'[c][j] = pending[c][k]  BY <2>2
      <3>2. ov[pending[c][k]].op = "send" /\ ov'[pending'[c][j]] = ov[pending[c][k]]
        BY <1>2, <2>3, <3>1
      <3>3. i < k
        <4>1. i <= k  BY <1>1, <3>2 DEF Oldest, Posted
        <4>2. i \in Nat /\ k \in Nat /\ i # k  BY <1>0, <1>2, ReplyTypes
        <4> QED  BY <4>1, <4>2
      <3>4. m < ov[pending[c][k]].msg
        BY <1>0, <1>2, <1>3, <1>4, <3>2, <3>3 DEF ReplyRule, OrderRule
      <3>5. \A l \in 1 .. n : answered[c][l] < ov[pending[c][k]].msg
        BY <1>0, <1>10, <3>2 DEF ReplyRule, OrderRule
      <3>6. \A l \in 1 .. n + 1 : l \in 1 .. n \/ l = n + 1  OBVIOUS
      <3> QED  BY <1>10, <3>2, <3>4, <3>5, <3>6
    <2> QED  BY <2>2, <2>3 DEF OrderRule
  <1>20. AnsweredRule(c)'
    <2>1. \A k \in 1 .. n : answered[c][k] \in Nat /\ answered[c][k] < m
      BY <1>0, <1>2, <1>3, <1>4, <1>10, ReplyTypes DEF ReplyRule, OrderRule
    <2>2. IsRequest(c, m) /\ Within(c, m, 0)
      BY <1>0, <1>4, <1>12 DEF ReplyRule, UnansweredRule
    <2>3. \A k \in 1 .. n : IsRequest(c, answered[c][k]) /\ Within(c, answered[c][k], 0)
      BY <1>0, <1>10 DEF ReplyRule, AnsweredRule
    <2>4. \A k \in 1 .. n + 1 : k \in 1 .. n \/ k = n + 1  OBVIOUS
    <2>5. ASSUME NEW k \in DOMAIN answered'[c]
          PROVE  IsRequest(c, answered[c][k])' /\ Within(c, answered[c][k], 0)'
      <3>1. PICK v \in Nat : v = answered'[c][k] /\ IsRequest(c, v) /\ Within(c, v, 0)
        BY <1>10, <2>1, <2>2, <2>3, <2>4
      <3>2. IsRequest(c, v)' /\ Within(c, v, 0)'  BY <1>14, <1>15, <3>1
      <3> QED  BY <3>1, <3>2
    <2>6. ASSUME NEW j \in DOMAIN answered'[c], NEW k \in DOMAIN answered'[c], j < k
          PROVE  answered'[c][j] < answered'[c][k]
      <3>1. j \in 1 .. n  BY <1>10, <2>6
      <3>2. CASE k \in 1 .. n
        BY <1>0, <1>10, <2>6, <3>1, <3>2 DEF ReplyRule, AnsweredRule
      <3>3. CASE k = n + 1  BY <1>10, <2>1, <3>1, <3>3
      <3> QED  BY <1>10, <2>4, <3>2, <3>3
    <2> QED  BY <2>5, <2>6 DEF AnsweredRule
  <1>21. QueueRule(c)'
    <2> SUFFICES ASSUME NEW j \in DOMAIN completions', Message(completions[j], c)'
                 PROVE  /\ Newest(c, ov[completions[j].ov].msg)'
                        /\ Within(c, ov[completions[j].ov].msg, j)'
      BY DEF QueueRule
    <2>1. completions'[j] # x  BY <1>2, <1>3, <1>6 DEF Message
    <2>2. /\ j \in DOMAIN completions /\ completions'[j] = completions[j]
          /\ Message(completions[j], c)
      BY <1>13, <2>1
    <2>3. PICK k \in Nat : k = ov[completions[j].ov].msg
      BY <1>0, <2>2, ReplyTypes
    <2>4. Newest(c, k) /\ Within(c, k, j) /\ j \in Int
      BY <1>0, <2>2, <2>3, ReplyTypes DEF ReplyRule, QueueRule
    <2>5. Newest(c, k)' /\ Within(c, k, j)'  BY <1>14, <1>16, <2>4
    <2> QED  BY <1>2, <2>2, <2>3, <2>5
  <1>22. ServeRule(c)'
    <2> SUFFICES ASSUME NEW s \in Sessions, at'[s] \in {"dispatch", "send"}, ServedClient(s)' = c
                 PROVE  /\ Newest(c, ov[cur[s].ov].msg)'
                        /\ Within(c, ov[cur[s].ov].msg, 0)'
                        /\ at'[s] = "send" => IsRequest(c, ov[cur[s].ov].msg)'
      BY DEF ServeRule
    <2>1. Holding(s) /\ at'[s] = at[s] /\ cur'[s] = cur[s]  BY <1>6 DEF Holding
    <2>2. ServedClient(s) = c  BY <1>2, <2>1 DEF ServedClient
    <2>3. PICK k \in Nat : k = ov[cur[s].ov].msg
      BY <1>0, <2>1, ServedTyped DEF Contents
    <2>4. Newest(c, k) /\ Within(c, k, 0) /\ (at[s] = "send" => IsRequest(c, k))
      BY <1>0, <2>1, <2>2, <2>3 DEF ReplyRule, ServeRule
    <2>5. Newest(c, k)' /\ Within(c, k, 0)' /\ (at[s] = "send" => IsRequest(c, k)')
      BY <1>14, <1>15, <1>16, <2>4
    <2> QED  BY <1>2, <2>1, <2>3, <2>5
  <1>23. ReplyRule(c)'
    BY <1>17, <1>18, <1>19, <1>20, <1>21, <1>22 DEF ReplyRule
  <1> QED  BY <1>8, <1>23 DEF ReplyInv

\* Every step keeps the replies: the kernel's,
LEMMA KernelReplies == ASSUME ReplyInv, NEW c \in Clients, KernelStep(c)  PROVE ReplyInv'
  <1>0. ChainInv' /\ TypeInv'
    <2>1. ChainInv'  BY KernelChained DEF ReplyInv
    <2> QED  BY <2>1 DEF ChainInv, OwnInv
  <1>1. ASSUME NEW i \in DOMAIN pending[c], NEW key \in {c, None}, NEW ok \in BOOLEAN,
               Complete(c, i, key, 0, ok), ok => ov[pending[c][i]].op # "send",
               UNCHANGED <<ov, asked, received, answered>>
        PROVE  ReplyInv'
    <2>1. 0 \in Nat /\ ~ (ok /\ 0 > 0) /\ key \in Clients \cup {None}  OBVIOUS
    <2>2. ReplyRule(c)'  BY <1>0, <1>1, <2>1, QuietCompletion
    <2>3. ASSUME NEW d \in Clients \ {c}  PROVE ReplyRule(d)'
      <3>1. key # d  BY ServerAssumption
      <3> QED  BY <1>0, <1>1, <2>1, <3>1, OtherReplies
    <2> QED  BY <1>0, <2>2, <2>3 DEF ReplyInv
  <1>2. CASE Connect(c) \/ ConnectFails(c)
    <2>1. PICK i \in Posted(c, "accept"), ok \in BOOLEAN : Complete(c, i, None, 0, ok)
      BY <1>2 DEF Connect, ConnectFails
    <2>2. /\ i \in DOMAIN pending[c] /\ ov[pending[c][i]].op = "accept"
          /\ UNCHANGED <<ov, asked, received, answered>>
      BY <1>2, <2>1 DEF Posted, Connect, ConnectFails
    <2> QED  BY <1>1, <2>1, <2>2
  <1>3. CASE DeliverEnd(c) \/ Abort(c)
    <2>1. PICK i \in DOMAIN pending[c], ok \in BOOLEAN :
            /\ Complete(c, i, c, 0, ok)
            /\ ok => ov[pending[c][i]].op # "send"
      <3>1. CASE DeliverEnd(c)
        <4>1. PICK i \in Posted(c, "recv") : Complete(c, i, c, 0, TRUE)
          BY <3>1 DEF DeliverEnd
        <4>2. i \in DOMAIN pending[c] /\ ov[pending[c][i]].op # "send"
          BY <4>1 DEF Posted
        <4> QED  BY <4>1, <4>2
      <3>2. CASE Abort(c)  BY <3>2 DEF Abort
      <3> QED  BY <1>3, <3>1, <3>2
    <2>2. UNCHANGED <<ov, asked, received, answered>>
      BY <1>3 DEF DeliverEnd, Abort, peers
    <2> QED  BY <1>1, <2>1, <2>2
  <1>4. CASE Deliver(c)  BY <1>0, <1>4, DeliverReplies
  <1>5. CASE Transmit(c)  BY <1>0, <1>5, TransmitReplies
  <1> QED  BY <1>2, <1>3, <1>4, <1>5 DEF KernelStep

\* the peer's,
LEMMA PeerReplies == ASSUME ReplyInv, NEW c \in Clients, PeerStep(c)  PROVE ReplyInv'
  <1>0. ChainInv' /\ TypeInv' /\ OwnInv /\ TypeInv
    <2>1. ChainInv'  BY PeerChained DEF ReplyInv
    <2> QED  BY <2>1 DEF ChainInv, OwnInv, ReplyInv
  <1>1. ASSUME NEW kind \in {"request", "unknown"}, Ask(c, kind)  PROVE ReplyInv'
    <2>1. /\ UNCHANGED <<lost, ov, pending, completions, at, cur, received, answered>>
          /\ asked' = [asked EXCEPT ![c] = Append(@, kind)]
          /\ Len(asked[c]) - Len(answered[c]) < Window
      BY <1>1 DEF Ask, objects, kernel, threads
    <2>2. /\ asked'[c] = Append(asked[c], kind)
          /\ \A d \in Clients \ {c} : asked'[d] = asked[d]
      BY <1>0, <2>1 DEF TypeInv, TypeOK
    <2>3. /\ Len(asked'[c]) = Len(asked[c]) + 1
          /\ \A m \in 1 .. Len(asked[c]) : asked'[c][m] = asked[c][m]
      <3>1. asked[c] \in Seq({"request", "unknown"})  BY <1>0 DEF TypeInv, TypeOK
      <3> QED  BY <2>2, <3>1, AppendProperties
    <2>4. /\ Port' = Port /\ \A d \in Clients : AtKernel(d)' = AtKernel(d)
          /\ \A d \in Clients : Unanswered(d)' = Unanswered(d)
      BY <2>1 DEF Port, AtKernel, Unanswered
    <2>5. ASSUME NEW d \in Clients \ {c}  PROVE ReplyRule(d)'
      <3>1. \A s \in Sessions : at'[s] \in {"dispatch", "send"} =>
              /\ at[s] \in {"dispatch", "send"} /\ cur'[s] = cur[s]
              /\ ov'[cur[s].ov] = ov[cur[s].ov]
              /\ at'[s] = "send" => at[s] = "send" \/ MessageKind(s) = "request"
        BY <2>1
      <3> QED  BY <1>0, <2>1, <2>2, <2>4, <3>1, RuleKept
    <2>6. ReplyRule(c)'
      <3>0. ReplyRule(c)  BY DEF ReplyInv
      <3>1. /\ Window \in Nat /\ received[c] \in Nat
            /\ Len(asked[c]) \in Nat /\ Len(answered[c]) \in Nat
        BY <1>0, ReplyTypes
      <3>2. WindowRule(c)'
        <4>1. received[c] <= Len(asked[c])  BY <3>0 DEF ReplyRule, WindowRule
        <4>2. /\ received[c] <= Len(asked[c]) + 1
              /\ Len(asked[c]) + 1 <= Window + Len(answered[c])
          <5>1. PICK r \in Nat, a \in Nat, n \in Nat :
                  r = received[c] /\ a = Len(asked[c]) /\ n = Len(answered[c])
            BY <3>1
          <5>2. a - n < Window  BY <2>1, <5>1
          <5>3. a + 1 <= Window + n
            <6>1. Window \in Nat  BY ServerAssumption
            <6> QED  BY <5>2, <6>1
          <5>4. r <= a + 1  BY <4>1, <5>1
          <5> QED  BY <5>1, <5>3, <5>4
        <4>3. received'[c] = received[c] /\ answered'[c] = answered[c]  BY <2>1
        <4> QED  BY <2>3, <4>2, <4>3 DEF WindowRule
      <3>3. \A m : IsRequest(c, m) => IsRequest(c, m)'
        BY <2>1, <2>3, <3>0, <3>1 DEF ReplyRule, WindowRule, IsRequest
      <3>4. \A m : Newest(c, m)' <=> Newest(c, m)  BY <2>1, <2>4 DEF Newest
      <3>5. \A m, i : Within(c, m, i)' <=> Within(c, m, i)
        BY <2>1 DEF Within, Behind, SentOk
      <3>6. UnansweredRule(c)'
        <4>1. \A o \in Unanswered(c) : /\ IsRequest(c, ov[o].msg)'
                                       /\ Within(c, ov[o].msg, 0)'
          <5>1. ASSUME NEW o \in Unanswered(c)
                PROVE  IsRequest(c, ov[o].msg)' /\ Within(c, ov[o].msg, 0)'
            <6>1. PICK m : m = ov[o].msg  OBVIOUS
            <6>2. IsRequest(c, m) /\ Within(c, m, 0)
              BY <3>0, <6>1 DEF ReplyRule, UnansweredRule
            <6> QED  BY <2>1, <3>3, <3>5, <6>1, <6>2
          <5> QED  BY <5>1
        <4> QED  BY <2>1, <2>4, <3>0, <4>1 DEF ReplyRule, UnansweredRule
      <3>7. OrderRule(c)'  BY <2>1, <3>0 DEF ReplyRule, OrderRule
      <3>8. AnsweredRule(c)'
        <4>1. ASSUME NEW k \in DOMAIN answered[c]
              PROVE  IsRequest(c, answered[c][k])' /\ Within(c, answered[c][k], 0)'
          <5>1. PICK m : m = answered[c][k]  OBVIOUS
          <5>2. IsRequest(c, m) /\ Within(c, m, 0)
            BY <3>0, <5>1 DEF ReplyRule, AnsweredRule
          <5> QED  BY <2>1, <3>3, <3>5, <5>1, <5>2
        <4> QED  BY <2>1, <3>0, <4>1 DEF ReplyRule, AnsweredRule
      <3>9. QueueRule(c)'
        BY <2>1, <3>0, <3>4, <3>5 DEF ReplyRule, QueueRule, Message
      <3>10. ServeRule(c)'
        <4> SUFFICES ASSUME NEW s \in Sessions, at'[s] \in {"dispatch", "send"}, ServedClient(s)' = c
                     PROVE  /\ Newest(c, ov[cur[s].ov].msg)'
                            /\ Within(c, ov[cur[s].ov].msg, 0)'
                            /\ at'[s] = "send" => IsRequest(c, ov[cur[s].ov].msg)'
          BY DEF ServeRule
        <4>1. at[s] \in {"dispatch", "send"} /\ ServedClient(s) = c
          BY <2>1 DEF ServedClient
        <4>2. PICK m : m = ov[cur[s].ov].msg  OBVIOUS
        <4>3. Newest(c, m) /\ Within(c, m, 0) /\ (at[s] = "send" => IsRequest(c, m))
          BY <3>0, <4>1, <4>2 DEF ReplyRule, ServeRule
        <4>4. Newest(c, m)' /\ Within(c, m, 0)' /\ (at[s] = "send" => IsRequest(c, m)')
          BY <3>3, <3>4, <3>5, <4>3
        <4> QED  BY <2>1, <4>2, <4>4
      <3> QED  BY <3>2, <3>6, <3>7, <3>8, <3>9, <3>10 DEF ReplyRule
    <2> QED  BY <1>0, <2>5, <2>6 DEF ReplyInv
  <1>2. ASSUME NEW how \in {"fin", "rst"}, Hangup(c, how)  PROVE ReplyInv'
    <2>1. UNCHANGED <<lost, ov, pending, completions, at, cur, asked, received, answered>>
      BY <1>2 DEF Hangup, objects, kernel, threads
    <2> QED  BY <1>0, <2>1, QuietReplies
  <1> QED  BY <1>1, <1>2 DEF PeerStep

\* the main thread's,
LEMMA MainReplies == ASSUME ReplyInv, MainStep  PROVE ReplyInv'
  <1>0. ChainInv' /\ TypeInv' /\ OwnInv /\ TypeInv
    <2>1. ChainInv'  BY MainChains DEF ReplyInv
    <2> QED  BY <2>1 DEF ChainInv, OwnInv, ReplyInv
  <1>1. CASE Initialize
    <2>1. /\ UNCHANGED <<ov, pending, completions, at, cur, asked, received, answered>>
          /\ ~ Started
      BY <1>1 DEF Initialize, kernel, peers, Started
    <2>2. \A o \in Overlappeds : ov[o].op = "default"
      <3>1. ov = [o \in Overlappeds |-> Cleared]  BY <1>0, <2>1 DEF OwnInv, Unstarted
      <3> QED  BY <3>1 DEF Cleared
    <2>3. \A d \in Clients : Unanswered(d) = {} /\ Unanswered(d)' = {}
      BY <2>1, <2>2 DEF Unanswered
    <2>4. ASSUME NEW d \in Clients  PROVE ReplyRule(d)'
      <3>1. \A s \in Sessions : at'[s] \in {"dispatch", "send"} =>
              /\ at[s] \in {"dispatch", "send"} /\ cur'[s] = cur[s]
              /\ ov'[cur[s].ov] = ov[cur[s].ov]
              /\ at'[s] = "send" => at[s] = "send" \/ MessageKind(s) = "request"
        BY <2>1
      <3> QED  BY <1>0, <2>1, <2>3, <3>1, RuleKept
    <2> QED  BY <1>0, <2>4 DEF ReplyInv
  <1>2. CASE InitializeFails \/ ReadyWithoutClients \/ AcceptsPosted \/ ReadySuccess
             \/ SetSendCallback
    <2>1. UNCHANGED <<lost, ov, pending, completions, at, cur, asked, received, answered>>
      BY <1>2 DEF InitializeFails, ReadyWithoutClients, AcceptsPosted, ReadySuccess,
                  SetSendCallback, objects, kernel, peers
    <2> QED  BY <1>0, <2>1, QuietReplies
  <1>3. ASSUME NEW s \in Sessions, SpawnSession(s)  PROVE ReplyInv'
    <2>1. /\ UNCHANGED <<lost, ov, pending, completions, cur, asked, received, answered>>
          /\ at' = [at EXCEPT ![s] = "wait"]
      BY <1>3 DEF SpawnSession, objects, kernel, peers
    <2>2. \A r \in Sessions : at'[r] \in {"dispatch", "send"} => at'[r] = at[r]
      BY <1>0, <2>1 DEF TypeInv, TypeOK
    <2> QED  BY <1>0, <2>1, <2>2, QuietReplies
  <1>4. ASSUME NEW c \in Clients, AcceptSocketError(c)  PROVE ReplyInv'
    <2>1. UNCHANGED <<lost, ov, pending, completions, at, cur, asked, received, answered>>
      BY <1>4 DEF AcceptSocketError, objects, kernel, threads
    <2> QED  BY <1>0, <2>1, QuietReplies
  <1>5. ASSUME NEW c \in Clients, AcceptReady(c) \/ AcceptRefused(c)  PROVE ReplyInv'
    <2> DEFINE contents == [op |-> "accept", id |-> c, msg |-> 0]
    <2>1. contents \in Contents /\ contents.op # "send"  BY DEF Contents
    <2>2. /\ Post(c, contents) \/ PostRefused(contents)
          /\ UNCHANGED <<asked, received, answered, cur, at>>
      BY <1>5 DEF AcceptReady, AcceptRefused, threads
    <2> HIDE DEF contents
    <2> QED  BY <1>0, <2>1, <2>2, PostReplies
  <1> QED  BY <1>1, <1>2, <1>3, <1>4, <1>5 DEF MainStep

\* and a session thread's.
LEMMA SessionReplies == ASSUME ReplyInv, NEW s \in Sessions, SessionStep(s)  PROVE ReplyInv'
  <1>0. ChainInv' /\ TypeInv' /\ OwnInv /\ TypeInv
    <2>1. ChainInv'  BY SessionChained DEF ReplyInv
    <2> QED  BY <2>1 DEF ChainInv, OwnInv, ReplyInv
  <1>1. CASE TakeAccepted(s) \/ TakeDisconnect(s)
    <2>1. Take(s, "rearm") /\ "rearm" # "dispatch"  BY <1>1 DEF TakeAccepted, TakeDisconnect
    <2> QED  BY <1>0, <2>1, TakeReplies
  <1>2. CASE TakeMessage(s)  BY <1>0, <1>2, TakeReplies DEF TakeMessage
  <1>3. CASE TakeSent(s)
    <2>1. Take(s, "recycle") /\ "recycle" # "dispatch"  BY <1>3 DEF TakeSent
    <2> QED  BY <1>0, <2>1, TakeReplies
  <1>4. CASE TakeFailed(s)  BY <1>0, <1>4, FailedReplies
  <1>5. CASE DispatchRequest(s)
    <2>1. /\ UNCHANGED <<lost, ov, pending, completions, cur, asked, received, answered>>
          /\ at[s] = "dispatch" /\ at' = [at EXCEPT ![s] = "send"] /\ MessageKind(s) = "request"
      BY <1>5 DEF DispatchRequest, Goto, objects, kernel, peers
    <2>2. \A r \in Sessions : r # s => at'[r] = at[r]  BY <1>0, <2>1 DEF TypeInv, TypeOK
    <2>3. \A r \in Sessions : at'[r] \in {"dispatch", "send"} =>
            /\ at[r] \in {"dispatch", "send"} /\ cur'[r] = cur[r]
            /\ at'[r] = "send" => at[r] = "send" \/ MessageKind(r) = "request"
      BY <2>1, <2>2
    <2> QED  BY <1>0, <2>1, <2>3, QuietReplies
  <1>6. CASE DispatchUnknown(s) \/ DispatchEmptyCallback(s) \/ PopNull(s) \/ ReceiveSocketError(s)
    <2>1. /\ UNCHANGED <<lost, ov, pending, completions, cur, asked, received, answered>>
          /\ at' = at \/ at' = [at EXCEPT ![s] = "rearm"] \/ at' = [at EXCEPT ![s] = "recycle"]
      BY <1>6 DEF DispatchUnknown, DispatchEmptyCallback, PopNull, PopNothing, ReceiveSocketError,
                  Goto, objects, kernel, peers
    <2>2. \A r \in Sessions : at'[r] \in {"dispatch", "send"} => at'[r] = at[r]
      BY <1>0, <2>1 DEF TypeInv, TypeOK
    <2> QED  BY <1>0, <2>1, <2>2, QuietReplies
  <1>7. CASE SendPosted(s) \/ SendRefused(s)  BY <1>0, <1>7, SendReplies
  <1>8. CASE ReceivePosted(s) \/ ReceiveRefused(s)
    <2> DEFINE contents == [Cleared EXCEPT !.op = "recv"]
    <2>1. contents \in Contents /\ contents.op # "send"  BY DEF Contents, Cleared
    <2>2. /\ at[s] = "rearm" /\ at' = [at EXCEPT ![s] = "recycle"]
          /\ Post(ServedClient(s), contents) \/ PostRefused(contents)
          /\ UNCHANGED <<asked, received, answered, cur>>
      BY <1>8 DEF ReceivePosted, ReceiveRefused, Goto, peers
    <2>3. PICK c \in Clients : c = ServedClient(s)
      BY <1>0, <2>2, ServedKnown DEF Holding
    <2> HIDE DEF contents
    <2>4. \A r \in Sessions : at'[r] \in {"dispatch", "send"} => at'[r] = at[r]
      BY <1>0, <2>2 DEF TypeInv, TypeOK
    <2> QED  BY <1>0, <2>1, <2>2, <2>3, <2>4, PostReplies
  <1>9. CASE Recycle(s)  BY <1>0, <1>9, RecycleReplies
  <1> QED
    BY <1>1, <1>2, <1>3, <1>4, <1>5, <1>6, <1>7, <1>8, <1>9 DEF SessionStep

\* Every step keeps the rules of the replies.
LEMMA ReplyStep == ReplyInv /\ [Next]_vars => ReplyInv'
  <1> SUFFICES ASSUME ReplyInv, [Next]_vars  PROVE ReplyInv'  OBVIOUS
  <1>1. CASE UNCHANGED vars
    <2>1. ChainInv'  BY <1>1, ChainStep DEF ReplyInv
    <2>2. UNCHANGED <<lost, ov, pending, completions, at, cur, asked, received, answered>>
      BY <1>1 DEF vars, objects, kernel, threads, peers
    <2> QED  BY <2>1, <2>2, QuietReplies
  <1>2. CASE Next  BY <1>2, MainReplies, SessionReplies, KernelReplies, PeerReplies DEF Next
  <1> QED  BY <1>1, <1>2

\* The rules of replies always hold.
LEMMA ReplyInvHolds == Spec => []ReplyInv
  BY ReplyInit, ReplyStep, PTL DEF Spec

\* A peer gets replies only to its own requests, each once, in the order it
\* asked, although any session thread may handle any of them, the kernel
\* completes operations of different kinds in any order, and threads take the
\* completions as they come (Session.cpp:92-96, NetworkManager.cpp:151-168).
THEOREM RepliesOrdered == Spec => []RepliesInOrder
  <1>1. ASSUME ReplyInv  PROVE RepliesInOrder
    BY <1>1 DEF RepliesInOrder, ReplyInv, ReplyRule, AnsweredRule, IsRequest
  <1> QED  BY <1>1, ReplyInvHolds, PTL

-----------------------------------------------------------------------------
(* Leaks.  A lost overlapped is the one that the ring refused, a chain of a *)
(* socket that is not accepted again, or a reply of a last window.          *)

Spares      == {o \in lost : ov[o].op = "default"}
LostChains  == {o \in lost : IsChain(o)}
LostSends   == {o \in lost : ov[o].op = "send"}
ChainsTaken == LostChains \cup ChainsInUse
Accepted    == {c \in Clients : sock[c] # "new"}

\* A reply that is complete is one that its peer has got.
AnsweredFirst == \A c \in Clients, x \in Port : SentOk(x, c) => answered[c] # <<>>

\* Every chain, in use or lost, is the only one that its socket ever gets.
LossInv ==
  /\ \A a, b \in Spares : a = b
  /\ \A o \in LostSends : ov[o].id \in Clients
  /\ Cardinality(ChainsTaken) <= Cardinality(Accepted)

\* All these sets are finite.
LEMMA LossTypes ==
  ASSUME ChainInv
  PROVE  /\ lost \subseteq Overlappeds /\ IsFiniteSet(lost)
         /\ ChainsTaken \subseteq Overlappeds /\ IsFiniteSet(ChainsTaken)
         /\ Cardinality(ChainsTaken) \in Nat
         /\ IsFiniteSet(Accepted) /\ Cardinality(Accepted) \in Nat
  <1>1. lost \subseteq Overlappeds  BY DEF ChainInv, OwnInv, TypeInv, TypeOK
  <1>2. ChainsTaken \subseteq Overlappeds
    BY <1>1, ChainPlaces DEF ChainInv, ChainsTaken, LostChains, ChainsInUse
  <1>3. lost \in SUBSET Overlappeds /\ ChainsTaken \in SUBSET Overlappeds
    BY <1>1, <1>2
  <1>4. Accepted \in SUBSET Clients  BY DEF Accepted
  <1>5. IsFiniteSet(lost) /\ IsFiniteSet(ChainsTaken) /\ IsFiniteSet(Accepted)
    BY <1>3, <1>4, FS_Subset, ServerAssumption
  <1> QED  BY <1>1, <1>2, <1>5, FS_CardinalityType

\* Nothing is lost at first.
LEMMA LossInit == Init => LossInv /\ AnsweredFirst
  <1> SUFFICES ASSUME Init  PROVE LossInv /\ AnsweredFirst  OBVIOUS
  <1>1. lost = {} /\ Port = {} /\ ChainInv /\ \A c \in Clients : ChainSet(c) = {}
    <2>1. ChainInv  BY ChainInit
    <2>2. Port = {}  BY DEF Init, Port, Range
    <2>3. \A c \in Clients : sock[c] = "new"  BY DEF Init
    <2> QED  BY <2>1, <2>2, <2>3 DEF Init, ChainInv, ChainRule
  <1>2. ChainsTaken = {}  BY <1>1 DEF ChainsTaken, LostChains, ChainsInUse
  <1>3. Cardinality(ChainsTaken) = 0  BY <1>2, FS_EmptySet
  <1> QED  BY <1>1, <1>3, LossTypes DEF LossInv, Spares, LostSends, AnsweredFirst

\* One element more.
LEMMA OneMore ==
  ASSUME NEW S, IsFiniteSet(S), NEW x
  PROVE  /\ IsFiniteSet(S \cup {x}) /\ Cardinality(S \cup {x}) \in Nat
         /\ Cardinality(S \cup {x}) <= Cardinality(S) + 1
  <1>1. IsFiniteSet({x}) /\ Cardinality({x}) = 1  BY FS_Singleton
  <1> QED  BY <1>1, Covered

\* A step that loses at most one overlapped, and takes at most one for a chain:
\* that of a socket that had none, or that of the chain's next operation.
LEMMA LossGrows ==
  ASSUME ChainInv, LossInv, NEW o, \A p \in lost : ov'[p] = ov[p],
         \/ lost' = lost
         \/ /\ lost' = lost \cup {o} /\ ov'[o].op # "default"
            /\ ov'[o].op = "send" => ov'[o].id \in Clients,
         \A d \in Clients : sock'[d] = "new" => sock[d] = "new",
         \/ ChainsTaken' \subseteq ChainsTaken
         \/ /\ \E c \in Clients : sock[c] = "new" /\ sock'[c] # "new"
            /\ ChainsTaken' \subseteq ChainsTaken \cup {o}
         \/ \E p \in ChainsTaken : ChainsTaken' \subseteq (ChainsTaken \ {p}) \cup {o}
  PROVE  LossInv'
  <1>1. /\ IsFiniteSet(ChainsTaken) /\ Cardinality(ChainsTaken) \in Nat
        /\ IsFiniteSet(Accepted) /\ Cardinality(Accepted) \in Nat
    BY LossTypes
  <1>2. /\ IsFiniteSet(ChainsTaken') /\ Cardinality(ChainsTaken') \in Nat
        /\ IsFiniteSet(Accepted') /\ Cardinality(Accepted') \in Nat
    <2>1. Accepted' \in SUBSET Clients /\ ChainsTaken' \in SUBSET (ChainsTaken \cup {o})
      BY DEF Accepted
    <2>2. IsFiniteSet(ChainsTaken \cup {o})  BY <1>1, FS_AddElement
    <2>3. IsFiniteSet(ChainsTaken') /\ IsFiniteSet(Accepted')
      BY <2>1, <2>2, FS_Subset, ServerAssumption
    <2> QED  BY <2>3, FS_CardinalityType
  <1>3. Accepted \subseteq Accepted'  BY DEF Accepted
  <1>4. Cardinality(Accepted) <= Cardinality(Accepted')
    <2>1. Accepted \in SUBSET Accepted'  BY <1>3
    <2> QED  BY <1>2, <2>1, FS_Subset
  <1>8. (\A a, b \in Spares' : a = b) /\ \A p \in LostSends' : ov'[p].id \in Clients
    <2>1. Spares' \subseteq Spares  BY DEF Spares
    <2>2. \A p \in LostSends' : \/ p \in LostSends /\ ov'[p].id = ov[p].id
                               \/ ov'[p].id \in Clients
      BY DEF LostSends
    <2> QED  BY <2>1, <2>2 DEF LossInv
  <1>5. CASE ChainsTaken' \subseteq ChainsTaken
    <2>1. ChainsTaken' \in SUBSET ChainsTaken  BY <1>5
    <2>2. Cardinality(ChainsTaken') <= Cardinality(ChainsTaken)  BY <1>1, <2>1, FS_Subset
    <2> QED  BY <1>1, <1>2, <1>4, <1>8, <2>2 DEF LossInv
  <1>6. ASSUME NEW c \in Clients, sock[c] = "new", sock'[c] # "new",
               ChainsTaken' \subseteq ChainsTaken \cup {o}
        PROVE  LossInv'
    <2>1. ChainsTaken' \in SUBSET (ChainsTaken \cup {o})  BY <1>6
    <2>2. /\ IsFiniteSet(ChainsTaken \cup {o})
          /\ Cardinality(ChainsTaken \cup {o}) <= Cardinality(ChainsTaken) + 1
      BY <1>1, OneMore
    <2>3. Cardinality(ChainsTaken') <= Cardinality(ChainsTaken \cup {o})
      BY <2>1, <2>2, FS_Subset
    <2>4. c \notin Accepted /\ Accepted \cup {c} \in SUBSET Accepted'
      BY <1>3, <1>6 DEF Accepted
    <2>5. Cardinality(Accepted \cup {c}) = Cardinality(Accepted) + 1
      BY <1>1, <2>4, FS_AddElement
    <2>6. Cardinality(Accepted \cup {c}) <= Cardinality(Accepted')
      BY <1>2, <2>4, FS_Subset
    <2>7. Cardinality(ChainsTaken \cup {o}) \in Nat  BY <2>2, FS_CardinalityType
    <2>8. Cardinality(ChainsTaken') <= Cardinality(Accepted')
      BY <1>1, <1>2, <2>2, <2>3, <2>5, <2>6, <2>7 DEF LossInv
    <2> QED  BY <1>8, <2>8 DEF LossInv
  <1>7. ASSUME NEW p \in ChainsTaken, ChainsTaken' \subseteq (ChainsTaken \ {p}) \cup {o}
        PROVE  LossInv'
    <2>1. ChainsTaken' \in SUBSET ((ChainsTaken \ {p}) \cup {o})  BY <1>7
    <2>2. /\ IsFiniteSet(ChainsTaken \ {p})
          /\ Cardinality(ChainsTaken \ {p}) = Cardinality(ChainsTaken) - 1
      BY <1>1, FS_RemoveElement
    <2>3. /\ IsFiniteSet((ChainsTaken \ {p}) \cup {o})
          /\ Cardinality((ChainsTaken \ {p}) \cup {o}) \in Nat
          /\ Cardinality((ChainsTaken \ {p}) \cup {o}) <= Cardinality(ChainsTaken)
      <3>1. /\ IsFiniteSet((ChainsTaken \ {p}) \cup {o})
            /\ Cardinality((ChainsTaken \ {p}) \cup {o}) \in Nat
            /\ Cardinality((ChainsTaken \ {p}) \cup {o}) <= Cardinality(ChainsTaken \ {p}) + 1
        BY <2>2, OneMore
      <3> QED  BY <1>1, <2>2, <3>1
    <2>4. Cardinality(ChainsTaken') <= Cardinality((ChainsTaken \ {p}) \cup {o})
      BY <2>1, <2>3, FS_Subset
    <2>5. Cardinality(ChainsTaken') <= Cardinality(Accepted')
      BY <1>1, <1>2, <1>4, <2>3, <2>4 DEF LossInv
    <2> QED  BY <1>8, <2>5 DEF LossInv
  <1> QED  BY <1>5, <1>6, <1>7

\* A step that loses nothing and takes nothing for a chain.
LEMMA LossKept ==
  ASSUME ChainInv, LossInv, lost' = lost, \A p \in lost : ov'[p] = ov[p],
         \A d \in Clients : ChainSet(d)' \subseteq ChainSet(d),
         \A d \in Clients : sock'[d] = "new" => sock[d] = "new"
  PROVE  LossInv'
  <1>1. LostChains' \subseteq LostChains  BY DEF LostChains, IsChain
  <1>2. ChainsInUse' \subseteq ChainsInUse  BY DEF ChainsInUse
  <1>3. ChainsTaken' \subseteq ChainsTaken  BY <1>1, <1>2 DEF ChainsTaken
  <1> QED  BY <1>3, LossGrows

\* A step that completes nothing, and forgets no answer.
LEMMA AnsweredKept ==
  ASSUME AnsweredFirst, Port' \subseteq Port, answered' = answered,
         \A x \in Port : ov'[x.ov] = ov[x.ov]
  PROVE  AnsweredFirst'
  BY DEF AnsweredFirst, SentOk

\* The chains are where they were.
LEMMA SameChains ==
  ASSUME UNCHANGED <<ov, pending, completions>>,
         \A s \in Sessions : (Working(s)' <=> Working(s)) /\ (Working(s) => cur'[s] = cur[s])
  PROVE  /\ \A d \in Clients : ChainSet(d)' = ChainSet(d)
         /\ Port' = Port
  <1>1. Port' = Port /\ \A d \in Clients : AtKernel(d)' = AtKernel(d)  BY DEF Port, AtKernel
  <1>2. \A d \in Clients : WorkChains(d)' = WorkChains(d)  BY WorkSame
  <1>3. \A d \in Clients : KernelChains(d)' = KernelChains(d) /\ PortChains(d)' = PortChains(d)
    BY <1>1 DEF KernelChains, PortChains, IsChain, ClientOf
  <1> QED  BY <1>1, <1>2, <1>3 DEF ChainSet

LeakInv == ReplyInv /\ LossInv /\ AnsweredFirst

\* A step that leaves the overlappeds alone.
LEMMA QuietLoss ==
  ASSUME LeakInv, UNCHANGED <<lost, ov, pending, completions, answered>>,
         \A s \in Sessions : (Working(s)' <=> Working(s)) /\ (Working(s) => cur'[s] = cur[s]),
         \A d \in Clients : sock'[d] = "new" => sock[d] = "new"
  PROVE  LossInv' /\ AnsweredFirst'
  <1>1. ChainInv /\ LossInv /\ AnsweredFirst  BY DEF LeakInv, ReplyInv
  <1>2. (\A d \in Clients : ChainSet(d)' = ChainSet(d)) /\ Port' = Port  BY SameChains
  <1>3. LossInv'  BY <1>1, <1>2, LossKept
  <1>4. AnsweredFirst'  BY <1>1, <1>2, AnsweredKept
  <1> QED  BY <1>3, <1>4

\* A completion leaks nothing.
LEMMA CompletionLoss ==
  ASSUME LeakInv, NEW c \in Clients, NEW i \in DOMAIN pending[c],
         NEW key \in Clients \cup {None}, NEW bytes \in Nat, NEW ok \in BOOLEAN,
         Complete(c, i, key, bytes, ok),
         \A p \in Overlappeds : p # pending[c][i] => ov'[p] = ov[p],
         ov'[pending[c][i]].op = ov[pending[c][i]].op, ov'[pending[c][i]].id = ov[pending[c][i]].id,
         ov[pending[c][i]].op # "accept" => key = c,
         \A d \in Clients : sock[d] = "rst" => sock'[d] = "rst",
         \A d \in Clients : sock'[d] = "new" => sock[d] = "new",
         ~ ok => sock'[c] = "rst",
         \A d \in Clients : answered[d] # <<>> => answered'[d] # <<>>,
         ok /\ ov[pending[c][i]].op = "send" => answered'[c] # <<>>
  PROVE  LossInv' /\ AnsweredFirst'
  <1>0. ChainInv /\ OwnInv /\ TypeInv /\ LossInv /\ AnsweredFirst
    BY DEF LeakInv, ReplyInv, ChainInv, OwnInv
  <1>1. PICK o \in Overlappeds : o = pending[c][i]  BY <1>0, ReplyTypes
  <1>2. PICK x \in Completion :
          x = [ov |-> pending[c][i], key |-> key, bytes |-> bytes, ok |-> ok]
    BY <1>1 DEF Completion
  <1>3. o \in AtKernel(c) /\ Port' = Port \cup {x} /\ lost' = lost
    BY <1>0, <1>1, <1>2, CompleteMoves
  <1>4. /\ \A p \in lost : ov'[p] = ov[p]
        /\ \A p \in Overlappeds : ov'[p].op = ov[p].op /\ ov'[p].id = ov[p].id
    <2>1. o \notin lost /\ lost \subseteq Overlappeds
      BY <1>0, <1>3, LossTypes DEF OwnInv, Apart
    <2> QED  BY <1>1, <2>1
  <1>5. \A d \in Clients : ChainSet(d)' = ChainSet(d)
    BY <1>0, <1>4, CompleteChains
  <1>6. LossInv'  BY <1>0, <1>3, <1>4, <1>5, LossKept
  <1>7. ASSUME NEW d \in Clients, NEW y \in Port', SentOk(y, d)'  PROVE answered'[d] # <<>>
    <2>1. CASE y \in Port
      <3>1. y.ov \in Overlappeds  BY <1>0, <2>1, ReplyTypes
      <3>2. SentOk(y, d)  BY <1>4, <1>7, <3>1 DEF SentOk
      <3> QED  BY <1>0, <2>1, <3>2 DEF AnsweredFirst
    <2>2. CASE y = x
      <3>1. x.ov = o /\ x.ok = ok /\ x.key = key  BY <1>1, <1>2
      <3>2. ok /\ ov'[o].op = "send" /\ key = d  BY <1>7, <2>2, <3>1 DEF SentOk
      <3>3. ov[o].op = "send"  BY <1>4, <3>2
      <3> QED  BY <1>1, <3>2, <3>3
    <2> QED  BY <1>3, <1>7, <2>1, <2>2
  <1> QED  BY <1>6, <1>7 DEF AnsweredFirst

\* What the kernel does leaks nothing.
LEMMA KernelLoss ==
  ASSUME LeakInv, NEW c \in Clients, KernelStep(c)  PROVE LossInv' /\ AnsweredFirst'
  <1>0. ChainInv /\ OwnInv /\ TypeInv  BY DEF LeakInv, ReplyInv, ChainInv, OwnInv
  <1>1. sock \in [Clients -> {"new", "listening", "open", "fin", "rst"}]
    BY <1>0 DEF TypeInv, TypeOK
  <1>2. CASE Connect(c) \/ ConnectFails(c)
    <2>1. PICK i \in Posted(c, "accept"), ok \in BOOLEAN :
            /\ Complete(c, i, None, 0, ok)
            /\ sock' = [sock EXCEPT ![c] = IF ok THEN "open" ELSE "rst"]
      BY <1>2 DEF Connect, ConnectFails
    <2>2. /\ i \in DOMAIN pending[c] /\ ov[pending[c][i]].op = "accept"
          /\ ov' = ov /\ answered' = answered
      BY <1>2, <2>1 DEF Posted, Connect, ConnectFails
    <2>3. pending[c][i] \in AtKernel(c) /\ sock[c] = "listening"
      BY <1>0, <2>2 DEF AtKernel, Range, ChainInv, AcceptsListen
    <2>4. /\ sock'[c] \in {"open", "rst"} /\ (~ ok => sock'[c] = "rst")
          /\ \A d \in Clients \ {c} : sock'[d] = sock[d]
      BY <1>1, <2>1
    <2> QED  BY <2>1, <2>2, <2>3, <2>4, CompletionLoss
  <1>3. CASE Deliver(c)
    <2>1. PICK n \in received[c] + 1 .. Len(asked[c]), i \in Posted(c, "recv"), ok \in BOOLEAN :
            /\ Complete(c, i, c, n - received[c], ok) /\ ok
            /\ ov' = [ov EXCEPT ![pending[c][i]].msg = received[c] + 1]
      BY <1>3 DEF Deliver
    <2>2. /\ i \in DOMAIN pending[c] /\ sock' = sock /\ answered' = answered
          /\ ov[pending[c][i]].op = "recv"
      BY <1>3, <2>1 DEF Posted, Deliver
    <2>3. PICK bytes \in Nat : bytes = n - received[c]
      BY <1>0, <2>1, ReplyTypes
    <2>4. PICK o \in Overlappeds : o = pending[c][i]  BY <1>0, <2>2, ReplyTypes
    <2>5. /\ \A p \in Overlappeds : p # o => ov'[p] = ov[p]
          /\ ov'[o].op = ov[o].op /\ ov'[o].id = ov[o].id
      BY <1>0, <2>1, <2>4 DEF TypeInv, TypeOK
    <2> QED  BY <2>1, <2>2, <2>3, <2>4, <2>5, CompletionLoss
  <1>4. CASE DeliverEnd(c) \/ Abort(c)
    <2>1. PICK i \in DOMAIN pending[c], ok \in BOOLEAN :
            /\ Complete(c, i, c, 0, ok) /\ (~ ok => sock[c] = "rst")
            /\ ok => ov[pending[c][i]].op = "recv"
      BY <1>4 DEF DeliverEnd, Abort, Posted
    <2>2. ov' = ov /\ sock' = sock /\ answered' = answered
      BY <1>4 DEF DeliverEnd, Abort, peers
    <2> QED  BY <2>1, <2>2, CompletionLoss
  <1>5. CASE Transmit(c)
    <2>1. PICK i \in Posted(c, "send"), ok \in BOOLEAN :
            /\ Complete(c, i, c, 1, ok) /\ ok
            /\ answered' = [answered EXCEPT ![c] = Append(@, ov[pending[c][i]].msg)]
      BY <1>5 DEF Transmit
    <2>2. /\ i \in DOMAIN pending[c] /\ ov' = ov /\ sock' = sock
          /\ ov[pending[c][i]].op = "send"
      BY <1>5, <2>1 DEF Posted, Transmit
    <2>3. answered'[c] # <<>> /\ \A d \in Clients \ {c} : answered'[d] = answered[d]
      <3>1. answered \in [Clients -> Seq(Nat)]  BY <1>0 DEF TypeInv, TypeOK
      <3>2. PICK m : m = ov[pending[c][i]].msg  OBVIOUS
      <3>3. m \in Nat  BY <1>0, <2>2, <3>2, ReplyTypes
      <3>4. answered'[c] = Append(answered[c], m)  BY <2>1, <3>1, <3>2
      <3>5. Append(answered[c], m) # <<>>  BY <3>1, <3>3, AppendProperties
      <3> QED  BY <2>1, <3>1, <3>4, <3>5
    <2> QED  BY <2>1, <2>2, <2>3, CompletionLoss
  <1> QED  BY <1>2, <1>3, <1>4, <1>5 DEF KernelStep

\* The main thread loses the overlapped that the ring refuses, and one accept at
\* most for each socket.
LEMMA MainLoss == ASSUME LeakInv, MainStep  PROVE LossInv' /\ AnsweredFirst'
  <1>0. ChainInv /\ OwnInv /\ TypeInv /\ LossInv /\ AnsweredFirst
    BY DEF LeakInv, ReplyInv, ChainInv, OwnInv
  <1>1. sock \in [Clients -> {"new", "listening", "open", "fin", "rst"}]
    BY <1>0 DEF TypeInv, TypeOK
  <1>2. CASE InitializeFails \/ ReadyWithoutClients \/ AcceptsPosted \/ ReadySuccess \/ SetSendCallback
    <2>1. UNCHANGED <<lost, ov, pending, completions, at, cur, sock, answered>>
      BY <1>2 DEF InitializeFails, ReadyWithoutClients, AcceptsPosted, ReadySuccess,
                  SetSendCallback, objects, kernel, peers
    <2> QED  BY <2>1, QuietLoss DEF Working
  <1>3. ASSUME NEW s \in Sessions, SpawnSession(s)  PROVE LossInv' /\ AnsweredFirst'
    <2>1. /\ UNCHANGED <<lost, ov, pending, completions, cur, sock, answered>>
          /\ at[s] = "off" /\ at' = [at EXCEPT ![s] = "wait"]
      BY <1>3 DEF SpawnSession, objects, kernel, peers
    <2>2. \A r \in Sessions : Working(r)' <=> Working(r)
      BY <1>0, <2>1 DEF Working, TypeInv, TypeOK
    <2> QED  BY <2>1, <2>2, QuietLoss
  <1>4. ASSUME NEW c \in Clients, AcceptSocketError(c)  PROVE LossInv' /\ AnsweredFirst'
    <2>1. /\ UNCHANGED <<lost, ov, pending, completions, at, cur, answered>>
          /\ sock[c] = "new" /\ sock' = [sock EXCEPT ![c] = "rst"]
      BY <1>4 DEF AcceptSocketError, objects, kernel, threads, peers
    <2> QED  BY <1>1, <2>1, QuietLoss DEF Working
  <1>5. CASE Initialize
    <2>1. PICK created \in Creations : lost' = {created[Capacity + 1]}
      BY <1>5 DEF Initialize
    <2>2. PICK o : o = created[Capacity + 1]  OBVIOUS
    <2>3. o \in Overlappeds
      <3>1. created \in [1 .. Cardinality(Overlappeds) -> Overlappeds]
        BY ServerAssumption
      <3>2. Capacity + 1 \in 1 .. Cardinality(Overlappeds)  BY CapacityNat
      <3> QED  BY <2>2, <3>1, <3>2
    <2>4. /\ UNCHANGED <<ov, pending, completions, at, cur, sock, answered>> /\ main = "initialize"
      BY <1>5 DEF Initialize, kernel, peers
    <2>5. ov[o].op = "default"
      <3>1. ov = [p \in Overlappeds |-> Cleared]
        BY <1>0, <2>4 DEF OwnInv, Unstarted, Started
      <3>2. ov[o] = Cleared  BY <2>3, <3>1
      <3> QED  BY <3>2 DEF Cleared
    <2>6. (\A d \in Clients : ChainSet(d)' = ChainSet(d)) /\ Port' = Port
      BY <2>4, SameChains DEF Working
    <2>7. LostChains' = {} /\ LostSends' = {} /\ Spares' \subseteq {o}
      BY <2>1, <2>2, <2>4, <2>5 DEF LostChains, LostSends, Spares, IsChain
    <2>8. ChainsTaken' \subseteq ChainsTaken /\ Accepted' = Accepted
      BY <2>4, <2>6, <2>7 DEF ChainsTaken, ChainsInUse, Accepted
    <2>9. /\ IsFiniteSet(ChainsTaken) /\ Cardinality(ChainsTaken) \in Nat
          /\ Cardinality(Accepted) \in Nat
          /\ Cardinality(ChainsTaken) <= Cardinality(Accepted)
      BY <1>0, LossTypes DEF LossInv
    <2>10. /\ Cardinality(ChainsTaken') \in Nat
           /\ Cardinality(ChainsTaken') <= Cardinality(ChainsTaken)
      <3>1. ChainsTaken' \in SUBSET ChainsTaken  BY <2>8
      <3> QED  BY <2>9, <3>1, FS_Subset, FS_CardinalityType
    <2>11. Cardinality(ChainsTaken') <= Cardinality(Accepted')  BY <2>8, <2>9, <2>10
    <2>12. LossInv'  BY <2>7, <2>11 DEF LossInv
    <2>13. AnsweredFirst'  BY <1>0, <2>4, <2>6, AnsweredKept
    <2> QED  BY <2>12, <2>13
  <1>6. ASSUME NEW c \in Clients, AcceptReady(c) \/ AcceptRefused(c)
        PROVE  LossInv' /\ AnsweredFirst'
    <2> DEFINE contents == [op |-> "accept", id |-> c, msg |-> 0]
    <2>1. contents \in Contents /\ contents.op = "accept" /\ contents.op # "default"
      BY DEF Contents
    <2>2. /\ UNCHANGED <<at, cur, answered>>
          /\ sock[c] = "new"
          /\ \/ Post(c, contents) /\ sock' = [sock EXCEPT ![c] = "listening"]
             \/ PostRefused(contents) /\ sock' = [sock EXCEPT ![c] = "rst"]
      BY <1>6 DEF AcceptReady, AcceptRefused, threads
    <2>3. sock'[c] # "new" /\ \A d \in Clients : sock'[d] = "new" => sock[d] = "new"
      BY <1>1, <2>2
    <2> HIDE DEF contents
    <2>4. PICK o \in Overlappeds : o = Head(pool)
      BY <1>0, <2>1, <2>2, PostMoves, RefusedMoves
    <2>5. /\ o \in InPool /\ ov'[o] = contents
          /\ \A p \in Overlappeds \ {o} : ov'[p] = ov[p]
          /\ lost' \in {lost, lost \cup {o}} /\ Port' = Port
      BY <1>0, <2>1, <2>2, <2>4, PostMoves, RefusedMoves
    <2>6. o \notin lost /\ \A p \in lost : ov'[p] = ov[p]
      BY <1>0, <2>5, LossTypes DEF OwnInv, Apart
    <2>7. /\ \A d \in Clients : ChainSet(d)' \subseteq ChainSet(d) \cup {o}
          /\ \A x \in Port : ov'[x.ov] = ov[x.ov]
      <3>1. /\ \A d \in Clients : KernelChains(d)' \subseteq KernelChains(d) \cup {o}
            /\ \A d \in Clients : PortChains(d)' = PortChains(d)
            /\ \A s \in Sessions : Working(s) => ov'[cur[s].ov] = ov[cur[s].ov]
            /\ \A x \in Port : ov'[x.ov] = ov[x.ov]
        <4>1. CASE Post(c, contents)
          <5>1. /\ KernelChains(c)' = KernelChains(c) \cup {o}
                /\ \A d \in Clients \ {c} : KernelChains(d)' = KernelChains(d)
                /\ \A d \in Clients : PortChains(d)' = PortChains(d)
                /\ \A s \in Sessions : Working(s) => ov'[cur[s].ov] = ov[cur[s].ov]
                /\ \A x \in Port : ov'[x.ov] = ov[x.ov]
            BY <1>0, <2>1, <2>2, <2>4, <4>1, PostChains
          <5> QED  BY <5>1
        <4>2. CASE PostRefused(contents)
          BY <1>0, <2>1, <2>2, <4>2, RefusedChains
        <4> QED  BY <2>2, <4>1, <4>2
      <3>2. \A d \in Clients : WorkChains(d)' = WorkChains(d)
        BY <2>2, <3>1, WorkSame DEF Working
      <3> QED  BY <3>1, <3>2 DEF ChainSet
    <2>8. ChainsTaken' \subseteq ChainsTaken \cup {o}
      <3>1. LostChains' \subseteq LostChains \cup {o}  BY <2>5, <2>6 DEF LostChains, IsChain
      <3>2. ChainsInUse' \subseteq ChainsInUse \cup {o}  BY <2>7 DEF ChainsInUse
      <3> QED  BY <3>1, <3>2 DEF ChainsTaken
    <2>9. LossInv'
      BY <1>0, <2>1, <2>2, <2>3, <2>5, <2>6, <2>8, LossGrows
    <2>10. AnsweredFirst'  BY <1>0, <2>2, <2>5, <2>7, AnsweredKept
    <2> QED  BY <2>9, <2>10
  <1> QED  BY <1>2, <1>3, <1>4, <1>5, <1>6 DEF MainStep

\* A refused or failed operation leaves its overlapped to nobody.
LEMMA SessionLoss ==
  ASSUME LeakInv, NEW s \in Sessions, SessionStep(s)  PROVE LossInv' /\ AnsweredFirst'
  <1>0. ChainInv /\ OwnInv /\ TypeInv /\ LossInv /\ AnsweredFirst
    BY DEF LeakInv, ReplyInv, ChainInv, OwnInv
  <1>1. at \in [Sessions -> {"off", "wait", "dispatch", "send", "rearm", "recycle"}]
    BY <1>0 DEF TypeInv, TypeOK
  <1>2. ASSUME NEW next \in {"dispatch", "rearm", "recycle"}, Take(s, next),
               next = "recycle" <=> TakenOp = "send"
        PROVE  LossInv' /\ AnsweredFirst'
    <2>1. \A d \in Clients : ChainSet(d)' = ChainSet(d)  BY <1>0, <1>2, TakeChains
    <2>2. /\ Port' \subseteq Port /\ UNCHANGED <<lost, ov, sock, answered>>
      BY <1>0, <1>2, TakeMoves DEF Take, objects, peers
    <2> QED  BY <1>0, <2>1, <2>2, LossKept, AnsweredKept
  <1>3. CASE TakeAccepted(s) \/ TakeMessage(s) \/ TakeDisconnect(s) \/ TakeSent(s)
    BY <1>2, <1>3 DEF TakeAccepted, TakeMessage, TakeDisconnect, TakeSent
  <1>4. CASE TakeFailed(s)
    <2>1. PICK x \in Completion : x = Head(completions)
      BY <1>0, <1>4, TakeMoves DEF TakeFailed
    <2>2. x \in Port /\ Port' \subseteq Port
      BY <1>0, <1>4, <2>1, TakeMoves DEF TakeFailed
    <2>3. /\ lost' = lost \cup {x.ov}
          /\ UNCHANGED <<ov, pending, at, cur, sock, answered>>
      BY <1>4, <2>1 DEF TakeFailed, threads, peers
    <2>4. /\ ov[x.ov].op # "default" /\ ClientOf(x) \in Clients
          /\ ov[x.ov].op = "send" => ov[x.ov].id \in Clients
      BY <1>0, <2>2 DEF OwnInv, Operations, PortOps, Operated, ClientOf
    <2>5. IsChain(x.ov) => x.ov \in ChainsInUse
      BY <2>2, <2>4 DEF ChainsInUse, ChainSet, PortChains
    <2>6. ChainsTaken' \subseteq ChainsTaken
      <3>1. LostChains' \subseteq LostChains \cup ChainsInUse
        BY <2>3, <2>5 DEF LostChains, IsChain
      <3>2. \A d \in Clients : ChainSet(d)' \subseteq ChainSet(d)
        <4>1. \A d \in Clients : KernelChains(d)' = KernelChains(d)
          BY <2>3 DEF KernelChains, AtKernel, IsChain
        <4>2. \A d \in Clients : PortChains(d)' \subseteq PortChains(d)
          BY <2>2, <2>3 DEF PortChains, IsChain, ClientOf
        <4>3. \A d \in Clients : WorkChains(d)' = WorkChains(d)
          BY <2>3, WorkSame DEF Working
        <4> QED  BY <4>1, <4>2, <4>3 DEF ChainSet
      <3>3. ChainsInUse' \subseteq ChainsInUse  BY <3>2 DEF ChainsInUse
      <3> QED  BY <3>1, <3>3 DEF ChainsTaken
    <2>7. LossInv'  BY <1>0, <2>3, <2>4, <2>6, LossGrows
    <2>8. AnsweredFirst'  BY <1>0, <2>2, <2>3, AnsweredKept
    <2> QED  BY <2>7, <2>8
  <1>5. CASE DispatchRequest(s) \/ DispatchUnknown(s) \/ DispatchEmptyCallback(s) \/ PopNull(s)
    <2>1. /\ UNCHANGED <<lost, ov, pending, completions, cur, sock, answered>>
          /\ \/ at' = at
             \/ at[s] = "dispatch" /\ at' = [at EXCEPT ![s] = "send"]
             \/ at[s] = "dispatch" /\ at' = [at EXCEPT ![s] = "rearm"]
      BY <1>5 DEF DispatchRequest, DispatchUnknown, DispatchEmptyCallback, PopNull, PopNothing,
                  Goto, objects, kernel, peers
    <2>2. \A r \in Sessions : Working(r)' <=> Working(r)  BY <1>1, <2>1 DEF Working
    <2> QED  BY <2>1, <2>2, QuietLoss
  <1>6. CASE SendPosted(s) \/ SendRefused(s)
    <2>1. Goto(s, "send", "rearm") /\ UNCHANGED <<cur, sock, answered>>
      BY <1>6 DEF SendPosted, SendRefused, peers
    <2>2. PICK c \in Clients : c = ServedClient(s)
      BY <1>0, <2>1, ServedKnown DEF Goto, Holding
    <2>3. PICK contents \in Contents : contents = Reply(s) /\ contents.op = "send" /\ contents.id = c
      <3>1. ov[cur[s].ov].msg \in Nat
        BY <1>0, <2>1, ServedTyped DEF Contents, Goto, Holding
      <3>2. Reply(s) \in Contents /\ Reply(s).op = "send" /\ Reply(s).id = c
        BY <2>2, <3>1 DEF Reply, Contents
      <3> HIDE DEF Reply
      <3> QED  BY <3>2
    <2>4. Post(c, contents) \/ PostRefused(contents)
      BY <1>6, <2>2, <2>3 DEF SendPosted, SendRefused
    <2>5. PICK o \in Overlappeds : o = Head(pool)
      BY <1>0, <2>4, PostMoves, RefusedMoves
    <2>6. /\ o \in InPool /\ ov'[o] = contents
          /\ \A p \in Overlappeds \ {o} : ov'[p] = ov[p]
          /\ lost' \in {lost, lost \cup {o}} /\ Port' = Port
      BY <1>0, <2>4, <2>5, PostMoves, RefusedMoves
    <2>7. o \notin lost /\ \A p \in lost : ov'[p] = ov[p]
      BY <1>0, <2>6, LossTypes DEF OwnInv, Apart
    <2>8. /\ \A d \in Clients : ChainSet(d)' = ChainSet(d)
          /\ \A x \in Port : ov'[x.ov] = ov[x.ov]
      <3>1. /\ \A d \in Clients : KernelChains(d)' = KernelChains(d) /\ PortChains(d)' = PortChains(d)
            /\ \A r \in Sessions : Working(r) => ov'[cur[r].ov] = ov[cur[r].ov]
            /\ \A x \in Port : ov'[x.ov] = ov[x.ov]
        <4>1. CASE Post(c, contents)  BY <1>0, <2>1, <2>3, <4>1, PostChains
        <4>2. CASE PostRefused(contents)  BY <1>0, <2>1, <4>2, RefusedChains
        <4> QED  BY <2>4, <4>1, <4>2
      <3>2. \A r \in Sessions : Working(r)' <=> Working(r)
        BY <1>1, <2>1 DEF Goto, Working
      <3>3. \A d \in Clients : WorkChains(d)' = WorkChains(d)
        BY <2>1, <3>1, <3>2, WorkSame
      <3> QED  BY <3>1, <3>3 DEF ChainSet
    <2>9. ChainsTaken' \subseteq ChainsTaken
      <3>1. LostChains' \subseteq LostChains  BY <2>3, <2>6, <2>7 DEF LostChains, IsChain
      <3>2. ChainsInUse' \subseteq ChainsInUse  BY <2>8 DEF ChainsInUse
      <3> QED  BY <3>1, <3>2 DEF ChainsTaken
    <2>10. LossInv'  BY <1>0, <2>1, <2>3, <2>6, <2>7, <2>9, LossGrows
    <2>11. AnsweredFirst'  BY <1>0, <2>1, <2>6, <2>8, AnsweredKept
    <2> QED  BY <2>10, <2>11
  <1>7. CASE ReceivePosted(s) \/ ReceiveRefused(s)
    <2>1. Goto(s, "rearm", "recycle") /\ UNCHANGED <<cur, sock, answered>>
      BY <1>7 DEF ReceivePosted, ReceiveRefused, peers
    <2>2. PICK c \in Clients : c = ServedClient(s)
      BY <1>0, <2>1, ServedKnown DEF Goto, Holding
    <2>3. PICK contents \in Contents : contents = [Cleared EXCEPT !.op = "recv"] /\ contents.op = "recv"
      <3>1. [Cleared EXCEPT !.op = "recv"].op = "recv"  BY DEF Cleared
      <3> QED  BY <3>1, ContentsTyped
    <2>4. Post(c, contents) \/ PostRefused(contents)
      BY <1>7, <2>2, <2>3 DEF ReceivePosted, ReceiveRefused
    <2>5. PICK o \in Overlappeds : o = Head(pool)
      BY <1>0, <2>4, PostMoves, RefusedMoves
    <2>6. /\ o \in InPool /\ ov'[o] = contents
          /\ \A p \in Overlappeds \ {o} : ov'[p] = ov[p]
          /\ lost' \in {lost, lost \cup {o}} /\ Port' = Port
      BY <1>0, <2>4, <2>5, PostMoves, RefusedMoves
    <2>7. o \notin lost /\ \A p \in lost : ov'[p] = ov[p]
      BY <1>0, <2>6, LossTypes DEF OwnInv, Apart
    <2>8. /\ \A d \in Clients : /\ KernelChains(d)' \subseteq KernelChains(d) \cup {o}
                                /\ PortChains(d)' = PortChains(d)
          /\ \A d \in Clients \ {c} : KernelChains(d)' = KernelChains(d)
          /\ \A r \in Sessions : Working(r) => ov'[cur[r].ov] = ov[cur[r].ov]
          /\ \A x \in Port : ov'[x.ov] = ov[x.ov]
      <3>1. CASE Post(c, contents)
        <4>1. /\ KernelChains(c)' = KernelChains(c) \cup {o}
              /\ \A d \in Clients \ {c} : KernelChains(d)' = KernelChains(d)
              /\ \A d \in Clients : PortChains(d)' = PortChains(d)
              /\ \A r \in Sessions : Working(r) => ov'[cur[r].ov] = ov[cur[r].ov]
              /\ \A x \in Port : ov'[x.ov] = ov[x.ov]
          BY <1>0, <2>1, <2>3, <2>5, <3>1, PostChains
        <4> QED  BY <4>1
      <3>2. CASE PostRefused(contents)  BY <1>0, <2>1, <3>2, RefusedChains
      <3> QED  BY <2>4, <3>1, <3>2
    <2>9. /\ WorkChains(c)' = {} /\ KernelChains(c) = {} /\ PortChains(c) = {}
          /\ \A d \in Clients \ {c} : WorkChains(d)' = WorkChains(d)
      BY <1>0, <2>1, <2>2, <2>8, WorkEnds
    <2>10. PICK p \in Overlappeds : p = cur[s].ov
      BY <1>0, <2>1, ServedTyped DEF Goto, Holding
    <2>11. p \in HeldBy(s) /\ p \in ChainSet(c) /\ (\A q \in ChainSet(c) : q = p) /\ Holding(s)
      <3>1. cur[s].ov \in ChainSet(c) /\ cur[s].ov \in HeldBy(s)
        BY <1>0, <2>1, <2>2, ChainPlaces, ServedKnown DEF ChainSet, Goto, Holding, Working
      <3> QED  BY <1>0, <2>1, <2>10, <3>1 DEF ChainInv, ChainRule, Goto, Holding
    <2>12. p \notin lost /\ \A d \in Clients \ {c} : p \notin ChainSet(d)
      <3>1. /\ p \notin lost /\ p \notin AtPort
            /\ \A d \in Clients : p \notin AtKernel(d)
            /\ \A r \in Sessions \ {s} : p \notin HeldBy(r)
        BY <1>0, <2>11 DEF OwnInv, Apart
      <3>2. \A d \in Clients : /\ KernelChains(d) \subseteq AtKernel(d) /\ PortChains(d) \subseteq AtPort
                               /\ \A q \in WorkChains(d) : \E r \in Sessions :
                                    Working(r) /\ cur[r].ov = q /\ ClientOf(cur[r]) = d
        BY <1>0, ChainPlaces
      <3>3. \A r \in Sessions : Working(r) => cur[r].ov \in HeldBy(r)
        BY DEF Working, HeldBy, Holding
      <3>4. ClientOf(cur[s]) = c  BY <1>0, <2>2, <2>11, ServedKnown
      <3>5. \A d \in Clients \ {c} : p \notin WorkChains(d)  BY <3>1, <3>2, <3>3, <3>4
      <3> QED  BY <3>1, <3>2, <3>5 DEF ChainSet
    <2>13. /\ p \in ChainsTaken /\ ChainSet(c)' \subseteq {o}
           /\ \A d \in Clients \ {c} : ChainSet(d)' = ChainSet(d)
      BY <2>8, <2>9, <2>11 DEF ChainSet, ChainsTaken, ChainsInUse
    <2>14. ChainsTaken' \subseteq (ChainsTaken \ {p}) \cup {o}
      <3>1. LostChains' \subseteq (LostChains \ {p}) \cup {o}
        BY <2>6, <2>7, <2>12 DEF LostChains, IsChain
      <3>2. ChainsInUse' \subseteq (ChainsInUse \ {p}) \cup {o}
        BY <2>11, <2>12, <2>13 DEF ChainsInUse
      <3> QED  BY <3>1, <3>2 DEF ChainsTaken
    <2>15. LossInv'  BY <1>0, <2>1, <2>3, <2>6, <2>7, <2>13, <2>14, LossGrows
    <2>16. AnsweredFirst'  BY <1>0, <2>1, <2>6, <2>8, AnsweredKept
    <2> QED  BY <2>15, <2>16
  <1>8. CASE ReceiveSocketError(s)
    <2>1. /\ Goto(s, "rearm", "recycle")
          /\ UNCHANGED <<lost, ov, pending, completions, cur, sock, answered>>
      BY <1>8 DEF ReceiveSocketError, objects, kernel, peers
    <2>2. Port' = Port /\ \A d \in Clients : AtKernel(d)' = AtKernel(d)
      BY <2>1 DEF Port, AtKernel
    <2>3. \A r \in Sessions : Working(r)' => Working(r)
      BY <1>1, <2>1 DEF Goto, Working
    <2>4. \A d \in Clients : WorkChains(d)' \subseteq WorkChains(d)
      BY <2>1, <2>3 DEF WorkChains, ClientOf
    <2>5. \A d \in Clients : ChainSet(d)' \subseteq ChainSet(d)
      BY <2>1, <2>2, <2>4 DEF ChainSet, KernelChains, PortChains, IsChain, ClientOf
    <2>6. LossInv'  BY <1>0, <2>1, <2>5, LossKept
    <2>7. AnsweredFirst'  BY <1>0, <2>1, <2>2, AnsweredKept
    <2> QED  BY <2>6, <2>7
  <1>9. CASE Recycle(s)
    <2>1. PICK o : o = cur[s].ov  OBVIOUS
    <2>2. /\ at[s] = "recycle" /\ ov' = [ov EXCEPT ![o] = Cleared]
          /\ UNCHANGED <<lost, sock, answered>>
      BY <1>9, <2>1 DEF Recycle, Goto, peers
    <2>3. o \notin lost
      BY <1>0, <2>1, <2>2 DEF OwnInv, Apart, HeldBy, Holding
    <2>4. \A p \in lost : ov'[p] = ov[p]
      BY <1>0, <2>2, <2>3 DEF TypeInv, TypeOK
    <2>5. /\ \A d \in Clients : ChainSet(d)' = ChainSet(d)
          /\ Port' = Port /\ \A x \in Port : ov'[x.ov] = ov[x.ov]
      BY <1>0, <1>9, RecycleChains
    <2>6. LossInv'  BY <1>0, <2>2, <2>4, <2>5, LossKept
    <2>7. AnsweredFirst'  BY <1>0, <2>2, <2>5, AnsweredKept
    <2> QED  BY <2>6, <2>7
  <1> QED
    BY <1>3, <1>4, <1>5, <1>6, <1>7, <1>8, <1>9 DEF SessionStep

\* Every step keeps the bounds on what is lost.
LEMMA LeakStep == LeakInv /\ [Next]_vars => LeakInv'
  <1> SUFFICES ASSUME LeakInv, [Next]_vars  PROVE LeakInv'  OBVIOUS
  <1>1. ReplyInv'  BY ReplyStep DEF LeakInv
  <1>2. CASE UNCHANGED vars
    <2>1. UNCHANGED <<lost, ov, pending, completions, at, cur, sock, answered>>
      BY <1>2 DEF vars, objects, kernel, threads, peers
    <2> QED  BY <1>1, <2>1, QuietLoss DEF Working, LeakInv
  <1>3. ASSUME NEW c \in Clients, PeerStep(c)  PROVE LossInv' /\ AnsweredFirst'
    <2>1. /\ UNCHANGED <<lost, ov, pending, completions, at, cur, answered>>
          /\ \/ sock' = sock
             \/ \E how \in {"fin", "rst"} : sock' = [sock EXCEPT ![c] = how]
      BY <1>3 DEF PeerStep, Ask, Hangup, objects, kernel, threads
    <2>2. \A d \in Clients : sock'[d] = "new" => sock[d] = "new"
      BY <2>1 DEF LeakInv, ReplyInv, ChainInv, OwnInv, TypeInv, TypeOK
    <2> QED  BY <2>1, <2>2, QuietLoss DEF Working
  <1>4. CASE Next
    BY <1>1, <1>3, <1>4, MainLoss, SessionLoss, KernelLoss DEF Next, LeakInv
  <1> QED  BY <1>2, <1>4

\* So they always hold.
LEMMA LeakInvHolds == Spec => []LeakInv
  <1>1. Init => LeakInv  BY ReplyInit, LossInit DEF LeakInv
  <1> QED  BY <1>1, LeakStep, PTL DEF Spec

-----------------------------------------------------------------------------
(* How many.  The replies of one client that are under way, lost, or got    *)
(* but not yet taken from the port, are never more than its window.         *)

\* The replies of a client that its peer has not got and those that no session
\* has taken fit the window: their messages and the answered ones are different
\* numbers, none beyond what the window lets the peer send.
LEMMA WindowBounds ==
  ASSUME ReplyInv, AnsweredFirst, NEW c \in Clients
  PROVE  /\ IsFiniteSet(Unanswered(c) \cup Behind(c, 0))
         /\ Cardinality(Unanswered(c) \cup Behind(c, 0)) <= Window
  <1> DEFINE L == Len(answered[c])
             B == Behind(c, 0)
             U == Unanswered(c)
             A == Range(answered[c])
             M == {ov[o].msg : o \in U}
  <1>0. TypeInv /\ ReplyRule(c)  BY DEF ReplyInv, ChainInv, OwnInv
  <1>1. /\ Window \in Nat /\ L \in Nat /\ DOMAIN answered[c] = 1 .. L
        /\ \A k \in 1 .. L : answered[c][k] \in Nat
        /\ \A o \in Overlappeds : ov[o].msg \in Nat
    BY <1>0, ReplyTypes
  <1>2. IsFiniteSet(B) /\ Cardinality(B) \in Nat  BY <1>0, BehindType
  <1>3. IsFiniteSet(U) /\ Cardinality(U) \in Nat
    <2>1. U \in SUBSET Overlappeds  BY DEF Unanswered
    <2> QED  BY <2>1, FS_Subset, FS_CardinalityType, ServerAssumption
  <1>4. answered[c] \in Bijection(1 .. L, A)
    <2>1. answered[c] \in [1 .. L -> A] /\ \A t \in A : \E k \in 1 .. L : answered[c][k] = t
      <3>1. answered[c] \in Seq(Nat)  BY <1>0 DEF TypeInv, TypeOK
      <3>2. answered[c] \in [1 .. L -> Nat]  BY <3>1
      <3> QED  BY <1>1, <3>2 DEF Range
    <2>2. ASSUME NEW j \in 1 .. L, NEW k \in 1 .. L, answered[c][j] = answered[c][k]  PROVE j = k
      <3>1. \A i \in 1 .. L, n \in 1 .. L : i < n => answered[c][i] < answered[c][n]
        BY <1>0, <1>1 DEF ReplyRule, AnsweredRule
      <3>2. answered[c][j] \in Nat /\ answered[c][k] \in Nat /\ j \in Int /\ k \in Int  BY <1>1
      <3> QED  BY <2>2, <3>1, <3>2
    <2> QED  BY <2>1, <2>2, Fun_IsBij
  <1>5. IsFiniteSet(A) /\ Cardinality(A) = L
    <2>1. IsFiniteSet(1 .. L) /\ Cardinality(1 .. L) = L  BY <1>1, FS_Interval
    <2>2. ExistsBijection(1 .. L, A)  BY <1>4 DEF ExistsBijection
    <2> QED  BY <2>1, <2>2, FS_Bijection
  <1>6. IsFiniteSet(M) /\ Cardinality(M) = Cardinality(U)
    <2> DEFINE msg == [o \in U |-> ov[o].msg]
    <2>1. \A a, b \in U : ov[a].msg = ov[b].msg => a = b
      BY <1>0 DEF ReplyRule, UnansweredRule
    <2>2. msg \in [U -> M] /\ \A t \in M : \E o \in U : msg[o] = t  OBVIOUS
    <2>3. \A a, b \in U : msg[a] = msg[b] => a = b  BY <2>1
    <2>4. msg \in Bijection(U, M)  BY <2>2, <2>3, Fun_IsBij
    <2>5. ExistsBijection(U, M)  BY <2>4 DEF ExistsBijection
    <2> QED  BY <1>3, <2>5, FS_Bijection
  <1>7. \A m \in M \cup A : m \in Nat \ {0} /\ m + Cardinality(B) <= Window + L
    <2>1. ASSUME NEW m \in M  PROVE IsRequest(c, m) /\ Within(c, m, 0)
      BY <1>0 DEF ReplyRule, UnansweredRule
    <2>2. ASSUME NEW m \in A  PROVE IsRequest(c, m) /\ Within(c, m, 0)
      <3>1. PICK k \in DOMAIN answered[c] : m = answered[c][k]  BY DEF Range
      <3> QED  BY <1>0, <3>1 DEF ReplyRule, AnsweredRule
    <2>3. received[c] \in Nat  BY <1>0, ReplyTypes
    <2> QED  BY <2>1, <2>2, <2>3 DEF IsRequest, Within
  <1>8. M \cap A = {}
    BY <1>0 DEF ReplyRule, UnansweredRule
  <1>9. Cardinality(U) + Cardinality(B) <= Window
    <2>1. /\ IsFiniteSet(M \cup A)
          /\ Cardinality(M \cup A) = Cardinality(U) + L
      <3>1. Cardinality(M \cap A) = 0  BY <1>8, FS_EmptySet
      <3>2. Cardinality(M \cup A) = Cardinality(M) + Cardinality(A) - Cardinality(M \cap A)
        BY <1>5, <1>6, FS_Union
      <3>3. IsFiniteSet(M \cup A)  BY <1>5, <1>6, FS_Union
      <3> QED  BY <1>1, <1>3, <1>5, <1>6, <3>1, <3>2, <3>3
    <2>2. CASE M \cup A # {}
      <3>1. PICK n \in M \cup A : TRUE  BY <2>2
      <3>2. n \in Nat \ {0} /\ n + Cardinality(B) <= Window + L  BY <1>7
      <3>3. PICK k \in Nat \ {0} : k = Window + L - Cardinality(B)
        <4> HIDE DEF L, B
        <4> QED  BY <1>1, <1>2, <3>2
      <3>4. \A m \in M \cup A : m \in 1 .. k
        <4> SUFFICES ASSUME NEW m \in M \cup A  PROVE m \in 1 .. k  OBVIOUS
        <4>1. m \in Nat \ {0} /\ m + Cardinality(B) <= Window + L  BY <1>7
        <4> HIDE DEF L, B
        <4> QED  BY <1>1, <1>2, <3>3, <4>1
      <3>5. IsFiniteSet(1 .. k) /\ Cardinality(1 .. k) = k  BY FS_Interval
      <3> HIDE DEF M, A, L, B, U
      <3>6. M \cup A \in SUBSET (1 .. k)  BY <3>4
      <3>7. Cardinality(M \cup A) <= k  BY <3>5, <3>6, FS_Subset
      <3> QED  BY <1>1, <1>2, <1>3, <2>1, <3>3, <3>7
    <2>3. CASE M \cup A = {}
      <3>1. U = {} /\ A = {}  BY <2>3
      <3>2. Cardinality(U) = 0 /\ L = 0  BY <1>5, <3>1, FS_EmptySet
      <3>3. answered[c] = <<>>
        <4>1. answered[c] \in Seq(Nat)  BY <1>0 DEF TypeInv, TypeOK
        <4> QED  BY <3>2, <4>1, EmptySeq
      <3>4. B = {}
        <4>1. \A i \in DOMAIN completions : ~ SentOk(completions[i], c)
          BY <1>0, <3>3, ReplyTypes DEF AnsweredFirst
        <4> QED  BY <4>1 DEF Behind
      <3> QED  BY <1>1, <3>2, <3>4, FS_EmptySet
    <2> QED  BY <2>2, <2>3
  <1> HIDE DEF L, B, U, A, M
  <1>10. /\ IsFiniteSet(U \cup B) /\ Cardinality(U \cup B) \in Nat
         /\ Cardinality(U \cup B) <= Cardinality(U) + Cardinality(B)
    BY <1>2, <1>3, Covered
  <1>11. IsFiniteSet(U \cup B) /\ Cardinality(U \cup B) <= Window
    BY <1>1, <1>2, <1>3, <1>9, <1>10
  <1> QED  BY <1>11 DEF U, B

\* A set with at most n elements for each client.
LEMMA ForEachClient ==
  ASSUME NEW S, NEW f \in [S -> Clients], NEW n \in Nat,
         \A c \in Clients : /\ IsFiniteSet({o \in S : f[o] = c})
                            /\ Cardinality({o \in S : f[o] = c}) <= n
  PROVE  IsFiniteSet(S) /\ Cardinality(S) <= Cardinality(Clients) * n
  <1> DEFINE Of(c) == {o \in S : f[o] = c}
             slot  == [c \in Clients |-> CHOOSE g : g \in Injection(Of(c), 1 .. n)]
             place == [o \in S |-> <<f[o], slot[f[o]][o]>>]
  <1>1. ASSUME NEW c \in Clients  PROVE \E g : g \in Injection(Of(c), 1 .. n)
    <2>1. PICK T : T = Of(c)  OBVIOUS
    <2>2. IsFiniteSet(T) /\ Cardinality(T) <= n  BY <2>1
    <2>3. PICK k \in Nat : k = Cardinality(T)  BY <2>2, FS_CardinalityType
    <2>4. ExistsBijection(T, 1 .. k)  BY <2>2, <2>3, FS_CardinalityType, Fun_ExistsBijSymmetric
    <2>5. PICK g : g \in Bijection(T, 1 .. k)  BY <2>4 DEF ExistsBijection
    <2>6. g \in [T -> 1 .. k] /\ \A a, b \in T : g[a] = g[b] => a = b
      BY <2>5, Fun_BijectionProperties
    <2>7. 1 .. k \subseteq 1 .. n  BY <2>2, <2>3
    <2>8. g \in [T -> 1 .. n]  BY <2>6, <2>7
    <2>9. g \in Injection(T, 1 .. n)  BY <2>6, <2>8, Fun_IsInj
    <2> QED  BY <2>1, <2>9
  <1>2. \A c \in Clients : slot[c] \in Injection(Of(c), 1 .. n)  BY <1>1
  <1> HIDE DEF slot
  <1>3. \A c \in Clients : /\ slot[c] \in [Of(c) -> 1 .. n]
                           /\ \A a, b \in Of(c) : slot[c][a] = slot[c][b] => a = b
    <2> SUFFICES ASSUME NEW c \in Clients
                 PROVE  /\ slot[c] \in [Of(c) -> 1 .. n]
                        /\ \A a, b \in Of(c) : slot[c][a] = slot[c][b] => a = b
      OBVIOUS
    <2>1. PICK T : T = Of(c)  OBVIOUS
    <2>2. PICK g : g = slot[c]  OBVIOUS
    <2>3. g \in Injection(T, 1 .. n)  BY <1>2, <2>1, <2>2
    <2>4. g \in [T -> 1 .. n] /\ \A a, b \in T : g[a] = g[b] => a = b
      BY <2>3, Fun_InjectionProperties
    <2> QED  BY <2>1, <2>2, <2>4
  <1>4. place \in [S -> Clients \X (1 .. n)]
    <2>1. \A o \in S : f[o] \in Clients /\ o \in Of(f[o])  OBVIOUS
    <2>2. \A o \in S : slot[f[o]][o] \in 1 .. n  BY <1>3, <2>1
    <2> QED  BY <2>1, <2>2
  <1>5. ASSUME NEW a \in S, NEW b \in S, place[a] = place[b]  PROVE a = b
    <2>1. f[a] = f[b] /\ slot[f[a]][a] = slot[f[a]][b]  BY <1>5
    <2>2. f[a] \in Clients /\ a \in Of(f[a]) /\ b \in Of(f[a])  BY <2>1
    <2> QED  BY <1>3, <2>1, <2>2
  <1>6. place \in Injection(S, Clients \X (1 .. n))  BY <1>4, <1>5, Fun_IsInj
  <1>7. IsFiniteSet(1 .. n) /\ Cardinality(1 .. n) = n  BY FS_Interval
  <1>8. /\ IsFiniteSet(Clients \X (1 .. n))
        /\ Cardinality(Clients \X (1 .. n)) = Cardinality(Clients) * n
    BY <1>7, FS_Product, ServerAssumption
  <1> QED  BY <1>6, <1>8, FS_Injection

\* A set of replies, each under way, lost or got, is as large as all the windows
\* at most.
LEMMA RepliesFew ==
  ASSUME ReplyInv, AnsweredFirst, NEW S,
         \A o \in S : /\ ov[o].id \in Clients
                      /\ o \in Unanswered(ov[o].id) \cup Behind(ov[o].id, 0)
  PROVE  IsFiniteSet(S) /\ Cardinality(S) <= Cardinality(Clients) * Window
  <1> DEFINE f == [o \in S |-> ov[o].id]
  <1>1. f \in [S -> Clients]  OBVIOUS
  <1>2. ASSUME NEW c \in Clients
        PROVE  /\ IsFiniteSet({o \in S : f[o] = c})
               /\ Cardinality({o \in S : f[o] = c}) <= Window
    <2>1. PICK T : T = {o \in S : f[o] = c}  OBVIOUS
    <2>2. T \in SUBSET (Unanswered(c) \cup Behind(c, 0))  BY <2>1
    <2>3. /\ IsFiniteSet(Unanswered(c) \cup Behind(c, 0))
          /\ Cardinality(Unanswered(c) \cup Behind(c, 0)) <= Window
      BY WindowBounds
    <2>4. /\ IsFiniteSet(T) /\ Cardinality(T) <= Cardinality(Unanswered(c) \cup Behind(c, 0))
      BY <2>2, <2>3, FS_Subset
    <2>5. Cardinality(T) \in Nat /\ Cardinality(Unanswered(c) \cup Behind(c, 0)) \in Nat
      BY <2>3, <2>4, FS_CardinalityType
    <2>6. Cardinality(T) <= Window  BY <2>3, <2>4, <2>5, ServerAssumption
    <2> QED  BY <2>1, <2>4, <2>6
  <1> HIDE DEF f
  <1> QED  BY <1>1, <1>2, ForEachClient, ServerAssumption

\* An empty queue holds nothing.
LEMMA EmptyRange == Range(<<>>) = {}
  BY DEF Range

\* All the windows together, and one overlapped more for each client.
LEMMA AllWindows ==
  \E n, k \in Nat : /\ n = Cardinality(Clients) /\ k = Cardinality(Clients) * Window
                    /\ Cardinality(Clients) * (1 + Window) = n + k
  <1>1. PICK n \in Nat : n = Cardinality(Clients)  BY FS_CardinalityType, ServerAssumption
  <1>2. PICK w \in Nat : w = Window  BY ServerAssumption
  <1>3. n * (1 + w) = n + n * w /\ n * w \in Nat  OBVIOUS
  <1> QED  BY <1>1, <1>2, <1>3

\* The spare overlapped and the chains.
LEMMA SparesAndChains ==
  ASSUME LeakInv
  PROVE  /\ IsFiniteSet(Spares \cup ChainsTaken)
         /\ Cardinality(Spares \cup ChainsTaken) <= 1 + Cardinality(Clients)
  <1>1. ChainInv /\ LossInv  BY DEF LeakInv, ReplyInv
  <1>2. IsFiniteSet(Spares) /\ Cardinality(Spares) \in Nat /\ Cardinality(Spares) <= 1
    <2>1. IsFiniteSet(Spares)
      <3>1. Spares \in SUBSET lost /\ IsFiniteSet(lost)  BY <1>1, LossTypes DEF Spares
      <3> QED  BY <3>1, FS_Subset
    <2>2. CASE Spares = {}  BY <2>1, <2>2, FS_EmptySet
    <2>3. CASE Spares # {}
      <3>1. PICK x : Spares = {x}  BY <1>1, <2>3 DEF LossInv
      <3> QED  BY <2>1, <3>1, FS_Singleton
    <2> QED  BY <2>2, <2>3
  <1>3. /\ IsFiniteSet(ChainsTaken) /\ Cardinality(ChainsTaken) \in Nat
        /\ Cardinality(ChainsTaken) <= Cardinality(Accepted)
    BY <1>1, LossTypes DEF LossInv
  <1>4. /\ Cardinality(Accepted) \in Nat /\ Cardinality(Clients) \in Nat
        /\ Cardinality(Accepted) <= Cardinality(Clients)
    <2>1. Accepted \in SUBSET Clients  BY DEF Accepted
    <2> QED  BY <1>1, <2>1, LossTypes, FS_Subset, FS_CardinalityType, ServerAssumption
  <1>5. /\ IsFiniteSet(Spares \cup ChainsTaken) /\ Cardinality(Spares \cup ChainsTaken) \in Nat
        /\ Cardinality(Spares \cup ChainsTaken) <= Cardinality(Spares) + Cardinality(ChainsTaken)
    BY <1>2, <1>3, Covered
  <1> QED  BY <1>2, <1>3, <1>4, <1>5

\* A client socket is never accepted again, so each can leak its chain and the
\* replies of one window at most, besides the overlapped that the ring refused:
\* the leaks of Client.cpp:83 and 115 and Session.cpp:44 cannot drain the pool
\* beyond that, however long the server runs and whatever its peers do.
THEOREM LeaksBounded == Spec => []LeaksAreBounded
  <1>1. ASSUME LeakInv  PROVE LeaksAreBounded
    <2>1. ChainInv /\ OwnInv /\ TypeInv /\ ReplyInv /\ LossInv /\ AnsweredFirst
      BY <1>1 DEF LeakInv, ReplyInv, ChainInv, OwnInv
    <2>2. lost \subseteq (Spares \cup ChainsTaken) \cup LostSends
      <3>1. \A o \in lost : ov[o].op \in {"default", "accept", "recv", "send"}
        BY <2>1 DEF TypeInv, TypeOK
      <3> QED  BY <3>1 DEF Spares, ChainsTaken, LostChains, LostSends, IsChain
    <2>3. \A o \in LostSends : ov[o].id \in Clients /\ o \in Unanswered(ov[o].id)
      BY <2>1, LossTypes DEF LossInv, LostSends, Unanswered
    <2>4. IsFiniteSet(LostSends) /\ Cardinality(LostSends) <= Cardinality(Clients) * Window
      BY <2>1, <2>3, RepliesFew
    <2>5. /\ IsFiniteSet(Spares \cup ChainsTaken)
          /\ Cardinality(Spares \cup ChainsTaken) <= 1 + Cardinality(Clients)
      BY <1>1, SparesAndChains
    <2>6. /\ Cardinality(lost) \in Nat /\ Cardinality(LostSends) \in Nat
          /\ Cardinality(Spares \cup ChainsTaken) \in Nat
          /\ Cardinality(lost) <= Cardinality(Spares \cup ChainsTaken) + Cardinality(LostSends)
      BY <2>2, <2>4, <2>5, Covered
    <2>7. PICK n \in Nat, k \in Nat :
            /\ n = Cardinality(Clients) /\ k = Cardinality(Clients) * Window
            /\ Cardinality(Clients) * (1 + Window) = n + k
      BY AllWindows
    <2>8. Cardinality(lost) <= 1 + (n + k)  BY <2>4, <2>5, <2>6, <2>7
    <2> QED  BY <2>7, <2>8 DEF LeaksAreBounded
  <1> QED  BY <1>1, LeakInvHolds, PTL

\* Every reply is under way, lost, got, or about to be recycled.
LEMMA SendsPlaced ==
  ASSUME LeakInv, Started, NEW o \in Overlappeds, ov[o].op = "send", o \notin InPool
  PROVE  \/ o \in AtRecycle
         \/ ov[o].id \in Clients /\ o \in Unanswered(ov[o].id) \cup Behind(ov[o].id, 0)
  <1>1. ChainInv /\ OwnInv /\ TypeInv /\ LossInv /\ Placed
    BY DEF LeakInv, ReplyInv, ChainInv, OwnInv
  <1>2. CASE o \in lost  BY <1>1, <1>2 DEF LossInv, LostSends, Unanswered
  <1>3. ASSUME NEW c \in Clients, o \in AtKernel(c)  PROVE ov[o].id = c /\ o \in Unanswered(c)
    <2>1. ov[o].id = c  BY <1>1, <1>3 DEF OwnInv, Operations, KernelOps
    <2> QED  BY <1>3, <2>1 DEF Unanswered
  <1>4. CASE o \in AtPort
    <2>1. PICK x \in Port : x.ov = o  BY <1>4 DEF AtPort
    <2>2. ov[o].id = x.key /\ x.key \in Clients
      BY <1>1, <2>1 DEF OwnInv, Operations, PortOps, Operated, ClientOf
    <2>3. CASE ~ x.ok  BY <2>1, <2>2, <2>3 DEF Unanswered
    <2>4. CASE x.ok
      <3>1. PICK k \in DOMAIN completions : completions[k] = x  BY <2>1 DEF Port, Range
      <3>2. k > 0  BY <1>1, <2>2, ReplyTypes
      <3>3. SentOk(completions[k], x.key)  BY <2>1, <2>4, <3>1 DEF SentOk
      <3>4. completions[k].ov \in Behind(x.key, 0)  BY <3>2, <3>3 DEF Behind
      <3> QED  BY <2>1, <2>2, <3>1, <3>4
    <2> QED  BY <2>3, <2>4
  <1>5. ASSUME NEW s \in Sessions, o \in HeldBy(s)  PROVE o \in AtRecycle
    <2>1. Holding(s) /\ cur[s].ov = o  BY <1>5 DEF HeldBy
    <2>2. ~ Working(s)  BY <1>1, <2>1 DEF OwnInv, Operations, SessionOps, IsChain
    <2>3. at[s] = "recycle"  BY <2>1, <2>2 DEF Holding, Working
    <2> QED  BY <2>1, <2>3 DEF AtRecycle, Recycling
  <1> QED  BY <1>1, <1>2, <1>3, <1>4, <1>5 DEF Placed

\* With more overlappeds than this pop() never returns nullptr: one for the chain
\* of each client and for each message of its window, and one for each session
\* thread, which holds one more while it pushes it back.
Suffices == Cardinality(Overlappeds) > Cardinality(Clients) * (1 + Window) + Cardinality(Sessions)

\* The count that no pool of the sizing rule meets: a overlappeds among b chains and
\* spares and r others, where at most d answer and e are on their way back.
LEMMA TooMany ==
  ASSUME NEW a \in Nat, NEW b \in Nat, NEW r \in Nat, NEW d \in Nat, NEW e \in Nat,
         NEW m \in Nat, NEW n \in Nat, NEW k \in Nat,
         a <= b + r, r <= d + e, a > (n + k) + m, b <= 1 + n, d <= k, e <= m - 1
  PROVE  FALSE
  OBVIOUS

\* No fault, no order of the completions and no peer makes pop() return nullptr
\* (Client.cpp:44, 78 and 107) in a server of Suffices overlappeds.
THEOREM PoolNeverDry ==
  ASSUME Suffices  PROVE Spec => []NeverExhausted
  <1>1. LeakInv /\ CrashFrozen => NeverExhausted
    <2> SUFFICES ASSUME LeakInv, CrashFrozen, crashed = "null overlapped"  PROVE FALSE
      BY DEF NeverExhausted
    <2>1. /\ ChainInv /\ OwnInv /\ TypeInv /\ ReplyInv /\ LossInv /\ AnsweredFirst
          /\ Started /\ pool = <<>>
      BY DEF LeakInv, ReplyInv, ChainInv, OwnInv, CrashFrozen
    <2>2. PICK s \in Sessions : Working(s)  BY DEF CrashFrozen
    <2> DEFINE Rest == {o \in Overlappeds : ov[o].op = "send" /\ o \notin AtRecycle}
    <2>3. InPool = {}  BY <2>1, EmptyRange DEF InPool
    <2>4. \A o \in Rest : /\ ov[o].id \in Clients
                          /\ o \in Unanswered(ov[o].id) \cup Behind(ov[o].id, 0)
      BY <2>1, <2>3, SendsPlaced
    <2>5. Overlappeds \subseteq (Spares \cup ChainsTaken) \cup (Rest \cup AtRecycle)
      <3>1. \A o \in Overlappeds : ov[o].op \in {"default", "accept", "recv", "send"}
        BY <2>1 DEF TypeInv, TypeOK
      <3>2. ASSUME NEW o \in Overlappeds, o \in lost, ov[o].op # "send"
            PROVE  o \in Spares \cup ChainsTaken
        BY <3>1, <3>2 DEF Spares, ChainsTaken, LostChains, IsChain
      <3>3. ASSUME NEW o \in Overlappeds, o \notin lost, ov[o].op # "send"
            PROVE  o \in ChainsTaken \cup AtRecycle
        BY <2>1, <2>3, <3>3, SomeUse DEF ChainsTaken
      <3> QED  BY <3>2, <3>3
    <2> HIDE DEF Rest
    <2>6. IsFiniteSet(Rest) /\ Cardinality(Rest) <= Cardinality(Clients) * Window
      BY <2>1, <2>4, RepliesFew
    <2>7. /\ IsFiniteSet(Spares \cup ChainsTaken)
          /\ Cardinality(Spares \cup ChainsTaken) <= 1 + Cardinality(Clients)
      BY SparesAndChains
    <2>8. /\ IsFiniteSet(AtRecycle)
          /\ Cardinality(AtRecycle) <= Cardinality(Sessions) - 1
      BY <2>2, RecyclingFew
    <2>9. /\ IsFiniteSet(Rest \cup AtRecycle) /\ Cardinality(Rest \cup AtRecycle) \in Nat
          /\ Cardinality(Rest) \in Nat /\ Cardinality(AtRecycle) \in Nat
          /\ Cardinality(Rest \cup AtRecycle) <= Cardinality(Rest) + Cardinality(AtRecycle)
      BY <2>6, <2>8, Covered
    <2>10. /\ Cardinality(Overlappeds) \in Nat /\ Cardinality(Spares \cup ChainsTaken) \in Nat
           /\ Cardinality(Overlappeds)
                <= Cardinality(Spares \cup ChainsTaken) + Cardinality(Rest \cup AtRecycle)
      BY <2>5, <2>7, <2>9, Covered
    <2>11. PICK n \in Nat, k \in Nat :
             /\ n = Cardinality(Clients) /\ k = Cardinality(Clients) * Window
             /\ Cardinality(Clients) * (1 + Window) = n + k
      BY AllWindows
    <2>12. Cardinality(Overlappeds) > (n + k) + Cardinality(Sessions)
      BY <2>11 DEF Suffices
    <2>13. Cardinality(Sessions) \in Nat  BY FS_CardinalityType, ServerAssumption
    <2>14. Cardinality(Spares \cup ChainsTaken) <= 1 + n /\ Cardinality(Rest) <= k
      BY <2>6, <2>7, <2>11
    <2>15. PICK a \in Nat, b \in Nat, r \in Nat, d \in Nat, e \in Nat, m \in Nat :
             /\ a = Cardinality(Overlappeds) /\ b = Cardinality(Spares \cup ChainsTaken)
             /\ r = Cardinality(Rest \cup AtRecycle)
             /\ d = Cardinality(Rest) /\ e = Cardinality(AtRecycle) /\ m = Cardinality(Sessions)
      BY <2>9, <2>10, <2>13
    <2>16. /\ a <= b + r /\ r <= d + e
           /\ a > (n + k) + m /\ b <= 1 + n /\ d <= k /\ e <= m - 1
      BY <2>8, <2>9, <2>10, <2>12, <2>14, <2>15
    <2> QED  BY <2>11, <2>15, <2>16, TooMany
  <1> QED  BY <1>1, CrashFrozenHolds, LeakInvHolds, PTL
=============================================================================
