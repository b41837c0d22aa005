-------------------------- MODULE IocpConnectionProofs --------------------------
(***************************************************************************)
(* What the connections of the server keep, from the owners of the         *)
(* overlappeds (IocpServerProofs):                                         *)
(*   - one receive for every living connection (ChainKept);                *)
(*   - a null overlapped only when leaks and unfinished sends hold all but *)
(*     one overlapped per client and thread (CrashExplained).              *)
(***************************************************************************)
EXTENDS IocpServerProofs

-----------------------------------------------------------------------------
(* The chain of a client: the overlapped of its accept or receive, while    *)
(* the kernel, the port or a session that will post the next one has it.    *)

KernelChains(c) == {o \in AtKernel(c) : IsChain(o)}
PortChains(c)   == {x.ov : x \in {y \in Port : IsChain(y.ov) /\ ClientOf(y) = c}}
WorkChains(c)   == {cur[s].ov : s \in {r \in Sessions : Working(r) /\ ClientOf(cur[r]) = c}}
ChainSet(c)     == KernelChains(c) \cup PortChains(c) \cup WorkChains(c)

\* A connection has at most one chain; it gets it when the main thread posts
\* its accept, and can lose it only when it is reset.
ChainRule(c) ==
  /\ \A a, b \in ChainSet(c) : a = b
  /\ sock[c] = "new" => ChainSet(c) = {}
  /\ sock[c] \notin {"new", "rst"} => ChainSet(c) # {}

\* Only a socket that listens has an accept posted.
AcceptsListen == \A c \in Clients : \A o \in AtKernel(c) :
                   ov[o].op = "accept" => sock[c] = "listening"

\* An operation of a chain fails only on a reset connection.
FailedReset == \A x \in Port : IsChain(x.ov) /\ ~ x.ok => sock[ClientOf(x)] = "rst"

ChainInv == OwnInv /\ (\A c \in Clients : ChainRule(c)) /\ AcceptsListen /\ FailedReset

\* Before Initialize there are no chains.
LEMMA ChainInit == Init => ChainInv
  <1> SUFFICES ASSUME Init  PROVE ChainInv  OBVIOUS
  <1>1. OwnInv  BY OwnInit
  <1>2. Range(<<>>) = {}  BY DEF Range
  <1>3. Port = {} /\ \A c \in Clients : AtKernel(c) = {} /\ sock[c] = "new"
    BY <1>2 DEF Init, Port, AtKernel
  <1>4. \A s \in Sessions : ~ Working(s)  BY DEF Init, Working
  <1>5. \A c \in Clients : ChainSet(c) = {}
    BY <1>3, <1>4 DEF ChainSet, KernelChains, PortChains, WorkChains
  <1> QED  BY <1>1, <1>3, <1>5 DEF ChainInv, ChainRule, AcceptsListen, FailedReset

\* What is in a chain is in use, and says so.
LEMMA ChainPlaces ==
  ASSUME OwnInv
  PROVE  /\ \A c \in Clients : KernelChains(c) \subseteq AtKernel(c) /\ PortChains(c) \subseteq AtPort
         /\ \A s \in Sessions : Working(s) => /\ cur[s].ov \in HeldBy(s) /\ IsChain(cur[s].ov)
                                              /\ cur[s].ov \in WorkChains(ClientOf(cur[s]))
         /\ \A c \in Clients : \A o \in WorkChains(c) :
              \E s \in Sessions : Working(s) /\ cur[s].ov = o /\ ClientOf(cur[s]) = c
         /\ \A c \in Clients : \A o \in ChainSet(c) : o \in Overlappeds /\ IsChain(o)
  <1>1. \A s \in Sessions : Working(s) => /\ Holding(s) /\ cur[s].ov \in HeldBy(s)
                                          /\ IsChain(cur[s].ov)
                                          /\ cur[s].ov \in WorkChains(ClientOf(cur[s]))
    BY DEF OwnInv, Operations, SessionOps, Working, Holding, HeldBy, WorkChains
  <1>2. \A c \in Clients : KernelChains(c) \subseteq AtKernel(c) /\ PortChains(c) \subseteq AtPort
    BY DEF KernelChains, PortChains, AtPort
  <1>3. \A c \in Clients : \A o \in WorkChains(c) :
          \E s \in Sessions : Working(s) /\ cur[s].ov = o /\ ClientOf(cur[s]) = c
    BY DEF WorkChains
  <1>4. ASSUME NEW c \in Clients, NEW o \in ChainSet(c)  PROVE o \in Overlappeds /\ IsChain(o)
    <2>1. CASE o \in KernelChains(c)
      <3>1. AtKernel(c) \subseteq Overlappeds
        BY RangeOfSeq DEF AtKernel, OwnInv, TypeInv, TypeOK
      <3> QED  BY <2>1, <3>1 DEF KernelChains
    <2>2. CASE o \in PortChains(c)
      <3>1. Port \subseteq Completion
        BY RangeOfSeq DEF Port, OwnInv, TypeInv, TypeOK
      <3> QED  BY <2>2, <3>1 DEF PortChains, Completion
    <2>3. CASE o \in WorkChains(c)
      <3>1. PICK s \in Sessions : Working(s) /\ cur[s].ov = o  BY <1>3, <2>3
      <3>2. Holding(s)  BY <1>1, <3>1
      <3> QED  BY <1>1, <3>1, <3>2, ServedTyped DEF OwnInv
    <2> QED  BY <2>1, <2>2, <2>3 DEF ChainSet
  <1> QED  BY <1>1, <1>2, <1>3, <1>4

\* Chains do not depend on the contents of an overlapped that is not in use.
LEMMA ChainsSay ==
  ASSUME OwnInv, NEW o \in Overlappeds, \A p \in Overlappeds \ {o} : ov'[p] = ov[p],
         o \notin AtPort, \A d \in Clients : o \notin AtKernel(d), Port' = Port
  PROVE  /\ \A d \in Clients : \A p \in AtKernel(d) : ov'[p] = ov[p] /\ (IsChain(p)' <=> IsChain(p))
         /\ \A x \in Port : ov'[x.ov] = ov[x.ov]
         /\ \A d \in Clients : PortChains(d)' = PortChains(d)
  <1>1. \A d \in Clients : \A p \in AtKernel(d) : p \in Overlappeds \ {o}
    <2>1. \A d \in Clients : AtKernel(d) \subseteq Overlappeds
      BY RangeOfSeq DEF AtKernel, OwnInv, TypeInv, TypeOK
    <2> QED  BY <2>1
  <1>2. \A x \in Port : ov'[x.ov] = ov[x.ov]
    <2>1. Port \subseteq Completion
      BY RangeOfSeq DEF Port, OwnInv, TypeInv, TypeOK
    <2>2. \A x \in Port : x.ov \in Overlappeds /\ x.ov \in AtPort
      BY <2>1 DEF Completion, AtPort
    <2> QED  BY <2>2
  <1>3. \A x \in Port : (IsChain(x.ov)' <=> IsChain(x.ov)) /\ ClientOf(x)' = ClientOf(x)
    BY <1>2 DEF IsChain, ClientOf
  <1>4. \A d \in Clients : PortChains(d)' = PortChains(d)
    BY <1>3 DEF PortChains
  <1>5. \A d \in Clients : \A p \in AtKernel(d) : ov'[p] = ov[p] /\ (IsChain(p)' <=> IsChain(p))
    BY <1>1 DEF IsChain
  <1> QED  BY <1>2, <1>4, <1>5

\* A session keeps its chain while it works and its overlapped says the same.
LEMMA WorkSame ==
  ASSUME \A s \in Sessions : /\ Working(s)' <=> Working(s)
                             /\ Working(s) => /\ cur'[s] = cur[s]
                                              /\ ov'[cur[s].ov].op = ov[cur[s].ov].op
                                              /\ ov'[cur[s].ov].id = ov[cur[s].ov].id,
         NEW d \in Clients
  PROVE  WorkChains(d)' = WorkChains(d)
  <1>1. \A s \in Sessions : /\ Working(s)' <=> Working(s)
                            /\ Working(s) => cur'[s] = cur[s] /\ ClientOf(cur[s])' = ClientOf(cur[s])
    BY DEF ClientOf
  <1> QED  BY <1>1 DEF WorkChains

\* An operation that fails does so on a connection that stays reset.
LEMMA FailedResetKept ==
  ASSUME OwnInv, FailedReset, Port' \subseteq Port, \A x \in Port : ov'[x.ov] = ov[x.ov],
         \A d \in Clients : sock[d] = "rst" => sock'[d] = "rst"
  PROVE  FailedReset'
  <1>1. \A x \in Port : ClientOf(x) \in Clients  BY DEF OwnInv, Operations, PortOps, Operated
  <1>2. \A x \in Port : (IsChain(x.ov)' <=> IsChain(x.ov)) /\ ClientOf(x)' = ClientOf(x)
    BY DEF IsChain, ClientOf
  <1> QED  BY <1>1, <1>2 DEF FailedReset

\* Posting adds the overlapped to the chain of its client, or is a send.
LEMMA PostChains ==
  ASSUME OwnInv, NEW contents \in Contents, NEW c \in Clients, Post(c, contents), cur' = cur,
         contents.op # "default"
  PROVE  /\ Head(pool) \in Overlappeds
         /\ KernelChains(c)' = IF contents.op = "send" THEN KernelChains(c)
                                                       ELSE KernelChains(c) \cup {Head(pool)}
         /\ \A d \in Clients \ {c} : KernelChains(d)' = KernelChains(d)
         /\ \A d \in Clients : PortChains(d)' = PortChains(d)
         /\ \A s \in Sessions : Working(s) => ov'[cur[s].ov] = ov[cur[s].ov]
         /\ Port' = Port /\ \A x \in Port : ov'[x.ov] = ov[x.ov]
         /\ AtKernel(c)' = AtKernel(c) \cup {Head(pool)} /\ ov'[Head(pool)] = contents
         /\ \A d \in Clients \ {c} : AtKernel(d)' = AtKernel(d)
         /\ \A d \in Clients : \A p \in AtKernel(d) : ov'[p] = ov[p]
  <1> DEFINE o == Head(pool)
  <1>1. /\ o \in InPool /\ o \in Overlappeds
        /\ AtKernel(c)' = AtKernel(c) \cup {o}
        /\ \A d \in Clients \ {c} : AtKernel(d)' = AtKernel(d)
        /\ Port' = Port /\ ov'[o] = contents
        /\ \A p \in Overlappeds \ {o} : ov'[p] = ov[p]
    BY PostMoves
  <1> HIDE DEF o
  <1>2. o \notin AtPort /\ \A d \in Clients : o \notin AtKernel(d)
    BY <1>1 DEF OwnInv, Apart
  <1>3. /\ \A d \in Clients : \A p \in AtKernel(d) : ov'[p] = ov[p] /\ (IsChain(p)' <=> IsChain(p))
        /\ \A x \in Port : ov'[x.ov] = ov[x.ov]
        /\ \A d \in Clients : PortChains(d)' = PortChains(d)
    BY <1>1, <1>2, ChainsSay
  <1>4. ov'[o].op \in {"accept", "recv"} <=> contents.op # "send"
    BY <1>1 DEF Contents
  <1>5. KernelChains(c)' = IF contents.op = "send" THEN KernelChains(c) ELSE KernelChains(c) \cup {o}
    <2>1. \A p \in AtKernel(c)' : p \in AtKernel(c) \/ p = o  BY <1>1
    <2>2. \A p \in AtKernel(c) : ov'[p].op = ov[p].op  BY <1>3
    <2> QED  BY <1>1, <1>2, <1>4, <2>1, <2>2 DEF KernelChains, IsChain
  <1>6. \A d \in Clients \ {c} : KernelChains(d)' = KernelChains(d)
    BY <1>1, <1>3 DEF KernelChains
  <1>7. \A s \in Sessions : Working(s) => ov'[cur[s].ov] = ov[cur[s].ov]
    <2>1. \A s \in Sessions : Working(s) => Holding(s)  BY DEF Working, Holding
    <2> QED  BY <1>1, <2>1, InUse
  <1> QED  BY <1>1, <1>3, <1>5, <1>6, <1>7 DEF o

\* A refused call posts nothing.
LEMMA RefusedChains ==
  ASSUME OwnInv, NEW contents \in Contents, PostRefused(contents), cur' = cur
  PROVE  /\ \A d \in Clients : /\ KernelChains(d)' = KernelChains(d)
                               /\ PortChains(d)' = PortChains(d)
                               /\ AtKernel(d)' = AtKernel(d)
                               /\ \A p \in AtKernel(d) : ov'[p] = ov[p]
         /\ \A s \in Sessions : Working(s) => ov'[cur[s].ov] = ov[cur[s].ov]
         /\ Port' = Port /\ \A x \in Port : ov'[x.ov] = ov[x.ov]
  <1> DEFINE o == Head(pool)
  <1>1. /\ o \in InPool /\ o \in Overlappeds
        /\ \A d \in Clients : AtKernel(d)' = AtKernel(d)
        /\ Port' = Port
        /\ \A p \in Overlappeds \ {o} : ov'[p] = ov[p]
    BY RefusedMoves
  <1> HIDE DEF o
  <1>2. o \notin AtPort /\ \A d \in Clients : o \notin AtKernel(d)
    BY <1>1 DEF OwnInv, Apart
  <1>3. /\ \A d \in Clients : \A p \in AtKernel(d) : ov'[p] = ov[p] /\ (IsChain(p)' <=> IsChain(p))
        /\ \A x \in Port : ov'[x.ov] = ov[x.ov]
        /\ \A d \in Clients : PortChains(d)' = PortChains(d)
    BY <1>1, <1>2, ChainsSay
  <1>4. \A d \in Clients : KernelChains(d)' = KernelChains(d)
    BY <1>1, <1>3 DEF KernelChains
  <1>5. \A s \in Sessions : Working(s) => ov'[cur[s].ov] = ov[cur[s].ov]
    <2>1. \A s \in Sessions : Working(s) => Holding(s)  BY DEF Working, Holding
    <2> QED  BY <1>1, <2>1, InUse
  <1> QED  BY <1>1, <1>3, <1>4, <1>5

\* Where no chain changes, the rule holds as long as the connection does.
LEMMA RuleSame ==
  ASSUME NEW c \in Clients, ChainRule(c), ChainSet(c)' = ChainSet(c),
         sock'[c] = "new" => sock[c] = "new",
         sock'[c] \notin {"new", "rst"} => sock[c] \notin {"new", "rst"}
  PROVE  ChainRule(c)'
  BY DEF ChainRule

\* A chain that completes goes on at the port.
LEMMA CompleteChains ==
  ASSUME ChainInv, NEW c \in Clients, NEW i \in DOMAIN pending[c],
         NEW key \in Clients \cup {None}, NEW bytes \in Nat, NEW ok \in BOOLEAN,
         Complete(c, i, key, bytes, ok),
         \A o \in Overlappeds : ov'[o].op = ov[o].op /\ ov'[o].id = ov[o].id,
         ov[pending[c][i]].op # "accept" => key = c,
         \A d \in Clients : sock[d] = "rst" => sock'[d] = "rst",
         ~ ok => sock'[c] = "rst"
  PROVE  /\ \A d \in Clients : ChainSet(d)' = ChainSet(d)
         /\ FailedReset'
         /\ AtKernel(c)' = AtKernel(c) \ {pending[c][i]}
         /\ \A d \in Clients \ {c} : AtKernel(d)' = AtKernel(d)
         /\ \A d \in Clients : \A p \in AtKernel(d) : ov'[p].op = ov[p].op
  <1> DEFINE o == pending[c][i]
  <1>1. PICK x \in Completion : x = [ov |-> o, key |-> key, bytes |-> bytes, ok |-> ok]
    <2>1. pending[c] \in Seq(Overlappeds)  BY DEF ChainInv, OwnInv, TypeInv, TypeOK
    <2>2. o \in Overlappeds  BY <2>1, ElementOfSeq, LenProperties
    <2> QED  BY <2>2 DEF Completion
  <1>2. /\ o \in AtKernel(c) /\ o \in Overlappeds
        /\ x.ov = o /\ x.key = key /\ x.ok = ok
        /\ AtKernel(c)' = AtKernel(c) \ {o}
        /\ \A d \in Clients \ {c} : AtKernel(d)' = AtKernel(d)
        /\ Port' = Port \cup {x} /\ UNCHANGED threads
    BY <1>1, CompleteMoves DEF ChainInv
  <1>3. UNCHANGED <<at, cur>>  BY <1>2 DEF threads
  <1> HIDE DEF o
  <1>4. /\ \A p \in Overlappeds : IsChain(p)' <=> IsChain(p)
        /\ \A y \in Completion : ClientOf(y)' = ClientOf(y) /\ (IsChain(y.ov)' <=> IsChain(y.ov))
    BY DEF IsChain, ClientOf, Completion
  <1>5. ClientOf(x) = c
    BY <1>2 DEF ClientOf, ChainInv, OwnInv, Operations, KernelOps, o
  <1>6. \A d \in Clients : AtKernel(d) \subseteq Overlappeds
    BY RangeOfSeq DEF AtKernel, ChainInv, OwnInv, TypeInv, TypeOK
  <1>7. Port \subseteq Completion
    BY RangeOfSeq DEF Port, ChainInv, OwnInv, TypeInv, TypeOK
  <1>8. /\ KernelChains(c)' = KernelChains(c) \ {o}
        /\ \A d \in Clients \ {c} : KernelChains(d)' = KernelChains(d)
    BY <1>2, <1>4, <1>6 DEF KernelChains
  <1>9. /\ PortChains(c)' = PortChains(c) \cup {p \in {o} : IsChain(p)}
        /\ \A d \in Clients \ {c} : PortChains(d)' = PortChains(d)
    <2>1. \A y \in Port' : y \in Port \/ y = x  BY <1>2
    <2>2. \A d \in Clients : {y \in Port' : IsChain(y.ov)' /\ ClientOf(y)' = d}
            = {y \in Port : IsChain(y.ov) /\ ClientOf(y) = d}
              \cup {y \in {x} : IsChain(y.ov) /\ ClientOf(y) = d}
      BY <1>2, <1>4, <1>7, <2>1
    <2> QED  BY <1>2, <1>5, <2>2 DEF PortChains
  <1>10. \A d \in Clients : WorkChains(d)' = WorkChains(d)
    <2>1. \A s \in Sessions : Working(s) => cur[s].ov \in Overlappeds
      BY ServedTyped DEF ChainInv, OwnInv, Working, Holding
    <2> QED  BY <1>3, <2>1, WorkSame DEF Working
  <1>11. o \in KernelChains(c) <=> IsChain(o)  BY <1>2 DEF KernelChains
  <1>12. \A d \in Clients : ChainSet(d)' = ChainSet(d)
    BY <1>8, <1>9, <1>10, <1>11 DEF ChainSet
  <1>13. FailedReset'
    <2>1. ASSUME NEW y \in Port', IsChain(y.ov)', ~ y.ok  PROVE sock'[ClientOf(y)'] = "rst"
      <3>1. CASE y \in Port
        <4>1. ClientOf(y)' = ClientOf(y) /\ IsChain(y.ov)  BY <1>4, <1>7, <2>1, <3>1
        <4>2. ClientOf(y) \in Clients /\ sock[ClientOf(y)] = "rst"
          BY <2>1, <3>1, <4>1 DEF ChainInv, FailedReset, OwnInv, Operations, PortOps, Operated
        <4> QED  BY <4>1, <4>2
      <3>2. CASE y = x  BY <1>2, <1>4, <1>5, <2>1, <3>2
      <3> QED  BY <1>2, <2>1, <3>1, <3>2
    <2> QED  BY <2>1 DEF FailedReset
  <1> QED  BY <1>2, <1>6, <1>12, <1>13 DEF o

\* A chain that a session takes goes on there.
LEMMA TakeChains ==
  ASSUME ChainInv, NEW s \in Sessions, NEW next \in {"dispatch", "rearm", "recycle"},
         Take(s, next), next = "recycle" <=> TakenOp = "send"
  PROVE  \A d \in Clients : ChainSet(d)' = ChainSet(d)
  <1>1. PICK x \in Completion : x = Head(completions)
    BY TakeMoves DEF Take, ChainInv
  <1>2. /\ x \in Port /\ Port' = Port \ {x}
        /\ \A y \in Port : y.ov = x.ov => y = x
    BY <1>1, TakeMoves DEF Take, ChainInv, OwnInv, EachOnce
  <1>3. /\ at[s] = "wait" /\ UNCHANGED <<pool, lost, ov, pending>>
        /\ cur' = [cur EXCEPT ![s] = x] /\ at' = [at EXCEPT ![s] = next]
    BY <1>1 DEF Take, objects
  <1>4. cur'[s] = x /\ at'[s] = next /\ \A r \in Sessions \ {s} : cur'[r] = cur[r] /\ at'[r] = at[r]
    BY <1>3 DEF ChainInv, OwnInv, TypeInv, TypeOK
  <1>5. /\ \A p : IsChain(p)' <=> IsChain(p)
        /\ \A y : ClientOf(y)' = ClientOf(y)
    BY <1>3 DEF IsChain, ClientOf
  <1>6. \A d \in Clients : KernelChains(d)' = KernelChains(d)
    BY <1>3, <1>5 DEF KernelChains, AtKernel
  <1>7. IsChain(x.ov) <=> next # "recycle"
    <2>1. x.ov \in Overlappeds /\ ov[x.ov].op # "default"
      BY <1>2 DEF Completion, ChainInv, OwnInv, Operations, PortOps, Operated
    <2>2. ov[x.ov].op \in {"default", "accept", "recv", "send"}
      BY <2>1 DEF ChainInv, OwnInv, TypeInv, TypeOK
    <2> QED  BY <1>1, <2>1, <2>2 DEF IsChain, TakenOp
  <1>8. \A d \in Clients :
          PortChains(d) = PortChains(d)' \cup {y.ov : y \in {z \in {x} : IsChain(z.ov) /\ ClientOf(z) = d}}
    <2>1. \A d \in Clients : {y \in Port : IsChain(y.ov) /\ ClientOf(y) = d}
            = {y \in Port' : IsChain(y.ov)' /\ ClientOf(y)' = d}
              \cup {z \in {x} : IsChain(z.ov) /\ ClientOf(z) = d}
      BY <1>2, <1>5
    <2> QED  BY <2>1 DEF PortChains
  <1>9. \A d \in Clients :
          WorkChains(d)' = WorkChains(d) \cup {y.ov : y \in {z \in {x} : IsChain(z.ov) /\ ClientOf(z) = d}}
    <2>1. ~ Working(s) /\ (Working(s)' <=> IsChain(x.ov))
      BY <1>3, <1>4, <1>7 DEF Working
    <2>2. \A r \in Sessions \ {s} : (Working(r)' <=> Working(r)) /\ cur'[r] = cur[r]
      BY <1>4 DEF Working
    <2>3. ASSUME NEW d \in Clients, NEW o \in WorkChains(d)'
          PROVE  o \in WorkChains(d) \/ (o = x.ov /\ IsChain(x.ov) /\ ClientOf(x) = d)
      <3>1. PICK r \in Sessions : Working(r)' /\ ClientOf(cur[r])' = d /\ o = cur'[r].ov
        BY DEF WorkChains
      <3>2. CASE r = s  BY <1>3, <1>4, <2>1, <3>1, <3>2 DEF ClientOf
      <3>3. CASE r # s  BY <1>3, <2>2, <3>1, <3>3 DEF WorkChains, ClientOf
      <3> QED  BY <3>2, <3>3
    <2>4. ASSUME NEW d \in Clients, NEW o \in WorkChains(d)  PROVE o \in WorkChains(d)'
      <3>1. PICK r \in Sessions : Working(r) /\ ClientOf(cur[r]) = d /\ o = cur[r].ov
        BY DEF WorkChains
      <3>2. r # s  BY <2>1, <3>1
      <3> QED  BY <1>5, <2>2, <3>1, <3>2 DEF WorkChains
    <2>5. ASSUME NEW d \in Clients, IsChain(x.ov), ClientOf(x) = d  PROVE x.ov \in WorkChains(d)'
      BY <1>4, <1>5, <2>1, <2>5 DEF WorkChains
    <2> QED  BY <2>3, <2>4, <2>5
  <1> QED  BY <1>6, <1>8, <1>9 DEF ChainSet

\* A step that touches no operation and ends no session's work.
LEMMA QuietChains ==
  ASSUME ChainInv, OwnInv', UNCHANGED <<ov, pending, completions>>,
         \A s \in Sessions : (Working(s)' <=> Working(s)) /\ (Working(s) => cur'[s] = cur[s]),
         \A d \in Clients : /\ sock'[d] = "new" => sock[d] = "new"
                            /\ sock'[d] \notin {"new", "rst"} => sock[d] \notin {"new", "rst"}
                            /\ sock[d] \in {"listening", "rst"} => sock'[d] = sock[d]
  PROVE  ChainInv'
  <1>1. Port' = Port /\ \A d \in Clients : AtKernel(d)' = AtKernel(d)  BY DEF Port, AtKernel
  <1>2. \A d \in Clients : WorkChains(d)' = WorkChains(d)  BY WorkSame
  <1>3. \A d \in Clients : KernelChains(d)' = KernelChains(d) /\ PortChains(d)' = PortChains(d)
    BY <1>1 DEF KernelChains, PortChains, IsChain, ClientOf
  <1>4. \A d \in Clients : ChainSet(d)' = ChainSet(d)  BY <1>2, <1>3 DEF ChainSet
  <1>5. \A d \in Clients : ChainRule(d)'  BY <1>4, RuleSame DEF ChainInv
  <1>6. AcceptsListen'  BY <1>1 DEF ChainInv, AcceptsListen
  <1>7. FailedReset'
    <2>1. \A d \in Clients : sock[d] = "rst" => sock'[d] = "rst"  OBVIOUS
    <2> QED  BY <1>1, <2>1, FailedResetKept DEF ChainInv
  <1> QED  BY <1>5, <1>6, <1>7 DEF ChainInv

\* Every step keeps the chains: the main thread's,
LEMMA MainChains == ASSUME ChainInv, MainStep  PROVE ChainInv'
  <1>0. OwnInv'  BY MainOwned DEF ChainInv
  <1>1. /\ sock \in [Clients -> {"new", "listening", "open", "fin", "rst"}]
        /\ at \in [Sessions -> {"off", "wait", "dispatch", "send", "rearm", "recycle"}]
    BY DEF ChainInv, OwnInv, TypeInv, TypeOK
  <1>2. CASE Initialize \/ InitializeFails \/ ReadyWithoutClients \/ AcceptsPosted \/ ReadySuccess
             \/ SetSendCallback
    <2>1. UNCHANGED <<ov, pending, completions, at, cur, sock>>
      BY <1>2 DEF Initialize, InitializeFails, ReadyWithoutClients, AcceptsPosted, ReadySuccess,
                  SetSendCallback, objects, kernel, peers
    <2> QED  BY <1>0, <2>1, QuietChains DEF Working
  <1>3. ASSUME NEW s \in Sessions, SpawnSession(s)  PROVE ChainInv'
    <2>1. /\ UNCHANGED <<ov, pending, completions, cur, sock>>
          /\ at[s] = "off" /\ at' = [at EXCEPT ![s] = "wait"]
      BY <1>3 DEF SpawnSession, objects, kernel, peers
    <2>2. \A r \in Sessions : Working(r)' <=> Working(r)  BY <1>1, <2>1 DEF Working
    <2> QED  BY <1>0, <2>1, <2>2, QuietChains
  <1>4. ASSUME NEW c \in Clients, AcceptSocketError(c)  PROVE ChainInv'
    <2>1. /\ UNCHANGED <<ov, pending, completions, at, cur>>
          /\ sock[c] = "new" /\ sock' = [sock EXCEPT ![c] = "rst"]
      BY <1>4 DEF AcceptSocketError, objects, kernel, threads
    <2> QED  BY <1>0, <1>1, <2>1, QuietChains DEF Working
  <1>5. ASSUME NEW c \in Clients, AcceptReady(c)  PROVE ChainInv'
    <2> DEFINE contents == [op |-> "accept", id |-> c, msg |-> 0]
    <2>1. contents \in Contents /\ contents.op = "accept" /\ contents.id = c  BY DEF Contents
    <2>2. /\ Post(c, contents) /\ UNCHANGED <<at, cur>>
          /\ sock[c] = "new" /\ sock' = [sock EXCEPT ![c] = "listening"]
      BY <1>5 DEF AcceptReady, threads
    <2> HIDE DEF contents
    <2>3. /\ KernelChains(c)' = KernelChains(c) \cup {Head(pool)}
          /\ \A d \in Clients \ {c} : KernelChains(d)' = KernelChains(d)
          /\ \A d \in Clients : PortChains(d)' = PortChains(d)
          /\ \A s \in Sessions : Working(s) => ov'[cur[s].ov] = ov[cur[s].ov]
          /\ Port' = Port /\ \A x \in Port : ov'[x.ov] = ov[x.ov]
          /\ \A d \in Clients \ {c} : AtKernel(d)' = AtKernel(d)
          /\ \A d \in Clients : \A p \in AtKernel(d) : ov'[p] = ov[p]
      BY <2>1, <2>2, PostChains DEF ChainInv
    <2>4. \A d \in Clients : WorkChains(d)' = WorkChains(d)
      BY <2>2, <2>3, WorkSame DEF Working
    <2>5. sock'[c] = "listening" /\ \A d \in Clients \ {c} : sock'[d] = sock[d]  BY <1>1, <2>2
    <2>6. ChainSet(c) = {}  BY <2>2 DEF ChainInv, ChainRule
    <2>7. ChainSet(c)' = {Head(pool)}  BY <2>3, <2>4, <2>6 DEF ChainSet
    <2>8. \A d \in Clients \ {c} : ChainSet(d)' = ChainSet(d)  BY <2>3, <2>4 DEF ChainSet
    <2>9. ChainRule(c)'  BY <2>5, <2>7 DEF ChainRule
    <2>10. \A d \in Clients \ {c} : ChainRule(d)'  BY <2>5, <2>8, RuleSame DEF ChainInv
    <2>11. AcceptsListen'  BY <2>3, <2>5 DEF ChainInv, AcceptsListen
    <2>12. FailedReset'  BY <2>2, <2>3, <2>5, FailedResetKept DEF ChainInv
    <2> QED  BY <1>0, <2>9, <2>10, <2>11, <2>12 DEF ChainInv
  <1>6. ASSUME NEW c \in Clients, AcceptRefused(c)  PROVE ChainInv'
    <2> DEFINE contents == [op |-> "accept", id |-> c, msg |-> 0]
    <2>1. contents \in Contents  BY DEF Contents
    <2>2. /\ PostRefused(contents) /\ UNCHANGED <<at, cur>>
          /\ sock[c] = "new" /\ sock' = [sock EXCEPT ![c] = "rst"]
      BY <1>6 DEF AcceptRefused, threads
    <2> HIDE DEF contents
    <2>3. /\ \A d \in Clients : /\ KernelChains(d)' = KernelChains(d)
                                /\ PortChains(d)' = PortChains(d)
                                /\ AtKernel(d)' = AtKernel(d)
                                /\ \A p \in AtKernel(d) : ov'[p] = ov[p]
          /\ \A s \in Sessions : Working(s) => ov'[cur[s].ov] = ov[cur[s].ov]
          /\ Port' = Port /\ \A x \in Port : ov'[x.ov] = ov[x.ov]
      BY <2>1, <2>2, RefusedChains DEF ChainInv
    <2>4. \A d \in Clients : WorkChains(d)' = WorkChains(d)
      BY <2>2, <2>3, WorkSame DEF Working
    <2>5. sock'[c] = "rst" /\ \A d \in Clients \ {c} : sock'[d] = sock[d]  BY <1>1, <2>2
    <2>6. \A d \in Clients : ChainSet(d)' = ChainSet(d)  BY <2>3, <2>4 DEF ChainSet
    <2>7. \A d \in Clients : ChainRule(d)'  BY <2>5, <2>6, RuleSame DEF ChainInv
    <2>8. AcceptsListen'  BY <2>2, <2>3, <2>5 DEF ChainInv, AcceptsListen
    <2>9. FailedReset'  BY <2>2, <2>3, <2>5, FailedResetKept DEF ChainInv
    <2> QED  BY <1>0, <2>7, <2>8, <2>9 DEF ChainInv
  <1> QED  BY <1>2, <1>3, <1>4, <1>5, <1>6 DEF MainStep

\* the kernel's,
LEMMA KernelChained == ASSUME ChainInv, NEW c \in Clients, KernelStep(c)  PROVE ChainInv'
  <1>0. OwnInv'  BY KernelOwned DEF ChainInv
  <1>1. sock \in [Clients -> {"new", "listening", "open", "fin", "rst"}]
    BY DEF ChainInv, OwnInv, TypeInv, TypeOK
  <1>2. CASE Connect(c) \/ ConnectFails(c)
    <2>1. PICK i \in Posted(c, "accept"), ok \in BOOLEAN :
            /\ Complete(c, i, None, 0, ok)
            /\ sock' = [sock EXCEPT ![c] = IF ok THEN "open" ELSE "rst"]
      BY <1>2 DEF Connect, ConnectFails
    <2>2. /\ i \in DOMAIN pending[c] /\ ov[pending[c][i]].op = "accept"
          /\ ov' = ov
      BY <1>2, <2>1 DEF Posted, Connect, ConnectFails
    <2>3. /\ pending[c][i] \in AtKernel(c) /\ sock[c] = "listening"
          /\ pending[c][i] \in KernelChains(c)
      BY <2>2 DEF AtKernel, Range, ChainInv, AcceptsListen, KernelChains, IsChain
    <2>4. /\ sock'[c] \in {"open", "rst"} /\ (~ ok => sock'[c] = "rst")
          /\ \A d \in Clients \ {c} : sock'[d] = sock[d]
      BY <1>1, <2>1
    <2>5. /\ \A d \in Clients : ChainSet(d)' = ChainSet(d)
          /\ FailedReset'
          /\ AtKernel(c)' = AtKernel(c) \ {pending[c][i]}
          /\ \A d \in Clients \ {c} : AtKernel(d)' = AtKernel(d)
      BY <2>1, <2>2, <2>3, <2>4, CompleteChains
    <2>6. \A d \in Clients : ChainRule(d)'  BY <2>3, <2>4, <2>5, RuleSame DEF ChainInv
    <2>7. AcceptsListen'
      <3>1. \A p \in AtKernel(c) : ov[p].op = "accept" => p = pending[c][i]
        BY <2>3 DEF ChainInv, ChainRule, ChainSet, KernelChains, IsChain
      <3> QED  BY <2>2, <2>4, <2>5, <3>1 DEF ChainInv, AcceptsListen
    <2> QED  BY <1>0, <2>5, <2>6, <2>7 DEF ChainInv
  <1>3. ASSUME NEW i \in DOMAIN pending[c], NEW bytes \in Nat, NEW ok \in BOOLEAN,
               Complete(c, i, c, bytes, ok), sock' = sock, ~ ok => sock[c] = "rst",
               \A o \in Overlappeds : ov'[o].op = ov[o].op /\ ov'[o].id = ov[o].id
        PROVE  ChainInv'
    <2>1. /\ \A d \in Clients : ChainSet(d)' = ChainSet(d)
          /\ FailedReset'
          /\ AtKernel(c)' = AtKernel(c) \ {pending[c][i]}
          /\ \A d \in Clients \ {c} : AtKernel(d)' = AtKernel(d)
          /\ \A d \in Clients : \A p \in AtKernel(d) : ov'[p].op = ov[p].op
      BY <1>3, CompleteChains
    <2>2. \A d \in Clients : ChainRule(d)'  BY <1>3, <2>1, RuleSame DEF ChainInv
    <2>3. AcceptsListen'  BY <1>3, <2>1 DEF ChainInv, AcceptsListen
    <2> QED  BY <1>0, <2>1, <2>2, <2>3 DEF ChainInv
  <1>4. CASE Deliver(c)
    <2>1. PICK n \in received[c] + 1 .. Len(asked[c]), i \in Posted(c, "recv") :
            /\ Complete(c, i, c, n - received[c], TRUE)
            /\ ov' = [ov EXCEPT ![pending[c][i]].msg = received[c] + 1]
      BY <1>4 DEF Deliver
    <2>2. i \in DOMAIN pending[c] /\ sock' = sock  BY <1>4, <2>1 DEF Posted, Deliver
    <2>3. n - received[c] \in Nat
      <3>1. received[c] \in Nat /\ asked[c] \in Seq({"request", "unknown"})
        BY DEF ChainInv, OwnInv, TypeInv, TypeOK
      <3>2. Len(asked[c]) \in Nat  BY <3>1, LenProperties
      <3> QED  BY <2>1, <3>1, <3>2
    <2>4. \A o \in Overlappeds : ov'[o].op = ov[o].op /\ ov'[o].id = ov[o].id
      BY <2>1 DEF ChainInv, OwnInv, TypeInv, TypeOK
    <2> QED  BY <1>3, <2>1, <2>2, <2>3, <2>4
  <1>5. CASE DeliverEnd(c) \/ Abort(c)
    <2>1. PICK i \in DOMAIN pending[c], ok \in BOOLEAN :
            Complete(c, i, c, 0, ok) /\ (~ ok => sock[c] = "rst")
      BY <1>5 DEF DeliverEnd, Abort, Posted
    <2>2. ov' = ov /\ sock' = sock  BY <1>5 DEF DeliverEnd, Abort, peers
    <2> QED  BY <1>3, <2>1, <2>2
  <1>6. CASE Transmit(c)
    <2>1. PICK i \in Posted(c, "send") : Complete(c, i, c, 1, TRUE)  BY <1>6 DEF Transmit
    <2>2. i \in DOMAIN pending[c] /\ ov' = ov /\ sock' = sock
      BY <1>6, <2>1 DEF Posted, Transmit
    <2> QED  BY <1>3, <2>1, <2>2
  <1> QED  BY <1>2, <1>4, <1>5, <1>6 DEF KernelStep

\* the peers',
LEMMA PeerChained == ASSUME ChainInv, NEW c \in Clients, PeerStep(c)  PROVE ChainInv'
  <1>1. OwnInv'  BY PeerOwned DEF ChainInv
  <1>2. sock \in [Clients -> {"new", "listening", "open", "fin", "rst"}]
    BY DEF ChainInv, OwnInv, TypeInv, TypeOK
  <1>3. /\ UNCHANGED <<ov, pending, completions, cur, at>>
        /\ \/ sock' = sock
           \/ \E how \in {"fin", "rst"} : /\ sock[c] \in {"open", "fin"}
                                          /\ sock' = [sock EXCEPT ![c] = how]
    BY DEF PeerStep, Ask, Hangup, objects, kernel, threads
  <1> QED  BY <1>1, <1>2, <1>3, QuietChains DEF Working

\* A failed operation of a chain ends it; its connection has been reset.
LEMMA FailedChained == ASSUME ChainInv, NEW s \in Sessions, TakeFailed(s)  PROVE ChainInv'
  <1>0. OwnInv'  BY SessionOwned DEF ChainInv, SessionStep
  <1>1. PICK x \in Completion : x = Head(completions)
    BY TakeMoves DEF TakeFailed, ChainInv
  <1>2. /\ x \in Port /\ Port' = Port \ {x} /\ ~ x.ok
        /\ \A y \in Port : y.ov = x.ov => y = x
    BY <1>1, TakeMoves DEF TakeFailed, ChainInv, OwnInv, EachOnce
  <1>3. UNCHANGED <<ov, pending, at, cur, sock>>
    BY DEF TakeFailed, threads, peers
  <1>4. /\ \A p : IsChain(p)' <=> IsChain(p)
        /\ \A y : ClientOf(y)' = ClientOf(y)
    BY <1>3 DEF IsChain, ClientOf
  <1>5. \A d \in Clients : /\ KernelChains(d)' = KernelChains(d)
                           /\ WorkChains(d)' = WorkChains(d)
                           /\ AtKernel(d)' = AtKernel(d)
    BY <1>3, <1>4, WorkSame DEF KernelChains, AtKernel, Working
  <1>6. \A d \in Clients : PortChains(d)' \subseteq PortChains(d)
    BY <1>2, <1>4 DEF PortChains
  <1>7. \A d \in Clients : sock[d] # "rst" => PortChains(d)' = PortChains(d)
    <2>1. ASSUME NEW d \in Clients, sock[d] # "rst"
          PROVE  ~ (IsChain(x.ov) /\ ClientOf(x) = d)
      BY <1>2, <2>1 DEF ChainInv, FailedReset
    <2> QED  BY <1>2, <1>4, <1>6, <2>1 DEF PortChains
  <1>8. ASSUME NEW d \in Clients  PROVE ChainRule(d)'
    BY <1>3, <1>5, <1>6, <1>7 DEF ChainInv, ChainRule, ChainSet
  <1>9. AcceptsListen'  BY <1>3, <1>5 DEF ChainInv, AcceptsListen
  <1>10. FailedReset'  BY <1>2, <1>3, FailedResetKept DEF ChainInv
  <1> QED  BY <1>0, <1>8, <1>9, <1>10 DEF ChainInv

\* A session that is about to post the next receive of its client holds the
\* whole chain.
LEMMA WorkEnds ==
  ASSUME ChainInv, NEW s \in Sessions, Goto(s, "rearm", "recycle"), cur' = cur,
         \A r \in Sessions : Working(r) => ov'[cur[r].ov] = ov[cur[r].ov],
         NEW c \in Clients, c = ServedClient(s)
  PROVE  /\ WorkChains(c)' = {} /\ KernelChains(c) = {} /\ PortChains(c) = {}
         /\ \A d \in Clients \ {c} : WorkChains(d)' = WorkChains(d)
  <1>1. c = ClientOf(cur[s])
    BY ServedKnown DEF ChainInv, Goto, Holding
  <1>2. PICK o : o = cur[s].ov  OBVIOUS
  <1>3. /\ at[s] = "rearm" /\ at' = [at EXCEPT ![s] = "recycle"]
        /\ at \in [Sessions -> {"off", "wait", "dispatch", "send", "rearm", "recycle"}]
    BY DEF Goto, ChainInv, OwnInv, TypeInv, TypeOK
  <1>4. Working(s) /\ ~ Working(s)' /\ \A r \in Sessions \ {s} : Working(r)' <=> Working(r)
    BY <1>3 DEF Working
  <1>5. /\ o \in WorkChains(c) /\ o \in HeldBy(s)
        /\ \A r \in Sessions : Working(r) => /\ cur[r].ov \in HeldBy(r)
                                             /\ cur[r].ov \in WorkChains(ClientOf(cur[r]))
    BY <1>1, <1>2, <1>4, ChainPlaces DEF ChainInv
  <1>6. \A p \in ChainSet(c) : p = o  BY <1>5 DEF ChainInv, ChainRule, ChainSet
  <1>7. KernelChains(c) = {} /\ PortChains(c) = {}
    <2>1. o \notin AtKernel(c) /\ o \notin AtPort  BY <1>5 DEF ChainInv, OwnInv, Apart
    <2>2. KernelChains(c) \subseteq AtKernel(c) /\ PortChains(c) \subseteq AtPort
      BY ChainPlaces DEF ChainInv
    <2> QED  BY <1>6, <2>1, <2>2 DEF ChainSet
  <1>8. \A r \in Sessions : Working(r) => ClientOf(cur[r])' = ClientOf(cur[r])
    BY DEF ClientOf
  <1>9. \A r \in Sessions \ {s} : Working(r) => ClientOf(cur[r]) # c
    <2>1. ASSUME NEW r \in Sessions \ {s}, Working(r), ClientOf(cur[r]) = c  PROVE FALSE
      <3>1. cur[r].ov \in HeldBy(r) /\ cur[r].ov \in ChainSet(c)  BY <1>5, <2>1 DEF ChainSet
      <3>2. cur[r].ov = o  BY <1>6, <3>1
      <3> QED  BY <1>5, <3>1, <3>2 DEF ChainInv, OwnInv, Apart
    <2> QED  BY <2>1
  <1>10. WorkChains(c)' = {}
    BY <1>4, <1>8, <1>9 DEF WorkChains
  <1>11. \A d \in Clients \ {c} : WorkChains(d)' = WorkChains(d)
    <2>1. \A d \in Clients \ {c} :
            {r \in Sessions : Working(r)' /\ ClientOf(cur[r])' = d}
              = {r \in Sessions : Working(r) /\ ClientOf(cur[r]) = d}
      BY <1>1, <1>4, <1>8
    <2> QED  BY <2>1 DEF WorkChains
  <1> QED  BY <1>1, <1>7, <1>10, <1>11

\* The end of a chain at a reset connection.
LEMMA ReceiveLost ==
  ASSUME ChainInv, OwnInv', NEW s \in Sessions, Goto(s, "rearm", "recycle"), cur' = cur,
         sock' = sock, sock[ServedClient(s)] = "rst",
         \A r \in Sessions : Working(r) => ov'[cur[r].ov] = ov[cur[r].ov],
         \A d \in Clients : /\ KernelChains(d)' = KernelChains(d)
                            /\ PortChains(d)' = PortChains(d)
                            /\ AtKernel(d)' = AtKernel(d)
                            /\ \A p \in AtKernel(d) : ov'[p] = ov[p],
         Port' = Port, \A x \in Port : ov'[x.ov] = ov[x.ov]
  PROVE  ChainInv'
  <1>1. PICK c \in Clients : c = ServedClient(s)
    BY ServedKnown DEF ChainInv, Goto, Holding
  <1>2. /\ WorkChains(c)' = {} /\ KernelChains(c) = {} /\ PortChains(c) = {}
        /\ \A d \in Clients \ {c} : WorkChains(d)' = WorkChains(d)
    BY <1>1, WorkEnds
  <1>3. ChainSet(c)' = {} /\ \A d \in Clients \ {c} : ChainSet(d)' = ChainSet(d)
    BY <1>2 DEF ChainSet
  <1>4. ChainRule(c)'  BY <1>1, <1>3 DEF ChainRule
  <1>5. \A d \in Clients \ {c} : ChainRule(d)'  BY <1>3, RuleSame DEF ChainInv
  <1>6. AcceptsListen'  BY DEF ChainInv, AcceptsListen
  <1>7. FailedReset'  BY FailedResetKept DEF ChainInv
  <1> QED  BY <1>4, <1>5, <1>6, <1>7 DEF ChainInv

\* The next receive takes the chain over.
LEMMA ReceivePostedChained ==
  ASSUME ChainInv, NEW s \in Sessions, ReceivePosted(s)  PROVE ChainInv'
  <1> DEFINE contents == [Cleared EXCEPT !.op = "recv"]
  <1>0. OwnInv'  BY SessionOwned DEF ChainInv, SessionStep
  <1>1. contents \in Contents /\ contents.op = "recv"  BY DEF Contents, Cleared
  <1>2. /\ Goto(s, "rearm", "recycle") /\ Post(ServedClient(s), contents)
        /\ cur' = cur /\ sock' = sock
    BY DEF ReceivePosted, peers
  <1> HIDE DEF contents
  <1>3. PICK c \in Clients : c = ServedClient(s)
    BY <1>2, ServedKnown DEF ChainInv, Goto, Holding
  <1>4. /\ KernelChains(c)' = KernelChains(c) \cup {Head(pool)}
        /\ \A d \in Clients \ {c} : KernelChains(d)' = KernelChains(d)
        /\ \A d \in Clients : PortChains(d)' = PortChains(d)
        /\ \A r \in Sessions : Working(r) => ov'[cur[r].ov] = ov[cur[r].ov]
        /\ Port' = Port /\ \A x \in Port : ov'[x.ov] = ov[x.ov]
        /\ AtKernel(c)' = AtKernel(c) \cup {Head(pool)} /\ ov'[Head(pool)] = contents
        /\ \A d \in Clients \ {c} : AtKernel(d)' = AtKernel(d)
        /\ \A d \in Clients : \A p \in AtKernel(d) : ov'[p] = ov[p]
    BY <1>1, <1>2, <1>3, PostChains DEF ChainInv
  <1>5. /\ WorkChains(c)' = {} /\ KernelChains(c) = {} /\ PortChains(c) = {}
        /\ \A d \in Clients \ {c} : WorkChains(d)' = WorkChains(d)
    BY <1>2, <1>3, <1>4, WorkEnds
  <1>6. ChainSet(c)' = {Head(pool)} /\ \A d \in Clients \ {c} : ChainSet(d)' = ChainSet(d)
    BY <1>4, <1>5 DEF ChainSet
  <1>7. sock[c] # "new"
    <2>1. cur[s].ov \in ChainSet(c)
      BY <1>2, <1>3, ChainPlaces, ServedKnown DEF ChainInv, ChainSet, Goto, Holding, Working
    <2> QED  BY <2>1 DEF ChainInv, ChainRule
  <1>8. ChainRule(c)'  BY <1>2, <1>6, <1>7 DEF ChainRule
  <1>9. \A d \in Clients \ {c} : ChainRule(d)'  BY <1>2, <1>6, RuleSame DEF ChainInv
  <1>10. AcceptsListen'  BY <1>1, <1>2, <1>4 DEF ChainInv, AcceptsListen
  <1>11. FailedReset'  BY <1>2, <1>4, FailedResetKept DEF ChainInv
  <1> QED  BY <1>0, <1>8, <1>9, <1>10, <1>11 DEF ChainInv

\* The end of the loop body concerns no chain.
LEMMA RecycleChains ==
  ASSUME ChainInv, NEW s \in Sessions, Recycle(s)
  PROVE  /\ \A d \in Clients : ChainSet(d)' = ChainSet(d)
         /\ Port' = Port /\ \A x \in Port : ov'[x.ov] = ov[x.ov]
         /\ \A d \in Clients : AtKernel(d)' = AtKernel(d) /\ \A p \in AtKernel(d) : ov'[p] = ov[p]
  <1>1. PICK o : o = cur[s].ov  OBVIOUS
  <1>2. /\ at[s] = "recycle" /\ at' = [at EXCEPT ![s] = "wait"]
        /\ ov' = [ov EXCEPT ![o] = Cleared]
        /\ cur' = [cur EXCEPT ![s] = NoCompletion]
        /\ UNCHANGED <<pending, completions, sock>>
    BY <1>1 DEF Recycle, Goto, kernel, peers
  <1>3. o \in Overlappeds /\ o \in HeldBy(s)
    BY <1>1, <1>2, ServedTyped DEF ChainInv, OwnInv, Holding, HeldBy
  <1>4. o \notin AtPort /\ \A d \in Clients : o \notin AtKernel(d)
    BY <1>3 DEF ChainInv, OwnInv, Apart
  <1>5. Port' = Port /\ \A d \in Clients : AtKernel(d)' = AtKernel(d)
    BY <1>2 DEF Port, AtKernel
  <1>6. \A p \in Overlappeds \ {o} : ov'[p] = ov[p]
    BY <1>2 DEF ChainInv, OwnInv, TypeInv, TypeOK
  <1>7. /\ \A d \in Clients : \A p \in AtKernel(d) : ov'[p] = ov[p] /\ (IsChain(p)' <=> IsChain(p))
        /\ \A x \in Port : ov'[x.ov] = ov[x.ov]
        /\ \A d \in Clients : PortChains(d)' = PortChains(d)
    BY <1>3, <1>4, <1>5, <1>6, ChainsSay DEF ChainInv
  <1>8. \A d \in Clients : KernelChains(d)' = KernelChains(d)
    BY <1>5, <1>7 DEF KernelChains
  <1>9. \A d \in Clients : WorkChains(d)' = WorkChains(d)
    <2>1. at'[s] = "wait" /\ \A r \in Sessions \ {s} : at'[r] = at[r] /\ cur'[r] = cur[r]
      BY <1>2 DEF ChainInv, OwnInv, TypeInv, TypeOK
    <2>2. ~ Working(s) /\ ~ Working(s)' /\ \A r \in Sessions \ {s} : Working(r)' <=> Working(r)
      BY <1>2, <2>1 DEF Working
    <2>3. \A r \in Sessions \ {s} : Working(r) => cur[r].ov \in Overlappeds /\ cur[r].ov # o
      <3>1. \A r \in Sessions : Working(r) => /\ cur[r].ov \in HeldBy(r)
                                              /\ Holding(r)
        BY ChainPlaces DEF ChainInv, Working, Holding
      <3>2. \A r \in Sessions : Working(r) => cur[r].ov \in Overlappeds
        BY <3>1, ServedTyped DEF ChainInv, OwnInv
      <3> QED  BY <1>3, <3>1, <3>2 DEF ChainInv, OwnInv, Apart
    <2> QED  BY <1>6, <2>1, <2>2, <2>3, WorkSame
  <1>10. \A d \in Clients : ChainSet(d)' = ChainSet(d)  BY <1>7, <1>8, <1>9 DEF ChainSet
  <1> QED  BY <1>5, <1>7, <1>10

\* Pushing an overlapped back keeps the chains.
LEMMA RecycleChained == ASSUME ChainInv, NEW s \in Sessions, Recycle(s)  PROVE ChainInv'
  <1>0. OwnInv'  BY SessionOwned DEF ChainInv, SessionStep
  <1>1. /\ \A d \in Clients : ChainSet(d)' = ChainSet(d)
        /\ Port' = Port /\ \A x \in Port : ov'[x.ov] = ov[x.ov]
        /\ \A d \in Clients : AtKernel(d)' = AtKernel(d) /\ \A p \in AtKernel(d) : ov'[p] = ov[p]
        /\ sock' = sock
    BY RecycleChains DEF Recycle, peers
  <1>2. \A d \in Clients : ChainRule(d)'  BY <1>1, RuleSame DEF ChainInv
  <1>3. AcceptsListen'  BY <1>1 DEF ChainInv, AcceptsListen
  <1>4. FailedReset'  BY <1>1, FailedResetKept DEF ChainInv
  <1> QED  BY <1>0, <1>2, <1>3, <1>4 DEF ChainInv

\* A reply is no part of a chain.
LEMMA SendChained ==
  ASSUME ChainInv, NEW s \in Sessions, SendPosted(s) \/ SendRefused(s)  PROVE ChainInv'
  <1>0. OwnInv'  BY SessionOwned DEF ChainInv, SessionStep
  <1>1. Goto(s, "send", "rearm") /\ cur' = cur /\ sock' = sock
    BY DEF SendPosted, SendRefused, peers
  <1>2. PICK c \in Clients : c = ServedClient(s)
    BY <1>1, ServedKnown DEF ChainInv, Goto, Holding
  <1>3. Reply(s) \in Contents /\ Reply(s).op = "send"
    <2>1. ov[cur[s].ov].msg \in Nat
      BY <1>1, ServedTyped DEF ChainInv, OwnInv, Contents, Goto, Holding
    <2> QED  BY <1>2, <2>1 DEF Reply, Contents
  <1> HIDE DEF Reply
  <1>4. \A r \in Sessions : Working(r)' <=> Working(r)
    BY <1>1 DEF Goto, Working, ChainInv, OwnInv, TypeInv, TypeOK
  <1>5. /\ \A d \in Clients : KernelChains(d)' = KernelChains(d) /\ PortChains(d)' = PortChains(d)
        /\ \A r \in Sessions : Working(r) => ov'[cur[r].ov] = ov[cur[r].ov]
        /\ Port' = Port /\ \A x \in Port : ov'[x.ov] = ov[x.ov]
        /\ AcceptsListen'
    <2>1. CASE SendPosted(s)
      <3>1. Post(c, Reply(s))  BY <1>2, <2>1 DEF SendPosted
      <3>2. /\ \A d \in Clients : KernelChains(d)' = KernelChains(d) /\ PortChains(d)' = PortChains(d)
            /\ \A r \in Sessions : Working(r) => ov'[cur[r].ov] = ov[cur[r].ov]
            /\ Port' = Port /\ \A x \in Port : ov'[x.ov] = ov[x.ov]
            /\ AtKernel(c)' = AtKernel(c) \cup {Head(pool)} /\ ov'[Head(pool)] = Reply(s)
            /\ \A d \in Clients \ {c} : AtKernel(d)' = AtKernel(d)
            /\ \A d \in Clients : \A p \in AtKernel(d) : ov'[p] = ov[p]
        BY <1>1, <1>3, <3>1, PostChains DEF ChainInv
      <3>3. AcceptsListen'  BY <1>1, <1>3, <3>2 DEF ChainInv, AcceptsListen
      <3> QED  BY <3>2, <3>3
    <2>2. CASE SendRefused(s)
      <3>1. PostRefused(Reply(s))  BY <2>2 DEF SendRefused
      <3>2. /\ \A d \in Clients : /\ KernelChains(d)' = KernelChains(d)
                                  /\ PortChains(d)' = PortChains(d)
                                  /\ AtKernel(d)' = AtKernel(d)
                                  /\ \A p \in AtKernel(d) : ov'[p] = ov[p]
            /\ \A r \in Sessions : Working(r) => ov'[cur[r].ov] = ov[cur[r].ov]
            /\ Port' = Port /\ \A x \in Port : ov'[x.ov] = ov[x.ov]
        BY <1>1, <1>3, <3>1, RefusedChains DEF ChainInv
      <3>3. AcceptsListen'  BY <1>1, <3>2 DEF ChainInv, AcceptsListen
      <3> QED  BY <3>2, <3>3
    <2> QED  BY <2>1, <2>2
  <1>6. \A d \in Clients : WorkChains(d)' = WorkChains(d)  BY <1>1, <1>4, <1>5, WorkSame
  <1>7. \A d \in Clients : ChainSet(d)' = ChainSet(d)  BY <1>5, <1>6 DEF ChainSet
  <1>8. \A d \in Clients : ChainRule(d)'  BY <1>1, <1>7, RuleSame DEF ChainInv
  <1>9. FailedReset'  BY <1>1, <1>5, FailedResetKept DEF ChainInv
  <1> QED  BY <1>0, <1>5, <1>8, <1>9 DEF ChainInv

\* and a session thread's.
LEMMA SessionChained == ASSUME ChainInv, NEW s \in Sessions, SessionStep(s)  PROVE ChainInv'
  <1>0. OwnInv'  BY SessionOwned DEF ChainInv
  <1>1. at \in [Sessions -> {"off", "wait", "dispatch", "send", "rearm", "recycle"}]
    BY DEF ChainInv, OwnInv, TypeInv, TypeOK
  <1>2. ASSUME NEW next \in {"dispatch", "rearm", "recycle"}, Take(s, next),
               next = "recycle" <=> TakenOp = "send"
        PROVE  ChainInv'
    <2>1. \A d \in Clients : ChainSet(d)' = ChainSet(d)  BY <1>2, TakeChains
    <2>2. /\ Port' = Port \ {Head(completions)}
          /\ UNCHANGED <<ov, pending, sock>>
      BY <1>2, TakeMoves DEF Take, objects, peers, ChainInv
    <2>3. \A d \in Clients : ChainRule(d)'  BY <2>1, <2>2, RuleSame DEF ChainInv
    <2>4. AcceptsListen'  BY <2>2 DEF ChainInv, AcceptsListen, AtKernel
    <2>5. FailedReset'  BY <2>2, FailedResetKept DEF ChainInv
    <2> QED  BY <1>0, <2>3, <2>4, <2>5 DEF ChainInv
  <1>3. CASE TakeAccepted(s)  BY <1>2, <1>3 DEF TakeAccepted
  <1>4. CASE TakeMessage(s)  BY <1>2, <1>4 DEF TakeMessage
  <1>5. CASE TakeDisconnect(s)  BY <1>2, <1>5 DEF TakeDisconnect
  <1>6. CASE TakeSent(s)  BY <1>2, <1>6 DEF TakeSent
  <1>7. CASE TakeFailed(s)  BY <1>7, FailedChained
  <1>8. CASE DispatchRequest(s) \/ DispatchUnknown(s) \/ DispatchEmptyCallback(s) \/ PopNull(s)
    <2>1. /\ UNCHANGED <<ov, pending, completions, cur, sock>>
          /\ \/ at' = at
             \/ at[s] = "dispatch" /\ at' = [at EXCEPT ![s] = "send"]
             \/ at[s] = "dispatch" /\ at' = [at EXCEPT ![s] = "rearm"]
      BY <1>8 DEF DispatchRequest, DispatchUnknown, DispatchEmptyCallback, PopNull, PopNothing,
                  Goto, objects, kernel, peers
    <2>2. \A r \in Sessions : Working(r)' <=> Working(r)  BY <1>1, <2>1 DEF Working
    <2> QED  BY <1>0, <2>1, <2>2, QuietChains
  <1>9. CASE SendPosted(s) \/ SendRefused(s)  BY <1>9, SendChained
  <1>10. CASE ReceivePosted(s)  BY <1>10, ReceivePostedChained
  <1>11. CASE ReceiveRefused(s)
    <2> DEFINE contents == [Cleared EXCEPT !.op = "recv"]
    <2>1. contents \in Contents  BY DEF Contents, Cleared
    <2>2. /\ Goto(s, "rearm", "recycle") /\ PostRefused(contents)
          /\ cur' = cur /\ sock' = sock /\ sock[ServedClient(s)] = "rst"
      BY <1>11 DEF ReceiveRefused, peers
    <2> HIDE DEF contents
    <2>3. /\ \A d \in Clients : /\ KernelChains(d)' = KernelChains(d)
                                /\ PortChains(d)' = PortChains(d)
                                /\ AtKernel(d)' = AtKernel(d)
                                /\ \A p \in AtKernel(d) : ov'[p] = ov[p]
          /\ \A r \in Sessions : Working(r) => ov'[cur[r].ov] = ov[cur[r].ov]
          /\ Port' = Port /\ \A x \in Port : ov'[x.ov] = ov[x.ov]
      BY <2>1, <2>2, RefusedChains DEF ChainInv
    <2> QED  BY <1>0, <2>2, <2>3, ReceiveLost
  <1>12. CASE ReceiveSocketError(s)
    <2>1. /\ Goto(s, "rearm", "recycle") /\ sock[ServedClient(s)] = "rst"
          /\ UNCHANGED <<ov, pending, completions, cur, sock>>
      BY <1>12 DEF ReceiveSocketError, objects, kernel, peers
    <2>2. /\ Port' = Port
          /\ \A d \in Clients : /\ AtKernel(d)' = AtKernel(d)
                                /\ KernelChains(d)' = KernelChains(d)
                                /\ PortChains(d)' = PortChains(d)
      BY <2>1 DEF Port, AtKernel, KernelChains, PortChains, IsChain, ClientOf
    <2> QED  BY <1>0, <2>1, <2>2, ReceiveLost
  <1>13. CASE Recycle(s)  BY <1>13, RecycleChained
  <1> QED
    BY <1>3, <1>4, <1>5, <1>6, <1>7, <1>8, <1>9, <1>10, <1>11, <1>12, <1>13 DEF SessionStep

\* Every step keeps one chain for each client.
LEMMA ChainStep == ChainInv /\ [Next]_vars => ChainInv'
  <1> SUFFICES ASSUME ChainInv, [Next]_vars  PROVE ChainInv'  OBVIOUS
  <1>1. CASE UNCHANGED vars
    <2>1. OwnInv'  BY <1>1, OwnStep DEF ChainInv
    <2>2. UNCHANGED <<ov, pending, completions, at, cur, sock>>
      BY <1>1 DEF vars, objects, kernel, threads, peers
    <2> QED  BY <2>1, <2>2, QuietChains DEF Working
  <1>2. CASE Next  BY <1>2, MainChains, SessionChained, KernelChained, PeerChained DEF Next
  <1> QED  BY <1>1, <1>2

\* So there always is one.
LEMMA ChainInvHolds == Spec => []ChainInv
  BY ChainInit, ChainStep, PTL DEF Spec

\* Chains(c) counts the chain of c, wherever it is.
LEMMA ChainsCount ==
  ASSUME ChainInv, NEW c \in Clients
  PROVE  Chains(c) = IF ChainSet(c) = {} THEN 0 ELSE 1
  <1> DEFINE atKernel == {i \in DOMAIN pending[c] : IsChain(pending[c][i])}
             atPort   == {i \in DOMAIN completions :
                            /\ IsChain(completions[i].ov)
                            /\ IF ov[completions[i].ov].op = "accept"
                               THEN ov[completions[i].ov].id = c ELSE completions[i].key = c}
             working  == {s \in Sessions :
                            at[s] \in {"dispatch", "send", "rearm"} /\ ServedClient(s) = c}
  <1>1. /\ \A a, b \in atKernel : a = b
        /\ KernelChains(c) = {} <=> atKernel = {}
    <2>1. \A i \in atKernel : pending[c][i] \in KernelChains(c)
      BY DEF KernelChains, AtKernel, Range
    <2>2. \A a, b \in atKernel : a = b
      BY <2>1 DEF ChainInv, ChainRule, ChainSet, OwnInv, EachOnce, IsInjective
    <2>3. KernelChains(c) # {} => atKernel # {}  BY DEF KernelChains, AtKernel, Range
    <2> QED  BY <2>1, <2>2, <2>3
  <1>2. /\ \A a, b \in atPort : a = b
        /\ PortChains(c) = {} <=> atPort = {}
    <2>1. \A i \in atPort : completions[i] \in Port /\ completions[i].ov \in PortChains(c)
      BY DEF PortChains, Port, Range, ClientOf
    <2>2. \A a, b \in atPort : completions[a].ov = completions[b].ov
      BY <2>1 DEF ChainInv, ChainRule, ChainSet
    <2>3. \A a, b \in atPort : a = b
      BY <2>1, <2>2 DEF ChainInv, OwnInv, EachOnce, IsInjective
    <2>4. PortChains(c) # {} => atPort # {}  BY DEF PortChains, Port, Range, ClientOf
    <2> QED  BY <2>1, <2>3, <2>4
  <1>3. /\ \A a, b \in working : a = b
        /\ WorkChains(c) = {} <=> working = {}
    <2>1. \A s \in Sessions : s \in working <=> Working(s) /\ ClientOf(cur[s]) = c
      BY DEF Working, ServedClient, ClientOf
    <2>2. \A s \in working : s \in Sessions /\ cur[s].ov \in HeldBy(s) /\ cur[s].ov \in WorkChains(c)
      BY <2>1, ChainPlaces DEF ChainInv
    <2>3. ASSUME NEW a \in working, NEW b \in working  PROVE a = b
      <3>1. cur[a].ov = cur[b].ov  BY <2>2 DEF ChainInv, ChainRule, ChainSet
      <3> QED  BY <2>2, <3>1 DEF ChainInv, OwnInv, Apart
    <2>4. WorkChains(c) # {} => working # {}  BY <2>1 DEF WorkChains
    <2> QED  BY <2>2, <2>3, <2>4
  <1> HIDE DEF atKernel, atPort, working
  <1>4. /\ Cardinality(atKernel) = IF KernelChains(c) = {} THEN 0 ELSE 1
        /\ Cardinality(atPort) = IF PortChains(c) = {} THEN 0 ELSE 1
        /\ Cardinality(working) = IF WorkChains(c) = {} THEN 0 ELSE 1
    BY <1>1, <1>2, <1>3, AtMostOne
  <1>5. Chains(c) = Cardinality(atKernel) + Cardinality(atPort) + Cardinality(working)
    BY DEF Chains, atKernel, atPort, working
  <1>6. /\ KernelChains(c) = {} \/ PortChains(c) = {}
        /\ KernelChains(c) = {} \/ WorkChains(c) = {}
        /\ PortChains(c) = {} \/ WorkChains(c) = {}
    <2>1. \A p, q \in ChainSet(c) : p = q  BY DEF ChainInv, ChainRule
    <2>2. /\ KernelChains(c) \subseteq AtKernel(c) /\ PortChains(c) \subseteq AtPort
          /\ \A o \in WorkChains(c) : \E s \in Sessions : o \in HeldBy(s)
      BY ChainPlaces DEF ChainInv
    <2>3. /\ AtKernel(c) \cap AtPort = {}
          /\ \A s \in Sessions : HeldBy(s) \cap AtKernel(c) = {} /\ HeldBy(s) \cap AtPort = {}
      BY DEF ChainInv, OwnInv, Apart
    <2> QED  BY <2>1, <2>2, <2>3 DEF ChainSet
  <1>7. CASE ChainSet(c) = {}
    <2>1. KernelChains(c) = {} /\ PortChains(c) = {} /\ WorkChains(c) = {}
      BY <1>7 DEF ChainSet
    <2> QED  BY <1>4, <1>5, <1>7, <2>1
  <1>8. CASE ChainSet(c) # {}
    <2>1. KernelChains(c) # {} \/ PortChains(c) # {} \/ WorkChains(c) # {}
      BY <1>8 DEF ChainSet
    <2> QED  BY <1>4, <1>5, <1>6, <1>8, <2>1
  <1> QED  BY <1>7, <1>8

\* A connection that has not been reset has exactly one receive outstanding or
\* being handled, whatever its session does or fails to do: no message is read
\* by two threads, and no living client is forgotten (Session.cpp:66, 99,
\* Client.cpp:66-96).
THEOREM ChainKept == Spec => []OneReceiveChain
  <1>1. ASSUME ChainInv  PROVE OneReceiveChain
    BY <1>1, ChainsCount DEF OneReceiveChain, ChainInv, ChainRule
  <1> QED  BY <1>1, ChainInvHolds, PTL

-----------------------------------------------------------------------------
(* A null overlapped.  Where the pool is empty, every overlapped is lost,   *)
(* a send, a chain, or about to be recycled.                                *)

ChainsInUse  == UNION {ChainSet(c) : c \in Clients}
Recycling    == {s \in Sessions : at[s] = "recycle"}
AtRecycle    == {cur[s].ov : s \in Recycling}

\* An overlapped that is neither pooled, lost nor a send is in a chain or on its way back.
LEMMA SomeUse ==
  ASSUME ChainInv, Started, NEW o \in Overlappeds, o \notin InPool, o \notin lost, ov[o].op # "send"
  PROVE  o \in ChainsInUse \/ o \in AtRecycle
  <1>1. Placed  BY DEF ChainInv, OwnInv
  <1>2. ov[o].op \in {"default", "accept", "recv", "send"}
    BY DEF ChainInv, OwnInv, TypeInv, TypeOK
  <1>3. ASSUME NEW c \in Clients, o \in AtKernel(c)  PROVE o \in ChainsInUse
    <2>1. IsChain(o)
      BY <1>2, <1>3 DEF ChainInv, OwnInv, Operations, KernelOps, IsChain
    <2> QED  BY <1>3, <2>1 DEF ChainsInUse, ChainSet, KernelChains
  <1>4. ASSUME o \in AtPort  PROVE o \in ChainsInUse
    <2>1. PICK x \in Port : x.ov = o  BY <1>4 DEF AtPort
    <2>2. IsChain(x.ov) /\ ClientOf(x) \in Clients
      BY <1>2, <2>1 DEF ChainInv, OwnInv, Operations, PortOps, Operated, IsChain
    <2>3. o \in PortChains(ClientOf(x))  BY <2>1, <2>2 DEF PortChains
    <2> QED  BY <2>2, <2>3 DEF ChainsInUse, ChainSet
  <1>5. ASSUME NEW s \in Sessions, o \in HeldBy(s)  PROVE o \in ChainsInUse \/ o \in AtRecycle
    <2>1. Holding(s) /\ o = cur[s].ov  BY <1>5 DEF HeldBy
    <2>2. CASE at[s] = "recycle"  BY <2>1, <2>2 DEF AtRecycle, Recycling
    <2>3. CASE Working(s)
      <3>1. ClientOf(cur[s]) \in Clients  BY <2>1, ServedKnown DEF ChainInv
      <3>2. o \in WorkChains(ClientOf(cur[s]))  BY <2>1, <2>3, ChainPlaces DEF ChainInv
      <3> QED  BY <3>1, <3>2 DEF ChainsInUse, ChainSet
    <2> QED  BY <2>1, <2>2, <2>3 DEF Holding, Working
  <1> QED  BY <1>1, <1>3, <1>4, <1>5 DEF Placed

\* One chain for each client at most.
LEMMA FewChainsInUse ==
  ASSUME ChainInv
  PROVE  IsFiniteSet(ChainsInUse) /\ Cardinality(ChainsInUse) <= Cardinality(Clients)
  <1> DEFINE client == [o \in ChainsInUse |-> CHOOSE c \in Clients : o \in ChainSet(c)]
  <1>1. \A o \in ChainsInUse : client[o] \in Clients /\ o \in ChainSet(client[o])
    <2>1. \A o \in ChainsInUse : \E c \in Clients : o \in ChainSet(c)  BY DEF ChainsInUse
    <2> QED  BY <2>1
  <1>2. client \in [ChainsInUse -> Clients] /\ DOMAIN client = ChainsInUse  BY <1>1
  <1> HIDE DEF client
  <1>3. ASSUME NEW a \in ChainsInUse, NEW b \in ChainsInUse, client[a] = client[b]  PROVE a = b
    <2>1. client[a] \in Clients /\ a \in ChainSet(client[a]) /\ b \in ChainSet(client[a])
      BY <1>1, <1>3
    <2> QED  BY <2>1 DEF ChainInv, ChainRule
  <1>4. client \in Injection(ChainsInUse, Clients)
    BY <1>2, <1>3 DEF Injection, IsInjective
  <1> QED  BY <1>4, FS_Injection, ServerAssumption

\* No more are about to be recycled than sessions that do so.
LEMMA FewAtRecycle ==
  /\ IsFiniteSet(AtRecycle) /\ IsFiniteSet(Recycling)
  /\ Cardinality(AtRecycle) <= Cardinality(Recycling)
  <1> DEFINE session == [o \in AtRecycle |-> CHOOSE s \in Recycling : cur[s].ov = o]
  <1>1. \A o \in AtRecycle : session[o] \in Recycling /\ cur[session[o]].ov = o
    <2>1. \A o \in AtRecycle : \E s \in Recycling : cur[s].ov = o  BY DEF AtRecycle
    <2> QED  BY <2>1
  <1>2. session \in [AtRecycle -> Recycling] /\ DOMAIN session = AtRecycle  BY <1>1
  <1> HIDE DEF session
  <1>3. session \in Injection(AtRecycle, Recycling)
    BY <1>1, <1>2 DEF Injection, IsInjective
  <1>4. IsFiniteSet(Recycling)
    BY FS_Subset, ServerAssumption DEF Recycling
  <1> QED  BY <1>3, <1>4, FS_Injection

\* The size of a set that is covered by two.
LEMMA Covered ==
  ASSUME NEW S, NEW A, NEW B, IsFiniteSet(A), IsFiniteSet(B), S \subseteq A \cup B
  PROVE  IsFiniteSet(S) /\ Cardinality(S) \in Nat
         /\ Cardinality(A) \in Nat /\ Cardinality(B) \in Nat
         /\ Cardinality(S) <= Cardinality(A) + Cardinality(B)
  <1>1. /\ IsFiniteSet(A \cup B)
        /\ Cardinality(A \cup B) = Cardinality(A) + Cardinality(B) - Cardinality(A \cap B)
    BY FS_Union
  <1>2. IsFiniteSet(A \cap B)  BY FS_Intersection
  <1>3. IsFiniteSet(S) /\ Cardinality(S) <= Cardinality(A \cup B)  BY <1>1, FS_Subset
  <1>4. /\ Cardinality(A) \in Nat /\ Cardinality(B) \in Nat /\ Cardinality(S) \in Nat
        /\ Cardinality(A \cap B) \in Nat /\ Cardinality(A \cup B) \in Nat
    BY <1>1, <1>2, <1>3, FS_CardinalityType
  <1> QED  BY <1>1, <1>3, <1>4

\* While one session works, fewer than all are about to recycle.
LEMMA RecyclingFew ==
  ASSUME NEW s \in Sessions, Working(s)
  PROVE  IsFiniteSet(AtRecycle) /\ Cardinality(AtRecycle) <= Cardinality(Sessions) - 1
  <1>1. s \notin Recycling  BY DEF Recycling, Working
  <1>2. Recycling \in SUBSET (Sessions \ {s})  BY <1>1 DEF Recycling
  <1>3. /\ IsFiniteSet(Sessions \ {s}) /\ Cardinality(Sessions \ {s}) \in Nat
        /\ Cardinality(Sessions \ {s}) = Cardinality(Sessions) - 1
    BY FS_RemoveElement, FS_CardinalityType, ServerAssumption
  <1>4. IsFiniteSet(Recycling) /\ Cardinality(Recycling) <= Cardinality(Sessions \ {s})
    BY <1>2, <1>3, FS_Subset
  <1>5. IsFiniteSet(AtRecycle) /\ Cardinality(AtRecycle) <= Cardinality(Recycling)
    BY FewAtRecycle
  <1>6. Cardinality(AtRecycle) \in Nat /\ Cardinality(Recycling) \in Nat
    BY <1>4, <1>5, FS_CardinalityType
  <1> QED  BY <1>3, <1>4, <1>5, <1>6

Sends == {o \in Overlappeds : ov[o].op = "send" /\ o \notin lost}

\* When a session finds the pool empty, all but one overlapped per client and
\* per session are lost or sends.
LEMMA EmptyPool ==
  ASSUME ChainInv, Started, pool = <<>>, NEW s \in Sessions, Working(s)
  PROVE  Cardinality(lost) + Cardinality(Sends)
           > Cardinality(Overlappeds) - Cardinality(Clients) - Cardinality(Sessions)
  <1>1. /\ IsFiniteSet(Overlappeds) /\ IsFiniteSet(Clients) /\ IsFiniteSet(Sessions)
        /\ Cardinality(Overlappeds) \in Nat /\ Cardinality(Clients) \in Nat
        /\ Cardinality(Sessions) \in Nat
    BY ServerAssumption, FS_CardinalityType
  <1>2. InPool = {}  BY DEF InPool, Range
  <1>3. Overlappeds \subseteq (lost \cup Sends) \cup (ChainsInUse \cup AtRecycle)
    BY <1>2, SomeUse DEF Sends
  <1>4. IsFiniteSet(lost) /\ IsFiniteSet(Sends)
    <2>1. lost \in SUBSET Overlappeds  BY DEF ChainInv, OwnInv, TypeInv, TypeOK
    <2>2. Sends \in SUBSET Overlappeds  BY DEF Sends
    <2> QED  BY <1>1, <2>1, <2>2, FS_Subset
  <1>5. /\ IsFiniteSet(lost \cup Sends)
        /\ Cardinality(lost) \in Nat /\ Cardinality(Sends) \in Nat
        /\ Cardinality(lost \cup Sends) <= Cardinality(lost) + Cardinality(Sends)
    BY <1>4, Covered
  <1>6. /\ IsFiniteSet(ChainsInUse) /\ IsFiniteSet(AtRecycle)
        /\ Cardinality(ChainsInUse) <= Cardinality(Clients)
    BY FewChainsInUse, FewAtRecycle
  <1>7. /\ IsFiniteSet(ChainsInUse \cup AtRecycle)
        /\ Cardinality(ChainsInUse) \in Nat /\ Cardinality(AtRecycle) \in Nat
        /\ Cardinality(ChainsInUse \cup AtRecycle) <= Cardinality(ChainsInUse) + Cardinality(AtRecycle)
    BY <1>6, Covered
  <1>8. Cardinality(AtRecycle) <= Cardinality(Sessions) - 1  BY RecyclingFew
  <1>9. /\ Cardinality(lost \cup Sends) \in Nat /\ Cardinality(ChainsInUse \cup AtRecycle) \in Nat
        /\ Cardinality(Overlappeds)
             <= Cardinality(lost \cup Sends) + Cardinality(ChainsInUse \cup AtRecycle)
    BY <1>3, <1>5, <1>7, Covered
  <1> QED  BY <1>1, <1>5, <1>6, <1>7, <1>8, <1>9

\* After pop() has given nullptr nothing happens any more.
CrashFrozen ==
  crashed = "null overlapped" =>
    Started /\ pool = <<>> /\ \E s \in Sessions : Working(s)

\* A null overlapped comes from an empty pool, and nothing moves after it.
LEMMA CrashStep == OwnInv /\ CrashFrozen /\ [Next]_vars => CrashFrozen'
  <1> SUFFICES ASSUME OwnInv, CrashFrozen, [Next]_vars, crashed' = "null overlapped"
               PROVE  (Started /\ pool = <<>> /\ \E s \in Sessions : Working(s))'
    BY DEF CrashFrozen
  <1>1. CASE UNCHANGED vars
    BY <1>1 DEF CrashFrozen, vars, objects, kernel, threads, Started, Working
  <1>2. CASE Next /\ crashed = "null overlapped"
    <2>1. ~ Running /\ Started  BY <1>2 DEF CrashFrozen, Running
    <2>2. ~ MainStep
      BY <2>1 DEF MainStep, Initialize, InitializeFails, ReadyWithoutClients, AcceptReady,
                  AcceptRefused, AcceptSocketError, AcceptsPosted, SpawnSession, ReadySuccess,
                  SetSendCallback, Started
    <2>3. \A s \in Sessions : ~ SessionStep(s)
      BY <2>1 DEF SessionStep, TakeAccepted, TakeMessage, TakeDisconnect, TakeSent, Take,
                  TakeFailed, DispatchRequest, DispatchUnknown, DispatchEmptyCallback, SendPosted,
                  SendRefused, ReceivePosted, ReceiveRefused, ReceiveSocketError, PopNull, Recycle,
                  Goto
    <2>4. \A c \in Clients : ~ KernelStep(c) /\ ~ PeerStep(c)
      BY <2>1 DEF KernelStep, Connect, ConnectFails, Deliver, DeliverEnd, Transmit, Abort,
                  PeerStep, Ask, Hangup
    <2> QED  BY <1>2, <2>2, <2>3, <2>4 DEF Next
  <1>3. CASE Next /\ crashed # "null overlapped"
    <2>1. ~ MainStep
      BY <1>3 DEF MainStep, Initialize, InitializeFails, ReadyWithoutClients, AcceptReady,
                  AcceptRefused, AcceptSocketError, AcceptsPosted, SpawnSession, ReadySuccess,
                  SetSendCallback, threads
    <2>2. \A c \in Clients : ~ KernelStep(c) /\ ~ PeerStep(c)
      BY <1>3 DEF KernelStep, Connect, ConnectFails, Deliver, DeliverEnd, Transmit, Abort,
                  Complete, PeerStep, Ask, Hangup, threads
    <2>3. ASSUME NEW s \in Sessions, SessionStep(s)  PROVE PopNull(s)
      BY <1>3, <2>3 DEF SessionStep, TakeAccepted, TakeMessage, TakeDisconnect, TakeSent, Take,
                  TakeFailed, DispatchRequest, DispatchUnknown, DispatchEmptyCallback, SendPosted,
                  SendRefused, ReceivePosted, ReceiveRefused, ReceiveSocketError, Recycle, threads
    <2>4. PICK s \in Sessions : PopNull(s)  BY <1>3, <2>1, <2>2, <2>3 DEF Next
    <2>5. /\ at[s] \in {"send", "rearm"} /\ pool = <<>> /\ UNCHANGED <<pool, at, main>>
      BY <2>4 DEF PopNull, PopNothing, objects
    <2> QED  BY <2>5, BegunStarted DEF Working, Started
  <1> QED  BY <1>1, <1>2, <1>3

\* So the state after the crash is known.
LEMMA CrashFrozenHolds == Spec => []CrashFrozen
  <1>1. Init => CrashFrozen  BY DEF Init, CrashFrozen
  <1> QED  BY <1>1, CrashStep, OwnInvHolds, PTL DEF Spec

\* pop() returns nullptr, and the process dies in Client.cpp:44, 78 or 107, only
\* when leaks and unfinished sends hold all but one overlapped per client and
\* per session thread: nothing else that the server does can drain the pool.
THEOREM CrashExplained == Spec => []CrashNeedsExhaustion
  <1>1. ASSUME ChainInv, CrashFrozen  PROVE CrashNeedsExhaustion
    BY <1>1, EmptyPool DEF CrashFrozen, CrashNeedsExhaustion, SendsInFlight, Sends
  <1> QED  BY <1>1, CrashFrozenHolds, ChainInvHolds, PTL
=============================================================================
