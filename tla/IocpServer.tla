----------------------------- MODULE IocpServer -----------------------------
(***************************************************************************)
(* Network::NetworkManager, Client and Session around one I/O completion   *)
(* port.  The main thread creates the sockets and the overlappeds, posts an*)
(* AcceptEx for every client socket, starts the session threads, and only  *)
(* then hands RankingSystem its callback.                                  *)
(* Every session thread takes completions from the port, answers requests  *)
(* and posts the next receive; each operation borrows a CustomOverlapped   *)
(* from the shared mOverlappedQueue.                                       *)
(*                                                                         *)
(* The pool is the bounded FIFO that LockFreeCircleQueue implements as long*)
(* as no two pushes and no two pops of it overlap (OverlappedPool proves   *)
(* it for any number of sessions, and says what an overlap does to it).    *)
(* The kernel and the peers are external.                                  *)
(***************************************************************************)
EXTENDS Integers, SequencesExt

CONSTANTS
  Clients,       \* the sockets created by NetworkManager::Initialize
  Sessions,      \* the session threads started by NetworkManager::Ready
  Overlappeds,   \* the CustomOverlapped objects created by Initialize
  Creations,     \* the orders in which it may create them (any one will do)
  MaxRequests,   \* bound: messages each client sends
  Window,        \* bound: messages a client has sent and not seen answered
  Faults,        \* what may go wrong: subset of {"start", "fin", "rst", "accept"}
  None           \* no value

ASSUME ServerAssumption ==
  /\ IsFiniteSet(Clients) /\ IsFiniteSet(Sessions) /\ IsFiniteSet(Overlappeds)
  /\ Cardinality(Clients) < Cardinality(Overlappeds)
  /\ \A created \in Creations :
       created \in [1 .. Cardinality(Overlappeds) -> Overlappeds] /\ IsInjective(created)
  /\ MaxRequests \in [Clients -> Nat] /\ Window \in Nat
  /\ Faults \subseteq {"start", "fin", "rst", "accept"}
  /\ None \notin Clients \cup Overlappeds

VARIABLES
  main,          \* where the main thread stands in Hub::Initialize
  pool,          \* mOverlappedQueue
  lost,          \* the overlappeds nothing refers to any more
  ov,            \* ov[o]: operation type, socket id in the header, message
  pending,       \* pending[c]: the operations the kernel holds for socket c
  completions,   \* the queue of the completion port
  at,            \* at[s]: where session s stands in Session::Process
  cur,           \* cur[s]: the completion session s is handling
  sock,          \* sock[c]: the connection of client socket c
  asked,         \* asked[c]: the messages its peer has sent
  received,      \* received[c]: how many of them the kernel has handed over
  answered,      \* answered[c]: the requests whose reply the peer has got
  crashed        \* why the process has terminated

objects == <<pool, lost, ov>>
kernel  == <<pending, completions>>
threads == <<main, at, cur, crashed>>
peers   == <<sock, asked, received, answered>>
vars    == <<objects, kernel, threads, peers>>

Running == crashed = "no"

\* CustomOverlapped::Clear.
Cleared == [op |-> "default", id |-> None, msg |-> 0]

NoCompletion == [ov |-> None, key |-> None, bytes |-> 0, ok |-> TRUE]

\* Initialize constructs a ring of as many slots as it then pushes objects:
\* the ring holds one less, and the last push is refused.
Capacity == Cardinality(Overlappeds) - 1

\* Hub::Initialize is about to call NetworkManager::Initialize.
Init ==
  /\ main = "initialize"
  /\ pool = <<>> /\ lost = {}
  /\ ov          = [o \in Overlappeds |-> Cleared]
  /\ pending     = [c \in Clients |-> <<>>]
  /\ completions = <<>>
  /\ at          = [s \in Sessions |-> "off"]
  /\ cur         = [s \in Sessions |-> NoCompletion]
  /\ sock        = [c \in Clients |-> "new"]
  /\ asked       = [c \in Clients |-> <<>>]
  /\ received    = [c \in Clients |-> 0]
  /\ answered    = [c \in Clients |-> <<>>]
  /\ crashed     = "no"

-----------------------------------------------------------------------------
(* Borrowing an overlapped: pop(), Clear(), the setters, and the Winsock    *)
(* call, which the kernel either accepts or refuses.                        *)

\* Faulty variant: the queue's Front() instead of pop().
FillFront(contents) ==
  /\ pool # <<>>
  /\ UNCHANGED pool
  /\ ov' = [ov EXCEPT ![Head(pool)] = contents]

Fill(contents) ==
  /\ pool # <<>>
  /\ pool' = Tail(pool)
  /\ ov' = [ov EXCEPT ![Head(pool)] = contents]

Post(c, contents) ==
  /\ Fill(contents)
  /\ pending' = [pending EXCEPT ![c] = Append(@, Head(pool))]
  /\ UNCHANGED <<lost, completions>>

\* A refused call leaves its overlapped to nobody.
PostRefused(contents) ==
  /\ Fill(contents)
  /\ lost' = lost \cup {Head(pool)}
  /\ UNCHANGED kernel

\* pop() gives nullptr and Clear() dereferences it.
PopNothing ==
  /\ pool = <<>>
  /\ crashed' = "null overlapped"
  /\ UNCHANGED <<objects, kernel>>

-----------------------------------------------------------------------------
(* The main thread: NetworkManager::Initialize and Ready, then              *)
(* RankingSystem::Ready.                                                    *)

Initialize ==
  /\ main = "initialize"
  /\ main' = "accept"
  /\ \E created \in Creations :
       /\ pool' = SubSeq(created, 1, Capacity)
       /\ lost' = {created[Capacity + 1]}
  /\ UNCHANGED <<ov, kernel, at, cur, crashed, peers>>

\* Seven calls may fail; each returns before the pool and the clients exist,
\* and Hub::Initialize, which is told nothing, calls Ready all the same.
InitializeFails ==
  /\ "start" \in Faults /\ main = "initialize"
  /\ main' = "failed"
  /\ UNCHANGED <<objects, kernel, at, cur, crashed, peers>>

\* for (auto& client : *mClientMap), of a null mClientMap.
ReadyWithoutClients ==
  /\ Running /\ main = "failed"
  /\ crashed' = "null client map"
  /\ UNCHANGED <<objects, kernel, main, at, cur, peers>>

AcceptReady(c) ==
  /\ Running /\ main = "accept" /\ sock[c] = "new"
  /\ Post(c, [op |-> "accept", id |-> c, msg |-> 0])
  /\ sock' = [sock EXCEPT ![c] = "listening"]
  /\ UNCHANGED <<threads, asked, received, answered>>

\* AcceptEx fails at once, or getsockopt has already shown the socket to be
\* bad: either way this socket never accepts anybody.
AcceptRefused(c) ==
  /\ Running /\ main = "accept" /\ sock[c] = "new" /\ "accept" \in Faults
  /\ PostRefused([op |-> "accept", id |-> c, msg |-> 0])
  /\ sock' = [sock EXCEPT ![c] = "rst"]
  /\ UNCHANGED <<threads, asked, received, answered>>

AcceptSocketError(c) ==
  /\ Running /\ main = "accept" /\ sock[c] = "new" /\ "accept" \in Faults
  /\ sock' = [sock EXCEPT ![c] = "rst"]
  /\ UNCHANGED <<objects, kernel, threads, asked, received, answered>>

AcceptsPosted ==
  /\ Running /\ main = "accept"
  /\ \A c \in Clients : sock[c] # "new"
  /\ main' = "spawn"
  /\ UNCHANGED <<objects, kernel, at, cur, crashed, peers>>

SpawnSession(s) ==
  /\ Running /\ main = "spawn" /\ at[s] = "off"
  /\ at' = [at EXCEPT ![s] = "wait"]
  /\ UNCHANGED <<objects, kernel, main, cur, crashed, peers>>

ReadySuccess ==
  /\ Running /\ main = "spawn"
  /\ \A s \in Sessions : at[s] # "off"
  /\ main' = "ready"
  /\ UNCHANGED <<objects, kernel, at, cur, crashed, peers>>

SetSendCallback ==
  /\ Running /\ main = "ready"
  /\ main' = "work"
  /\ UNCHANGED <<objects, kernel, at, cur, crashed, peers>>

MainStep ==
  \/ Initialize \/ InitializeFails \/ ReadyWithoutClients
  \/ \E c \in Clients : AcceptReady(c) \/ AcceptRefused(c) \/ AcceptSocketError(c)
  \/ AcceptsPosted
  \/ \E s \in Sessions : SpawnSession(s)
  \/ ReadySuccess \/ SetSendCallback

-----------------------------------------------------------------------------
(* A session thread: GetQueuedCompletionStatus and what follows it. *)

\* The client a session is serving: the header of an AcceptEx names it, the
\* completion key of any other operation does.  Both come from Initialize and
\* AcceptReady, so the lookup's "not found" branches are never taken.
ServedClient(s) ==
  IF ov[cur[s].ov].op = "accept" THEN ov[cur[s].ov].id ELSE cur[s].key

Take(s, next) ==
  /\ Running /\ at[s] = "wait" /\ completions # <<>>
  /\ Head(completions).ok
  /\ completions' = Tail(completions)
  /\ cur' = [cur EXCEPT ![s] = Head(completions)]
  /\ at' = [at EXCEPT ![s] = next]
  /\ UNCHANGED <<objects, pending, main, crashed, peers>>

TakenOp == ov[Head(completions).ov].op

\* Faulty variants: an accept after which nothing is received, and a session
\* that treats a receive of no bytes as the end of the connection.
TakeAcceptedOnly(s) == Take(s, "recycle") /\ TakenOp = "accept"
TakeDisconnectEnds(s) ==
  Take(s, "recycle") /\ TakenOp = "recv" /\ Head(completions).bytes = 0

TakeAccepted(s)   == Take(s, "rearm") /\ TakenOp = "accept"
TakeMessage(s)    == Take(s, "dispatch") /\ TakenOp = "recv" /\ Head(completions).bytes > 0
TakeDisconnect(s) == Take(s, "rearm") /\ TakenOp = "recv" /\ Head(completions).bytes = 0
TakeSent(s)       == Take(s, "recycle") /\ TakenOp = "send"

\* Faulty variants: without the `continue' the loop body recycles the pointer
\* of an earlier iteration, or posts the client's next receive.
TakeFailedRecycles(s) ==
  /\ Running /\ at[s] = "wait" /\ completions # <<>>
  /\ ~ Head(completions).ok
  /\ completions' = Tail(completions)
  /\ at' = [at EXCEPT ![s] = "recycle"]
  /\ UNCHANGED <<objects, pending, main, cur, crashed, peers>>

TakeFailedRearms(s) ==
  /\ Running /\ at[s] = "wait" /\ completions # <<>>
  /\ ~ Head(completions).ok
  /\ completions' = Tail(completions)
  /\ lost' = lost \cup {Head(completions).ov}
  /\ cur' = [cur EXCEPT ![s] = Head(completions)]
  /\ at' = [at EXCEPT ![s] = IF TakenOp = "recv" THEN "rearm" ELSE "wait"]
  /\ UNCHANGED <<pool, ov, pending, main, crashed, peers>>

\* A failed operation: `continue', and its overlapped is never pushed back.
TakeFailed(s) ==
  /\ Running /\ at[s] = "wait" /\ completions # <<>>
  /\ ~ Head(completions).ok
  /\ completions' = Tail(completions)
  /\ lost' = lost \cup {Head(completions).ov}
  /\ UNCHANGED <<pool, ov, pending, threads, peers>>

Goto(s, from, to) ==
  /\ Running /\ at[s] = from
  /\ at' = [at EXCEPT ![s] = to]

MessageKind(s) == asked[ServedClient(s)][ov[cur[s].ov].msg]

\* Faulty variant: the next receive is posted before the request is handled.
DispatchRequestRearming(s) ==
  /\ main = "work" /\ Goto(s, "dispatch", "send")
  /\ MessageKind(s) = "request"
  /\ Post(ServedClient(s), [Cleared EXCEPT !.op = "recv"])
  /\ UNCHANGED <<main, cur, crashed, peers>>

\* receiveCallback: Hub::Read, RankingSystem::MessageRead, Hub::Send.
DispatchRequest(s) ==
  /\ main = "work" /\ Goto(s, "dispatch", "send")
  /\ MessageKind(s) = "request"
  /\ UNCHANGED <<objects, kernel, main, cur, crashed, peers>>

DispatchUnknown(s) ==
  /\ main = "work" /\ Goto(s, "dispatch", "rearm")
  /\ MessageKind(s) = "unknown"
  /\ UNCHANGED <<objects, kernel, main, cur, crashed, peers>>

\* Before RankingSystem::Ready the callback is empty: calling it throws.
DispatchEmptyCallback(s) ==
  /\ main # "work" /\ Running /\ at[s] = "dispatch"
  /\ crashed' = "empty callback"
  /\ UNCHANGED <<objects, kernel, main, at, cur, peers>>

\* NetworkManager::Send and Client::Send.
Reply(s) == [op |-> "send", id |-> ServedClient(s), msg |-> ov[cur[s].ov].msg]

SendPosted(s) ==
  /\ Goto(s, "send", "rearm")
  /\ Post(ServedClient(s), Reply(s))
  /\ UNCHANGED <<main, cur, crashed, peers>>

SendRefused(s) ==
  /\ Goto(s, "send", "rearm")
  /\ sock[ServedClient(s)] = "rst"
  /\ PostRefused(Reply(s))
  /\ UNCHANGED <<main, cur, crashed, peers>>

\* Client::ReceiveReady; a reset socket may be noticed by getsockopt, by
\* WSARecv, or only when the operation completes.
ReceivePosted(s) ==
  /\ Goto(s, "rearm", "recycle")
  /\ Post(ServedClient(s), [Cleared EXCEPT !.op = "recv"])
  /\ UNCHANGED <<main, cur, crashed, peers>>

ReceiveRefused(s) ==
  /\ Goto(s, "rearm", "recycle")
  /\ sock[ServedClient(s)] = "rst"
  /\ PostRefused([Cleared EXCEPT !.op = "recv"])
  /\ UNCHANGED <<main, cur, crashed, peers>>

ReceiveSocketError(s) ==
  /\ Goto(s, "rearm", "recycle")
  /\ sock[ServedClient(s)] = "rst"
  /\ UNCHANGED <<objects, kernel, main, cur, crashed, peers>>

PopNull(s) ==
  /\ Running /\ at[s] \in {"send", "rearm"}
  /\ PopNothing
  /\ UNCHANGED <<main, at, cur, peers>>

\* Faulty variant: the push at the end of the loop body is missing.
RecycleUnpushed(s) ==
  /\ Goto(s, "recycle", "wait")
  /\ ov' = [ov EXCEPT ![cur[s].ov] = Cleared]
  /\ cur' = [cur EXCEPT ![s] = NoCompletion]
  /\ UNCHANGED <<pool, lost, kernel, main, crashed, peers>>

\* The end of the loop body: Clear() and push().
Recycle(s) ==
  /\ Goto(s, "recycle", "wait")
  /\ Len(pool) < Capacity
  /\ ov' = [ov EXCEPT ![cur[s].ov] = Cleared]
  /\ pool' = Append(pool, cur[s].ov)
  /\ cur' = [cur EXCEPT ![s] = NoCompletion]
  /\ UNCHANGED <<lost, kernel, main, crashed, peers>>

SessionStep(s) ==
  \/ TakeAccepted(s) \/ TakeMessage(s) \/ TakeDisconnect(s) \/ TakeSent(s)
  \/ TakeFailed(s)
  \/ DispatchRequest(s) \/ DispatchUnknown(s) \/ DispatchEmptyCallback(s)
  \/ SendPosted(s) \/ SendRefused(s)
  \/ ReceivePosted(s) \/ ReceiveRefused(s) \/ ReceiveSocketError(s)
  \/ PopNull(s) \/ Recycle(s)

-----------------------------------------------------------------------------
(* External: the kernel completes operations, each kind in posting order. *)

Posted(c, kind) ==
  {i \in DOMAIN pending[c] : ov[pending[c][i]].op = kind}

Oldest(c, kind, i) ==
  i \in Posted(c, kind) /\ \A j \in Posted(c, kind) : i <= j

Complete(c, i, key, bytes, ok) ==
  /\ pending' = [pending EXCEPT ![c] = RemoveAt(@, i)]
  /\ completions' = Append(completions,
       [ov |-> pending[c][i], key |-> key, bytes |-> bytes, ok |-> ok])
  /\ UNCHANGED <<pool, lost, threads>>

\* A peer connects; the listening socket's completion key is 0.
Connect(c) ==
  /\ Running
  /\ \E i \in Posted(c, "accept") : Complete(c, i, None, 0, TRUE)
  /\ sock' = [sock EXCEPT ![c] = "open"]
  /\ UNCHANGED <<ov, asked, received, answered>>

ConnectFails(c) ==
  /\ Running /\ "accept" \in Faults
  /\ \E i \in Posted(c, "accept") : Complete(c, i, None, 0, FALSE)
  /\ sock' = [sock EXCEPT ![c] = "rst"]
  /\ UNCHANGED <<ov, asked, received, answered>>

\* One receive takes what has arrived: its first message is read as the
\* request, whatever follows in the same buffer is never looked at.
Deliver(c) ==
  /\ Running /\ sock[c] \in {"open", "fin"}
  /\ \E n \in received[c] + 1 .. Len(asked[c]), i \in Posted(c, "recv") :
       /\ Oldest(c, "recv", i)
       /\ Complete(c, i, c, n - received[c], TRUE)
       /\ ov' = [ov EXCEPT ![pending[c][i]].msg = received[c] + 1]
       /\ received' = [received EXCEPT ![c] = n]
  /\ UNCHANGED <<sock, asked, answered>>

\* After the peer's FIN every receive completes at once with no bytes.
DeliverEnd(c) ==
  /\ Running /\ sock[c] = "fin" /\ received[c] = Len(asked[c])
  /\ \E i \in Posted(c, "recv") : Oldest(c, "recv", i) /\ Complete(c, i, c, 0, TRUE)
  /\ UNCHANGED <<ov, peers>>

Transmit(c) ==
  /\ Running /\ sock[c] \in {"open", "fin"}
  /\ \E i \in Posted(c, "send") :
       /\ Oldest(c, "send", i)
       /\ Complete(c, i, c, 1, TRUE)
       /\ answered' = [answered EXCEPT ![c] = Append(@, ov[pending[c][i]].msg)]
  /\ UNCHANGED <<ov, sock, asked, received>>

\* Operations on a reset socket complete with an error.
Abort(c) ==
  /\ Running /\ sock[c] = "rst"
  /\ \E i \in DOMAIN pending[c] : Complete(c, i, c, 0, FALSE)
  /\ UNCHANGED <<ov, peers>>

KernelStep(c) ==
  Connect(c) \/ ConnectFails(c) \/ Deliver(c) \/ DeliverEnd(c) \/ Transmit(c) \/ Abort(c)

(* External: the peer of a connection. *)

Ask(c, kind) ==
  /\ Running /\ sock[c] = "open"
  /\ Len(asked[c]) < MaxRequests[c]
  /\ Len(asked[c]) - Len(answered[c]) < Window
  /\ asked' = [asked EXCEPT ![c] = Append(@, kind)]
  /\ UNCHANGED <<objects, kernel, threads, sock, received, answered>>

Hangup(c, how) ==
  /\ Running /\ how \in Faults
  /\ \/ how = "fin" /\ sock[c] = "open"
     \/ how = "rst" /\ sock[c] \in {"open", "fin"}
  /\ sock' = [sock EXCEPT ![c] = how]
  /\ UNCHANGED <<objects, kernel, threads, asked, received, answered>>

PeerStep(c) ==
  \/ \E kind \in {"request", "unknown"} : Ask(c, kind)
  \/ \E how \in {"fin", "rst"} : Hangup(c, how)

-----------------------------------------------------------------------------
Next ==
  \/ MainStep
  \/ \E s \in Sessions : SessionStep(s)
  \/ \E c \in Clients : KernelStep(c) \/ PeerStep(c)

Spec == Init /\ [][Next]_vars

\* Windows schedules every runnable thread and completes every operation that
\* can complete; no peer is obliged to connect, ask or hang up.
FairSpec ==
  /\ Spec
  /\ WF_vars(MainStep)
  /\ \A s \in Sessions : WF_vars(SessionStep(s))
  /\ \A c \in Clients :
       WF_vars(Deliver(c) \/ DeliverEnd(c)) /\ WF_vars(Transmit(c)) /\ WF_vars(Abort(c))

-----------------------------------------------------------------------------
(* Type invariant. *)
Completion ==
  [ov : Overlappeds, key : Clients \cup {None}, bytes : Nat, ok : BOOLEAN]

TypeOK ==
  /\ main \in {"initialize", "failed", "accept", "spawn", "ready", "work"}
  /\ pool \in Seq(Overlappeds)
  /\ lost \subseteq Overlappeds
  /\ ov \in [Overlappeds -> [op : {"default", "accept", "recv", "send"},
                             id : Clients \cup {None}, msg : Nat]]
  /\ pending \in [Clients -> Seq(Overlappeds)]
  /\ completions \in Seq(Completion)
  /\ at \in [Sessions -> {"off", "wait", "dispatch", "send", "rearm", "recycle"}]
  /\ cur \in [Sessions -> Completion \cup {NoCompletion}]
  /\ sock \in [Clients -> {"new", "listening", "open", "fin", "rst"}]
  /\ asked \in [Clients -> Seq({"request", "unknown"})]
  /\ received \in [Clients -> Nat]
  /\ answered \in [Clients -> Seq(Nat)]
  /\ crashed \in {"no", "null overlapped", "empty callback", "null client map"}

-----------------------------------------------------------------------------
(* Safety. *)

Holding(s) == at[s] \in {"dispatch", "send", "rearm", "recycle"}

\* Every reference to overlapped o, wherever it is kept.
References(o) ==
  Cardinality({i \in DOMAIN pool : pool[i] = o})
  + Cardinality({ci \in Clients \X (1 .. Cardinality(Overlappeds)) :
                   ci[2] \in DOMAIN pending[ci[1]] /\ pending[ci[1]][ci[2]] = o})
  + Cardinality({i \in DOMAIN completions : completions[i].ov = o})
  + Cardinality({s \in Sessions : Holding(s) /\ cur[s].ov = o})

(* An overlapped has exactly one owner, the pool, the kernel, the completion *)
(* queue or one session, until a failed call (Client.cpp:83, 115,            *)
(* Session.cpp:40-45) or the refused push of Initialize leaves it to nobody: *)
(* it is never reused while an operation still writes into it.               *)
OneOwner ==
  main \notin {"initialize", "failed"} =>
    \A o \in Overlappeds : References(o) = IF o \in lost THEN 0 ELSE 1

IsChain(o) == ov[o].op \in {"accept", "recv"}

\* The accept or receive of client c that is posted, completed or being
\* handled and not yet posted again.
Chains(c) ==
  Cardinality({i \in DOMAIN pending[c] : IsChain(pending[c][i])})
  + Cardinality({i \in DOMAIN completions :
       /\ IsChain(completions[i].ov)
       /\ IF ov[completions[i].ov].op = "accept"
          THEN ov[completions[i].ov].id = c ELSE completions[i].key = c})
  + Cardinality({s \in Sessions :
       at[s] \in {"dispatch", "send", "rearm"} /\ ServedClient(s) = c})

(* A connection that has not been reset has exactly one receive outstanding *)
(* or being handled, whatever else its session does or fails to do: no      *)
(* message is read by two threads, and no live client is forgotten          *)
(* (Session.cpp:66, 99, Client.cpp:66-96).                                  *)
OneReceiveChain ==
  \A c \in Clients :
    IF sock[c] = "new" THEN Chains(c) = 0
    ELSE Chains(c) = 1 \/ (sock[c] = "rst" /\ Chains(c) = 0)

(* A peer gets replies only to its own requests, each once, in the order it *)
(* asked, although any session thread may handle any of them                *)
(* (Session.cpp:92-96, NetworkManager.cpp:151-168).                         *)
RepliesInOrder ==
  \A c \in Clients :
    /\ \A i \in DOMAIN answered[c] : asked[c][answered[c][i]] = "request"
    /\ \A i, j \in DOMAIN answered[c] : i < j => answered[c][i] < answered[c][j]

(* A client socket is never accepted again, so each can leak its chain and  *)
(* the replies of one window at most: the leaks of Client.cpp:83 and 115    *)
(* and Session.cpp:44 cannot drain the pool, however long the server runs.  *)
LeaksAreBounded ==
  Cardinality(lost) <= 1 + Cardinality(Clients) * (1 + Window)

SendsInFlight ==
  Cardinality({o \in Overlappeds : ov[o].op = "send" /\ o \notin lost})

(* pop() returns nullptr, and the process dies in Client.cpp:44, 78 or 107, *)
(* only when leaks and unfinished sends hold all but one overlapped per     *)
(* client and per session thread.                                           *)
CrashNeedsExhaustion ==
  crashed = "null overlapped" =>
    Cardinality(lost) + SendsInFlight
      > Cardinality(Overlappeds) - Cardinality(Clients) - Cardinality(Sessions)

(* The pool never runs dry: with at least this many overlappeds pop() never *)
(* returns nullptr.                                                         *)
NeverExhausted == crashed # "null overlapped"

(* Once NetworkManager::Ready has logged "Ready Success !!" (line 148) a    *)
(* request does not terminate the server.                                   *)
ReadyServesRequests ==
  [][(main \in {"ready", "work"}) => crashed' # "empty callback"]_vars

(* A request that is the next one to be received is answered, unless the    *)
(* connection is reset: no session thread is kept from it by the endless    *)
(* empty receives of closed connections (Session.cpp:80-99).  A request that*)
(* arrives behind another one in the same buffer is not promised anything:  *)
(* the session looks at the first message only (Session.cpp:87-97).         *)
RequestsAnswered ==
  \A c \in Clients : \A n \in 1 .. MaxRequests[c] :
    (n <= Len(asked[c]) /\ received[c] = n - 1 /\ asked[c][n] = "request")
      ~> ((\E i \in DOMAIN answered[c] : answered[c][i] = n)
           \/ sock[c] = "rst" \/ ~ Running)
=============================================================================
