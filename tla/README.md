# RankingServer: specifications, model checking and proofs

RankingServer is a Windows server for game scores. Clients connect over TCP,
send FlatBuffers requests ("save my score", "what is my rank"), and are
answered by a pool of threads around one I/O completion port. Scores are kept
in Redis for a while and merged into SQL Server by the main thread once a
minute, which then recomputes the ranking and caches its top in Redis again.

This directory holds TLA+ models of that program, the TLC runs that check them
and TLAPS proofs about them. Paths are relative to `src/RankingServer/`.

## 1. Inventory

| Component | State | Operations | Interacts with |
|---|---|---|---|
| Lock-free ring, `include/LockFreeCircleQueue.h` | two atomic indices, the slots | `push`, `pop`, `size`, `Construct` | called by the network core, from every thread |
| Network core, `src/NetworkManager.cpp`, `Client.cpp`, `Session.cpp` | listen socket, completion port, client sockets, pool of 200 overlappeds, threads | `Initialize`, `Ready`, `AcceptReady`, `ReceiveReady`, `Send`, the loop of `Process` | kernel (completions), ring (pool), Hub (callbacks) |
| Packets, `include/MyPacket.h` | operation type, header, body of one overlapped | `SetHeader`, `SetBody`, `SetOperationType`, `Clear` | owned by pool, kernel or a session |
| Hub and RankingSystem, `src/Hub.cpp`, `RankingSystem.cpp` | the two callbacks | `Initialize`, `Read`, `Send`, `Response_*`, `Work` | runs on session threads (requests) and on the main thread (work loop) |
| DatabaseWorker, `src/DatabaseWorker.cpp` | one Redis context, one SQL connection and statement | loads, `SetCachedData`, `GetCachedData`, `ScoreDataSave`, `RankingUpdate` | Redis and SQL Server; called by all threads |
| Database, `RankingDatabaseQuery.sql` | tables Score and Ranking | `UpdateRanking`, `InsertScores` | DatabaseWorker |
| Data structures, converters | none | JSON, character sets, time | DatabaseWorker, Hub |
| FlatBuffers accessors | none | `GetRoot`, fields of a table | Hub |
| Vendored libraries, log | none of the program's own | | |

What is hard in this code, and what makes each part correct:

* **Ring.** One access at a time of several threads interleaves. Correct: it is
  a FIFO that loses and duplicates nothing. It is for one producer and one
  consumer; the pool is used by every session thread.
* **Network core.** Completions arrive in any order and at any thread; sockets
  close or reset at any step; calls fail; the pool is finite. Correct: an
  overlapped has one owner, a connection has one receive outstanding, replies
  come in order, live connections are served, the pool does not run dry.
* **Hub.** Threads start before the last callback is set; a part that fails to
  start is not noticed.
* **Packets.** TCP keeps no message boundaries; objects are reused for other
  clients. Correct: a stored score is one that was sent, a reply is its client's.
* **DatabaseWorker.** Sessions write Redis while the main thread scans it; keys
  expire; statements and connections fail; the process restarts with Redis and
  SQL as they are; all threads share one Redis context. Correct: a stored score
  never goes back and is its player's, a scan forgets nothing, acknowledged
  scores reach a table, served ranks are those of the table.

`PROJECT.json` lists each hazard at its line with the properties that cover it.

## 2. Modules

```
BoundedQueue <--refined by-- LockFreeCircleQueue <--EXTENDS-- OverlappedPool --refines--> AtomicPool
                                   |        |                    |       |
                                MCQueue     |                 MCPool     |
                      LockFreeCircleQueueProofs <--EXTENDS-- OverlappedPoolProofs
ScoreLedger  <--refined by-- DatabaseWorker <-- MCDatabase
                                   |
                           DatabaseWorkerProofs
IocpServer <-- MCServer        RedisConnection <-- MCRedis
    |                                 |
IocpServerProofs               RedisConnectionProofs
    |
IocpConnectionProofs           Packets, Records <--EXTENDS-- SavePath <-- MCSavePath
    |                                                            |
IocpReplyProofs                                            SavePathProofs
```

The modules look at the same program from different distances: IocpServer has
every step of the threads and no bytes, SavePath has the bytes and handles a
completion in one step; RedisConnection has every step of a Redis command and
no lifetimes, DatabaseWorker has lifetimes, failures and restarts, and takes a
command as atomic. What one leaves out, another has.

**BoundedQueue** is what the ring promises: a FIFO of `Capacity` items, a push
refused exactly when it is full, a pop that gives `T()` exactly when it is empty.

**LockFreeCircleQueue** has one action per access to shared memory: `push` is
load of the input index, comparison with the output index, write of the slot,
store of the input index (lines 39-49); `pop` is the mirror image (55-65). The
locals of a call are `index` and `data`, indexed by thread. Loads acquire and
stores release, so a sequentially consistent interleaving of these steps shows
every behaviour of one producer and one consumer; for more threads the plain
slot accesses race as well, and the interleavings are a subset of what may
happen. `Pushers` and `Poppers` are sets of threads. The refinement
mapping reads the queue off the indices and the slots (`Contents`).

**OverlappedPool** drives the ring as the server does: the main thread
constructs and pushes, pops one overlapped per client, and starts the sessions;
a session takes a completed overlapped, pops another for the next receive,
posts it, and pushes the first back. What the session does with the data is
left out here, and so are sends and failures.

**AtomicPool** is what OverlappedPool comes to as long as no two pushes and no two
pops overlap (`CallsApart`), however many sessions there are: a FIFO whose push
and pop are one step, overlappeds that go from it to the kernel, to a
session and back, and a push into a full pool that loses one. A call takes effect
where it stores its index; the mapping (`Atomic` in OverlappedPool) counts an
overlapped as made when its push has returned.

**IocpServer** is the network core with Hub's start-up. `main` is the main
thread in `Hub::Initialize`, from `NetworkManager::Initialize` (which may
return early, whereupon `Ready` dereferences a null map) to the last callback; `at[s]` is a session in `Session::Process`; `ov[o]`
is what an overlapped contains, `pool`, `pending`, `completions`, `cur` and
`lost` are where it can be. A client socket is accepted once, as in the code
(nothing ever posts a second `AcceptEx`). One action is one Winsock call with the pool
operation before it, or one branch of the loop. The pool is a bounded sequence
with atomic operations here: `PoolRefinement` justifies that for any number of
sessions in the executions in which no two pushes and no two pops overlap, while
a push and a pop may. Nothing in the code keeps calls of one kind apart: the run
`pool_two_sessions` shows the ring breaking when they overlap, and the properties
of IocpServer are about the code apart from that defect.
A message is `request` (answered through Hub) or `unknown` (Hub::Send's
default branch). The kernel and the peers are external: operations of one kind
complete in the order they were posted on a socket, a receive takes all bytes
that have arrived, a closed connection completes receives with no bytes. Of
several messages taken by one receive the session looks at the first only
(Session.cpp:87-97), so the others are never answered, and
`RequestsAnswered` promises them nothing.

**DatabaseWorker** is the path of a score. `saves[p]` is the history of the
scores acknowledged to player p; Redis and the tables hold version numbers into
that history, so that "older" has a meaning. `main` is the main thread from
`Hub::Initialize` (the two connections, either of which may not open) through
`DataLoadInSQL` to `Hub::Work`; a session's `Response_SaveScore` is one action
(one SET). The scan returns any keys in any batches, as Redis allows, and over a
whole iteration every key present throughout. Time is a number of ticks of half a
minute: 60 s of Hub.cpp:99 are 2, the interval of main.cpp:8 is 2. Redis commands
and SQL statements are atomic. The model
supposes a database with the columns that the queries name: the script of the
repository calls Score's third column `late_update` (sql:10) where the code
says `last_update` (DatabaseWorker.cpp:118), and gives Ranking no `score` (:176), so on the
tables it creates every load and every merge fails.

**ScoreLedger** is what DatabaseWorker promises of table Score, and all of it: a
list of acknowledged scores per player, and one of them stored, which is only
replaced by a later one. It promises no more than that. In particular an
acknowledged score may never be stored, and DatabaseWorker's own
`LostOnlyByExpiryOrRestart` says when.

**RedisConnection** splits `redisCommand` on the shared context into what
hiredis.h says it does: append to the output buffer; return an unconsumed
reply, or flush and read until there is one. The saves of a player are numbered,
keys and rows hold the numbers. `at[t]` is where thread t stands,
`got[t]` the reply it was given, and the code that uses a reply (Hub, the save
cycle, the ranking) is one step that consumes it. A reply carries, as history,
the thread whose command it answers; no action reads that. hiredis's own data
races (two threads inside `memcpy` of one buffer) are undefined behaviour
beyond these steps, so that the interleavings are a subset of what may happen.

**Packets** and **Records** are the pure operators of **SavePath**: a message is
four parts (header ids, contents type, table, name), an overlapped has `Slots`
of them and the length the last operation declared; a record is a score as JSON
under a Redis key or as a row. SavePath follows a score from the client's bytes
(`stream`) through `WSARecv`, `Clear`, the request, the cache, MERGE and the load
of a restart. A delivery may end anywhere. What it brings of a part beyond the
whole ones is in `Requests`, the set of what GetRoot may make of the buffer: the
beginning of a string is followed by zeros, so that the name is one of
`Begins[name]`, or empty; the beginning of a table has no string yet, its score
and time are `Scrap` and its name is empty, or `str()` reads through null or
outside the buffer (`ReceiveFatal`); a receive that began inside a message may be
read as anything at all, a save under any name included. `delivery[c]` is the
history of that: client c's messages came "whole" so far (joined or not), one was
"split", or a receive began inside one ("lost").

Definitions commented "Faulty variant" are plausible bugs of the definition
that follows. No specification uses them: they serve to test that the
properties notice.

## 3. Runs

| Run | Instance | Shows |
|---|---|---|
| `queue_spsc` | 4 slots, 3 items, 1 producer, 1 consumer | `ImplementsBoundedQueue`, and the inductive invariant `RingInv` of its proof |
| `pool_calls_apart` | 5 overlappeds, 2 clients, main + 2 sessions, `ApartSpec` | `ExclusiveOwnership`, `ImplementsAtomicPool` |
| `pool_two_sessions` | main + 2 sessions, calls overlapping | violation: two pops return one overlapped |
| `server_faults` | 2 clients, 2 sessions, 5 overlappeds, failing start-up, all faults | `OneOwner`, `OneReceiveChain`, `CrashNeedsExhaustion`, types |
| `server_window` | 1 client, 2 sessions, 6 overlappeds, 3 messages, 2 in flight | `RepliesInOrder`, `LeaksAreBounded`, `NeverExhausted` |
| `server_fair` | 2 clients, one of which pipelines 2 messages, 1 session, 6 overlappeds, fair | `RequestsAnswered` |
| `server_start` | 1 client, 1 session | violation: request before `RankingSystem::Ready` |
| `scores_saved` | 2 players, 3 saves, all faults | `ImplementsLedger`, `SqlNeverRegresses`, `CacheNotOlder`, `ScanSavesEveryKey`, `LostOnlyByExpiryOrRestart`, `TopRanksServed`, `SharedRankExpiresFirst`, types |
| `score_expires` | 1 player, lifetime = interval | violation: acknowledged score lost |
| `redis_shared` | 1 session and main, 2 players, one of whom saves twice, connection may be lost, fair | `OneReplyPerCaller`, `AloneGetsOwnReply`, `RowsNeverGoBack`, `CallsReturn`, types |
| `redis_swapped` | 2 sessions and main, 2 players | violation: a player is answered another's rank |
| `save_path` | 2 clients, 4 overlappeds of 8 slots, 3 names, 2 messages | `InStep`, `ScoresAsSent`, `RepliesAreOwn`, types |

Bounds and why they are enough:

* *Ring*: four slots let the indices wrap, the ring be full and empty, and each
  side lag the other by every distance. The proof covers every size.
* *Pool*: as many objects as the ring has slots, so that the last push is refused;
  two clients and two sessions let one session push while the other pops, and
  hold an overlapped while another operation is posted.
* *Server*: `MaxRequests` and `Window` bound what a peer sends. Two clients are
  the least for one to be starved by another; two sessions the least for one
  connection's completions to be handled concurrently. With five overlappeds
  the pool of four can be emptied, so `PopNull` occurs; with six and one client
  two sessions can answer two messages of one connection at a time, if its
  receives were not chained. `server_fair` has a window of two, so that the
  second message may arrive with the first in one receive, or in the next. In
  `server_faults`
  the order in which the overlappeds are created is any order, which makes
  their symmetry sound. Runs of the server do not check deadlock: when every
  peer has gone, or the process has terminated, it really may stop.
* *Database*: `MaxSaves` bounds the saves of both players together, rows at the
  start included. Three let one player be saved twice, so that one version is
  older, while the other player is in the table too; two players are the
  least for a scan to be split and for TOP 1 to leave one out. `Slack` bounds
  by how much a cycle or a sleep overruns, and how long the server is down.
  Lifetimes are over-approximated: a key may go at any point of its last tick.
  `LoadTTL` stands for ten minutes; 5 ticks suffice to outlive one interval
  with every overrun, which is what `TopRanksServed` needs (4 do not). `Tick`
  does not pass while connecting, where no key is read; ticks are made up for
  afterwards.
* *Redis connection*: one session beside the main thread already shares the
  context, takes the other's replies and blocks it; with two sessions, replies
  are swapped between players. Nothing is bounded but the callers, since a
  caller has at most one command outstanding, and saves: the second of a player is
  the least that can be overwritten by an older one, and the other player saves
  once (`TwiceOne`), which is enough for the main thread to be handed a reply about
  one player when it asked for the other.
* *Save path*: the names are one of sixteen characters, its first fifteen, and
  none; a name begins with the shorter ones. An overlapped has room for two
  messages of four parts, so that two may arrive whole in one receive; two messages
  let one client's be cut while the other's arrive whole, and one client's buffers
  be reused for another with leftovers in them. The run has no name too long for
  its column, and no delivery larger than a buffer, whose rest would stay for the
  next receive as that of a cut at the buffer's end does; the proofs cover both.
  `DaylightShift` is 0.

Fairness (`FairSpec` of IocpServer, used by `server_fair`): weak fairness of the main thread,
of each session thread (Windows schedules every runnable thread) and of the
completion of receives, sends and aborted operations of each client. Nothing is
assumed of peers: none must connect, ask or hang up. The completion queue is
served first in first out, as the port does it.

`redis_shared` checks `CallsReturn` under weak fairness of each thread's next
step in `redisCommand` and after it, of the main thread's work, and of Redis
executing a command that has reached it. The sleep of the main thread is
outside a call and has no part in `CallsReturn`. That the connection is lost is
never required.

## 4. Findings

1. `pool_two_sessions`: `LockFreeCircleQueue::pop` and `push` are used by all
   session threads (at least two, NetworkManager.cpp:23). Two threads that load the same output index pop
   the same overlapped.
2. `server_start`: Hub.cpp:34-35 starts the threads before the callback is set;
   an early request calls an empty `std::function` on a detached thread.
3. `score_expires`: the 60 s of Hub.cpp:99 equal the interval; a cycle starts
   later than one interval after the previous one, so a score saved just after
   a scan may expire unseen.
4. `redis_swapped`: session threads and the main thread share `mRedis` without a
   lock (DatabaseWorker.cpp:212, 229, 251, 267); overlapping calls consume each
   other's replies, so a player is answered the rank of another.

What the passing runs show beside these, as properties with their exceptions
written into them: a load at start overwrites a newer cached score, and a save
on a failed context is acknowledged (`LostOnlyByExpiryOrRestart`); a player who
left the top is answered a rank that another now holds, until it expires
(`SharedRankExpiresFirst`); a thread may block for ever on a shared context
although Redis answers (`CallsReturn`); a request that arrives in one receive with
another is dropped (`RequestsAnswered`); a delivery that ends inside a message
stores a score under no name or a shortened one, or ends the process (`InStep`,
`ScoresAsSent`); a name of sixteen characters comes back as another player
(`ScoresAsSent`).

## 5. Proofs

All theorems hold for every value of the constants that satisfies the named
assumptions (`QueueAssumption`, `PoolAssumption`, `WorkerAssumption`, `ServerAssumption`,
`ConnectionAssumption`, `PacketsAssumption`, `RecordsAssumption`,
`SavePathAssumption`).

**LockFreeCircleQueueProofs.** `QueueTypeCorrect`: indices stay in the ring, for
any number of threads. `QueueOwnership` and `QueueRefinement` assume
`SingleProducerConsumer`. The refinement itself is not inductive: that the slot
the producer stores really holds its item, and that the consumer returns the
head, needs that nobody moves an index, or writes its slot, between a thread's
load and its store. `RingInv` says that (`ProducerOwnsInput`,
`ConsumerOwnsOutput`). Lemmas about `%` say what the
next slot is and that `size()` tells empty from full; then the store of the
input index appends to `Contents`, the store of the output index takes its
head, the failing comparisons are the refusals, every other step stutters.

**OverlappedPoolProofs.** Both theorems are about any number of sessions, and
assume `[]CallsApart`: no two threads are inside `push` at a time, nor inside
`pop`. The program has such executions, and others, since nothing keeps the calls
apart; what the theorems say is that overlapping calls of one kind are the only
way the queue can fail the server. A push of one thread and a pop of another do
interleave, and every thread does both, so `SingleProducerConsumer` does not hold;
what can be used of the ring's proof is that a push that no other push disturbs,
and a pop that no other pop does, keep the two ownerships of `RingInv`, and the
lemmas on `Contents`.
* `PoolExclusive` rests on `PoolInv`. `Phases` says who may be inside a call: the
  main thread pushes before the first accept and pops before the last, a session
  is inside a call only with an overlapped in hand, which it cannot have before
  the last accept. `Homes` says where an overlapped may be: the slots hold
  different ones, none of them posted, held or being pushed by the main thread;
  none is posted twice or posted and held. Without `CallsApart` the ownerships
  fail, and `pool_two_sessions` shows the consequence.
* `PoolRefinement` adds `Turns`: a session is inside `pop` before, and inside
  `push` after it has been returned an overlapped. The store of an index is the
  step of AtomicPool, all else stutters, and a push is refused exactly when the
  pool holds `mQueueMaxSize - 1`.

**DatabaseWorkerProofs.**
* `DatabaseTypeCorrect` strengthens `TypeOK` by `RowsRanked` (the rows being
  cached are in the table), since `RankOf` is a `CHOOSE`.
* `CacheAheadOfSql` and `SqlMonotone` rest on `StoreInv`: `CacheNotOlder` is not
  inductive because a MERGE raises the row to what GET returned, so that has to
  be no newer than the key (`GotIsCurrent`), and a SET writes the newest
  version, so nothing may be ahead of the history (`NoneAhead`).
* `LedgerRefinement` uses `StoreInv` for the one step that stores, a MERGE, and
  the type invariant; every other step acknowledges or stutters.
* `ScoresLostThreeWays` goes through the steps that write the cache or the
  table. A MERGE that raises the row cannot lose the newest score, since what
  it writes is no older than the row it replaces.
* `ScanComplete` rests on `ScanInv`: a key that the scan has returned is merged,
  waits in the batch or is the one read last (`ScannedSaved`); the key under
  which a version was found when the scan began holds at least that version or
  has run out (`KeysStay`); the reply with cursor 0 completes the iteration
  (`LastReply`), which is the external guarantee of SCAN.
* `TopServed` rests on `FreshKeys`: during a load that has not failed and the
  sleep after it, a row of TOP that the load has passed is under its player's key,
  and the key has lived no longer than the load and the sleep so far. Its
  hypothesis is `KeysOutliveSleep`,

      LoadTTL > Interval + Slack + Slack

  one `Slack` for the load and one for the sleep that overruns: 600 s against 60 s
  in the code, which leaves nine minutes for both. It is tight: with 4 ticks
  instead of 5 TLC finds a key that ran out. That a row's key is the one of its
  player needs that the table names a player once (`RankTypes`).
* `SharedRankExpires` rests on `OldKeys`: a key that is not a row of the table was
  set before the table was filled, hence before a whole sleep, also when the
  process died or a statement failed in between; so a key set in the last load
  (`SharedRanks`) outlives it. Its hypothesis is that `Interval` is not 0.

**RedisConnectionProofs.** `ReplyForEachCaller` counts: `OneReplyPerCaller` is
inductive with the types alone, since each step of `redisCommand` moves one entry
between the buffers, the wire and a thread. `AloneIsServed` is not inductive
without `AloneInv`: while a call is alone everything outstanding on the
connection is that call's own. `RowsOnlyAdvance` holds although replies are swapped
between threads and players: what is still to come of a player's scores, from the
command that carries the newest to the reply that carries the oldest, is in
order and none of it is older than the row, since Redis executes in the order the
context was written, a reply is consumed once and in order, and a MERGE
is keyed by the `player_id` inside the JSON.

**IocpServerProofs.** `OverlappedsOwned` rests on `OwnInv`: the pool, the kernel's
queues and the completion queue hold an overlapped once each (`EachOnce`), no two
of them the same (`Apart`), every overlapped is in one of them, with a session or
lost once the server has started (`Placed`), and its operation type says where it
may be (`Operations`). A step hands one overlapped on; there is a lemma for each
pair of places it may go between.

**IocpConnectionProofs.** `ChainKept` rests on `ChainInv`: the set of overlapped
that carry a client's accept or receive (`ChainSet`) has one member while its
socket lives and at most one after. `CrashExplained` adds that the state in which
`pop` returned `nullptr` is frozen: pool empty, the thread still holding.

**IocpReplyProofs.** `RepliesOrdered`: a message is newer than every reply on its
way and every reply got, which needs that messages of one client are handled one
at a time (`ChainKept`) and that its sends leave the kernel in order (`ReplyInv`).
`LeaksBounded` counts: a lost overlapped is the one the ring refused, the chain
of a socket (a socket is accepted once), or one of the replies its peer has not
got, which are among the messages of its last window (`LossInv`). `PoolNeverDry`
uses the same count of everything that is not in the pool, and has the sizing
rule as its hypothesis:

    Cardinality(Overlappeds) > Cardinality(Clients) * (1 + Window) + Cardinality(Sessions)

The rule is tight: TLC finds the crash when both sides are equal. With the 200
overlappeds of NetworkManager.cpp:101, the 10 clients of main.cpp:7 and two
threads per processor, a server of eight processors is safe while no client has
more than 17 requests unanswered; the code enforces no such window.

**SavePathProofs.** `PathInv` says that what is on the wire is a suffix of whole
messages of its own client (`StreamInv`), that an overlapped holds nothing behind
the length it declares and a posted one holds nothing at all (`BufferInv`), and
that a key's value carries the key (`KeyInv`). From these, `RequestRead` says what
a body can be read as: a table and a name read together are of one message of the
client that the receive belongs to. `ScoresSafe` and `RepliesSafe` carry
that to the keys, the rows and the replies; the history `delivery` only ever
allows more of a client (`Grows`), so what is stored when it was "whole" stays
within what a later cut allows. `RepliesSafe` also needs that an overlapped with a
reply is neither in the pool nor posted. `StaysInStep` adds that no row has the
empty name while every client's messages came whole, or a restart would load it.
Parts are told from zeroed and uninitialised bytes, only the empty name is cut to
the empty name, and every name begins with nothing (`SavePathAssumption`).

Every inductive invariant was also checked with TLC on the instances of its
component's runs.

Every invariant and action property of the passing runs is stated by a
theorem. Only model-checked is liveness, `RequestsAnswered` and `CallsReturn`
(fairness and ENABLED are outside TLAPS).

## 6. Not modelled

* The data races inside hiredis, and `redisConnect` returning NULL (out of
  memory), which the first command would dereference.
* Statement handles (RankingUpdate leaks one each cycle); memory (every
  `SetHeader` leaks a header, replies of Redis are not freed).
* Character sets: names are model values, so what the database's code page makes
  of a name outside ASCII is not said. The SCAN cursor is zero or not.
* `SetBody`'s refusal of a body longer than 1024 bytes: only a rank reply to a
  request that nearly fills the buffer comes near it. Header fields that nothing
  reads back (`mBodySize`, and the socket id outside accepts).
* A request of another kind than save in SavePath (IocpServer has those), and so
  what bytes out of step do when they read as a ranking request. A piece of the
  ids counts as the ids, and out of step a receive takes at least one part: there
  are no more receives out of step than parts.
* That the fields of a table that has partly arrived may be any mixture of sent
  bytes and zeros: `Scrap` stands for all of them, and the properties promise
  nothing about such a score but whose it is and that it has no name.
* Columns the repository's script does not have, and another order than the
  clustered one for `SELECT TOP`. `InsertRanking` writes the score that the
  SELECT of DatabaseWorker.cpp:176 reads, which `UpdateRanking` (sql:57-59) does
  not insert: it is one of the assumed columns.
* `clear`, `Front`, `print` of the ring, `Session::Deactivate` and
  `Client::Deinitialize`: nothing in the program calls them.
* Vendored libraries, the generated code beyond what the server reads; logging.

## 7. Plan

Done: the ring, the pool, the network core with its start-up, the score path with
its ledger, the shared Redis connection, the bytes and conversions of a save;
proofs of the ring, the pool, the score path, the network core, the shared
connection and the save path. Next, in this order:

1. IocpServer as a refinement of a specification of what peers see: each request
   answered at most once and in order.
2. Statement handles in DatabaseWorker; sends and failures in OverlappedPool, so
   that AtomicPool is all of IocpServer's pool.
