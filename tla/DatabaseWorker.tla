--------------------------- MODULE DatabaseWorker ---------------------------
(***************************************************************************)
(* Business::DatabaseWorker between Redis and SQL Server: the scores that  *)
(* sessions save in Redis (Hub::Response_SaveScore), the main thread that  *)
(* loads both tables at start and then, every interval, merges the cached  *)
(* scores into SQL, recomputes the ranking and caches its top (Hub::Work). *)
(*                                                                         *)
(* A score is a version: saves[p][v] is the v-th score acknowledged to     *)
(* player p, and the cache and the tables hold version numbers (0: no row, *)
(* no key).  Time is counted in ticks; Redis and SQL Server are external   *)
(* and survive a crash of the server.                                      *)
(***************************************************************************)
EXTENDS Integers, SequencesExt

CONSTANTS
  Players,
  Scores,    \* the values a score can take
  MaxSaves,  \* bound: saves acknowledged, rows at the start included
  ScoreTTL,  \* seconds of Hub.cpp:99, in ticks
  LoadTTL,   \* seconds of DatabaseWorker.cpp:142 and 198, in ticks
  Interval,  \* the argument of Hub::Work, in ticks
  Slack,     \* bound: ticks a cycle takes, or a sleep overruns
  TopN,      \* the TOP of RankingDataLoad's query
  Faults,    \* what may fail: subset of {"redis", "sql", "crash"}
  None       \* no value

ASSUME WorkerAssumption ==
  /\ IsFiniteSet(Players) /\ None \notin [player : Players, version : Nat]
  /\ Scores \subseteq Int
  /\ {MaxSaves, ScoreTTL, LoadTTL, Interval, Slack, TopN} \subseteq Nat
  /\ ScoreTTL > 0 /\ LoadTTL > 0
  /\ Faults \subseteq {"redis", "sql", "crash"}

VARIABLES
  saves,       \* saves[p]: the scores acknowledged to p, oldest first
  cache,       \* cache[p]: version under key table:Score:p
  ttl,         \* ttl[p]: ticks that key has left
  rankCache,   \* rankCache[p]: value under key table:Ranking:p
  rankTtl,     \* rankTtl[p]: ticks that key has left
  redisErr,    \* the connection's context has failed
  sqlErr,      \* the connection to SQL Server was never opened
  sqlScore,    \* table Score
  ranking,     \* table Ranking, by rank
  main,        \* where the main thread stands
  serving,     \* the session threads are running
  rows,        \* players whose row the current SELECT has yet to return
  todo,        \* keys of the current SCAN reply not yet read
  cursor,      \* the cursor that reply carried: 0 ends the scan
  got,         \* the score read by GET and not yet merged
  scanned,     \* keys this scan has returned
  begin,       \* versions at the start of the scan, still under their key
  clock,       \* ticks since the main thread fell asleep or woke
  clean        \* nothing has failed since the main thread last woke

redis   == <<cache, ttl, rankCache, rankTtl, redisErr>>
sql     == <<sqlScore, ranking>>
scan    == <<todo, cursor, got, scanned, begin>>
thread  == <<main, serving, sqlErr, rows, clock, clean>>
vars    == <<saves, redis, sql, scan, thread>>

NoRank  == [rank |-> 0, version |-> 0]
Cached  == {p \in Players : cache[p] # 0}
Ranked  == {p \in Players : rankCache[p] # NoRank}
Rows    == {p \in Players : sqlScore[p] # 0}

\* UpdateRanking's ROW_NUMBER() OVER (ORDER BY score DESC): ties in any order.
ByScore(q) ==
  \A i, j \in DOMAIN q :
    i < j => saves[q[i]][sqlScore[q[i]]] >= saves[q[j]][sqlScore[q[j]]]

\* The rows SELECT TOP returns: the clustered index on rank gives their order.
TopRows == 1 .. (IF Len(ranking) < TopN THEN Len(ranking) ELSE TopN)

RankOf(p) == CHOOSE i \in DOMAIN ranking : ranking[i].player = p

\* Hub::Initialize begins.  Table Score may hold rows from earlier runs; Redis
\* starts empty.
Init ==
  /\ \E old \in SUBSET Players :
       /\ saves \in [Players -> {<<>>} \cup {<<s>> : s \in Scores}]
       /\ \A p \in Players : saves[p] # <<>> <=> p \in old
       /\ sqlScore = [p \in Players |-> IF p \in old THEN 1 ELSE 0]
  /\ ranking   = <<>>
  /\ cache     = [p \in Players |-> 0]
  /\ ttl       = [p \in Players |-> 0]
  /\ rankCache = [p \in Players |-> NoRank]
  /\ rankTtl   = [p \in Players |-> 0]
  /\ redisErr  = FALSE
  /\ main      = "connect_sql"
  /\ sqlErr    = FALSE
  /\ serving   = FALSE
  /\ rows      = {}
  /\ todo      = {}
  /\ cursor    = 0
  /\ got       = None
  /\ scanned   = {}
  /\ begin     = [p \in Players |-> 0]
  /\ clock     = 0
  /\ clean     = TRUE

-----------------------------------------------------------------------------
(* SetCachedData: SET key value EX ttl.  On a failed context hiredis drops  *)
(* the command, and the code does not look at the reply.                    *)

SetScore(p, version, seconds) ==
  /\ cache' = IF redisErr THEN cache ELSE [cache EXCEPT ![p] = version]
  /\ ttl'   = IF redisErr THEN ttl ELSE [ttl EXCEPT ![p] = seconds]
  /\ UNCHANGED <<rankCache, rankTtl, redisErr>>

SetRank(p, value, seconds) ==
  /\ rankCache' = IF redisErr THEN rankCache ELSE [rankCache EXCEPT ![p] = value]
  /\ rankTtl'   = IF redisErr THEN rankTtl ELSE [rankTtl EXCEPT ![p] = seconds]
  /\ UNCHANGED <<cache, ttl, redisErr>>

\* Hub::Response_SaveScore on a session thread: SET, then "feedback: true".
SaveScore(p, score) ==
  /\ serving
  /\ FoldFunction(LAMBDA q, n : Len(q) + n, 0, saves) < MaxSaves
  /\ saves' = [saves EXCEPT ![p] = Append(@, score)]
  /\ SetScore(p, Len(saves[p]) + 1, ScoreTTL)
  /\ UNCHANGED <<sql, scan, thread>>

\* Hub::Response_PlayerRanking: what GetCachedData finds, or not in the ranking.
RankAnswer(p) == IF redisErr THEN NoRank ELSE rankCache[p]

-----------------------------------------------------------------------------
(* The main thread.  A step that fails leaves `clean' FALSE.                *)

Goto(from, to) ==
  /\ main = from
  /\ main' = to

SqlFails == "sql" \in Faults /\ clean' = FALSE

\* Initalize and RedisConnect: a connection that does not open is logged, and
\* Hub::Initialize goes on without it.
ConnectSql ==
  /\ Goto("connect_sql", "connect_redis")
  /\ UNCHANGED <<saves, redis, sql, scan, serving, sqlErr, rows, clock, clean>>

ConnectSqlFails ==
  /\ SqlFails
  /\ Goto("connect_sql", "connect_redis")
  /\ sqlErr' = TRUE
  /\ UNCHANGED <<saves, redis, sql, scan, serving, rows, clock>>

ConnectRedis ==
  /\ Goto("connect_redis", "select_scores")
  /\ UNCHANGED <<saves, redis, sql, scan, serving, sqlErr, rows, clock, clean>>

ConnectRedisFails ==
  /\ "redis" \in Faults
  /\ Goto("connect_redis", "select_scores")
  /\ redisErr' = TRUE
  /\ clean' = FALSE
  /\ UNCHANGED <<saves, cache, ttl, rankCache, rankTtl, sql, scan, serving, sqlErr, rows, clock>>

Connect == ConnectSql \/ ConnectSqlFails \/ ConnectRedis \/ ConnectRedisFails

\* ScoreDataLoad: SELECT, then one SET per row.
SelectScores ==
  /\ Goto("select_scores", "cache_scores")
  /\ ~ sqlErr
  /\ rows' = Rows
  /\ UNCHANGED <<saves, redis, sql, scan, serving, sqlErr, clock, clean>>

CacheScore(p) ==
  /\ main = "cache_scores" /\ p \in rows
  /\ rows' = rows \ {p}
  /\ SetScore(p, sqlScore[p], LoadTTL)
  /\ UNCHANGED <<saves, sql, scan, main, serving, sqlErr, clock, clean>>

ScoresLoaded ==
  /\ Goto("cache_scores", "select_ranks")
  /\ rows = {}
  /\ UNCHANGED <<saves, redis, sql, scan, serving, sqlErr, rows, clock, clean>>

\* RankingDataLoad, at start and at the end of every cycle.
SelectRanking ==
  /\ Goto("select_ranks", "cache_ranks")
  /\ ~ sqlErr
  /\ rows' = {ranking[i].player : i \in TopRows}
  /\ UNCHANGED <<saves, redis, sql, scan, serving, sqlErr, clock, clean>>

\* Faulty variants: the ranking cached without its score, under the key of the
\* score, with the lifetime of a saved score, and only under a free key.
CacheRankScoreless(p) ==
  /\ main = "cache_ranks" /\ p \in rows
  /\ rows' = rows \ {p}
  /\ SetRank(p, [rank |-> RankOf(p)], LoadTTL)
  /\ UNCHANGED <<saves, sql, scan, main, serving, sqlErr, clock, clean>>

CacheRankAsScore(p) ==
  /\ main = "cache_ranks" /\ p \in rows
  /\ rows' = rows \ {p}
  /\ SetScore(p, ranking[RankOf(p)].version, LoadTTL)
  /\ UNCHANGED <<saves, sql, scan, main, serving, sqlErr, clock, clean>>

CacheRankBriefly(p) ==
  /\ main = "cache_ranks" /\ p \in rows
  /\ rows' = rows \ {p}
  /\ SetRank(p, [rank |-> RankOf(p), version |-> ranking[RankOf(p)].version], ScoreTTL)
  /\ UNCHANGED <<saves, sql, scan, main, serving, sqlErr, clock, clean>>

CacheRankOnce(p) ==
  /\ main = "cache_ranks" /\ p \in rows
  /\ rows' = rows \ {p}
  /\ IF rankCache[p] # NoRank THEN UNCHANGED redis
     ELSE SetRank(p, [rank |-> RankOf(p), version |-> ranking[RankOf(p)].version], LoadTTL)
  /\ UNCHANGED <<saves, sql, scan, main, serving, sqlErr, clock, clean>>

CacheRank(p) ==
  /\ main = "cache_ranks" /\ p \in rows
  /\ rows' = rows \ {p}
  /\ SetRank(p, [rank |-> RankOf(p), version |-> ranking[RankOf(p)].version], LoadTTL)
  /\ UNCHANGED <<saves, sql, scan, main, serving, sqlErr, clock, clean>>

\* A SELECT that fails, or a fetch that does, ends the loading.
LoadFails ==
  /\ SqlFails
  /\ \/ Goto("select_scores", "select_ranks")
     \/ Goto("cache_scores", "select_ranks")
     \/ Goto("select_ranks", "cache_ranks")
  /\ rows' = {}
  /\ UNCHANGED <<saves, redis, sql, scan, serving, sqlErr, clock>>

FetchFails ==
  /\ SqlFails
  /\ main = "cache_ranks" /\ rows # {}
  /\ rows' = {}
  /\ UNCHANGED <<saves, redis, sql, scan, main, serving, sqlErr, clock>>

\* The ranking is loaded: start the network (once), sleep for an interval.
RanksLoaded ==
  /\ Goto("cache_ranks", "sleep")
  /\ rows = {}
  /\ serving' = TRUE
  /\ clock' = 0
  /\ UNCHANGED <<saves, redis, sql, scan, sqlErr, rows, clean>>

Wake ==
  /\ Goto("sleep", "scan")
  /\ clock >= Interval
  /\ clock' = 0
  /\ clean' = (~ redisErr /\ ~ sqlErr)
  /\ begin' = cache
  /\ scanned' = {}
  /\ UNCHANGED <<saves, redis, sql, todo, cursor, got, serving, sqlErr, rows>>

\* Faulty variant: the loop tests the new cursor before it saves the reply.
ScanUnsaved(batch, next) ==
  /\ main = "scan" /\ ~ redisErr
  /\ next = 0 => {p \in Players : begin[p] # 0} \subseteq scanned \cup batch
  /\ main' = IF next = 0 THEN "update" ELSE "save"
  /\ todo' = IF next = 0 THEN {} ELSE batch
  /\ scanned' = scanned \cup batch
  /\ cursor' = next
  /\ UNCHANGED <<saves, redis, sql, got, begin, serving, sqlErr, rows, clock, clean>>

\* ScoreDataSave.  External: SCAN returns any keys present, repeats some, and
\* over the whole iteration returns every key that was there throughout.
Scan(batch, next) ==
  /\ Goto("scan", "save")
  /\ ~ redisErr
  /\ next = 0 => {p \in Players : begin[p] # 0} \subseteq scanned \cup batch
  /\ todo' = batch
  /\ scanned' = scanned \cup batch
  /\ cursor' = next
  /\ UNCHANGED <<saves, redis, sql, got, begin, serving, sqlErr, rows, clock, clean>>

ScanFails ==
  /\ Goto("scan", "update")
  /\ redisErr
  /\ UNCHANGED <<saves, redis, sql, scan, serving, sqlErr, rows, clock, clean>>

GetScore(p) ==
  /\ main = "save" /\ got = None /\ p \in todo
  /\ todo' = todo \ {p}
  /\ got' = IF redisErr \/ cache[p] = 0 THEN None
            ELSE [player |-> p, version |-> cache[p]]
  /\ UNCHANGED <<saves, redis, sql, cursor, scanned, begin, thread>>

Merge ==
  /\ main = "save" /\ got # None /\ ~ sqlErr
  /\ sqlScore' = [sqlScore EXCEPT ![got.player] = got.version]
  /\ got' = None
  /\ UNCHANGED <<saves, redis, ranking, todo, cursor, scanned, begin, thread>>

\* SQLPrepare fails: the rest of the batch is skipped.  SQLExecute fails: the
\* next key is read.
MergeFails(skipped) ==
  /\ SqlFails
  /\ main = "save" /\ got # None
  /\ got' = None
  /\ todo' = todo \ skipped
  /\ UNCHANGED <<saves, redis, sql, cursor, scanned, begin, main, serving, sqlErr, rows, clock>>

BatchSaved ==
  /\ main = "save" /\ got = None /\ todo = {}
  /\ main' = IF cursor = 0 THEN "update" ELSE "scan"
  /\ UNCHANGED <<saves, redis, sql, scan, serving, sqlErr, rows, clock, clean>>

\* ScoreDataSave has returned: its locals are gone.
ForgetScan ==
  /\ cursor' = 0 /\ scanned' = {}
  /\ begin' = [p \in Players |-> 0]
  /\ UNCHANGED <<todo, got>>

\* RankingUpdate: EXEC UpdateRanking, two statements committed one by one.
TruncateRanking ==
  /\ Goto("update", "insert")
  /\ ~ sqlErr
  /\ ranking' = <<>>
  /\ ForgetScan
  /\ UNCHANGED <<saves, redis, sqlScore, serving, sqlErr, rows, clock, clean>>

InsertRanking ==
  /\ Goto("insert", "select_ranks")
  /\ ~ sqlErr
  /\ \E q \in SetToSeqs(Rows) :
       /\ ByScore(q)
       /\ ranking' = [i \in DOMAIN q |-> [player |-> q[i], version |-> sqlScore[q[i]]]]
  /\ UNCHANGED <<saves, redis, sqlScore, scan, serving, sqlErr, rows, clock, clean>>

UpdateFails ==
  /\ SqlFails
  /\ Goto("update", "select_ranks") \/ Goto("insert", "select_ranks")
  /\ ForgetScan
  /\ UNCHANGED <<saves, redis, sql, serving, sqlErr, rows, clock>>

MainStep ==
  \/ Connect
  \/ SelectScores \/ ScoresLoaded \/ SelectRanking \/ RanksLoaded
  \/ \E p \in Players : CacheScore(p) \/ CacheRank(p) \/ GetScore(p)
  \/ LoadFails \/ FetchFails
  \/ Wake
  \/ \E batch \in SUBSET Cached, next \in {0, 1} : Scan(batch, next)
  \/ ScanFails \/ Merge \/ BatchSaved
  \/ \E skipped \in {{}, todo} : MergeFails(skipped)
  \/ TruncateRanking \/ InsertRanking \/ UpdateFails

-----------------------------------------------------------------------------
(* Time, failures and restarts. *)

\* External: Redis removes a key when its time has run out.
ExpireScore(p) ==
  /\ cache[p] # 0 /\ ttl[p] = 0
  /\ cache' = [cache EXCEPT ![p] = 0]
  /\ begin' = [begin EXCEPT ![p] = 0]
  /\ UNCHANGED <<saves, ttl, rankCache, rankTtl, redisErr, sql, todo, cursor, got, scanned, thread>>

ExpireRank(p) ==
  /\ rankCache[p] # NoRank /\ rankTtl[p] = 0
  /\ rankCache' = [rankCache EXCEPT ![p] = NoRank]
  /\ UNCHANGED <<saves, cache, ttl, rankTtl, redisErr, sql, scan, thread>>

Down(n) == IF n > 0 THEN n - 1 ELSE 0

\* Ticks while connecting, which reads no key, are counted after it.
Tick ==
  /\ main \notin {"connect_sql", "connect_redis"}
  /\ \A p \in Cached : ttl[p] > 0
  /\ \A p \in Ranked : rankTtl[p] > 0
  /\ clock < IF main = "sleep" THEN Interval + Slack ELSE Slack
  /\ clock' = clock + 1
  /\ ttl' = [p \in Players |-> Down(ttl[p])]
  /\ rankTtl' = [p \in Players |-> Down(rankTtl[p])]
  /\ UNCHANGED <<saves, cache, rankCache, redisErr, sql, scan, main, serving, sqlErr, rows, clean>>

\* hiredis never leaves the error state of a context.
RedisFails ==
  /\ "redis" \in Faults /\ ~ redisErr
  /\ main \notin {"connect_sql", "connect_redis"}
  /\ redisErr' = TRUE
  /\ clean' = FALSE
  /\ UNCHANGED <<saves, cache, ttl, rankCache, rankTtl, sql, scan, main, serving, sqlErr, rows, clock>>

\* The process dies and is started again.
Crash ==
  /\ "crash" \in Faults
  /\ main # "connect_sql"
  /\ main' = "connect_sql"
  /\ serving' = FALSE /\ sqlErr' = FALSE
  /\ redisErr' = FALSE
  /\ rows' = {} /\ todo' = {} /\ cursor' = 0 /\ got' = None
  /\ scanned' = {} /\ begin' = [p \in Players |-> 0]
  /\ clock' = 0
  /\ clean' = TRUE
  /\ UNCHANGED <<saves, cache, ttl, rankCache, rankTtl, sql>>

-----------------------------------------------------------------------------
Next ==
  \/ MainStep
  \/ \E p \in Players, score \in Scores : SaveScore(p, score)
  \/ \E p \in Players : ExpireScore(p) \/ ExpireRank(p)
  \/ Tick \/ RedisFails \/ Crash

Spec == Init /\ [][Next]_vars

-----------------------------------------------------------------------------
(* Type invariant. *)
TypeOK ==
  /\ saves \in [Players -> Seq(Scores)]
  /\ cache \in [Players -> Nat] /\ ttl \in [Players -> Nat]
  /\ rankCache \in [Players -> [rank : Nat, version : Nat]]
  /\ rankTtl \in [Players -> Nat]
  /\ redisErr \in BOOLEAN
  /\ sqlScore \in [Players -> Nat]
  /\ ranking \in Seq([player : Players, version : Nat])
  /\ main \in {"connect_sql", "connect_redis", "select_scores", "cache_scores", "select_ranks", "cache_ranks",
               "sleep", "scan", "save", "update", "insert"}
  /\ serving \in BOOLEAN /\ sqlErr \in BOOLEAN
  /\ rows \subseteq Players /\ todo \subseteq Players /\ scanned \subseteq Players
  /\ cursor \in {0, 1}
  /\ got \in [player : Players, version : Nat] \cup {None}
  /\ begin \in [Players -> Nat]
  /\ clock \in Nat
  /\ clean \in BOOLEAN

-----------------------------------------------------------------------------
(* Safety. *)

(* A score in the Score table is never replaced by one the player was       *)
(* acknowledged earlier, whatever fails, crashes or is saved between a GET   *)
(* and its MERGE (lines 142, 267, 297).                                     *)
SqlNeverRegresses ==
  [][\A p \in Players : sqlScore'[p] >= sqlScore[p]]_vars

(* The table implements the ledger: every row is a score the player was      *)
(* acknowledged, and rows only move to later ones (Hub.cpp:94-111,          *)
(* DatabaseWorker.cpp:235-309).                                             *)
Ledger == INSTANCE ScoreLedger WITH acked <- saves, stored <- sqlScore

ImplementsLedger == Ledger!Spec

(* Why: no key is older than its row, and what GET returned is not older    *)
(* than the row it will be merged into, even after the key was overwritten  *)
(* or removed, and the main thread is the only one that merges.             *)
CacheNotOlder ==
  /\ \A p \in Players : cache[p] = 0 \/ cache[p] >= sqlScore[p]
  /\ got # None => got.version >= sqlScore[got.player]

(* A scan of ScoreDataSave in which nothing fails brings every score that   *)
(* was cached when it began, or a newer one, into the Score table, unless   *)
(* the key ran out on the way: no batch is skipped, none of the keys of the *)
(* last reply is forgotten (lines 250-306).                                 *)
ScanSavesEveryKey ==
  main = "update" /\ clean =>
    \A p \in Players : begin[p] # 0 => sqlScore[p] >= begin[p]

(* While the main thread sleeps after a cycle in which nothing failed, each *)
(* of the TOP players is answered the rank and score of the Ranking table   *)
(* (DatabaseWorker.cpp:170-206, Hub.cpp:113-131): the keys outlive the      *)
(* sleep.                                                                   *)
TopRanksServed ==
  main = "sleep" /\ clean /\ ~ redisErr =>
    \A i \in TopRows :
      RankAnswer(ranking[i].player) = [rank |-> i, version |-> ranking[i].version]

\* The last score p was acknowledged, if any, is in the cache or the table.
Kept(p) == Len(saves[p]) \in {0, cache[p], sqlScore[p]}

(* The last score a player was told is saved (Hub.cpp:105-109) is in the    *)
(* cache or in the Score table.                                             *)
AckedScoreNotLost ==
  \A p \in Players : Kept(p)

(* Such a score leaves both stores in three ways only: its key runs out, the *)
(* load at start overwrites it (DatabaseWorker.cpp:142), or Redis was lost   *)
(* before it was set (Hub.cpp:105 does not look).  No step of the save cycle *)
(* and no failing statement loses one.                                      *)
LostOnlyByExpiryOrRestart ==
  [][\A p \in Players :
       Kept(p) /\ ~ Kept(p)' =>
         ttl[p] = 0 \/ main = "cache_scores" \/ redisErr]_vars

(* A player who has left the top is still answered the old rank, next to    *)
(* the player who holds it now, although rank is a key of table Ranking     *)
(* (RankingDatabaseQuery.sql:15); the old answer is always the first of the *)
(* two to run out (DatabaseWorker.cpp:198).                                 *)
SharedRankExpiresFirst ==
  main = "sleep" /\ clean =>
    \A i \in TopRows : \A p \in Players \ {ranking[i].player} :
      rankCache[p].rank = i => rankTtl[p] < rankTtl[ranking[i].player]
=============================================================================
