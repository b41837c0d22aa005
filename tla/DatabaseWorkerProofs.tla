------------------------ MODULE DatabaseWorkerProofs ------------------------
(***************************************************************************)
(* What DatabaseWorker promises for any number of players, any scores, any *)
(* lifetimes and any combination of faults:                                *)
(*   - the types of its state (DatabaseTypeCorrect);                       *)
(*   - no key is older than its row (CacheAheadOfSql), and so a stored     *)
(*     score is never replaced by an older one (SqlMonotone);              *)
(*   - the Score table implements the ledger of ScoreLedger.tla            *)
(*     (LedgerRefinement);                                                 *)
(*   - an acknowledged score leaves both stores in three ways only         *)
(*     (ScoresLostThreeWays);                                              *)
(*   - a scan in which nothing fails saves every key it had to save        *)
(*     (ScanComplete);                                                     *)
(*   - during a sleep after a cycle in which nothing failed, the keys of   *)
(*     the ranking answer with the rows of its table (TopServed), and of   *)
(*     two keys with one rank the old one runs out first                   *)
(*     (SharedRankExpires).                                                *)
(***************************************************************************)
EXTENDS DatabaseWorker, FiniteSetTheorems, SequenceTheorems, TLAPS

-----------------------------------------------------------------------------
(* Types.  RankOf chooses a row of table Ranking: while its rows are being  *)
(* cached the row has to be there.                                          *)

RowsRanked ==
  main = "cache_ranks" =>
    \A p \in rows : \E i \in DOMAIN ranking : ranking[i].player = p

TypeInv == TypeOK /\ RowsRanked

\* SetToSeqs orders a finite set: its members are sequences over the set.
LEMMA OrderingsAreSequences ==
  ASSUME NEW S, IsFiniteSet(S), NEW q \in SetToSeqs(S)
  PROVE  q \in Seq(S)
  <1>1. Cardinality(S) \in Nat  BY FS_CardinalityType
  <1>2. q \in [1 .. Cardinality(S) -> S]  BY DEF SetToSeqs
  <1> QED  BY <1>1, <1>2

\* A row of the ranking names a player and a version.
LEMMA RankingRowTyped ==
  ASSUME TypeOK, NEW i \in DOMAIN ranking
  PROVE  i \in Nat /\ ranking[i].player \in Players /\ ranking[i].version \in Nat
  <1> DEFINE Row == [player : Players, version : Nat]
  <1>1. i \in Nat /\ ranking[i] \in Row
    <2>1. ranking \in Seq(Row)  BY DEF TypeOK
    <2> HIDE DEF Row
    <2> QED  BY <2>1
  <1> QED  BY <1>1

\* The server starts in a state of the right types.
LEMMA TypeInit == Init => TypeInv
  <1> SUFFICES ASSUME Init  PROVE TypeInv  OBVIOUS
  <1>1. saves \in [Players -> Seq(Scores)] /\ sqlScore \in [Players -> Nat]
    <2>1. ASSUME NEW q \in {<<>>} \cup {<<s>> : s \in Scores}
          PROVE  q \in Seq(Scores)
      <3>1. CASE q = <<>>  BY <3>1
      <3>2. CASE \E s \in Scores : q = <<s>>  BY <3>2
      <3> QED  BY <3>1, <3>2
    <2> QED  BY <2>1 DEF Init
  <1>2. cache \in [Players -> Nat] /\ ttl \in [Players -> Nat] /\ rankTtl \in [Players -> Nat]
    BY DEF Init
  <1>3. rankCache \in [Players -> [rank : Nat, version : Nat]]
    BY DEF Init, NoRank
  <1>4. ranking \in Seq([player : Players, version : Nat])  BY DEF Init
  <1>5. /\ rows \subseteq Players /\ todo \subseteq Players /\ scanned \subseteq Players
        /\ cursor \in {0, 1} /\ clock \in Nat /\ begin \in [Players -> Nat]
    BY DEF Init
  <1>6. /\ redisErr \in BOOLEAN /\ serving \in BOOLEAN /\ clean \in BOOLEAN
        /\ sqlErr \in BOOLEAN /\ main = "connect_sql" /\ got = None
    BY DEF Init
  <1> QED  BY <1>1, <1>2, <1>3, <1>4, <1>5, <1>6 DEF TypeInv, TypeOK, RowsRanked

\* A SET leaves both caches, their lifetimes and the context well typed.
LEMMA SetScoreTyped ==
  ASSUME TypeOK, NEW p \in Players, NEW version \in Nat, NEW seconds \in Nat,
         SetScore(p, version, seconds)
  PROVE  /\ cache' \in [Players -> Nat] /\ ttl' \in [Players -> Nat]
         /\ UNCHANGED <<rankCache, rankTtl, redisErr>>
  BY DEF TypeOK, SetScore

\* The same for the ranking's key.
LEMMA SetRankTyped ==
  ASSUME TypeOK, NEW p \in Players, NEW value \in [rank : Nat, version : Nat],
         NEW seconds \in Nat, SetRank(p, value, seconds)
  PROVE  /\ rankCache' \in [Players -> [rank : Nat, version : Nat]]
         /\ rankTtl' \in [Players -> Nat]
         /\ UNCHANGED <<cache, ttl, redisErr>>
  BY DEF TypeOK, SetRank

\* The row that RankOf chooses is in the table.
LEMMA RankOfTyped ==
  ASSUME TypeInv, main = "cache_ranks", NEW p \in rows
  PROVE  RankOf(p) \in DOMAIN ranking /\ ranking[RankOf(p)].player = p
  BY DEF TypeInv, RowsRanked, RankOf

\* SaveScore appends the score it acknowledges.
LEMMA SaveScoreTyped ==
  ASSUME TypeInv, NEW p \in Players, NEW score \in Scores, SaveScore(p, score)
  PROVE  TypeInv'
  <1> USE WorkerAssumption
  <1>1. Append(saves[p], score) \in Seq(Scores) /\ Len(saves[p]) + 1 \in Nat
    BY DEF TypeInv, TypeOK
  <1>2. saves' \in [Players -> Seq(Scores)]
    BY <1>1 DEF TypeInv, TypeOK, SaveScore
  <1>3. cache' \in [Players -> Nat] /\ ttl' \in [Players -> Nat]
        /\ UNCHANGED <<rankCache, rankTtl, redisErr>>
    BY <1>1, SetScoreTyped DEF SaveScore, TypeInv
  <1> QED
    BY <1>2, <1>3 DEF TypeInv, TypeOK, RowsRanked, SaveScore, sql, scan, thread

\* The connections, opened or not.
LEMMA ConnectTyped == ASSUME TypeInv, Connect  PROVE TypeInv'
  <1>1. CASE ConnectSql \/ ConnectSqlFails
    BY <1>1 DEF TypeInv, TypeOK, RowsRanked, ConnectSql, ConnectSqlFails, SqlFails,
                Goto, redis, sql, scan
  <1>2. CASE ConnectRedis \/ ConnectRedisFails
    BY <1>2 DEF TypeInv, TypeOK, RowsRanked, ConnectRedis, ConnectRedisFails,
                Goto, redis, sql, scan
  <1> QED  BY <1>1, <1>2 DEF Connect

\* The steps of the main thread that load the two tables.
LEMMA LoadTyped ==
  ASSUME TypeInv,
         \/ SelectScores \/ ScoresLoaded \/ SelectRanking \/ RanksLoaded
         \/ LoadFails \/ FetchFails
         \/ \E p \in Players : CacheScore(p) \/ CacheRank(p)
  PROVE  TypeInv'
  <1> USE WorkerAssumption
  <1>1. CASE SelectScores
    BY <1>1 DEF TypeInv, TypeOK, RowsRanked, SelectScores, Goto, Rows, redis, sql, scan
  <1>2. CASE ScoresLoaded
    BY <1>2 DEF TypeInv, TypeOK, RowsRanked, ScoresLoaded, Goto, redis, sql, scan
  <1>3. CASE SelectRanking
    <2>1. ranking \in Seq([player : Players, version : Nat])  BY DEF TypeInv, TypeOK
    <2>2. \A i \in TopRows : i \in DOMAIN ranking  BY <2>1 DEF TopRows
    <2>3. \A i \in TopRows : ranking[i].player \in Players
      BY <2>2, RankingRowTyped DEF TypeInv
    <2>4. /\ rows' \subseteq Players
          /\ \A p \in rows' : \E i \in DOMAIN ranking : ranking[i].player = p
      BY <1>3, <2>2, <2>3 DEF SelectRanking
    <2> QED
      BY <1>3, <2>4 DEF TypeInv, TypeOK, RowsRanked, SelectRanking, Goto, redis, sql, scan
  <1>4. CASE RanksLoaded
    BY <1>4 DEF TypeInv, TypeOK, RowsRanked, RanksLoaded, Goto, redis, sql, scan
  <1>5. CASE LoadFails
    BY <1>5 DEF TypeInv, TypeOK, RowsRanked, LoadFails, SqlFails, Goto, redis, sql, scan
  <1>6. CASE FetchFails
    BY <1>6 DEF TypeInv, TypeOK, RowsRanked, FetchFails, SqlFails, redis, sql, scan
  <1>7. ASSUME NEW p \in Players, CacheScore(p)  PROVE TypeInv'
    <2>1. cache' \in [Players -> Nat] /\ ttl' \in [Players -> Nat]
          /\ UNCHANGED <<rankCache, rankTtl, redisErr>>
      BY <1>7, SetScoreTyped DEF CacheScore, TypeInv, TypeOK
    <2> QED
      BY <1>7, <2>1 DEF TypeInv, TypeOK, RowsRanked, CacheScore, sql, scan
  <1>8. ASSUME NEW p \in Players, CacheRank(p)  PROVE TypeInv'
    <2>1. RankOf(p) \in DOMAIN ranking  BY <1>8, RankOfTyped DEF CacheRank
    <2>2. [rank |-> RankOf(p), version |-> ranking[RankOf(p)].version]
            \in [rank : Nat, version : Nat]
      BY <2>1, RankingRowTyped DEF TypeInv
    <2>3. /\ rankCache' \in [Players -> [rank : Nat, version : Nat]]
          /\ rankTtl' \in [Players -> Nat]
          /\ UNCHANGED <<cache, ttl, redisErr>>
      BY <1>8, <2>2, SetRankTyped DEF CacheRank, TypeInv
    <2> QED
      BY <1>8, <2>3 DEF TypeInv, TypeOK, RowsRanked, CacheRank, sql, scan
  <1> QED  BY <1>1, <1>2, <1>3, <1>4, <1>5, <1>6, <1>7, <1>8

\* The steps of a cycle: ScoreDataSave and RankingUpdate.
LEMMA CycleTyped ==
  ASSUME TypeInv,
         \/ Wake \/ ScanFails \/ Merge \/ BatchSaved
         \/ \E batch \in SUBSET Cached, next \in {0, 1} : Scan(batch, next)
         \/ \E p \in Players : GetScore(p)
         \/ \E skipped \in {{}, todo} : MergeFails(skipped)
         \/ TruncateRanking \/ InsertRanking \/ UpdateFails
  PROVE  TypeInv'
  <1> USE WorkerAssumption
  <1>1. CASE Wake
    BY <1>1 DEF TypeInv, TypeOK, RowsRanked, Wake, Goto, redis, sql
  <1>2. CASE ScanFails
    BY <1>2 DEF TypeInv, TypeOK, RowsRanked, ScanFails, Goto, redis, sql, scan
  <1>3. CASE Merge
    <2>1. got \in [player : Players, version : Nat]
      BY <1>3 DEF TypeInv, TypeOK, Merge
    <2>2. sqlScore' \in [Players -> Nat]
      BY <1>3, <2>1 DEF TypeInv, TypeOK, Merge
    <2> QED
      BY <1>3, <2>2 DEF TypeInv, TypeOK, RowsRanked, Merge, redis, thread
  <1>4. CASE BatchSaved
    BY <1>4 DEF TypeInv, TypeOK, RowsRanked, BatchSaved, redis, sql, scan
  <1>5. ASSUME NEW batch \in SUBSET Cached, NEW next \in {0, 1}, Scan(batch, next)
        PROVE  TypeInv'
    BY <1>5 DEF TypeInv, TypeOK, RowsRanked, Scan, Goto, Cached, redis, sql
  <1>6. ASSUME NEW p \in Players, GetScore(p)  PROVE TypeInv'
    <2>1. cache[p] \in Nat  BY DEF TypeInv, TypeOK
    <2>2. got' \in [player : Players, version : Nat] \cup {None}
      BY <1>6, <2>1 DEF GetScore
    <2> QED
      BY <1>6, <2>2 DEF TypeInv, TypeOK, RowsRanked, GetScore, redis, sql, thread
  <1>7. ASSUME NEW skipped \in {{}, todo}, MergeFails(skipped)  PROVE TypeInv'
    BY <1>7 DEF TypeInv, TypeOK, RowsRanked, MergeFails, SqlFails, redis, sql
  <1>8. CASE TruncateRanking
    BY <1>8 DEF TypeInv, TypeOK, RowsRanked, TruncateRanking, ForgetScan, Goto, redis
  <1>9. CASE InsertRanking
    <2>1. PICK q \in SetToSeqs(Rows) :
            ranking' = [i \in DOMAIN q |-> [player |-> q[i], version |-> sqlScore[q[i]]]]
      BY <1>9 DEF InsertRanking
    <2>2. IsFiniteSet(Rows)  BY FS_Subset DEF Rows
    <2>3. q \in Seq(Rows)  BY <2>2, OrderingsAreSequences
    <2>4. \A i \in DOMAIN q : q[i] \in Players /\ sqlScore[q[i]] \in Nat
      BY <2>3 DEF Rows, TypeInv, TypeOK
    <2>5. ranking' \in Seq([player : Players, version : Nat])
      <3>1. \A i \in 1 .. Len(q) :
              [player |-> q[i], version |-> sqlScore[q[i]]] \in [player : Players, version : Nat]
        BY <2>3, <2>4
      <3>2. DOMAIN q = 1 .. Len(q) /\ Len(q) \in Nat  BY <2>3
      <3> QED  BY <2>1, <3>1, <3>2
    <2> QED
      BY <1>9, <2>5 DEF TypeInv, TypeOK, RowsRanked, InsertRanking, Goto, redis, scan
  <1>10. CASE UpdateFails
    BY <1>10 DEF TypeInv, TypeOK, RowsRanked, UpdateFails, ForgetScan, SqlFails, Goto, redis, sql
  <1> QED  BY <1>1, <1>2, <1>3, <1>4, <1>5, <1>6, <1>7, <1>8, <1>9, <1>10

\* Time, failures and restarts.
LEMMA EnvironmentTyped ==
  ASSUME TypeInv,
         \/ \E p \in Players : ExpireScore(p) \/ ExpireRank(p)
         \/ Tick \/ RedisFails \/ Crash
  PROVE  TypeInv'
  <1>1. ASSUME NEW p \in Players, ExpireScore(p)  PROVE TypeInv'
    BY <1>1 DEF TypeInv, TypeOK, RowsRanked, ExpireScore, sql, thread
  <1>2. ASSUME NEW p \in Players, ExpireRank(p)  PROVE TypeInv'
    <2>1. rankCache' \in [Players -> [rank : Nat, version : Nat]]
      BY <1>2 DEF TypeInv, TypeOK, ExpireRank, NoRank
    <2> QED  BY <1>2, <2>1 DEF TypeInv, TypeOK, RowsRanked, ExpireRank, sql, scan, thread
  <1>3. CASE Tick
    <2>1. \A n \in Nat : Down(n) \in Nat  BY DEF Down
    <2>2. \A p \in Players : Down(ttl[p]) \in Nat /\ Down(rankTtl[p]) \in Nat
      BY <2>1 DEF TypeInv, TypeOK
    <2>3. /\ ttl' = [p \in Players |-> Down(ttl[p])]
          /\ rankTtl' = [p \in Players |-> Down(rankTtl[p])]
          /\ clock' = clock + 1
      BY <1>3 DEF Tick
    <2>4. ttl' \in [Players -> Nat] /\ rankTtl' \in [Players -> Nat]
      BY <2>2, <2>3
    <2>5. clock' \in Nat  BY <2>3 DEF TypeInv, TypeOK
    <2> QED
      BY <1>3, <2>4, <2>5 DEF TypeInv, TypeOK, RowsRanked, Tick, sql, scan
  <1>4. CASE RedisFails
    BY <1>4 DEF TypeInv, TypeOK, RowsRanked, RedisFails, sql, scan
  <1>5. CASE Crash
    <2>1. UNCHANGED <<saves, cache, ttl, rankCache, rankTtl, sql>>  BY <1>5 DEF Crash
    <2>2. /\ main' = "connect_sql" /\ serving' = FALSE /\ redisErr' = FALSE
          /\ sqlErr' = FALSE
          /\ rows' = {} /\ todo' = {} /\ cursor' = 0 /\ got' = None /\ scanned' = {}
          /\ begin' = [p \in Players |-> 0] /\ clock' = 0 /\ clean' = TRUE
      BY <1>5 DEF Crash
    <2>3. begin' \in [Players -> Nat]  BY <2>2
    <2> QED  BY <2>1, <2>2, <2>3 DEF TypeInv, TypeOK, RowsRanked, sql
  <1> QED  BY <1>1, <1>2, <1>3, <1>4, <1>5

\* Every step keeps the types.
LEMMA TypeStep == TypeInv /\ [Next]_vars => TypeInv'
  <1> SUFFICES ASSUME TypeInv, [Next]_vars  PROVE TypeInv'  OBVIOUS
  <1>1. CASE MainStep
    BY <1>1, ConnectTyped, LoadTyped, CycleTyped DEF MainStep
  <1>2. CASE \E p \in Players, score \in Scores : SaveScore(p, score)
    BY <1>2, SaveScoreTyped
  <1>3. CASE (\E p \in Players : ExpireScore(p) \/ ExpireRank(p))
             \/ Tick \/ RedisFails \/ Crash
    BY <1>3, EnvironmentTyped
  <1>4. CASE UNCHANGED vars
    BY <1>4 DEF TypeInv, TypeOK, RowsRanked, vars, redis, sql, scan, thread
  <1> QED  BY <1>1, <1>2, <1>3, <1>4 DEF Next

\* The inductive type invariant holds throughout.
LEMMA TypeInvHolds == Spec => []TypeInv
  BY TypeInit, TypeStep, PTL DEF Spec

(* Whatever fails, the caches, the tables and the main thread keep their    *)
(* types; in particular the rank that RankingDataLoad caches always comes   *)
(* from a row of the table (DatabaseWorker.cpp:187-200).                    *)
THEOREM DatabaseTypeCorrect == Spec => []TypeOK
  <1>1. TypeInv => TypeOK  BY DEF TypeInv
  <1> QED  BY <1>1, TypeInvHolds, PTL

-----------------------------------------------------------------------------
(* Versions.  CacheNotOlder alone is not inductive: a MERGE raises a row to  *)
(* the version that GET returned, so that version has to be no newer than    *)
(* the key; a SET writes the newest version, so no row may be ahead of it.   *)

NoneAhead ==
  \A p \in Players : cache[p] <= Len(saves[p]) /\ sqlScore[p] <= Len(saves[p])

GotIsCurrent ==
  got # None =>
    /\ main = "save"
    /\ got.version <= Len(saves[got.player])
    /\ cache[got.player] = 0 \/ cache[got.player] >= got.version

StoreInv == NoneAhead /\ GotIsCurrent /\ CacheNotOlder

\* Tables of an earlier run hold its last version; Redis is empty.
LEMMA StoreInit == Init => StoreInv
  <1> SUFFICES ASSUME Init  PROVE StoreInv  OBVIOUS
  <1>1. ASSUME NEW p \in Players
        PROVE  cache[p] = 0 /\ sqlScore[p] \in Nat /\ Len(saves[p]) \in Nat
               /\ sqlScore[p] <= Len(saves[p])
    <2>1. saves[p] \in {<<>>} \cup {<<s>> : s \in Scores}  BY DEF Init
    <2>2. CASE saves[p] = <<>>  BY <2>2 DEF Init
    <2>3. CASE \E s \in Scores : saves[p] = <<s>>  BY <2>3 DEF Init
    <2> QED  BY <2>1, <2>2, <2>3
  <1>2. got = None  BY DEF Init
  <1> QED  BY <1>1, <1>2 DEF StoreInv, NoneAhead, GotIsCurrent, CacheNotOlder

\* A step that touches neither the scores, their keys and rows, nor what GET
\* returned, and does not leave the batch while a merge is due.
LEMMA StoreUntouched ==
  ASSUME StoreInv, UNCHANGED <<saves, cache, sqlScore, got>>,
         main = "save" => main' = "save" \/ got = None
  PROVE  StoreInv'
  BY DEF StoreInv, NoneAhead, GotIsCurrent, CacheNotOlder

\* The versions of one player, typed.
LEMMA VersionsTyped ==
  ASSUME TypeOK, NEW p \in Players
  PROVE  /\ cache[p] \in Nat /\ sqlScore[p] \in Nat /\ begin[p] \in Nat
         /\ saves[p] \in Seq(Scores) /\ Len(saves[p]) \in Nat
  BY DEF TypeOK

\* What GET returned, typed.
LEMMA GotTyped ==
  ASSUME TypeOK, got # None
  PROVE  got.player \in Players /\ got.version \in Nat
  BY DEF TypeOK

\* A save is the newest version, in Redis if its context works.
LEMMA StoreSaveScore ==
  ASSUME TypeOK, StoreInv, NEW p \in Players, NEW score \in Scores, SaveScore(p, score)
  PROVE  StoreInv'
  <1>1. /\ saves' = [saves EXCEPT ![p] = Append(@, score)]
        /\ cache' = IF redisErr THEN cache ELSE [cache EXCEPT ![p] = Len(saves[p]) + 1]
        /\ UNCHANGED <<sqlScore, got, main>>
    BY DEF SaveScore, SetScore, sql, scan, thread
  <1>2. Len(saves'[p]) = Len(saves[p]) + 1
    BY <1>1, VersionsTyped DEF TypeOK
  <1>3. \A q \in Players \ {p} : saves'[q] = saves[q] /\ cache'[q] = cache[q]
    BY <1>1 DEF TypeOK
  <1>4. cache'[p] = cache[p] \/ cache'[p] = Len(saves[p]) + 1
    BY <1>1 DEF TypeOK
  <1>5. NoneAhead'
    BY <1>1, <1>2, <1>3, <1>4, VersionsTyped DEF StoreInv, NoneAhead
  <1>6. GotIsCurrent'
    BY <1>1, <1>2, <1>3, <1>4, VersionsTyped, GotTyped DEF StoreInv, GotIsCurrent
  <1>7. CacheNotOlder'
    BY <1>1, <1>2, <1>3, <1>4, VersionsTyped, GotTyped
    DEF StoreInv, NoneAhead, CacheNotOlder
  <1> QED  BY <1>5, <1>6, <1>7 DEF StoreInv

\* The load at start sets a key back to its row, when no merge is due.
LEMMA StoreCacheScore ==
  ASSUME TypeOK, StoreInv, NEW p \in Players, CacheScore(p)
  PROVE  StoreInv'
  <1>1. /\ cache' = IF redisErr THEN cache ELSE [cache EXCEPT ![p] = sqlScore[p]]
        /\ UNCHANGED <<saves, sqlScore, got, main>>
        /\ got = None
    BY DEF CacheScore, SetScore, sql, scan, StoreInv, GotIsCurrent
  <1>2. \A q \in Players : cache'[q] = cache[q] \/ cache'[q] = sqlScore[q]
    BY <1>1 DEF TypeOK
  <1> QED
    BY <1>1, <1>2, VersionsTyped DEF StoreInv, NoneAhead, GotIsCurrent, CacheNotOlder

\* GET returns the key's version.
LEMMA StoreGetScore ==
  ASSUME TypeOK, StoreInv, NEW p \in Players, GetScore(p)
  PROVE  StoreInv'
  <1>1. /\ UNCHANGED <<saves, cache, sqlScore, main>> /\ main = "save"
        /\ \/ got' = None
           \/ cache[p] # 0 /\ got' = [player |-> p, version |-> cache[p]]
    BY DEF GetScore, redis, sql, thread
  <1> QED
    BY <1>1, VersionsTyped DEF StoreInv, NoneAhead, GotIsCurrent, CacheNotOlder

\* MERGE brings the row up to what GET returned, no further than the key.
LEMMA StoreMerge ==
  ASSUME TypeOK, StoreInv, Merge
  PROVE  StoreInv'
  <1>1. /\ UNCHANGED <<saves, cache, main>> /\ got # None /\ got' = None
        /\ sqlScore' = [sqlScore EXCEPT ![got.player] = got.version]
    BY DEF Merge, redis, thread
  <1>2. \A q \in Players :
          \/ sqlScore'[q] = sqlScore[q]
          \/ q = got.player /\ sqlScore'[q] = got.version
    BY <1>1 DEF TypeOK
  <1> QED
    BY <1>1, <1>2, VersionsTyped, GotTyped
    DEF StoreInv, NoneAhead, GotIsCurrent, CacheNotOlder

\* A key that runs out says nothing about its row any more.
LEMMA StoreExpireScore ==
  ASSUME TypeOK, StoreInv, NEW p \in Players, ExpireScore(p)
  PROVE  StoreInv'
  <1>1. /\ UNCHANGED <<saves, sqlScore, got, main>>
        /\ cache' = [cache EXCEPT ![p] = 0]
    BY DEF ExpireScore, sql, thread
  <1>2. \A q \in Players : cache'[q] = cache[q] \/ cache'[q] = 0
    BY <1>1 DEF TypeOK
  <1> QED
    BY <1>1, <1>2, VersionsTyped, GotTyped
    DEF StoreInv, NoneAhead, GotIsCurrent, CacheNotOlder

\* A crash forgets the merge that was due.
LEMMA StoreCrash ==
  ASSUME StoreInv, Crash
  PROVE  StoreInv'
  <1>1. UNCHANGED <<saves, cache, sqlScore>> /\ got' = None  BY DEF Crash, sql
  <1> QED  BY <1>1 DEF StoreInv, NoneAhead, GotIsCurrent, CacheNotOlder

\* A merge that fails is not tried again in this cycle.
LEMMA StoreMergeFails ==
  ASSUME StoreInv, NEW skipped \in {{}, todo}, MergeFails(skipped)
  PROVE  StoreInv'
  <1>1. UNCHANGED <<saves, cache, sqlScore, main>> /\ got' = None
    BY DEF MergeFails, SqlFails, redis, sql
  <1> QED  BY <1>1 DEF StoreInv, NoneAhead, GotIsCurrent, CacheNotOlder

\* Every step keeps the versions in order.
LEMMA StoreStep == TypeOK /\ StoreInv /\ [Next]_vars => StoreInv'
  <1> SUFFICES ASSUME TypeOK, StoreInv, [Next]_vars  PROVE StoreInv'  OBVIOUS
  <1>1. CASE SelectScores \/ ScoresLoaded \/ SelectRanking \/ RanksLoaded
    BY <1>1, StoreUntouched
    DEF SelectScores, ScoresLoaded, SelectRanking, RanksLoaded, Goto, redis, sql, scan
  <1>2. CASE \E p \in Players : CacheScore(p) \/ CacheRank(p) \/ GetScore(p)
    <2>1. ASSUME NEW p \in Players, CacheRank(p)  PROVE StoreInv'
      BY <2>1, StoreUntouched DEF CacheRank, SetRank, sql, scan
    <2> QED  BY <1>2, <2>1, StoreCacheScore, StoreGetScore
  <1>3. CASE LoadFails \/ FetchFails \/ Wake \/ ScanFails
    BY <1>3, StoreUntouched
    DEF LoadFails, FetchFails, Wake, ScanFails, Goto, redis, sql, scan
  <1>4. CASE \E batch \in SUBSET Cached, next \in {0, 1} : Scan(batch, next)
    BY <1>4, StoreUntouched DEF Scan, Goto, redis, sql
  <1>5. CASE Merge  BY <1>5, StoreMerge
  <1>6. CASE BatchSaved  BY <1>6, StoreUntouched DEF BatchSaved, redis, sql, scan
  <1>7. CASE \E skipped \in {{}, todo} : MergeFails(skipped)
    BY <1>7, StoreMergeFails
  <1>8. CASE TruncateRanking \/ InsertRanking \/ UpdateFails
    BY <1>8, StoreUntouched
    DEF TruncateRanking, InsertRanking, UpdateFails, ForgetScan, Goto, redis, sql, scan
  <1>9. CASE \E p \in Players, score \in Scores : SaveScore(p, score)
    BY <1>9, StoreSaveScore
  <1>10. CASE \E p \in Players : ExpireScore(p) \/ ExpireRank(p)
    <2>1. ASSUME NEW p \in Players, ExpireRank(p)  PROVE StoreInv'
      BY <2>1, StoreUntouched DEF ExpireRank, sql, scan, thread
    <2> QED  BY <1>10, <2>1, StoreExpireScore
  <1>11. CASE Tick \/ RedisFails
    BY <1>11, StoreUntouched DEF Tick, RedisFails, sql, scan
  <1>12. CASE Crash  BY <1>12, StoreCrash
  <1>13. CASE UNCHANGED vars
    BY <1>13, StoreUntouched DEF vars, redis, sql, scan, thread
  <1>14. CASE Connect
    BY <1>14, StoreUntouched
    DEF Connect, ConnectSql, ConnectSqlFails, ConnectRedis, ConnectRedisFails, Goto,
        redis, sql, scan
  <1> QED
    BY <1>1, <1>2, <1>3, <1>4, <1>5, <1>6, <1>7, <1>8, <1>9, <1>10, <1>11, <1>12, <1>13,
       <1>14
    DEF Next, MainStep

\* The versions stay in order throughout.
LEMMA StoreInvHolds == Spec => []StoreInv
  <1>1. TypeInv => TypeOK  BY DEF TypeInv
  <1> QED  BY <1>1, StoreInit, StoreStep, TypeInvHolds, PTL DEF Spec

(* No key of the score cache is older than its row, whatever a session      *)
(* saves, a lifetime ends or a process restarts in between                  *)
(* (DatabaseWorker.cpp:142, 267-297, Hub.cpp:99).                           *)
THEOREM CacheAheadOfSql == Spec => []CacheNotOlder
  <1>1. StoreInv => CacheNotOlder  BY DEF StoreInv
  <1> QED  BY <1>1, StoreInvHolds, PTL

\* Only a merge changes the Score table, and what it merges is not older.
LEMMA SqlStep ==
  ASSUME TypeOK, StoreInv, [Next]_vars
  PROVE  \A p \in Players : sqlScore'[p] >= sqlScore[p]
  <1>1. CASE Merge
    <2>1. got # None /\ sqlScore' = [sqlScore EXCEPT ![got.player] = got.version]
      BY <1>1 DEF Merge
    <2>2. got.player \in Players /\ got.version >= sqlScore[got.player]
      BY <2>1, GotTyped DEF StoreInv, CacheNotOlder
    <2>3. ASSUME NEW p \in Players  PROVE sqlScore'[p] >= sqlScore[p]
      <3>1. CASE p = got.player
        BY <3>1, <2>1, <2>2 DEF TypeOK
      <3>2. CASE p # got.player
        BY <3>2, <2>1, VersionsTyped DEF TypeOK
      <3> QED  BY <3>1, <3>2
    <2> QED  BY <2>3
  <1>2. CASE UNCHANGED sqlScore
    BY <1>2, VersionsTyped
  <1>3. MainStep => Merge \/ UNCHANGED sqlScore
    BY DEF MainStep, Connect, ConnectSql, ConnectSqlFails, ConnectRedis,
       ConnectRedisFails, SelectScores, ScoresLoaded, SelectRanking, RanksLoaded,
       CacheScore, CacheRank, GetScore, LoadFails, FetchFails, Wake, Scan, ScanFails,
       BatchSaved, MergeFails, TruncateRanking, InsertRanking, UpdateFails, sql
  <1>4. MainStep \/ UNCHANGED sqlScore
    BY DEF Next, SaveScore, ExpireScore, ExpireRank, Tick, RedisFails, Crash, vars, sql
  <1> QED  BY <1>1, <1>2, <1>3, <1>4

(* A row of table Score is never replaced by an earlier score of its player *)
(* (ScoreDataSave's MERGE, DatabaseWorker.cpp:239-247), for every number of *)
(* players, interval and lifetime and through every fault.                  *)
THEOREM SqlMonotone == Spec => SqlNeverRegresses
  <1>1. TypeOK /\ StoreInv /\ [Next]_vars
          => [\A p \in Players : sqlScore'[p] >= sqlScore[p]]_vars
    BY SqlStep
  <1>2. TypeInv => TypeOK  BY DEF TypeInv
  <1> QED
    BY <1>1, <1>2, TypeInvHolds, StoreInvHolds, PTL DEF Spec, SqlNeverRegresses

\* Only a save, the load at start, a lifetime and a merge touch what Kept reads.
LEMMA StoresTouched ==
  ASSUME [Next]_vars
  PROVE  \/ UNCHANGED <<saves, cache, sqlScore>>
         \/ Merge
         \/ \E p \in Players, score \in Scores : SaveScore(p, score)
         \/ \E p \in Players : CacheScore(p) \/ ExpireScore(p)
  <1>1. MainStep =>
          UNCHANGED <<saves, cache, sqlScore>> \/ Merge \/ \E p \in Players : CacheScore(p)
    BY DEF MainStep, Connect, ConnectSql, ConnectSqlFails, ConnectRedis, ConnectRedisFails,
       SelectScores, ScoresLoaded, SelectRanking, RanksLoaded, CacheRank, SetRank, GetScore,
       LoadFails, FetchFails, Wake, Scan, ScanFails, BatchSaved, MergeFails,
       TruncateRanking, InsertRanking, UpdateFails, redis, sql
  <1> QED
    BY <1>1 DEF Next, ExpireRank, Tick, RedisFails, Crash, vars, redis, sql

\* A step that takes a kept score away is one of the three.
LEMMA LostStep ==
  ASSUME TypeOK, StoreInv, [Next]_vars, NEW p \in Players, Kept(p), ~ Kept(p)'
  PROVE  ttl[p] = 0 \/ main = "cache_scores" \/ redisErr
  <1>1. CASE UNCHANGED <<saves, cache, sqlScore>>
    BY <1>1 DEF Kept
  <1>2. CASE Merge
    <2>1. /\ UNCHANGED <<saves, cache>> /\ got # None
          /\ sqlScore' = [sqlScore EXCEPT ![got.player] = got.version]
      BY <1>2 DEF Merge, redis
    <2>2. CASE got.player = p
      <3>1. got.version >= sqlScore[p] /\ got.version <= Len(saves[p])
        BY <2>1, <2>2 DEF StoreInv, CacheNotOlder, GotIsCurrent
      <3>2. sqlScore'[p] = got.version  BY <2>1, <2>2 DEF TypeOK
      <3> QED  BY <2>1, <3>1, <3>2, VersionsTyped, GotTyped DEF Kept
    <2>3. CASE got.player # p
      <3>1. sqlScore'[p] = sqlScore[p]  BY <2>1, <2>3 DEF TypeOK
      <3> QED  BY <2>1, <3>1 DEF Kept
    <2> QED  BY <2>2, <2>3
  <1>3. ASSUME NEW q \in Players, NEW score \in Scores, SaveScore(q, score), ~ redisErr
        PROVE  FALSE
    <2>1. /\ saves' = [saves EXCEPT ![q] = Append(@, score)]
          /\ cache' = [cache EXCEPT ![q] = Len(saves[q]) + 1]
          /\ sqlScore' = sqlScore
      BY <1>3 DEF SaveScore, SetScore, sql
    <2>2. CASE p = q
      <3>1. Len(saves'[p]) = Len(saves[p]) + 1 /\ cache'[p] = Len(saves[p]) + 1
        BY <2>1, <2>2, VersionsTyped DEF TypeOK
      <3> QED  BY <3>1 DEF Kept
    <2>3. CASE p # q
      <3>1. saves'[p] = saves[p] /\ cache'[p] = cache[p]  BY <2>1, <2>3 DEF TypeOK
      <3> QED  BY <2>1, <3>1 DEF Kept
    <2> QED  BY <2>2, <2>3
  <1>4. ASSUME NEW q \in Players, CacheScore(q)  PROVE main = "cache_scores"
    BY <1>4 DEF CacheScore
  <1>5. ASSUME NEW q \in Players, ExpireScore(q)  PROVE ttl[p] = 0
    <2>1. /\ UNCHANGED <<saves, sqlScore>> /\ cache' = [cache EXCEPT ![q] = 0]
          /\ ttl[q] = 0
      BY <1>5 DEF ExpireScore, sql
    <2>2. p = q
      <3>1. p # q => cache'[p] = cache[p]  BY <2>1 DEF TypeOK
      <3> QED  BY <2>1, <3>1 DEF Kept
    <2> QED  BY <2>1, <2>2
  <1> QED  BY <1>1, <1>2, <1>3, <1>4, <1>5, StoresTouched

(* An acknowledged score leaves both stores only when its key runs out, in  *)
(* the load at start, or when Redis was lost before it was set: the save    *)
(* cycle loses none (DatabaseWorker.cpp:142, 235-309, Hub.cpp:99-105).      *)
THEOREM ScoresLostThreeWays == Spec => LostOnlyByExpiryOrRestart
  <1>1. TypeOK /\ StoreInv /\ [Next]_vars =>
          [\A p \in Players :
             Kept(p) /\ ~ Kept(p)' =>
               ttl[p] = 0 \/ main = "cache_scores" \/ redisErr]_vars
    BY LostStep
  <1>2. TypeInv => TypeOK  BY DEF TypeInv
  <1> QED
    BY <1>1, <1>2, TypeInvHolds, StoreInvHolds, PTL DEF Spec, LostOnlyByExpiryOrRestart

\* The ledger begins with the rows of earlier runs.
LEMMA LedgerInit == Init => Ledger!Init
  <1> SUFFICES ASSUME Init  PROVE Ledger!Init  OBVIOUS
  <1>1. TypeOK /\ NoneAhead  BY TypeInit, StoreInit DEF TypeInv, StoreInv
  <1> QED  BY <1>1 DEF TypeOK, NoneAhead, Ledger!Init

\* A merge stores one of the scores acknowledged to its player, or, of a key
\* that held no version, nothing.
LEMMA LedgerMerge ==
  ASSUME TypeOK, StoreInv, Merge
  PROVE  [Ledger!Next]_(Ledger!ledger)
  <1>1. /\ got # None /\ saves' = saves
        /\ sqlScore' = [sqlScore EXCEPT ![got.player] = got.version]
    BY DEF Merge
  <1>2. got.player \in Players /\ got.version \in Nat  BY <1>1, GotTyped
  <1>3. sqlScore[got.player] <= got.version /\ got.version <= Len(saves[got.player])
    BY <1>1, <1>2, VersionsTyped DEF StoreInv, CacheNotOlder, GotIsCurrent
  <1>4. CASE got.version = 0
    <2>1. sqlScore[got.player] = got.version
      BY <1>2, <1>3, <1>4, VersionsTyped
    <2>2. sqlScore' = sqlScore  BY <1>1, <1>2, <2>1 DEF TypeOK
    <2> QED  BY <1>1, <2>2 DEF Ledger!ledger
  <1>5. CASE got.version # 0
    <2>1. got.version \in 1 .. Len(saves[got.player])
      BY <1>2, <1>3, <1>5, VersionsTyped
    <2>2. Ledger!Store(got.player, got.version)
      BY <1>1, <1>3 DEF Ledger!Store
    <2> QED  BY <1>2, <2>1, <2>2 DEF Ledger!Next
  <1> QED  BY <1>4, <1>5

\* Every step is a step of the ledger or leaves it alone.
LEMMA LedgerStep ==
  ASSUME TypeOK, StoreInv, [Next]_vars
  PROVE  [Ledger!Next]_(Ledger!ledger)
  <1>1. CASE UNCHANGED <<saves, cache, sqlScore>>
    BY <1>1 DEF Ledger!ledger
  <1>2. CASE Merge  BY <1>2, LedgerMerge
  <1>3. ASSUME NEW p \in Players, NEW score \in Scores, SaveScore(p, score)
        PROVE  [Ledger!Next]_(Ledger!ledger)
    <2>1. Ledger!Acknowledge(p, score)
      BY <1>3 DEF SaveScore, Ledger!Acknowledge, sql
    <2> QED  BY <2>1 DEF Ledger!Next
  <1>4. ASSUME NEW p \in Players, CacheScore(p) \/ ExpireScore(p)
        PROVE  [Ledger!Next]_(Ledger!ledger)
    BY <1>4 DEF CacheScore, ExpireScore, sql, Ledger!ledger
  <1> QED  BY <1>1, <1>2, <1>3, <1>4, StoresTouched

(* The Score table implements the ledger: whatever fails, restarts or is    *)
(* saved meanwhile, each row is a score its player was acknowledged and is  *)
(* only replaced by a later one (DatabaseWorker.cpp:235-309).               *)
THEOREM LedgerRefinement == Spec => ImplementsLedger
  <1>1. TypeInv => TypeOK  BY DEF TypeInv
  <1>2. TypeOK /\ StoreInv /\ [Next]_vars => [Ledger!Next]_(Ledger!ledger)
    BY LedgerStep
  <1> QED
    BY <1>1, <1>2, LedgerInit, TypeInvHolds, StoreInvHolds, PTL
    DEF Spec, ImplementsLedger, Ledger!Spec

-----------------------------------------------------------------------------
(* The scan.  ScanSavesEveryKey speaks of its end; on the way every key it   *)
(* has returned is merged, waits in the batch, or is the one GET returned.   *)

Starting == {"connect_sql", "connect_redis", "select_scores", "cache_scores"}
USE DEF Starting

ScanState ==
  /\ clean => ~ redisErr
  /\ main # "save" => todo = {} /\ got = None
  /\ main \in Starting => \A p \in Players : begin[p] = 0

KeysStay ==
  /\ \A p \in Players : begin[p] # 0 => cache[p] >= begin[p]
  /\ got # None => got.version >= begin[got.player]

Waiting(p) == p \in todo \/ (got # None /\ got.player = p)

ScannedSaved ==
  clean /\ main \in {"scan", "save"} =>
    \A p \in scanned : begin[p] # 0 => Waiting(p) \/ sqlScore[p] >= begin[p]

LastReply ==
  clean /\ main = "save" /\ cursor = 0 =>
    \A p \in Players : begin[p] # 0 => p \in scanned

ScanInv == ScanState /\ KeysStay /\ ScannedSaved /\ LastReply /\ ScanSavesEveryKey

\* The server starts with no scan under way.
LEMMA ScanInit == Init => ScanInv
  BY DEF Init, ScanInv, ScanState, KeysStay, ScannedSaved, LastReply,
     ScanSavesEveryKey

\* A step outside ScoreDataSave that touches none of what the scan knows.
LEMMA ScanElsewhere ==
  ASSUME ScanInv, UNCHANGED <<cache, sqlScore, redisErr, scan>>,
         clean' \in BOOLEAN, clean' => clean,
         \/ main' = main /\ main # "update"
         \/ main # "save" /\ main' \notin {"scan", "save", "update"}
            /\ (main' \in Starting => main \in Starting)
  PROVE  ScanInv'
  BY DEF ScanInv, ScanState, KeysStay, ScannedSaved, LastReply, ScanSavesEveryKey,
     Waiting, scan

\* No scan has begun while the connections open; one that does not leaves the
\* start unclean.
LEMMA ScanConnect ==
  ASSUME TypeOK, ScanInv, Connect
  PROVE  ScanInv'
  <1>1. CASE ConnectSql \/ ConnectSqlFails \/ ConnectRedis
    <2>1. /\ UNCHANGED <<cache, sqlScore, redisErr, scan>>
          /\ main # "save" /\ main \in Starting /\ main' \notin {"scan", "save", "update"}
      BY <1>1 DEF ConnectSql, ConnectSqlFails, ConnectRedis, Goto, redis, sql
    <2>2. clean' = clean \/ clean' = FALSE
      BY <1>1 DEF ConnectSql, ConnectSqlFails, ConnectRedis, SqlFails
    <2>3. clean' \in BOOLEAN
      <3>1. clean \in BOOLEAN  BY DEF TypeOK
      <3> QED  BY <2>2, <3>1
    <2>4. clean' => clean  BY <2>2
    <2> QED  BY <2>1, <2>3, <2>4, ScanElsewhere
  <1>2. CASE ConnectRedisFails
    <2>1. /\ UNCHANGED <<cache, sqlScore, todo, got, begin>> /\ clean' = FALSE
          /\ main = "connect_redis" /\ main' = "select_scores"
      BY <1>2 DEF ConnectRedisFails, Goto, sql, scan
    <2> QED
      BY <2>1
      DEF ScanInv, ScanState, KeysStay, ScannedSaved, LastReply,
          ScanSavesEveryKey
  <1> QED  BY <1>1, <1>2 DEF Connect

\* RankingUpdate runs when the scan is over and forgotten.
LEMMA ScanForgotten ==
  ASSUME TypeOK, ScanInv, TruncateRanking \/ UpdateFails
  PROVE  ScanInv'
  <1>1. main # "save" /\ main' \in {"insert", "select_ranks"}
    BY DEF TruncateRanking, UpdateFails, Goto
  <1>2. got' = None /\ todo' = {}
    BY <1>1 DEF TruncateRanking, UpdateFails, ForgetScan, ScanInv, ScanState
  <1>3. clean' => ~ redisErr'
    <2>1. redisErr' = redisErr /\ (clean' = clean \/ clean' = FALSE)
      BY DEF TruncateRanking, UpdateFails, SqlFails, redis
    <2>2. clean => ~ redisErr  BY DEF ScanInv, ScanState
    <2> QED  BY <2>1, <2>2
  <1>4. \A p \in Players : begin'[p] = 0
    <2>1. begin' = [p \in Players |-> 0]
      BY DEF TruncateRanking, UpdateFails, ForgetScan
    <2> QED  BY <2>1
  <1>5. ScanState'  BY <1>1, <1>2, <1>3, <1>4 DEF ScanState
  <1>6. KeysStay'  BY <1>2, <1>4 DEF KeysStay
  <1>7. ScannedSaved' /\ LastReply' /\ ScanSavesEveryKey'
    BY <1>1 DEF ScannedSaved, LastReply, ScanSavesEveryKey
  <1> QED  BY <1>5, <1>6, <1>7 DEF ScanInv

\* The load at start runs when no scan has begun.
LEMMA ScanCacheScore ==
  ASSUME ScanInv, NEW p \in Players, CacheScore(p)
  PROVE  ScanInv'
  <1>1. /\ UNCHANGED <<sqlScore, redisErr, todo, cursor, got, scanned, begin, main, clean>>
        /\ main = "cache_scores"
    BY DEF CacheScore, SetScore, sql, scan
  <1>2. got = None /\ \A q \in Players : begin[q] = 0
    BY <1>1 DEF ScanInv, ScanState
  <1> QED
    BY <1>1, <1>2
    DEF ScanInv, ScanState, KeysStay, ScannedSaved, LastReply, ScanSavesEveryKey

\* Waking starts a scan of what is cached now.
LEMMA ScanWake ==
  ASSUME TypeOK, ScanInv, Wake
  PROVE  ScanInv'
  <1>1. /\ UNCHANGED <<cache, sqlScore, redisErr, todo, got>>
        /\ begin' = cache /\ scanned' = {} /\ main' = "scan"
        /\ (clean' => ~ redisErr)
        /\ todo = {} /\ got = None
    BY DEF Wake, Goto, redis, sql, ScanInv, ScanState
  <1>2. ScanState'  BY <1>1 DEF ScanState
  <1>3. KeysStay'  BY <1>1, VersionsTyped DEF KeysStay
  <1>4. ScannedSaved' /\ LastReply' /\ ScanSavesEveryKey'
    BY <1>1 DEF ScannedSaved, LastReply, ScanSavesEveryKey
  <1> QED  BY <1>2, <1>3, <1>4 DEF ScanInv

\* A reply of SCAN: its keys wait, and the last one completes the iteration.
LEMMA ScanScan ==
  ASSUME ScanInv, NEW batch \in SUBSET Cached, NEW next \in {0, 1}, Scan(batch, next)
  PROVE  ScanInv'
  <1>1. /\ UNCHANGED <<cache, sqlScore, redisErr, got, begin, clean>>
        /\ main = "scan" /\ main' = "save" /\ todo = {} /\ got = None
        /\ todo' = batch /\ scanned' = scanned \cup batch /\ cursor' = next
        /\ next = 0 => {p \in Players : begin[p] # 0} \subseteq scanned'
    BY DEF Scan, Goto, redis, sql, ScanInv, ScanState
  <1>2. ScanState' /\ KeysStay'  BY <1>1 DEF ScanInv, ScanState, KeysStay
  <1>3. ScannedSaved'  BY <1>1 DEF ScanInv, ScannedSaved, Waiting
  <1>4. LastReply' /\ ScanSavesEveryKey'  BY <1>1 DEF LastReply, ScanSavesEveryKey
  <1> QED  BY <1>2, <1>3, <1>4 DEF ScanInv

\* SCAN answers nothing on a failed context: the cycle is not clean.
LEMMA ScanScanFails ==
  ASSUME ScanInv, ScanFails
  PROVE  ScanInv'
  <1>1. /\ UNCHANGED <<cache, sqlScore, redisErr, todo, got, begin, clean>>
        /\ main = "scan" /\ main' = "update" /\ redisErr /\ todo = {} /\ got = None
    BY DEF ScanFails, Goto, redis, sql, scan, ScanInv, ScanState
  <1> QED
    BY <1>1
    DEF ScanInv, ScanState, KeysStay, ScannedSaved, LastReply, ScanSavesEveryKey

\* GET: a key that still had to be saved is there.
LEMMA ScanGetScore ==
  ASSUME TypeOK, ScanInv, NEW p \in Players, GetScore(p)
  PROVE  ScanInv'
  <1>1. /\ UNCHANGED <<cache, sqlScore, redisErr, scanned, begin, cursor, main, clean>>
        /\ main = "save" /\ got = None /\ todo' = todo \ {p}
        /\ got' = IF redisErr \/ cache[p] = 0 THEN None
                  ELSE [player |-> p, version |-> cache[p]]
    BY DEF GetScore, redis, sql, thread
  <1>2. ScanState'  BY <1>1 DEF ScanInv, ScanState
  <1>3. KeysStay'  BY <1>1, VersionsTyped DEF ScanInv, KeysStay
  <1>4. ScannedSaved'
    <2> SUFFICES ASSUME clean, NEW q \in scanned, begin[q] # 0
                 PROVE  Waiting(q)' \/ sqlScore[q] >= begin[q]
      BY <1>1 DEF ScannedSaved
    <2>1. Waiting(q) \/ sqlScore[q] >= begin[q]
      BY <1>1 DEF ScanInv, ScannedSaved
    <2>2. CASE q # p
      BY <1>1, <2>1, <2>2 DEF Waiting
    <2>3. CASE q = p
      <3>1. ~ redisErr /\ cache[p] # 0
        <4>1. cache[p] >= begin[p] /\ begin[p] # 0
          BY <2>3 DEF ScanInv, KeysStay
        <4> QED  BY <4>1, VersionsTyped DEF ScanInv, ScanState
      <3>2. got' = [player |-> p, version |-> cache[p]]  BY <1>1, <3>1
      <3>3. got' # None
        BY <3>2, VersionsTyped, WorkerAssumption
      <3> QED  BY <2>3, <3>2, <3>3 DEF Waiting
    <2> QED  BY <2>2, <2>3
  <1>5. LastReply' /\ ScanSavesEveryKey'
    BY <1>1 DEF ScanInv, LastReply, ScanSavesEveryKey
  <1> QED  BY <1>2, <1>3, <1>4, <1>5 DEF ScanInv

\* MERGE: what GET returned is as new as the scan asks for.
LEMMA ScanMerge ==
  ASSUME TypeOK, ScanInv, Merge
  PROVE  ScanInv'
  <1>1. /\ UNCHANGED <<cache, redisErr, todo, cursor, scanned, begin, main, clean>>
        /\ main = "save" /\ got # None /\ got' = None
        /\ sqlScore' = [sqlScore EXCEPT ![got.player] = got.version]
    BY DEF Merge, redis, thread
  <1>2. ScanState' /\ KeysStay'  BY <1>1 DEF ScanInv, ScanState, KeysStay
  <1>3. ScannedSaved'
    <2> SUFFICES ASSUME clean, NEW q \in scanned, begin[q] # 0
                 PROVE  q \in todo \/ sqlScore'[q] >= begin[q]
      BY <1>1 DEF ScannedSaved, Waiting
    <2>1. Waiting(q) \/ sqlScore[q] >= begin[q]
      BY <1>1 DEF ScanInv, ScannedSaved
    <2>2. CASE q = got.player
      BY <1>1, <2>2, GotTyped DEF ScanInv, KeysStay, TypeOK
    <2>3. CASE q # got.player
      <3>1. sqlScore'[q] = sqlScore[q]  BY <1>1, <2>3 DEF TypeOK
      <3> QED  BY <1>1, <2>1, <2>3, <3>1 DEF Waiting
    <2> QED  BY <2>2, <2>3
  <1>4. LastReply' /\ ScanSavesEveryKey'
    BY <1>1 DEF ScanInv, LastReply, ScanSavesEveryKey
  <1> QED  BY <1>2, <1>3, <1>4 DEF ScanInv

\* A merge that fails leaves the cycle unclean.
LEMMA ScanMergeFails ==
  ASSUME ScanInv, NEW skipped \in {{}, todo}, MergeFails(skipped)
  PROVE  ScanInv'
  <1>1. /\ UNCHANGED <<cache, sqlScore, redisErr, scanned, begin, cursor, main>>
        /\ main = "save" /\ got' = None /\ clean' = FALSE /\ todo' = todo \ skipped
    BY DEF MergeFails, SqlFails, redis, sql
  <1> QED
    BY <1>1
    DEF ScanInv, ScanState, KeysStay, ScannedSaved, LastReply, ScanSavesEveryKey

\* The end of a batch: after the last reply nothing waits any more.
LEMMA ScanBatchSaved ==
  ASSUME ScanInv, BatchSaved
  PROVE  ScanInv'
  <1>1. /\ UNCHANGED <<cache, sqlScore, redisErr, todo, got, scanned, begin, cursor, clean>>
        /\ main = "save" /\ got = None /\ todo = {}
        /\ main' = IF cursor = 0 THEN "update" ELSE "scan"
    BY DEF BatchSaved, redis, sql, scan
  <1>2. ScanState' /\ KeysStay'  BY <1>1 DEF ScanInv, ScanState, KeysStay
  <1>3. ScannedSaved' /\ LastReply'
    BY <1>1 DEF ScanInv, ScannedSaved, LastReply, Waiting
  <1>4. ScanSavesEveryKey'
    <2> SUFFICES ASSUME clean, cursor = 0, NEW p \in Players, begin[p] # 0
                 PROVE  sqlScore[p] >= begin[p]
      BY <1>1 DEF ScanSavesEveryKey
    <2>1. p \in scanned  BY <1>1 DEF ScanInv, LastReply
    <2> QED  BY <1>1, <2>1 DEF ScanInv, ScannedSaved, Waiting
  <1> QED  BY <1>2, <1>3, <1>4 DEF ScanInv

\* A save during the scan only makes its key newer.
LEMMA ScanSaveScore ==
  ASSUME TypeOK, StoreInv, ScanInv, NEW p \in Players, NEW score \in Scores,
         SaveScore(p, score)
  PROVE  ScanInv'
  <1>1. /\ UNCHANGED <<sqlScore, redisErr, todo, got, scanned, begin, cursor, main, clean>>
        /\ cache' = IF redisErr THEN cache ELSE [cache EXCEPT ![p] = Len(saves[p]) + 1]
    BY DEF SaveScore, SetScore, sql, scan, thread
  <1>2. \A q \in Players : cache'[q] >= cache[q]
    <2> SUFFICES ASSUME NEW q \in Players  PROVE cache'[q] >= cache[q]  OBVIOUS
    <2>1. CASE cache'[q] = cache[q]  BY <2>1, VersionsTyped
    <2>2. CASE q = p /\ cache'[q] = Len(saves[p]) + 1
      BY <2>2, VersionsTyped DEF StoreInv, NoneAhead
    <2> QED  BY <1>1, <2>1, <2>2 DEF TypeOK
  <1>3. \A q \in Players : cache'[q] \in Nat
    BY <1>1, VersionsTyped DEF TypeOK
  <1>4. KeysStay'
    BY <1>1, <1>2, <1>3, VersionsTyped DEF ScanInv, KeysStay
  <1> QED
    BY <1>1, <1>4
    DEF ScanInv, ScanState, ScannedSaved, LastReply, ScanSavesEveryKey, Waiting

\* A key that runs out is no longer one the scan has to save.
LEMMA ScanExpireScore ==
  ASSUME TypeOK, ScanInv, NEW p \in Players, ExpireScore(p)
  PROVE  ScanInv'
  <1>1. /\ UNCHANGED <<sqlScore, redisErr, todo, got, scanned, cursor, main, clean>>
        /\ cache' = [cache EXCEPT ![p] = 0] /\ begin' = [begin EXCEPT ![p] = 0]
    BY DEF ExpireScore, sql, thread
  <1>2. begin'[p] = 0
        /\ \A q \in Players \ {p} : begin'[q] = begin[q] /\ cache'[q] = cache[q]
    BY <1>1 DEF TypeOK
  <1>3. ScanState'  BY <1>1, <1>2 DEF ScanInv, ScanState
  <1>4. KeysStay'
    BY <1>1, <1>2, VersionsTyped, GotTyped DEF ScanInv, KeysStay
  <1>5. ScannedSaved'
    <2>1. scanned \subseteq Players  BY DEF TypeOK
    <2> QED  BY <1>1, <1>2, <2>1 DEF ScanInv, ScannedSaved, Waiting
  <1>6. LastReply' /\ ScanSavesEveryKey'
    BY <1>1, <1>2 DEF ScanInv, LastReply, ScanSavesEveryKey
  <1> QED  BY <1>3, <1>4, <1>5, <1>6 DEF ScanInv

\* A failed connection leaves the cycle unclean; a crash ends the scan.
LEMMA ScanFaults ==
  ASSUME ScanInv, RedisFails \/ Crash
  PROVE  ScanInv'
  <1>1. CASE RedisFails
    <2>1. UNCHANGED <<cache, sqlScore, todo, got, begin, main>> /\ clean' = FALSE
      BY <1>1 DEF RedisFails, sql, scan
    <2> QED
      BY <2>1
      DEF ScanInv, ScanState, KeysStay, ScannedSaved, LastReply, ScanSavesEveryKey
  <1>2. CASE Crash
    <2>1. /\ main' = "connect_sql" /\ redisErr' = FALSE /\ todo' = {} /\ got' = None
          /\ begin' = [p \in Players |-> 0]
      BY <1>2 DEF Crash
    <2> QED
      BY <2>1
      DEF ScanInv, ScanState, KeysStay, ScannedSaved, LastReply, ScanSavesEveryKey
  <1> QED  BY <1>1, <1>2

\* Every step keeps the scan's promise.
LEMMA ScanStep == TypeInv /\ TypeInv' /\ StoreInv /\ ScanInv /\ [Next]_vars => ScanInv'
  <1> SUFFICES ASSUME TypeInv, TypeInv', StoreInv, ScanInv, [Next]_vars
               PROVE  ScanInv'
    OBVIOUS
  <1>0. TypeOK /\ clean' \in BOOLEAN  BY DEF TypeInv, TypeOK
  <1>1. CASE SelectScores \/ ScoresLoaded \/ SelectRanking \/ RanksLoaded
    BY <1>0, <1>1, ScanElsewhere
    DEF SelectScores, ScoresLoaded, SelectRanking, RanksLoaded, Goto, redis, sql
  <1>2. CASE LoadFails \/ FetchFails
    BY <1>0, <1>2, ScanElsewhere DEF LoadFails, FetchFails, SqlFails, Goto, redis, sql
  <1>3. CASE InsertRanking
    BY <1>0, <1>3, ScanElsewhere DEF InsertRanking, Goto, redis
  <1>13. CASE TruncateRanking \/ UpdateFails
    BY <1>0, <1>13, ScanForgotten
  <1>4. CASE \E p \in Players : CacheScore(p) \/ CacheRank(p) \/ GetScore(p)
    <2>1. ASSUME NEW p \in Players, CacheRank(p)  PROVE ScanInv'
      BY <1>0, <2>1, ScanElsewhere DEF CacheRank, SetRank, sql
    <2> QED  BY <1>0, <1>4, <2>1, ScanCacheScore, ScanGetScore
  <1>5. CASE Wake  BY <1>0, <1>5, ScanWake
  <1>6. CASE \E batch \in SUBSET Cached, next \in {0, 1} : Scan(batch, next)
    BY <1>6, ScanScan
  <1>7. CASE ScanFails \/ Merge \/ BatchSaved
    BY <1>0, <1>7, ScanScanFails, ScanMerge, ScanBatchSaved
  <1>8. CASE \E skipped \in {{}, todo} : MergeFails(skipped)
    BY <1>8, ScanMergeFails
  <1>9. CASE \E p \in Players, score \in Scores : SaveScore(p, score)
    BY <1>0, <1>9, ScanSaveScore
  <1>10. CASE \E p \in Players : ExpireScore(p)
    BY <1>0, <1>10, ScanExpireScore
  <1>11. CASE (\E p \in Players : ExpireRank(p)) \/ Tick \/ UNCHANGED vars
    <2>1. UNCHANGED <<cache, sqlScore, redisErr, scan, main, clean>>
      BY <1>11 DEF ExpireRank, Tick, vars, redis, sql, thread
    <2> QED
      BY <2>1
      DEF ScanInv, ScanState, KeysStay, ScannedSaved, LastReply, ScanSavesEveryKey,
          Waiting, scan
  <1>12. CASE RedisFails \/ Crash  BY <1>12, ScanFaults
  <1>14. CASE Connect  BY <1>0, <1>14, ScanConnect
  <1> QED
    BY <1>1, <1>2, <1>3, <1>4, <1>5, <1>6, <1>7, <1>8, <1>9, <1>10, <1>11, <1>12,
       <1>13, <1>14
    DEF Next, MainStep

(* A cycle in which nothing fails brings every score that was cached when   *)
(* it began into table Score, unless its key ran out on the way: ScoreData- *)
(* Save's do-while over SCAN loses no batch, not even the one that comes     *)
(* with cursor 0 (DatabaseWorker.cpp:250-306).                              *)
THEOREM ScanComplete == Spec => []ScanSavesEveryKey
  <1>1. ScanInv => ScanSavesEveryKey  BY DEF ScanInv
  <1> QED
    BY <1>1, ScanInit, ScanStep, TypeInvHolds, StoreInvHolds, PTL DEF Spec

-----------------------------------------------------------------------------
(* The ranking's keys.  Both invariants are about a state of the sleep, and  *)
(* hold because of when the keys were set: a key of the current table during *)
(* the load that precedes the sleep, any other key before the sleep that     *)
(* precedes that load.                                                       *)

\* The key of p holds row i of table Ranking.
IsRow(p, i) == ranking[i].player = p /\ rankCache[p].rank = i

\* A row of TOP whose player the load has passed.
Loaded(i) == ranking[i].player \notin rows

RankTypes ==
  /\ \A i, j \in DOMAIN ranking : ranking[i].player = ranking[j].player => i = j
  /\ clean => ~ redisErr /\ ~ sqlErr
  /\ main = "sleep" => rows = {} /\ clock <= Interval + Slack
  /\ main # "sleep" => clock <= Slack

\* A key that was set in the last load is still the row, and has lived no
\* longer than that load and this sleep.
FreshKeys ==
  main \in {"cache_ranks", "sleep"} /\ clean =>
    \A i \in TopRows : Loaded(i) =>
      LET p == ranking[i].player IN
        /\ rankCache[p] = [rank |-> i, version |-> ranking[i].version]
        /\ rankTtl[p] + clock + (IF main = "sleep" THEN Slack ELSE 0) >= LoadTTL

\* A key that is not a row has lived a whole sleep.
OldKeys ==
  /\ \A p \in Players : rankTtl[p] <= LoadTTL
  /\ main = "sleep" =>
       \A p \in Ranked : rankTtl[p] + clock <= LoadTTL
  /\ main \in {"scan", "save", "update", "insert"} =>
       \A p \in Ranked : rankTtl[p] + Interval <= LoadTTL
  /\ \A p \in Ranked :
       ~ (\E i \in DOMAIN ranking : IsRow(p, i)) => rankTtl[p] + Interval <= LoadTTL

\* Of two keys with one rank, the one that is the row was set later.
SharedRanks ==
  main \in {"cache_ranks", "sleep"} /\ clean =>
    \A i \in TopRows : \A p \in Players \ {ranking[i].player} :
      Loaded(i) /\ rankCache[p].rank = i => rankTtl[p] < rankTtl[ranking[i].player]

\* The constants of the code: keys live 600 seconds, the sleep takes 60.
KeysOutliveSleep == LoadTTL > Interval + Slack + Slack

RankInv == TypeInv /\ RankTypes /\ OldKeys

\* The numbers of the keys and the players of the rows.
LEMMA RankNumbers ==
  ASSUME TypeOK
  PROVE  /\ \A p \in Players : rankTtl[p] \in Nat
         /\ clock \in Nat /\ LoadTTL \in Nat /\ Interval \in Nat /\ Slack \in Nat
         /\ TopRows \subseteq DOMAIN ranking
         /\ \A i \in DOMAIN ranking : i \in Nat \ {0} /\ ranking[i].player \in Players
  <1>1. ranking \in Seq([player : Players, version : Nat])
    BY DEF TypeOK
  <1>2. /\ DOMAIN ranking = 1 .. Len(ranking) /\ Len(ranking) \in Nat
        /\ TopN \in Nat
    BY <1>1, WorkerAssumption
  <1>3. TopRows \subseteq DOMAIN ranking
    BY <1>2 DEF TopRows
  <1>4. \A i \in DOMAIN ranking : i \in Nat \ {0} /\ ranking[i].player \in Players
    BY <1>2, RankingRowTyped
  <1> QED  BY <1>3, <1>4, WorkerAssumption DEF TypeOK

\* The server starts with no key.
LEMMA RankInit == Init => RankInv /\ FreshKeys /\ SharedRanks
  <1> SUFFICES ASSUME Init  PROVE RankInv /\ FreshKeys /\ SharedRanks
    OBVIOUS
  <1>1. TypeInv  BY TypeInit
  <1>2. main = "connect_sql" /\ clock = 0 /\ ~ redisErr /\ ~ sqlErr /\ ranking = <<>>
        /\ \A p \in Players : rankTtl[p] = 0 /\ rankCache[p] = NoRank
    BY DEF Init
  <1>3. RankTypes  BY <1>2, WorkerAssumption DEF RankTypes
  <1>4. OldKeys  BY <1>2, WorkerAssumption DEF OldKeys, Ranked
  <1> QED  BY <1>1, <1>2, <1>3, <1>4 DEF RankInv, FreshKeys, SharedRanks

Cycle == {"scan", "save", "update", "insert"}

\* The steps that touch neither a key of the ranking nor the table, and do not
\* begin or end a sleep or a load that succeeds.
RankAside ==
  /\ UNCHANGED <<rankCache, rankTtl, ranking, clock>>
  /\ clean' => clean /\ UNCHANGED <<redisErr, sqlErr>>
  /\ \/ main' = main /\ (rows' = rows \/ main \notin {"cache_ranks", "sleep"})
     \/ main' \in Cycle /\ main \in Cycle
     \/ main' \notin Cycle \cup {"cache_ranks", "sleep"} /\ main # "sleep"
     \/ main' = "cache_ranks" /\ main # "sleep" /\ ~ clean'

\* They keep what is said of the keys.
LEMMA AsideKeeps ==
  ASSUME RankInv, RankAside
  PROVE  /\ RankTypes' /\ OldKeys'
         /\ FreshKeys => FreshKeys'
         /\ SharedRanks => SharedRanks'
  <1>1. UNCHANGED <<rankCache, rankTtl, ranking, clock>> /\ Ranked' = Ranked /\ TopRows' = TopRows
    BY DEF RankAside, Ranked, TopRows
  <1>2. RankTypes'
    BY <1>1 DEF RankInv, RankTypes, RankAside, Cycle
  <1>3. OldKeys'
    BY <1>1 DEF RankInv, OldKeys, RankAside, Cycle, IsRow
  <1>4. (main' \in {"cache_ranks", "sleep"} /\ clean')
          => main' = main /\ rows' = rows /\ clean
    BY DEF RankAside, Cycle
  <1>5. FreshKeys => FreshKeys'
    BY <1>1, <1>4 DEF FreshKeys, Loaded
  <1>6. SharedRanks => SharedRanks'
    BY <1>1, <1>4 DEF SharedRanks, Loaded
  <1> QED  BY <1>2, <1>3, <1>5, <1>6

\* Which steps these are.
LEMMA AsideSteps ==
  ASSUME RankInv,
         \/ Connect \/ SelectScores \/ ScoresLoaded \/ LoadFails \/ FetchFails
         \/ \E p \in Players : CacheScore(p) \/ GetScore(p) \/ ExpireScore(p)
         \/ \E batch \in SUBSET Cached, next \in {0, 1} : Scan(batch, next)
         \/ ScanFails \/ Merge \/ BatchSaved
         \/ \E skipped \in {{}, todo} : MergeFails(skipped)
         \/ UpdateFails \/ RedisFails \/ UNCHANGED vars
         \/ \E p \in Players, score \in Scores : SaveScore(p, score)
  PROVE  RankAside
  <1> USE DEF RankAside, Cycle, Goto, redis, sql, scan, thread
  <1>1. CASE Connect
    BY <1>1 DEF Connect, ConnectSql, ConnectSqlFails, ConnectRedis, ConnectRedisFails, SqlFails
  <1>2. CASE SelectScores \/ ScoresLoaded
    BY <1>2 DEF SelectScores, ScoresLoaded
  <1>3. CASE LoadFails \/ FetchFails
    BY <1>3 DEF LoadFails, FetchFails, SqlFails
  <1>4. ASSUME NEW p \in Players, CacheScore(p) \/ GetScore(p) \/ ExpireScore(p)
        PROVE  RankAside
    BY <1>4 DEF CacheScore, GetScore, ExpireScore, SetScore
  <1>5. ASSUME NEW batch \in SUBSET Cached, NEW next \in {0, 1}, Scan(batch, next)
        PROVE  RankAside
    BY <1>5 DEF Scan
  <1>6. CASE ScanFails \/ Merge \/ BatchSaved
    BY <1>6 DEF ScanFails, Merge, BatchSaved
  <1>7. ASSUME NEW skipped \in {{}, todo}, MergeFails(skipped)  PROVE RankAside
    BY <1>7 DEF MergeFails, SqlFails
  <1>8. CASE UpdateFails \/ RedisFails
    BY <1>8 DEF UpdateFails, RedisFails, SqlFails, ForgetScan
  <1>9. CASE UNCHANGED vars
    BY <1>9 DEF vars
  <1>10. ASSUME NEW p \in Players, NEW score \in Scores, SaveScore(p, score)
         PROVE  RankAside
    BY <1>10 DEF SaveScore, SetScore
  <1> QED  BY <1>1, <1>2, <1>3, <1>4, <1>5, <1>6, <1>7, <1>8, <1>9, <1>10

\* The load of the ranking begins: no row of it has been passed.
LEMMA RankSelect ==
  ASSUME RankInv, SelectRanking
  PROVE  RankTypes' /\ OldKeys' /\ FreshKeys' /\ SharedRanks'
  <1>1. /\ main = "select_ranks" /\ main' = "cache_ranks"
        /\ UNCHANGED <<rankCache, rankTtl, redisErr, ranking, sqlErr, clock, clean>>
        /\ rows' = {ranking[i].player : i \in TopRows}
        /\ Ranked' = Ranked /\ TopRows' = TopRows
    BY DEF SelectRanking, Goto, redis, sql, Ranked, TopRows
  <1>2. \A i \in TopRows' : ~ Loaded(i)'
    BY <1>1 DEF Loaded
  <1> QED  BY <1>1, <1>2 DEF RankInv, RankTypes, OldKeys, FreshKeys, SharedRanks, IsRow

\* The sleep begins: every row of TOP is loaded.
LEMMA RankSleep ==
  ASSUME RankInv, RanksLoaded
  PROVE  /\ RankTypes' /\ OldKeys'
         /\ FreshKeys => FreshKeys'
         /\ SharedRanks => SharedRanks'
  <1>1. /\ main = "cache_ranks" /\ main' = "sleep" /\ rows = {} /\ rows' = {} /\ clock' = 0
        /\ UNCHANGED <<rankCache, rankTtl, redisErr, ranking, sqlErr, clean>>
        /\ Ranked' = Ranked /\ TopRows' = TopRows
    BY DEF RanksLoaded, Goto, redis, sql, Ranked, TopRows
  <1>2. /\ clock \in Nat /\ clock <= Slack /\ LoadTTL \in Nat /\ Interval \in Nat /\ Slack \in Nat
        /\ \A p \in Players : rankTtl[p] \in Nat
    BY <1>1, RankNumbers DEF RankInv, TypeInv, RankTypes
  <1>3. RankTypes'
    BY <1>1, <1>2 DEF RankInv, RankTypes
  <1>4. OldKeys'
    BY <1>1, <1>2 DEF RankInv, OldKeys, IsRow, Ranked
  <1>5. ASSUME FreshKeys  PROVE FreshKeys'
    <2> SUFFICES ASSUME clean, NEW i \in TopRows
                 PROVE  /\ rankCache[ranking[i].player] = [rank |-> i, version |-> ranking[i].version]
                        /\ rankTtl[ranking[i].player] + 0 + Slack >= LoadTTL
      BY <1>1 DEF FreshKeys
    <2>1. /\ rankCache[ranking[i].player] = [rank |-> i, version |-> ranking[i].version]
          /\ rankTtl[ranking[i].player] + clock + 0 >= LoadTTL
      BY <1>1, <1>5 DEF FreshKeys, Loaded
    <2>2. ranking[i].player \in Players
      BY RankNumbers DEF RankInv, TypeInv
    <2> QED  BY <1>2, <2>1, <2>2
  <1>6. SharedRanks => SharedRanks'
    BY <1>1 DEF SharedRanks, Loaded
  <1> QED  BY <1>3, <1>4, <1>5, <1>6

\* The sleep ends: every key has lived all of it.
LEMMA RankWake ==
  ASSUME RankInv, Wake
  PROVE  RankTypes' /\ OldKeys' /\ FreshKeys' /\ SharedRanks'
  <1>1. /\ main = "sleep" /\ main' = "scan" /\ clock >= Interval /\ clock' = 0
        /\ clean' => ~ redisErr' /\ ~ sqlErr'
        /\ UNCHANGED <<rankCache, rankTtl, ranking, rows>>
        /\ Ranked' = Ranked /\ TopRows' = TopRows
    BY DEF Wake, Goto, redis, sql, Ranked, TopRows
  <1>2. /\ clock \in Nat /\ LoadTTL \in Nat /\ Interval \in Nat /\ Slack \in Nat
        /\ \A p \in Players : rankTtl[p] \in Nat
    BY RankNumbers DEF RankInv, TypeInv
  <1>3. RankTypes'
    BY <1>1, <1>2 DEF RankInv, RankTypes
  <1>4. \A p \in Ranked : rankTtl[p] + Interval <= LoadTTL
    BY <1>1, <1>2 DEF RankInv, OldKeys, Ranked
  <1>5. OldKeys'
    BY <1>1, <1>4 DEF RankInv, OldKeys
  <1> QED  BY <1>1, <1>3, <1>5 DEF FreshKeys, SharedRanks

\* The table is emptied: no key is a row.
LEMMA RankTruncate ==
  ASSUME RankInv, TruncateRanking
  PROVE  RankTypes' /\ OldKeys' /\ FreshKeys' /\ SharedRanks'
  <1>1. /\ main = "update" /\ main' = "insert" /\ ranking' = <<>>
        /\ UNCHANGED <<rankCache, rankTtl, redisErr, sqlErr, rows, clock, clean>>
        /\ Ranked' = Ranked
    BY DEF TruncateRanking, Goto, redis, Ranked
  <1>2. RankTypes'
    BY <1>1 DEF RankInv, RankTypes
  <1>3. OldKeys'
    BY <1>1 DEF RankInv, OldKeys
  <1> QED  BY <1>1, <1>2, <1>3 DEF FreshKeys, SharedRanks

\* The table is filled: one row for each player.
LEMMA RankInsert ==
  ASSUME RankInv, InsertRanking
  PROVE  RankTypes' /\ OldKeys' /\ FreshKeys' /\ SharedRanks'
  <1>1. /\ main = "insert" /\ main' = "select_ranks"
        /\ UNCHANGED <<rankCache, rankTtl, redisErr, sqlErr, rows, clock, clean>>
        /\ Ranked' = Ranked
    BY DEF InsertRanking, Goto, redis, Ranked
  <1>2. PICK q \in SetToSeqs(Rows) :
          ranking' = [i \in DOMAIN q |-> [player |-> q[i], version |-> sqlScore[q[i]]]]
    BY DEF InsertRanking
  <1>3. \A i, j \in DOMAIN q : q[i] = q[j] => i = j
    BY DEF SetToSeqs
  <1>4. \A i, j \in DOMAIN ranking' : ranking'[i].player = ranking'[j].player => i = j
    BY <1>2, <1>3
  <1>5. RankTypes'
    BY <1>1, <1>4 DEF RankInv, RankTypes
  <1>6. OldKeys'
    BY <1>1 DEF RankInv, OldKeys
  <1> QED  BY <1>1, <1>5, <1>6 DEF FreshKeys, SharedRanks

\* The process starts again: the keys and the table outlive it.
LEMMA RankCrash ==
  ASSUME RankInv, Crash
  PROVE  RankTypes' /\ OldKeys' /\ FreshKeys' /\ SharedRanks'
  <1>1. /\ main' = "connect_sql" /\ clock' = 0 /\ ~ redisErr' /\ ~ sqlErr'
        /\ UNCHANGED <<rankCache, rankTtl, ranking>>
        /\ Ranked' = Ranked
    BY DEF Crash, sql, Ranked
  <1>2. RankTypes'
    BY <1>1, RankNumbers DEF RankInv, RankTypes, TypeInv
  <1>3. OldKeys'
    BY <1>1 DEF RankInv, OldKeys, IsRow
  <1> QED  BY <1>1, <1>2, <1>3 DEF FreshKeys, SharedRanks

\* A key runs out.  A key of the last load does not, if keys outlive a sleep.
LEMMA RankExpire ==
  ASSUME RankInv, NEW q \in Players, ExpireRank(q)
  PROVE  /\ RankTypes' /\ OldKeys'
         /\ KeysOutliveSleep /\ FreshKeys => FreshKeys'
         /\ SharedRanks => SharedRanks'
  <1>1. /\ rankCache[q] # NoRank /\ rankTtl[q] = 0
        /\ rankCache' = [rankCache EXCEPT ![q] = NoRank]
        /\ UNCHANGED <<rankTtl, redisErr, ranking, main, sqlErr, rows, clock, clean>>
        /\ TopRows' = TopRows
    BY DEF ExpireRank, sql, thread, TopRows
  <1>2. /\ clock \in Nat /\ LoadTTL \in Nat /\ Interval \in Nat /\ Slack \in Nat
        /\ \A p \in Players : rankTtl[p] \in Nat
        /\ TopRows \subseteq DOMAIN ranking
        /\ \A i \in DOMAIN ranking : i \in Nat \ {0} /\ ranking[i].player \in Players
    BY RankNumbers DEF RankInv, TypeInv
  <1>3. \A p \in Players : rankCache'[p] = IF p = q THEN NoRank ELSE rankCache[p]
    BY <1>1 DEF RankInv, TypeInv, TypeOK
  <1>4. RankTypes'
    BY <1>1 DEF RankInv, RankTypes
  <1>5. Ranked' = Ranked \ {q}
    BY <1>3 DEF Ranked
  <1>6. OldKeys'
    <2>1. \A p \in Ranked', i \in DOMAIN ranking : IsRow(p, i)' <=> IsRow(p, i)
      BY <1>1, <1>3, <1>5 DEF IsRow, Ranked
    <2> QED  BY <1>1, <1>5, <2>1 DEF RankInv, OldKeys
  <1>7. ASSUME KeysOutliveSleep, FreshKeys  PROVE FreshKeys'
    <2> SUFFICES ASSUME main \in {"cache_ranks", "sleep"}, clean, NEW i \in TopRows, Loaded(i)
                 PROVE  ranking[i].player # q
      BY <1>1, <1>2, <1>3, <1>7 DEF FreshKeys, Loaded
    <2>1. rankTtl[ranking[i].player] + clock + (IF main = "sleep" THEN Slack ELSE 0) >= LoadTTL
      BY <1>7 DEF FreshKeys
    <2>2. clock <= (IF main = "sleep" THEN Interval ELSE 0) + Slack
      BY <1>2 DEF RankInv, RankTypes
    <2>3. ranking[i].player \in Players
      BY <1>2
    <2>4. rankTtl[ranking[i].player] > 0
      BY <1>2, <1>7, <2>1, <2>2, <2>3 DEF KeysOutliveSleep
    <2> QED  BY <1>1, <2>4
  <1>8. ASSUME SharedRanks  PROVE SharedRanks'
    <2>1. \A i \in TopRows, p \in Players : rankCache'[p].rank = i => rankCache[p].rank = i
      BY <1>2, <1>3 DEF NoRank
    <2> QED  BY <1>1, <1>8, <2>1 DEF SharedRanks, Loaded
  <1> QED  BY <1>4, <1>6, <1>7, <1>8

\* Time passes for every key alike; none is kept beyond its time.
LEMMA RankTick ==
  ASSUME RankInv, Tick
  PROVE  /\ RankTypes' /\ OldKeys'
         /\ FreshKeys => FreshKeys'
         /\ SharedRanks => SharedRanks'
  <1>1. /\ UNCHANGED <<rankCache, redisErr, ranking, main, sqlErr, rows, clean>>
        /\ clock < (IF main = "sleep" THEN Interval + Slack ELSE Slack)
        /\ clock' = clock + 1
        /\ rankTtl' = [p \in Players |-> Down(rankTtl[p])]
        /\ \A p \in Ranked : rankTtl[p] > 0
        /\ Ranked' = Ranked /\ TopRows' = TopRows
    BY DEF Tick, sql, Ranked, TopRows
  <1>2. /\ clock \in Nat /\ LoadTTL \in Nat /\ Interval \in Nat /\ Slack \in Nat
        /\ \A p \in Players : rankTtl[p] \in Nat
        /\ TopRows \subseteq DOMAIN ranking
        /\ \A i \in DOMAIN ranking : i \in Nat \ {0} /\ ranking[i].player \in Players
    BY RankNumbers DEF RankInv, TypeInv
  <1>3. /\ \A p \in Players : rankTtl'[p] \in Nat /\ rankTtl'[p] <= rankTtl[p]
        /\ \A p \in Ranked : p \in Players /\ rankTtl'[p] = rankTtl[p] - 1
    BY <1>1, <1>2 DEF Down, Ranked
  <1>4. RankTypes'
    BY <1>1, <1>2 DEF RankInv, RankTypes
  <1>5. OldKeys'
    <2>1. \A p \in Players : rankTtl'[p] <= LoadTTL
      BY <1>2, <1>3 DEF RankInv, OldKeys
    <2>2. main = "sleep" => \A p \in Ranked : rankTtl'[p] + clock' <= LoadTTL
      BY <1>1, <1>2, <1>3 DEF RankInv, OldKeys
    <2>3. main \in {"scan", "save", "update", "insert"} =>
            \A p \in Ranked : rankTtl'[p] + Interval <= LoadTTL
      BY <1>2, <1>3 DEF RankInv, OldKeys
    <2>4. \A p \in Ranked :
            ~ (\E i \in DOMAIN ranking : IsRow(p, i)) => rankTtl'[p] + Interval <= LoadTTL
      BY <1>2, <1>3 DEF RankInv, OldKeys
    <2>5. \A p \in Ranked, i \in DOMAIN ranking : IsRow(p, i)' <=> IsRow(p, i)
      BY <1>1 DEF IsRow
    <2> QED  BY <1>1, <2>1, <2>2, <2>3, <2>4, <2>5 DEF OldKeys
  <1>6. ASSUME FreshKeys  PROVE FreshKeys'
    <2> SUFFICES ASSUME main \in {"cache_ranks", "sleep"}, clean, NEW i \in TopRows, Loaded(i)
                 PROVE  LET p == ranking[i].player IN
                          /\ rankCache[p] = [rank |-> i, version |-> ranking[i].version]
                          /\ rankTtl'[p] + clock' + (IF main = "sleep" THEN Slack ELSE 0) >= LoadTTL
      BY <1>1 DEF FreshKeys, Loaded
    <2>0. PICK p \in Players : p = ranking[i].player
      BY <1>2
    <2>1. /\ rankCache[p] = [rank |-> i, version |-> ranking[i].version]
          /\ rankTtl[p] + clock + (IF main = "sleep" THEN Slack ELSE 0) >= LoadTTL
      BY <1>6, <2>0 DEF FreshKeys
    <2>2. p \in Ranked
      BY <1>2, <2>0, <2>1 DEF Ranked, NoRank
    <2>3. rankTtl'[p] = rankTtl[p] - 1
      BY <1>3, <2>2
    <2>4. rankTtl'[p] + clock' + (IF main = "sleep" THEN Slack ELSE 0) >= LoadTTL
      BY <1>1, <1>2, <2>1, <2>3
    <2> QED  BY <2>0, <2>1, <2>4
  <1>7. ASSUME SharedRanks  PROVE SharedRanks'
    <2> SUFFICES ASSUME main \in {"cache_ranks", "sleep"}, clean, NEW i \in TopRows,
                        NEW p \in Players \ {ranking[i].player}, Loaded(i), rankCache[p].rank = i
                 PROVE  rankTtl'[p] < rankTtl'[ranking[i].player]
      BY <1>1 DEF SharedRanks, Loaded
    <2>0. PICK h \in Players : h = ranking[i].player
      BY <1>2
    <2>1. rankTtl[p] < rankTtl[h]
      BY <1>7, <2>0 DEF SharedRanks
    <2>2. rankTtl[p] > 0
      BY <1>1, <1>2 DEF Ranked, NoRank
    <2>3. rankTtl'[p] = rankTtl[p] - 1 /\ rankTtl'[h] = rankTtl[h] - 1
      BY <1>1, <1>2, <2>1, <2>2 DEF Down
    <2> QED  BY <1>2, <2>0, <2>1, <2>3
  <1> QED  BY <1>4, <1>5, <1>6, <1>7

\* A row is loaded: its key is younger than any other with its rank.
LEMMA RankCacheRank ==
  ASSUME RankInv, NEW q \in Players, CacheRank(q)
  PROVE  /\ RankTypes' /\ OldKeys'
         /\ FreshKeys => FreshKeys'
         /\ Interval > 0 /\ SharedRanks => SharedRanks'
  <1>1. /\ main = "cache_ranks" /\ q \in rows /\ rows' = rows \ {q}
        /\ SetRank(q, [rank |-> RankOf(q), version |-> ranking[RankOf(q)].version], LoadTTL)
        /\ UNCHANGED <<redisErr, ranking, main, sqlErr, clock, clean>>
        /\ TopRows' = TopRows
    BY DEF CacheRank, SetRank, sql, TopRows
  <1>2. /\ clock \in Nat /\ LoadTTL \in Nat /\ Interval \in Nat /\ Slack \in Nat
        /\ \A p \in Players : rankTtl[p] \in Nat
        /\ TopRows \subseteq DOMAIN ranking
        /\ \A i \in DOMAIN ranking : i \in Nat \ {0} /\ ranking[i].player \in Players
    BY RankNumbers DEF RankInv, TypeInv
  <1>3. PICK r : r = RankOf(q)
    OBVIOUS
  <1>4. r \in DOMAIN ranking /\ ranking[r].player = q /\ r \in Nat \ {0}
    BY <1>1, <1>2, <1>3, RankOfTyped DEF RankInv
  <1>5. \A i \in DOMAIN ranking : ranking[i].player = q <=> i = r
    BY <1>4 DEF RankInv, RankTypes
  <1>6. RankTypes'
    BY <1>1 DEF RankInv, RankTypes
  <1>7. CASE redisErr
    <2>1. UNCHANGED <<rankCache, rankTtl>> /\ Ranked' = Ranked /\ ~ clean
      BY <1>1, <1>7 DEF SetRank, Ranked, RankInv, RankTypes
    <2>2. OldKeys'
      BY <1>1, <2>1 DEF RankInv, OldKeys, IsRow
    <2> QED  BY <1>1, <1>6, <2>1, <2>2 DEF FreshKeys, SharedRanks
  <1>8. CASE ~ redisErr
    <2>1. /\ rankCache' = [rankCache EXCEPT ![q] = [rank |-> r, version |-> ranking[r].version]]
          /\ rankTtl' = [rankTtl EXCEPT ![q] = LoadTTL]
      BY <1>1, <1>3, <1>8 DEF SetRank
    <2>2. \A p \in Players :
            /\ rankCache'[p] = IF p = q THEN [rank |-> r, version |-> ranking[r].version]
                                        ELSE rankCache[p]
            /\ rankTtl'[p] = IF p = q THEN LoadTTL ELSE rankTtl[p]
      BY <2>1 DEF RankInv, TypeInv, TypeOK
    <2>3. OldKeys'
      <3>1. \A p \in Players : rankTtl'[p] <= LoadTTL
        BY <1>2, <2>2 DEF RankInv, OldKeys
      <3>2. \A p \in Ranked' : ~ (\E i \in DOMAIN ranking : IsRow(p, i)')
              => rankTtl'[p] + Interval <= LoadTTL
        <4> SUFFICES ASSUME NEW p \in Players, rankCache'[p] # NoRank,
                            ~ (\E i \in DOMAIN ranking : IsRow(p, i)')
                     PROVE  rankTtl'[p] + Interval <= LoadTTL
          BY DEF Ranked
        <4>1. p # q
          BY <1>1, <1>4, <2>2 DEF IsRow
        <4>2. p \in Ranked /\ ~ (\E i \in DOMAIN ranking : IsRow(p, i))
          BY <1>1, <2>2, <4>1 DEF Ranked, IsRow
        <4> QED  BY <2>2, <4>1, <4>2 DEF RankInv, OldKeys
      <3> QED  BY <1>1, <3>1, <3>2 DEF OldKeys
    <2>4. ASSUME FreshKeys  PROVE FreshKeys'
      <3> SUFFICES ASSUME clean, NEW i \in TopRows, ranking[i].player \notin rows \/ ranking[i].player = q
                   PROVE  LET p == ranking[i].player IN
                            /\ rankCache'[p] = [rank |-> i, version |-> ranking[i].version]
                            /\ rankTtl'[p] + clock + 0 >= LoadTTL
        BY <1>1 DEF FreshKeys, Loaded
      <3>1. CASE ranking[i].player = q
        <4>1. i = r  BY <1>2, <1>5, <3>1
        <4> QED  BY <1>2, <2>2, <3>1, <4>1
      <3>2. CASE ranking[i].player # q
        <4>1. /\ rankCache[ranking[i].player] = [rank |-> i, version |-> ranking[i].version]
              /\ rankTtl[ranking[i].player] + clock + 0 >= LoadTTL
          BY <1>1, <2>4, <3>2 DEF FreshKeys, Loaded
        <4> QED  BY <1>2, <2>2, <3>2, <4>1
      <3> QED  BY <3>1, <3>2
    <2>5. ASSUME Interval > 0, SharedRanks  PROVE SharedRanks'
      <3> SUFFICES ASSUME clean, NEW i \in TopRows, NEW p \in Players, p # ranking[i].player,
                          ranking[i].player \notin rows \/ ranking[i].player = q,
                          rankCache'[p].rank = i
                   PROVE  rankTtl'[p] < rankTtl'[ranking[i].player]
        BY <1>1 DEF SharedRanks, Loaded
      <3>1. p # q
        <4>1. rankCache'[q].rank = r  BY <2>2
        <4> QED  BY <1>4, <4>1
      <3>2. rankCache[p].rank = i /\ rankTtl'[p] = rankTtl[p]
        BY <2>2, <3>1
      <3>3. CASE ranking[i].player = q
        <4>1. p \in Ranked
          BY <1>2, <3>2 DEF Ranked, NoRank
        <4>2. ~ (\E j \in DOMAIN ranking : IsRow(p, j))
          BY <3>2 DEF IsRow
        <4>3. rankTtl[p] + Interval <= LoadTTL
          BY <4>1, <4>2 DEF RankInv, OldKeys
        <4> QED  BY <1>2, <2>2, <2>5, <3>2, <3>3, <4>3
      <3>4. CASE ranking[i].player # q
        <4>1. rankTtl[p] < rankTtl[ranking[i].player]
          BY <1>1, <2>5, <3>2, <3>4 DEF SharedRanks, Loaded
        <4> QED  BY <1>2, <2>2, <3>2, <3>4, <4>1
      <3> QED  BY <3>3, <3>4
    <2> QED  BY <1>6, <2>3, <2>4, <2>5
  <1> QED  BY <1>7, <1>8

\* No step disturbs the invariant.
LEMMA RankStep ==
  ASSUME RankInv, [Next]_vars
  PROVE  /\ RankInv'
         /\ KeysOutliveSleep /\ FreshKeys => FreshKeys'
         /\ Interval > 0 /\ SharedRanks => SharedRanks'
  <1>1. TypeInv'
    BY TypeStep DEF RankInv
  <1> DEFINE AllKept == /\ RankTypes' /\ OldKeys'
                        /\ KeysOutliveSleep /\ FreshKeys => FreshKeys'
                        /\ Interval > 0 /\ SharedRanks => SharedRanks'
  <1> SUFFICES AllKept
    BY <1>1 DEF RankInv
  <1>2. CASE SelectRanking  BY <1>2, RankSelect
  <1>3. CASE RanksLoaded  BY <1>3, RankSleep
  <1>4. CASE Wake  BY <1>4, RankWake
  <1>5. CASE TruncateRanking  BY <1>5, RankTruncate
  <1>6. CASE InsertRanking  BY <1>6, RankInsert
  <1>7. CASE Crash  BY <1>7, RankCrash
  <1>8. CASE Tick  BY <1>8, RankTick
  <1>9. ASSUME NEW q \in Players, ExpireRank(q)  PROVE AllKept
    BY <1>9, RankExpire
  <1>10. ASSUME NEW q \in Players, CacheRank(q)  PROVE AllKept
    BY <1>10, RankCacheRank
  <1>11. RankAside => AllKept
    BY AsideKeeps
  <1>12. \/ SelectRanking \/ RanksLoaded \/ Wake \/ TruncateRanking \/ InsertRanking
         \/ Crash \/ Tick
         \/ \E q \in Players : ExpireRank(q) \/ CacheRank(q)
         \/ RankAside
    <2>1. CASE MainStep
      BY <2>1, AsideSteps DEF MainStep
    <2>2. CASE ~ MainStep
      BY <2>2, AsideSteps DEF Next
    <2> QED  BY <2>1, <2>2
  <1> QED
    BY <1>2, <1>3, <1>4, <1>5, <1>6, <1>7, <1>8, <1>9, <1>10, <1>11, <1>12

\* During a sleep that follows a cycle in which nothing failed, each of the TOP
\* players is answered the rank and score of table Ranking, if keys outlive the
\* sleep and the load before it (DatabaseWorker.cpp:170-206, Hub.cpp:113-131).
THEOREM TopServed == KeysOutliveSleep => (Spec => []TopRanksServed)
  <1> SUFFICES ASSUME KeysOutliveSleep  PROVE Spec => []TopRanksServed
    OBVIOUS
  <1>1. RankInv /\ FreshKeys /\ [Next]_vars => (RankInv /\ FreshKeys)'
    BY RankStep
  <1>2. RankInv /\ FreshKeys => TopRanksServed
    BY DEF RankInv, RankTypes, FreshKeys, Loaded, TopRanksServed, RankAnswer
  <1> QED  BY <1>1, <1>2, RankInit, PTL DEF Spec

\* During such a sleep, a key that says a rank another player has taken runs out
\* before the key of that player, if a sleep takes time at all
\* (RankingDatabaseQuery.sql:15, DatabaseWorker.cpp:198).
THEOREM SharedRankExpires == Interval > 0 => (Spec => []SharedRankExpiresFirst)
  <1> SUFFICES ASSUME Interval > 0  PROVE Spec => []SharedRankExpiresFirst
    OBVIOUS
  <1>1. RankInv /\ SharedRanks /\ [Next]_vars => (RankInv /\ SharedRanks)'
    BY RankStep
  <1>2. RankInv /\ SharedRanks => SharedRankExpiresFirst
    BY DEF RankInv, RankTypes, SharedRanks, Loaded, SharedRankExpiresFirst
  <1> QED  BY <1>1, <1>2, RankInit, PTL DEF Spec
=============================================================================
