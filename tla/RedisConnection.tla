-------------------------- MODULE RedisConnection --------------------------
(***************************************************************************)
(* DatabaseWorker::mRedis: the one hiredis context that every session      *)
(* thread (requests) and the main thread (Hub::Work) call redisCommand on, *)
(* without a lock.  redisCommand appends to the context's output buffer,   *)
(* then redisGetReply returns an unconsumed reply if there is one, or else *)
(* flushes the buffer and reads until it has a reply (the comments of      *)
(* hiredis.h:333-354).  Nothing in it tells one thread's reply from        *)
(* another's: replies come in the order of the commands.                   *)
(*                                                                         *)
(* Each of those steps is atomic here.  hiredis and Redis are external.    *)
(* The value under a key is the JSON that names the key's own player.  Of  *)
(* what else it says only the age matters here: the saves of a player are  *)
(* numbered.                                                               *)
(***************************************************************************)
EXTENDS Integers, SequencesExt

CONSTANTS
  Sessions,   \* the session threads
  Main,       \* the main thread
  Players,
  MaxSaves,   \* bound: saves of each player
  Faults,     \* what may go wrong: subset of {"redis"}
  None        \* no value

Callers == Sessions \cup {Main}
Keys    == [table : {"Score", "Ranking"}, player : Players]

ASSUME ConnectionAssumption ==
  /\ IsFiniteSet(Sessions) /\ Main \notin Sessions /\ IsFiniteSet(Players)
  /\ None \notin Players /\ None \notin Keys
  /\ MaxSaves \in [Players -> Nat]
  /\ Faults \subseteq {"redis"}

VARIABLES
  outbuf,   \* commands appended to the context and not yet written
  sent,     \* commands written that Redis has not executed
  socket,   \* replies on their way back
  reader,   \* replies received that no call has consumed
  err,      \* the context is in error
  keys,     \* keys[k]: the save under key k, 0 if Redis does not hold it
  saves,    \* history: how many saves of each player were asked for
  at,       \* at[t]: where t stands in redisCommand
  call,     \* call[t]: the command it has given redisCommand
  got,      \* got[t]: the reply it has been given
  task,     \* what the main thread is doing in Hub::Work
  todo,     \* keys that task still has to read or write
  rows,     \* rows[p]: the save in row p of table Score, 0 if there is none
  alone,    \* history: callers nobody has shared the context with
  crashed   \* an exception or a failed assertion has ended the process

context == <<outbuf, sent, socket, reader, err>>
calls   == <<at, call, got, alone>>
store   == <<keys, saves>>
worker  == <<task, todo, rows>>
vars    == <<context, store, calls, worker, crashed>>

\* save: the one a SET carries.
Command(op, key, save) == [op |-> op, key |-> key, save |-> save]

\* by: the thread whose command it answers, which the wire does not carry;
\* key and save: the key whose JSON a string is, and which; list: the keys of an array.
Reply(by, kind, key, save, list) ==
  [by |-> by, kind |-> kind, key |-> key, save |-> save, list |-> list]
Plain(by, kind) == Reply(by, kind, None, 0, {})

NoCommand == Command("none", None, 0)
NoReply   == Plain(None, "none")

ScoreKey(p)   == [table |-> "Score", player |-> p]
RankingKey(p) == [table |-> "Ranking", player |-> p]

\* Hub::Initialize has returned: the tables are loaded into a Redis that may
\* still have held other keys.
Init ==
  /\ outbuf = <<>> /\ sent = <<>> /\ socket = <<>> /\ reader = <<>>
  /\ err     = FALSE
  /\ at      = [t \in Callers |-> "idle"]
  /\ call    = [t \in Callers |-> NoCommand]
  /\ got     = [t \in Callers |-> NoReply]
  /\ alone   = {}
  /\ task    = "sleep"
  /\ todo    = {}
  /\ rows    \in [Players -> {0, 1}]
  /\ keys    \in [Keys -> {0, 1}]
  /\ \A p \in Players : rows[p] <= keys[ScoreKey(p)]
  /\ saves   = [p \in Players |-> keys[ScoreKey(p)]]
  /\ crashed = FALSE

-----------------------------------------------------------------------------
(* redisCommand *)

Inside(t) == at[t] # "idle"

\* redisAppendCommand.
Call(t, command) ==
  /\ ~ crashed /\ ~ Inside(t)
  /\ at' = [at EXCEPT ![t] = "reader"]
  /\ call' = [call EXCEPT ![t] = command]
  /\ outbuf' = IF err THEN outbuf ELSE Append(outbuf, [by |-> t, command |-> command])
  /\ alone' = IF \E u \in Callers : Inside(u) THEN {} ELSE {t}
  /\ UNCHANGED <<sent, socket, reader, err, keys, got, crashed>>

Goto(t, from, to) ==
  /\ ~ crashed /\ at[t] = from
  /\ at' = [at EXCEPT ![t] = to]

\* redisGetReply: an unconsumed reply, whoever asked for it ...
Consume(t) ==
  /\ \E from \in {"reader", "take"} : Goto(t, from, "handle")
  /\ reader # <<>>
  /\ got' = [got EXCEPT ![t] = Head(reader)]
  /\ reader' = Tail(reader)
  /\ UNCHANGED <<outbuf, sent, socket, err, store, call, alone, worker, crashed>>

\* ... or else everything appended so far is written ...
Flush(t) ==
  /\ Goto(t, "reader", "read")
  /\ reader = <<>> /\ ~ err
  /\ sent' = sent \o outbuf
  /\ outbuf' = <<>>
  /\ UNCHANGED <<socket, reader, err, store, call, got, alone, worker, crashed>>

\* ... and a read blocks until something arrives, ...
Read(t) ==
  /\ Goto(t, "read", "take")
  /\ socket # <<>> /\ ~ err
  /\ reader' = reader \o socket
  /\ socket' = <<>>
  /\ UNCHANGED <<outbuf, sent, err, store, call, got, alone, worker, crashed>>

\* ... again if another thread has consumed it first.
ReadAgain(t) ==
  /\ Goto(t, "take", "read")
  /\ reader = <<>>
  /\ UNCHANGED <<context, store, call, got, alone, worker, crashed>>

\* A context in error gives NULL.
CommandFails(t) ==
  /\ err
  /\ Goto(t, "read", "handle") \/ (Goto(t, "reader", "handle") /\ reader = <<>>)
  /\ got' = [got EXCEPT ![t] = Plain(t, "null")]
  /\ UNCHANGED <<context, store, call, alone, worker, crashed>>

CallStep(t) ==
  Consume(t) \/ Flush(t) \/ Read(t) \/ ReadAgain(t) \/ CommandFails(t)

\* The code that called redisCommand is done with the reply.
Return(t) ==
  /\ Goto(t, "handle", "idle")
  /\ call' = [call EXCEPT ![t] = NoCommand]
  /\ got' = [got EXCEPT ![t] = NoReply]
  /\ UNCHANGED <<context, store, alone, crashed>>

Holds(t, table) == got[t].kind = "string" /\ got[t].key \in [table : {table}, player : Players]

-----------------------------------------------------------------------------
(* Session threads: Hub::Response_PlayerRanking and Response_SaveScore. *)

AskRank(s, p) ==
  /\ Call(s, Command("GET", RankingKey(p), 0))
  /\ UNCHANGED <<saves, worker>>

\* The next save of a player.
NextSave(p) ==
  /\ saves[p] < MaxSaves[p]
  /\ saves' = [saves EXCEPT ![p] = @ + 1]

\* Faulty variant: the command is appended and its reply never read.
SaveScoreUnread(s, p) ==
  /\ ~ crashed /\ ~ Inside(s) /\ ~ err
  /\ NextSave(p)
  /\ outbuf' = Append(outbuf,
       [by |-> s, command |-> Command("SET", ScoreKey(p), saves'[p])])
  /\ UNCHANGED <<sent, socket, reader, err, keys, calls, worker, crashed>>

SaveScore(s, p) ==
  /\ NextSave(p)
  /\ Call(s, Command("SET", ScoreKey(p), saves'[p]))
  /\ UNCHANGED worker

\* GetCachedData: whose rank and score the reply carries; anything but a
\* string is "not in the ranking".
Told(s) == IF Holds(s, "Ranking") THEN got[s].key.player ELSE None

\* Faulty variant: a command that failed is tried again.
RespondRetrying(s) ==
  /\ call[s].op = "SET" \/ ~ Holds(s, "Score")
  /\ UNCHANGED worker
  /\ IF got[s].kind # "null" THEN Return(s)
     ELSE /\ Goto(s, "handle", "reader")
          /\ UNCHANGED <<context, store, call, got, alone, crashed>>

\* The reply to the client is sent.  SetCachedData looks at no reply: the
\* player is told TRUE.
Respond(s) ==
  /\ call[s].op = "SET" \/ ~ Holds(s, "Score")
  /\ Return(s)
  /\ UNCHANGED worker

\* Data_Ranking of a JSON without a rank: nlohmann's assertion on a missing key.
AnswerAsserts(s) ==
  /\ call[s].op = "GET" /\ Holds(s, "Score")
  /\ at[s] = "handle" /\ ~ crashed
  /\ crashed' = TRUE
  /\ UNCHANGED <<context, store, calls, worker>>

SessionStep(s) == Respond(s) \/ AnswerAsserts(s)

-----------------------------------------------------------------------------
(* The main thread: ScoreDataSave, RankingUpdate, RankingDataLoad. *)

Scan ==
  /\ task = "sleep"
  /\ Call(Main, Command("SCAN", None, 0))
  /\ task' = "scan"
  /\ UNCHANGED <<saves, todo, rows>>

\* Faulty variant: what came back is read as an array of keys.
ScanReplyUnchecked ==
  /\ task = "scan"
  /\ Return(Main)
  /\ task' = "save"
  /\ todo' = IF got[Main].kind = "array" THEN got[Main].list ELSE {got[Main].key}
  /\ UNCHANGED rows

\* A reply that is no array ends ScoreDataSave.  (DatabaseWorker.tla says how
\* SCAN splits the keys into batches.)
ScanReply ==
  /\ task = "scan"
  /\ Return(Main)
  /\ IF got[Main].kind = "array"
     THEN task' = "save" /\ todo' = got[Main].list
     ELSE task' = "update" /\ todo' = {}
  /\ UNCHANGED rows

GetScore(key) ==
  /\ task = "save" /\ key \in todo
  /\ Call(Main, Command("GET", key, 0))
  /\ todo' = todo \ {key}
  /\ UNCHANGED <<saves, task, rows>>

\* Faulty variant: the row of the player whose key was read.
MergeByKey ==
  /\ task = "save" /\ Holds(Main, "Score")
  /\ Return(Main)
  /\ rows' = [rows EXCEPT ![call[Main].key.player] = got[Main].save]
  /\ UNCHANGED <<task, todo>>

\* MERGE under the player_id of the JSON.
MergeScore ==
  /\ task = "save" /\ Holds(Main, "Score")
  /\ Return(Main)
  /\ rows' = [rows EXCEPT ![got[Main].key.player] = got[Main].save]
  /\ UNCHANGED <<task, todo>>

SkipScore ==
  /\ task = "save" /\ got[Main].kind # "string"
  /\ Return(Main)
  /\ UNCHANGED worker

\* A JSON without last_update: null is not a number, and nothing catches it.
MergeThrows ==
  /\ task = "save" /\ Holds(Main, "Ranking")
  /\ at[Main] = "handle" /\ ~ crashed
  /\ crashed' = TRUE
  /\ UNCHANGED <<context, store, calls, worker>>

\* RankingUpdate and the SELECT of RankingDataLoad.
UpdateRanking ==
  /\ ~ crashed /\ ~ Inside(Main)
  /\ task = "update" \/ (task = "save" /\ todo = {})
  /\ task' = "rank"
  /\ todo' = {RankingKey(p) : p \in {q \in Players : rows[q] # 0}}
  /\ UNCHANGED <<context, store, calls, rows, crashed>>

SetRank(key) ==
  /\ task = "rank" /\ key \in todo
  /\ Call(Main, Command("SET", key, 1))
  /\ todo' = todo \ {key}
  /\ UNCHANGED <<saves, task, rows>>

RankReply ==
  /\ task = "rank"
  /\ Return(Main)
  /\ UNCHANGED worker

Sleep ==
  /\ ~ crashed /\ ~ Inside(Main)
  /\ task = "rank" /\ todo = {}
  /\ task' = "sleep"
  /\ UNCHANGED <<context, store, calls, todo, rows, crashed>>

WorkStep ==
  \/ Scan \/ ScanReply \/ MergeScore \/ SkipScore \/ MergeThrows
  \/ UpdateRanking \/ RankReply \/ Sleep
  \/ \E key \in todo : GetScore(key) \/ SetRank(key)

-----------------------------------------------------------------------------
(* External: Redis executes commands in order; the connection may be lost,  *)
(* and hiredis then stays in error.  (DatabaseWorker.tla has the lifetimes  *)
(* of keys.)                                                                *)

ReplyTo(item) ==
  LET key == item.command.key
  IN  CASE item.command.op = "SET"  -> Plain(item.by, "status")
        [] item.command.op = "SCAN" ->
             Reply(item.by, "array", None, 0,
                   {k \in Keys : k.table = "Score" /\ keys[k] # 0})
        [] item.command.op = "GET"  ->
             IF keys[key] # 0 THEN Reply(item.by, "string", key, keys[key], {})
             ELSE Plain(item.by, "nil")

Execute ==
  /\ ~ crashed /\ ~ err /\ sent # <<>>
  /\ socket' = Append(socket, ReplyTo(Head(sent)))
  /\ sent' = Tail(sent)
  /\ keys' = IF Head(sent).command.op = "SET"
             THEN [keys EXCEPT ![Head(sent).command.key] = Head(sent).command.save]
             ELSE keys
  /\ UNCHANGED <<outbuf, reader, err, saves, calls, worker, crashed>>

ConnectionLost ==
  /\ "redis" \in Faults /\ ~ crashed /\ ~ err
  /\ err' = TRUE
  /\ outbuf' = <<>> /\ sent' = <<>> /\ socket' = <<>>   \* never used again
  /\ UNCHANGED <<reader, store, calls, worker, crashed>>

-----------------------------------------------------------------------------
Next ==
  \/ \E t \in Callers : CallStep(t)
  \/ \E s \in Sessions : SessionStep(s)
  \/ \E s \in Sessions, p \in Players : AskRank(s, p) \/ SaveScore(s, p)
  \/ WorkStep
  \/ Execute
  \/ ConnectionLost

Spec == Init /\ [][Next]_vars

\* Threads that can run do run, and a Redis that is reachable answers: the
\* code sets no timeout, so nothing else would end a call.
FairSpec ==
  /\ Spec
  /\ \A t \in Callers : WF_vars(CallStep(t))
  /\ \A s \in Sessions : WF_vars(SessionStep(s))
  /\ WF_vars(WorkStep)
  /\ WF_vars(Execute)

-----------------------------------------------------------------------------
(* Type invariant. *)
ReplyType ==
  [by : Callers \cup {None}, kind : {"none", "null", "status", "nil", "string", "array"},
   key : Keys \cup {None}, save : Nat, list : SUBSET Keys]
CommandType ==
  [op : {"none", "GET", "SET", "SCAN"}, key : Keys \cup {None}, save : Nat]
ItemType == [by : Callers, command : CommandType]

TypeOK ==
  /\ outbuf \in Seq(ItemType) /\ sent \in Seq(ItemType)
  /\ socket \in Seq(ReplyType) /\ reader \in Seq(ReplyType)
  /\ err \in BOOLEAN
  /\ keys \in [Keys -> Nat] /\ saves \in [Players -> Nat]
  /\ at \in [Callers -> {"idle", "reader", "read", "take", "handle"}]
  /\ call \in [Callers -> CommandType]
  /\ got \in [Callers -> ReplyType]
  /\ task \in {"sleep", "scan", "save", "update", "rank"}
  /\ todo \subseteq Keys
  /\ rows \in [Players -> Nat]
  /\ alone \subseteq Callers
  /\ crashed \in BOOLEAN

-----------------------------------------------------------------------------
(* Safety. *)

Waiting == {t \in Callers : at[t] \in {"reader", "read", "take"}}

(* However the calls of the threads interleave, there is one reply to come  *)
(* for each thread that still waits for one: no reply stays behind to be    *)
(* taken for the answer to a later command, so mixed-up replies do not      *)
(* outlive the calls that overlapped.                                       *)
OneReplyPerCaller ==
  ~ err =>
    Len(outbuf) + Len(sent) + Len(socket) + Len(reader) = Cardinality(Waiting)

(* A call during which no other thread used the context gets the reply to   *)
(* its own command: what GetCachedData and ScoreDataSave, lines 212-219 and *)
(* 251-284, suppose of every call.  (On a context in error a call may find  *)
(* the reply that another thread's failed call has left unconsumed.)        *)
AloneGetsOwnReply ==
  ~ err => \A t \in alone : at[t] = "handle" => got[t].by = t

(* A row of Score never goes back to an older save of its player, although  *)
(* GET may be given the reply to another command, of another thread or of   *)
(* another player: only ScoreDataSave asks for scores, replies come in the  *)
(* order of the commands, and MERGE goes by the player_id inside the JSON   *)
(* and not by the key that was asked for (lines 251-284, 293).              *)
RowsNeverGoBack ==
  [][\A p \in Players : rows'[p] >= rows[p]]_vars

(* A player who asks for the ranking is told that player's own rank         *)
(* (Hub.cpp:116-135), because redisCommand returns "the reply" to its       *)
(* command (hiredis.h:350-353).                                             *)
RankAnswersOwnPlayer ==
  \A s \in Sessions :
    at[s] = "handle" /\ call[s].op = "GET" => Told(s) \in {call[s].key.player, None}

(* Liveness: a thread is left waiting for Redis only on a working context   *)
(* that it shares; alone, or when the connection is lost, its call returns. *)
CallsReturn ==
  \A t \in Callers :
    Inside(t) ~> (~ Inside(t) \/ crashed \/ (~ err /\ t \notin alone))
=============================================================================
