------------------------- MODULE RedisConnectionProofs -------------------------
(***************************************************************************)
(* What the shared hiredis context gives any number of threads, whatever   *)
(* the order of their steps and wherever the connection is lost:           *)
(*   - the types of its state (ConnectionTypeCorrect);                     *)
(*   - as many replies to come as threads wait (ReplyForEachCaller), so    *)
(*     that no reply stays behind for a later command;                     *)
(*   - a thread that nobody disturbed has its own reply (AloneIsServed);   *)
(*   - a row of Score never goes back to an older save (RowsOnlyAdvance).  *)
(***************************************************************************)
EXTENDS RedisConnection, FiniteSetTheorems, SequenceTheorems, TLAPS

-----------------------------------------------------------------------------
(* Types.  Redis is only ever given commands it can answer, and a SET or a  *)
(* GET names its key.                                                       *)

AskedCommand ==
  {c \in CommandType : c.op # "none" /\ (c.op \in {"SET", "GET"} => c.key \in Keys)}
AskedItem == [by : Callers, command : AskedCommand]

TypeInv == TypeOK /\ outbuf \in Seq(AskedItem) /\ sent \in Seq(AskedItem)

\* The keys of a player.
LEMMA PlayerKeys ==
  ASSUME NEW p \in Players
  PROVE  ScoreKey(p) \in Keys /\ RankingKey(p) \in Keys
  BY DEF ScoreKey, RankingKey, Keys

\* The commands of the program are commands Redis can answer.
LEMMA CommandsAsked ==
  /\ Command("SCAN", None, 0) \in AskedCommand
  /\ \A key \in Keys, n \in Nat :
       {Command("GET", key, 0), Command("SET", key, n)} \subseteq AskedCommand
  <1>1. ASSUME NEW op \in {"GET", "SET", "SCAN"}, NEW key \in Keys \cup {None}, NEW n \in Nat,
               op \in {"SET", "GET"} => key \in Keys
        PROVE  Command(op, key, n) \in AskedCommand
    <2>1. Command(op, key, n) \in CommandType  BY DEF Command, CommandType
    <2>2. Command(op, key, n).op = op /\ Command(op, key, n).key = key  BY DEF Command
    <2> QED  BY <2>1, <2>2, <1>1 DEF AskedCommand
  <1> QED  BY <1>1

\* What Redis answers is a reply; it is a string only to a GET, and then the save
\* under that key.
LEMMA RepliesTyped ==
  ASSUME TypeInv, NEW item \in AskedItem
  PROVE  /\ ReplyTo(item) \in ReplyType /\ ReplyTo(item).by = item.by
         /\ ReplyTo(item).kind = "string" =>
              ReplyTo(item).save = keys[ReplyTo(item).key]
  <1> DEFINE list == {k \in Keys : k.table = "Score" /\ keys[k] # 0}
             key  == item.command.key
  <1>2. item.by \in Callers /\ item.command.op \in {"GET", "SET", "SCAN"}
        /\ key \in Keys \cup {None}
    BY DEF AskedItem, AskedCommand, CommandType
  <1>3. CASE item.command.op = "SET"
    <2>1. ReplyTo(item) = Plain(item.by, "status")  BY <1>3 DEF ReplyTo
    <2> QED  BY <2>1, <1>2 DEF Plain, Reply, ReplyType
  <1>4. CASE item.command.op = "SCAN"
    <2>1. ReplyTo(item) = Reply(item.by, "array", None, 0, list)  BY <1>4 DEF ReplyTo
    <2> QED  BY <2>1, <1>2 DEF Reply, ReplyType
  <1>5. CASE item.command.op = "GET"
    <2>1. CASE keys[key] # 0 /\ key \in Keys
      <3>1. ReplyTo(item) = Reply(item.by, "string", key, keys[key], {})
        BY <1>5, <2>1 DEF ReplyTo
      <3>2. keys[key] \in Nat  BY <2>1 DEF TypeInv, TypeOK
      <3> QED  BY <3>1, <3>2, <1>2 DEF Reply, ReplyType
    <2>2. CASE keys[key] = 0
      <3>1. ReplyTo(item) = Plain(item.by, "nil")  BY <1>5, <2>2 DEF ReplyTo
      <3> QED  BY <3>1, <1>2 DEF Plain, Reply, ReplyType
    <2>3. key \in Keys  BY <1>5 DEF AskedItem, AskedCommand
    <2> QED  BY <2>1, <2>2, <2>3
  <1> QED  BY <1>2, <1>3, <1>4, <1>5

\* A function to {0, 1} is one to the naturals.
LEMMA Widened ==
  ASSUME NEW S, NEW f \in [S -> {0, 1}]  PROVE f \in [S -> Nat]
  OBVIOUS

\* Hub::Initialize leaves a state of the right types.
LEMMA TypeInit == Init => TypeInv
  <1> USE ConnectionAssumption
  <1> SUFFICES ASSUME Init  PROVE TypeInv  OBVIOUS
  <1>1. NoReply \in ReplyType  BY DEF NoReply, Plain, Reply, ReplyType
  <1>2. NoCommand \in CommandType  BY DEF NoCommand, Command, CommandType
  <1>3. got \in [Callers -> ReplyType] /\ call \in [Callers -> CommandType]
    BY <1>1, <1>2 DEF Init
  <1>4. /\ outbuf \in Seq(AskedItem) /\ sent \in Seq(AskedItem)
        /\ outbuf \in Seq(ItemType) /\ sent \in Seq(ItemType)
        /\ socket \in Seq(ReplyType) /\ reader \in Seq(ReplyType)
    BY DEF Init
  <1>5. at \in [Callers -> {"idle", "reader", "read", "take", "handle"}]  BY DEF Init
  <1>6. keys \in [Keys -> Nat] /\ rows \in [Players -> Nat]
    <2>1. keys \in [Keys -> {0, 1}] /\ rows \in [Players -> {0, 1}]  BY DEF Init
    <2>2. keys \in [Keys -> Nat]  BY <2>1, Widened
    <2>3. rows \in [Players -> Nat]  BY <2>1, Widened
    <2> QED  BY <2>2, <2>3
  <1>7. saves \in [Players -> Nat]
    BY <1>6, PlayerKeys DEF Init
  <1> QED  BY <1>3, <1>4, <1>5, <1>6, <1>7 DEF Init, TypeInv, TypeOK

\* redisAppendCommand.
LEMMA CallTyped ==
  ASSUME TypeInv, NEW t \in Callers, NEW command \in AskedCommand, Call(t, command),
         task' \in {"sleep", "scan", "save", "update", "rank"}, todo' \subseteq Keys,
         rows' = rows, saves' \in [Players -> Nat]
  PROVE  TypeInv'
  <1> DEFINE item == [by |-> t, command |-> command]
  <1>1. command \in CommandType  BY DEF AskedCommand
  <1>2. item \in AskedItem /\ item \in ItemType
    <2>1. item \in AskedItem  BY DEF AskedItem
    <2>2. item \in ItemType  BY <1>1 DEF ItemType
    <2> QED  BY <2>1, <2>2
  <1>3. outbuf' \in Seq(AskedItem) /\ outbuf' \in Seq(ItemType)
    <2> HIDE DEF item
    <2>1. outbuf' = outbuf \/ outbuf' = Append(outbuf, item)  BY DEF Call, item
    <2>2. Append(outbuf, item) \in Seq(AskedItem)  BY <1>2 DEF TypeInv
    <2>3. Append(outbuf, item) \in Seq(ItemType)  BY <1>2 DEF TypeInv, TypeOK
    <2> QED  BY <2>1, <2>2, <2>3 DEF TypeInv, TypeOK
  <1>4. at' \in [Callers -> {"idle", "reader", "read", "take", "handle"}]
        /\ call' \in [Callers -> CommandType] /\ alone' \subseteq Callers
    BY <1>1 DEF TypeInv, TypeOK, Call
  <1> QED  BY <1>3, <1>4 DEF TypeInv, TypeOK, Call

\* redisGetReply.
LEMMA CallStepTyped ==
  ASSUME TypeInv, NEW t \in Callers, CallStep(t)
  PROVE  TypeInv'
  <1>1. CASE Consume(t)
    <2>1. Head(reader) \in ReplyType /\ Tail(reader) \in Seq(ReplyType)
      BY <1>1 DEF TypeInv, TypeOK, Consume
    <2> QED  BY <1>1, <2>1 DEF TypeInv, TypeOK, Consume, Goto, worker, store
  <1>2. CASE Flush(t)
    <2>1. /\ sent \o outbuf \in Seq(AskedItem) /\ sent \o outbuf \in Seq(ItemType)
          /\ <<>> \in Seq(AskedItem) /\ <<>> \in Seq(ItemType)
      BY DEF TypeInv, TypeOK
    <2> QED  BY <1>2, <2>1 DEF TypeInv, TypeOK, Flush, Goto, worker, store
  <1>3. CASE Read(t)
    <2>1. reader \o socket \in Seq(ReplyType) /\ <<>> \in Seq(ReplyType)
      BY DEF TypeInv, TypeOK
    <2> QED  BY <1>3, <2>1 DEF TypeInv, TypeOK, Read, Goto, worker, store
  <1>4. CASE ReadAgain(t)
    BY <1>4 DEF TypeInv, TypeOK, ReadAgain, Goto, worker, store, context
  <1>5. CASE CommandFails(t)
    <2>1. Plain(t, "null") \in ReplyType  BY DEF Plain, Reply, ReplyType
    <2> QED  BY <1>5, <2>1 DEF TypeInv, TypeOK, CommandFails, Goto, worker, store, context
  <1> QED  BY <1>1, <1>2, <1>3, <1>4, <1>5 DEF CallStep

\* The caller is done with its reply.
LEMMA ReturnTyped ==
  ASSUME TypeInv, NEW t \in Callers, Return(t),
         task' \in {"sleep", "scan", "save", "update", "rank"}, todo' \subseteq Keys,
         rows' \in [Players -> Nat]
  PROVE  TypeInv'
  <1>1. NoReply \in ReplyType  BY DEF NoReply, Plain, Reply, ReplyType
  <1>2. NoCommand \in CommandType  BY DEF NoCommand, Command, CommandType
  <1>3. got' \in [Callers -> ReplyType] /\ call' \in [Callers -> CommandType]
    BY <1>1, <1>2 DEF TypeInv, TypeOK, Return
  <1> QED  BY <1>3 DEF TypeInv, TypeOK, Return, Goto, context, store

\* What the session threads do with the context.
LEMMA SessionTyped ==
  ASSUME TypeInv, NEW s \in Sessions,
         SessionStep(s) \/ \E p \in Players : AskRank(s, p) \/ SaveScore(s, p)
  PROVE  TypeInv'
  <1>0. s \in Callers  BY DEF Callers
  <1>1. ASSUME NEW p \in Players, AskRank(s, p)
        PROVE  TypeInv'
    <2>1. Command("GET", RankingKey(p), 0) \in AskedCommand  BY PlayerKeys, CommandsAsked
    <2>2. /\ task' \in {"sleep", "scan", "save", "update", "rank"} /\ todo' \subseteq Keys
          /\ rows' = rows /\ saves' \in [Players -> Nat]
      BY <1>1 DEF AskRank, worker, TypeInv, TypeOK
    <2> QED  BY <1>0, <1>1, <2>1, <2>2, CallTyped DEF AskRank
  <1>4. ASSUME NEW p \in Players, SaveScore(s, p)
        PROVE  TypeInv'
    <2>1. saves' \in [Players -> Nat] /\ saves'[p] \in Nat
      BY <1>4 DEF SaveScore, NextSave, TypeInv, TypeOK
    <2>2. Command("SET", ScoreKey(p), saves'[p]) \in AskedCommand
      BY <2>1, PlayerKeys, CommandsAsked
    <2>3. /\ task' \in {"sleep", "scan", "save", "update", "rank"} /\ todo' \subseteq Keys
          /\ rows' = rows
      BY <1>4 DEF SaveScore, worker, TypeInv, TypeOK
    <2> QED  BY <1>0, <1>4, <2>1, <2>2, <2>3, CallTyped DEF SaveScore
  <1>2. CASE Respond(s)
    BY <1>0, <1>2, ReturnTyped DEF Respond, worker, TypeInv, TypeOK
  <1>3. CASE AnswerAsserts(s)
    BY <1>3 DEF AnswerAsserts, TypeInv, TypeOK, context, store, calls, worker
  <1> QED  BY <1>1, <1>2, <1>3, <1>4 DEF SessionStep

\* One pass of Hub::Work.
LEMMA WorkTyped == ASSUME TypeInv, WorkStep  PROVE TypeInv'
  <1> USE ConnectionAssumption
  <1>0. Main \in Callers  BY DEF Callers
  <1>1. CASE Scan
    <2>1. /\ task' \in {"sleep", "scan", "save", "update", "rank"} /\ todo' \subseteq Keys
          /\ rows' = rows /\ saves' \in [Players -> Nat]
      BY <1>1 DEF Scan, TypeInv, TypeOK
    <2> QED  BY <1>0, <1>1, <2>1, CommandsAsked, CallTyped DEF Scan
  <1>2. CASE ScanReply
    <2>1. got[Main] \in ReplyType  BY <1>0 DEF TypeInv, TypeOK
    <2>2. got[Main].list \subseteq Keys  BY <2>1 DEF ReplyType
    <2>3. /\ task' \in {"sleep", "scan", "save", "update", "rank"} /\ todo' \subseteq Keys
          /\ rows' \in [Players -> Nat]
      BY <1>2, <2>2 DEF ScanReply, TypeInv, TypeOK
    <2> QED  BY <1>0, <1>2, <2>3, ReturnTyped DEF ScanReply
  <1>3. CASE MergeScore
    <2>1. got[Main] \in ReplyType  BY <1>0 DEF TypeInv, TypeOK
    <2>2. got[Main].save \in Nat  BY <2>1 DEF ReplyType
    <2>3. /\ task' \in {"sleep", "scan", "save", "update", "rank"} /\ todo' \subseteq Keys
          /\ rows' \in [Players -> Nat]
      BY <1>3, <2>2 DEF MergeScore, TypeInv, TypeOK
    <2> QED  BY <1>0, <1>3, <2>3, ReturnTyped DEF MergeScore
  <1>4. CASE SkipScore \/ RankReply
    BY <1>0, <1>4, ReturnTyped DEF SkipScore, RankReply, worker, TypeInv, TypeOK
  <1>5. CASE MergeThrows
    BY <1>5 DEF MergeThrows, TypeInv, TypeOK, context, store, calls, worker
  <1>6. CASE UpdateRanking
    <2>1. todo' \subseteq Keys  BY <1>6, PlayerKeys DEF UpdateRanking
    <2> QED  BY <1>6, <2>1 DEF UpdateRanking, TypeInv, TypeOK, context, store, calls
  <1>7. CASE Sleep
    BY <1>7 DEF Sleep, TypeInv, TypeOK, context, store, calls
  <1>8. ASSUME NEW key \in todo, GetScore(key) \/ SetRank(key)
        PROVE  TypeInv'
    <2>1. key \in Keys  BY DEF TypeInv, TypeOK
    <2>2. /\ task' \in {"sleep", "scan", "save", "update", "rank"} /\ todo' \subseteq Keys
          /\ rows' = rows /\ saves' \in [Players -> Nat]
      BY <1>8 DEF GetScore, SetRank, TypeInv, TypeOK
    <2>3. Command("GET", key, 0) \in AskedCommand /\ Command("SET", key, 1) \in AskedCommand
      BY <2>1, CommandsAsked
    <2> QED  BY <1>0, <1>8, <2>2, <2>3, CallTyped DEF GetScore, SetRank
  <1> QED  BY <1>1, <1>2, <1>3, <1>4, <1>5, <1>6, <1>7, <1>8 DEF WorkStep

\* Redis and the network.
LEMMA RedisTyped == ASSUME TypeInv, Execute \/ ConnectionLost  PROVE TypeInv'
  <1>1. CASE Execute
    <2>1. /\ Head(sent) \in AskedItem /\ Tail(sent) \in Seq(AskedItem)
          /\ Tail(sent) \in Seq(ItemType)
      BY <1>1 DEF Execute, TypeInv, TypeOK
    <2>2. Append(socket, ReplyTo(Head(sent))) \in Seq(ReplyType)
      BY <2>1, RepliesTyped DEF TypeInv, TypeOK
    <2>3. keys' \in [Keys -> Nat]
      BY <1>1, <2>1 DEF Execute, TypeInv, TypeOK, AskedItem, AskedCommand, CommandType
    <2> QED  BY <1>1, <2>1, <2>2, <2>3 DEF Execute, TypeInv, TypeOK, calls, worker
  <1>2. CASE ConnectionLost
    <2>1. <<>> \in Seq(AskedItem) /\ <<>> \in Seq(ItemType) /\ <<>> \in Seq(ReplyType)
      OBVIOUS
    <2> QED  BY <1>2, <2>1 DEF ConnectionLost, TypeInv, TypeOK, store, calls, worker
  <1> QED  BY <1>1, <1>2

\* Every step keeps the types.
LEMMA TypeStep == TypeInv /\ [Next]_vars => TypeInv'
  <1> SUFFICES ASSUME TypeInv, [Next]_vars  PROVE TypeInv'  OBVIOUS
  <1>1. CASE UNCHANGED vars
    BY <1>1 DEF vars, context, store, calls, worker, TypeInv, TypeOK
  <1>2. CASE Next
    BY <1>2, CallStepTyped, SessionTyped, WorkTyped, RedisTyped DEF Next
  <1> QED  BY <1>1, <1>2

\* They hold throughout.
LEMMA TypeInvHolds == Spec => []TypeInv
  BY TypeInit, TypeStep, PTL DEF Spec

\* The state of the context, of its callers and of Hub::Work keeps its types.
THEOREM ConnectionTypeCorrect == Spec => []TypeOK
  <1>1. TypeInv => TypeOK  BY DEF TypeInv
  <1> QED  BY <1>1, TypeInvHolds, PTL

-----------------------------------------------------------------------------
(* Replies and callers.  Every step that changes the number of threads that *)
(* wait changes the number of commands and replies by as much.              *)

RepliesInv == TypeInv /\ OneReplyPerCaller

\* Only finitely many threads can wait.
LEMMA WaitingFinite == IsFiniteSet(Waiting) /\ Cardinality(Waiting) \in Nat
  <1> USE ConnectionAssumption
  <1>1. IsFiniteSet(Callers)  BY FS_AddElement DEF Callers
  <1>2. Waiting \subseteq Callers  BY DEF Waiting
  <1>3. IsFiniteSet(Waiting)  BY <1>1, <1>2, FS_Subset
  <1> QED  BY <1>3, FS_CardinalityType

\* A thread that starts to wait is one more.
LEMMA WaitingGrows ==
  ASSUME TypeOK, NEW t \in Callers, at[t] = "idle", at' = [at EXCEPT ![t] = "reader"]
  PROVE  Cardinality(Waiting') = Cardinality(Waiting) + 1
  <1>1. t \notin Waiting  BY DEF Waiting
  <1>2. Waiting' = Waiting \cup {t}  BY DEF TypeOK, Waiting
  <1> QED  BY <1>1, <1>2, WaitingFinite, FS_AddElement

\* A thread that has been given its reply is one less.
LEMMA WaitingShrinks ==
  ASSUME TypeOK, NEW t \in Callers, at[t] \in {"reader", "read", "take"},
         at' = [at EXCEPT ![t] = "handle"]
  PROVE  Cardinality(Waiting') = Cardinality(Waiting) - 1
  <1>1. t \in Waiting  BY DEF Waiting
  <1>2. Waiting' = Waiting \ {t}  BY DEF TypeOK, Waiting
  <1>3. Cardinality(Waiting \ {t}) = Cardinality(Waiting) - 1
    BY <1>1, WaitingFinite, FS_RemoveElement
  <1> QED  BY <1>2, <1>3

\* Any other step of a thread leaves those that wait.
LEMMA WaitingStays ==
  ASSUME TypeOK, NEW t \in Callers, NEW to, at' = [at EXCEPT ![t] = to],
         \/ at[t] \in {"reader", "read", "take"} /\ to \in {"reader", "read", "take"}
         \/ at[t] \in {"idle", "handle"} /\ to \in {"idle", "handle"}
  PROVE  Waiting' = Waiting
  BY DEF TypeOK, Waiting

\* Nothing is counted before the first call.
LEMMA RepliesInit == Init => RepliesInv
  <1> SUFFICES ASSUME Init  PROVE RepliesInv  OBVIOUS
  <1>1. Waiting = {}  BY DEF Init, Waiting
  <1>2. Cardinality(Waiting) = 0  BY <1>1, FS_EmptySet
  <1>3. Len(outbuf) + Len(sent) + Len(socket) + Len(reader) = 0  BY DEF Init
  <1> QED  BY <1>2, <1>3, TypeInit DEF RepliesInv, OneReplyPerCaller

\* A call appends one command, and waits for one reply.
LEMMA CallCounted ==
  ASSUME RepliesInv, NEW t \in Callers, NEW command, Call(t, command)
  PROVE  OneReplyPerCaller'
  <1> SUFFICES ASSUME ~ err'
               PROVE  Len(outbuf') + Len(sent') + Len(socket') + Len(reader')
                        = Cardinality(Waiting')
    BY DEF OneReplyPerCaller
  <1>1. ~ err /\ UNCHANGED <<sent, socket, reader>>  BY DEF Call
  <1>2. Len(outbuf') = Len(outbuf) + 1
    <2> DEFINE item == [by |-> t, command |-> command]
    <2> HIDE DEF item
    <2>1. outbuf' = Append(outbuf, item)  BY <1>1 DEF Call, item
    <2>2. outbuf \in Seq(ItemType)  BY DEF RepliesInv, TypeInv, TypeOK
    <2> QED  BY <2>1, <2>2, AppendProperties
  <1>3. Cardinality(Waiting') = Cardinality(Waiting) + 1
    BY WaitingGrows DEF Call, Inside, RepliesInv, TypeInv
  <1>4. /\ Len(outbuf) \in Nat /\ Len(sent) \in Nat /\ Len(socket) \in Nat
        /\ Len(reader) \in Nat
    BY DEF RepliesInv, TypeInv, TypeOK
  <1>5. Len(outbuf) + Len(sent) + Len(socket) + Len(reader) = Cardinality(Waiting)
    BY <1>1 DEF RepliesInv, OneReplyPerCaller
  <1> QED  BY <1>1, <1>2, <1>3, <1>4, <1>5, WaitingFinite

\* What redisGetReply consumes, one thread fewer waits for; the rest of it
\* only moves commands and replies along.
LEMMA CallStepCounted ==
  ASSUME RepliesInv, NEW t \in Callers, CallStep(t)
  PROVE  OneReplyPerCaller'
  <1> SUFFICES ASSUME ~ err'
               PROVE  Len(outbuf') + Len(sent') + Len(socket') + Len(reader')
                        = Cardinality(Waiting')
    BY DEF OneReplyPerCaller
  <1>0. TypeOK  BY DEF RepliesInv, TypeInv
  <1>1. ~ err  BY DEF CallStep, Consume, Flush, Read, ReadAgain, CommandFails, context
  <1>2. /\ Len(outbuf) \in Nat /\ Len(sent) \in Nat /\ Len(socket) \in Nat
        /\ Len(reader) \in Nat /\ Cardinality(Waiting) \in Nat
    BY <1>0, WaitingFinite DEF TypeOK
  <1>3. Len(outbuf) + Len(sent) + Len(socket) + Len(reader) = Cardinality(Waiting)
    BY <1>1 DEF RepliesInv, OneReplyPerCaller
  <1>4. CASE Consume(t)
    <2>1. Len(reader') = Len(reader) - 1
      BY <1>0, <1>4, HeadTailProperties DEF TypeOK, Consume
    <2>2. Cardinality(Waiting') = Cardinality(Waiting) - 1
      BY <1>0, <1>4, WaitingShrinks DEF Consume, Goto
    <2> QED  BY <1>2, <1>3, <1>4, <2>1, <2>2 DEF Consume
  <1>5. CASE Flush(t)
    <2>1. Len(sent') = Len(sent) + Len(outbuf) /\ Len(outbuf') = 0
      BY <1>0, <1>5, ConcatProperties DEF TypeOK, Flush
    <2>2. Waiting' = Waiting  BY <1>0, <1>5, WaitingStays DEF Flush, Goto
    <2> QED  BY <1>2, <1>3, <1>5, <2>1, <2>2 DEF Flush
  <1>6. CASE Read(t)
    <2>1. Len(reader') = Len(reader) + Len(socket) /\ Len(socket') = 0
      BY <1>0, <1>6, ConcatProperties DEF TypeOK, Read
    <2>2. Waiting' = Waiting  BY <1>0, <1>6, WaitingStays DEF Read, Goto
    <2> QED  BY <1>2, <1>3, <1>6, <2>1, <2>2 DEF Read
  <1>7. CASE ReadAgain(t)
    <2>1. Waiting' = Waiting  BY <1>0, <1>7, WaitingStays DEF ReadAgain, Goto
    <2> QED  BY <1>3, <1>7, <2>1 DEF ReadAgain, context
  <1>8. CASE CommandFails(t)
    BY <1>1, <1>8 DEF CommandFails
  <1> QED  BY <1>4, <1>5, <1>6, <1>7, <1>8 DEF CallStep

\* Returning, and every step outside redisCommand, counts nothing.
LEMMA ReturnCounted ==
  ASSUME RepliesInv, NEW t \in Callers, Return(t)
  PROVE  OneReplyPerCaller'
  <1>1. Waiting' = Waiting  BY WaitingStays DEF Return, Goto, RepliesInv, TypeInv
  <1> QED  BY <1>1 DEF Return, context, RepliesInv, OneReplyPerCaller

\* Redis turns a command into a reply; losing the connection ends the count.
LEMMA RedisCounted ==
  ASSUME RepliesInv, Execute \/ ConnectionLost
  PROVE  OneReplyPerCaller'
  <1>0. TypeOK  BY DEF RepliesInv, TypeInv
  <1>1. CASE Execute
    <2>1. Len(sent') = Len(sent) - 1
      BY <1>0, <1>1, HeadTailProperties DEF TypeOK, Execute
    <2>2. Len(socket') = Len(socket) + 1
      <3>1. Head(sent) \in AskedItem
        BY <1>1 DEF RepliesInv, TypeInv, Execute
      <3>2. ReplyTo(Head(sent)) \in ReplyType
        BY <3>1, RepliesTyped DEF RepliesInv
      <3> QED  BY <1>0, <1>1, <3>2, AppendProperties DEF TypeOK, Execute
    <2>3. Waiting' = Waiting  BY <1>1 DEF Execute, calls, Waiting
    <2>4. /\ Len(outbuf) \in Nat /\ Len(sent) \in Nat /\ Len(socket) \in Nat
          /\ Len(reader) \in Nat
      BY <1>0 DEF TypeOK
    <2>5. Len(outbuf) + Len(sent) + Len(socket) + Len(reader) = Cardinality(Waiting)
      BY <1>1 DEF Execute, RepliesInv, OneReplyPerCaller
    <2> QED
      BY <1>1, <2>1, <2>2, <2>3, <2>4, <2>5 DEF Execute, OneReplyPerCaller
  <1>2. CASE ConnectionLost
    BY <1>2 DEF ConnectionLost, OneReplyPerCaller
  <1> QED  BY <1>1, <1>2

\* A step that leaves the context and its callers alone counts nothing.
LEMMA UncountedStep ==
  ASSUME RepliesInv, UNCHANGED <<context, at>>
  PROVE  OneReplyPerCaller'
  BY DEF RepliesInv, OneReplyPerCaller, context, Waiting

\* A step of a call moves one entry between the buffers, the wire and a thread.
LEMMA RepliesStep == RepliesInv /\ [Next]_vars => RepliesInv'
  <1> SUFFICES ASSUME RepliesInv, [Next]_vars  PROVE OneReplyPerCaller'
    BY TypeStep DEF RepliesInv
  <1>0. Main \in Callers /\ Sessions \subseteq Callers  BY DEF Callers
  <1>1. CASE UNCHANGED vars
    BY <1>1, UncountedStep DEF vars, calls
  <1>2. CASE \E t \in Callers : CallStep(t)
    BY <1>2, CallStepCounted
  <1>3. CASE \E s \in Sessions : SessionStep(s)
    BY <1>0, <1>3, ReturnCounted, UncountedStep
       DEF SessionStep, Respond, AnswerAsserts, calls
  <1>4. CASE \E s \in Sessions, p \in Players : AskRank(s, p) \/ SaveScore(s, p)
    BY <1>0, <1>4, CallCounted DEF AskRank, SaveScore
  <1>5. CASE WorkStep
    <2>1. CASE Scan \/ \E key \in todo : GetScore(key) \/ SetRank(key)
      BY <1>0, <2>1, CallCounted DEF Scan, GetScore, SetRank
    <2>2. CASE ScanReply \/ MergeScore \/ SkipScore \/ RankReply
      BY <1>0, <2>2, ReturnCounted DEF ScanReply, MergeScore, SkipScore, RankReply
    <2>3. CASE MergeThrows \/ UpdateRanking \/ Sleep
      BY <2>3, UncountedStep DEF MergeThrows, UpdateRanking, Sleep, calls
    <2> QED  BY <1>5, <2>1, <2>2, <2>3 DEF WorkStep
  <1>6. CASE Execute \/ ConnectionLost
    BY <1>6, RedisCounted
  <1> QED  BY <1>1, <1>2, <1>3, <1>4, <1>5, <1>6 DEF Next

\* The count holds throughout.
LEMMA RepliesInvHolds == Spec => []RepliesInv
  BY RepliesInit, RepliesStep, PTL DEF Spec

\* However the calls of the threads interleave on the context that they share
\* without a lock (DatabaseWorker::mRedis), on a working connection there is
\* exactly one reply to come for each thread that waits for one.
THEOREM ReplyForEachCaller == Spec => []OneReplyPerCaller
  <1>1. RepliesInv => OneReplyPerCaller  BY DEF RepliesInv
  <1> QED  BY <1>1, RepliesInvHolds, PTL

-----------------------------------------------------------------------------
(* Undisturbed calls.  While a thread is alone with the context everything  *)
(* in the context was caused by its own command.                            *)

Own(q, t) == \A i \in DOMAIN q : q[i].by = t

AloneInv ==
  \A t \in alone :
    /\ \A u \in Callers \ {t} : ~ Inside(u)
    /\ ~ err => /\ Own(outbuf, t) /\ Own(sent, t) /\ Own(socket, t) /\ Own(reader, t)
                /\ at[t] = "handle" => got[t].by = t

UndisturbedInv == RepliesInv /\ AloneInv

\* Appending, moving and consuming keep a thread's own entries its own.
LEMMA OwnEntries ==
  ASSUME NEW S, NEW q \in Seq(S), NEW t, Own(q, t)
  PROVE  /\ \A x : x.by = t => Own(Append(q, x), t)
         /\ \A r \in Seq(S) : Own(r, t) => Own(r \o q, t)
         /\ q # <<>> => Own(Tail(q), t) /\ Head(q).by = t
         /\ Own(<<>>, t)
  <1>1. ASSUME NEW x, x.by = t  PROVE Own(Append(q, x), t)
    BY <1>1 DEF Own
  <1>2. ASSUME NEW r \in Seq(S), Own(r, t)  PROVE Own(r \o q, t)
    BY <1>2, ConcatProperties DEF Own
  <1>3. ASSUME q # <<>>  PROVE Own(Tail(q), t) /\ Head(q).by = t
    <2>1. /\ Len(q) \in Nat \ {0} /\ DOMAIN q = 1 .. Len(q)
          /\ Head(q) = q[1] /\ Tail(q) \in Seq(S) /\ Len(Tail(q)) = Len(q) - 1
          /\ \A i \in 1 .. Len(Tail(q)) : Tail(q)[i] = q[i + 1]
      BY <1>3, HeadTailProperties, EmptySeq, LenProperties
    <2>2. DOMAIN Tail(q) = 1 .. Len(Tail(q))  BY <2>1, LenProperties
    <2> QED  BY <2>1, <2>2 DEF Own
  <1>4. Own(<<>>, t)  BY DEF Own
  <1> QED  BY <1>1, <1>2, <1>3, <1>4

\* Where nobody is inside redisCommand, nothing is under way.
LEMMA NobodyInside ==
  ASSUME RepliesInv, \A u \in Callers : ~ Inside(u), ~ err
  PROVE  outbuf = <<>> /\ sent = <<>> /\ socket = <<>> /\ reader = <<>>
  <1>1. Waiting = {}  BY DEF Waiting, Inside
  <1>2. Cardinality(Waiting) = 0  BY <1>1, FS_EmptySet
  <1>3. Len(outbuf) + Len(sent) + Len(socket) + Len(reader) = 0
    BY <1>2 DEF RepliesInv, OneReplyPerCaller
  <1>4. /\ outbuf \in Seq(ItemType) /\ sent \in Seq(ItemType)
        /\ socket \in Seq(ReplyType) /\ reader \in Seq(ReplyType)
    BY DEF RepliesInv, TypeInv, TypeOK
  <1>5. Len(outbuf) = 0 /\ Len(sent) = 0 /\ Len(socket) = 0 /\ Len(reader) = 0
    BY <1>3, <1>4, LenProperties
  <1> QED  BY <1>4, <1>5, EmptySeq

\* No call is under way at the start.
LEMMA AloneInit == Init => UndisturbedInv
  <1>1. Init => AloneInv  BY DEF Init, AloneInv
  <1> QED  BY <1>1, RepliesInit DEF UndisturbedInv

\* A call that finds nobody inside finds nothing of anybody else's.
LEMMA CallAlone ==
  ASSUME UndisturbedInv, NEW t \in Callers, NEW command, Call(t, command)
  PROVE  AloneInv'
  <1>1. CASE \E u \in Callers : Inside(u)
    BY <1>1 DEF Call, AloneInv
  <1>2. CASE \A u \in Callers : ~ Inside(u)
    <2>1. alone' = {t} /\ err' = err /\ UNCHANGED <<sent, socket, reader>>
      BY <1>2 DEF Call
    <2>2. /\ at' = [at EXCEPT ![t] = "reader"]
          /\ at \in [Callers -> {"idle", "reader", "read", "take", "handle"}]
      BY DEF Call, UndisturbedInv, RepliesInv, TypeInv, TypeOK
    <2>3. \A u \in Callers \ {t} : ~ Inside(u)'
      BY <1>2, <2>2 DEF Inside
    <2>4. at'[t] # "handle"  BY <2>2
    <2>5. ASSUME ~ err
          PROVE  Own(outbuf', t) /\ Own(sent', t) /\ Own(socket', t) /\ Own(reader', t)
      <3>1. outbuf = <<>> /\ sent = <<>> /\ socket = <<>> /\ reader = <<>>
        BY <1>2, <2>5, NobodyInside DEF UndisturbedInv
      <3>2. Own(<<>>, t)  BY DEF Own
      <3> DEFINE item == [by |-> t, command |-> command]
      <3>3. item.by = t  OBVIOUS
      <3> HIDE DEF item
      <3>4. outbuf' = Append(<<>>, item)  BY <2>5, <3>1 DEF Call, item
      <3>5. Own(outbuf', t)  BY <3>3, <3>4 DEF Own
      <3> QED  BY <2>1, <3>1, <3>2, <3>5
    <2> QED  BY <2>1, <2>3, <2>4, <2>5 DEF AloneInv
  <1> QED  BY <1>1, <1>2

\* In redisGetReply only the thread that is alone can take a step; what it is
\* given, it asked for.
LEMMA CallStepAlone ==
  ASSUME UndisturbedInv, NEW t \in Callers, CallStep(t)
  PROVE  AloneInv'
  <1> SUFFICES ASSUME NEW a \in alone
               PROVE  /\ \A u \in Callers \ {a} : ~ Inside(u)'
                      /\ ~ err' => /\ Own(outbuf', a) /\ Own(sent', a)
                                   /\ Own(socket', a) /\ Own(reader', a)
                                   /\ at'[a] = "handle" => got'[a].by = a
    BY DEF AloneInv, CallStep, Consume, Flush, Read, ReadAgain, CommandFails
  <1>0. /\ TypeOK /\ a \in Callers /\ alone' = alone /\ err' = err
    BY DEF UndisturbedInv, RepliesInv, TypeInv, TypeOK, CallStep, Consume, Flush,
           Read, ReadAgain, CommandFails, context
  <1>1. \A u \in Callers \ {a} : ~ Inside(u)
    BY DEF UndisturbedInv, AloneInv
  <1>2. t = a
    BY <1>1 DEF Inside, CallStep, Consume, Flush, Read, ReadAgain, CommandFails, Goto
  <1>3. \A u \in Callers \ {a} : ~ Inside(u)'
    BY <1>0, <1>1, <1>2 DEF TypeOK, Inside, CallStep, Consume, Flush, Read, ReadAgain,
                            CommandFails, Goto
  <1>4. ASSUME ~ err
        PROVE  /\ Own(outbuf', a) /\ Own(sent', a) /\ Own(socket', a) /\ Own(reader', a)
               /\ at'[a] = "handle" => got'[a].by = a
    <2>1. Own(outbuf, a) /\ Own(sent, a) /\ Own(socket, a) /\ Own(reader, a)
      BY <1>4 DEF UndisturbedInv, AloneInv
    <2>2. Own(<<>>, a)  BY DEF Own
    <2>3. CASE Consume(t)
      <3>1. Own(Tail(reader), a) /\ Head(reader).by = a
        BY <1>0, <2>1, <2>3, OwnEntries DEF TypeOK, Consume
      <3>2. got'[a] = Head(reader)  BY <1>0, <1>2, <2>3 DEF TypeOK, Consume
      <3> QED  BY <2>1, <2>3, <3>1, <3>2 DEF Consume
    <2>4. CASE Flush(t)
      <3>1. Own(sent \o outbuf, a)  BY <1>0, <2>1, OwnEntries DEF TypeOK
      <3>2. at'[a] # "handle"  BY <1>0, <1>2, <2>4 DEF TypeOK, Flush, Goto
      <3> QED  BY <2>1, <2>2, <2>4, <3>1, <3>2 DEF Flush
    <2>5. CASE Read(t)
      <3>1. Own(reader \o socket, a)  BY <1>0, <2>1, OwnEntries DEF TypeOK
      <3>2. at'[a] # "handle"  BY <1>0, <1>2, <2>5 DEF TypeOK, Read, Goto
      <3> QED  BY <2>1, <2>2, <2>5, <3>1, <3>2 DEF Read
    <2>6. CASE ReadAgain(t)
      <3>1. at'[a] # "handle"  BY <1>0, <1>2, <2>6 DEF TypeOK, ReadAgain, Goto
      <3> QED  BY <2>1, <2>6, <3>1 DEF ReadAgain, context
    <2>7. CASE CommandFails(t)
      BY <1>4, <2>7 DEF CommandFails
    <2> QED  BY <2>3, <2>4, <2>5, <2>6, <2>7 DEF CallStep
  <1> QED  BY <1>0, <1>3, <1>4

\* A thread that returns is no longer inside.
LEMMA ReturnAlone ==
  ASSUME UndisturbedInv, NEW t \in Callers, Return(t)
  PROVE  AloneInv'
  <1>1. at' = [at EXCEPT ![t] = "idle"] /\ got' = [got EXCEPT ![t] = NoReply]
        /\ UNCHANGED <<outbuf, sent, socket, reader, err, alone>>
    BY DEF Return, Goto, context, store
  <1>2. /\ at \in [Callers -> {"idle", "reader", "read", "take", "handle"}]
        /\ alone \subseteq Callers /\ got \in [Callers -> ReplyType]
    BY DEF UndisturbedInv, RepliesInv, TypeInv, TypeOK
  <1>3. \A u \in Callers : ~ Inside(u) => ~ Inside(u)'
    BY <1>1, <1>2 DEF Inside
  <1>4. \A a \in alone : at'[a] = "handle" => at[a] = "handle" /\ got'[a] = got[a]
    BY <1>1, <1>2
  <1> QED  BY <1>1, <1>3, <1>4 DEF UndisturbedInv, AloneInv

\* Redis answers whom it was asked by.
LEMMA RedisAlone ==
  ASSUME UndisturbedInv, Execute \/ ConnectionLost
  PROVE  AloneInv'
  <1>0. UNCHANGED calls  BY DEF Execute, ConnectionLost
  <1>1. CASE Execute
    <2> SUFFICES ASSUME NEW a \in alone, ~ err
                 PROVE  Own(sent', a) /\ Own(socket', a)
      BY <1>0, <1>1 DEF Execute, calls, UndisturbedInv, AloneInv, Inside
    <2>1. Own(sent, a) /\ Own(socket, a)  BY DEF UndisturbedInv, AloneInv
    <2>2. /\ sent \in Seq(AskedItem) /\ socket \in Seq(ReplyType) /\ sent # <<>>
      BY <1>1 DEF Execute, UndisturbedInv, RepliesInv, TypeInv, TypeOK
    <2>3. Own(Tail(sent), a) /\ Head(sent).by = a  BY <2>1, <2>2, OwnEntries
    <2>4. Head(sent) \in AskedItem  BY <2>2
    <2>5. ReplyTo(Head(sent)).by = a
      BY <2>3, <2>4, RepliesTyped DEF UndisturbedInv, RepliesInv
    <2>6. Own(Append(socket, ReplyTo(Head(sent))), a)
      BY <2>1, <2>2, <2>5, OwnEntries
    <2> QED  BY <1>1, <2>3, <2>6 DEF Execute
  <1>2. CASE ConnectionLost
    BY <1>0, <1>2 DEF ConnectionLost, calls, UndisturbedInv, AloneInv, Inside
  <1> QED  BY <1>1, <1>2

\* A step that leaves the context and its callers alone disturbs nobody.
LEMMA UndisturbedStep ==
  ASSUME UndisturbedInv, UNCHANGED <<context, calls>>
  PROVE  AloneInv'
  BY DEF UndisturbedInv, AloneInv, context, calls, Inside

\* What is outstanding stays the own of a call that is alone.
LEMMA AloneStep == UndisturbedInv /\ [Next]_vars => UndisturbedInv'
  <1> SUFFICES ASSUME UndisturbedInv, [Next]_vars  PROVE AloneInv'
    BY RepliesStep DEF UndisturbedInv
  <1>0. Main \in Callers /\ Sessions \subseteq Callers  BY DEF Callers
  <1>1. CASE UNCHANGED vars
    BY <1>1, UndisturbedStep DEF vars
  <1>2. CASE \E t \in Callers : CallStep(t)
    BY <1>2, CallStepAlone
  <1>3. CASE \E s \in Sessions : SessionStep(s)
    BY <1>0, <1>3, ReturnAlone, UndisturbedStep DEF SessionStep, Respond, AnswerAsserts
  <1>4. CASE \E s \in Sessions, p \in Players : AskRank(s, p) \/ SaveScore(s, p)
    BY <1>0, <1>4, CallAlone DEF AskRank, SaveScore
  <1>5. CASE WorkStep
    <2>1. CASE Scan \/ \E key \in todo : GetScore(key) \/ SetRank(key)
      BY <1>0, <2>1, CallAlone DEF Scan, GetScore, SetRank
    <2>2. CASE ScanReply \/ MergeScore \/ SkipScore \/ RankReply
      BY <1>0, <2>2, ReturnAlone DEF ScanReply, MergeScore, SkipScore, RankReply
    <2>3. CASE MergeThrows \/ UpdateRanking \/ Sleep
      BY <2>3, UndisturbedStep DEF MergeThrows, UpdateRanking, Sleep
    <2> QED  BY <1>5, <2>1, <2>2, <2>3 DEF WorkStep
  <1>6. CASE Execute \/ ConnectionLost
    BY <1>6, RedisAlone
  <1> QED  BY <1>1, <1>2, <1>3, <1>4, <1>5, <1>6 DEF Next

\* GetCachedData and ScoreDataSave (DatabaseWorker.cpp:212-219, 251-284) take
\* the reply they get for the answer to their own command: on a working
\* connection that is so for every call that no other call overlapped.
THEOREM AloneIsServed == Spec => []AloneGetsOwnReply
  <1>1. UndisturbedInv => AloneGetsOwnReply
    BY DEF UndisturbedInv, AloneInv, AloneGetsOwnReply
  <1>2. Spec => []UndisturbedInv  BY AloneInit, AloneStep, PTL DEF Spec
  <1> QED  BY <1>1, <1>2, PTL

-----------------------------------------------------------------------------
(* Rows.  On its way from a session to a row a save of a player never       *)
(* passes an earlier one: the commands wait in one line, the replies in     *)
(* another, and what Redis holds lies between the two.                      *)

\* A reply that carries a save of p's score, a command that brings one.
Scored(reply, p) == reply.kind = "string" /\ reply.key = ScoreKey(p)
Brings(item, p)  == item.command.op = "SET" /\ item.command.key = ScoreKey(p)

Asked    == sent \o outbuf
Arriving == reader \o socket

CommandsRise(p) ==
  /\ \A i \in DOMAIN Asked : Brings(Asked[i], p) =>
       keys[ScoreKey(p)] <= Asked[i].command.save /\ Asked[i].command.save <= saves[p]
  /\ \A i, j \in DOMAIN Asked : i < j /\ Brings(Asked[i], p) /\ Brings(Asked[j], p) =>
       Asked[i].command.save <= Asked[j].command.save

RepliesRise(p) ==
  /\ \A i \in DOMAIN Arriving : Scored(Arriving[i], p) =>
       rows[p] <= Arriving[i].save /\ Arriving[i].save <= keys[ScoreKey(p)]
  /\ \A i, j \in DOMAIN Arriving : i < j /\ Scored(Arriving[i], p) /\ Scored(Arriving[j], p) =>
       Arriving[i].save <= Arriving[j].save
  /\ Scored(got[Main], p) =>
       /\ rows[p] <= got[Main].save /\ got[Main].save <= keys[ScoreKey(p)]
       /\ \A i \in DOMAIN Arriving : Scored(Arriving[i], p) => got[Main].save <= Arriving[i].save

Rising(p) ==
  /\ rows[p] <= keys[ScoreKey(p)] /\ keys[ScoreKey(p)] <= saves[p]
  /\ CommandsRise(p) /\ RepliesRise(p)

\* Hub::Work sets ranks only.
RanksOnly == task = "rank" => \A key \in todo : key.table = "Ranking"

RowsInv == TypeInv /\ RanksOnly /\ \A p \in Players : Rising(p)

\* b is a without its first d entries, or a part of that from its head on.
Drops(b, a, d) == \A i \in DOMAIN b : i \in Nat /\ i + d \in DOMAIN a /\ b[i] = a[i + d]

\* b is a with x appended.
Gains(b, a, x) ==
  \A i \in DOMAIN b : /\ i \in Nat
                      /\ \/ i \in DOMAIN a /\ b[i] = a[i]
                         \/ b[i] = x /\ \A j \in DOMAIN b : j <= i

\* The types of what is looked at.
LEMMA RowsTyped ==
  ASSUME TypeInv
  PROVE  /\ Asked \in Seq(AskedItem) /\ Arriving \in Seq(ReplyType)
         /\ \A i \in DOMAIN Asked : i \in Nat /\ Asked[i].command.save \in Nat
         /\ \A i \in DOMAIN Arriving : i \in Nat /\ Arriving[i].save \in Nat
         /\ got[Main].save \in Nat
         /\ \A p \in Players : rows[p] \in Nat /\ keys[ScoreKey(p)] \in Nat /\ saves[p] \in Nat
  <1>1. Asked \in Seq(AskedItem) /\ Arriving \in Seq(ReplyType)
    BY DEF TypeInv, TypeOK, Asked, Arriving
  <1>2. PICK a \in Seq(AskedItem), b \in Seq(ReplyType) : a = Asked /\ b = Arriving
    BY <1>1
  <1>3. ASSUME NEW i \in DOMAIN a  PROVE i \in Nat /\ a[i].command.save \in Nat
    <2>1. i \in 1 .. Len(a) /\ a[i] \in AskedItem
      OBVIOUS
    <2>2. a[i].command \in CommandType
      BY <2>1 DEF AskedItem, AskedCommand
    <2> QED  BY <2>1, <2>2 DEF CommandType
  <1>4. ASSUME NEW i \in DOMAIN b  PROVE i \in Nat /\ b[i].save \in Nat
    <2>1. i \in 1 .. Len(b) /\ b[i] \in ReplyType
      OBVIOUS
    <2> QED  BY <2>1 DEF ReplyType
  <1>5. got[Main] \in ReplyType
    BY DEF TypeInv, TypeOK, Callers
  <1>6. got[Main].save \in Nat
    BY <1>5 DEF ReplyType
  <1>7. \A p \in Players : rows[p] \in Nat /\ keys[ScoreKey(p)] \in Nat /\ saves[p] \in Nat
    BY PlayerKeys DEF TypeInv, TypeOK
  <1> QED  BY <1>1, <1>2, <1>3, <1>4, <1>6, <1>7

\* The same in the state after a step.
LEMMA RowsTypedNext ==
  (TypeInv => /\ Asked \in Seq(AskedItem) /\ Arriving \in Seq(ReplyType)
              /\ \A i \in DOMAIN Asked : i \in Nat /\ Asked[i].command.save \in Nat
              /\ \A i \in DOMAIN Arriving : i \in Nat /\ Arriving[i].save \in Nat
              /\ got[Main].save \in Nat
              /\ \A p \in Players : rows[p] \in Nat /\ keys[ScoreKey(p)] \in Nat
                                    /\ saves[p] \in Nat)'
  BY RowsTyped, PTL

\* How the lines move.
LEMMA LinesMove ==
  ASSUME NEW S, NEW q \in Seq(S), NEW r \in Seq(S), NEW x \in S
  PROVE  /\ Drops(q, q, 0)
         /\ Drops(q \o <<>>, q \o r, 0) /\ Drops(<<>>, q, 0)
         /\ Drops((q \o r) \o <<>>, q \o r, 0) /\ Drops(<<>> \o r, r, 0)
         /\ q # <<>> => /\ Drops(Tail(q) \o r, q \o r, 1)
                        /\ 1 \in DOMAIN (q \o r) /\ (q \o r)[1] = Head(q)
         /\ Gains(q \o Append(r, x), q \o r, x)
  <1>1. Drops(q, q, 0) /\ Drops(<<>>, q, 0)
    BY DEF Drops
  <1>2. Drops(q, q \o r, 0) /\ q \o <<>> = q
    BY DEF Drops
  <1>3. Drops((q \o r) \o <<>>, q \o r, 0) /\ Drops(<<>> \o r, r, 0)
    <2>1. q \o r \in Seq(S)
      BY ConcatProperties
    <2>2. (q \o r) \o <<>> = q \o r
      BY <2>1, ConcatEmptySeq
    <2>3. <<>> \o r = r
      BY ConcatEmptySeq
    <2>4. \A u \in Seq(S) : Drops(u, u, 0)
      BY DEF Drops
    <2> QED  BY <2>1, <2>2, <2>3, <2>4
  <1>4. ASSUME q # <<>>
        PROVE  /\ Drops(Tail(q) \o r, q \o r, 1)
               /\ 1 \in DOMAIN (q \o r) /\ (q \o r)[1] = Head(q)
    <2>0. /\ Tail(q) \in Seq(S) /\ Len(Tail(q)) = Len(q) - 1
          /\ \A i \in 1 .. Len(Tail(q)) : Tail(q)[i] = q[i + 1]
      BY <1>4, HeadTailProperties
    <2>1. PICK t \in Seq(S) : t = Tail(q) /\ Len(t) = Len(q) - 1
                              /\ \A i \in 1 .. Len(t) : t[i] = q[i + 1]
      BY <2>0
    <2>2. Len(q) \in Nat /\ Len(q) > 0 /\ Head(q) = q[1] /\ Len(r) \in Nat
      BY <1>4
    <2>3. Drops(t \o r, q \o r, 1)
      <3> SUFFICES ASSUME NEW i \in DOMAIN (t \o r)
                   PROVE  i \in Nat /\ i + 1 \in DOMAIN (q \o r) /\ (t \o r)[i] = (q \o r)[i + 1]
        BY DEF Drops
      <3>1. i \in 1 .. Len(q) - 1 + Len(r)
        BY <2>1, <2>2, ConcatProperties
      <3>2. CASE i <= Len(t)
        <4>1. (t \o r)[i] = t[i] /\ t[i] = q[i + 1]
          BY <2>1, <2>2, <3>1, <3>2
        <4>2. (q \o r)[i + 1] = q[i + 1] /\ i + 1 \in DOMAIN (q \o r)
          BY <2>1, <2>2, <3>1, <3>2
        <4> QED  BY <3>1, <4>1, <4>2, <2>2
      <3>3. CASE i > Len(t)
        <4>1. (t \o r)[i] = r[i - Len(t)]
          BY <2>1, <2>2, <3>1, <3>3
        <4>2. (q \o r)[i + 1] = r[i + 1 - Len(q)]
          BY <2>1, <2>2, <3>1, <3>3
        <4> QED  BY <2>1, <2>2, <3>1, <4>1, <4>2
      <3> QED  BY <2>1, <2>2, <3>1, <3>2, <3>3
    <2> QED  BY <2>1, <2>2, <2>3
  <1>5. Gains(q \o Append(r, x), q \o r, x)
    <2> SUFFICES ASSUME NEW i \in DOMAIN (q \o Append(r, x))
                 PROVE  /\ i \in Nat
                        /\ \/ i \in DOMAIN (q \o r) /\ (q \o Append(r, x))[i] = (q \o r)[i]
                           \/ /\ (q \o Append(r, x))[i] = x
                              /\ \A j \in DOMAIN (q \o Append(r, x)) : j <= i
      BY DEF Gains
    <2>1. PICK s \in Seq(S) : /\ s = Append(r, x) /\ Len(s) = Len(r) + 1 /\ s[Len(r) + 1] = x
                              /\ \A k \in 1 .. Len(r) : s[k] = r[k]
      <3>1. /\ Append(r, x) \in Seq(S) /\ Len(Append(r, x)) = Len(r) + 1
            /\ Append(r, x)[Len(r) + 1] = x
            /\ \A k \in 1 .. Len(r) : Append(r, x)[k] = r[k]
        BY AppendProperties
      <3> QED  BY <3>1
    <2>2. DOMAIN (q \o s) = 1 .. Len(q) + Len(r) + 1 /\ Len(q) \in Nat /\ Len(r) \in Nat
      BY <2>1
    <2>3. CASE i <= Len(q)
      BY <2>1, <2>2, <2>3
    <2>4. CASE i > Len(q) /\ i <= Len(q) + Len(r)
      <3>1. (q \o s)[i] = s[i - Len(q)] /\ i - Len(q) \in 1 .. Len(r)
        BY <2>1, <2>2, <2>4
      <3>2. (q \o r)[i] = r[i - Len(q)] /\ i \in DOMAIN (q \o r)
        BY <2>1, <2>2, <2>4
      <3> QED  BY <2>1, <2>2, <3>1, <3>2
    <2>5. CASE i = Len(q) + Len(r) + 1
      <3>1. (q \o s)[i] = s[i - Len(q)] /\ i - Len(q) = Len(r) + 1
        BY <2>1, <2>2, <2>5
      <3> QED  BY <2>1, <2>2, <2>5, <3>1
    <2> QED  BY <2>1, <2>2, <2>3, <2>4, <2>5
  <1> QED  BY <1>1, <1>2, <1>3, <1>4, <1>5

\* The replies of p stay in order where the line only loses its head, which the
\* main thread may have been given.
LEMMA RepliesStay ==
  ASSUME RowsInv, TypeInv', NEW p \in Players, NEW d \in {0, 1}, Drops(Arriving', Arriving, d),
         rows' = rows, keys' = keys,
         Scored(got'[Main], p) =>
           \/ got'[Main] = got[Main]
           \/ d = 1 /\ 1 \in DOMAIN Arriving /\ got'[Main] = Arriving[1]
  PROVE  RepliesRise(p)'
  <1>1. RepliesRise(p)  BY DEF RowsInv, Rising
  <1>2. PICK a, b : a = Arriving /\ b = Arriving'
    OBVIOUS
  <1>3. \A i \in DOMAIN a : i \in Nat /\ a[i].save \in Nat
    BY <1>2, RowsTyped DEF RowsInv
  <1>4. \A i \in DOMAIN b : i \in Nat /\ i + d \in DOMAIN a /\ b[i] = a[i + d]
    BY <1>2 DEF Drops
  <1>5. /\ \A i \in DOMAIN a : Scored(a[i], p) =>
             rows[p] <= a[i].save /\ a[i].save <= keys[ScoreKey(p)]
        /\ \A i, j \in DOMAIN a : i < j /\ Scored(a[i], p) /\ Scored(a[j], p) =>
             a[i].save <= a[j].save
        /\ Scored(got[Main], p) =>
             /\ rows[p] <= got[Main].save /\ got[Main].save <= keys[ScoreKey(p)]
             /\ \A i \in DOMAIN a : Scored(a[i], p) => got[Main].save <= a[i].save
    BY <1>1, <1>2 DEF RepliesRise
  <1>6. /\ \A i \in DOMAIN b : Scored(b[i], p) =>
             rows[p] <= b[i].save /\ b[i].save <= keys[ScoreKey(p)]
        /\ \A i, j \in DOMAIN b : i < j /\ Scored(b[i], p) /\ Scored(b[j], p) =>
             b[i].save <= b[j].save
    BY <1>4, <1>5
  <1>7. Scored(got'[Main], p) =>
          /\ rows[p] <= got'[Main].save /\ got'[Main].save <= keys[ScoreKey(p)]
          /\ \A i \in DOMAIN b : Scored(b[i], p) => got'[Main].save <= b[i].save
    <2> SUFFICES ASSUME Scored(got'[Main], p)
                 PROVE  /\ rows[p] <= got'[Main].save /\ got'[Main].save <= keys[ScoreKey(p)]
                        /\ \A i \in DOMAIN b : Scored(b[i], p) => got'[Main].save <= b[i].save
      OBVIOUS
    <2>1. CASE got'[Main] = got[Main]
      BY <2>1, <1>4, <1>5
    <2>2. CASE d = 1 /\ 1 \in DOMAIN a /\ got'[Main] = a[1]
      <3>1. Scored(a[1], p)  BY <2>2
      <3>2. \A i \in DOMAIN b : 1 < i + 1
        <4>1. \A i \in DOMAIN b : i \in Nat /\ i # 0
          <5>1. b \in Seq(ReplyType)  BY <1>2, RowsTypedNext
          <5> QED  BY <5>1
        <4> QED  BY <4>1
      <3> QED  BY <2>2, <3>1, <3>2, <1>4, <1>5
    <2> QED  BY <2>1, <2>2, <1>2
  <1>8. Scored(got[Main], p)' <=> Scored(got'[Main], p)  OBVIOUS
  <1>9. \A i \in DOMAIN b : Scored(b[i], p) <=> (b[i].kind = "string" /\ b[i].key = ScoreKey(p))
    BY DEF Scored
  <1> QED
    BY <1>2, <1>6, <1>7, <1>8 DEF RepliesRise

\* So do the commands.
LEMMA CommandsStay ==
  ASSUME RowsInv, NEW p \in Players, NEW d \in {0, 1}, Drops(Asked', Asked, d),
         keys' = keys, saves' = saves
  PROVE  CommandsRise(p)'
  <1>1. CommandsRise(p)  BY DEF RowsInv, Rising
  <1>2. PICK a, b : a = Asked /\ b = Asked'
    OBVIOUS
  <1>3. \A i \in DOMAIN a : i \in Nat
    BY <1>2, RowsTyped DEF RowsInv
  <1>4. \A i \in DOMAIN b : i \in Nat /\ i + d \in DOMAIN a /\ b[i] = a[i + d]
    BY <1>2 DEF Drops
  <1>5. /\ \A i \in DOMAIN a : Brings(a[i], p) =>
             keys[ScoreKey(p)] <= a[i].command.save /\ a[i].command.save <= saves[p]
        /\ \A i, j \in DOMAIN a : i < j /\ Brings(a[i], p) /\ Brings(a[j], p) =>
             a[i].command.save <= a[j].command.save
    BY <1>1, <1>2 DEF CommandsRise
  <1>6. /\ \A i \in DOMAIN b : Brings(b[i], p) =>
             keys[ScoreKey(p)] <= b[i].command.save /\ b[i].command.save <= saves[p]
        /\ \A i, j \in DOMAIN b : i < j /\ Brings(b[i], p) /\ Brings(b[j], p) =>
             b[i].command.save <= b[j].command.save
    BY <1>4, <1>5
  <1> QED  BY <1>2, <1>6 DEF CommandsRise

\* redisAppendCommand: the save a command brings is the newest yet.
LEMMA RowsCall ==
  ASSUME RowsInv, TypeInv', NEW t \in Callers, NEW command \in AskedCommand, Call(t, command),
         rows' = rows, \A p \in Players : saves[p] <= saves'[p],
         \A p \in Players : command.op = "SET" /\ command.key = ScoreKey(p) =>
           saves[p] <= command.save /\ command.save <= saves'[p],
         NEW p \in Players
  PROVE  Rising(p)'
  <1> DEFINE item == [by |-> t, command |-> command]
  <1>0. /\ UNCHANGED <<sent, socket, reader, keys, got>>
        /\ outbuf' = outbuf \/ outbuf' = Append(outbuf, item)
    BY DEF Call
  <1>1. Arriving' = Arriving  BY <1>0 DEF Arriving
  <1>2. Drops(Arriving', Arriving, 0)
    BY <1>1, LinesMove, RowsTyped DEF RowsInv, Drops
  <1>3. RepliesRise(p)'
    BY <1>0, <1>2, RepliesStay
  <1>4. PICK a, b : a = Asked /\ b = Asked'
    OBVIOUS
  <1>5. /\ saves[p] \in Nat /\ saves'[p] \in Nat /\ keys[ScoreKey(p)] \in Nat
        /\ \A i \in DOMAIN a : i \in Nat /\ a[i].command.save \in Nat
    BY <1>4, RowsTyped, RowsTypedNext DEF RowsInv
  <1>6. keys[ScoreKey(p)] <= saves[p] /\ rows[p] <= keys[ScoreKey(p)] /\ CommandsRise(p)
    BY DEF RowsInv, Rising
  <1>7. \A i \in DOMAIN b : /\ i \in Nat
                            /\ \/ i \in DOMAIN a /\ b[i] = a[i]
                               \/ b[i] = item /\ \A j \in DOMAIN b : j <= i
    <2>1. CASE outbuf' = outbuf
      <3>1. b = a  BY <1>0, <1>4, <2>1 DEF Asked
      <3> QED  BY <3>1, <1>5
    <2>2. CASE outbuf' = Append(outbuf, item)
      <3>1. item \in AskedItem  BY DEF AskedItem
      <3>2. sent \in Seq(AskedItem) /\ outbuf \in Seq(AskedItem)
        BY DEF RowsInv, TypeInv
      <3> HIDE DEF item
      <3>3. Gains(sent \o Append(outbuf, item), sent \o outbuf, item)
        BY <3>1, <3>2, LinesMove
      <3>4. b = sent \o Append(outbuf, item) /\ a = sent \o outbuf
        BY <1>0, <1>4, <2>2 DEF Asked
      <3> QED  BY <3>3, <3>4 DEF Gains
    <2> QED  BY <1>0, <2>1, <2>2
  <1>8. Brings(item, p) =>
          /\ saves[p] <= item.command.save /\ item.command.save <= saves'[p]
          /\ item.command.save \in Nat
    BY DEF Brings, AskedCommand, CommandType
  <1> HIDE DEF item
  <1>9. /\ \A i \in DOMAIN a : Brings(a[i], p) =>
             keys[ScoreKey(p)] <= a[i].command.save /\ a[i].command.save <= saves[p]
        /\ \A i, j \in DOMAIN a : i < j /\ Brings(a[i], p) /\ Brings(a[j], p) =>
             a[i].command.save <= a[j].command.save
    BY <1>4, <1>6 DEF CommandsRise
  <1>10. saves[p] <= saves'[p]
    OBVIOUS
  <1>11. \A i \in DOMAIN b : Brings(b[i], p) =>
           keys[ScoreKey(p)] <= b[i].command.save /\ b[i].command.save <= saves'[p]
    BY <1>5, <1>6, <1>7, <1>8, <1>9, <1>10
  <1>12. ASSUME NEW i \in DOMAIN b, NEW j \in DOMAIN b, i < j, Brings(b[i], p), Brings(b[j], p)
         PROVE  b[i].command.save <= b[j].command.save
    <2>1. i \in Nat /\ j \in Nat  BY <1>7
    <2>2. i \in DOMAIN a /\ b[i] = a[i]  BY <1>7, <1>12, <2>1
    <2>3. CASE j \in DOMAIN a /\ b[j] = a[j]
      BY <2>2, <2>3, <1>9, <1>12
    <2>4. CASE b[j] = item
      BY <2>2, <2>4, <1>5, <1>8, <1>9, <1>12
    <2> QED  BY <2>3, <2>4, <1>7
  <1>13. CommandsRise(p)'
    BY <1>0, <1>4, <1>11, <1>12 DEF CommandsRise
  <1> QED  BY <1>0, <1>3, <1>5, <1>6, <1>10, <1>13 DEF Rising

\* A step that gives the rows and Redis nothing new.
LEMMA RowsRest ==
  ASSUME RowsInv, TypeInv', NEW c \in {0, 1}, Drops(Asked', Asked, c),
         NEW d \in {0, 1}, Drops(Arriving', Arriving, d),
         rows' = rows, keys' = keys, saves' = saves, NEW p \in Players,
         Scored(got'[Main], p) =>
           \/ got'[Main] = got[Main]
           \/ d = 1 /\ 1 \in DOMAIN Arriving /\ got'[Main] = Arriving[1]
  PROVE  Rising(p)'
  <1>1. RepliesRise(p)'  BY RepliesStay
  <1>2. CommandsRise(p)'  BY CommandsStay
  <1>3. Rising(p)  BY DEF RowsInv
  <1> QED  BY <1>1, <1>2, <1>3 DEF Rising

\* Nor does a step that leaves both lines.
LEMMA LinesLeft ==
  ASSUME RowsInv, TypeInv', context' = context
  PROVE  Drops(Asked', Asked, 0) /\ Drops(Arriving', Arriving, 0)
  <1>1. Asked' = Asked /\ Arriving' = Arriving  BY DEF context, Asked, Arriving
  <1>2. Asked \in Seq(AskedItem) /\ Arriving \in Seq(ReplyType)  BY RowsTyped DEF RowsInv
  <1>3. \A S : \A u \in Seq(S) : Drops(u, u, 0)  BY DEF Drops
  <1> QED  BY <1>1, <1>2, <1>3

\* What a caller has before it asks and when it gets none is no score.
LEMMA NoScore ==
  ASSUME NEW t, NEW p
  PROVE  ~ Scored(NoReply, p) /\ ~ Scored(Plain(t, "null"), p)
  BY DEF Scored, NoReply, Plain, Reply

\* redisGetReply moves replies along and takes the first.
LEMMA RowsCallStep ==
  ASSUME RowsInv, TypeInv', NEW t \in Callers, CallStep(t), NEW p \in Players
  PROVE  Rising(p)'
  <1>0. /\ got \in [Callers -> ReplyType] /\ Main \in Callers
        /\ sent \in Seq(AskedItem) /\ outbuf \in Seq(AskedItem)
        /\ reader \in Seq(ReplyType) /\ socket \in Seq(ReplyType)
    BY DEF RowsInv, TypeInv, TypeOK, Callers
  <1>1. CASE Consume(t)
    <2>1. /\ reader # <<>> /\ Asked' = Asked /\ Arriving' = Tail(reader) \o socket
          /\ rows' = rows /\ keys' = keys /\ saves' = saves
          /\ got' = [got EXCEPT ![t] = Head(reader)]
      BY <1>1 DEF Consume, Asked, Arriving, worker, store
    <2>2. /\ Drops(Tail(reader) \o socket, reader \o socket, 1)
          /\ 1 \in DOMAIN (reader \o socket) /\ (reader \o socket)[1] = Head(reader)
      <3>1. Head(reader) \in ReplyType  BY <1>0, <2>1
      <3> QED  BY <1>0, <2>1, <3>1, LinesMove
    <2>3. got'[Main] = got[Main] \/ got'[Main] = Head(reader)
      BY <1>0, <2>1
    <2>4. Drops(Asked', Asked, 0)
      <3>1. Asked \in Seq(AskedItem)  BY RowsTyped DEF RowsInv
      <3>2. \A S : \A u \in Seq(S) : Drops(u, u, 0)  BY DEF Drops
      <3> QED  BY <2>1, <3>1, <3>2
    <2>5. Drops(Arriving', Arriving, 1)  BY <2>1, <2>2 DEF Arriving
    <2>6. 1 \in DOMAIN Arriving /\ Arriving[1] = Head(reader)  BY <2>2 DEF Arriving
    <2> QED  BY <2>1, <2>3, <2>4, <2>5, <2>6, RowsRest
  <1>2. CASE Flush(t)
    <2>1. /\ Asked' = (sent \o outbuf) \o <<>> /\ Arriving' = Arriving
          /\ rows' = rows /\ keys' = keys /\ saves' = saves /\ got' = got
      BY <1>2 DEF Flush, Asked, Arriving, worker, store
    <2>2. sent \o outbuf \in Seq(AskedItem)  BY <1>0
    <2>3. Asked' = Asked  BY <2>1, <2>2, ConcatEmptySeq DEF Asked
    <2>4. \A S : \A u \in Seq(S) : Drops(u, u, 0)  BY DEF Drops
    <2>5. Drops(Asked', Asked, 0) /\ Drops(Arriving', Arriving, 0)
      BY <2>1, <2>3, <2>4, RowsTyped DEF RowsInv
    <2> QED  BY <2>1, <2>5, RowsRest
  <1>3. CASE Read(t)
    <2>1. /\ Arriving' = (reader \o socket) \o <<>> /\ Asked' = Asked
          /\ rows' = rows /\ keys' = keys /\ saves' = saves /\ got' = got
      BY <1>3 DEF Read, Asked, Arriving, worker, store
    <2>2. reader \o socket \in Seq(ReplyType)  BY <1>0
    <2>3. Arriving' = Arriving  BY <2>1, <2>2, ConcatEmptySeq DEF Arriving
    <2>4. \A S : \A u \in Seq(S) : Drops(u, u, 0)  BY DEF Drops
    <2>5. Drops(Asked', Asked, 0) /\ Drops(Arriving', Arriving, 0)
      BY <2>1, <2>3, <2>4, RowsTyped DEF RowsInv
    <2> QED  BY <2>1, <2>5, RowsRest
  <1>4. CASE ReadAgain(t)
    <2>1. context' = context /\ rows' = rows /\ keys' = keys /\ saves' = saves /\ got' = got
      BY <1>4 DEF ReadAgain, worker, store, context
    <2> QED  BY <2>1, LinesLeft, RowsRest
  <1>5. CASE CommandFails(t)
    <2>1. /\ context' = context /\ rows' = rows /\ keys' = keys /\ saves' = saves
          /\ got' = [got EXCEPT ![t] = Plain(t, "null")]
      BY <1>5 DEF CommandFails, worker, store, context
    <2>2. got'[Main] = got[Main] \/ got'[Main] = Plain(t, "null")
      BY <1>0, <2>1
    <2> QED  BY <2>1, <2>2, LinesLeft, NoScore, RowsRest
  <1> QED  BY <1>1, <1>2, <1>3, <1>4, <1>5 DEF CallStep

\* A caller that is done has no reply any more.
LEMMA RowsReturn ==
  ASSUME RowsInv, TypeInv', NEW t \in Callers, Return(t), rows' = rows, NEW p \in Players
  PROVE  Rising(p)'
  <1>0. got \in [Callers -> ReplyType] /\ Main \in Callers
    BY DEF RowsInv, TypeInv, TypeOK, Callers
  <1>1. /\ context' = context /\ keys' = keys /\ saves' = saves
        /\ got' = [got EXCEPT ![t] = NoReply]
    BY DEF Return, store, context
  <1>2. got'[Main] = got[Main] \/ got'[Main] = NoReply  BY <1>0, <1>1
  <1> QED  BY <1>1, <1>2, LinesLeft, NoScore, RowsRest

\* Which row ScoreDataSave merges, and what.
LEMMA Merged ==
  ASSUME RowsInv, MergeScore
  PROVE  \E q \in Players : /\ Scored(got[Main], q)
                            /\ rows' = [rows EXCEPT ![q] = got[Main].save]
  <1>1. PICK q \in Players : got[Main].key = [table |-> "Score", player |-> q]
    BY DEF MergeScore, Holds
  <1>2. Scored(got[Main], q)  BY <1>1 DEF MergeScore, Holds, Scored, ScoreKey
  <1>3. rows' = [rows EXCEPT ![q] = got[Main].save]  BY <1>1 DEF MergeScore
  <1> QED  BY <1>2, <1>3

\* MERGE: the row becomes what was read, the replies to come are as new.
LEMMA RowsMerge ==
  ASSUME RowsInv, TypeInv', MergeScore, NEW p \in Players
  PROVE  Rising(p)' /\ rows'[p] >= rows[p]
  <1>1. /\ Arriving' = Arriving /\ Asked' = Asked /\ keys' = keys /\ saves' = saves
        /\ got'[Main] = NoReply
    <2>1. got' = [got EXCEPT ![Main] = NoReply] /\ Main \in Callers
      BY DEF MergeScore, Return, Callers
    <2> QED  BY <2>1 DEF MergeScore, Return, store, context, Arriving, Asked, RowsInv, TypeInv, TypeOK
  <1>2. PICK q \in Players : Scored(got[Main], q) /\ rows' = [rows EXCEPT ![q] = got[Main].save]
    BY Merged
  <1>3. Rising(p)  BY DEF RowsInv
  <1>4. rows \in [Players -> Nat]  BY DEF RowsInv, TypeInv, TypeOK
  <1>5. PICK a : a = Arriving  OBVIOUS
  <1>6. /\ rows[p] \in Nat /\ keys[ScoreKey(p)] \in Nat /\ got[Main].save \in Nat
        /\ \A i \in DOMAIN a : a[i].save \in Nat
    BY <1>5, RowsTyped DEF RowsInv
  <1>7. /\ \A i \in DOMAIN a : Scored(a[i], p) =>
             rows[p] <= a[i].save /\ a[i].save <= keys[ScoreKey(p)]
        /\ \A i, j \in DOMAIN a : i < j /\ Scored(a[i], p) /\ Scored(a[j], p) =>
             a[i].save <= a[j].save
        /\ Scored(got[Main], p) =>
             /\ rows[p] <= got[Main].save /\ got[Main].save <= keys[ScoreKey(p)]
             /\ \A i \in DOMAIN a : Scored(a[i], p) => got[Main].save <= a[i].save
    BY <1>3, <1>5 DEF Rising, RepliesRise
  <1>8. /\ rows'[p] >= rows[p] /\ rows'[p] <= keys[ScoreKey(p)]
        /\ \A i \in DOMAIN a : Scored(a[i], p) => rows'[p] <= a[i].save
    <2>1. CASE p = q
      <3>1. rows'[p] = got[Main].save  BY <1>2, <1>4, <2>1
      <3> QED  BY <1>2, <1>6, <1>7, <2>1, <3>1
    <2>2. CASE p # q
      <3>1. rows'[p] = rows[p]  BY <1>2, <1>4, <2>2
      <3>2. rows[p] <= keys[ScoreKey(p)]  BY <1>3 DEF Rising
      <3> QED  BY <1>6, <1>7, <3>1, <3>2
    <2> QED  BY <2>1, <2>2
  <1>9. RepliesRise(p)'
    <2>1. ~ Scored(got'[Main], p)  BY <1>1, NoScore
    <2> QED  BY <1>1, <1>5, <1>7, <1>8, <2>1 DEF RepliesRise
  <1>10. CommandsRise(p)'
    BY <1>1, <1>3 DEF Rising, CommandsRise
  <1> QED  BY <1>1, <1>3, <1>8, <1>9, <1>10 DEF Rising

\* Redis: a SET leaves the save it brings, a GET is answered with what is there.
LEMMA RowsExecute ==
  ASSUME RowsInv, TypeInv', Execute, NEW p \in Players
  PROVE  Rising(p)'
  <1> DEFINE item == Head(sent)
             reply == ReplyTo(item)
             k == ScoreKey(p)
  <1>0. /\ sent \in Seq(AskedItem) /\ outbuf \in Seq(AskedItem) /\ sent # <<>>
        /\ reader \in Seq(ReplyType) /\ socket \in Seq(ReplyType)
        /\ item \in AskedItem /\ k \in Keys /\ keys \in [Keys -> Nat]
        /\ rows' = rows /\ saves' = saves /\ got' = got
    BY PlayerKeys DEF RowsInv, TypeInv, TypeOK, Execute, worker, calls
  <1>1. reply \in ReplyType /\ (reply.kind = "string" => reply.save = keys[reply.key])
    BY <1>0, RepliesTyped DEF RowsInv
  <1>2. Drops(Asked', Asked, 1) /\ 1 \in DOMAIN Asked /\ Asked[1] = item
    <2>1. Asked' = Tail(sent) \o outbuf  BY DEF Execute, Asked
    <2> QED  BY <1>0, <2>1, LinesMove DEF Asked
  <1>3. Gains(Arriving', Arriving, reply)
    <2>1. Arriving' = reader \o Append(socket, reply)  BY DEF Execute, Arriving
    <2> HIDE DEF reply
    <2> QED  BY <1>0, <1>1, <2>1, LinesMove DEF Arriving
  <1>4. \/ Brings(item, p) /\ keys'[k] = item.command.save
        \/ ~ Brings(item, p) /\ keys'[k] = keys[k]
    <2>1. CASE item.command.op = "SET"
      <3>1. keys' = [keys EXCEPT ![item.command.key] = item.command.save]
        BY <2>1 DEF Execute
      <3>2. CASE item.command.key = k
        BY <1>0, <2>1, <3>1, <3>2 DEF Brings
      <3>3. CASE item.command.key # k
        BY <1>0, <3>1, <3>3 DEF Brings
      <3> QED  BY <3>2, <3>3
    <2>2. CASE item.command.op # "SET"
      BY <2>2 DEF Execute, Brings
    <2> QED  BY <2>1, <2>2
  <1>5. Rising(p)  BY DEF RowsInv
  <1>6. PICK a, b, u, v :
         a = Asked /\ b = Asked' /\ u = Arriving /\ v = Arriving'
    OBVIOUS
  <1>7. /\ rows[p] \in Nat /\ keys[k] \in Nat /\ keys'[k] \in Nat /\ got[Main].save \in Nat
        /\ \A i \in DOMAIN a : i \in Nat /\ a[i].command.save \in Nat
        /\ \A i \in DOMAIN u : i \in Nat /\ u[i].save \in Nat
        /\ saves[p] \in Nat
    BY <1>6, RowsTyped, RowsTypedNext DEF RowsInv
  <1>8. \A i \in DOMAIN b : i \in Nat /\ i + 1 \in DOMAIN a /\ b[i] = a[i + 1]
    BY <1>2, <1>6 DEF Drops
  <1>9. \A i \in DOMAIN v : /\ i \in Nat
                            /\ \/ i \in DOMAIN u /\ v[i] = u[i]
                               \/ v[i] = reply /\ \A j \in DOMAIN v : j <= i
    BY <1>3, <1>6 DEF Gains
  <1>10. \A i \in DOMAIN b : 1 < i + 1
    <2>1. b \in Seq(AskedItem)  BY <1>6, RowsTypedNext
    <2>2. \A i \in DOMAIN b : i \in Nat /\ i # 0  BY <2>1
    <2> QED  BY <2>2
  <1>11. /\ \A i \in DOMAIN a : Brings(a[i], p) =>
              keys[k] <= a[i].command.save /\ a[i].command.save <= saves[p]
         /\ \A i, j \in DOMAIN a : i < j /\ Brings(a[i], p) /\ Brings(a[j], p) =>
              a[i].command.save <= a[j].command.save
         /\ rows[p] <= keys[k] /\ keys[k] <= saves[p]
    BY <1>5, <1>6 DEF Rising, CommandsRise
  <1>12. /\ \A i \in DOMAIN u : Scored(u[i], p) =>
              rows[p] <= u[i].save /\ u[i].save <= keys[k]
         /\ \A i, j \in DOMAIN u : i < j /\ Scored(u[i], p) /\ Scored(u[j], p) =>
              u[i].save <= u[j].save
         /\ Scored(got[Main], p) =>
              /\ rows[p] <= got[Main].save /\ got[Main].save <= keys[k]
              /\ \A i \in DOMAIN u : Scored(u[i], p) => got[Main].save <= u[i].save
    BY <1>5, <1>6 DEF Rising, RepliesRise
  <1>13. keys[k] <= keys'[k] /\ keys'[k] <= saves[p]
    BY <1>2, <1>4, <1>6, <1>7, <1>11
  <1>14. Scored(reply, p) => reply.save = keys[k]
    BY <1>1 DEF Scored
  <1>15. CommandsRise(p)'
    <2>1. ASSUME NEW i \in DOMAIN b, Brings(b[i], p)
          PROVE  keys'[k] <= b[i].command.save /\ b[i].command.save <= saves[p]
      <3>1. /\ i + 1 \in DOMAIN a /\ Brings(a[i + 1], p) /\ b[i] = a[i + 1]
            /\ 1 < i + 1 /\ 1 \in DOMAIN a /\ a[1] = item
        BY <1>2, <1>6, <1>8, <1>10, <2>1
      <3>2. CASE Brings(item, p) /\ keys'[k] = item.command.save
        BY <1>11, <3>1, <3>2
      <3>3. CASE keys'[k] = keys[k]
        BY <1>11, <3>1, <3>3
      <3> QED  BY <1>4, <3>2, <3>3
    <2>2. ASSUME NEW i \in DOMAIN b, NEW j \in DOMAIN b, i < j, Brings(b[i], p), Brings(b[j], p)
          PROVE  b[i].command.save <= b[j].command.save
      BY <1>8, <1>11, <2>2
    <2> QED  BY <1>0, <1>6, <2>1, <2>2 DEF CommandsRise
  <1>16. RepliesRise(p)'
    <2> HIDE DEF reply
    <2>1. ASSUME NEW i \in DOMAIN v, Scored(v[i], p)
          PROVE  rows[p] <= v[i].save /\ v[i].save <= keys'[k]
      BY <1>7, <1>9, <1>11, <1>12, <1>13, <1>14, <2>1
    <2>2. ASSUME NEW i \in DOMAIN v, NEW j \in DOMAIN v, i < j, Scored(v[i], p), Scored(v[j], p)
          PROVE  v[i].save <= v[j].save
      <3>1. i \in Nat /\ j \in Nat  BY <1>9
      <3>2. i \in DOMAIN u /\ v[i] = u[i]  BY <1>9, <2>2, <3>1
      <3>3. CASE j \in DOMAIN u /\ v[j] = u[j]
        BY <1>12, <2>2, <3>2, <3>3
      <3>4. CASE v[j] = reply
        BY <1>12, <1>14, <2>2, <3>2, <3>4
      <3> QED  BY <1>9, <3>3, <3>4
    <2>3. ASSUME Scored(got[Main], p)
          PROVE  /\ rows[p] <= got[Main].save /\ got[Main].save <= keys'[k]
                 /\ \A i \in DOMAIN v : Scored(v[i], p) => got[Main].save <= v[i].save
      BY <1>7, <1>9, <1>12, <1>13, <1>14, <2>3
    <2> QED  BY <1>0, <1>6, <2>1, <2>2, <2>3 DEF RepliesRise
  <1>17. rows[p] <= keys'[k]
    BY <1>7, <1>11, <1>13
  <1> QED  BY <1>0, <1>13, <1>15, <1>16, <1>17 DEF Rising

\* A lost connection takes commands and replies away.
LEMMA RowsLost ==
  ASSUME RowsInv, TypeInv', ConnectionLost, NEW p \in Players
  PROVE  Rising(p)'
  <1>1. /\ Asked' = <<>> \o <<>> /\ Arriving' = reader \o <<>> /\ rows' = rows
        /\ keys' = keys /\ saves' = saves /\ got' = got
    BY DEF ConnectionLost, Asked, Arriving, worker, store, calls
  <1>2. Asked' = <<>>  BY <1>1
  <1>3. reader \in Seq(ReplyType) /\ socket \in Seq(ReplyType)
    BY DEF RowsInv, TypeInv, TypeOK
  <1>4. reader \o <<>> = reader  BY <1>3, ConcatEmptySeq
  <1>5. Drops(Asked', Asked, 0)  BY <1>2 DEF Drops
  <1>6. Drops(Arriving', Arriving, 0)
    BY <1>1, <1>3, <1>4 DEF Drops, Arriving
  <1> QED  BY <1>1, <1>5, <1>6, RowsRest

\* Hub::Initialize leaves no row newer than Redis, and nothing on its way.
LEMMA RowsInit == Init => RowsInv
  <1> SUFFICES ASSUME Init  PROVE RowsInv  OBVIOUS
  <1>1. TypeInv /\ RanksOnly  BY TypeInit DEF Init, RanksOnly
  <1>2. ASSUME NEW p \in Players  PROVE Rising(p)
    <2>1. Asked = <<>> /\ Arriving = <<>>  BY DEF Init, Asked, Arriving
    <2>2. got[Main] = NoReply  BY DEF Init, Callers
    <2>3. CommandsRise(p) /\ RepliesRise(p)
      BY <2>1, <2>2, NoScore DEF CommandsRise, RepliesRise
    <2>4. keys[ScoreKey(p)] \in Nat  BY <1>1, RowsTyped
    <2>5. rows[p] <= keys[ScoreKey(p)] /\ keys[ScoreKey(p)] = saves[p]  BY DEF Init
    <2> QED  BY <2>3, <2>4, <2>5 DEF Rising
  <1> QED  BY <1>1, <1>2 DEF RowsInv

\* Hub::Work sets the keys UpdateRanking has listed.
LEMMA RanksStep ==
  ASSUME RowsInv, [Next]_vars
  PROVE  RanksOnly'
  <1>1. CASE task' = task /\ todo' = todo
    BY <1>1 DEF RowsInv, RanksOnly
  <1>2. CASE WorkStep
    <2>1. CASE UpdateRanking
      BY <2>1 DEF UpdateRanking, RanksOnly, RankingKey
    <2>2. CASE Scan \/ ScanReply \/ Sleep
      BY <2>2 DEF Scan, ScanReply, Sleep, RanksOnly
    <2>3. CASE MergeScore \/ SkipScore \/ MergeThrows \/ RankReply
      BY <2>3 DEF MergeScore, SkipScore, MergeThrows, RankReply, worker, RanksOnly, RowsInv
    <2>4. ASSUME NEW key \in todo, GetScore(key) \/ SetRank(key)  PROVE RanksOnly'
      BY <2>4 DEF GetScore, SetRank, RanksOnly, RowsInv
    <2> QED  BY <1>2, <2>1, <2>2, <2>3, <2>4 DEF WorkStep
  <1>3. CASE UNCHANGED vars  BY <1>1, <1>3 DEF vars, worker
  <1>4. ASSUME NEW t \in Callers, CallStep(t)  PROVE RanksOnly'
    BY <1>1, <1>4 DEF CallStep, Consume, Flush, Read, ReadAgain, CommandFails, worker
  <1>5. ASSUME NEW s \in Sessions, SessionStep(s)  PROVE RanksOnly'
    BY <1>1, <1>5 DEF SessionStep, Respond, AnswerAsserts, worker
  <1>6. ASSUME NEW s \in Sessions, NEW p \in Players, AskRank(s, p) \/ SaveScore(s, p)
        PROVE  RanksOnly'
    BY <1>1, <1>6 DEF AskRank, SaveScore, worker
  <1>7. CASE Execute \/ ConnectionLost
    BY <1>1, <1>7 DEF Execute, ConnectionLost, worker
  <1> QED  BY <1>2, <1>3, <1>4, <1>5, <1>6, <1>7 DEF Next

\* A session asks for a rank, or saves a score that is newer than any before.
LEMMA RowsSession ==
  ASSUME RowsInv, TypeInv', NEW s \in Sessions, NEW p \in Players,
         SessionStep(s) \/ \E q \in Players : AskRank(s, q) \/ SaveScore(s, q)
  PROVE  Rising(p)' /\ rows' = rows
  <1>0. s \in Callers /\ \A q \in Players : rows[q] \in Nat /\ saves[q] \in Nat
    BY RowsTyped DEF RowsInv, Callers
  <1>1. ASSUME NEW q \in Players, AskRank(s, q)  PROVE Rising(p)' /\ rows' = rows
    <2>1. Command("GET", RankingKey(q), 0) \in AskedCommand  BY PlayerKeys, CommandsAsked
    <2>2. rows' = rows /\ saves' = saves  BY <1>1 DEF AskRank, worker
    <2>3. Command("GET", RankingKey(q), 0).op # "SET"  BY DEF Command
    <2>4. \A r \in Players : saves[r] <= saves'[r]  BY <1>0, <2>2
    <2>5. Call(s, Command("GET", RankingKey(q), 0))  BY <1>1 DEF AskRank
    <2> QED  BY <1>0, <2>1, <2>2, <2>3, <2>4, <2>5, RowsCall
  <1>2. ASSUME NEW q \in Players, SaveScore(s, q)  PROVE Rising(p)' /\ rows' = rows
    <2> DEFINE command == Command("SET", ScoreKey(q), saves'[q])
    <2>1. /\ saves' = [saves EXCEPT ![q] = @ + 1] /\ saves \in [Players -> Nat]
          /\ rows' = rows /\ Call(s, command)
      BY <1>2 DEF SaveScore, NextSave, worker, RowsInv, TypeInv, TypeOK
    <2>2. saves'[q] = saves[q] + 1 /\ saves'[q] \in Nat  BY <2>1
    <2>3. command \in AskedCommand  BY <2>2, PlayerKeys, CommandsAsked
    <2>4. \A r \in Players : saves[r] <= saves'[r]  BY <2>1
    <2>5. command.key = ScoreKey(q) /\ command.save = saves'[q]  BY DEF Command
    <2>6. \A r \in Players : command.key = ScoreKey(r) => r = q
      BY <2>5 DEF ScoreKey
    <2>7. \A r \in Players : command.op = "SET" /\ command.key = ScoreKey(r) =>
            saves[r] <= command.save /\ command.save <= saves'[r]
      <3> HIDE DEF command
      <3> SUFFICES ASSUME NEW r \in Players, command.key = ScoreKey(r)
                   PROVE  saves[r] <= command.save /\ command.save <= saves'[r]
        OBVIOUS
      <3>1. r = q  BY <2>6
      <3>2. saves[q] \in Nat  BY <1>0
      <3> QED  BY <2>2, <2>5, <3>1, <3>2
    <2> HIDE DEF command
    <2> QED  BY <1>0, <2>1, <2>3, <2>4, <2>7, RowsCall
  <1>3. CASE Respond(s)
    BY <1>0, <1>3, RowsReturn DEF Respond, worker
  <1>4. CASE AnswerAsserts(s)
    <2>1. context' = context /\ rows' = rows /\ keys' = keys /\ saves' = saves /\ got' = got
      BY <1>4 DEF AnswerAsserts, context, store, calls, worker
    <2> QED  BY <2>1, LinesLeft, RowsRest
  <1> QED  BY <1>1, <1>2, <1>3, <1>4 DEF SessionStep

\* Hub::Work: only a merge touches a row.
LEMMA RowsWork ==
  ASSUME RowsInv, TypeInv', WorkStep, NEW p \in Players
  PROVE  Rising(p)' /\ rows'[p] >= rows[p]
  <1>0. Main \in Callers /\ \A q \in Players : rows[q] \in Nat /\ saves[q] \in Nat
    BY RowsTyped DEF RowsInv, Callers
  <1>1. CASE MergeScore  BY <1>1, RowsMerge
  <1>2. CASE ScanReply \/ SkipScore \/ RankReply
    <2>1. Return(Main) /\ rows' = rows
      BY <1>2 DEF ScanReply, SkipScore, RankReply, worker
    <2>2. Rising(p)'  BY <1>0, <2>1, RowsReturn
    <2> QED  BY <1>0, <2>1, <2>2
  <1>3. CASE MergeThrows \/ UpdateRanking \/ Sleep
    <2>1. context' = context /\ rows' = rows /\ keys' = keys /\ saves' = saves /\ got' = got
      BY <1>3 DEF MergeThrows, UpdateRanking, Sleep, context, store, calls, worker
    <2>2. Rising(p)'  BY <2>1, LinesLeft, RowsRest
    <2> QED  BY <1>0, <2>1, <2>2
  <1>4. ASSUME NEW command \in AskedCommand, Call(Main, command), rows' = rows, saves' = saves,
               \A q \in Players : command.op = "SET" => command.key # ScoreKey(q)
        PROVE  Rising(p)' /\ rows'[p] >= rows[p]
    <2>1. \A q \in Players : saves[q] <= saves'[q]  BY <1>0, <1>4
    <2>2. Rising(p)'  BY <1>0, <1>4, <2>1, RowsCall
    <2> QED  BY <1>0, <1>4, <2>2
  <1>5. CASE Scan
    <2>1. Command("SCAN", None, 0).op # "SET"  BY DEF Command
    <2> QED  BY <1>4, <1>5, <2>1, CommandsAsked DEF Scan
  <1>6. ASSUME NEW key \in todo, GetScore(key)  PROVE Rising(p)' /\ rows'[p] >= rows[p]
    <2>1. key \in Keys  BY DEF RowsInv, TypeInv, TypeOK
    <2>2. Command("GET", key, 0).op # "SET"  BY DEF Command
    <2> QED  BY <1>4, <1>6, <2>1, <2>2, CommandsAsked DEF GetScore
  <1>7. ASSUME NEW key \in todo, SetRank(key)  PROVE Rising(p)' /\ rows'[p] >= rows[p]
    <2>1. key \in Keys  BY DEF RowsInv, TypeInv, TypeOK
    <2>2. key.table = "Ranking"  BY <1>7 DEF SetRank, RowsInv, RanksOnly
    <2>3. \A q \in Players : Command("SET", key, 1).key # ScoreKey(q)
      BY <2>2 DEF Command, ScoreKey
    <2> QED  BY <1>4, <1>7, <2>1, <2>3, CommandsAsked DEF SetRank
  <1> QED  BY <1>1, <1>2, <1>3, <1>5, <1>6, <1>7 DEF WorkStep

\* Every step keeps saves in order, and takes no row back.
LEMMA RowsStep ==
  ASSUME RowsInv, [Next]_vars
  PROVE  RowsInv' /\ \A p \in Players : rows'[p] >= rows[p]
  <1>0. TypeInv'  BY TypeStep DEF RowsInv
  <1>1. RanksOnly'  BY RanksStep
  <1>2. ASSUME NEW p \in Players  PROVE Rising(p)' /\ rows'[p] >= rows[p]
    <2>0. rows[p] \in Nat  BY RowsTyped DEF RowsInv
    <2>1. CASE UNCHANGED vars
      <3>1. context' = context /\ rows' = rows /\ keys' = keys /\ saves' = saves /\ got' = got
        BY <2>1 DEF vars, context, store, calls, worker
      <3>2. Rising(p)'  BY <1>0, <3>1, LinesLeft, RowsRest
      <3> QED  BY <2>0, <3>1, <3>2
    <2>2. ASSUME NEW t \in Callers, CallStep(t)  PROVE Rising(p)' /\ rows'[p] >= rows[p]
      <3>1. rows' = rows
        BY <2>2 DEF CallStep, Consume, Flush, Read, ReadAgain, CommandFails, worker
      <3>2. Rising(p)'  BY <1>0, <2>2, RowsCallStep
      <3> QED  BY <2>0, <3>1, <3>2
    <2>3. ASSUME NEW s \in Sessions,
                 SessionStep(s) \/ \E q \in Players : AskRank(s, q) \/ SaveScore(s, q)
          PROVE  Rising(p)' /\ rows'[p] >= rows[p]
      BY <1>0, <2>0, <2>3, RowsSession
    <2>4. CASE WorkStep  BY <1>0, <2>4, RowsWork
    <2>5. CASE Execute \/ ConnectionLost
      <3>1. rows' = rows  BY <2>5 DEF Execute, ConnectionLost, worker
      <3>2. Rising(p)'  BY <1>0, <2>5, RowsExecute, RowsLost
      <3> QED  BY <2>0, <3>1, <3>2
    <2> QED  BY <2>1, <2>2, <2>3, <2>4, <2>5 DEF Next
  <1> QED  BY <1>0, <1>1, <1>2 DEF RowsInv

\* A row of Score never goes back to an older save of its player, whichever
\* replies ScoreDataSave is given and wherever the connection is lost.
THEOREM RowsOnlyAdvance == Spec => RowsNeverGoBack
  <1>1. Spec => []RowsInv
    <2>1. RowsInv /\ [Next]_vars => RowsInv'  BY RowsStep
    <2> QED  BY RowsInit, <2>1, PTL DEF Spec
  <1>2. RowsInv /\ [Next]_vars => [\A p \in Players : rows'[p] >= rows[p]]_vars
    BY RowsStep
  <1> QED  BY <1>1, <1>2, PTL DEF Spec, RowsNeverGoBack
=============================================================================
