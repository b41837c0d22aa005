------------------------------ MODULE SavePath ------------------------------
(***************************************************************************)
(* A score from the bytes a client sends to the Score table and back after *)
(* a restart: TCP delivers the bytes in pieces of its own choice, each     *)
(* receive is read as one header and one body (Session::Process), the      *)
(* overlappeds of all clients come from one pool and are wiped by Clear,   *)
(* and a name and a time pass through JSON, MERGE and SQLGetData.          *)
(*                                                                         *)
(* Handling a completion is atomic here, Redis and SQL Server do not fail  *)
(* and keys do not expire: IocpServer.tla, RedisConnection.tla and         *)
(* DatabaseWorker.tla have the rest.                                       *)
(***************************************************************************)
EXTENDS Packets, Records, FiniteSets

CONSTANTS
  Clients,
  Overlappeds,
  Empty,       \* the name of no characters
  MaxSent,     \* bound: messages sent
  None         \* no value

Messages == [from : Clients, name : Names, time : 0 .. MaxSent]
PartType == [part : {"ids", "type", "table", "name"}, message : Messages]

ASSUME SavePathAssumption ==
  /\ Empty \in Names /\ \A n \in Names : Cut[n] = Empty <=> n = Empty
  /\ \A n \in Names : Empty \in Begins[n]
  /\ Blank \notin PartType /\ Garbage \notin PartType
  /\ MaxSent \in Nat
  /\ Cardinality(Overlappeds) > Cardinality(Clients) + 1
  /\ None \notin Clients \cup Overlappeds

VARIABLES
  sent,      \* messages sent, oldest first; a message's time is its place
  stream,    \* stream[c]: parts c has sent and no receive has taken
  buf,       \* buf[o]: an overlapped's buffers
  posted,    \* posted[c]: the overlapped of c's receive
  to,        \* to[o]: the client a reply in o is on its way to
  cache,     \* cache[n]: the JSON under table:Score:n
  rows,      \* rows[n]: table Score
  delivery,  \* history: delivery[c]: "whole" messages so far; "split", one that ended
             \* inside a message; "lost", a receive that began inside one
  crashed    \* the process has died

network == <<sent, stream, buf, posted, to, delivery>>
vars    == <<network, cache, rows, crashed>>

Pool == {o \in Overlappeds : to[o] = None /\ \A c \in Clients : posted[c] # o}

Init ==
  /\ sent    = <<>>
  /\ stream  = [c \in Clients |-> <<>>]
  /\ buf     = [o \in Overlappeds |-> NewOverlapped]
  /\ posted  = [c \in Clients |-> None]
  /\ to      = [o \in Overlappeds |-> None]
  /\ cache   = [n \in Names |-> None]
  /\ rows    = [n \in Names |-> None]
  /\ delivery = [c \in Clients |-> "whole"]
  /\ crashed = FALSE

-----------------------------------------------------------------------------
(* External: a client asks to save a score for a name. *)

SendMessage(c, name) ==
  /\ ~ crashed /\ Len(sent) < MaxSent
  /\ LET message == Message(c, name, Len(sent) + 1) IN
       /\ sent' = Append(sent, message)
       /\ stream' = [stream EXCEPT ![c] = @ \o Encoded(message)]
  /\ UNCHANGED <<buf, posted, to, delivery, cache, rows, crashed>>

-----------------------------------------------------------------------------
(* Session::Process *)

\* OP_ACCEPT: the first ReceiveReady.
Accept(c) ==
  /\ ~ crashed /\ posted[c] = None
  /\ \E r \in Pool :
       /\ posted' = [posted EXCEPT ![c] = r]
       /\ buf' = [buf EXCEPT ![r] = Clear(@)]
  /\ UNCHANGED <<sent, stream, to, delivery, cache, rows, crashed>>

\* Faulty variant: WSARecv is given one buffer of the two.
TakenHeader(o, arrived) == IF arrived < 2 THEN arrived ELSE 2

\* WSARecv completes with what has arrived and fits both buffers.
Taken(o, arrived) == IF arrived < buf[o].len THEN arrived ELSE buf[o].len

Read(c, arrived) ==
  Filled(buf[posted[c]].slots, SubSeq(stream[c], 1, Taken(posted[c], arrived)))

\* What the network has done to c's messages, this delivery included.
Delivered(c, arrived) ==
  IF delivery[c] = "lost" \/ Head(stream[c]).part # "ids" THEN "lost"
  ELSE IF stream[c][arrived].part # "name" \/ arrived > Slots THEN "split"
  ELSE delivery[c]

\* `arrived': the parts that are there whole; a piece of the next one may be too.
Receive(c, arrived) ==
  /\ ~ crashed /\ posted[c] # None
  /\ arrived \in 1 .. Len(stream[c])
  /\ stream' = [stream EXCEPT ![c] = SubSeq(@, Taken(posted[c], arrived) + 1, Len(@))]
  /\ delivery' = [delivery EXCEPT ![c] = Delivered(c, arrived)]
  /\ UNCHANGED <<sent, rows>>

\* ReceiveReady into r, then Clear and push.  replied: the buffers meanwhile.
Recycle(c, arrived, r, replied) ==
  /\ posted' = [posted EXCEPT ![c] = r]
  /\ buf' = [replied EXCEPT
               ![posted[c]] = Clear([slots |-> Read(c, arrived), len |-> @.len]),
               ![r] = Clear(@)]

\* A score nobody sent: the zeros of a table that has not arrived, or bytes that
\* are no table at all.
Scrap(c) == Message(c, Empty, 0)

\* What GetRoot, which verifies nothing, may make of a body: bytes out of step
\* read as anything, a piece of a table lacks its string, and a piece of the
\* string is followed by zeros, where %s and SQL_NTS end the name.
Requests(c, slots) ==
  LET table == slots[3].message IN
  IF ~ Whole(slots, 1) THEN [score : {Scrap(c)}, name : Names]
  ELSE IF ~ Whole(slots, 3) THEN [score : {Scrap(c)}, name : {Empty}]
  ELSE IF ~ Whole(slots, 4) THEN [score : {table}, name : Begins[table.name]]
  ELSE [score : {table}, name : {slots[4].message.name}]

\* Hub::Send, Response_SaveScore, NetworkManager::Send and Client::Send.
ReceiveSave(c, arrived) ==
  /\ Receive(c, arrived)
  /\ LET slots == Read(c, arrived) IN
       /\ Whole(slots, 1) => Whole(slots, 2)
       /\ \E request \in Requests(c, slots) : \E q \in Pool : \E r \in Pool \ {q} :
            /\ cache' = [cache EXCEPT ![request.name] =
                 ScoreJson(request.name, request.score, KoreaTime(request.score.time))]
            /\ to' = [to EXCEPT ![q] = c]
            /\ Recycle(c, arrived, r, [buf EXCEPT ![q] =
                 SetMessage(Clear(@), Encoded(Message(c, request.name, 0)))])
  /\ UNCHANGED crashed

\* Hub::Send, another contents type: only logged.
ReceiveOther(c, arrived) ==
  /\ Receive(c, arrived)
  /\ ~ (Whole(Read(c, arrived), 1) /\ Whole(Read(c, arrived), 2))
  /\ \E r \in Pool : Recycle(c, arrived, r, buf)
  /\ UNCHANGED <<to, cache, crashed>>

\* str() of a null player_id(), a read outside the buffer, or nlohmann's dump of
\* half a character: the process dies.
ReceiveFatal(c, arrived) ==
  /\ Receive(c, arrived)
  /\ LET slots == Read(c, arrived) IN
       Whole(slots, 1) => Whole(slots, 2) /\ ~ Whole(slots, 4)
  /\ crashed' = TRUE
  /\ UNCHANGED <<buf, posted, to, cache>>

\* OP_SEND: Clear and push.
Sent(o) ==
  /\ ~ crashed /\ to[o] # None
  /\ to' = [to EXCEPT ![o] = None]
  /\ buf' = [buf EXCEPT ![o] = Clear(@)]
  /\ UNCHANGED <<sent, stream, posted, delivery, cache, rows, crashed>>

-----------------------------------------------------------------------------
(* The main thread, and restarts. *)

\* ScoreDataSave of one key.  A name longer than its column fails to execute.
Save(name) ==
  /\ ~ crashed /\ cache[name] # None
  /\ name \in Storable
  /\ rows' = [rows EXCEPT ![cache[name].player_id] = RowOf(cache[name])]
  /\ UNCHANGED <<network, cache, crashed>>

Rows == {n \in Names : rows[n] # None}

\* The process dies, or is stopped, and starts: new buffers, no connections;
\* ScoreDataLoad sets a key for each row, the last of those that share one.
Restart ==
  /\ stream' = [c \in Clients |-> <<>>]
  /\ buf'    = [o \in Overlappeds |-> NewOverlapped]
  /\ posted' = [c \in Clients |-> None]
  /\ to'     = [o \in Overlappeds |-> None]
  /\ crashed' = FALSE
  /\ \E last \in [{Cut[n] : n \in Rows} -> Rows] :
       /\ \A key \in DOMAIN last : Cut[last[key]] = key
       /\ cache' = [key \in Names |->
            IF key \in DOMAIN last THEN Loaded(last[key], rows[last[key]]) ELSE cache[key]]
  /\ UNCHANGED <<sent, delivery, rows>>

-----------------------------------------------------------------------------
Next ==
  \/ \E c \in Clients, name \in Names \ {Empty} : SendMessage(c, name)
  \/ \E c \in Clients : Accept(c)
  \/ \E c \in Clients : \E arrived \in 1 .. Len(stream[c]) :
       ReceiveSave(c, arrived) \/ ReceiveOther(c, arrived) \/ ReceiveFatal(c, arrived)
  \/ \E o \in Overlappeds : Sent(o)
  \/ \E name \in Names : Save(name)
  \/ Restart

Spec == Init /\ [][Next]_vars

-----------------------------------------------------------------------------
(* Type invariant. *)
RowType  == [score : Messages, last_update : Int]
JsonType == [player_id : Names, score : Messages, last_update : Int]

TypeOK ==
  /\ sent \in Seq(Messages)
  /\ stream \in [Clients -> Seq(PartType)]
  /\ buf \in [Overlappeds ->
       [slots : [1 .. Slots -> PartType \cup {Blank, Garbage}], len : 0 .. Slots]]
  /\ posted \in [Clients -> Overlappeds \cup {None}]
  /\ to \in [Overlappeds -> Clients \cup {None}]
  /\ cache \in [Names -> JsonType \cup {None}]
  /\ rows \in [Names -> RowType \cup {None}]
  /\ delivery \in [Clients -> {"whole", "split", "lost"}]
  /\ crashed \in BOOLEAN

-----------------------------------------------------------------------------
(* Safety. *)

(* While TCP delivers the messages of a client whole, any number of them    *)
(* that fits, each of its receives begins with a header, whatever happens   *)
(* to the others; and while it does so for all of them no score is stored   *)
(* without a name and the process lives (Session.cpp:87-96).                *)
InStep ==
  /\ \A c \in Clients :
       delivery[c] = "whole" /\ stream[c] # <<>> => Head(stream[c]).part = "ids"
  /\ (\A c \in Clients : delivery[c] = "whole") => ~ crashed /\ cache[Empty] = None

(* A score that came from a client whose messages were delivered whole is   *)
(* stored as that client sent it, under the name it gave and at nine hours  *)
(* after its time, however many buffers and names other clients' pieces     *)
(* spoil and however often the table is loaded again; only a name of        *)
(* sixteen characters is loaded under its first fifteen                     *)
(* (DatabaseWorker.cpp:123).  Where a delivery ended inside a message, the  *)
(* name may be a beginning of the one sent, or missing together with the    *)
(* score (Hub.cpp:62-66).  Only from a client whose receives have begun     *)
(* inside a message can anything come.                                      *)
StoredUnder(score) ==
  LET given == IF delivery[score.from] = "whole" THEN {score.name} ELSE Begins[score.name]
  IN  given \cup {Cut[n] : n \in given}

OwnScore(name, value) ==
  LET score == value.score IN
  \/ delivery[score.from] = "lost"
  \/ delivery[score.from] = "split" /\ score = Scrap(score.from) /\ name = Empty
  \/ /\ score \in Range(sent)
     /\ name \in StoredUnder(score)
     /\ DaylightShift = 0 => value.last_update = KoreaTime(score.time)

ScoresAsSent ==
  \A name \in Names :
    /\ cache[name] # None => OwnScore(name, cache[name])
    /\ rows[name] # None => OwnScore(name, rows[name])

(* A reply carries the name of a request of the client it goes to, or a     *)
(* beginning of one where a delivery ended inside a message: no overlapped  *)
(* that was used for another client before shows through, since Clear wipes *)
(* what the last operation declared (MyPacket.h:131-139).                   *)
RequestNames(c) == {m.name : m \in {n \in Range(sent) : n.from = c}}

NamesTold(c) ==
  CASE delivery[c] = "whole" -> RequestNames(c)
    [] delivery[c] = "split" -> UNION {Begins[n] : n \in RequestNames(c)}
    [] delivery[c] = "lost"  -> Names

RepliesAreOwn ==
  \A o \in Overlappeds :
    to[o] # None =>
      \E name \in NamesTold(to[o]) :
        SubSeq(buf[o].slots, 1, buf[o].len) = Encoded(Message(to[o], name, 0))
=============================================================================
