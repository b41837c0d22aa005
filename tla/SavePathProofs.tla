---------------------------- MODULE SavePathProofs ----------------------------
(***************************************************************************)
(* Whose score is stored under a name and whose name a reply carries, for  *)
(* any clients, names, overlappeds and sizes of a buffer, and wherever TCP *)
(* ends its deliveries: the types (PathTypeCorrect), the scores            *)
(* (ScoresSafe), the replies (RepliesSafe), and the step that a connection *)
(* keeps while its own messages are delivered whole (StaysInStep).         *)
(***************************************************************************)
EXTENDS SavePath, SequenceTheorems, TLAPS

-----------------------------------------------------------------------------
(* The inductive invariant. *)

Nothing == {Blank, Garbage}

\* What follows a part on the wire.
Follows(p, q) ==
  /\ p.part = "ids"   => q.part = "type"  /\ q.message = p.message
  /\ p.part = "type"  => q.part = "table" /\ q.message = p.message
  /\ p.part = "table" => q.part = "name"  /\ q.message = p.message
  /\ p.part = "name"  => q.part = "ids"

\* What a client has on the wire ends with a message of its own ...
Wire(c, parts) ==
  /\ \A i \in 1 .. Len(parts) :
       /\ parts[i].message.from = c
       /\ i < Len(parts) => Follows(parts[i], parts[i + 1])
  /\ parts # <<>> => parts[Len(parts)].part = "name"

\* ... and every part of it is of one that was sent.
StreamInv ==
  \A c \in Clients :
    /\ Wire(c, stream[c])
    /\ \A i \in 1 .. Len(stream[c]) : stream[c][i].message \in Range(sent)

\* Clear wipes as much as an overlapped declares: nothing may lie behind that.
Behind(b) == \A i \in 1 .. Slots : i > b.len => b.slots[i] \in Nothing
Clean(b)  == b.len = Slots /\ \A i \in 1 .. Slots : b.slots[i] \in Nothing

\* An overlapped serves one purpose, and a receive starts in a clean one.
BufferInv ==
  /\ \A o \in Overlappeds : Behind(buf[o])
  /\ \A c \in Clients : posted[c] # None =>
       /\ Clean(buf[posted[c]])
       /\ to[posted[c]] = None
       /\ \A d \in Clients : posted[d] = posted[c] => d = c

\* A key's value carries the key.
KeyInv == \A n \in Names : cache[n] # None => cache[n].player_id = n

\* While all messages are delivered whole, nothing goes out of step.
NamesGiven == \A m \in Range(sent) : m.name # Empty
AllWhole   == \A c \in Clients : delivery[c] = "whole"
InStepInv  == InStep /\ (AllWhole => rows[Empty] = None)

PathInv == TypeOK /\ StreamInv /\ BufferInv /\ KeyInv

-----------------------------------------------------------------------------
(* What the operators on buffers return. *)

BufferType == [slots : [1 .. Slots -> PartType \cup Nothing], len : 0 .. Slots]

\* A message fits an overlapped.
LEMMA SlotsNat == Slots \in Nat /\ Slots >= 4 /\ MaxSent \in Nat
  BY PacketsAssumption, SavePathAssumption

\* Filled writes a sequence of parts over the first slots.
LEMMA FilledSlots ==
  ASSUME NEW S, NEW slots \in [1 .. Slots -> S], NEW parts \in Seq(S)
  PROVE  /\ Filled(slots, parts) \in [1 .. Slots -> S]
         /\ \A i \in 1 .. Slots :
              Filled(slots, parts)[i] = IF i <= Len(parts) THEN parts[i] ELSE slots[i]
  BY SlotsNat DEF Filled

\* Wiped puts zeroes over the first n slots.
LEMMA WipedSlots ==
  ASSUME NEW slots \in [1 .. Slots -> PartType \cup Nothing], NEW n \in Nat
  PROVE  /\ Wiped(slots, n) \in [1 .. Slots -> PartType \cup Nothing]
         /\ \A i \in 1 .. Slots : Wiped(slots, n)[i] = IF i <= n THEN Blank ELSE slots[i]
  <1> DEFINE zeroes == [i \in 1 .. n |-> Blank]
  <1>1. zeroes \in Seq(PartType \cup Nothing) /\ Len(zeroes) = n
    BY DEF Nothing
  <1>2. \A i \in 1 .. n : zeroes[i] = Blank  OBVIOUS
  <1>3. Wiped(slots, n) = Filled(slots, zeroes)  BY DEF Wiped
  <1> HIDE DEF zeroes
  <1> QED  BY <1>1, <1>2, <1>3, FilledSlots, SlotsNat

\* A function on four numbers is a sequence.
LEMMA FourLong ==
  ASSUME NEW S, NEW f \in [1 .. 4 -> S]
  PROVE  f \in Seq(S) /\ Len(f) = 4
  <1>1. f \in Seq(S)  BY SeqDef
  <1>2. Len(f) \in Nat /\ DOMAIN f = 1 .. Len(f)  BY <1>1, LenProperties
  <1>3. 4 \in 1 .. Len(f) /\ 5 \notin 1 .. Len(f)  BY <1>2
  <1> QED  BY <1>1, <1>2, <1>3

\* A message on the wire is four parts of it.
LEMMA EncodedParts ==
  ASSUME NEW m \in Messages
  PROVE  /\ Encoded(m) \in Seq(PartType) /\ Len(Encoded(m)) = 4
         /\ Encoded(m)[1] = Part("ids", m) /\ Encoded(m)[2] = Part("type", m)
         /\ Encoded(m)[3] = Part("table", m) /\ Encoded(m)[4] = Part("name", m)
  <1>1. \A i \in 1 .. 4 : Part(Parts[i], m) \in PartType
    BY DEF Parts, Part, PartType
  <1>2. Encoded(m) \in [1 .. 4 -> PartType]  BY <1>1 DEF Encoded
  <1>3. Encoded(m) \in Seq(PartType) /\ Len(Encoded(m)) = 4
    BY <1>2, FourLong
  <1> QED  BY <1>3 DEF Encoded, Parts

\* Clear leaves nothing in an overlapped that declared all it held.
LEMMA ClearCleans ==
  ASSUME NEW b \in BufferType, Behind(b)
  PROVE  Clear(b) \in BufferType /\ Clean(Clear(b)) /\ Behind(Clear(b))
  <1>1. b.slots \in [1 .. Slots -> PartType \cup Nothing] /\ b.len \in Nat
    BY SlotsNat DEF BufferType
  <1>2. /\ Wiped(b.slots, b.len) \in [1 .. Slots -> PartType \cup Nothing]
        /\ \A i \in 1 .. Slots :
             Wiped(b.slots, b.len)[i] = IF i <= b.len THEN Blank ELSE b.slots[i]
    BY <1>1, WipedSlots
  <1>3. \A i \in 1 .. Slots : Wiped(b.slots, b.len)[i] \in Nothing
    BY <1>1, <1>2 DEF Behind, Nothing
  <1> QED  BY <1>2, <1>3, SlotsNat DEF Clear, Clean, Behind, BufferType

\* SetHeader and SetBody declare the message and leave nothing behind it.
LEMMA MessageSet ==
  ASSUME NEW b \in BufferType, Clean(b), NEW m \in Messages
  PROVE  LET set == SetMessage(b, Encoded(m)) IN
           /\ set \in BufferType /\ Behind(set)
           /\ SubSeq(set.slots, 1, set.len) = Encoded(m)
  <1> DEFINE wiped == Wiped(b.slots, 4)
             slots == Filled(wiped, Encoded(m))
             set   == SetMessage(b, Encoded(m))
  <1>1. b.slots \in [1 .. Slots -> PartType \cup Nothing]  BY DEF BufferType
  <1>2. /\ wiped \in [1 .. Slots -> PartType \cup Nothing]
        /\ \A i \in 1 .. Slots : wiped[i] = IF i <= 4 THEN Blank ELSE b.slots[i]
    BY <1>1, WipedSlots
  <1>3. Encoded(m) \in Seq(PartType \cup Nothing) /\ Len(Encoded(m)) = 4
    BY EncodedParts
  <1>4. set = [slots |-> slots, len |-> 4]  BY <1>3 DEF SetMessage
  <1> HIDE DEF wiped
  <1> DEFINE parts == Encoded(m)
             S     == PartType \cup Nothing
  <1>5. wiped \in [1 .. Slots -> S] /\ parts \in Seq(S)
    BY <1>2, <1>3
  <1> HIDE DEF parts, S
  <1>6. /\ Filled(wiped, parts) \in [1 .. Slots -> S]
        /\ \A i \in 1 .. Slots :
             Filled(wiped, parts)[i] = IF i <= Len(parts) THEN parts[i] ELSE wiped[i]
    BY <1>5, SlotsNat DEF Filled
  <1>7. /\ slots \in [1 .. Slots -> PartType \cup Nothing]
        /\ \A i \in 1 .. Slots : slots[i] = IF i <= 4 THEN Encoded(m)[i] ELSE wiped[i]
    BY <1>3, <1>6 DEF parts, S
  <1> HIDE DEF slots
  <1>8. \A i \in 1 .. Slots : i > 4 => slots[i] \in Nothing
    BY <1>2, <1>7, SlotsNat DEF Clean
  <1>9. slots \in Seq(PartType \cup Nothing) /\ Len(slots) = Slots  BY <1>7, SlotsNat
  <1>10. SubSeq(slots, 1, 4) = Encoded(m)  BY <1>3, <1>7, <1>9, SlotsNat
  <1> QED  BY <1>4, <1>7, <1>8, <1>10, SlotsNat DEF BufferType, Behind

-----------------------------------------------------------------------------
(* What is on the wire. *)

\* A receive takes parts from the front.
LEMMA WireTaken ==
  ASSUME NEW c, NEW parts \in Seq(PartType), Wire(c, parts), NEW k \in 0 .. Len(parts)
  PROVE  LET rest == SubSeq(parts, k + 1, Len(parts)) IN
           /\ rest \in Seq(PartType) /\ Wire(c, rest) /\ Len(rest) = Len(parts) - k
           /\ \A i \in 1 .. Len(rest) : rest[i] = parts[k + i]
  <1> DEFINE rest == SubSeq(parts, k + 1, Len(parts))
  <1>1. Len(parts) \in Nat  OBVIOUS
  <1>2. /\ rest \in Seq(PartType) /\ Len(rest) = Len(parts) - k
        /\ \A i \in 1 .. Len(rest) : rest[i] = parts[k + i]
    <2>1. PICK j \in Int, n \in Int : j = k + 1 /\ n = Len(parts)  BY <1>1
    <2>5. \A i \in j .. n : parts[i] \in PartType
      <3>1. \A i \in j .. n : i \in 1 .. Len(parts)  BY <1>1, <2>1
      <3> QED  BY <1>1, <3>1, ElementOfSeq
    <2>6. /\ SubSeq(parts, j, n) \in Seq(PartType)
          /\ Len(SubSeq(parts, j, n)) = IF j <= n THEN n - j + 1 ELSE 0
          /\ \A i \in 1 .. n - j + 1 : SubSeq(parts, j, n)[i] = parts[j + i - 1]
      BY <2>5, SubSeqProperties
    <2>2. /\ rest \in Seq(PartType)
          /\ Len(rest) = IF j <= n THEN n - j + 1 ELSE 0
          /\ \A i \in 1 .. n - j + 1 : rest[i] = parts[j + i - 1]
      BY <2>1, <2>6
    <2>3. Len(rest) = Len(parts) - k  BY <1>1, <2>1, <2>2
    <2>4. \A i \in 1 .. Len(rest) :
            i \in 1 .. n - j + 1 /\ j + i - 1 = k + i
      BY <1>1, <2>1, <2>3
    <2> HIDE DEF rest
    <2> QED  BY <2>2, <2>3, <2>4
  <1> HIDE DEF rest
  <1>3. \A i \in 1 .. Len(rest) : /\ k + i \in 1 .. Len(parts)
                                  /\ i < Len(rest) => k + i < Len(parts)
                                  /\ i < Len(rest) => rest[i + 1] = parts[(k + i) + 1]
    <2> SUFFICES ASSUME NEW i \in 1 .. Len(rest)
                 PROVE  /\ k + i \in 1 .. Len(parts)
                        /\ i < Len(rest) => k + i < Len(parts)
                        /\ i < Len(rest) => rest[i + 1] = parts[(k + i) + 1]
      OBVIOUS
    <2>1. k + i \in 1 .. Len(parts) /\ (i < Len(rest) => k + i < Len(parts))
      BY <1>1, <1>2
    <2>2. i < Len(rest) => i + 1 \in 1 .. Len(rest) /\ k + (i + 1) = (k + i) + 1
      BY <1>1, <1>2
    <2> QED  BY <1>2, <2>1, <2>2
  <1>4. \A i \in 1 .. Len(rest) : /\ rest[i].message.from = c
                                  /\ i < Len(rest) => Follows(rest[i], rest[i + 1])
    BY <1>2, <1>3 DEF Wire
  <1>5. rest # <<>> => rest[Len(rest)].part = "name"
    <2> SUFFICES ASSUME rest # <<>>  PROVE rest[Len(rest)].part = "name"
      OBVIOUS
    <2>1. Len(rest) \in 1 .. Len(rest) /\ parts # <<>>  BY <1>1, <1>2
    <2>2. rest[Len(rest)] = parts[k + Len(rest)] /\ k + Len(rest) = Len(parts)
      BY <1>1, <1>2, <2>1
    <2> QED  BY <2>1, <2>2 DEF Wire
  <1> QED  BY <1>2, <1>4, <1>5 DEF rest, Wire

\* send() appends a whole message.
LEMMA WireSent ==
  ASSUME NEW c, NEW parts \in Seq(PartType), Wire(c, parts),
         NEW m \in Messages, m.from = c
  PROVE  LET more == parts \o Encoded(m) IN
           /\ more \in Seq(PartType) /\ Wire(c, more)
           /\ \A i \in 1 .. Len(more) :
                more[i].message = m \/ (i \in 1 .. Len(parts) /\ more[i] = parts[i])
           /\ parts = <<>> => Head(more).part = "ids"
           /\ parts # <<>> => Head(more) = Head(parts)
           /\ more # <<>>
  <1> DEFINE more == parts \o Encoded(m)
             n == Len(parts)
  <1>1. PICK e \in Seq(PartType) : e = Encoded(m)  BY EncodedParts
  <1>2. /\ Len(e) = 4
        /\ e[1] = Part("ids", m) /\ e[2] = Part("type", m)
        /\ e[3] = Part("table", m) /\ e[4] = Part("name", m)
    BY <1>1, EncodedParts
  <1>3. n \in Nat  OBVIOUS
  <1>4. /\ more \in Seq(PartType) /\ Len(more) = n + 4
        /\ \A i \in 1 .. n : more[i] = parts[i]
        /\ \A j \in 1 .. 4 : more[n + j] = e[j]
    <2>1. /\ parts \o e \in Seq(PartType) /\ Len(parts \o e) = n + Len(e)
          /\ \A i \in 1 .. n + Len(e) : (parts \o e)[i] = IF i <= n THEN parts[i] ELSE e[i - n]
      BY ConcatProperties
    <2>4. /\ more \in Seq(PartType) /\ Len(more) = n + 4
          /\ \A i \in 1 .. n + 4 : more[i] = IF i <= n THEN parts[i] ELSE e[i - n]
      BY <1>1, <1>2, <2>1
    <2> HIDE DEF more
    <2>2. \A j \in 1 .. 4 : n + j \in 1 .. n + 4 /\ ~ n + j <= n /\ (n + j) - n = j
      BY <1>3
    <2>3. \A i \in 1 .. n : i \in 1 .. n + 4 /\ i <= n  BY <1>3
    <2> QED  BY <2>2, <2>3, <2>4
  <1> HIDE DEF more
  <1>5. /\ more[n + 1] = Part("ids", m) /\ more[n + 2] = Part("type", m)
        /\ more[n + 3] = Part("table", m) /\ more[n + 4] = Part("name", m)
    BY <1>2, <1>4
  <1>6. \A i \in 1 .. Len(more) :
          \/ i \in 1 .. n /\ more[i] = parts[i]
          \/ i \in {n + 1, n + 2, n + 3, n + 4} /\ more[i].message = m
    <2>1. \A i \in 1 .. n + 4 : i \in 1 .. n \/ i \in {n + 1, n + 2, n + 3, n + 4}
      BY <1>3
    <2> QED  BY <1>4, <1>5, <2>1 DEF Part
  <1>7. n > 0 => more[n].part = "name"  BY <1>3, <1>4 DEF Wire
  <1>8. \A i \in 1 .. Len(more) : i < Len(more) => Follows(more[i], more[i + 1])
    <2> SUFFICES ASSUME NEW i \in 1 .. n + 4, i < n + 4  PROVE Follows(more[i], more[i + 1])
      BY <1>4
    <2>1. CASE i < n
      <3>1. i \in 1 .. n /\ i + 1 \in 1 .. n  BY <1>3, <2>1
      <3> QED  BY <1>4, <2>1, <3>1 DEF Wire
    <2>2. CASE i = n
      BY <1>3, <1>5, <1>7, <2>2 DEF Follows, Part
    <2>3. CASE i > n
      <3>1. \/ i = n + 1 /\ i + 1 = n + 2
            \/ i = n + 2 /\ i + 1 = n + 3
            \/ i = n + 3 /\ i + 1 = n + 4
        BY <1>3, <2>3
      <3> QED  BY <1>5, <3>1 DEF Follows, Part
    <2> QED  BY <1>3, <2>1, <2>2, <2>3
  <1>9. \A i \in 1 .. Len(more) : more[i].message.from = c  BY <1>6 DEF Wire
  <1>10. more # <<>> /\ more[Len(more)].part = "name"  BY <1>3, <1>4, <1>5 DEF Part
  <1>11. parts = <<>> => Head(more).part = "ids"  BY <1>4, <1>5, <1>10 DEF Part
  <1>12. parts # <<>> => Head(more) = Head(parts)  BY <1>3, <1>4, <1>10
  <1> QED  BY <1>4, <1>6, <1>8, <1>9, <1>10, <1>11, <1>12 DEF more, Wire

-----------------------------------------------------------------------------
(* Type correctness, and whose parts and overlappeds are whose. *)

\* One more message is sent, none is forgotten.
LEMMA RangeGrows ==
  ASSUME NEW S, NEW s \in Seq(S), NEW e \in S
  PROVE  Append(s, e) \in Seq(S) /\ Range(Append(s, e)) = Range(s) \cup {e}
  <1>1. Len(s) \in Nat  OBVIOUS
  <1>2. /\ Append(s, e) \in Seq(S) /\ Len(Append(s, e)) = Len(s) + 1
        /\ \A i \in 1 .. Len(s) : Append(s, e)[i] = s[i]
        /\ Append(s, e)[Len(s) + 1] = e
    BY AppendProperties
  <1>3. Range(s) = {s[i] : i \in 1 .. Len(s)}  BY LenProperties DEF Range
  <1>4. Range(Append(s, e)) = {Append(s, e)[i] : i \in 1 .. Len(s) + 1}
    BY <1>2, LenProperties DEF Range
  <1>5. 1 .. Len(s) + 1 = 1 .. Len(s) \cup {Len(s) + 1}  BY <1>1
  <1> QED  BY <1>2, <1>3, <1>4, <1>5

\* What WSARecv leaves in the buffers of a clean overlapped: the parts that have
\* arrived, and nothing behind them.
LEMMA ReadParts ==
  ASSUME PathInv, NEW c \in Clients, posted[c] # None, NEW arrived \in 1 .. Len(stream[c])
  PROVE  LET k == Taken(posted[c], arrived)  slots == Read(c, arrived) IN
           /\ k \in 1 .. Len(stream[c])
           /\ k = IF arrived < Slots THEN arrived ELSE Slots
           /\ slots \in [1 .. Slots -> PartType \cup Nothing]
           /\ \A i \in 1 .. Slots : IF i <= k THEN slots[i] = stream[c][i]
                                              ELSE slots[i] \in Nothing
  <1> DEFINE o == posted[c]
             k == Taken(o, arrived)
             head == SubSeq(stream[c], 1, k)
             slots == Read(c, arrived)
  <1>1. o \in Overlappeds /\ stream[c] \in Seq(PartType) /\ Len(stream[c]) \in Nat
    BY DEF PathInv, TypeOK
  <1>2. buf[o].slots \in [1 .. Slots -> PartType \cup Nothing] /\ Clean(buf[o])
    BY <1>1 DEF PathInv, TypeOK, BufferInv, Nothing
  <1>3. k = IF arrived < Slots THEN arrived ELSE Slots
    BY <1>2 DEF Taken, Clean
  <1>4. k \in 1 .. Len(stream[c]) /\ k <= Slots  BY <1>1, <1>3, SlotsNat
  <1> HIDE DEF k
  <1>5. head \in Seq(PartType) /\ Len(head) = k /\ \A i \in 1 .. k : head[i] = stream[c][i]
    <2>1. \A i \in 1 .. k : stream[c][i] \in PartType
      <3>1. \A i \in 1 .. k : i \in 1 .. Len(stream[c])  BY <1>1, <1>4
      <3> QED  BY <1>1, <3>1, ElementOfSeq
    <2>2. k \in Int /\ 1 \in Int  BY <1>1, <1>4
    <2>3. /\ head \in Seq(PartType) /\ Len(head) = IF 1 <= k THEN k - 1 + 1 ELSE 0
          /\ \A i \in 1 .. k - 1 + 1 : head[i] = stream[c][1 + i - 1]
      BY <2>1, <2>2, SubSeqProperties
    <2>4. k - 1 + 1 = k /\ 1 <= k /\ \A i \in 1 .. k : 1 + i - 1 = i  BY <1>1, <1>4
    <2> HIDE DEF head
    <2> QED  BY <2>3, <2>4
  <1>6. slots = Filled(buf[o].slots, head)  BY DEF Read, k
  <1> HIDE DEF head, slots, o
  <1>7. /\ head \in Seq(PartType \cup Nothing)
        /\ slots \in [1 .. Slots -> PartType \cup Nothing]
        /\ \A i \in 1 .. Slots : slots[i] = IF i <= k THEN head[i] ELSE buf[o].slots[i]
    <2>1. head \in Seq(PartType \cup Nothing)  BY <1>5
    <2> QED  BY <1>2, <1>5, <1>6, <2>1, FilledSlots
  <1>8. \A i \in 1 .. Slots : IF i <= k THEN slots[i] = stream[c][i]
                                        ELSE slots[i] \in Nothing
    <2>1. \A i \in 1 .. Slots : i <= k => i \in 1 .. k  BY <1>1, <1>4
    <2> QED  BY <1>2, <1>5, <1>7, <2>1 DEF Clean
  <1> QED  BY <1>3, <1>4, <1>7, <1>8 DEF o, k, slots

\* A part that Process has read is one that the client has sent.
LEMMA PartRead ==
  ASSUME PathInv, NEW c \in Clients, posted[c] # None, NEW arrived \in 1 .. Len(stream[c]),
         NEW i \in 1 .. Slots, Read(c, arrived)[i] \notin Nothing
  PROVE  /\ i \in 1 .. Len(stream[c]) /\ Read(c, arrived)[i] = stream[c][i]
         /\ stream[c][i] \in PartType
  <1>1. Len(stream[c]) \in Nat /\ stream[c] \in Seq(PartType)  BY DEF PathInv, TypeOK
  <1>2. i <= Taken(posted[c], arrived) /\ Read(c, arrived)[i] = stream[c][i]
    BY ReadParts
  <1>3. Taken(posted[c], arrived) \in 1 .. Len(stream[c])  BY ReadParts
  <1>4. i \in 1 .. Len(stream[c])  BY <1>1, <1>2, <1>3, SlotsNat
  <1> QED  BY <1>1, <1>2, <1>4, ElementOfSeq

\* A request that Process has read: in step it is one that the client has sent,
\* or a beginning of it.
LEMMA RequestRead ==
  ASSUME PathInv, NEW c \in Clients, posted[c] # None, NEW arrived \in 1 .. Len(stream[c]),
         NEW request \in Requests(c, Read(c, arrived))
  PROVE  LET slots == Read(c, arrived)  score == request.score  name == request.name IN
           /\ score \in Messages /\ score.from = c /\ name \in Names
           /\ Whole(slots, 1) =>
                IF Whole(slots, 3)
                THEN /\ score \in Range(sent) /\ name \in Begins[score.name]
                     /\ Whole(slots, 4) => name = score.name
                ELSE score = Scrap(c) /\ name = Empty
  <1> DEFINE slots == Read(c, arrived)
             score == request.score
             name  == request.name
             table == slots[3].message
  <1>0. Scrap(c) \in Messages /\ Scrap(c).from = c /\ Empty \in Names
    <2>1. 0 \in 0 .. MaxSent  BY SlotsNat
    <2> QED  BY <2>1, SavePathAssumption DEF Scrap, Message, Messages
  <1>1. 3 \in 1 .. Slots /\ 4 \in 1 .. Slots  BY SlotsNat
  <1>2. ASSUME Whole(slots, 3)
        PROVE  /\ 3 \in 1 .. Len(stream[c]) /\ slots[3] = stream[c][3]
               /\ slots[3].part = "table"
               /\ table \in Messages /\ table \in Range(sent) /\ table.from = c
               /\ table.name \in Names /\ table.name \in Begins[table.name]
               /\ Begins[table.name] \subseteq Names
    <2>1. 3 \in 1 .. Len(stream[c]) /\ slots[3] = stream[c][3] /\ slots[3] \in PartType
          /\ slots[3].part = "table"
      BY <1>1, <1>2, PartRead DEF Whole, Nothing, Parts
    <2>2. table \in Messages /\ table \in Range(sent) /\ table.from = c
      BY <2>1 DEF PathInv, StreamInv, Wire, PartType
    <2>3. table.name \in Names  BY <2>2 DEF Messages
    <2> HIDE DEF table, slots
    <2> QED  BY <2>1, <2>2, <2>3, RecordsAssumption
  <1>3. ASSUME Whole(slots, 3), Whole(slots, 4)  PROVE slots[4].message = table
    <2>1. 4 \in 1 .. Len(stream[c]) /\ slots[4] = stream[c][4]
      BY <1>1, <1>3, PartRead DEF Whole, Nothing
    <2>2. Len(stream[c]) \in Nat /\ 3 < Len(stream[c])  BY <2>1 DEF PathInv, TypeOK
    <2>3. Wire(c, stream[c])  BY DEF PathInv, StreamInv
    <2>4. Follows(stream[c][3], stream[c][3 + 1])  BY <1>2, <1>3, <2>2, <2>3 DEF Wire
    <2> QED  BY <1>2, <1>3, <2>1, <2>4 DEF Follows
  <1>4. CASE ~ Whole(slots, 1)
    <2>1. score = Scrap(c) /\ name \in Names  BY <1>4 DEF Requests
    <2> QED  BY <1>0, <1>4, <2>1
  <1>5. CASE Whole(slots, 1) /\ ~ Whole(slots, 3)
    <2>1. score = Scrap(c) /\ name = Empty  BY <1>5 DEF Requests
    <2> QED  BY <1>0, <1>5, <2>1
  <1>6. CASE Whole(slots, 1) /\ Whole(slots, 3) /\ ~ Whole(slots, 4)
    <2>1. score = table /\ name \in Begins[table.name]  BY <1>6 DEF Requests
    <2> QED  BY <1>2, <1>6, <2>1
  <1>7. CASE Whole(slots, 1) /\ Whole(slots, 3) /\ Whole(slots, 4)
    <2>1. score = table /\ name = slots[4].message.name  BY <1>7 DEF Requests
    <2> QED  BY <1>2, <1>3, <1>7, <2>1
  <1> QED  BY <1>4, <1>5, <1>6, <1>7

\* The parts of TypeOK.
LEMMA Types ==
  ASSUME TypeOK
  PROVE  /\ buf \in [Overlappeds -> BufferType]
         /\ \A o \in Overlappeds : buf[o] \in BufferType
  BY DEF TypeOK, BufferType, Nothing

\* An overlapped of the pool is nobody's receive.
LEMMA Pooled ==
  ASSUME NEW o \in Pool
  PROVE  o \in Overlappeds /\ to[o] = None /\ \A c \in Clients : posted[c] # o
  BY DEF Pool

\* The initial state: nothing is sent, read or stored.
LEMMA PathInit == Init => PathInv
  <1> SUFFICES ASSUME Init  PROVE PathInv
    OBVIOUS
  <1>1. sent = <<>> /\ \A c \in Clients : stream[c] = <<>>  BY DEF Init
  <1>2. NewOverlapped \in BufferType /\ Behind(NewOverlapped)
    BY SlotsNat DEF NewOverlapped, BufferType, Behind, Nothing
  <1>3. buf \in [Overlappeds -> BufferType] /\ \A o \in Overlappeds : Behind(buf[o])
    BY <1>2 DEF Init
  <1>4. /\ sent \in Seq(Messages) /\ stream \in [Clients -> Seq(PartType)]
        /\ posted \in [Clients -> Overlappeds \cup {None}]
        /\ to \in [Overlappeds -> Clients \cup {None}]
        /\ cache \in [Names -> JsonType \cup {None}] /\ rows \in [Names -> RowType \cup {None}]
        /\ delivery \in [Clients -> {"whole", "split", "lost"}] /\ crashed \in BOOLEAN
    <2>1. <<>> \in Seq(Messages) /\ <<>> \in Seq(PartType)  BY EmptySeq
    <2>2. sent \in Seq(Messages) /\ stream \in [Clients -> Seq(PartType)]
      BY <2>1 DEF Init
    <2> QED  BY <2>2 DEF Init
  <1>5. TypeOK  BY <1>3, <1>4 DEF TypeOK, BufferType, Nothing
  <1>6. StreamInv  BY <1>1 DEF StreamInv, Wire
  <1>7. BufferInv  BY <1>3 DEF Init, BufferInv
  <1>8. KeyInv  BY DEF Init, KeyInv
  <1> QED  BY <1>5, <1>6, <1>7, <1>8 DEF PathInv

\* A whole message more on one client's wire.
LEMMA SendPath ==
  ASSUME PathInv, NEW c \in Clients, NEW name \in Names \ {Empty}, SendMessage(c, name)
  PROVE  PathInv' /\ Range(sent') = Range(sent) \cup {Message(c, name, Len(sent) + 1)}
  <1>1. PICK m : m = Message(c, name, Len(sent) + 1)  OBVIOUS
  <1>2. m \in Messages /\ m.from = c
    BY <1>1, SlotsNat DEF SendMessage, Messages, Message, PathInv, TypeOK
  <1>3. /\ sent' = Append(sent, m) /\ stream' = [stream EXCEPT ![c] = @ \o Encoded(m)]
        /\ UNCHANGED <<buf, posted, to, delivery, cache, rows, crashed>>
    BY <1>1 DEF SendMessage
  <1>4. TypeOK /\ StreamInv /\ BufferInv /\ KeyInv  BY DEF PathInv
  <1>5. sent' \in Seq(Messages) /\ Range(sent') = Range(sent) \cup {m}
    BY <1>2, <1>3, <1>4, RangeGrows DEF TypeOK
  <1>6. PICK more : more = stream[c] \o Encoded(m)  OBVIOUS
  <1>7. /\ more \in Seq(PartType) /\ Wire(c, more)
        /\ \A i \in 1 .. Len(more) :
             more[i].message = m \/ (i \in 1 .. Len(stream[c]) /\ more[i] = stream[c][i])
    <2>1. stream[c] \in Seq(PartType) /\ Wire(c, stream[c])  BY <1>4 DEF TypeOK, StreamInv
    <2> QED  BY <1>2, <1>6, <2>1, WireSent
  <1>8. \A i \in 1 .. Len(more) : more[i].message \in Range(sent')
    BY <1>4, <1>5, <1>7 DEF StreamInv
  <1>9. stream' = [stream EXCEPT ![c] = more]  BY <1>3, <1>6
  <1>10. StreamInv'
    <2> SUFFICES ASSUME NEW d \in Clients
                 PROVE  /\ Wire(d, stream'[d])
                        /\ \A i \in 1 .. Len(stream'[d]) : stream'[d][i].message \in Range(sent')
      BY DEF StreamInv
    <2>1. CASE d = c  BY <1>4, <1>7, <1>8, <1>9, <2>1 DEF TypeOK
    <2>2. CASE d # c  BY <1>4, <1>5, <1>9, <2>2 DEF TypeOK, StreamInv
    <2> QED  BY <2>1, <2>2
  <1>11. TypeOK'  BY <1>3, <1>4, <1>5, <1>7, <1>9 DEF TypeOK
  <1>12. BufferInv' /\ KeyInv'  BY <1>3, <1>4 DEF BufferInv, KeyInv
  <1> QED  BY <1>1, <1>5, <1>10, <1>11, <1>12 DEF PathInv

\* The first receive of a connection.
LEMMA AcceptPath ==
  ASSUME PathInv, NEW c \in Clients, Accept(c)
  PROVE  PathInv'
  <1>1. PICK r \in Pool : /\ posted' = [posted EXCEPT ![c] = r]
                          /\ buf' = [buf EXCEPT ![r] = Clear(@)]
    BY DEF Accept
  <1>2. UNCHANGED <<sent, stream, to, delivery, cache, rows, crashed>> /\ posted[c] = None
    BY DEF Accept
  <1>3. TypeOK /\ StreamInv /\ BufferInv /\ KeyInv  BY DEF PathInv
  <1>4. r \in Overlappeds /\ to[r] = None /\ \A d \in Clients : posted[d] # r  BY Pooled
  <1>5. PICK b : b = Clear(buf[r])  OBVIOUS
  <1>6. b \in BufferType /\ Clean(b) /\ Behind(b)
    BY <1>3, <1>4, <1>5, Types, ClearCleans DEF BufferInv
  <1>7. buf' = [buf EXCEPT ![r] = b]  BY <1>1, <1>5
  <1>8. buf' \in [Overlappeds -> BufferType]  BY <1>3, <1>6, <1>7, Types
  <1>9. posted' \in [Clients -> Overlappeds \cup {None}]  BY <1>1, <1>3, <1>4 DEF TypeOK
  <1>10. TypeOK'  BY <1>2, <1>3, <1>8, <1>9 DEF TypeOK, BufferType, Nothing
  <1>11. \A o \in Overlappeds : buf'[o] = IF o = r THEN b ELSE buf[o]
    BY <1>3, <1>7, Types
  <1>12. \A d \in Clients : posted'[d] = IF d = c THEN r ELSE posted[d]
    BY <1>1, <1>3 DEF TypeOK
  <1>13. BufferInv'
    <2>1. \A o \in Overlappeds : Behind(buf'[o])  BY <1>3, <1>6, <1>11 DEF BufferInv
    <2>2. ASSUME NEW d \in Clients, posted'[d] # None
          PROVE  /\ Clean(buf'[posted'[d]]) /\ to'[posted'[d]] = None
                 /\ \A e \in Clients : posted'[e] = posted'[d] => e = d
      <3>1. posted[d] \in Overlappeds \cup {None}  BY <1>3 DEF TypeOK
      <3> QED  BY <1>2, <1>3, <1>4, <1>6, <1>11, <1>12, <2>2, <3>1 DEF BufferInv
    <2> QED  BY <2>1, <2>2 DEF BufferInv
  <1>14. StreamInv' /\ KeyInv'  BY <1>2, <1>3 DEF StreamInv, KeyInv
  <1> QED  BY <1>10, <1>13, <1>14 DEF PathInv

\* A receive takes parts off the wire ...
LEMMA ReceiveWire ==
  ASSUME PathInv, NEW c \in Clients, NEW arrived, Receive(c, arrived)
  PROVE  /\ StreamInv' /\ stream' \in [Clients -> Seq(PartType)] /\ delivery' \in [Clients -> {"whole", "split", "lost"}]
         /\ \A d \in Clients : d # c => stream'[d] = stream[d]
  <1> DEFINE k == Taken(posted[c], arrived)
             rest == SubSeq(stream[c], k + 1, Len(stream[c]))
  <1>1. /\ stream' = [stream EXCEPT ![c] = rest] /\ sent' = sent
        /\ arrived \in 1 .. Len(stream[c]) /\ posted[c] # None
    BY DEF Receive
  <1>2. delivery' \in [Clients -> {"whole", "split", "lost"}]
    BY DEF Receive, Delivered, PathInv, TypeOK
  <1>3. TypeOK /\ StreamInv  BY DEF PathInv
  <1>4. k \in 0 .. Len(stream[c]) /\ stream[c] \in Seq(PartType) /\ Wire(c, stream[c])
    BY <1>1, <1>3, ReadParts DEF TypeOK, StreamInv
  <1>5. /\ rest \in Seq(PartType) /\ Wire(c, rest) /\ Len(rest) = Len(stream[c]) - k
        /\ \A i \in 1 .. Len(rest) : rest[i] = stream[c][k + i]
    BY <1>4, WireTaken
  <1> HIDE DEF rest, k
  <1>6. \A i \in 1 .. Len(rest) : rest[i].message \in Range(sent)
    <2>1. \A i \in 1 .. Len(rest) : k + i \in 1 .. Len(stream[c])  BY <1>4, <1>5
    <2> QED  BY <1>3, <1>5, <2>1 DEF StreamInv
  <1>7. stream' \in [Clients -> Seq(PartType)]  BY <1>1, <1>3, <1>5 DEF TypeOK
  <1>8. \A d \in Clients : stream'[d] = IF d = c THEN rest ELSE stream[d]
    BY <1>1, <1>3 DEF TypeOK
  <1>9. StreamInv'  BY <1>1, <1>3, <1>5, <1>6, <1>8 DEF StreamInv
  <1> QED  BY <1>2, <1>7, <1>8, <1>9

\* ... and posts a clean overlapped for the next one, whatever was written into
\* the others meanwhile.
LEMMA Recycled ==
  ASSUME PathInv, NEW c \in Clients, posted[c] # None,
         NEW arrived \in 1 .. Len(stream[c]), NEW r \in Pool,
         NEW replied \in [Overlappeds -> BufferType], \A o \in Overlappeds : Behind(replied[o]),
         \A d \in Clients : posted[d] # None =>
           replied[posted[d]] = buf[posted[d]] /\ to'[posted[d]] = None,
         to'[r] = None, Recycle(c, arrived, r, replied)
  PROVE  /\ posted' \in [Clients -> Overlappeds \cup {None}]
         /\ buf' \in [Overlappeds -> BufferType] /\ BufferInv'
         /\ \A o \in Overlappeds : o \notin {posted[c], r} => buf'[o] = replied[o]
  <1> DEFINE old == [slots |-> Read(c, arrived), len |-> replied[posted[c]].len]
  <1>1. PICK o : o = posted[c]  OBVIOUS
  <1>2. TypeOK /\ BufferInv  BY DEF PathInv
  <1>3. o \in Overlappeds /\ r \in Overlappeds /\ r # o /\ \A d \in Clients : posted[d] # r
    BY <1>1, <1>2, Pooled DEF TypeOK
  <1>4. old.len = Slots  BY <1>1, <1>2, <1>3 DEF BufferInv, Clean
  <1>5. old \in BufferType /\ Behind(old)
    <2>1. Read(c, arrived) \in [1 .. Slots -> PartType \cup Nothing]  BY ReadParts
    <2> QED  BY <1>4, <2>1, SlotsNat DEF BufferType, Behind
  <1>6. PICK wiped : wiped = Clear(old)  OBVIOUS
  <1>7. wiped \in BufferType /\ Clean(wiped) /\ Behind(wiped)
    <2> HIDE DEF old
    <2> QED  BY <1>5, <1>6, ClearCleans
  <1>8. PICK fresh : fresh = Clear(replied[r])  OBVIOUS
  <1>9. fresh \in BufferType /\ Clean(fresh) /\ Behind(fresh)
    BY <1>3, <1>8, ClearCleans
  <1>10. /\ posted' = [posted EXCEPT ![c] = r]
         /\ buf' = [[replied EXCEPT ![o] = wiped] EXCEPT ![r] = fresh]
    BY <1>1, <1>3, <1>6, <1>8 DEF Recycle
  <1>11. posted' \in [Clients -> Overlappeds \cup {None}]  BY <1>2, <1>3, <1>10 DEF TypeOK
  <1>12. buf' \in [Overlappeds -> BufferType]  BY <1>7, <1>9, <1>10
  <1>13. \A p \in Overlappeds :
           buf'[p] = IF p = r THEN fresh ELSE IF p = o THEN wiped ELSE replied[p]
    BY <1>3, <1>10
  <1>14. \A d \in Clients : posted'[d] = IF d = c THEN r ELSE posted[d]
    BY <1>2, <1>10 DEF TypeOK
  <1>15. \A p \in Overlappeds : Behind(buf'[p])  BY <1>7, <1>9, <1>13
  <1>16. ASSUME NEW d \in Clients, posted'[d] # None
         PROVE  /\ Clean(buf'[posted'[d]]) /\ to'[posted'[d]] = None
                /\ \A e \in Clients : posted'[e] = posted'[d] => e = d
    <2>1. CASE d = c  BY <1>3, <1>9, <1>13, <1>14, <2>1
    <2>2. CASE d # c
      <3>1. posted'[d] = posted[d] /\ posted[d] \in Overlappeds /\ posted[d] \notin {o, r}
        BY <1>1, <1>2, <1>3, <1>14, <1>16, <2>2 DEF TypeOK, BufferInv
      <3>2. buf'[posted[d]] = buf[posted[d]]  BY <1>13, <1>16, <3>1
      <3> QED  BY <1>2, <1>3, <1>14, <1>16, <3>1, <3>2 DEF BufferInv
    <2> QED  BY <2>1, <2>2
  <1>17. BufferInv'  BY <1>15, <1>16 DEF BufferInv
  <1> QED  BY <1>1, <1>11, <1>12, <1>13, <1>17

\* What the network has done to a client's messages is not undone.
Grows ==
  \A c \in Clients :
    delivery'[c] = delivery[c] \/ delivery[c] = "whole" \/ delivery'[c] = "lost"

LEMMA DeliveryGrows ==
  ASSUME PathInv, NEW c \in Clients, NEW arrived, Receive(c, arrived)
  PROVE  /\ Grows
         /\ delivery'[c] = Delivered(c, arrived)
         /\ \A d \in Clients : d # c => delivery'[d] = delivery[d]
  <1>1. delivery' = [delivery EXCEPT ![c] = Delivered(c, arrived)]  BY DEF Receive
  <1>2. delivery \in [Clients -> {"whole", "split", "lost"}]  BY DEF PathInv, TypeOK
  <1>3. /\ delivery'[c] = Delivered(c, arrived)
        /\ \A d \in Clients : d # c => delivery'[d] = delivery[d]
    BY <1>1, <1>2
  <1>4. delivery[c] = "lost" \/ delivery[c] = "split" \/ delivery[c] = "whole"
    BY <1>2
  <1>5. \/ Delivered(c, arrived) = delivery[c] \/ delivery[c] = "whole"
        \/ Delivered(c, arrived) = "lost"
    BY <1>4 DEF Delivered
  <1> QED  BY <1>3, <1>5 DEF Grows

\* A receive that is not lost has read a header first.
LEMMA HeaderRead ==
  ASSUME PathInv, NEW c \in Clients, NEW arrived, Receive(c, arrived), delivery'[c] # "lost"
  PROVE  Whole(Read(c, arrived), 1)
  <1>1. posted[c] # None /\ arrived \in 1 .. Len(stream[c])  BY DEF Receive
  <1>2. PICK parts \in Seq(PartType) : parts = stream[c]  BY DEF PathInv, TypeOK
  <1>3. parts # <<>> /\ Len(parts) \in Nat /\ 1 \in 1 .. Len(parts)  BY <1>1, <1>2
  <1>4. parts[1].part = "ids"
    <2>1. Head(parts).part = "ids"  BY <1>2, DeliveryGrows DEF Delivered
    <2> QED  BY <1>3, <2>1
  <1>5. parts[1] \in PartType  BY <1>3, ElementOfSeq
  <1>6. Read(c, arrived)[1] = parts[1]
    <2>1. 1 \in 1 .. Slots /\ 1 <= Taken(posted[c], arrived)
      <3>1. Taken(posted[c], arrived) \in 1 .. Len(parts)  BY <1>1, <1>2, ReadParts
      <3> QED  BY <1>3, <3>1, SlotsNat
    <2> QED  BY <1>1, <1>2, <2>1, ReadParts
  <1>7. parts[1] \notin Nothing  BY <1>5, SavePathAssumption DEF Nothing
  <1> QED  BY <1>4, <1>6, <1>7 DEF Whole, Nothing, Parts

\* A receive of whole messages has read a request with its name, and the rest
\* begins with a header.
LEMMA WholeRead ==
  ASSUME PathInv, NEW c \in Clients, NEW arrived, Receive(c, arrived), delivery'[c] = "whole"
  PROVE  /\ delivery[c] = "whole"
         /\ \A i \in 1 .. 4 : Whole(Read(c, arrived), i)
         /\ stream'[c] # <<>> => Head(stream'[c]).part = "ids"
  <1> DEFINE slots == Read(c, arrived)
             k == Taken(posted[c], arrived)
             rest == SubSeq(stream[c], k + 1, Len(stream[c]))
  <1>1. /\ posted[c] # None /\ arrived \in 1 .. Len(stream[c])
        /\ stream' = [stream EXCEPT ![c] = rest]
        /\ delivery[c] = "whole" /\ Head(stream[c]).part = "ids"
        /\ stream[c][arrived].part = "name" /\ arrived <= Slots
    <2>1. Delivered(c, arrived) = "whole"  BY DeliveryGrows
    <2>2. /\ delivery[c] = "whole" /\ Head(stream[c]).part = "ids"
          /\ stream[c][arrived].part = "name" /\ ~ (arrived > Slots)
      BY <2>1 DEF Delivered
    <2>3. posted[c] # None /\ arrived \in 1 .. Len(stream[c])
      BY DEF Receive
    <2>4. arrived \in Nat  BY <2>3 DEF PathInv, TypeOK
    <2>5. stream' = [stream EXCEPT ![c] = rest]  BY DEF Receive
    <2> QED  BY <2>2, <2>3, <2>4, <2>5, SlotsNat
  <1>2. PICK parts \in Seq(PartType) : parts = stream[c]
    BY DEF PathInv, TypeOK
  <1>3. Wire(c, parts) /\ Len(parts) \in Nat  BY <1>2 DEF PathInv, StreamInv
  <1>4. parts # <<>> /\ parts[1].part = "ids" /\ arrived \in 1 .. Len(parts)
    <2>1. parts # <<>> /\ arrived \in 1 .. Len(parts)  BY <1>1, <1>2
    <2> QED  BY <1>1, <1>2, <2>1
  <1>5. k = arrived  BY <1>1, ReadParts, SlotsNat
  <1> HIDE DEF k
  <1>6. \A i \in 1 .. Len(parts) : i < Len(parts) => Follows(parts[i], parts[i + 1])
    BY <1>3 DEF Wire
  <1>7. arrived # 1 /\ 1 < Len(parts)  BY <1>1, <1>2, <1>3, <1>4
  <1>8. parts[2].part = "type"
    <2>1. Follows(parts[1], parts[1 + 1])  BY <1>3, <1>6, <1>7
    <2> QED  BY <1>4, <2>1 DEF Follows
  <1>9. arrived # 2 /\ 2 < Len(parts)  BY <1>1, <1>2, <1>3, <1>4, <1>7, <1>8
  <1>10. parts[3].part = "table"
    <2>1. Follows(parts[2], parts[2 + 1])  BY <1>3, <1>6, <1>9
    <2> QED  BY <1>8, <2>1 DEF Follows
  <1>11. arrived # 3 /\ 3 < Len(parts)  BY <1>1, <1>2, <1>3, <1>4, <1>9, <1>10
  <1>12. parts[4].part = "name"
    <2>1. Follows(parts[3], parts[3 + 1])  BY <1>3, <1>6, <1>11
    <2> QED  BY <1>10, <2>1 DEF Follows
  <1>13. arrived >= 4  BY <1>3, <1>4, <1>7, <1>9, <1>11
  <1>14. ASSUME NEW i \in 1 .. 4  PROVE Whole(slots, i)
    <2>1. i \in 1 .. Slots /\ i <= arrived /\ i \in 1 .. Len(parts)
      BY <1>3, <1>4, <1>13, SlotsNat
    <2>2. slots[i] = parts[i]
      BY <1>1, <1>2, <1>5, <2>1, ReadParts DEF k
    <2>3. parts[i] \notin Nothing
      <3>1. parts[i] \in PartType  BY <2>1, ElementOfSeq
      <3> QED  BY <3>1, SavePathAssumption DEF Nothing
    <2>4. parts[i].part = Parts[i]
      <3>1. i = 1 \/ i = 2 \/ i = 3 \/ i = 4  OBVIOUS
      <3> QED  BY <1>4, <1>8, <1>10, <1>12, <3>1 DEF Parts
    <2> QED  BY <2>2, <2>3, <2>4 DEF Whole, Nothing
  <1>17. ASSUME stream'[c] # <<>>  PROVE Head(stream'[c]).part = "ids"
    <2>1. stream'[c] = SubSeq(parts, arrived + 1, Len(parts))
      BY <1>1, <1>2, <1>5 DEF PathInv, TypeOK
    <2>2. PICK tail : tail = SubSeq(parts, arrived + 1, Len(parts))  OBVIOUS
    <2>3. /\ tail \in Seq(PartType) /\ Len(tail) = Len(parts) - arrived
          /\ \A i \in 1 .. Len(tail) : tail[i] = parts[arrived + i]
      BY <1>3, <1>4, <2>2, WireTaken
    <2>4. tail # <<>>  BY <1>17, <2>1, <2>2
    <2>5. Len(tail) > 0 /\ Head(tail) = tail[1]  BY <2>3, <2>4
    <2>6. Head(tail) = parts[arrived + 1] /\ arrived < Len(parts)
      BY <1>3, <1>4, <2>3, <2>5
    <2>7. Follows(parts[arrived], parts[arrived + 1])  BY <1>4, <1>6, <2>6
    <2> QED  BY <1>1, <1>2, <2>1, <2>2, <2>6, <2>7 DEF Follows
  <1> QED  BY <1>1, <1>14, <1>17 DEF slots

\* What Response_SaveScore does: a score goes under a name, and the same name
\* goes back to the client.  The score is one that the client has sent, under
\* its name, unless a delivery has ended inside a message.
LEMMA SaveHandled ==
  ASSUME PathInv, NEW c \in Clients, NEW arrived, ReceiveSave(c, arrived)
  PROVE  \E m \in Messages, name \in Names, q \in Pool : \E r \in Pool \ {q} :
           /\ m.from = c
           /\ \/ delivery'[c] = "lost"
              \/ delivery'[c] = "split" /\ m = Scrap(c) /\ name = Empty
              \/ /\ delivery'[c] = "split" \/ name = m.name
                 /\ m \in Range(sent) /\ name \in Begins[m.name]
           /\ cache' = [cache EXCEPT ![name] = ScoreJson(name, m, KoreaTime(m.time))]
           /\ to' = [to EXCEPT ![q] = c]
           /\ Recycle(c, arrived, r,
                [buf EXCEPT ![q] = SetMessage(Clear(@), Encoded(Message(c, name, 0)))])
  <1> DEFINE slots == Read(c, arrived)
  <1>1. /\ arrived \in 1 .. Len(stream[c]) /\ posted[c] # None /\ Receive(c, arrived)
    BY DEF ReceiveSave, Receive
  <1>2. PICK request \in Requests(c, slots), q \in Pool : \E r \in Pool \ {q} :
          /\ cache' = [cache EXCEPT ![request.name] =
               ScoreJson(request.name, request.score, KoreaTime(request.score.time))]
          /\ to' = [to EXCEPT ![q] = c]
          /\ Recycle(c, arrived, r, [buf EXCEPT ![q] =
               SetMessage(Clear(@), Encoded(Message(c, request.name, 0)))])
    BY DEF ReceiveSave
  <1>3. PICK m, name : m = request.score /\ name = request.name  OBVIOUS
  <1>4. /\ m \in Messages /\ m.from = c /\ name \in Names
        /\ Whole(slots, 1) =>
             IF Whole(slots, 3)
             THEN /\ m \in Range(sent) /\ name \in Begins[m.name]
                  /\ Whole(slots, 4) => name = m.name
             ELSE m = Scrap(c) /\ name = Empty
    BY <1>1, <1>2, <1>3, RequestRead
  <1>5. delivery'[c] \in {"whole", "split", "lost"}  BY <1>1, ReceiveWire
  <1>6. \/ delivery'[c] = "lost"
        \/ delivery'[c] = "split" /\ m = Scrap(c) /\ name = Empty
        \/ /\ delivery'[c] = "split" \/ name = m.name
           /\ m \in Range(sent) /\ name \in Begins[m.name]
    <2>1. CASE delivery'[c] = "whole"
      <3>1. Whole(slots, 1) /\ Whole(slots, 3) /\ Whole(slots, 4)
        BY <1>1, <2>1, WholeRead
      <3> QED  BY <1>4, <3>1
    <2>2. CASE delivery'[c] = "split"
      <3>1. Whole(slots, 1)  BY <1>1, <2>2, HeaderRead
      <3> QED  BY <1>4, <2>2, <3>1
    <2> QED  BY <1>5, <2>1, <2>2
  <1> HIDE DEF slots
  <1> QED  BY <1>2, <1>3, <1>4, <1>6

\* The reply is set in an overlapped of the pool.
LEMMA ReplySet ==
  ASSUME PathInv, NEW c \in Clients, NEW name \in Names, NEW q \in Pool
  PROVE  LET replied == [buf EXCEPT ![q] = SetMessage(Clear(@), Encoded(Message(c, name, 0)))] IN
           /\ replied \in [Overlappeds -> BufferType]
           /\ \A o \in Overlappeds : Behind(replied[o])
           /\ \A o \in Overlappeds : o # q => replied[o] = buf[o]
           /\ SubSeq(replied[q].slots, 1, replied[q].len) = Encoded(Message(c, name, 0))
  <1> DEFINE replied == [buf EXCEPT ![q] = SetMessage(Clear(@), Encoded(Message(c, name, 0)))]
  <1>1. TypeOK /\ BufferInv /\ q \in Overlappeds  BY Pooled DEF PathInv
  <1>2. PICK m \in Messages : m = Message(c, name, 0)
    <2>1. 0 \in 0 .. MaxSent  BY SlotsNat
    <2> HIDE DEF replied
    <2>2. Message(c, name, 0) \in Messages  BY <2>1 DEF Message, Messages
    <2> QED  BY <2>2
  <1>3. PICK b \in BufferType : b = Clear(buf[q]) /\ Clean(b)
    BY <1>1, Types, ClearCleans DEF BufferInv
  <1>4. PICK reply : reply = SetMessage(b, Encoded(m))  OBVIOUS
  <1>5. /\ reply \in BufferType /\ Behind(reply)
        /\ SubSeq(reply.slots, 1, reply.len) = Encoded(m)
    BY <1>3, <1>4, MessageSet
  <1>6. replied = [buf EXCEPT ![q] = reply]  BY <1>2, <1>3, <1>4
  <1> HIDE DEF replied
  <1>7. replied \in [Overlappeds -> BufferType]  BY <1>1, <1>5, <1>6, Types
  <1>8. \A o \in Overlappeds : replied[o] = IF o = q THEN reply ELSE buf[o]
    BY <1>1, <1>6, Types
  <1>9. \A o \in Overlappeds : Behind(replied[o])  BY <1>1, <1>5, <1>8 DEF BufferInv
  <1>10. SubSeq(replied[q].slots, 1, replied[q].len) = Encoded(Message(c, name, 0))
    BY <1>1, <1>2, <1>5, <1>8
  <1>11. \A o \in Overlappeds : o # q => replied[o] = buf[o]  BY <1>8
  <1> QED  BY <1>7, <1>9, <1>10, <1>11 DEF replied

\* A receive that is a request to save.
LEMMA ReceiveSavePath ==
  ASSUME PathInv, NEW c \in Clients, NEW arrived, ReceiveSave(c, arrived)
  PROVE  PathInv'
  <1>1. /\ arrived \in 1 .. Len(stream[c]) /\ posted[c] # None
        /\ Receive(c, arrived) /\ UNCHANGED <<sent, rows, crashed>>
    BY DEF ReceiveSave, Receive
  <1>2. PICK m \in Messages, name \in Names, q \in Pool : \E r \in Pool \ {q} :
           /\ cache' = [cache EXCEPT ![name] = ScoreJson(name, m, KoreaTime(m.time))]
           /\ to' = [to EXCEPT ![q] = c]
           /\ Recycle(c, arrived, r,
                [buf EXCEPT ![q] = SetMessage(Clear(@), Encoded(Message(c, name, 0)))])
    BY SaveHandled
  <1>3. PICK replied :
          replied = [buf EXCEPT ![q] = SetMessage(Clear(@), Encoded(Message(c, name, 0)))]
    OBVIOUS
  <1>4. PICK r \in Pool \ {q} : Recycle(c, arrived, r, replied)  BY <1>2, <1>3
  <1>5. TypeOK /\ BufferInv /\ KeyInv  BY DEF PathInv
  <1>6. /\ q \in Overlappeds /\ r \in Overlappeds /\ q # r /\ to[q] = None /\ to[r] = None
        /\ \A d \in Clients : posted[d] # q
    BY Pooled
  <1>7. /\ replied \in [Overlappeds -> BufferType] /\ \A o \in Overlappeds : Behind(replied[o])
        /\ \A o \in Overlappeds : o # q => replied[o] = buf[o]
    BY <1>3, ReplySet
  <1>8. /\ to' \in [Overlappeds -> Clients \cup {None}]
        /\ \A o \in Overlappeds : o # q => to'[o] = to[o]
    BY <1>2, <1>5, <1>6 DEF TypeOK
  <1>9. \A d \in Clients : posted[d] # None =>
          replied[posted[d]] = buf[posted[d]] /\ to'[posted[d]] = None
    <2> SUFFICES ASSUME NEW d \in Clients, posted[d] # None
                 PROVE  replied[posted[d]] = buf[posted[d]] /\ to'[posted[d]] = None
      OBVIOUS
    <2>1. posted[d] \in Overlappeds /\ posted[d] # q  BY <1>5, <1>6 DEF TypeOK
    <2> QED  BY <1>5, <1>7, <1>8, <2>1 DEF BufferInv
  <1>10. to'[r] = None  BY <1>6, <1>8
  <1>11. /\ posted' \in [Clients -> Overlappeds \cup {None}]
         /\ buf' \in [Overlappeds -> BufferType] /\ BufferInv'
    BY <1>1, <1>4, <1>7, <1>9, <1>10, Recycled
  <1>12. PICK value : value = ScoreJson(name, m, KoreaTime(m.time))  OBVIOUS
  <1>13. value \in JsonType /\ value.player_id = name
    <2>1. m.time + 9 \in Int  BY SlotsNat DEF Messages
    <2> QED  BY <1>12, <2>1 DEF ScoreJson, KoreaTime, JsonType
  <1>14. cache' = [cache EXCEPT ![name] = value]  BY <1>2, <1>12
  <1>15. cache' \in [Names -> JsonType \cup {None}] /\ KeyInv'
    BY <1>5, <1>13, <1>14 DEF TypeOK, KeyInv
  <1>16. StreamInv' /\ stream' \in [Clients -> Seq(PartType)] /\ delivery' \in [Clients -> {"whole", "split", "lost"}]
    BY <1>1, ReceiveWire
  <1>17. TypeOK'  BY <1>1, <1>5, <1>8, <1>11, <1>15, <1>16 DEF TypeOK, BufferType, Nothing
  <1> QED  BY <1>11, <1>15, <1>16, <1>17 DEF PathInv

\* A receive of another kind.
LEMMA ReceiveOtherPath ==
  ASSUME PathInv, NEW c \in Clients, NEW arrived, ReceiveOther(c, arrived)
  PROVE  PathInv'
  <1>1. /\ arrived \in 1 .. Len(stream[c]) /\ posted[c] # None
        /\ Receive(c, arrived) /\ UNCHANGED <<sent, rows, to, cache, crashed>>
    BY DEF ReceiveOther, Receive
  <1>2. PICK r \in Pool : Recycle(c, arrived, r, buf)  BY DEF ReceiveOther
  <1>3. TypeOK /\ BufferInv /\ KeyInv  BY DEF PathInv
  <1>4. PICK replied : replied = buf  OBVIOUS
  <1>5. /\ replied \in [Overlappeds -> BufferType] /\ \A o \in Overlappeds : Behind(replied[o])
        /\ Recycle(c, arrived, r, replied)
    BY <1>2, <1>3, <1>4, Types DEF BufferInv
  <1>6. \A d \in Clients : posted[d] # None =>
          replied[posted[d]] = buf[posted[d]] /\ to'[posted[d]] = None
    BY <1>1, <1>3, <1>4 DEF BufferInv
  <1>7. to'[r] = None  BY <1>1, Pooled
  <1>8. /\ posted' \in [Clients -> Overlappeds \cup {None}]
        /\ buf' \in [Overlappeds -> BufferType] /\ BufferInv'
    BY <1>1, <1>5, <1>6, <1>7, Recycled
  <1>9. StreamInv' /\ stream' \in [Clients -> Seq(PartType)] /\ delivery' \in [Clients -> {"whole", "split", "lost"}]
    BY <1>1, ReceiveWire
  <1>10. TypeOK'  BY <1>1, <1>3, <1>8, <1>9 DEF TypeOK, BufferType, Nothing
  <1> QED  BY <1>1, <1>3, <1>8, <1>9, <1>10 DEF PathInv, KeyInv

\* A receive that ends the process.
LEMMA ReceiveFatalPath ==
  ASSUME PathInv, NEW c \in Clients, NEW arrived, ReceiveFatal(c, arrived)
  PROVE  PathInv'
  <1>1. Receive(c, arrived) /\ crashed' = TRUE /\ UNCHANGED <<sent, rows, buf, posted, to, cache>>
    BY DEF ReceiveFatal, Receive
  <1>2. TypeOK /\ BufferInv /\ KeyInv  BY DEF PathInv
  <1>3. StreamInv' /\ stream' \in [Clients -> Seq(PartType)] /\ delivery' \in [Clients -> {"whole", "split", "lost"}]
    BY <1>1, ReceiveWire
  <1>4. TypeOK'  BY <1>1, <1>2, <1>3 DEF TypeOK
  <1> QED  BY <1>1, <1>2, <1>3, <1>4 DEF PathInv, BufferInv, KeyInv

\* A reply is sent, its overlapped cleared.
LEMMA SentPath ==
  ASSUME PathInv, NEW o \in Overlappeds, Sent(o)
  PROVE  PathInv'
  <1>1. /\ to[o] # None
        /\ to' = [to EXCEPT ![o] = None] /\ buf' = [buf EXCEPT ![o] = Clear(@)]
        /\ UNCHANGED <<sent, stream, posted, delivery, cache, rows, crashed>>
    BY DEF Sent
  <1>2. TypeOK /\ StreamInv /\ BufferInv /\ KeyInv  BY DEF PathInv
  <1>3. PICK b \in BufferType : b = Clear(buf[o]) /\ Behind(b)
    BY <1>2, Types, ClearCleans DEF BufferInv
  <1>4. buf' = [buf EXCEPT ![o] = b]  BY <1>1, <1>3
  <1>5. /\ buf' \in [Overlappeds -> BufferType]
        /\ \A p \in Overlappeds : buf'[p] = IF p = o THEN b ELSE buf[p]
    BY <1>2, <1>4, Types
  <1>6. to' \in [Overlappeds -> Clients \cup {None}]  BY <1>1, <1>2 DEF TypeOK
  <1>7. TypeOK'  BY <1>1, <1>2, <1>5, <1>6 DEF TypeOK, BufferType, Nothing
  <1>8. \A d \in Clients : posted[d] # None =>
          /\ posted[d] # o
          /\ buf'[posted[d]] = buf[posted[d]] /\ to'[posted[d]] = to[posted[d]]
    BY <1>1, <1>2, <1>5 DEF TypeOK, BufferInv
  <1>9. \A p \in Overlappeds : Behind(buf'[p])  BY <1>2, <1>3, <1>5 DEF BufferInv
  <1>10. BufferInv'  BY <1>1, <1>2, <1>8, <1>9 DEF BufferInv
  <1>11. StreamInv' /\ KeyInv'  BY <1>1, <1>2 DEF StreamInv, KeyInv
  <1> QED  BY <1>7, <1>10, <1>11 DEF PathInv

\* A MERGE writes a row of table Score.
LEMMA SavePathKept ==
  ASSUME PathInv, NEW name \in Names, Save(name)
  PROVE  PathInv' /\ rows' = [rows EXCEPT ![name] = RowOf(cache[name])]
  <1>1. cache[name] # None /\ rows' = [rows EXCEPT ![cache[name].player_id] = RowOf(cache[name])]
        /\ UNCHANGED <<sent, stream, buf, posted, to, delivery, cache, crashed>>
    BY DEF Save, network
  <1>2. TypeOK /\ StreamInv /\ BufferInv /\ KeyInv  BY DEF PathInv
  <1>3. cache[name] \in JsonType /\ cache[name].player_id = name
    BY <1>1, <1>2 DEF TypeOK, KeyInv
  <1>4. PICK row \in RowType : row = RowOf(cache[name])
    BY <1>3 DEF RowOf, JsonType, RowType
  <1>5. rows' = [rows EXCEPT ![name] = row]  BY <1>1, <1>3, <1>4
  <1>6. rows' \in [Names -> RowType \cup {None}]  BY <1>2, <1>5 DEF TypeOK
  <1>7. TypeOK'  BY <1>1, <1>2, <1>6 DEF TypeOK
  <1>8. StreamInv' /\ BufferInv' /\ KeyInv'  BY <1>1, <1>2 DEF StreamInv, BufferInv, KeyInv
  <1> QED  BY <1>4, <1>5, <1>7, <1>8 DEF PathInv

\* ScoreDataLoad sets keys from rows whose names are cut to them.
LEMMA KeysLoaded ==
  ASSUME PathInv, Restart
  PROVE  /\ cache' \in [Names -> JsonType \cup {None}]
         /\ \A key \in Names :
              \/ cache'[key] = cache[key]
              \/ \E n \in Rows : Cut[n] = key /\ cache'[key] = Loaded(n, rows[n])
  <1>1. PICK last \in [{Cut[n] : n \in Rows} -> Rows] :
          /\ \A key \in DOMAIN last : Cut[last[key]] = key
          /\ cache' = [key \in Names |->
               IF key \in DOMAIN last THEN Loaded(last[key], rows[last[key]]) ELSE cache[key]]
    BY DEF Restart
  <1>2. TypeOK  BY DEF PathInv
  <1>3. \A n \in Rows : Loaded(n, rows[n]) \in JsonType
    <2> SUFFICES ASSUME NEW n \in Rows  PROVE Loaded(n, rows[n]) \in JsonType
      OBVIOUS
    <2>1. rows[n] \in RowType /\ n \in Names /\ Cut[n] \in Names
      BY <1>2, RecordsAssumption DEF Rows, TypeOK
    <2>2. rows[n].last_update + DaylightShift \in Int
      BY <2>1, RecordsAssumption DEF RowType
    <2> QED  BY <2>1, <2>2 DEF Loaded, ScoreJson, JsonType, RowType
  <1>4. \A key \in DOMAIN last : last[key] \in Rows  BY <1>1
  <1>5. \A key \in Names :
          \/ cache'[key] = cache[key]
          \/ \E n \in Rows : Cut[n] = key /\ cache'[key] = Loaded(n, rows[n])
    BY <1>1, <1>4
  <1>6. \A key \in Names : cache'[key] \in JsonType \cup {None}
    <2>1. \A key \in Names : cache[key] \in JsonType \cup {None}  BY <1>2 DEF TypeOK
    <2> QED  BY <1>3, <1>5, <2>1
  <1>7. cache' \in [Names -> JsonType \cup {None}]  BY <1>1, <1>6
  <1> QED  BY <1>5, <1>7

\* A new process: new buffers and connections, the table loaded.
LEMMA RestartPath ==
  ASSUME PathInv, Restart
  PROVE  PathInv'
  <1>1. /\ stream' = [c \in Clients |-> <<>>] /\ buf' = [o \in Overlappeds |-> NewOverlapped]
        /\ posted' = [c \in Clients |-> None] /\ to' = [o \in Overlappeds |-> None]
        /\ crashed' = FALSE /\ UNCHANGED <<sent, delivery, rows>>
    BY DEF Restart
  <1>2. TypeOK /\ KeyInv  BY DEF PathInv
  <1>3. NewOverlapped \in BufferType /\ Behind(NewOverlapped)
    BY SlotsNat DEF NewOverlapped, BufferType, Behind, Nothing
  <1>4. buf' \in [Overlappeds -> BufferType] /\ \A o \in Overlappeds : Behind(buf'[o])
    BY <1>1, <1>3
  <1>5. stream' \in [Clients -> Seq(PartType)]  BY <1>1, EmptySeq
  <1>6. /\ posted' \in [Clients -> Overlappeds \cup {None}]
        /\ to' \in [Overlappeds -> Clients \cup {None}]
    BY <1>1
  <1>7. cache' \in [Names -> JsonType \cup {None}]  BY KeysLoaded
  <1>8. TypeOK'  BY <1>1, <1>2, <1>4, <1>5, <1>6, <1>7 DEF TypeOK, BufferType, Nothing
  <1>9. StreamInv' /\ BufferInv'  BY <1>1, <1>4 DEF StreamInv, Wire, BufferInv
  <1>10. KeyInv'
    <2>1. \A n \in Rows : Loaded(n, rows[n]).player_id = Cut[n]
      BY DEF Loaded, ScoreJson
    <2> QED  BY <1>2, <2>1, KeysLoaded DEF KeyInv
  <1> QED  BY <1>8, <1>9, <1>10 DEF PathInv

\* Every step keeps the invariant.
LEMMA PathStep == PathInv /\ [Next]_vars => PathInv'
  <1> SUFFICES ASSUME PathInv, [Next]_vars  PROVE PathInv'
    OBVIOUS
  <1>1. CASE \E c \in Clients, name \in Names \ {Empty} : SendMessage(c, name)
    BY <1>1, SendPath
  <1>2. CASE \E c \in Clients : Accept(c)  BY <1>2, AcceptPath
  <1>3. CASE \E c \in Clients : \E arrived \in 1 .. Len(stream[c]) :
               ReceiveSave(c, arrived) \/ ReceiveOther(c, arrived) \/ ReceiveFatal(c, arrived)
    BY <1>3, ReceiveSavePath, ReceiveOtherPath, ReceiveFatalPath
  <1>4. CASE \E o \in Overlappeds : Sent(o)  BY <1>4, SentPath
  <1>5. CASE \E name \in Names : Save(name)  BY <1>5, SavePathKept
  <1>6. CASE Restart  BY <1>6, RestartPath
  <1>7. CASE UNCHANGED vars
    BY <1>7 DEF vars, network, PathInv, TypeOK, StreamInv, BufferInv, KeyInv
  <1> QED  BY <1>1, <1>2, <1>3, <1>4, <1>5, <1>6, <1>7 DEF Next

\* It always holds.
LEMMA PathInvHolds == Spec => []PathInv
  BY PathInit, PathStep, PTL DEF Spec

\* Every variable keeps its type, whatever TCP delivers.
THEOREM PathTypeCorrect == Spec => []TypeOK
  <1>1. PathInv => TypeOK  BY DEF PathInv
  <1> QED  BY <1>1, PathInvHolds, PTL

-----------------------------------------------------------------------------
(* Whose score. *)

\* OwnScore in the state after a step.
StoredNext(score) ==
  LET given == IF delivery'[score.from] = "whole" THEN {score.name} ELSE Begins[score.name]
  IN  given \cup {Cut[n] : n \in given}

OwnNext(name, value) ==
  LET score == value.score IN
  \/ delivery'[score.from] = "lost"
  \/ delivery'[score.from] = "split" /\ score = Scrap(score.from) /\ name = Empty
  \/ /\ score \in Range(sent')
     /\ name \in StoredNext(score)
     /\ DaylightShift = 0 => value.last_update = KoreaTime(score.time)

KeptNext ==
  \A n \in Names :
    /\ cache'[n] # None => OwnNext(n, cache'[n])
    /\ rows'[n] # None => OwnNext(n, rows'[n])

LEMMA ScoresKept == KeptNext => ScoresAsSent'
  BY DEF ScoresAsSent, KeptNext, OwnScore, OwnNext, StoredUnder, StoredNext

\* The history of what came from a client only adds ways to store a score.
LEMMA OwnStays ==
  ASSUME PathInv, NEW name, NEW value, value.score \in Messages, OwnScore(name, value),
         Range(sent) \subseteq Range(sent'), Grows
  PROVE  OwnNext(name, value)
  <1> DEFINE score == value.score
             c     == score.from
  <1>1. c \in Clients /\ score.name \in Names  BY DEF Messages
  <1>2. score.name \in Begins[score.name]  BY <1>1, RecordsAssumption
  <1>3. \/ delivery'[c] = delivery[c]
        \/ delivery[c] = "whole"
        \/ delivery'[c] = "lost"
    BY <1>1 DEF Grows
  <1>4. CASE delivery'[c] = delivery[c]
    BY <1>4 DEF OwnScore, StoredUnder, OwnNext, StoredNext
  <1>5. CASE delivery'[c] = "lost"
    BY <1>5 DEF OwnNext
  <1>6. CASE delivery[c] = "whole"
    <2>1. /\ score \in Range(sent) /\ name \in {score.name} \cup {Cut[n] : n \in {score.name}}
          /\ DaylightShift = 0 => value.last_update = KoreaTime(score.time)
      BY <1>6 DEF OwnScore, StoredUnder
    <2>2. name \in StoredNext(score)
      BY <1>2, <2>1 DEF StoredNext
    <2> QED  BY <2>1, <2>2 DEF OwnNext
  <1> QED  BY <1>3, <1>4, <1>5, <1>6

\* Every step keeps the messages sent and the scores stored under their names.
LEMMA ScoreStep == PathInv /\ ScoresAsSent /\ [Next]_vars => ScoresAsSent'
  <1> SUFFICES ASSUME PathInv, ScoresAsSent, [Next]_vars  PROVE ScoresAsSent'
    OBVIOUS
  <1>1. TypeOK /\ KeyInv  BY DEF PathInv
  <1>2. SUFFICES KeptNext  BY ScoresKept
  <1>3. \A n \in Names :
          /\ cache[n] # None => cache[n].score \in Messages /\ OwnScore(n, cache[n])
          /\ rows[n] # None => rows[n].score \in Messages /\ OwnScore(n, rows[n])
    BY <1>1 DEF TypeOK, JsonType, RowType, ScoresAsSent
  <1>4. ASSUME Range(sent) \subseteq Range(sent'), Grows
        PROVE  \A n \in Names : /\ cache[n] # None => OwnNext(n, cache[n])
                                /\ rows[n] # None => OwnNext(n, rows[n])
    <2>1. ASSUME NEW n \in Names, NEW v, v.score \in Messages, OwnScore(n, v)
          PROVE  OwnNext(n, v)
      BY <1>4, <2>1, OwnStays
    <2> QED  BY <1>3, <2>1
  <1>5. ASSUME UNCHANGED delivery  PROVE Grows
    BY <1>5 DEF Grows
  <1>6. ASSUME Range(sent) \subseteq Range(sent'), UNCHANGED <<cache, rows>>, Grows
        PROVE  KeptNext
    BY <1>4, <1>6 DEF KeptNext
  <1>7. ASSUME NEW c \in Clients, NEW name \in Names \ {Empty}, SendMessage(c, name)
        PROVE  KeptNext
    <2>1. Range(sent) \subseteq Range(sent')  BY <1>7, SendPath
    <2> QED  BY <1>5, <1>6, <1>7, <2>1 DEF SendMessage
  <1>8. ASSUME NEW c \in Clients, NEW arrived, Receive(c, arrived)
        PROVE  Range(sent) \subseteq Range(sent') /\ Grows /\ rows' = rows
    BY <1>8, DeliveryGrows DEF Receive
  <1>9. ASSUME NEW c \in Clients, NEW arrived, ReceiveSave(c, arrived)
        PROVE  KeptNext
    <2>1. Receive(c, arrived)  BY <1>9 DEF ReceiveSave
    <2>2. PICK m \in Messages, name \in Names, q \in Pool : \E r \in Pool \ {q} :
            /\ m.from = c
            /\ \/ delivery'[c] = "lost"
               \/ delivery'[c] = "split" /\ m = Scrap(c) /\ name = Empty
               \/ /\ delivery'[c] = "split" \/ name = m.name
                  /\ m \in Range(sent) /\ name \in Begins[m.name]
            /\ cache' = [cache EXCEPT ![name] = ScoreJson(name, m, KoreaTime(m.time))]
            /\ to' = [to EXCEPT ![q] = c]
            /\ Recycle(c, arrived, r,
                 [buf EXCEPT ![q] = SetMessage(Clear(@), Encoded(Message(c, name, 0)))])
      BY <1>9, SaveHandled
    <2>3. PICK value : value = ScoreJson(name, m, KoreaTime(m.time))  OBVIOUS
    <2>4. value.score = m /\ value.last_update = KoreaTime(m.time)
      BY <2>3 DEF ScoreJson
    <2>5. m \in Range(sent) => m \in Range(sent')  BY <1>8, <2>1
    <2>6. OwnNext(name, value)
      <3>1. CASE delivery'[c] = "lost"  BY <2>2, <2>4, <3>1 DEF OwnNext
      <3>2. CASE delivery'[c] = "split" /\ m = Scrap(c) /\ name = Empty
        BY <2>2, <2>4, <3>2 DEF OwnNext
      <3>3. CASE /\ delivery'[c] = "split" \/ name = m.name
                 /\ m \in Range(sent) /\ name \in Begins[m.name]
        <4>1. name \in StoredNext(m)  BY <2>2, <3>3 DEF StoredNext
        <4> QED  BY <2>4, <2>5, <3>3, <4>1 DEF OwnNext
      <3> QED  BY <2>2, <3>1, <3>2, <3>3
    <2>7. \A n \in Names : cache'[n] = IF n = name THEN value ELSE cache[n]
      BY <1>1, <2>2, <2>3 DEF TypeOK
    <2> QED  BY <1>4, <1>8, <2>1, <2>6, <2>7 DEF KeptNext
  <1>10. ASSUME NEW c \in Clients, NEW arrived,
                ReceiveOther(c, arrived) \/ ReceiveFatal(c, arrived)
         PROVE  KeptNext
    <2>1. Receive(c, arrived) /\ cache' = cache
      BY <1>10 DEF ReceiveOther, ReceiveFatal
    <2> QED  BY <1>6, <1>8, <2>1
  <1>11. ASSUME UNCHANGED <<sent, delivery>>
         PROVE  \A n, v : OwnScore(n, v) => OwnNext(n, v)
    BY <1>11 DEF OwnScore, StoredUnder, OwnNext, StoredNext
  <1>12. ASSUME NEW name \in Names, Save(name)
         PROVE  KeptNext
    <2>1. cache[name] # None /\ UNCHANGED <<sent, delivery, cache>>
      BY <1>12 DEF Save, network
    <2>2. PICK row : row = RowOf(cache[name])  OBVIOUS
    <2>3. OwnScore(name, row)
      BY <1>3, <2>1, <2>2 DEF OwnScore, RowOf
    <2>4. \A n \in Names : rows'[n] = IF n = name THEN row ELSE rows[n]
      BY <1>1, <1>12, <2>2, SavePathKept DEF TypeOK
    <2> QED  BY <1>3, <1>11, <2>1, <2>3, <2>4 DEF KeptNext
  <1>13. ASSUME Restart  PROVE KeptNext
    <2>1. UNCHANGED <<sent, delivery, rows>>  BY <1>13 DEF Restart
    <2>2. ASSUME NEW n \in Rows  PROVE OwnScore(Cut[n], Loaded(n, rows[n]))
      <3>1. n \in Names /\ OwnScore(n, rows[n]) /\ Cut[Cut[n]] = Cut[n]
        BY <2>2, RecordsAssumption DEF Rows, ScoresAsSent
      <3>2. PICK old, new : old = rows[n] /\ new = Loaded(n, rows[n])  OBVIOUS
      <3>3. new.score = old.score /\ new.last_update = old.last_update + DaylightShift
        BY <3>2 DEF Loaded, ScoreJson
      <3>4. old.last_update \in Int /\ old.score \in Messages
        BY <1>1, <2>2, <3>2 DEF Rows, TypeOK, RowType
      <3>5. Cut[Empty] = Empty  BY SavePathAssumption
      <3>6. DaylightShift = 0 => old.last_update + DaylightShift = old.last_update
        BY <3>4
      <3>7. \A k \in Names : Cut[Cut[k]] = Cut[k]  BY RecordsAssumption
      <3>8. old.score.name \in Names /\ Begins[old.score.name] \subseteq Names
        <4>1. old.score.name \in Names  BY <3>4 DEF Messages
        <4> QED  BY <4>1, RecordsAssumption
      <3>9. n \in StoredUnder(old.score) => Cut[n] \in StoredUnder(old.score)
        BY <3>7, <3>8 DEF StoredUnder
      <3>10. OwnScore(n, old)  BY <3>1, <3>2
      <3>11. OwnScore(Cut[n], new)
        BY <3>3, <3>5, <3>6, <3>9, <3>10 DEF OwnScore
      <3> QED  BY <3>2, <3>11
    <2>3. ASSUME NEW n \in Names
          PROVE  /\ cache'[n] # None => OwnNext(n, cache'[n])
                 /\ rows'[n] # None => OwnNext(n, rows'[n])
      <3>1. cache'[n] # None => OwnScore(n, cache'[n])
        BY <1>3, <1>13, <2>2, KeysLoaded
      <3> QED  BY <1>3, <1>11, <2>1, <3>1
    <2> QED  BY <2>3 DEF KeptNext
  <1>14. ASSUME NEW c \in Clients, Accept(c)  PROVE KeptNext
    BY <1>5, <1>6, <1>14 DEF Accept
  <1>15. ASSUME NEW o \in Overlappeds, Sent(o)  PROVE KeptNext
    BY <1>5, <1>6, <1>15 DEF Sent
  <1>16. CASE UNCHANGED vars  BY <1>5, <1>6, <1>16 DEF vars, network
  <1> QED
    BY <1>7, <1>9, <1>10, <1>12, <1>13, <1>14, <1>15, <1>16 DEF Next

\* What is stored came whole as it was sent, or from a client whose own delivery
\* ended inside a message, and then the name is a beginning (Hub.cpp:62-66,
\* DatabaseWorker.cpp:123).
THEOREM ScoresSafe == Spec => []ScoresAsSent
  <1>1. Init => ScoresAsSent  BY DEF Init, ScoresAsSent
  <1> QED  BY <1>1, PathInvHolds, ScoreStep, PTL DEF Spec

-----------------------------------------------------------------------------
(* Whose reply. *)

\* NamesTold in the state after a step.
NamesNext(c) == {m.name : m \in {n \in Range(sent') : n.from = c}}

ToldNext(c) ==
  CASE delivery'[c] = "whole" -> NamesNext(c)
    [] delivery'[c] = "split" -> UNION {Begins[n] : n \in NamesNext(c)}
    [] delivery'[c] = "lost"  -> Names

RepliesNext ==
  \A o \in Overlappeds :
    to'[o] # None =>
      \E name \in ToldNext(to'[o]) :
        SubSeq(buf'[o].slots, 1, buf'[o].len) = Encoded(Message(to'[o], name, 0))

LEMMA RepliesKept == RepliesNext => RepliesAreOwn'
  BY DEF RepliesNext, RepliesAreOwn, ToldNext, NamesNext, NamesTold, RequestNames

\* What has been sent are messages.
LEMMA RangeSent == ASSUME PathInv  PROVE \A m \in Range(sent) : m \in Messages
  <1>1. sent \in Seq(Messages)  BY DEF PathInv, TypeOK
  <1> QED  BY <1>1 DEF Range

\* The history of what came from a client only adds names it may be told.
LEMMA ToldGrows ==
  ASSUME PathInv, NEW c \in Clients, Range(sent) \subseteq Range(sent'), Grows,
         delivery'[c] \in {"whole", "split", "lost"}
  PROVE  NamesTold(c) \subseteq ToldNext(c)
  <1>1. RequestNames(c) \subseteq NamesNext(c)  BY DEF RequestNames, NamesNext
  <1>2. RequestNames(c) \subseteq Names
    BY RangeSent DEF RequestNames, Messages
  <1>3. delivery[c] \in {"whole", "split", "lost"}  BY DEF PathInv, TypeOK
  <1>4. RequestNames(c) \subseteq UNION {Begins[n] : n \in NamesNext(c)}
    BY <1>1, <1>2, RecordsAssumption
  <1>5. UNION {Begins[n] : n \in RequestNames(c)} \subseteq UNION {Begins[n] : n \in NamesNext(c)}
    BY <1>1
  <1>6. UNION {Begins[n] : n \in RequestNames(c)} \subseteq Names
    BY <1>2, RecordsAssumption
  <1>7. CASE delivery'[c] = delivery[c]
    BY <1>1, <1>3, <1>5, <1>7 DEF NamesTold, ToldNext
  <1>8. CASE delivery[c] = "whole"
    BY <1>1, <1>2, <1>4, <1>8 DEF NamesTold, ToldNext
  <1>9. CASE delivery'[c] = "lost"
    BY <1>2, <1>3, <1>6, <1>9 DEF NamesTold, ToldNext
  <1> QED  BY <1>7, <1>8, <1>9 DEF Grows

\* A client from which a part comes has sent a message.
LEMMA HasSent ==
  ASSUME PathInv, NEW c \in Clients, NEW arrived, Receive(c, arrived)
  PROVE  \E m \in Range(sent) : m \in Messages /\ m.from = c
  <1>1. PICK parts \in Seq(PartType) : parts = stream[c]  BY DEF PathInv, TypeOK
  <1>2. arrived \in 1 .. Len(parts)  BY <1>1 DEF Receive
  <1>3. Len(parts) \in Nat /\ 1 \in 1 .. Len(parts)  BY <1>1, <1>2
  <1>4. parts[1] \in PartType  BY <1>3, ElementOfSeq
  <1>5. Wire(c, parts)  BY <1>1 DEF PathInv, StreamInv
  <1>6. parts[1].message \in Range(sent) /\ parts[1].message.from = c
    BY <1>1, <1>3, <1>5 DEF PathInv, StreamInv, Wire
  <1>7. parts[1].message \in Messages  BY <1>4 DEF PartType
  <1> QED  BY <1>6, <1>7

\* The name Response_SaveScore sends back is one its client may be told.
LEMMA NameTold ==
  ASSUME PathInv, NEW c \in Clients, NEW arrived, Receive(c, arrived), UNCHANGED sent,
         NEW m, NEW name \in Names, m.from = c,
         \/ delivery'[c] = "lost"
         \/ delivery'[c] = "split" /\ m = Scrap(c) /\ name = Empty
         \/ /\ delivery'[c] = "split" \/ name = m.name
            /\ m \in Range(sent) /\ name \in Begins[m.name]
  PROVE  name \in ToldNext(c)
  <1>1. delivery'[c] \in {"whole", "split", "lost"}  BY ReceiveWire
  <1>2. NamesNext(c) = RequestNames(c)  BY DEF NamesNext, RequestNames
  <1>3. CASE delivery'[c] = "lost"  BY <1>3 DEF ToldNext
  <1>4. CASE delivery'[c] = "split" /\ m = Scrap(c) /\ name = Empty
    <2>1. PICK k \in Range(sent) : k \in Messages /\ k.from = c  BY HasSent
    <2>2. k.name \in NamesNext(c) /\ k.name \in Names
      BY <1>2, <2>1 DEF RequestNames, Messages
    <2>3. Empty \in Begins[k.name]  BY <2>2, SavePathAssumption
    <2> QED  BY <1>4, <2>2, <2>3 DEF ToldNext
  <1>5. CASE m \in Range(sent) /\ delivery'[c] = "split" /\ name \in Begins[m.name]
    <2>1. m.name \in NamesNext(c)  BY <1>2, <1>5 DEF RequestNames
    <2> QED  BY <1>5, <2>1 DEF ToldNext
  <1>6. CASE m \in Range(sent) /\ delivery'[c] = "whole" /\ name = m.name
    <2>1. name \in NamesNext(c)  BY <1>2, <1>6 DEF RequestNames
    <2> QED  BY <1>6, <2>1 DEF ToldNext
  <1> QED  BY <1>1, <1>3, <1>4, <1>5, <1>6

\* Every step keeps the replies on their way.
LEMMA ReplyStep == PathInv /\ RepliesAreOwn /\ [Next]_vars => RepliesAreOwn'
  <1> SUFFICES ASSUME PathInv, RepliesAreOwn, [Next]_vars  PROVE RepliesAreOwn'
    OBVIOUS
  <1>1. TypeOK /\ BufferInv  BY DEF PathInv
  <1>2. SUFFICES RepliesNext  BY RepliesKept
  <1>3. ASSUME NEW o \in Overlappeds, Range(sent) \subseteq Range(sent'), Grows, PathInv',
               to'[o] = to[o], buf'[o] = buf[o], to[o] # None
        PROVE  \E name \in ToldNext(to'[o]) :
                 SubSeq(buf'[o].slots, 1, buf'[o].len) = Encoded(Message(to'[o], name, 0))
    <2>1. to[o] \in Clients  BY <1>1, <1>3 DEF TypeOK
    <2>2. delivery'[to[o]] \in {"whole", "split", "lost"}
      BY <1>3, <2>1 DEF PathInv, TypeOK
    <2>3. NamesTold(to[o]) \subseteq ToldNext(to[o])  BY <1>3, <2>1, <2>2, ToldGrows
    <2>4. PICK name \in NamesTold(to[o]) :
            SubSeq(buf[o].slots, 1, buf[o].len) = Encoded(Message(to[o], name, 0))
      BY <1>3 DEF RepliesAreOwn
    <2> QED  BY <1>3, <2>3, <2>4
  <1>4. PathInv'  BY PathStep
  <1>5. ASSUME UNCHANGED delivery  PROVE Grows
    BY <1>5 DEF Grows
  <1>6. ASSUME Range(sent) \subseteq Range(sent'), Grows,
               \A o \in Overlappeds : to'[o] # None => to'[o] = to[o] /\ buf'[o] = buf[o]
        PROVE  RepliesNext
    BY <1>3, <1>4, <1>6 DEF RepliesNext
  <1>7. ASSUME NEW c \in Clients, NEW name \in Names \ {Empty}, SendMessage(c, name)
        PROVE  RepliesNext
    <2>1. Range(sent) \subseteq Range(sent')  BY <1>7, SendPath
    <2> QED  BY <1>5, <1>6, <1>7, <2>1 DEF SendMessage
  <1>8. ASSUME NEW c \in Clients, Accept(c)  PROVE RepliesNext
    <2>1. PICK r \in Pool : buf' = [buf EXCEPT ![r] = Clear(@)]  BY <1>8 DEF Accept
    <2>2. UNCHANGED <<sent, to, delivery>>  BY <1>8 DEF Accept
    <2>3. to[r] = None /\ r \in Overlappeds  BY Pooled
    <2>4. \A o \in Overlappeds : o # r => buf'[o] = buf[o]  BY <1>1, <2>1, Types
    <2> QED  BY <1>5, <1>6, <2>2, <2>3, <2>4
  <1>9. ASSUME NEW c \in Clients, NEW arrived, Receive(c, arrived)
        PROVE  /\ UNCHANGED sent /\ Grows
               /\ posted[c] \in Overlappeds /\ to[posted[c]] = None
    BY <1>1, <1>9, DeliveryGrows DEF Receive, TypeOK, BufferInv
  <1>10. ASSUME NEW c \in Clients, NEW arrived, ReceiveSave(c, arrived)
         PROVE  RepliesNext
    <2>1. Receive(c, arrived)  BY <1>10 DEF ReceiveSave
    <2>2. PICK m \in Messages, name \in Names, q \in Pool : \E r \in Pool \ {q} :
             /\ m.from = c
             /\ \/ delivery'[c] = "lost"
                \/ delivery'[c] = "split" /\ m = Scrap(c) /\ name = Empty
                \/ /\ delivery'[c] = "split" \/ name = m.name
                   /\ m \in Range(sent) /\ name \in Begins[m.name]
             /\ cache' = [cache EXCEPT ![name] = ScoreJson(name, m, KoreaTime(m.time))]
             /\ to' = [to EXCEPT ![q] = c]
             /\ Recycle(c, arrived, r,
                  [buf EXCEPT ![q] = SetMessage(Clear(@), Encoded(Message(c, name, 0)))])
      BY <1>10, SaveHandled
    <2>3. PICK replied :
            replied = [buf EXCEPT ![q] = SetMessage(Clear(@), Encoded(Message(c, name, 0)))]
      OBVIOUS
    <2>4. PICK r \in Pool \ {q} : Recycle(c, arrived, r, replied)  BY <2>2, <2>3
    <2>5. /\ UNCHANGED sent /\ Grows
          /\ posted[c] \in Overlappeds /\ to[posted[c]] = None
      BY <1>9, <2>1
    <2>6. /\ q \in Overlappeds /\ r \in Overlappeds /\ q # r /\ to[q] = None /\ to[r] = None
          /\ posted[c] # q
      BY Pooled
    <2>7. /\ replied \in [Overlappeds -> BufferType]
          /\ \A o \in Overlappeds : o # q => replied[o] = buf[o]
          /\ SubSeq(replied[q].slots, 1, replied[q].len) = Encoded(Message(c, name, 0))
      BY <2>3, ReplySet
    <2>8. \A o \in Overlappeds : o \notin {posted[c], r} => buf'[o] = replied[o]
      BY <2>4, <2>7 DEF Recycle
    <2>9. \A o \in Overlappeds : to'[o] = IF o = q THEN c ELSE to[o]
      BY <1>1, <2>2, <2>6 DEF TypeOK
    <2>10. name \in ToldNext(c)  BY <2>1, <2>2, <2>5, NameTold
    <2>11. ASSUME NEW o \in Overlappeds, to'[o] # None
           PROVE  \E n \in ToldNext(to'[o]) :
                    SubSeq(buf'[o].slots, 1, buf'[o].len) = Encoded(Message(to'[o], n, 0))
      <3>1. CASE o = q
        <4>1. to'[o] = c /\ buf'[o] = replied[q]  BY <2>6, <2>8, <2>9, <3>1
        <4> QED  BY <2>7, <2>10, <4>1
      <3>2. CASE o # q
        <4>1. to'[o] = to[o] /\ buf'[o] = buf[o]
          BY <2>5, <2>6, <2>7, <2>8, <2>9, <2>11, <3>2
        <4> QED  BY <1>3, <1>4, <2>5, <2>11, <4>1
      <3> QED  BY <3>1, <3>2
    <2> QED  BY <2>11 DEF RepliesNext
  <1>11. ASSUME NEW c \in Clients, NEW arrived, ReceiveOther(c, arrived)
         PROVE  RepliesNext
    <2>1. PICK r \in Pool : Recycle(c, arrived, r, buf)  BY <1>11 DEF ReceiveOther
    <2>2. Receive(c, arrived) /\ to' = to  BY <1>11 DEF ReceiveOther
    <2>3. to[r] = None /\ r \in Overlappeds  BY Pooled
    <2>4. \A o \in Overlappeds : o \notin {posted[c], r} => buf'[o] = buf[o]
      BY <1>1, <2>1, Types DEF Recycle
    <2> QED  BY <1>6, <1>9, <2>2, <2>3, <2>4
  <1>12. ASSUME NEW c \in Clients, NEW arrived, ReceiveFatal(c, arrived)
         PROVE  RepliesNext
    <2>1. Receive(c, arrived) /\ UNCHANGED <<to, buf>>  BY <1>12 DEF ReceiveFatal
    <2> QED  BY <1>6, <1>9, <2>1
  <1>13. ASSUME NEW o \in Overlappeds, Sent(o)  PROVE RepliesNext
    <2>1. /\ to' = [to EXCEPT ![o] = None] /\ buf' = [buf EXCEPT ![o] = Clear(@)]
          /\ UNCHANGED <<sent, delivery>>
      BY <1>13 DEF Sent
    <2>2. \A p \in Overlappeds : to'[p] = IF p = o THEN None ELSE to[p]
      BY <1>1, <2>1 DEF TypeOK
    <2>3. \A p \in Overlappeds : p # o => buf'[p] = buf[p]  BY <1>1, <2>1, Types
    <2> QED  BY <1>5, <1>6, <2>1, <2>2, <2>3
  <1>14. ASSUME NEW name \in Names, Save(name)  PROVE RepliesNext
    BY <1>5, <1>6, <1>14 DEF Save, network
  <1>15. CASE Restart
    BY <1>15 DEF Restart, RepliesNext
  <1>16. CASE UNCHANGED vars  BY <1>5, <1>6, <1>16 DEF vars, network
  <1> QED  BY <1>7, <1>8, <1>10, <1>11, <1>12, <1>13, <1>14, <1>15, <1>16 DEF Next

\* A reply names a request of the client it goes to, or a beginning of one: no
\* other client's bytes show through (MyPacket.h:131-139).
THEOREM RepliesSafe == Spec => []RepliesAreOwn
  <1>1. Init => RepliesAreOwn  BY DEF Init, RepliesAreOwn
  <1> QED  BY <1>1, PathInvHolds, ReplyStep, PTL DEF Spec

-----------------------------------------------------------------------------
(* In step. *)

\* Every step keeps what is in step.
LEMMA InStepStep ==
  PathInv /\ InStepInv /\ NamesGiven /\ [Next]_vars => InStepInv' /\ NamesGiven'
  <1> SUFFICES ASSUME PathInv, InStepInv, NamesGiven, [Next]_vars
               PROVE  InStepInv' /\ NamesGiven'
    OBVIOUS
  <1>1. TypeOK /\ KeyInv  BY DEF PathInv
  <1>2. ASSUME UNCHANGED <<sent, stream, delivery, cache, rows, crashed>>
        PROVE  InStepInv' /\ NamesGiven'
    BY <1>2 DEF InStepInv, InStep, AllWhole, NamesGiven
  <1>3. ASSUME NEW c \in Clients, NEW name \in Names \ {Empty}, SendMessage(c, name)
        PROVE  InStepInv' /\ NamesGiven'
    <2>1. PICK m : m = Message(c, name, Len(sent) + 1)  OBVIOUS
    <2>2. m \in Messages /\ m.from = c /\ m.name # Empty
      BY <1>3, <2>1, SlotsNat DEF SendMessage, Messages, Message, PathInv, TypeOK
    <2>3. Range(sent') = Range(sent) \cup {m}  BY <1>3, <2>1, SendPath
    <2>4. stream' = [stream EXCEPT ![c] = stream[c] \o Encoded(m)]
          /\ UNCHANGED <<delivery, cache, rows, crashed>>
      BY <1>3, <2>1 DEF SendMessage
    <2>5. NamesGiven'  BY <2>2, <2>3 DEF NamesGiven
    <2>6. PICK more : more = stream[c] \o Encoded(m)  OBVIOUS
    <2>7. /\ stream[c] = <<>> => Head(more).part = "ids"
          /\ stream[c] # <<>> => Head(more) = Head(stream[c])
      <3>1. stream[c] \in Seq(PartType) /\ Wire(c, stream[c])
        BY <1>1 DEF TypeOK, PathInv, StreamInv
      <3> QED  BY <2>2, <2>6, <3>1, WireSent
    <2>8. \A d \in Clients : stream'[d] = IF d = c THEN more ELSE stream[d]
      BY <1>1, <2>4, <2>6 DEF TypeOK
    <2>9. InStepInv'  BY <2>4, <2>7, <2>8 DEF InStepInv, InStep, AllWhole
    <2> QED  BY <2>5, <2>9
  <1>4. ASSUME NEW c \in Clients, NEW arrived, Receive(c, arrived)
        PROVE  /\ UNCHANGED <<sent, rows>> /\ NamesGiven'
               /\ AllWhole' => /\ AllWhole /\ ~ crashed
                               /\ cache[Empty] = None /\ rows'[Empty] = None
                               /\ delivery'[c] = "whole"
                               /\ \A i \in 1 .. 4 : Whole(Read(c, arrived), i)
               /\ \A d \in Clients : delivery'[d] = "whole" /\ stream'[d] # <<>> =>
                                       Head(stream'[d]).part = "ids"
    <2>1. UNCHANGED <<sent, rows>>  BY <1>4 DEF Receive
    <2>2. NamesGiven'  BY <2>1 DEF NamesGiven
    <2>3. ASSUME delivery'[c] = "whole"
          PROVE  /\ delivery[c] = "whole" /\ \A i \in 1 .. 4 : Whole(Read(c, arrived), i)
                 /\ stream'[c] # <<>> => Head(stream'[c]).part = "ids"
      BY <1>4, <2>3, WholeRead
    <2>4. \A d \in Clients : d # c => stream'[d] = stream[d] /\ delivery'[d] = delivery[d]
      BY <1>4, ReceiveWire, DeliveryGrows
    <2>5. \A d \in Clients : delivery'[d] = "whole" /\ stream'[d] # <<>> =>
                               Head(stream'[d]).part = "ids"
      BY <2>3, <2>4 DEF InStepInv, InStep
    <2>6. ASSUME AllWhole'
          PROVE  /\ AllWhole /\ ~ crashed /\ cache[Empty] = None /\ rows'[Empty] = None
                 /\ delivery'[c] = "whole" /\ \A i \in 1 .. 4 : Whole(Read(c, arrived), i)
      <3>1. \A d \in Clients : delivery'[d] = "whole"  BY <2>6 DEF AllWhole
      <3>2. AllWhole  BY <2>3, <2>4, <3>1 DEF AllWhole
      <3>3. ~ crashed /\ cache[Empty] = None /\ rows[Empty] = None
        BY <3>2 DEF InStepInv, InStep, AllWhole
      <3> QED  BY <2>1, <2>3, <3>1, <3>2, <3>3
    <2> QED  BY <2>1, <2>2, <2>5, <2>6
  <1>5. ASSUME NEW c \in Clients, NEW arrived, ReceiveSave(c, arrived)
        PROVE  InStepInv' /\ NamesGiven'
    <2>1. Receive(c, arrived) /\ UNCHANGED crashed  BY <1>5 DEF ReceiveSave
    <2>2. PICK m \in Messages, name \in Names, q \in Pool : \E r \in Pool \ {q} :
             /\ m.from = c
             /\ \/ delivery'[c] = "lost"
                \/ delivery'[c] = "split" /\ m = Scrap(c) /\ name = Empty
                \/ /\ delivery'[c] = "split" \/ name = m.name
                   /\ m \in Range(sent) /\ name \in Begins[m.name]
             /\ cache' = [cache EXCEPT ![name] = ScoreJson(name, m, KoreaTime(m.time))]
             /\ to' = [to EXCEPT ![q] = c]
             /\ Recycle(c, arrived, r,
                  [buf EXCEPT ![q] = SetMessage(Clear(@), Encoded(Message(c, name, 0)))])
      BY <1>5, SaveHandled
    <2>3. AllWhole' => cache'[Empty] = None
      <3>1. AllWhole' => name # Empty  BY <1>4, <2>1, <2>2 DEF NamesGiven
      <3>2. name # Empty => cache'[Empty] = cache[Empty]  BY <2>2, SavePathAssumption
      <3> QED  BY <1>4, <2>1, <3>1, <3>2
    <2> QED  BY <1>4, <2>1, <2>3 DEF InStepInv, InStep, AllWhole
  <1>6. ASSUME NEW c \in Clients, NEW arrived, ReceiveOther(c, arrived)
        PROVE  InStepInv' /\ NamesGiven'
    <2>1. Receive(c, arrived) /\ UNCHANGED <<cache, crashed>>  BY <1>6 DEF ReceiveOther
    <2> QED  BY <1>4, <2>1 DEF InStepInv, InStep, AllWhole
  <1>7. ASSUME NEW c \in Clients, NEW arrived, ReceiveFatal(c, arrived)
        PROVE  InStepInv' /\ NamesGiven'
    <2>1. Receive(c, arrived)  BY <1>7 DEF ReceiveFatal
    <2>2. ~ (Whole(Read(c, arrived), 1) /\ Whole(Read(c, arrived), 4))
      BY <1>7 DEF ReceiveFatal
    <2>3. 1 \in 1 .. 4 /\ 4 \in 1 .. 4  OBVIOUS
    <2>4. ~ AllWhole'  BY <1>4, <2>1, <2>2, <2>3
    <2> QED  BY <1>4, <2>1, <2>4 DEF InStepInv, InStep, AllWhole
  <1>8. ASSUME NEW name \in Names, Save(name)  PROVE InStepInv' /\ NamesGiven'
    <2>1. cache[name] # None /\ UNCHANGED <<sent, stream, delivery, cache, crashed>>
      BY <1>8 DEF Save, network
    <2>2. rows' = [rows EXCEPT ![name] = RowOf(cache[name])]  BY <1>8, SavePathKept
    <2>3. AllWhole => name # Empty  BY <2>1 DEF InStepInv, InStep, AllWhole
    <2>4. AllWhole => rows'[Empty] = None
      BY <1>1, <2>2, <2>3, SavePathAssumption DEF InStepInv, TypeOK
    <2> QED  BY <2>1, <2>4 DEF InStepInv, InStep, AllWhole, NamesGiven
  <1>9. ASSUME Restart  PROVE InStepInv' /\ NamesGiven'
    <2>1. /\ stream' = [c \in Clients |-> <<>>] /\ crashed' = FALSE
          /\ UNCHANGED <<sent, delivery, rows>>
      BY <1>9 DEF Restart
    <2>2. AllWhole => \A n \in Rows : Cut[n] # Empty
      BY SavePathAssumption DEF Rows, InStepInv
    <2>3. AllWhole => cache'[Empty] = None
      BY <1>9, <2>2, KeysLoaded, SavePathAssumption DEF InStepInv, InStep, AllWhole
    <2> QED  BY <2>1, <2>3 DEF InStepInv, InStep, AllWhole, NamesGiven
  <1>10. ASSUME NEW c \in Clients, Accept(c)  PROVE InStepInv' /\ NamesGiven'
    BY <1>2, <1>10 DEF Accept
  <1>11. ASSUME NEW o \in Overlappeds, Sent(o)  PROVE InStepInv' /\ NamesGiven'
    BY <1>2, <1>11 DEF Sent
  <1>12. CASE UNCHANGED vars  BY <1>2, <1>12 DEF vars, network
  <1> QED  BY <1>3, <1>5, <1>6, <1>7, <1>8, <1>9, <1>10, <1>11, <1>12 DEF Next

\* Only a delivery that ends inside a message loses the step of its connection,
\* and only such a delivery stores a score without a name (Session.cpp:87-96).
THEOREM StaysInStep == Spec => []InStep
  <1>1. Init => InStepInv /\ NamesGiven
    BY SavePathAssumption DEF Init, InStepInv, InStep, AllWhole, NamesGiven, Range
  <1>2. InStepInv => InStep  BY DEF InStepInv
  <1> QED  BY <1>1, <1>2, PathInvHolds, InStepStep, PTL DEF Spec
=============================================================================
