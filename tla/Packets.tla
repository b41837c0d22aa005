------------------------------ MODULE Packets ------------------------------
(***************************************************************************)
(* Messages and the CustomOverlapped they are received into and sent from. *)
(* A message on the wire is four parts: the ids and sizes of its header,   *)
(* the header's contents type, the FlatBuffers table of its body, and the  *)
(* string that table points to, which is the player's name.  An overlapped *)
(* has one slot for each.                                                  *)
(*                                                                         *)
(* A part is in its slot only if it has arrived whole.  TCP may deliver    *)
(* any piece of the next one with it: the reader finds that piece and      *)
(* zeros (SavePath.tla says what it makes of them), and what is left of    *)
(* the part, still at the head of the stream, is as little the beginning   *)
(* of a message as the whole part would be.  A piece of the ids counts as  *)
(* the ids: the contents type is zero in both cases, and what comes next   *)
(* is not the beginning of a message.                                      *)
(***************************************************************************)
EXTENDS Naturals, SequencesExt

CONSTANTS
  Slots,    \* parts that fit an overlapped: its header and BUFFER_SIZE
  Blank,    \* bytes that are zero
  Garbage   \* bytes of a new char[]

ASSUME PacketsAssumption == Slots \in Nat /\ Slots >= 4 /\ Blank # Garbage

Parts == <<"ids", "type", "table", "name">>

Message(from, name, time) == [from |-> from, name |-> name, time |-> time]
Part(part, message)       == [part |-> part, message |-> message]
Encoded(message)          == [i \in 1 .. 4 |-> Part(Parts[i], message)]

\* The constructor leaves both buffers as new char[] gave them.
NewOverlapped == [slots |-> [i \in 1 .. Slots |-> Garbage], len |-> Slots]

Filled(slots, parts) ==
  [i \in 1 .. Slots |-> IF i <= Len(parts) THEN parts[i] ELSE slots[i]]

Wiped(slots, n) == Filled(slots, [i \in 1 .. n |-> Blank])

\* Faulty variants: only the header is wiped; the body's length includes the
\* header.
ClearHeader(overlapped) ==
  [slots |-> Wiped(overlapped.slots, 2), len |-> Slots]

ClearLong(overlapped) ==
  [slots |-> Wiped(overlapped.slots, overlapped.len), len |-> Slots + 2]

\* The header and as much of the body as the last operation declared.
Clear(overlapped) ==
  [slots |-> Wiped(overlapped.slots, overlapped.len), len |-> Slots]

\* SetHeader and SetBody.
SetMessage(overlapped, parts) ==
  [slots |-> Filled(Wiped(overlapped.slots, Len(parts)), parts), len |-> Len(parts)]

\* Part i is in its place and all of it has arrived.
Whole(slots, i) == slots[i] \notin {Blank, Garbage} /\ slots[i].part = Parts[i]
=============================================================================
