------------------------------ MODULE Records ------------------------------
(***************************************************************************)
(* A score on its way from a request to the Score table and back: the JSON *)
(* of Data_Score under a Redis key, the row, and the JSON that the load at *)
(* start makes of the row.  Times are in hours.                            *)
(***************************************************************************)
EXTENDS Integers

CONSTANTS
  Names,          \* player names
  Cut,            \* Cut[n]: n without its 16th character
  Begins,         \* Begins[n]: what n may begin with, n itself included
  Storable,       \* names of at most 16 characters
  DaylightShift   \* what std::mktime adds to the hour on the server's host

ASSUME RecordsAssumption ==
  /\ Cut \in [Names -> Names] /\ \A n \in Names : Cut[Cut[n]] = Cut[n]
  /\ Begins \in [Names -> SUBSET Names] /\ \A n \in Names : n \in Begins[n]
  /\ Storable \subseteq Names /\ \A n \in Names : Cut[n] \in Storable
  /\ DaylightShift \in {0, 1}

\* Hub::Send: UTC+9.
KoreaTime(time) == time + 9

\* Data_Score::toJson.
ScoreJson(name, score, time) ==
  [player_id |-> name, score |-> score, last_update |-> time]

\* The parameters of MERGE: gmtime_s splits the time, DATETIME keeps it.
RowOf(json) == [score |-> json.score, last_update |-> json.last_update]

\* Faulty variant: the row's time taken for local time, nine hours early.
LoadedAsLocal(name, row) == ScoreJson(Cut[name], row.score, row.last_update - 9)

\* ScoreDataLoad: SQLGetData into SQLWCHAR[16] keeps 15 characters; mktime
\* normalises the fields as local time before _mkgmtime reads them as UTC.
Loaded(name, row) == ScoreJson(Cut[name], row.score, row.last_update + DaylightShift)
=============================================================================
