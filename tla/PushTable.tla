------------------------------ MODULE PushTable ------------------------------
(***************************************************************************)
(* One load of a daily table from MySQL: flushPushUserType and SetMap      *)
(* (src/src/push_user_type.cc).  flushFreshUser (src/src/fresh_user.cc) is *)
(* the same load with one row per user, where only the key matters.        *)
(*                                                                         *)
(* The query has no ORDER BY: the rows of a user come in any order, and    *)
(* the one with the latest timestamp has to win.                           *)
(***************************************************************************)
EXTENDS Integers, Sequences

CONSTANTS
  Keys,     \* product_id + uid
  UserTypes,
  Results   \* possible results of the query: sequences of rows,
            \* [key, timestamp, user_type]

Rows == [key : Keys, timestamp : Nat, user_type : UserTypes]

\* Assumed of the constants by the module that gives them values.
ResultsAssumption == Results \subseteq Seq(Rows)

VARIABLES
  pc,       \* "query", "fill" or "done"
  records,  \* the rows of the query
  next,     \* position of the next row, i of the loop
  map,      \* _user_type_map: key -> [timestamp, user_type]
  ret       \* the result, which decides whether the table is published

vars == <<pc, records, next, map, ret>>

Init ==
  /\ pc = "query"
  /\ records = <<>>
  /\ next = 1
  /\ map = [k \in {} |-> <<>>]
  /\ ret = FALSE

\* The query fails: the exception is caught and the connection closed.
QueryFails ==
  /\ pc = "query"
  /\ pc' = "done"
  /\ UNCHANGED <<records, next, map, ret>>

\* A result without rows ends the load like a failure.
Query ==
  /\ pc = "query"
  /\ records' \in Results
  /\ pc' = IF records' = <<>> THEN "done" ELSE "fill"
  /\ UNCHANGED <<next, map, ret>>

\* MUTANT of Takes: the last row wins.
TakesLast(row) == TRUE

\* Whether a row replaces what the map has for its key.
Takes(row) ==
  row.key \in DOMAIN map => map[row.key].timestamp < row.timestamp

\* A row is put into the map if it is the first of its key, or later.
SetMap ==
  LET row == records[next] IN
  /\ pc = "fill"
  /\ next <= Len(records)
  /\ map' = IF Takes(row)
              THEN [k \in DOMAIN map \cup {row.key} |->
                      IF k = row.key
                        THEN [timestamp |-> row.timestamp, user_type |-> row.user_type]
                        ELSE map[k]]
              ELSE map
  /\ ret' = TRUE
  /\ next' = next + 1
  /\ UNCHANGED <<pc, records>>

Return ==
  /\ pc = "fill"
  /\ next > Len(records)
  /\ pc' = "done"
  /\ UNCHANGED <<records, next, map, ret>>

\* The load has returned.
Returned == pc = "done" /\ UNCHANGED vars

Next == QueryFails \/ Query \/ SetMap \/ Return \/ Returned

Spec == Init /\ [][Next]_vars

-----------------------------------------------------------------------------
(***************************************************************************)
(* Properties                                                              *)
(***************************************************************************)
\* The rows are those of the query, and the map is made of them.
TypeOK ==
  /\ pc \in {"query", "fill", "done"}
  /\ records \in Seq(Rows)
  /\ next \in 1 .. Len(records) + 1
  /\ DOMAIN map \subseteq Keys
  /\ \A k \in DOMAIN map : map[k] \in [timestamp : Nat, user_type : UserTypes]
  /\ ret \in BOOLEAN

\* Of the first n rows the j-th is the one that decides for its key: no row has a
\* later timestamp, and none with the same timestamp comes before it.
Decides(j, n) ==
  /\ j \in 1 .. n
  /\ \A m \in 1 .. n :
       records[m].key = records[j].key =>
         \/ records[m].timestamp < records[j].timestamp
         \/ records[m].timestamp = records[j].timestamp /\ j <= m

\* What the map holds after the first n rows: for every user with a row, the
\* row that decides.
Latest(n) ==
  /\ \A m \in 1 .. n : records[m].key \in DOMAIN map
  /\ \A k \in DOMAIN map : \E j \in 1 .. n :
       /\ Decides(j, n)
       /\ records[j].key = k
       /\ map[k].timestamp = records[j].timestamp
       /\ map[k].user_type = records[j].user_type

\* A table that is published has every user of the query with the latest of the
\* user's types, in whatever order the rows came; a load that failed or found
\* nothing is not published.
LatestWins ==
  pc = "done" =>
    /\ ret = (records # <<>>)
    /\ ret => Latest(Len(records))
=============================================================================
