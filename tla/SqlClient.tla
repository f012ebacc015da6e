------------------------------ MODULE SqlClient ------------------------------
(***************************************************************************)
(* INV_Mysql (src/common/inutil/inv_mysql.cpp) and INV_Pgsql               *)
(* (inv_pgsql.cpp): one session with a database server, used by one        *)
(* thread.  A statement of INV_Mysql whose connection was lost (error 2013 *)
(* or 2006) is sent once more on a new connection, though the server may   *)
(* have executed it; INV_Pgsql connects before a statement and never       *)
(* repeats one.  The client libraries and the server are external.         *)
(***************************************************************************)
EXTENDS Integers

CONSTANTS
  MaxRows     \* bound on the rows a statement adds or changes

BoundsAssumption == MaxRows \in Nat

VARIABLES
  kind,       \* "mysql" or "pgsql"
  connected,  \* _bConnected, or whether _conn is set
  session,    \* the server knows the session
  up,         \* the server accepts connections
  settled,    \* it does from now on
  done,       \* how often the server executed the statement
  lost,       \* the session was lost after the server executed it
  rows,       \* rows the executed statement concerned, 0 if it failed
  result      \* "none", "ok", "thrown"

link == <<connected, session>>
vars == <<kind, link, up, settled, done, lost, rows, result>>

Init ==
  /\ kind \in {"mysql", "pgsql"}
  /\ connected = FALSE /\ session = FALSE /\ up = TRUE /\ settled = FALSE
  /\ done = 0 /\ lost = FALSE /\ rows = 0 /\ result = "none"
------------------------------------------------------------------------------
(* One attempt to execute the statement, and what the client learns:       *)
(* "ok", "lost" (2013 or 2006) or "error".                                 *)

Attempts(alive) ==
  IF ~alive THEN {[learns |-> "lost", done |-> 0]}
  ELSE {[learns |-> "ok", done |-> 1], [learns |-> "error", done |-> 0]}
       \union IF settled THEN {}
              ELSE {[learns |-> "lost", done |-> d] : d \in {0, 1}}

Finish(learns, executed, lostDone, alive) ==
  /\ done' = executed
  /\ lost' = lostDone
  /\ result' = IF learns = "ok" THEN "ok" ELSE "thrown"
  /\ rows' \in IF learns = "ok" THEN 0 .. MaxRows ELSE {0}
  /\ connected' = TRUE /\ session' = alive

\* connect() throws: the statement was not sent, or not sent again.
ConnectThrows(executed, lostDone) ==
  /\ ~up
  /\ connected' = FALSE /\ session' = FALSE
  /\ done' = executed /\ lost' = lostDone /\ rows' = 0 /\ result' = "thrown"

\* execute() and queryRecord(): connect if not connected, send the statement,
\* and when the connection was lost connect and send it again.
execute ==
  /\ kind = "mysql"
  /\ \/ ~connected /\ ConnectThrows(0, FALSE)
     \/ /\ connected \/ up
        /\ \E a \in Attempts(session \/ ~connected) :
             \/ a.learns # "lost"
                /\ Finish(a.learns, a.done, FALSE, TRUE)
             \/ a.learns = "lost" /\ ConnectThrows(a.done, a.done = 1)
             \/ a.learns = "lost" /\ up
                /\ \E b \in Attempts(TRUE) :
                     Finish(b.learns, a.done + b.done, a.done = 1 \/ (b.learns = "lost" /\ b.done = 1),
                            b.learns # "lost")
  /\ UNCHANGED <<kind, up, settled>>

\* connectIfNot(), which asks the library, and one attempt.
queryRecord ==
  /\ kind = "pgsql"
  /\ \/ ~connected /\ ConnectThrows(0, FALSE)
     \/ /\ connected \/ up
        /\ \E a \in Attempts(session \/ ~connected) :
             IF a.learns = "lost" /\ connected /\ ~session
             THEN \* the library notices during the statement
                  Finish("error", 0, FALSE, FALSE)
             ELSE Finish(a.learns, a.done, a.learns = "lost" /\ a.done = 1, a.learns # "lost")
  /\ UNCHANGED <<kind, up, settled>>

\* PQstatus() says that the session is gone once a statement has failed so.
Noticed ==
  /\ kind = "pgsql" /\ connected /\ ~session /\ result = "thrown"
  /\ connected' = FALSE
  /\ UNCHANGED <<kind, session, up, settled, done, lost, rows, result>>

\* connect() drops a session there is, and leaves the client without one when
\* the server cannot be reached.
connect ==
  /\ connected' = up /\ session' = up
  /\ result' = IF up THEN "none" ELSE "thrown"
  /\ done' = 0 /\ lost' = FALSE /\ rows' = 0
  /\ UNCHANGED <<kind, up, settled>>

disconnect ==
  /\ ~settled /\ connected' = FALSE /\ session' = FALSE
  /\ result' = "none" /\ done' = 0 /\ lost' = FALSE /\ rows' = 0
  /\ UNCHANGED <<kind, up, settled>>

Server ==
  /\ ~settled
  /\ up' \in BOOLEAN
  /\ session' \in (IF session /\ up' THEN BOOLEAN ELSE {FALSE})
  /\ settled' \in (IF up' THEN BOOLEAN ELSE {FALSE})
  /\ UNCHANGED <<kind, connected, done, lost, rows, result>>

Next == execute \/ queryRecord \/ Noticed \/ connect \/ disconnect \/ Server
Spec == Init /\ [][Next]_vars
FairSpec == Spec /\ WF_vars(execute) /\ WF_vars(queryRecord) /\ WF_vars(Noticed)
------------------------------------------------------------------------------
TypeOK ==
  /\ kind \in {"mysql", "pgsql"} /\ connected \in BOOLEAN /\ session \in BOOLEAN
  /\ done \in 0 .. 2 /\ rows \in 0 .. MaxRows
  /\ result \in {"none", "ok", "thrown"}
  /\ session => connected

\* A statement reported as executed was executed, and executed twice only when
\* the connection was lost after the first time; one of INV_Pgsql never was.
ExecutedAsReported ==
  /\ result = "ok" => done >= 1
  /\ done = 2 => lost /\ kind = "mysql"

\* Once the server stays, the client has its session back without being told.
Recovers == settled ~> session
===============================================================================
