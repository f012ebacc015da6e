------------------------------ MODULE RedisReply ------------------------------
(***************************************************************************)
(* What the commands of the redis clients of src/common/inutil make of a   *)
(* reply of hiredis.  A reply is known by its kind; of an array the code   *)
(* looks at the last element too.  A command's table maps the kind of the  *)
(* reply to the set of the results it can return.                          *)
(***************************************************************************)
EXTENDS Integers

Replies  == {"nil", "string", "integer", "array", "array-nil", "status",
             "error", "moved"}
Refused  == {"error", "moved"}     \* the server did not do what was asked

\* Errors hiredis leaves in a context whose connection it gives up, and the
\* ones that make a command reconnect.
Errors   == {"EOF", "OOM", "IO", "PROTOCOL"}
Four     == {"EOF", "OOM", "IO", "PROTOCOL"}
Three    == {"EOF", "OOM", "IO"}
NoErrors == {}

Number   == 7       \* stands for the value of an integer reply
Cursor   == 8       \* the cursor the server answered
OldCursor == 9      \* the cursor the caller gave
NotFound == -6
Failed   == -1

\* MUTANT of StringReply: an error reply is taken for the value.
StringReplyUnchecked ==
  [r \in Replies |-> IF r = "nil" THEN {NotFound} ELSE {0}]

StringReply ==
  [r \in Replies |-> CASE r = "nil" -> {NotFound}
                       [] r = "string" -> {0}
                       [] OTHER -> {Failed}]

Unchecked       == [r \in Replies |-> {0}]
IntegerOrZero   == [r \in Replies |-> IF r = "integer" THEN {Number} ELSE {0}]
IntegerOrFailed == [r \in Replies |-> IF r = "integer" THEN {Number} ELSE {Failed}]
ScanReply ==
  [r \in Replies |-> IF r \in {"array", "array-nil"} THEN {Cursor, 0} ELSE {OldCursor, 0}]

HashScanReply ==
  [r \in Replies |-> CASE r = "nil" -> {NotFound}
                       [] r \in {"array", "array-nil"} -> {Cursor, 0}
                       [] OTHER -> {Failed}]

\* HMGET answers NIL for a field that is not there: only the last one shows.
HashReply ==
  [r \in Replies |-> CASE r = "array" -> {0}
                       [] r \in {"nil", "array-nil"} -> {NotFound}
                       [] OTHER -> {Failed}]

MultiReply ==
  [r \in Replies |-> IF r \in {"array", "array-nil"} THEN {0} ELSE {Failed}]

\* keys() returns a field of the reply it has freed: any value.
FreedReply == [r \in Replies |-> {Failed, 0, Number}]
===============================================================================
