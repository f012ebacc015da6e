---------------------------- MODULE Redis2Client -----------------------------
(***************************************************************************)
(* The other INV_Redis, src/common/inutil/inv_redis2.cpp: fewer commands   *)
(* reconnect, and get and set count their calls and failures in _lthr, a   *)
(* static object all clients share without a lock.  IsBadConnect() turns   *)
(* true for all of them for ever: the thread that would reset the counters *)
(* and recover is never started, and its process() calls nothing.          *)
(***************************************************************************)
EXTENDS RedisReply

CONSTANTS
  Clients,    \* clients of one server
  BadAfter    \* the calls after which failures count, 10 in IsBadConnect()

BadAfterAssumption == BadAfter \in Nat

VARIABLES
  connected,  \* per client: _connected
  context,    \* per client: state of the context, "none", "ok" or an error
  total,      \* _reqTotalNum, capped above BadAfter
  fail,       \* whether _reqFailNum > 0: its rate is compared with zero
  up,         \* the server accepts connections
  settled,    \* from now on it stays up
  crashed,    \* a command was given no context
  ret         \* result of the last command

client == <<connected, context>>
count  == <<total, fail>>
world  == <<up, settled, crashed>>
vars   == <<client, count, world, ret>>

Init ==
  /\ connected = [c \in Clients |-> FALSE]
  /\ context = [c \in Clients |-> "none"]
  /\ total = 0 /\ fail = FALSE
  /\ up = TRUE /\ settled = FALSE /\ crashed = FALSE
  /\ ret = 0
------------------------------------------------------------------------------
\* A failed connect() keeps its context, with the error; a later one leaks it.
connect(c) ==
  /\ connected' = [connected EXCEPT ![c] = @ \/ up]
  /\ context' = [context EXCEPT ![c] = IF up THEN "ok" ELSE "IO"]

reconnect(c) ==
  /\ connected' = [connected EXCEPT ![c] = up]
  /\ context' = [context EXCEPT ![c] = IF up THEN "ok" ELSE "IO"]

Connect(c) ==
  /\ ~crashed /\ connect(c)
  /\ UNCHANGED <<count, world, ret>>

Disconnect(c) ==
  /\ ~crashed /\ ~settled /\ connected[c]
  /\ connected' = [connected EXCEPT ![c] = FALSE]
  /\ context' = [context EXCEPT ![c] = "freed"]
  /\ UNCHANGED <<count, world, ret>>

AddTotalNum == total' = IF total > BadAfter THEN total ELSE total + 1

\* Evaluated after AddTotalNum.
IsBadConnect == total' > BadAfter /\ fail
------------------------------------------------------------------------------
Rule(retry, answer) == [retry |-> retry, answer |-> answer, counts |-> FALSE]
Counted(rule)       == [rule EXCEPT !.counts = TRUE]

get     == Counted(Rule(Four, StringReply))
set     == Counted(Rule(NoErrors, Unchecked))
remove  == Rule(NoErrors, Unchecked)
incr    == Rule(NoErrors, IntegerOrZero)
decr    == Rule(NoErrors, IntegerOrZero)
scan    == Rule(Three, ScanReply)
rpush   == Rule(NoErrors, IntegerOrZero)
lset    == Rule(NoErrors, Unchecked)
llen    == Rule(Three, IntegerOrFailed)
lpop    == Rule(Three, StringReply)
lindex  == Rule(Three, StringReply)
lrange  == Rule(Three, Unchecked)
lrem    == Rule(NoErrors, Unchecked)
hashset == Rule(NoErrors, Unchecked)
hashget == Rule(NoErrors, HashReply)
zadd    == Rule(Three, Unchecked)
zrevrange        == Rule(Three, Unchecked)
zrangebyscore    == Rule(Three, Unchecked)
zrevrangebyscore == Rule(Three, Unchecked)
zcard   == Rule(Three, IntegerOrFailed)
zcount  == Rule(Three, IntegerOrFailed)
zremrangebyscore == Rule(NoErrors, Unchecked)

Commands ==
  {get, set, remove, incr, decr, scan, rpush, lset, llen, lpop, lindex, lrange,
   lrem, hashset, hashget, zadd, zrevrange, zrangebyscore, zrevrangebyscore,
   zcard, zcount, zremrangebyscore}

CountCall(cmd) == IF cmd.counts THEN AddTotalNum ELSE UNCHANGED total

\* Not connected, and not known to be bad: reconnect, and fail unsent.
CallUnconnected(c, cmd) ==
  /\ ~connected[c]
  /\ CountCall(cmd)
  /\ ~(cmd.counts /\ IsBadConnect)
  /\ reconnect(c)
  /\ fail' = (fail \/ cmd.counts)
  /\ ret' = Failed
  /\ UNCHANGED world

\* Otherwise the command uses the context there is.
Sends(c, cmd) ==
  /\ CountCall(cmd)
  /\ connected[c] \/ (cmd.counts /\ IsBadConnect)

CallBroken(c, cmd) ==
  /\ Sends(c, cmd)
  /\ context[c] \in Errors
  /\ IF context[c] \in cmd.retry THEN reconnect(c) ELSE UNCHANGED client
  /\ fail' = (fail \/ (cmd.counts /\ context[c] \in cmd.retry))
  /\ ret' = Failed
  /\ UNCHANGED world

CallAnswered(c, cmd) ==
  /\ Sends(c, cmd)
  /\ context[c] = "ok" /\ up
  /\ \E reply \in Replies : ret' \in cmd.answer[reply]
  /\ UNCHANGED <<client, fail, world>>

\* The context is NULL, or freed: undefined, here the end of the program.
CallNoContext(c, cmd) ==
  /\ Sends(c, cmd)
  /\ context[c] \in {"none", "freed"}
  /\ crashed' = TRUE
  /\ UNCHANGED <<client, fail, up, settled, ret>>

Call(c, cmd) ==
  /\ ~crashed
  /\ \/ CallUnconnected(c, cmd) \/ CallBroken(c, cmd)
     \/ CallAnswered(c, cmd)    \/ CallNoContext(c, cmd)
------------------------------------------------------------------------------
(* hiredis and the server (external)                                       *)

Break(c) ==
  /\ ~settled /\ context[c] = "ok"
  /\ \E e \in Errors : context' = [context EXCEPT ![c] = e]
  /\ UNCHANGED <<connected, count, world, ret>>

Server ==
  /\ ~settled
  /\ up' \in BOOLEAN /\ settled' \in (IF up' THEN BOOLEAN ELSE {FALSE})
  /\ context' = [c \in Clients |-> IF context[c] = "ok" /\ ~up' THEN "EOF" ELSE context[c]]
  /\ UNCHANGED <<connected, count, crashed, ret>>

Next ==
  \/ \E c \in Clients : \/ Connect(c) \/ Disconnect(c) \/ Break(c)
                        \/ \E cmd \in Commands : Call(c, cmd)
  \/ Server

Spec == Init /\ [][Next]_vars
FairSpec == Spec /\ \A c \in Clients : WF_vars(Call(c, get))
------------------------------------------------------------------------------
TypeOK ==
  /\ connected \in [Clients -> BOOLEAN]
  /\ context \in [Clients -> Errors \union {"none", "ok", "freed"}]
  /\ total \in 0 .. BadAfter + 1 /\ fail \in BOOLEAN

\* A client comes back by its own calls of get once the server stays up, even
\* when it was declared bad while its connection was down.
Heals == \A c \in Clients : settled ~> context[c] = "ok" \/ crashed
===============================================================================
