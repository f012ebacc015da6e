----------------------------- MODULE RedisClient -----------------------------
(***************************************************************************)
(* INV_Redis of src/common/inutil/inv_redis.cpp: one client of one redis   *)
(* node, used by one thread, over hiredis (external).                      *)
(*                                                                         *)
(* Every command has the same frame: a client that is not connected        *)
(* reconnects and the command fails unsent; a command without a reply      *)
(* reconnects on some errors and fails; a reply becomes a result by the    *)
(* command's own rule (module RedisReply).  The hash commands follow a     *)
(* MOVED reply to the node it names.  A command is a record of what it     *)
(* chooses in that frame.  The asynchronous mode has one command, getAsync.*)
(***************************************************************************)
EXTENDS RedisReply

CONSTANTS
  Nodes       \* addresses of redis nodes

VARIABLES
  async,      \* _async
  connected,  \* _connected
  context,    \* state of the context: "none", "ok", an error, "freed"
  address,    \* _ip and _port
  up,         \* nodes that accept connections
  owner,      \* node that owns the key
  settled,    \* the nodes stay as they are from now on
  last        \* the last command: what its result promises, the reply, the result

client == <<connected, context, address>>
world  == <<up, owner, settled>>
vars   == <<async, client, world, last>>

NoCommand == [promise |-> "none", reply |-> "none", ret |-> 0]

Init ==
  /\ async \in BOOLEAN
  /\ connected = FALSE /\ context = "none"
  /\ address \in Nodes
  /\ up = Nodes /\ owner \in Nodes /\ settled = FALSE
  /\ last = NoCommand
------------------------------------------------------------------------------
(* The connection.  An operator says what the client becomes: the value of *)
(* <<_connected, _context, address>>.                                      *)

\* The flag only goes up here: a failure leaves it as it was, and frees the
\* context only when the flag is down.
connect(c, to) ==
  IF to \in up THEN <<TRUE, "ok", to>>
  ELSE <<c, IF c THEN "IO" ELSE "freed", to>>

reconnect(to) == connect(FALSE, to)

Becomes(c) == connected' = c[1] /\ context' = c[2] /\ address' = c[3]

\* hiredis opens an asynchronous connection in the background: no error yet.
connectAsync == <<TRUE, IF address \in up THEN "ok" ELSE "dead", address>>

Connect ==
  /\ Becomes(IF async THEN connectAsync ELSE connect(connected, address))
  /\ UNCHANGED <<async, world, last>>

Disconnect ==
  /\ ~async /\ ~settled
  /\ Becomes(<<FALSE, IF connected THEN "freed" ELSE context, address>>)
  /\ UNCHANGED <<async, world, last>>
------------------------------------------------------------------------------
(* The commands                                                            *)

Rule(retry, ret) == [retry |-> retry, ret |-> ret, follows |-> FALSE]
Following(rule)  == [rule EXCEPT !.follows = TRUE]

get       == Rule(Four, StringReply)
set       == Rule(Four, Unchecked)
mget      == Rule(Four, MultiReply)
remove    == Rule(Four, Unchecked)
incr      == Rule(Four, IntegerOrZero)
decr      == Rule(Four, IntegerOrZero)
scan      == Rule(Three, ScanReply)
keys      == Rule(Three, FreedReply)
keysMatch == Rule(Three, FreedReply)
rpush     == Rule(Four, IntegerOrZero)
lset      == Rule(Four, Unchecked)
llen      == Rule(Three, IntegerOrFailed)
lpop      == Rule(Three, StringReply)
lindex    == Rule(Three, StringReply)
lrange    == Rule(Three, Unchecked)
lrem      == Rule(Four, Unchecked)
hashset   == Following(Rule(Four, Unchecked))
hashget   == Following(Rule(Four, HashReply))
hashgetv2 == Following(Rule(Four, HashReply))
hashdel   == Rule(Four, Unchecked)
hashscan  == Rule(Three, HashScanReply)
zaddScore == Rule(Three, Unchecked)
zadd      == Rule(Three, Unchecked)
zrevrange == Rule(Three, Unchecked)
zrevrangeMembers == Rule(Three, Unchecked)
zrangebyscore    == Rule(Three, Unchecked)
zrevrangebyscore == Rule(Three, Unchecked)
zcard     == Rule(Three, IntegerOrFailed)
zcount    == Rule(Three, IntegerOrFailed)
zremrangebyscore == Rule(Four, Unchecked)
zrank     == Rule(Three, IntegerOrFailed)
zrem      == Rule(Three, IntegerOrFailed)
zrevrank  == Rule(Three, IntegerOrFailed)

Command ==
  [get |-> get, set |-> set, mget |-> mget, remove |-> remove, incr |-> incr,
   decr |-> decr, scan |-> scan, keys |-> keys, keysMatch |-> keysMatch,
   rpush |-> rpush, lset |-> lset, llen |-> llen, lpop |-> lpop,
   lindex |-> lindex, lrange |-> lrange, lrem |-> lrem, hashset |-> hashset,
   hashget |-> hashget, hashgetv2 |-> hashgetv2, hashdel |-> hashdel,
   hashscan |-> hashscan, zaddScore |-> zaddScore, zadd |-> zadd,
   zrevrange |-> zrevrange, zrevrangeMembers |-> zrevrangeMembers,
   zrangebyscore |-> zrangebyscore, zrevrangebyscore |-> zrevrangebyscore,
   zcard |-> zcard, zcount |-> zcount, zremrangebyscore |-> zremrangebyscore,
   zrank |-> zrank, zrem |-> zrem, zrevrank |-> zrevrank]
Commands == DOMAIN Command

\* How a caller tells failure from success.  util/inv_redis.h says it of get (0
\* is success), incr (<= 0 is a failure), set, remove and hashdel (-1 is one);
\* the commands beside them that look at the kind of the reply do as get and
\* incr do: "value" and "count".  set, remove and hashdel answer with 0 or -1
\* and look at no reply: "status".  Of the rest it says nothing.
Promise(cmd) ==
  CASE cmd \in {"get", "mget", "lpop", "lindex", "hashget", "hashgetv2",
                "hashscan", "llen", "zcard", "zcount", "zrank", "zrem",
                "zrevrank"} -> "value"
    [] cmd \in {"incr", "decr", "rpush"} -> "count"
    [] cmd \in {"set", "remove", "hashdel"} -> "status"
    [] OTHER -> "none"

\* Commands that behave alike are one kind.
Kind(cmd) == [rule |-> Command[cmd], promise |-> Promise(cmd)]
Kinds     == {Kind(cmd) : cmd \in Commands}

Returns(promise, reply, ret) ==
  last' = [promise |-> promise, reply |-> reply, ret |-> ret]

\* Not connected: reconnect, and fail without having sent anything.
CallUnconnected(k) ==
  /\ ~async /\ ~connected
  /\ Becomes(reconnect(address))
  /\ Returns(k.promise, "none", Failed)
  /\ UNCHANGED <<async, world>>

\* No reply: the context has its error, from now or from an earlier command.
CallBroken(k) ==
  /\ ~async /\ connected /\ context \in Errors
  /\ IF context \in k.rule.retry THEN Becomes(reconnect(address))
     ELSE UNCHANGED client
  /\ Returns(k.promise, "none", Failed)
  /\ UNCHANGED <<async, world>>

\* The server answers.  A node that does not own the key answers MOVED.
CallAnswered(k) ==
  /\ ~async /\ connected /\ context = "ok" /\ address \in up
  /\ \E reply \in (IF address = owner THEN Replies \ {"moved"} ELSE {"moved"}) :
       /\ \E ret \in k.rule.ret[reply] : Returns(k.promise, reply, ret)
       /\ IF reply = "moved" /\ k.rule.follows
          THEN Becomes(reconnect(owner)) ELSE UNCHANGED client
  /\ UNCHANGED <<async, world>>

\* hashset with fields and values of different numbers, or with none of them
\* (setcommand gives no reply and no error); hashdel without fields.
CallNothing ==
  /\ ~async /\ connected
  /\ \/ Returns("none", "none", -2)
     \/ context = "ok" /\ Returns("none", "none", Failed)
     \/ Returns("status", "none", 0)
  /\ UNCHANGED <<async, client, world>>

Call(k) == CallUnconnected(k) \/ CallBroken(k) \/ CallAnswered(k)

getAsync ==
  /\ async /\ connected
  /\ Returns("none", IF context = "ok" THEN "string" ELSE "none",
             IF context = "ok" THEN 0 ELSE Failed)
  /\ UNCHANGED <<async, client, world>>

\* hiredis calls back when a connection that was established is lost, never
\* when an attempt fails: an attempt that fails here is the last one.
onDisconnect ==
  /\ async /\ context = "IO"
  /\ Becomes(connectAsync)
  /\ UNCHANGED <<async, world, last>>
------------------------------------------------------------------------------
(* hiredis and the servers (external)                                      *)

\* A connection breaks, or a command on it gets no valid reply in time.
Break ==
  /\ ~settled /\ connected /\ context = "ok"
  /\ \E e \in IF async THEN {"IO"} ELSE Errors : context' = e
  /\ UNCHANGED <<async, connected, address, world, last>>

\* A node stops accepting connections or does again; the key moves.
Cluster ==
  /\ ~settled
  /\ \/ /\ \E n \in Nodes : up' = IF n \in up THEN up \ {n} ELSE up \union {n}
        /\ UNCHANGED <<owner, settled>>
     \/ owner' \in Nodes \ {owner} /\ UNCHANGED <<up, settled>>
     \/ settled' = TRUE /\ up' = Nodes /\ UNCHANGED owner
  /\ context' = IF connected /\ context = "ok" /\ address \notin up' THEN "IO" ELSE context
  /\ UNCHANGED <<async, connected, address, last>>

Next ==
  \/ Connect \/ Disconnect \/ CallNothing \/ getAsync \/ onDisconnect
  \/ \E k \in Kinds : Call(k)
  \/ Break \/ Cluster

Spec == Init /\ [][Next]_vars
\* The program goes on with a command that follows the key.
FairSpec == Spec /\ WF_vars(Call(Kind("hashget")))
------------------------------------------------------------------------------
TypeOK ==
  /\ connected \in BOOLEAN
  /\ context \in Errors \union {"none", "ok", "freed", "dead"}
  /\ address \in Nodes /\ up \subseteq Nodes /\ owner \in Nodes
  /\ connected /\ ~async => context \in Errors \union {"ok"}

\* The commands whose code looks at the kind of the reply never take one that
\* says the server refused, or no reply, for a success (util/inv_redis.h:44:
\* 0 is success; :70: a counter <= 0 is a failure).
FailureReported ==
  \/ last.promise = "value" /\ last.ret >= 0
  \/ last.promise = "count" /\ last.ret > 0
  => last.reply \notin Refused \union {"none"}

\* Nor do set, remove and hashdel, of which the header says that -1 is a failure
\* (util/inv_redis.h:58, :63, :128).  It does not hold: a reply is a success to
\* them whatever it says.
RefusalReported == last.promise = "status" /\ last.reply \in Refused => last.ret < 0

\* When the nodes stay up, the client comes back from any error it met and
\* finds the node that owns the key.
Works == connected /\ context = "ok" /\ address = owner
Heals == settled /\ ~async ~> Works
===============================================================================
