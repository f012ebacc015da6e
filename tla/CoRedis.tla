------------------------------- MODULE CoRedis -------------------------------
(***************************************************************************)
(* INV_CoRedis (src/common/inutil/inv_coredis.cpp) over INV_CoTCPClient    *)
(* (inv_coclientsocket.cpp): a client of a redis cluster that keeps one    *)
(* connection per node, picks the node by the slot of the key, follows     *)
(* MOVED, and after some failures turns to another of its nodes.           *)
(*                                                                         *)
(* One coroutine uses the object.  The slot table is static: instances of  *)
(* other threads write it too.  Keys are those of one slot.                *)
(***************************************************************************)
EXTENDS RedisReply, Sequences, FiniteSetsExt

CONSTANTS
  Addrs,      \* the order of the map of clients: a sequence of addresses
  NoAddr      \* an empty entry of the slot table

AddrsAssumption == Addrs \in Seq(Range(Addrs)) /\ Addrs # <<>>

VARIABLES
  current,    \* address of _client
  clients,    \* addresses in _clients
  open,       \* clients whose socket is open (_fd, _connected)
  slot,       \* _slotCache of the slot
  pending,    \* per address: the replies the connection still owes, in order
  pc,         \* "idle", "send", "recv"
  ret,        \* result of the last command
  mine,       \* the last reply that was used was that of its own command
  owner,      \* the node that owns the slot
  down,       \* the node that does not answer, or NoAddr
  settled     \* the cluster stays as it is from now on

Address == Range(Addrs)
object  == <<current, clients, open, slot, pending, pc, ret, mine>>
world   == <<owner, down, settled>>
vars    == <<object, world>>

reachable(a) == a # down

Init ==
  /\ current \in Address
  /\ clients \in {{current}, Address} /\ open = clients   \* mutilconn: all nodes
  /\ owner \in Address /\ down = NoAddr /\ settled = FALSE
  /\ slot \in {owner, NoAddr}       \* ClusterSlots() filled the table or failed
  /\ pending = [a \in Address |-> <<>>]
  /\ pc = "idle" /\ ret = 0 /\ mine = TRUE
------------------------------------------------------------------------------
(* INV_CoTCPClient                                                         *)

\* Every failure of send() and recv() closes the socket.
close(a) ==
  /\ open' = open \ {a}
  /\ pending' = [pending EXCEPT ![a] = <<>>]

checkSocket(a) == a \in open \/ reachable(a)
------------------------------------------------------------------------------
(* The commands, by what they make of the reply                            *)

get      == StringReply
set      == Unchecked
remove   == Unchecked
incr     == IntegerOrZero
decr     == IntegerOrZero
keys     == FreedReply
rpush    == IntegerOrZero
lset     == Unchecked
llen     == IntegerOrZero
lpop     == StringReply
\* The NIL of a wait that timed out falls through to the last branch.
blpop    == [r \in Replies |-> IF r \in {"array", "array-nil"} THEN {0, NotFound}
                               ELSE {Failed}]
lindex   == StringReply
lrange   == Unchecked
lrem     == Unchecked
zaddScore == Unchecked
zadd     == Unchecked
zrevrange        == Unchecked
zrevrangeMembers == Unchecked
zrangebyscore    == Unchecked
zrevrangebyscore == Unchecked
zcard    == IntegerOrZero
zcount   == IntegerOrZero
zremrangebyscore == Unchecked
zrank    == IntegerOrZero
zrevrank == IntegerOrZero
hashset  == Unchecked
hashget  == HashReply
hashsetOne == Unchecked
\* The value is there only when the reply was a string of one element.
hashgetOne == [r \in Replies |-> IF hashget[r] = {0} THEN {0, -2} ELSE hashget[r]]

Commands ==
  {get, set, remove, incr, decr, keys, rpush, lset, llen, lpop, blpop, lindex,
   lrange, lrem, zaddScore, zadd, zrevrange, zrevrangeMembers, zrangebyscore,
   zrevrangebyscore, zcard, zcount, zremrangebyscore, zrank, zrevrank, hashset,
   hashget, hashsetOne, hashgetOne}
------------------------------------------------------------------------------
(* A command                                                               *)

\* The connection of the node the slot table names, if it is open.
AdjustClient ==
  current' = IF slot \in clients \cap open THEN slot ELSE current

\* keys() goes to the connection used last.
Call(adjusts) ==
  /\ pc = "idle" /\ pc' = "send"
  /\ IF adjusts THEN AdjustClient ELSE UNCHANGED current
  /\ ret' = 0 /\ mine' = TRUE
  /\ pending' = [a \in Address |-> [i \in DOMAIN pending[a] |-> "old"]]
  /\ UNCHANGED <<clients, open, slot, world>>

\* hashset with fields and values of different numbers.
CallNothing ==
  /\ pc = "idle" /\ ret' = -2
  /\ UNCHANGED <<current, clients, open, slot, pending, pc, mine, world>>

\* The first client of the map that is another one.
Others == {i \in DOMAIN Addrs : Addrs[i] \in clients \ {current}}
TurnToAnother == current' = IF Others = {} THEN current ELSE Addrs[Min(Others)]

\* No reply.  After EM_CONNECT, EM_TIMEOUT, EM_CLOSE or EM_SOCKET the object
\* turns to another node, after EM_SEND, EM_RECV or EM_SELECT it does not.
Fails(turns) ==
  /\ pc' = "idle" /\ ret' = Failed
  /\ close(current)
  /\ IF turns THEN TurnToAnother ELSE UNCHANGED current
  /\ UNCHANGED <<clients, slot, mine, world>>

Send ==
  /\ pc = "send" /\ checkSocket(current)
  /\ open' = open \union {current}
  /\ pending' = [pending EXCEPT ![current] = Append(@, "new")]
  /\ pc' = "recv"
  /\ UNCHANGED <<current, clients, slot, ret, mine, world>>

SendFails ==
  /\ pc = "send"
  /\ IF checkSocket(current) THEN ~settled /\ \E turns \in BOOLEAN : Fails(turns)
     ELSE Fails(TRUE)

\* A node answers what it owns and sends the rest to the owner; while the
\* cluster changes, to any other node.
Answers == IF current = owner THEN Replies \ {"moved"} ELSE {"moved"}

Received ==
  /\ pc = "recv" /\ pending[current] # <<>> /\ reachable(current)
  /\ mine' = (Head(pending[current]) = "new")

\* MUTANT of Moved: the new owner is connected, but not used.
MovedUnused ==
  /\ Received /\ "moved" \in Answers
  /\ clients' = clients \union {owner}
  /\ slot' = owner
  /\ pending' = [pending EXCEPT ![current] = Tail(@)]
  /\ pc' = "send"
  /\ UNCHANGED <<current, open, ret, world>>

Moved ==
  /\ Received /\ "moved" \in Answers
  /\ \E to \in IF settled THEN {owner} ELSE Address \ {current} :
       /\ current' = to /\ slot' = to
       /\ clients' = clients \union {to}
       /\ open' = IF to \notin clients /\ reachable(to) THEN open \union {to} ELSE open
  /\ pending' = [pending EXCEPT ![current] = Tail(@)]
  /\ pc' = "send"
  /\ UNCHANGED <<ret, world>>

Replied ==
  /\ Received
  /\ \E reply \in Answers \ {"moved"}, cmd \in Commands : ret' \in cmd[reply]
  /\ pending' = [pending EXCEPT ![current] = Tail(@)]
  /\ pc' = "idle"
  /\ UNCHANGED <<current, clients, open, slot, world>>

\* The answer is late, the peer closed, or the bytes are no reply.
RecvFails ==
  /\ pc = "recv"
  /\ IF settled THEN ~reachable(current) /\ Fails(TRUE)
     ELSE \E turns \in BOOLEAN : Fails(turns)
------------------------------------------------------------------------------
(* The cluster and the other instances (external)                          *)

Cluster ==
  /\ ~settled
  /\ \/ owner' \in Address \ {down} /\ UNCHANGED <<down, settled>>
     \/ down' \in (Address \ {owner}) \union {NoAddr} /\ UNCHANGED <<owner, settled>>
     \/ settled' = TRUE /\ UNCHANGED <<owner, down>>
  /\ UNCHANGED object

OtherInstance ==
  /\ ~settled
  /\ slot' \in Address
  /\ UNCHANGED <<current, clients, open, pending, pc, ret, mine, world>>

Step == Send \/ SendFails \/ Moved \/ Replied \/ RecvFails
Next ==
  \/ \E adjusts \in BOOLEAN : Call(adjusts)
  \/ CallNothing \/ Step \/ Cluster \/ OtherInstance

Spec == Init /\ [][Next]_vars
FairSpec == Spec /\ WF_vars(Step) /\ WF_vars(Call(TRUE))
------------------------------------------------------------------------------
TypeOK ==
  /\ clients \subseteq Address /\ current \in clients /\ open \subseteq clients
  /\ slot \in Address \union {NoAddr}
  /\ pending \in [Address -> Seq({"new", "old"})]
  /\ \A a \in Address : Len(pending[a]) <= 3
  /\ pc \in {"idle", "send", "recv"}
  /\ owner \in Address /\ down \in Address \union {NoAddr}

\* A command never takes the late answer of an earlier one for its own: the
\* connection of a command that gave up is closed.
ReplyIsMine == mine

\* Once the cluster is stable, with one node down at most, the commands of an
\* object that knows a node that is up get through to the owner of the slot: it
\* turns away from the node that is down, and MOVED leads it on.
Knows == \E a \in clients : reachable(a)
GetsThrough == settled /\ Knows ~> (pc = "recv" /\ current = owner)
===============================================================================
