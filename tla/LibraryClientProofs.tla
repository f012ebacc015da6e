------------------------- MODULE LibraryClientProofs -------------------------
(***************************************************************************)
(* What a client of the common library reports is what its server did, for *)
(* any number of clients, nodes, bytes, rows, calls and records: the Redis *)
(* clients, the socket client, the clients of the databases, the generated *)
(* client of the service and the Kafka consumer, each with the invariant   *)
(* of its own that carries its promise.                                    *)
(***************************************************************************)
EXTENDS Integers, Sequences, LibraryThreadProofs, SequenceTheorems

------------------------------------------------------------------------------
(* INV_Redis of inv_redis.cpp.                                             *)

RType ==
  /\ r_context \in R!Errors \union {"none", "ok", "freed", "dead"}
  /\ r_address \in Nodes /\ r_up \subseteq Nodes /\ r_owner \in Nodes
  /\ r_connected /\ ~r_async => r_context \in R!Errors \union {"ok"}
RInv == r_connected \in BOOLEAN /\ RType /\ R!FailureReported

\* The tables of the commands that look at the kind of the reply.
LEMMA RefusedFails ==
  ASSUME NEW k \in R!Kinds, NEW r \in R!Refused, NEW x \in k.rule.ret[r]
  PROVE  /\ k.promise = "value" => x \in Int /\ x < 0
         /\ k.promise = "count" => x \in Int /\ x <= 0
<1> DEFINE Checked == {"get", "mget", "lpop", "lindex", "hashget", "hashgetv2",
                       "hashscan", "llen", "zcard", "zcount", "zrank", "zrem",
                       "zrevrank"}
           Counted == {"incr", "decr", "rpush"}
<1>1. PICK cmd \in R!Commands : k = R!Kind(cmd)
  BY DEF R!Kinds
<1>2. k.promise = R!Promise(cmd) /\ k.rule = R!Command[cmd]
  BY <1>1 DEF R!Kind
<1>3. k.promise = "value" => cmd \in Checked
  BY <1>2 DEF R!Promise
<1>4. k.promise = "count" => cmd \in Counted
  BY <1>2 DEF R!Promise
<1>5. CASE cmd \in {"get", "lpop", "lindex"}
  <2>1. k.rule.ret = R!StringReply
    BY <1>2, <1>5 DEF R!Command, R!get, R!lpop, R!lindex, R!Rule
  <2> QED BY <2>1, <1>4, <1>5 DEF R!StringReply, R!Refused, R!Replies, R!Failed
<1>6. CASE cmd = "mget"
  <2>1. k.rule.ret = R!MultiReply
    BY <1>2, <1>6 DEF R!Command, R!mget, R!Rule
  <2> QED BY <2>1, <1>4, <1>6 DEF R!MultiReply, R!Refused, R!Replies, R!Failed
<1>7. CASE cmd \in {"hashget", "hashgetv2"}
  <2>1. k.rule.ret = R!HashReply
    BY <1>2, <1>7 DEF R!Command, R!hashget, R!hashgetv2, R!Following, R!Rule
  <2> QED BY <2>1, <1>4, <1>7 DEF R!HashReply, R!Refused, R!Replies, R!Failed
<1>8. CASE cmd = "hashscan"
  <2>1. k.rule.ret = R!HashScanReply
    BY <1>2, <1>8 DEF R!Command, R!hashscan, R!Rule
  <2> QED BY <2>1, <1>4, <1>8 DEF R!HashScanReply, R!Refused, R!Replies, R!Failed
<1>9. CASE cmd \in {"llen", "zcard", "zcount", "zrank", "zrem", "zrevrank"}
  <2>1. k.rule.ret = R!IntegerOrFailed
    BY <1>2, <1>9 DEF R!Command, R!llen, R!zcard, R!zcount, R!zrank, R!zrem, R!zrevrank, R!Rule
  <2> QED BY <2>1, <1>4, <1>9 DEF R!IntegerOrFailed, R!Refused, R!Replies, R!Failed
<1>10. CASE cmd \in Counted
  <2>1. k.rule.ret = R!IntegerOrZero
    BY <1>2, <1>10 DEF R!Command, R!incr, R!decr, R!rpush, R!Rule
  <2> QED BY <2>1, <1>3, <1>10 DEF R!IntegerOrZero, R!Refused, R!Replies
<1> QED
  BY <1>3, <1>4, <1>5, <1>6, <1>7, <1>8, <1>9, <1>10

\* The client begins in its invariant.
LEMMA RedisInit == R!Init => RInv
<1>1. R!Init => r_connected \in BOOLEAN
  BY Zenon DEF R!Init
<1>2. R!Init => RType
  BY DEF R!Init, RType
<1>3. R!Init => R!FailureReported
  BY DEF R!Init, R!FailureReported, R!NoCommand
<1> QED BY <1>1, <1>2, <1>3 DEF RInv

\* What a connection attempt leaves behind.
LEMMA Connected ==
  ASSUME NEW c \in BOOLEAN, NEW to, R!Becomes(R!connect(c, to))
  PROVE  /\ r_connected' \in BOOLEAN
         /\ r_address' = to
         /\ r_context' \in {"ok", "IO", "freed"}
         /\ r_connected' => r_context' \in {"ok", "IO"}
<1>1. CASE to \in r_up
  <2>1. r_connected' = TRUE /\ r_context' = "ok" /\ r_address' = to
    BY <1>1 DEF R!Becomes, R!connect
  <2> QED BY Zenon, <2>1
<1>2. CASE to \notin r_up
  <2>1. r_connected' = c /\ r_context' = (IF c THEN "IO" ELSE "freed") /\ r_address' = to
    BY <1>2 DEF R!Becomes, R!connect
  <2> QED BY Zenon, <2>1
<1> QED BY <1>1, <1>2

\* An object is connected as soon as connectAsync() returns, to its address, dead or not.
LEMMA AsyncConnected ==
  ASSUME R!Becomes(R!connectAsync)
  PROVE  /\ r_connected' = TRUE
         /\ r_address' = r_address
         /\ r_context' \in {"ok", "dead"}
  BY DEF R!Becomes, R!connectAsync

\* No step of the client, or of the cluster, disturbs it.
LEMMA RedisStep == RInv /\ [R!Next]_varsR => RInv'
<1> SUFFICES ASSUME RInv, [R!Next]_varsR PROVE RInv'
  OBVIOUS
<1>0. r_connected \in BOOLEAN /\ RType /\ R!FailureReported
  BY DEF RInv
<1>1. CASE R!Connect
  <2>1. UNCHANGED <<r_async, r_up, r_owner, r_settled, r_last>>
    BY <1>1 DEF R!Connect, R!world
  <2>2. CASE r_async
    <3>1. R!Becomes(R!connectAsync)
      BY <1>1, <2>2 DEF R!Connect
    <3>2. r_connected' = TRUE /\ RType'
      BY <1>0, <2>1, <2>2, <3>1, AsyncConnected DEF RType
    <3>3. r_connected' \in BOOLEAN
      BY Zenon, <3>2
    <3> QED BY <1>0, <2>1, <3>2, <3>3 DEF RInv, R!FailureReported
  <2>3. CASE ~r_async
    <3>1. R!Becomes(R!connect(r_connected, r_address))
      BY <1>1, <2>3 DEF R!Connect
    <3>2. RType'
      BY <1>0, <2>1, <2>3, <3>1, Connected DEF RType, R!Errors
    <3>3. r_connected' \in BOOLEAN
      BY <1>0, <3>1, Connected
    <3> QED BY <1>0, <2>1, <3>2, <3>3 DEF RInv, R!FailureReported
  <2> QED BY <2>2, <2>3
<1>2. CASE R!Disconnect
  <2>1. r_connected' = FALSE /\ r_context' = (IF r_connected THEN "freed" ELSE r_context)
        /\ r_address' = r_address
    BY <1>2 DEF R!Disconnect, R!Becomes
  <2>2. UNCHANGED <<r_async, r_up, r_owner, r_settled, r_last>>
    BY <1>2 DEF R!Disconnect, R!world
  <2>3. r_connected' \in BOOLEAN
    BY Zenon, <2>1
  <2>4. RType'
    BY <1>0, <2>1, <2>2 DEF RType
  <2> QED BY <1>0, <2>2, <2>3, <2>4 DEF RInv, R!FailureReported
<1>3. CASE \E k \in R!Kinds : R!Call(k)
  <2>1. PICK k \in R!Kinds : R!Call(k)
    BY <1>3
  <2>2. r_owner \in Nodes /\ r_address \in Nodes /\ FALSE \in BOOLEAN
    BY <1>0 DEF RType
  <2>3. CASE R!CallUnconnected(k)
    <3>1. R!Becomes(R!connect(FALSE, r_address)) /\ UNCHANGED <<r_async, r_up, r_owner, r_settled>>
      BY <2>3 DEF R!CallUnconnected, R!reconnect, R!world
    <3>2. RType' /\ r_connected' \in BOOLEAN
      BY <1>0, <2>2, <3>1, Connected DEF RType, R!Errors
    <3>3. R!FailureReported'
      BY <2>3 DEF R!CallUnconnected, R!Returns, R!FailureReported, R!Failed
    <3> QED BY <3>2, <3>3 DEF RInv
  <2>4. CASE R!CallBroken(k)
    <3>1. UNCHANGED <<r_async, r_up, r_owner, r_settled>>
      BY <2>4 DEF R!CallBroken, R!world
    <3>2. RType' /\ r_connected' \in BOOLEAN
      <4>1. CASE r_context \in k.rule.retry
        BY <1>0, <2>2, <2>4, <3>1, <4>1, Connected DEF R!CallBroken, R!reconnect, RType, R!Errors
      <4>2. CASE r_context \notin k.rule.retry
        BY <1>0, <2>4, <3>1, <4>2 DEF R!CallBroken, RType, R!client
      <4> QED BY <4>1, <4>2
    <3>3. R!FailureReported'
      BY <2>4 DEF R!CallBroken, R!Returns, R!FailureReported, R!Failed
    <3> QED BY <3>2, <3>3 DEF RInv
  <2>5. CASE R!CallAnswered(k)
    <3>1. UNCHANGED <<r_async, r_up, r_owner, r_settled>>
      BY <2>5 DEF R!CallAnswered, R!world
    <3>2. PICK reply \in (IF r_address = r_owner THEN R!Replies \ {"moved"} ELSE {"moved"}) :
            /\ \E ret \in k.rule.ret[reply] : R!Returns(k.promise, reply, ret)
            /\ IF reply = "moved" /\ k.rule.follows
               THEN R!Becomes(R!reconnect(r_owner)) ELSE UNCHANGED R!client
      BY <2>5 DEF R!CallAnswered
    <3>3. RType' /\ r_connected' \in BOOLEAN
      <4>1. CASE reply = "moved" /\ k.rule.follows
        BY <1>0, <2>2, <3>1, <3>2, <4>1, Connected DEF R!reconnect, RType, R!Errors
      <4>2. CASE ~(reply = "moved" /\ k.rule.follows)
        BY <1>0, <3>1, <3>2, <4>2 DEF RType, R!client
      <4> QED BY <4>1, <4>2
    <3>4. PICK ret \in k.rule.ret[reply] : R!Returns(k.promise, reply, ret)
      BY <3>2
    <3>5. R!FailureReported'
      <4>1. CASE reply \in R!Refused
        BY <3>4, <4>1, RefusedFails DEF R!Returns, R!FailureReported
      <4>2. CASE reply \notin R!Refused
        <5>1. reply \notin R!Refused \union {"none"}
          BY <4>2, <3>2 DEF R!Replies
        <5> QED BY <3>4, <5>1 DEF R!Returns, R!FailureReported
      <4> QED BY <4>1, <4>2
    <3> QED BY <3>3, <3>5 DEF RInv
  <2> QED BY <2>1, <2>3, <2>4, <2>5 DEF R!Call
<1>4. CASE R!CallNothing
  <2>1. R!FailureReported'
    BY <1>4 DEF R!CallNothing, R!Returns, R!FailureReported
  <2>2. UNCHANGED <<r_async, r_connected, r_context, r_address, r_up, r_owner>>
    BY <1>4 DEF R!CallNothing, R!client, R!world
  <2> QED BY <1>0, <2>1, <2>2 DEF RInv, RType
<1>5. CASE R!getAsync
  <2>1. R!FailureReported'
    BY <1>5 DEF R!getAsync, R!Returns, R!FailureReported
  <2>2. UNCHANGED <<r_async, r_connected, r_context, r_address, r_up, r_owner>>
    BY <1>5 DEF R!getAsync, R!client, R!world
  <2> QED BY <1>0, <2>1, <2>2 DEF RInv, RType
<1>6. CASE R!onDisconnect
  <2>1. r_async /\ R!Becomes(R!connectAsync) /\ UNCHANGED <<r_async, r_up, r_owner, r_settled, r_last>>
    BY <1>6 DEF R!onDisconnect, R!world
  <2>2. r_connected' = TRUE /\ RType'
    BY <1>0, <2>1, AsyncConnected DEF RType
  <2>3. r_connected' \in BOOLEAN
    BY Zenon, <2>2
  <2> QED BY <1>0, <2>1, <2>2, <2>3 DEF RInv, R!FailureReported
<1>7. CASE R!Break
  <2>1. RType'
    BY <1>0, <1>7 DEF R!Break, R!world, RType, R!Errors
  <2> QED BY <1>0, <1>7, <2>1 DEF R!Break, RInv, R!FailureReported
<1>8. CASE R!Cluster
  <2>1. r_connected' = r_connected /\ r_async' = r_async /\ r_address' = r_address /\ r_last' = r_last
    BY <1>8 DEF R!Cluster
  <2>2. r_up' \subseteq Nodes /\ r_owner' \in Nodes
    BY <1>0, <1>8 DEF R!Cluster, RType
  <2>3. r_context' = r_context \/ (r_connected /\ r_context' = "IO")
    BY <1>8 DEF R!Cluster
  <2>4. RType'
    BY <1>0, <2>1, <2>2, <2>3 DEF RType, R!Errors
  <2> QED BY <1>0, <2>1, <2>4 DEF RInv, R!FailureReported
<1>9. CASE UNCHANGED varsR
  BY <1>0, <1>9 DEF varsR, RInv, RType, R!FailureReported
<1> QED
  BY <1>1, <1>2, <1>3, <1>4, <1>5, <1>6, <1>7, <1>8, <1>9 DEF R!Next

------------------------------------------------------------------------------
(* INV_Redis of inv_redis2.cpp.                                            *)

\* A function changed in one place keeps its type.
LEMMA ExceptType ==
  ASSUME NEW U, NEW V, NEW f \in [U -> V], NEW s \in U, NEW v \in V
  PROVE  [f EXCEPT ![s] = v] \in [U -> V]
  OBVIOUS

TInv ==
  /\ t_connected \in [Clients -> BOOLEAN]
  /\ t_context \in [Clients -> T!Errors \union {"none", "ok", "freed"}]
  /\ t_total \in 0 .. BadAfter + 1
  /\ t_fail \in BOOLEAN /\ t_up \in BOOLEAN

\* The clients begin in their invariant.
LEMMA Redis2Init == T!Init => TInv
<1> SUFFICES ASSUME T!Init PROVE TInv
  OBVIOUS
<1>1. t_connected \in [Clients -> BOOLEAN] /\ t_fail \in BOOLEAN /\ t_up \in BOOLEAN
  BY Zenon DEF T!Init
<1>2. t_context \in [Clients -> T!Errors \union {"none", "ok", "freed"}]
  BY DEF T!Init
<1>3. t_total \in 0 .. BadAfter + 1
  BY Redis2Assumption DEF T!BadAfterAssumption, T!Init
<1> QED BY <1>1, <1>2, <1>3 DEF TInv

\* What connect() and reconnect() leave of a client.
LEMMA Redis2Connected ==
  ASSUME TInv, NEW c \in Clients, T!connect(c) \/ T!reconnect(c)
  PROVE  /\ t_connected' \in [Clients -> BOOLEAN]
         /\ t_context' \in [Clients -> T!Errors \union {"none", "ok", "freed"}]
<1>1. PICK b \in BOOLEAN : t_connected' = [t_connected EXCEPT ![c] = b]
  <2>1. CASE T!connect(c)
    <3>1. (t_connected[c] \/ t_up) \in BOOLEAN
      BY Zenon
    <3> QED BY Zenon, <2>1, <3>1 DEF T!connect
  <2>2. CASE T!reconnect(c)
    BY Zenon, <2>2 DEF T!reconnect, TInv
  <2> QED BY <2>1, <2>2
<1>2. t_connected' \in [Clients -> BOOLEAN]
  BY <1>1, ExceptType DEF TInv
<1>3. PICK e \in {"ok", "IO"} : t_context' = [t_context EXCEPT ![c] = e]
  BY Zenon DEF T!connect, T!reconnect
<1>4. t_context' \in [Clients -> T!Errors \union {"none", "ok", "freed"}]
  BY <1>3 DEF TInv, T!Errors
<1> QED BY <1>2, <1>4

\* The count of the commands keeps to its bound.
LEMMA CountType ==
  ASSUME TInv, NEW cmd, T!CountCall(cmd)
  PROVE  t_total' \in 0 .. BadAfter + 1
  BY Redis2Assumption DEF T!BadAfterAssumption, TInv, T!CountCall, T!AddTotalNum

\* No step of a client, or of the server, disturbs it.
LEMMA Redis2Step == TInv /\ [T!Next]_varsT => TInv'
<1> SUFFICES ASSUME TInv, [T!Next]_varsT PROVE TInv'
  OBVIOUS
<1>1. ASSUME NEW c \in Clients, T!Connect(c) PROVE TInv'
  BY <1>1, Redis2Connected DEF T!Connect, T!count, T!world, TInv
<1>2. ASSUME NEW c \in Clients, T!Disconnect(c) PROVE TInv'
  <2>1. t_connected' \in [Clients -> BOOLEAN]
    <3>1. FALSE \in BOOLEAN
      BY Zenon
    <3> QED BY Zenon, <1>2, <3>1, ExceptType DEF T!Disconnect, TInv
  <2>2. t_context' \in [Clients -> T!Errors \union {"none", "ok", "freed"}]
    BY <1>2 DEF T!Disconnect, TInv
  <2> QED BY <1>2, <2>1, <2>2 DEF T!Disconnect, T!count, T!world, TInv
<1>3. ASSUME NEW c \in Clients, T!Break(c) PROVE TInv'
  <2>1. t_context' \in [Clients -> T!Errors \union {"none", "ok", "freed"}]
    BY <1>3 DEF T!Break, TInv
  <2> QED BY <1>3, <2>1 DEF T!Break, T!count, T!world, TInv
<1>4. ASSUME NEW c \in Clients, NEW cmd \in T!Commands, T!Call(c, cmd) PROVE TInv'
  <2>1. t_total' \in 0 .. BadAfter + 1
    BY <1>4, CountType DEF T!Call, T!CallUnconnected, T!CallBroken, T!CallAnswered,
                           T!CallNoContext, T!Sends
  <2>2. t_up' = t_up
    BY <1>4 DEF T!Call, T!CallUnconnected, T!CallBroken, T!CallAnswered,
                T!CallNoContext, T!world
  <2>3. t_fail' \in BOOLEAN
    <3>1. /\ (t_fail \/ cmd.counts) \in BOOLEAN
          /\ (t_fail \/ (cmd.counts /\ t_context[c] \in cmd.retry)) \in BOOLEAN
      BY Zenon
    <3>2. t_fail \in BOOLEAN
      BY DEF TInv
    <3> QED
      BY Zenon, <1>4, <3>1, <3>2 DEF T!Call, T!CallUnconnected, T!CallBroken,
                                 T!CallAnswered, T!CallNoContext
  <2>4. T!reconnect(c) \/ UNCHANGED T!client
    BY Zenon, <1>4 DEF T!Call, T!CallUnconnected, T!CallBroken, T!CallAnswered, T!CallNoContext
  <2> QED BY <2>1, <2>2, <2>3, <2>4, Redis2Connected DEF TInv, T!client
<1>5. CASE T!Server
  <2>1. t_context' \in [Clients -> T!Errors \union {"none", "ok", "freed"}]
    BY <1>5 DEF T!Server, TInv, T!Errors
  <2> QED BY <1>5, <2>1 DEF T!Server, T!count, TInv
<1>6. CASE UNCHANGED varsT
  BY <1>6 DEF varsT, TInv
<1> QED
  BY <1>1, <1>2, <1>3, <1>4, <1>5, <1>6 DEF T!Next

------------------------------------------------------------------------------
(* INV_CoRedis.                                                            *)

\* The connection of a command that waits owes one reply, its own; no other
\* connection owes any.
CoOwed == [a \in C!Address |-> IF c_pc = "recv" /\ a = c_current THEN <<"new">> ELSE <<>>]

CoType ==
  /\ c_clients \subseteq C!Address /\ c_current \in c_clients /\ c_open \subseteq c_clients
  /\ c_slot \in C!Address \union {Nil}
  /\ c_pc \in {"idle", "send", "recv"}
  /\ c_owner \in C!Address /\ c_down \in C!Address \union {Nil}

CInv == CoType /\ c_pending = CoOwed /\ c_mine = TRUE

\* The client begins in its invariant.
LEMMA CoInit == C!Init => CInv
  BY DEF C!Init, CInv, CoType, CoOwed

\* The node an object turns to is one of its clients.
LEMMA CoTurns ==
  ASSUME CoType, C!TurnToAnother
  PROVE  c_current' \in c_clients
<1>1. CASE C!Others = {}
  BY <1>1 DEF C!TurnToAnother, CoType
<1>2. CASE C!Others # {}
  <2>1. C!Others \in SUBSET Nat
    BY CoRedisAssumption DEF C!AddrsAssumption, C!Others
  <2>2. \E x \in C!Others : \A y \in C!Others : x <= y
    BY <1>2, <2>1, Least
  <2>3. C!Min(C!Others) \in C!Others
    BY <2>2 DEF C!Min
  <2> QED BY <2>3, <1>2 DEF C!TurnToAnother, C!Others
<1> QED BY <1>1, <1>2

\* A command that fails closes its connection, with all that it owes.
LEMMA CoFails ==
  ASSUME CInv, NEW turns, C!Fails(turns)
  PROVE  CInv'
<1>1. c_current' \in c_clients
  BY CoTurns DEF C!Fails, CInv, CoType
<1>2. c_pending' = [a \in C!Address |-> <<>>]
  BY DEF C!Fails, C!close, CInv, CoOwed
<1>3. c_pending' = CoOwed'
  BY <1>2 DEF C!Fails, CoOwed
<1>4. CoType'
  BY <1>1 DEF C!Fails, C!close, CInv, CoType, C!world
<1> QED BY <1>3, <1>4 DEF C!Fails, CInv

\* No step of the client, or of the cluster, disturbs it.
LEMMA CoStep == CInv /\ [C!Next]_varsC => CInv'
<1> SUFFICES ASSUME CInv, [C!Next]_varsC PROVE CInv'
  OBVIOUS
<1>0. CoType /\ c_pending = CoOwed /\ c_mine = TRUE
  BY DEF CInv
<1>1. ASSUME NEW adjusts \in BOOLEAN, C!Call(adjusts) PROVE CInv'
  <2>1. c_current' \in c_clients
    BY <1>0, <1>1 DEF C!Call, C!AdjustClient, CoType
  <2>2. \A a \in C!Address : c_pending[a] = <<>>
    BY <1>0, <1>1 DEF C!Call, CoOwed
  <2>3. \A a \in C!Address : [i \in DOMAIN c_pending[a] |-> "old"] = <<>>
    BY <2>2
  <2>4. c_pending' = CoOwed'
    BY <1>1, <2>3 DEF C!Call, CoOwed
  <2> QED BY <1>0, <1>1, <2>1, <2>4 DEF C!Call, CInv, CoType, C!world
<1>2. CASE C!CallNothing
  BY <1>0, <1>2 DEF C!CallNothing, CInv, CoType, CoOwed, C!world
<1>3. CASE C!Send
  <2>1. c_current \in C!Address
    BY <1>0 DEF CoType
  <2>2. c_pending = [a \in C!Address |-> <<>>]
    BY <1>0, <1>3 DEF C!Send, CoOwed
  <2>3. Append(c_pending[c_current], "new") = <<"new">>
    BY <2>1, <2>2
  <2>4. c_pending' = CoOwed'
    BY <1>3, <2>1, <2>2, <2>3 DEF C!Send, CoOwed
  <2> QED BY <1>0, <1>3, <2>4 DEF C!Send, CInv, CoType, C!world
<1>4. CASE C!SendFails
  BY <1>4, CoFails DEF C!SendFails
<1>5. CASE C!RecvFails
  BY <1>5, CoFails DEF C!RecvFails
<1>6. ASSUME C!Received
      PROVE  /\ c_mine' = TRUE
             /\ [c_pending EXCEPT ![c_current] = Tail(@)] = [a \in C!Address |-> <<>>]
  <2>1. c_current \in C!Address /\ c_pc = "recv"
    BY <1>0, <1>6 DEF CoType, C!Received
  <2>2. c_pending[c_current] = <<"new">>
    BY <1>0, <2>1 DEF CoOwed
  <2>3. Head(c_pending[c_current]) = "new" /\ Tail(c_pending[c_current]) = <<>>
    BY <2>2
  <2>4. c_mine' = TRUE
    BY <1>6, <2>3 DEF C!Received
  <2> QED BY <1>0, <2>1, <2>3, <2>4 DEF CoOwed
<1>7. CASE C!Moved
  <2>1. c_mine' = TRUE /\ c_pending' = [a \in C!Address |-> <<>>]
    BY <1>6, <1>7 DEF C!Moved
  <2>2. c_pc' = "send" /\ UNCHANGED <<c_owner, c_down>>
    BY <1>7 DEF C!Moved, C!world
  <2>3. PICK to \in IF c_settled THEN {c_owner} ELSE C!Address \ {c_current} :
          /\ c_current' = to /\ c_slot' = to
          /\ c_clients' = c_clients \union {to}
          /\ c_open' = IF to \notin c_clients /\ C!reachable(to) THEN c_open \union {to} ELSE c_open
    BY <1>7 DEF C!Moved
  <2>4. to \in C!Address
    BY <1>0, <2>3 DEF CoType
  <2> QED BY <1>0, <2>1, <2>2, <2>3, <2>4 DEF CInv, CoType, CoOwed
<1>8. CASE C!Replied
  <2>1. c_mine' = TRUE /\ c_pending' = [a \in C!Address |-> <<>>]
    BY <1>6, <1>8 DEF C!Replied
  <2> QED BY <1>0, <1>8, <2>1 DEF C!Replied, CInv, CoType, CoOwed, C!world
<1>9. CASE C!Cluster
  BY <1>0, <1>9 DEF C!Cluster, C!object, CInv, CoType, CoOwed
<1>10. CASE C!OtherInstance
  BY <1>0, <1>10 DEF C!OtherInstance, C!world, CInv, CoType, CoOwed
<1>11. CASE UNCHANGED varsC
  BY <1>0, <1>11 DEF varsC, CInv, CoType, CoOwed
<1> QED
  BY <1>1, <1>2, <1>3, <1>4, <1>5, <1>7, <1>8, <1>9, <1>10, <1>11 DEF C!Next, C!Step

\* The invariant gives the types.
LEMMA CoTypeOK == CInv => C!TypeOK
<1> SUFFICES ASSUME CInv
             PROVE  /\ c_pending \in [C!Address -> Seq({"new", "old"})]
                    /\ \A a \in C!Address : Len(c_pending[a]) <= 3
  BY DEF CInv, CoType, C!TypeOK
<1>1. /\ <<"new">> \in Seq({"new", "old"}) /\ <<>> \in Seq({"new", "old"})
      /\ Len(<<"new">>) <= 3 /\ Len(<<>>) <= 3
  OBVIOUS
<1>2. \A a \in C!Address : c_pending[a] = <<"new">> \/ c_pending[a] = <<>>
  BY DEF CInv, CoOwed
<1>3. c_pending = [a \in C!Address |-> c_pending[a]]
  BY DEF CInv, CoOwed
<1> HIDE DEF CInv
<1>4. \A a \in C!Address : c_pending[a] \in Seq({"new", "old"}) /\ Len(c_pending[a]) <= 3
  BY <1>1, <1>2, Zenon
<1> QED BY <1>3, <1>4

------------------------------------------------------------------------------
(* INV_TCPClient and INV_CoTCPClient.                                      *)

\* The bytes of a message from, exclusively, to, inclusively.
Bytes(from, to) == SubSeq(S!Message("new"), from + 1, to)

\* A message is a sequence of its bytes.
LEMMA MessageSeq ==
  /\ S!Message("new") \in Seq({"new"} \X Int)
  /\ Len(S!Message("new")) = Size
  /\ Size \in Nat \ {0}
<1>1. Size \in Nat \ {0}
  BY SocketAssumption DEF S!WidthAssumption
<1>2. S!Message("new") \in [1 .. Size -> {"new"} \X Int]
  BY <1>1 DEF S!Message
<1> QED BY <1>1, <1>2

\* How many bytes there are between two positions.
LEMMA BytesLen ==
  ASSUME NEW i \in Nat, NEW j \in Nat, i <= j, j <= Size
  PROVE  Bytes(i, j) \in Seq({"new"} \X Int) /\ Len(Bytes(i, j)) = j - i
<1>1. \A n \in i + 1 .. j : S!Message("new")[n] \in {"new"} \X Int
  BY MessageSeq, ElementOfSeq
<1> HIDE DEF S!Message
<1>2. i + 1 \in Int /\ j \in Int
  OBVIOUS
<1> QED BY <1>1, <1>2, SubSeqProperties DEF Bytes

\* The bytes up to a position and those behind it.
LEMMA BytesConcat ==
  ASSUME NEW i \in Nat, NEW j \in Nat, NEW k \in Nat, i <= j, j <= k, k <= Size
  PROVE  Bytes(i, j) \o Bytes(j, k) = Bytes(i, k)
<1>1. /\ i + 1 \in 1 .. Size + 1
      /\ j \in (i + 1) - 1 .. Size
      /\ k \in j .. Size
  BY MessageSeq
<1> QED BY <1>1, MessageSeq, ConcatAdjacentSubSeq DEF Bytes

\* The first n bytes, and those behind them.
LEMMA BytesCut ==
  ASSUME NEW i \in Nat, NEW k \in Nat, NEW n \in Nat, i + n <= k, k <= Size
  PROVE  /\ SubSeq(Bytes(i, k), 1, n) = Bytes(i, i + n)
         /\ SubSeq(Bytes(i, k), n + 1, k - i) = Bytes(i + n, k)
<1>1. CASE n = 0
  <2>1. SubSeq(Bytes(i, k), 1, n) = <<>> /\ Bytes(i, i + n) = <<>>
    BY <1>1, SubSeqEmpty DEF Bytes
  <2>2. SubSeq(Bytes(i, k), 1, k - i) = Bytes(i, k)
    <3>1. Bytes(i, k) \in Seq({"new"} \X Int) /\ Len(Bytes(i, k)) = k - i
      <4>1. i <= k
        OBVIOUS
      <4> HIDE DEF Bytes
      <4> QED BY <4>1, BytesLen
    <3>2. SubSeq(Bytes(i, k), 1, Len(Bytes(i, k))) = Bytes(i, k)
      BY <3>1, SubSeqFull
    <3> QED BY <3>1, <3>2
  <2>3. n + 1 = 1 /\ i + n = i
    BY <1>1
  <2> QED BY <2>1, <2>2, <2>3
<1>2. CASE n > 0
  <2>1. /\ i + 1 \in 1 .. Size /\ k \in 1 .. Size
        /\ 1 \in 1 .. k - (i + 1) + 1 /\ n \in 1 .. k - (i + 1) + 1
    BY <1>2, MessageSeq
  <2>2. SubSeq(Bytes(i, k), 1, n)
          = SubSeq(S!Message("new"), (i + 1) + 1 - 1, (i + 1) + n - 1)
    BY <2>1, MessageSeq, SubSeqOfSubSeq DEF Bytes
  <2>3. (i + 1) + 1 - 1 = i + 1 /\ (i + 1) + n - 1 = i + n
    OBVIOUS
  <2>4. SubSeq(Bytes(i, k), 1, n) = Bytes(i, i + n)
    BY <2>2, <2>3 DEF Bytes
  <2>5. CASE n = k - i
    <3>1. SubSeq(Bytes(i, k), n + 1, k - i) = <<>>
      BY <2>5, SubSeqEmpty
    <3>2. Bytes(i + n, k) = <<>>
      BY <2>5, SubSeqEmpty DEF Bytes
    <3> QED BY <2>4, <3>1, <3>2
  <2>6. CASE n < k - i
    <3> DEFINE m == n + 1
               d == k - i
    <3>1. m \in 1 .. k - (i + 1) + 1 /\ d \in 1 .. k - (i + 1) + 1
      BY <1>2, <2>6
    <3>2. (i + 1) + m - 1 = (i + n) + 1 /\ (i + 1) + d - 1 = k
      OBVIOUS
    <3> HIDE DEF m, d
    <3>3. SubSeq(Bytes(i, k), m, d)
            = SubSeq(S!Message("new"), (i + 1) + m - 1, (i + 1) + d - 1)
      BY <2>1, <3>1, MessageSeq, SubSeqOfSubSeq DEF Bytes
    <3>4. SubSeq(Bytes(i, k), m, d) = Bytes(i + n, k)
      BY <3>2, <3>3 DEF Bytes
    <3> QED BY <2>4, <3>4 DEF m, d
  <2> QED BY <2>5, <2>6
<1> QED BY <1>1, <1>2

\* All the bytes are the message; none are nothing.
LEMMA BytesAll == Bytes(0, Size) = S!Message("new") /\ \A i \in Nat : Bytes(i, i) = <<>>
<1>1. Bytes(0, Size) = S!Message("new")
  BY MessageSeq, SubSeqFull, 0 + 1 = 1 DEF Bytes
<1>2. ASSUME NEW i \in Nat PROVE Bytes(i, i) = <<>>
  BY SubSeqEmpty DEF Bytes
<1> QED BY <1>1, <1>2

\* One less, in the width of the counter.
LEMMA Counter ==
  ASSUME NEW s \in 0 .. Size
  PROVE  (s + Width - 1) % Width = IF s = 0 THEN Width - 1 ELSE s - 1
  BY SocketAssumption DEF S!WidthAssumption

\* The bytes of requests and replies.
SBytes == Seq({"new", "old", "bad"} \X Int)

\* Those of one message, of a part of it and of what was left over are such bytes.
LEMMA SomeBytes ==
  /\ \A tag \in {"new", "bad"} : S!Message(tag) \in SBytes /\ Len(S!Message(tag)) = Size
  /\ \A i, j \in Nat : i <= j /\ j <= Size => Bytes(i, j) \in SBytes
  /\ <<>> \in SBytes /\ Len(<<>>) = 0
<1>1. ASSUME NEW tag \in {"new", "bad"}
      PROVE  S!Message(tag) \in SBytes /\ Len(S!Message(tag)) = Size
  <2>1. S!Message(tag) \in [1 .. Size -> {"new", "old", "bad"} \X Int]
    BY MessageSeq DEF S!Message
  <2> QED BY <2>1, MessageSeq DEF SBytes
<1>2. ASSUME NEW i \in Nat, NEW j \in Nat, i <= j, j <= Size PROVE Bytes(i, j) \in SBytes
  <2>1. Bytes(i, j) \in Seq({"new"} \X Int)
    BY <1>2, BytesLen
  <2> DEFINE few  == {"new"} \X Int
             many == {"new", "old", "bad"} \X Int
  <2>2. few \subseteq many
    OBVIOUS
  <2> HIDE DEF few, many
  <2>3. Seq(few) \subseteq Seq(many)
    BY <2>2
  <2> QED BY <2>1, <2>3 DEF few, many, SBytes
<1>3. <<>> \in SBytes /\ Len(<<>>) = 0
  BY DEF SBytes
<1> QED BY <1>1, <1>2, <1>3

LEMMA AgedBytes ==
  /\ \A s \in SBytes : S!Aged(s) \in SBytes /\ Len(S!Aged(s)) = Len(s)
  /\ S!Aged(<<>>) = <<>>
<1>1. ASSUME NEW s \in SBytes PROVE S!Aged(s) \in SBytes /\ Len(S!Aged(s)) = Len(s)
  <2> DEFINE bytes == {"new", "old", "bad"} \X Int
             n == Len(s)
  <2>1. n \in Nat /\ DOMAIN s = 1 .. n
    BY DEF SBytes
  <2>2. ASSUME NEW i \in 1 .. n PROVE <<"old", s[i][2]>> \in bytes
    <3>1. s[i] \in bytes
      BY <2>1, ElementOfSeq DEF SBytes
    <3> QED BY <3>1
  <2> HIDE DEF bytes, n
  <2>3. S!Aged(s) \in [1 .. n -> bytes]
    BY <2>1, <2>2 DEF S!Aged
  <2> QED BY <2>1, <2>3 DEF SBytes, bytes, n
<1>2. S!Aged(<<>>) = <<>>
  BY DEF S!Aged
<1> QED BY <1>1, <1>2

\* A part of a sequence of bytes, and two of them in a row.
LEMMA CutBytes ==
  ASSUME NEW s \in SBytes, NEW n \in 0 .. Len(s)
  PROVE  /\ SubSeq(s, 1, n) \in SBytes /\ Len(SubSeq(s, 1, n)) = n
         /\ SubSeq(s, n + 1, Len(s)) \in SBytes /\ Len(SubSeq(s, n + 1, Len(s))) = Len(s) - n
<1> DEFINE bytes == {"new", "old", "bad"} \X Int
<1>1. s \in Seq(bytes)
  BY DEF SBytes
<1> HIDE DEF bytes
<1>2. Len(s) \in Nat /\ \A i \in 1 .. Len(s) : s[i] \in bytes
  BY <1>1, ElementOfSeq
<1>3. SubSeq(s, 1, n) \in Seq(bytes) /\ Len(SubSeq(s, 1, n)) = n
  BY <1>1, <1>2, SubSeqProperties
<1>4. SubSeq(s, n + 1, Len(s)) \in Seq(bytes) /\ Len(SubSeq(s, n + 1, Len(s))) = Len(s) - n
  BY <1>1, <1>2, SubSeqProperties
<1> QED BY <1>3, <1>4 DEF SBytes, bytes

LEMMA JoinBytes ==
  ASSUME NEW s \in SBytes, NEW t \in SBytes
  PROVE  s \o t \in SBytes /\ Len(s \o t) = Len(s) + Len(t)
  BY ConcatProperties DEF SBytes

\* The client's variables, and how many bytes there can be anywhere: none that were
\* not sent for the request at hand, and one more where a passing error doubled one.
SType ==
  /\ s_kind \in {"tcp", "local", "co"}
  /\ s_pc \in {"idle", "sending", "waiting", "receiving"}
  /\ s_sent \in 0 .. Size
  /\ s_pc # "idle" => s_open
  /\ s_got \in SBytes /\ s_wire \in SBytes /\ s_stream \in SBytes
SUnread == Len(s_wire) + Len(s_stream)
SAtMost(n) == SUnread <= n + 1 /\ (~s_hiccup => SUnread <= n)
SCount ==
  /\ Len(s_got) <= Size
  /\ s_pc = "idle" => SAtMost(0)
  /\ s_pc = "sending" => s_got = <<>> /\ s_sent < Size
  /\ s_pc = "sending" => IF s_broken THEN SUnread <= Size + 1 ELSE SAtMost(s_sent)
  /\ s_pc \in {"waiting", "receiving"} => Len(s_got) < Size /\ SAtMost(Size - Len(s_got))

\* Unless a byte was doubled, what was received and what is still to come make the
\* reply to what was sent, and the counter says what that is.
SWhole ==
  \/ S!Garbled
  \/ /\ s_pc = "idle" /\ s_wire = <<>> /\ s_stream = <<>>
     /\ Len(s_got) = Size => s_got = S!Message("new")
  \/ s_pc = "sending" /\ s_stream = <<>> /\ (s_broken \/ s_wire = Bytes(0, s_sent))
  \/ s_pc = "waiting" /\ s_got = <<>> /\ s_stream = <<>> /\ s_wire = Bytes(0, Size)
  \/ /\ s_pc \in {"waiting", "receiving"} /\ s_wire = <<>>
     /\ \E g \in 0 .. Size : g < Size /\ s_got = Bytes(0, g) /\ s_stream = Bytes(g, Size)

SInv == SType /\ SCount /\ SWhole

\* The client begins in its invariant.
LEMMA SocketInit == S!Init => SInv
  BY SomeBytes, MessageSeq DEF S!Init, SInv, SType, SCount, SUnread, SAtMost, SWhole

\* A call that fails closes the connection.
LEMMA SocketFails ==
  ASSUME SInv, S!Fails, s_pc # "idle"
  PROVE  SInv'
<1>1. /\ s_wire' = <<>> /\ s_stream' = <<>> /\ s_pc' = "idle" /\ s_hiccup' = FALSE
      /\ UNCHANGED <<s_kind, s_sent, s_got>>
  BY DEF S!Fails, S!close
<1>2. Len(s_got) < Size
  BY SomeBytes, MessageSeq DEF SInv, SType, SCount
<1>3. SType'
  BY <1>1, SomeBytes DEF SInv, SType
<1>4. SCount'
  BY <1>1, <1>2, SomeBytes, MessageSeq DEF SInv, SType, SCount, SUnread, SAtMost
<1>5. SWhole'
  BY <1>1, <1>2, MessageSeq DEF SWhole
<1> QED BY <1>3, <1>4, <1>5 DEF SInv

\* A request begins, with what is left of the last one on the connection.
LEMMA SocketSends == ASSUME SInv, S!send PROVE SInv'
<1>1. /\ s_pc = "idle" /\ s_pc' = "sending" /\ s_sent' = 0 /\ s_got' = <<>>
      /\ s_wire' = S!Aged(s_wire) /\ s_stream' = S!Aged(s_stream)
      /\ s_kind' = s_kind /\ s_hiccup' = s_hiccup
  BY Zenon DEF S!send
<1>2. s_open'
  <2>1. s_open \/ s_open' = TRUE
    BY Zenon DEF S!send
  <2>2. s_open => s_open' = s_open
    BY Zenon DEF S!send
  <2> QED BY Zenon, <2>1, <2>2
<1>3. SType'
  BY <1>1, <1>2, SomeBytes, AgedBytes, MessageSeq DEF SInv, SType
<1>4. SUnread' = SUnread
  BY <1>1, AgedBytes DEF SInv, SType, SUnread
<1>5. SUnread \in Nat
  BY DEF SInv, SType, SBytes, SUnread
<1>6. SCount'
  BY <1>1, <1>4, <1>5, SomeBytes, MessageSeq DEF SInv, SCount, SAtMost
<1>7. SWhole'
  <2>1. CASE S!Garbled
    BY <1>1, <2>1 DEF S!Garbled, SWhole
  <2>2. CASE ~S!Garbled
    <3>1. s_wire' = <<>> /\ s_stream' = <<>>
      BY <1>1, <2>2, AgedBytes DEF SInv, SWhole
    <3>2. Bytes(0, s_sent') = <<>>
      BY <1>1, BytesAll
    <3> QED BY <1>1, <3>1, <3>2 DEF SWhole
  <2> QED BY <2>1, <2>2
<1> QED BY <1>3, <1>6, <1>7 DEF SInv

\* Some of its bytes go.
LEMMA SocketSendsSome == ASSUME SInv, S!sendSome PROVE SInv'
<1>1. PICK b \in 1 .. Size - s_sent :
        /\ s_wire' = s_wire \o SubSeq(S!Message("new"), s_sent + 1, s_sent + b)
        /\ s_sent' = s_sent + b
        /\ s_pc' = IF s_sent + b = Size THEN "waiting" ELSE s_pc
  BY DEF S!sendSome
<1>2. /\ s_pc = "sending" /\ ~s_broken
      /\ UNCHANGED <<s_kind, s_open, s_broken, s_hiccup, s_got, s_stream>>
  BY DEF S!sendSome
<1>3. /\ Size \in Nat \ {0} /\ s_sent \in Nat /\ s_sent + b \in Nat /\ s_sent <= s_sent + b
      /\ s_sent + b <= Size /\ b \in Nat /\ s_got = <<>>
  BY <1>1, <1>2, MessageSeq DEF SInv, SType, SCount
<1>4. s_wire' = s_wire \o Bytes(s_sent, s_sent + b)
  BY <1>1 DEF Bytes
<1>5. Bytes(s_sent, s_sent + b) \in SBytes /\ Len(Bytes(s_sent, s_sent + b)) = b
  <2>1. Len(Bytes(s_sent, s_sent + b)) = (s_sent + b) - s_sent
    BY <1>3, BytesLen
  <2> QED BY <1>3, <2>1, SomeBytes
<1>6. s_wire' \in SBytes /\ Len(s_wire') = Len(s_wire) + b
  BY <1>4, <1>5, JoinBytes DEF SInv, SType
<1>7. SType'
  BY <1>1, <1>2, <1>3, <1>6 DEF SInv, SType
<1>8. SUnread \in Nat /\ SUnread' = SUnread + b
  BY <1>2, <1>3, <1>6 DEF SInv, SType, SBytes, SUnread
<1>9. SCount'
  BY <1>1, <1>2, <1>3, <1>8, SomeBytes DEF SInv, SCount, SAtMost
<1>10. SWhole'
  <2>1. CASE S!Garbled
    BY <1>2, <2>1 DEF S!Garbled, SWhole
  <2>2. CASE ~S!Garbled
    <3>1. s_stream = <<>> /\ s_wire = Bytes(0, s_sent)
      BY <1>2, <2>2 DEF SInv, SWhole
    <3>2. Bytes(0, s_sent) \o Bytes(s_sent, s_sent + b) = Bytes(0, s_sent + b)
      <4>1. /\ 0 \in Nat /\ s_sent \in Nat /\ s_sent + b \in Nat
            /\ 0 <= s_sent /\ s_sent <= s_sent + b /\ s_sent + b <= Size
        BY <1>3
      <4> QED BY <4>1, BytesConcat
    <3>3. s_wire' = Bytes(0, s_sent + b)
      BY <1>4, <3>1, <3>2
    <3> QED BY <1>1, <1>2, <1>3, <3>1, <3>3 DEF SWhole
  <2> QED BY <2>1, <2>2
<1> QED BY <1>7, <1>9, <1>10 DEF SInv

\* ::send fails: INV_Socket takes its counter back by one, INV_CoTCPClient does not.
LEMMA SocketSendError == ASSUME SInv, S!sendError PROVE SInv'
<1> DEFINE n == IF s_kind = "co" THEN s_sent ELSE (s_sent + Width - 1) % Width
<1>1. s_pc = "sending" /\ (s_broken \/ ~s_hiccup)
  BY DEF S!sendError
<1>2. CASE S!Fails
  BY <1>1, <1>2, SocketFails
<1>3. CASE /\ n < Size /\ ~(s_kind = "co" /\ s_broken)
           /\ s_sent' = n /\ s_hiccup' = (s_hiccup \/ ~s_broken)
           /\ UNCHANGED <<s_kind, s_open, s_broken, s_pc, s_got, s_wire, s_stream>>
  <2>1. s_sent \in 0 .. Size /\ Size \in Nat \ {0} /\ Width > Size + 1 /\ Width \in Nat
    BY MessageSeq, SocketAssumption DEF SInv, SType, S!WidthAssumption
  <2>2. n = IF s_kind = "co" THEN s_sent ELSE s_sent - 1
    BY <1>3, <2>1, Counter
  <2>3. n \in 0 .. Size
    <3>1. s_kind = "co" \/ s_sent # 0
      BY <1>3, <2>1, Counter
    <3> QED BY <2>1, <2>2, <3>1
  <2> HIDE DEF n
  <2>4. s_hiccup' <=> (s_hiccup \/ ~s_broken)
    BY <1>3
  <2>5. SType'
    BY <1>3, <2>3 DEF SInv, SType
  <2>6. SUnread \in Nat /\ SUnread' = SUnread
    BY <1>3 DEF SInv, SType, SBytes, SUnread
  <2>7. SCount'
    <3>1. CASE s_broken
      BY <1>1, <1>3, <2>1, <2>3, <2>6, <3>1 DEF SInv, SCount
    <3>2. CASE ~s_broken
      BY <1>1, <1>3, <2>1, <2>2, <2>3, <2>4, <2>6, <3>2 DEF SInv, SCount, SAtMost
    <3> QED BY <3>1, <3>2
  <2>8. SWhole'
    <3>1. CASE s_broken
      BY <1>1, <1>3, <2>4, <3>1 DEF SInv, SWhole, S!Garbled
    <3>2. CASE ~s_broken
      BY <1>1, <1>3, <2>2, <2>4, <3>2 DEF SInv, SWhole, S!Garbled
    <3> QED BY <3>1, <3>2
  <2> QED BY <2>5, <2>7, <2>8 DEF SInv
<1> QED BY <1>2, <1>3 DEF S!sendError

\* Some of the bytes of the reply are read.
LEMMA SocketReceives == ASSUME SInv, S!recvSome PROVE SInv'
<1>1. PICK b \in 1 .. Size - Len(s_got) :
        /\ b <= Len(s_stream)
        /\ s_got' = s_got \o SubSeq(s_stream, 1, b)
        /\ s_stream' = SubSeq(s_stream, b + 1, Len(s_stream))
        /\ s_pc' = IF Len(s_got) + b = Size THEN "idle" ELSE "receiving"
  BY DEF S!recvSome
<1>2. /\ s_pc \in {"waiting", "receiving"} /\ s_stream # <<>>
      /\ UNCHANGED <<s_kind, s_open, s_broken, s_hiccup, s_sent, s_wire>>
  BY DEF S!recvSome
<1>3. /\ Size \in Nat \ {0} /\ Len(s_got) \in Nat /\ Len(s_stream) \in Nat /\ Len(s_wire) \in Nat
      /\ b \in Nat /\ b > 0 /\ Len(s_got) + b <= Size /\ b \in 0 .. Len(s_stream)
  BY <1>1, MessageSeq DEF SInv, SType, SBytes
<1>4. /\ SubSeq(s_stream, 1, b) \in SBytes /\ Len(SubSeq(s_stream, 1, b)) = b
      /\ s_stream' \in SBytes /\ Len(s_stream') = Len(s_stream) - b
  BY <1>1, <1>3, CutBytes DEF SInv, SType
<1>5. s_got' \in SBytes /\ Len(s_got') = Len(s_got) + b
  BY <1>1, <1>4, JoinBytes DEF SInv, SType
<1>6. SType'
  BY <1>1, <1>2, <1>4, <1>5 DEF SInv, SType
<1>7. SUnread' = SUnread - b /\ SUnread \in Nat
  BY <1>2, <1>3, <1>4 DEF SUnread
<1>8. SCount'
  <2>1. SUnread <= Size - Len(s_got) + 1 /\ (~s_hiccup => SUnread <= Size - Len(s_got))
    BY <1>2 DEF SInv, SCount, SAtMost
  <2>2. /\ SUnread' <= Size - Len(s_got') + 1 /\ (~s_hiccup' => SUnread' <= Size - Len(s_got'))
        /\ Len(s_got') \in Nat /\ Len(s_got') <= Size /\ SUnread' \in Int
    BY <1>2, <1>3, <1>5, <1>7, <2>1
  <2>3. s_pc' = IF Len(s_got') = Size THEN "idle" ELSE "receiving"
    BY <1>1, <1>5
  <2>4. CASE Len(s_got') = Size
    BY <1>3, <2>2, <2>3, <2>4 DEF SCount, SAtMost
  <2>5. CASE Len(s_got') # Size
    BY <1>3, <2>2, <2>3, <2>5 DEF SCount, SAtMost
  <2> QED BY <2>4, <2>5
<1>9. SWhole'
  <2>1. CASE S!Garbled
    BY <1>2, <2>1 DEF S!Garbled, SWhole
  <2>2. CASE ~S!Garbled
    <3>1. /\ s_wire = <<>>
          /\ \E g \in 0 .. Size : g < Size /\ s_got = Bytes(0, g) /\ s_stream = Bytes(g, Size)
      BY <1>2, <2>2 DEF SInv, SWhole
    <3>2. PICK g \in 0 .. Size : g < Size /\ s_got = Bytes(0, g) /\ s_stream = Bytes(g, Size)
      BY <3>1
    <3>3. 0 \in Nat /\ g \in Nat /\ Size \in Nat /\ 0 <= g /\ g <= Size /\ Size <= Size
      BY <1>3
    <3>4. Len(s_got) = g /\ Len(s_stream) = Size - g
      <4>1. Len(Bytes(0, g)) = g - 0 /\ Len(Bytes(g, Size)) = Size - g
        BY <3>3, BytesLen
      <4> QED BY <3>2, <3>3, <4>1
    <3>5. g + b \in Nat /\ g <= g + b /\ g + b <= Size
      BY <1>3, <3>3, <3>4
    <3>6. s_got' = Bytes(0, g + b)
      <4>1. SubSeq(Bytes(g, Size), 1, b) = Bytes(g, g + b)
        <5>1. g \in Nat /\ Size \in Nat /\ b \in Nat /\ g + b <= Size /\ Size <= Size
          BY <1>3, <3>3, <3>5
        <5> QED BY <5>1, BytesCut
      <4>2. Bytes(0, g) \o Bytes(g, g + b) = Bytes(0, g + b)
        BY <3>3, <3>5, BytesConcat
      <4> QED BY <1>1, <3>2, <4>1, <4>2
    <3>7. s_stream' = Bytes(g + b, Size)
      <4>1. \A i, k, m \in Nat : i + m <= k /\ k <= Size
                    => SubSeq(Bytes(i, k), m + 1, k - i) = Bytes(i + m, k)
        BY BytesCut
      <4>2. SubSeq(Bytes(g, Size), b + 1, Size - g) = Bytes(g + b, Size)
        BY <1>3, <3>3, <3>5, <4>1, Zenon
      <4> QED BY <1>1, <3>2, <3>4, <4>2
    <3>8. CASE g + b = Size
      <4>1. s_stream' = <<>> /\ s_got' = S!Message("new")
        BY <1>3, <3>6, <3>7, <3>8, BytesAll
      <4> QED BY <1>1, <1>2, <3>1, <3>4, <3>8, <4>1 DEF SWhole
    <3>9. CASE g + b # Size
      <4>1. g + b \in 0 .. Size /\ g + b < Size
        BY <1>3, <3>5, <3>9
      <4>2. s_pc' = "receiving" /\ s_wire' = <<>>
        BY <1>1, <1>2, <3>1, <3>4, <3>9
      <4> QED BY <3>6, <3>7, <4>1, <4>2 DEF SWhole
    <3> QED BY <3>8, <3>9
  <2> QED BY <2>1, <2>2
<1> QED BY <1>6, <1>8, <1>9 DEF SInv

\* The peer takes a request.
LEMMA SocketAnswered == ASSUME SInv, S!Answer PROVE SInv'
<1>1. /\ ~s_broken /\ Len(s_wire) >= Size
      /\ s_wire' = SubSeq(s_wire, Size + 1, Len(s_wire))
      /\ UNCHANGED <<s_kind, s_open, s_broken, s_hiccup, s_pc, s_sent, s_got>>
  BY DEF S!Answer
<1>2. \/ SubSeq(s_wire, 1, Size) = S!Message("new") /\ s_stream' = s_stream \o S!Message("new")
      \/ /\ SubSeq(s_wire, 1, Size) # S!Message("new")
         /\ s_stream' = s_stream \o S!Message("bad") \/ s_stream' = s_stream
  BY DEF S!Answer
<1>3. Size \in Nat \ {0} /\ Size \in 0 .. Len(s_wire) /\ Len(s_wire) \in Nat /\ Len(s_stream) \in Nat
  BY <1>1, MessageSeq DEF SInv, SType, SBytes
<1>4. s_wire' \in SBytes /\ Len(s_wire') = Len(s_wire) - Size
  BY <1>1, <1>3, CutBytes DEF SInv, SType
<1>5. s_stream' \in SBytes /\ Len(s_stream') \in {Len(s_stream), Len(s_stream) + Size}
  BY <1>2, SomeBytes, JoinBytes DEF SInv, SType
<1>6. SType'
  BY <1>1, <1>4, <1>5 DEF SInv, SType
<1>7. SUnread' <= SUnread /\ SUnread \in Nat /\ SUnread' \in Nat
  BY <1>3, <1>4, <1>5 DEF SUnread, SType
<1>8. Len(s_got) \in Nat /\ s_sent \in Nat
  BY <1>3 DEF SInv, SType, SBytes
<1>9. SCount'
  BY <1>1, <1>3, <1>7, <1>8 DEF SInv, SCount, SAtMost
<1>10. SWhole'
  <2>1. CASE S!Garbled
    BY <1>1, <2>1 DEF S!Garbled, SWhole
  <2>2. CASE ~S!Garbled
    <3>1. s_pc = "sending" => Len(s_wire) < Size
      <4>1. ASSUME s_pc = "sending" PROVE Len(s_wire) < Size
        <5>1. s_wire = Bytes(0, s_sent) /\ s_sent < Size
          BY <1>1, <2>2, <4>1 DEF SInv, SWhole, SCount
        <5>2. 0 \in Nat /\ s_sent \in Nat /\ 0 <= s_sent /\ s_sent <= Size
          BY <1>3, <1>8, <5>1
        <5>3. Len(Bytes(0, s_sent)) = s_sent - 0
          BY <5>2, BytesLen
        <5> QED BY <1>8, <5>1, <5>3
      <4> QED BY <4>1
    <3>2. s_wire # <<>>
      BY <1>1, <1>3, SomeBytes
    <3>3. s_pc = "waiting" /\ s_got = <<>> /\ s_stream = <<>> /\ s_wire = Bytes(0, Size)
      BY <1>1, <1>3, <2>2, <3>1, <3>2 DEF SInv, SWhole
    <3>4. s_wire = S!Message("new") /\ Len(s_wire) = Size
      BY <3>3, BytesAll, MessageSeq
    <3>5. SubSeq(s_wire, 1, Size) = S!Message("new")
      BY <3>4, MessageSeq, SubSeqFull
    <3>6. s_stream' = Bytes(0, Size)
      <4>1. <<>> \o S!Message("new") = S!Message("new")
        BY MessageSeq, ConcatEmptySeq
      <4> QED BY <1>2, <3>3, <3>5, <4>1, BytesAll
    <3>7. s_wire' = <<>>
      BY <1>1, <1>3, <3>4, SubSeqEmpty
    <3>8. s_got' = Bytes(0, 0) /\ 0 \in 0 .. Size /\ 0 < Size
      BY <1>1, <1>3, <3>3, BytesAll
    <3> QED BY <1>1, <3>3, <3>6, <3>7, <3>8 DEF SWhole
  <2> QED BY <2>1, <2>2
<1> QED BY <1>6, <1>9, <1>10 DEF SInv

\* No step of the client, or of its peer, disturbs it.
LEMMA SocketStep == SInv /\ [S!Next]_varsS => SInv'
<1> SUFFICES ASSUME SInv, [S!Next]_varsS PROVE SInv'
  OBVIOUS
<1>1. CASE S!connectFails
  BY <1>1 DEF S!connectFails, SInv, SType, SCount, SUnread, SAtMost, SWhole, S!Garbled
<1>2. CASE S!recvFails
  BY <1>2, SocketFails DEF S!recvFails
<1>3. CASE S!Breaks
  <2>1. /\ ~s_broken /\ s_broken' = TRUE
        /\ UNCHANGED <<s_kind, s_open, s_hiccup, s_pc, s_sent, s_got, s_wire, s_stream>>
    BY <1>3 DEF S!Breaks
  <2>2. SType'
    BY <2>1 DEF SInv, SType
  <2>3. SCount'
    BY <2>1, MessageSeq DEF SInv, SType, SBytes, SCount, SUnread, SAtMost
  <2>4. SWhole'
    BY <2>1 DEF SInv, SWhole, S!Garbled
  <2> QED BY <2>2, <2>3, <2>4 DEF SInv
<1>4. CASE UNCHANGED varsS
  BY <1>4 DEF varsS, SInv, SType, SCount, SUnread, SAtMost, SWhole, S!Garbled
<1> QED
  BY <1>1, <1>2, <1>3, <1>4, SocketSends, SocketSendsSome, SocketSendError, SocketReceives,
     SocketAnswered DEF S!Next

\* What the invariant promises.
LEMMA SocketInvImplies == SInv => S!TypeOK /\ S!Aligned
<1> SUFFICES ASSUME SInv PROVE S!TypeOK /\ S!Aligned
  OBVIOUS
<1>1. Size \in Nat \ {0} /\ Len(s_got) \in Nat /\ SUnread \in Nat
  BY MessageSeq DEF SInv, SType, SBytes, SUnread
<1>2. SUnread <= Size + 1
  BY <1>1 DEF SInv, SType, SCount, SAtMost
<1>3. S!TypeOK
  BY <1>2 DEF SInv, SType, SCount, SUnread, S!TypeOK
<1>4. S!SentOnce
  BY BytesAll DEF SInv, SWhole, S!SentOnce
<1>5. S!ReplyWhole
  <2>1. s_pc # "idle" => Len(s_got) < Size
    BY <1>1, SomeBytes DEF SInv, SType, SCount
  <2> QED BY <1>1, <2>1 DEF SInv, SWhole, S!ReplyWhole
<1> QED BY <1>3, <1>4, <1>5 DEF S!Aligned

------------------------------------------------------------------------------
(* INV_Mysql and INV_Pgsql.                                                *)

DBool == d_connected \in BOOLEAN /\ d_session \in BOOLEAN /\ d_up \in BOOLEAN
DRest ==
  /\ d_kind \in {"mysql", "pgsql"}
  /\ d_done \in 0 .. 2 /\ d_rows \in 0 .. MaxRows
  /\ d_result \in {"none", "ok", "thrown"}
  /\ d_session => d_connected
  /\ D!ExecutedAsReported
DInv == DBool /\ DRest

\* The client begins in its invariant.
LEMMA SqlInit == D!Init => DInv
<1>1. D!Init => DBool
  BY Zenon DEF D!Init, DBool
<1>2. D!Init => DRest
  BY SqlAssumption DEF D!BoundsAssumption, D!Init, DRest, D!ExecutedAsReported
<1> QED BY <1>1, <1>2 DEF DInv

\* The flags stay truth values.
LEMMA SqlBool == DBool /\ [D!Next]_varsD => DBool'
<1> SUFFICES ASSUME DBool, [D!Next]_varsD PROVE DBool'
  OBVIOUS
<1> USE DEF DBool
<1>1. CASE D!execute
  BY Zenon, <1>1 DEF D!execute, D!ConnectThrows, D!Finish
<1>2. CASE D!queryRecord
  BY Zenon, <1>2 DEF D!queryRecord, D!ConnectThrows, D!Finish
<1>3. CASE D!Noticed
  BY Zenon, <1>3 DEF D!Noticed
<1>4. CASE D!connect
  BY Zenon, <1>4 DEF D!connect
<1>5. CASE D!disconnect
  BY Zenon, <1>5 DEF D!disconnect
<1>6. CASE D!Server
  BY Zenon, <1>6 DEF D!Server
<1>7. CASE UNCHANGED varsD
  BY Zenon, <1>7 DEF varsD
<1> QED
  BY <1>1, <1>2, <1>3, <1>4, <1>5, <1>6, <1>7 DEF D!Next

\* No step of the client, or of the server, disturbs it.
LEMMA SqlStep == DInv /\ [D!Next]_varsD => DInv'
<1> SUFFICES ASSUME DInv, [D!Next]_varsD PROVE DRest'
  BY SqlBool DEF DInv
<1> USE SqlAssumption DEF D!BoundsAssumption, DInv, DRest, DBool, D!ExecutedAsReported
<1>1. CASE D!execute
  <2>1. CASE ~d_connected /\ D!ConnectThrows(0, FALSE)
    BY <1>1, <2>1 DEF D!execute, D!ConnectThrows
  <2>2. CASE d_connected \/ d_up
    BY <1>1, <2>2 DEF D!execute, D!ConnectThrows, D!Attempts, D!Finish
  <2> QED BY <1>1, <2>1, <2>2 DEF D!execute
<1>2. CASE D!queryRecord
  BY <1>2 DEF D!queryRecord, D!ConnectThrows, D!Attempts, D!Finish
<1>3. CASE D!Noticed
  BY <1>3 DEF D!Noticed
<1>4. CASE D!connect
  BY <1>4 DEF D!connect
<1>5. CASE D!disconnect
  BY <1>5 DEF D!disconnect
<1>6. CASE D!Server
  BY <1>6 DEF D!Server
<1>7. CASE UNCHANGED varsD
  BY <1>7 DEF varsD
<1> QED
  BY <1>1, <1>2, <1>3, <1>4, <1>5, <1>6, <1>7 DEF D!Next

------------------------------------------------------------------------------
(* The generated client and processor.                                     *)

\* Where the one call of the client, or its answer, is.
PNowhere   == p_up = <<>> /\ p_down = <<>> /\ p_serving = P!None
PAsked     == p_open /\ p_up = <<p_waiting>> /\ p_down = <<>> /\ p_serving = P!None
PServed    == /\ p_open /\ p_up = <<>> /\ p_down = <<>> /\ p_serving = p_waiting
              /\ p_waiting.method \in P!Methods
PAnswered  == /\ p_open /\ p_up = <<>> /\ p_serving = P!None
              /\ \E type \in {"reply", "exception"} :
                   p_down = <<P!Message(p_waiting.method, type, p_calls, {})>>

PWaits == /\ \E lost : \E method \in P!Methods \union {Foreign} :
               p_waiting = P!Message(method, "call", p_calls, lost)
          /\ PNowhere \/ PAsked \/ PServed \/ PAnswered
PIdle  == /\ p_waiting = P!None /\ PNowhere
          /\ p_last.number = p_calls /\ (p_last.answer = "reply" => p_last.whole)

PInv ==
  /\ p_open \in BOOLEAN /\ p_calls \in 0 .. MaxCalls
  /\ p_last.answer \in {"reply", "exception", "transport"}
  /\ PIdle \/ PWaits

\* The fields of a message.
LEMMA MessageFields ==
  ASSUME NEW method, NEW type, NEW number, NEW lost
  PROVE  /\ P!Message(method, type, number, lost).method = method
         /\ P!Message(method, type, number, lost).type = type
         /\ P!Message(method, type, number, lost).number = number
         /\ P!Message(method, type, number, lost).lost = lost
         /\ P!Message(method, type, number, lost) # P!None
<1>1. DOMAIN P!Message(method, type, number, lost) = {"method", "type", "number", "lost"}
  BY DEF P!Message
<1>2. DOMAIN P!None = {"method"}
  BY DEF P!None
<1>3. "type" \in {"method", "type", "number", "lost"} /\ "type" \notin {"method"}
  OBVIOUS
<1>4. P!Message(method, type, number, lost) # P!None
  BY <1>1, <1>2, <1>3
<1> QED BY <1>4 DEF P!Message

\* Client and server begin in the invariant.
LEMMA RpcInit == P!Init => PInv
<1> SUFFICES ASSUME P!Init PROVE PInv
  OBVIOUS
<1>1. p_open \in BOOLEAN
  BY Zenon DEF P!Init
<1>2. p_calls \in 0 .. MaxCalls
  BY RpcAssumption DEF P!CallsAssumption, P!Init
<1>3. p_last.answer = "transport" /\ p_last.number = 0
  BY DEF P!Init
<1>4. PIdle
  BY <1>3 DEF P!Init, PIdle, PNowhere
<1> QED BY <1>1, <1>2, <1>3, <1>4 DEF PInv

\* No step of the client or of the server disturbs it.
LEMMA RpcStep == PInv /\ [P!Next]_varsP => PInv'
<1> SUFFICES ASSUME PInv, [P!Next]_varsP PROVE PInv'
  OBVIOUS
<1>0. p_open \in BOOLEAN /\ p_calls \in Nat /\ (PIdle \/ PWaits)
  BY RpcAssumption DEF P!CallsAssumption, PInv
<1> HIDE DEF P!None
<1>1. CASE P!Connect
  <2>1. PIdle
    BY <1>0, <1>1, MessageFields DEF P!Connect, PWaits
  <2>2. PIdle' /\ UNCHANGED <<p_calls, p_last>> /\ p_open' = TRUE
    BY <1>1, <2>1 DEF P!Connect, PIdle, PNowhere
  <2>3. p_open' \in BOOLEAN
    BY Zenon, <2>2
  <2> QED BY <2>2, <2>3 DEF PInv
<1>2. ASSUME NEW method \in P!Methods \union {Foreign}, NEW lost, P!send(method, lost) PROVE PInv'
  <2>1. PIdle
    BY <1>0, <1>2, MessageFields DEF P!send, PWaits
  <2>2. /\ p_calls' = p_calls + 1 /\ p_calls' \in 0 .. MaxCalls
        /\ p_waiting' = P!Message(method, "call", p_calls', lost)
        /\ p_up' = Append(p_up, p_waiting')
        /\ UNCHANGED <<p_open, p_down, p_serving, p_last>> /\ p_open
    BY <1>2, RpcAssumption DEF P!send, P!CallsAssumption, PInv
  <2>3. p_up' = <<p_waiting'>>
    BY <2>1, <2>2 DEF PIdle, PNowhere
  <2>4. PAsked'
    BY <2>1, <2>2, <2>3 DEF PIdle, PNowhere, PAsked
  <2> QED BY <2>2, <2>4 DEF PInv, PWaits
<1>3. CASE P!dispatchCall
  <2>1. p_up # <<>> /\ p_serving = P!None
    BY <1>3 DEF P!dispatchCall
  <2>2. PWaits /\ PAsked
    BY <1>0, <2>1, MessageFields DEF PWaits, PIdle, PNowhere, PServed, PAnswered
  <2>3. Head(p_up) = p_waiting /\ Tail(p_up) = <<>>
    BY <2>2 DEF PAsked
  <2>4. UNCHANGED <<p_waiting, p_calls, p_last>>
    BY <1>3 DEF P!dispatchCall
  <2>5. PICK method, lost : /\ method \in P!Methods \union {Foreign}
                            /\ p_waiting = P!Message(method, "call", p_calls, lost)
    BY <2>2 DEF PWaits
  <2>6. p_waiting.method = method /\ p_waiting.number = p_calls
    BY <2>5, MessageFields
  <2>7. CASE p_waiting.method \notin P!Methods
    <3>1. /\ p_down' = Append(p_down, P!Message(p_waiting.method, "exception", p_calls, {}))
          /\ p_up' = <<>> /\ UNCHANGED <<p_open, p_serving>>
      BY <1>3, <2>3, <2>6, <2>7 DEF P!dispatchCall, P!Readable
    <3>2. p_down' = <<P!Message(p_waiting.method, "exception", p_calls, {})>>
      BY <3>1, <2>2 DEF PAsked
    <3>3. PAnswered'
      BY <2>1, <2>2, <2>4, <3>1, <3>2 DEF PAsked, PAnswered
    <3>4. PWaits'
      BY <2>4, <2>5, <3>3 DEF PWaits
    <3> QED BY <2>4, <3>1, <3>4 DEF PInv
  <2>8. CASE p_waiting.method \in P!Methods
    <3>1. CASE P!Readable(p_waiting)
      <4>1. p_serving' = p_waiting /\ p_up' = <<>> /\ UNCHANGED <<p_open, p_down>>
        BY <1>3, <2>3, <2>8, <3>1 DEF P!dispatchCall
      <4>2. PServed'
        BY <2>2, <2>4, <2>8, <4>1 DEF PAsked, PServed
      <4>3. PWaits'
        BY <2>4, <2>5, <4>2 DEF PWaits
      <4> QED BY <2>4, <4>1, <4>3 DEF PInv
    <3>2. CASE ~P!Readable(p_waiting)
      <4>1. p_up' = <<>> /\ UNCHANGED <<p_open, p_down, p_serving>>
        BY <1>3, <2>3, <2>8, <3>2 DEF P!dispatchCall
      <4>2. PNowhere'
        BY <2>2, <4>1 DEF PAsked, PNowhere
      <4>3. PWaits'
        BY <2>4, <2>5, <4>2 DEF PWaits
      <4> QED BY <2>4, <4>1, <4>3 DEF PInv
    <3> QED BY <3>1, <3>2
  <2> QED BY <2>7, <2>8
<1>4. ASSUME NEW type \in {"reply", "exception"}, P!process(type) PROVE PInv'
  <2>1. PWaits /\ PServed
    BY <1>0, <1>4, MessageFields DEF P!process, PWaits, PIdle, PNowhere, PAsked, PAnswered
  <2>2. p_waiting.number = p_calls
    BY <2>1, MessageFields DEF PWaits
  <2>3. /\ p_down' = Append(p_down, P!Message(p_waiting.method, type, p_calls, {}))
        /\ p_serving' = P!None /\ UNCHANGED <<p_open, p_up, p_waiting, p_calls, p_last>>
    BY <1>4, <2>1, <2>2 DEF P!process, PServed
  <2>4. p_down' = <<P!Message(p_waiting.method, type, p_calls, {})>>
    BY <2>1, <2>3 DEF PServed
  <2>5. PAnswered'
    BY <2>1, <2>3, <2>4 DEF PServed, PAnswered
  <2>6. PWaits'
    BY <2>1, <2>3, <2>5 DEF PWaits
  <2> QED BY <2>3, <2>6 DEF PInv
<1>5. CASE P!recv
  <2>1. PWaits /\ PAnswered
    BY <1>0, <1>5 DEF P!recv, PWaits, PIdle, PNowhere, PAsked, PServed
  <2>2. PICK type \in {"reply", "exception"} :
          p_down = <<P!Message(p_waiting.method, type, p_calls, {})>>
    BY <2>1 DEF PAnswered
  <2> DEFINE m == P!Message(p_waiting.method, type, p_calls, {})
  <2>3. Head(p_down) = m /\ Tail(p_down) = <<>>
    BY <2>2
  <2>4. m.type = type /\ m.number = p_calls /\ m.lost = {}
    BY MessageFields
  <2>5. \A struct : P!read(struct, {})
    BY DEF P!read
  <2> HIDE DEF m
  <2>6. p_last'.answer = type /\ p_last'.number = p_calls /\ (type = "reply" => p_last'.whole)
    <3>1. p_last' = [answer |-> m.type, number |-> m.number,
                     whole |-> m.type = "exception"
                               \/ P!read(P!processMap[m.method].result, m.lost)]
      BY <1>5, <2>3 DEF P!recv
    <3>2. P!read(P!processMap[m.method].result, m.lost)
      BY <2>4, <2>5
    <3> QED BY <2>4, <3>1, <3>2
  <2>7. p_waiting' = P!None /\ p_down' = <<>> /\ UNCHANGED <<p_open, p_up, p_serving, p_calls>>
    BY <1>5, <2>3 DEF P!recv
  <2>8. PIdle'
    BY <2>1, <2>6, <2>7 DEF PAnswered, PIdle, PNowhere
  <2> QED BY <2>6, <2>7, <2>8 DEF PInv
<1>6. CASE P!recvClosed
  <2>1. PWaits /\ PNowhere
    BY <1>0, <1>6 DEF P!recvClosed, PWaits, PIdle, PAsked, PServed, PAnswered
  <2>2. /\ p_last'.answer = "transport" /\ p_last'.number = p_calls /\ p_waiting' = P!None
        /\ UNCHANGED <<p_open, p_up, p_down, p_serving, p_calls>>
    BY <1>6 DEF P!recvClosed
  <2>3. PIdle'
    BY <2>1, <2>2 DEF PIdle, PNowhere
  <2> QED BY <2>2, <2>3 DEF PInv
<1>7. CASE P!Break
  <2>1. p_open' = FALSE /\ PNowhere' /\ UNCHANGED <<p_waiting, p_calls, p_last>>
    BY <1>7 DEF P!Break, P!Disconnected, PNowhere
  <2>2. PIdle' \/ PWaits'
    BY <1>0, <2>1 DEF PIdle, PWaits
  <2>3. p_open' \in BOOLEAN
    BY Zenon, <2>1
  <2> QED BY <2>1, <2>2, <2>3 DEF PInv
<1>8. CASE UNCHANGED varsP
  <2>1. PIdle' \/ PWaits'
    BY <1>0, <1>8 DEF varsP, PIdle, PWaits, PNowhere, PAsked, PServed, PAnswered
  <2> QED BY <1>8, <2>1 DEF varsP, PInv
<1>9. P!Methods = {"dyeing", "DyeingLan", "BatchDyeing", "BatchDyeingLan"}
  BY DEF P!Methods, P!processMap
<1>10. CASE P!dyeing \/ P!DyeingLan \/ P!BatchDyeing \/ P!BatchDyeingLan \/ P!CallForeign
  BY <1>2, <1>9, <1>10 DEF P!dyeing, P!DyeingLan, P!BatchDyeing, P!BatchDyeingLan, P!CallForeign
<1>11. CASE P!Process
  BY <1>4, <1>11 DEF P!Process, P!process_dyeing, P!process_DyeingLan, P!process_BatchDyeing,
                    P!process_BatchDyeingLan
<1> QED
  BY <1>1, <1>3, <1>5, <1>6, <1>7, <1>8, <1>10, <1>11 DEF P!Next, P!Process

\* What the invariant promises.
LEMMA RpcInvImplies == PInv => P!TypeOK /\ P!OwnAnswer
<1> SUFFICES ASSUME PInv PROVE P!TypeOK /\ P!OwnAnswer
  OBVIOUS
<1> HIDE DEF P!None
<1>1. P!OwnAnswer
  BY MessageFields DEF PInv, PIdle, PWaits, P!OwnAnswer
<1>2. P!None.method = "none"
  BY DEF P!None
<1>3. p_waiting.method \in P!Methods \union {Foreign, "none"}
  BY <1>2, MessageFields DEF PInv, PIdle, PWaits
<1>4. p_serving.method \in P!Methods \union {"none"}
  BY <1>2 DEF PInv, PIdle, PWaits, PNowhere, PAsked, PServed, PAnswered
<1>5. {p_up[i].method : i \in DOMAIN p_up} \subseteq P!Methods \union {Foreign}
  BY <1>3, MessageFields DEF PInv, PIdle, PWaits, PNowhere, PAsked, PServed, PAnswered
<1>6. {p_down[i].type : i \in DOMAIN p_down} \subseteq {"reply", "exception"}
  BY MessageFields DEF PInv, PIdle, PWaits, PNowhere, PAsked, PServed, PAnswered
<1> QED BY <1>1, <1>3, <1>4, <1>5, <1>6 DEF PInv, P!TypeOK

------------------------------------------------------------------------------
(* The Kafka consumer.                                                     *)

\* Every record of p before the offset n has been read.
KReadTo(p, n) == \A o \in 0 .. n - 1 : <<p, o>> \in k_fetched

\* Offsets are numbers, what is to be committed has been read, and no checkpoint
\* file has a name that Init looks for.
KInv ==
  /\ DOMAIN k_committed = K!Partitions /\ DOMAIN k_stored = K!Partitions
  /\ \A p \in K!Partitions :
       /\ k_committed[p] \in Nat \union {K!None} /\ KReadTo(p, k_committed[p])
       /\ k_stored[p] \in Nat \union {K!None} /\ KReadTo(p, k_stored[p])
  /\ \A p \in DOMAIN k_assigned : k_assigned[p] \in Nat /\ KReadTo(p, k_assigned[p])
  /\ DOMAIN k_files \subseteq {K!OffsetTxt} \union {K!Written(p) : p \in K!Partitions}
  /\ k_record[1] \in K!Partitions

\* The name Init makes for the file of a partition is the name of no file.
LEMMA NeverThere ==
  ASSUME KInv, NEW p, p # K!None
  PROVE  K!Content(K!Read(p)) = 0
<1>1. K!Read(p) # K!OffsetTxt
  BY DEF K!Read, K!OffsetTxt, K!Name
<1>2. ASSUME NEW q \in K!Partitions PROVE K!Read(p) # K!Written(q)
  BY DEF K!Read, K!Written, K!Name, K!Partitions, K!None
<1>3. K!Read(p) \notin DOMAIN k_files
  BY <1>1, <1>2 DEF KInv
<1> QED
  BY <1>3 DEF K!Content, K!Full

\* The consumer begins in its invariant.
LEMMA KafkaInitInv == K!Init => KInv
<1> SUFFICES ASSUME K!Init PROVE KInv
  OBVIOUS
<1>1. /\ k_committed = [p \in K!Partitions |-> K!None] /\ k_stored = [p \in K!Partitions |-> K!None]
      /\ DOMAIN k_assigned = {} /\ DOMAIN k_files = {} /\ k_record[1] = 0
  BY DEF K!Init
<1>2. 0 \in K!Partitions
  BY KafkaAssumption DEF K!Partitions, K!BoundsAssumption
<1> QED
  BY <1>1, <1>2 DEF KInv, KReadTo, K!None

\* The steps that read nothing and leave the offsets as they are.
LEMMA FilesInv ==
  ASSUME KInv, K!WriteOffset \/ K!WritePartition \/ K!Process
  PROVE  KInv'
<1>1. /\ k_committed' = k_committed /\ k_stored' = k_stored /\ k_assigned' = k_assigned
      /\ k_record' = k_record /\ k_fetched' = k_fetched
      /\ \/ k_files' = k_files
         \/ \E p \in K!Partitions : K!WriteFile(K!Written(p), k_record[2])
         \/ K!WriteFile(K!OffsetTxt, k_record[1])
  BY DEF K!WriteOffset, K!WritePartition, K!Process, K!disk, K!counts, KInv
<1>2. DOMAIN k_files' \subseteq {K!OffsetTxt} \union {K!Written(p) : p \in K!Partitions}
  <2>1. DOMAIN k_files \subseteq {K!OffsetTxt} \union {K!Written(p) : p \in K!Partitions}
    BY DEF KInv
  <2> QED
    BY <1>1, <2>1 DEF K!WriteFile
<1> QED
  BY <1>1, <1>2 DEF KInv, KReadTo

\* The process starts: it never finds an offset in its files, and begins at 0.
LEMMA StartInv == ASSUME KInv, K!Start PROVE KInv'
<1>1. /\ k_committed' = k_committed /\ k_files' = k_files /\ k_record' = k_record /\ k_fetched' = k_fetched
      /\ k_stored' = [p \in K!Partitions |-> K!None]
  BY DEF K!Start, K!disk
<1>2. ASSUME NEW p \in DOMAIN k_assigned' PROVE k_assigned'[p] = 0
  <2>1. CASE K!Full(K!OffsetTxt)
    <3>1. k_assigned' = [q \in 0 .. k_files[K!OffsetTxt] |-> K!Content(K!Read(q))]
      BY <2>1 DEF K!Start
    <3>2. p # K!None
      BY <3>1 DEF K!None
    <3> QED
      BY <3>1, <3>2, NeverThere
  <2>2. CASE ~K!Full(K!OffsetTxt)
    <3>1. DOMAIN k_assigned' = {}
      BY <2>2 DEF K!Start
    <3> QED
      BY <3>1
  <2> QED
    BY <2>1, <2>2
<1> QED
  BY <1>1, <1>2 DEF KInv, KReadTo, K!None

\* The broker assigns partitions.
LEMMA AssignInv == ASSUME KInv, K!Assign PROVE KInv'
<1>1. /\ k_committed' = k_committed /\ k_files' = k_files /\ k_record' = k_record /\ k_fetched' = k_fetched
      /\ k_stored' = k_stored /\ k_assigned' = [p \in K!Partitions |-> K!Committed(p)]
  BY DEF K!Assign, K!disk, K!counts
<1>2. ASSUME NEW p \in K!Partitions PROVE K!Committed(p) \in Nat /\ KReadTo(p, K!Committed(p))
  BY DEF KInv, K!Committed, K!Smallest, KReadTo
<1> QED
  BY <1>1, <1>2 DEF KInv, KReadTo

\* The record that is read is the next one of its partition.
LEMMA FetchInv ==
  ASSUME KInv, NEW p \in K!Partitions, NEW early \in BOOLEAN, K!Fetch(p, early)
  PROVE  KInv'
<1>0. PICK n \in Nat : n = k_assigned[p] /\ KReadTo(p, n)
  BY DEF K!Fetch, KInv
<1>1. /\ k_committed' = k_committed /\ k_files' = k_files
      /\ k_record' = <<p, n>>
      /\ k_fetched' = k_fetched \union {<<p, n>>}
      /\ k_assigned' = [k_assigned EXCEPT ![p] = n + 1]
      /\ k_stored' = [k_stored EXCEPT ![p] = n + 1]
      /\ p \in DOMAIN k_assigned
  BY <1>0 DEF K!Fetch, K!disk
<1>2. KReadTo(p, n + 1)'
  <2>1. ASSUME NEW o \in 0 .. n PROVE <<p, o>> \in k_fetched'
    <3>1. o = n \/ o \in 0 .. n - 1
      OBVIOUS
    <3> QED
      BY <1>0, <1>1, <3>1 DEF KReadTo
  <2>2. n + 1 - 1 = n
    OBVIOUS
  <2> QED
    BY <2>1, <2>2 DEF KReadTo
<1>3. \A o \in 0 .. n : <<p, o>> \in k_fetched'
  BY <1>2 DEF KReadTo
<1>4. \A x \in k_fetched : x \in k_fetched'
  BY <1>1
<1>5. ASSUME NEW q \in K!Partitions
      PROVE  /\ k_committed'[q] \in Nat \union {K!None}
             /\ \A o \in 0 .. k_committed'[q] - 1 : <<q, o>> \in k_fetched'
             /\ k_stored'[q] \in Nat \union {K!None}
             /\ \A o \in 0 .. k_stored'[q] - 1 : <<q, o>> \in k_fetched'
  <2>1. k_stored'[q] = IF q = p THEN n + 1 ELSE k_stored[q]
    BY <1>1 DEF KInv
  <2>2. CASE q = p
    BY <1>1, <1>3, <1>4, <2>1, <2>2 DEF KInv, KReadTo
  <2>3. CASE q # p
    BY <1>1, <1>4, <2>1, <2>3 DEF KInv, KReadTo
  <2> QED
    BY <2>2, <2>3
<1>6. ASSUME NEW q \in DOMAIN k_assigned'
      PROVE  k_assigned'[q] \in Nat /\ \A o \in 0 .. k_assigned'[q] - 1 : <<q, o>> \in k_fetched'
  <2>1. q \in DOMAIN k_assigned /\ k_assigned'[q] = IF q = p THEN n + 1 ELSE k_assigned[q]
    BY <1>1
  <2>2. CASE q = p
    BY <1>3, <2>1, <2>2
  <2>3. CASE q # p
    BY <1>4, <2>1, <2>3 DEF KInv, KReadTo
  <2> QED
    BY <2>2, <2>3
<1>7. DOMAIN k_committed' = K!Partitions /\ DOMAIN k_stored' = K!Partitions
  BY <1>1 DEF KInv
<1> QED
  BY <1>1, <1>5, <1>6, <1>7 DEF KInv, KReadTo

\* The stored offset is committed.
LEMMA CommitInv == ASSUME KInv, K!Commit PROVE KInv'
<1>1. /\ k_stored' = k_stored /\ k_assigned' = k_assigned /\ k_files' = k_files /\ k_record' = k_record
      /\ k_fetched' = k_fetched
      /\ k_committed' = [p \in K!Partitions |-> IF k_stored[p] = K!None THEN k_committed[p] ELSE k_stored[p]]
  BY DEF K!Commit, K!memory, K!counts
<1> QED
  BY <1>1 DEF KInv, KReadTo

\* The process dies.
LEMMA CrashInv == ASSUME KInv, K!Crash PROVE KInv'
<1>1. /\ k_committed' = k_committed /\ k_stored' = k_stored /\ k_record' = k_record /\ k_fetched' = k_fetched
      /\ DOMAIN k_assigned' = {}
      /\ \/ k_files' = k_files
         \/ \E p \in K!Partitions : K!WriteFile(K!Written(p), K!None)
         \/ K!WriteFile(K!OffsetTxt, K!None)
  BY DEF K!Crash, K!counts, KInv
<1>2. DOMAIN k_files' \subseteq {K!OffsetTxt} \union {K!Written(p) : p \in K!Partitions}
  <2>1. DOMAIN k_files \subseteq {K!OffsetTxt} \union {K!Written(p) : p \in K!Partitions}
    BY DEF KInv
  <2> QED
    BY <1>1, <2>1 DEF K!WriteFile
<1> QED
  BY <1>1, <1>2 DEF KInv, KReadTo

\* No step of the consumer, or of the broker, disturbs it.
LEMMA KafkaNextInv == KInv /\ [K!Next]_varsK => KInv'
<1> SUFFICES ASSUME KInv, [K!Next]_varsK PROVE KInv'
  OBVIOUS
<1>1. ASSUME NEW p \in K!Partitions, K!Produce(p) PROVE KInv'
  BY <1>1 DEF K!Produce, K!memory, K!counts, KInv, KReadTo
<1>2. CASE K!Revoke
  <2>1. /\ k_committed' = k_committed /\ k_stored' = k_stored /\ k_record' = k_record
        /\ k_fetched' = k_fetched /\ k_files' = k_files /\ DOMAIN k_assigned' = {}
    BY <1>2 DEF K!Revoke, K!disk
  <2> QED
    BY <2>1 DEF KInv, KReadTo
<1>3. CASE K!Round
  BY <1>3, FetchInv, FilesInv DEF K!Round
<1>4. CASE UNCHANGED varsK
  BY <1>4 DEF varsK, KInv, KReadTo
<1> QED
  BY <1>1, <1>2, <1>3, <1>4, StartInv, AssignInv, CommitInv, CrashInv DEF K!Next

-----------------------------------------------------------------------------
(* The checkpoint files.                                                   *)

\* The record whose place is being written was read, and offset.txt follows the
\* file of its partition.
KCheckpoints ==
  /\ k_pc \in {"offset", "partition"} => <<k_record[1], k_record[2]>> \in k_fetched
  /\ k_pc = "partition" => K!Written(k_record[1]) \in DOMAIN k_files
  /\ K!CheckpointsTrue

\* The names of the files of two partitions differ.
LEMMA NamesDiffer ==
  /\ \A p \in K!Partitions : K!Written(p) # K!OffsetTxt
  /\ \A p, q : K!Written(p) = K!Written(q) => p = q
BY DEF K!Written, K!OffsetTxt, K!Name, K!None, K!Partitions

\* What is written of the other files is as it was.
LEMMA FileWritten ==
  ASSUME NEW f, NEW n, K!WriteFile(f, n)
  PROVE  /\ DOMAIN k_files' = DOMAIN k_files \union {f} /\ k_files'[f] = n
         /\ \A g \in DOMAIN k_files : g # f => k_files'[g] = k_files[g]
         /\ \A g : g # f => (K!Full(g)' <=> K!Full(g))
         /\ K!Full(f)' <=> n # K!None
<1>1. /\ DOMAIN k_files' = DOMAIN k_files \union {f} /\ k_files'[f] = n
      /\ \A g \in DOMAIN k_files : g # f => k_files'[g] = k_files[g]
  BY DEF K!WriteFile
<1> QED
  BY <1>1 DEF K!Full

\* Steps that write no file and read no record.
LEMMA SameFiles ==
  ASSUME KCheckpoints, k_files' = k_files, k_fetched \subseteq k_fetched',
         k_pc' \in {"offset", "partition"} => k_pc' = k_pc /\ k_record' = k_record
  PROVE  KCheckpoints'
<1>1. \A f : K!Full(f)' <=> K!Full(f)
  BY DEF K!Full
<1>2. K!CheckpointsTrue'
  BY <1>1 DEF KCheckpoints, K!CheckpointsTrue, K!Full, K!Written
<1> QED
  BY <1>2 DEF KCheckpoints, K!Written

\* A fetched record is written to its file.
LEMMA FetchCheckpoints ==
  ASSUME KCheckpoints, NEW p \in K!Partitions, NEW early \in BOOLEAN, K!Fetch(p, early)
  PROVE  KCheckpoints'
<1>1. /\ k_record' = <<p, k_assigned[p]>> /\ k_fetched' = k_fetched \union {k_record'}
      /\ k_files' = k_files /\ k_pc' # "partition"
  BY DEF K!Fetch, K!disk
<1>2. <<k_record'[1], k_record'[2]>> \in k_fetched'
  BY <1>1
<1>3. \A f : K!Full(f)' <=> K!Full(f)
  BY <1>1 DEF K!Full
<1>4. K!CheckpointsTrue'
  BY <1>1, <1>3 DEF KCheckpoints, K!CheckpointsTrue, K!Full, K!Written
<1> QED
  BY <1>1, <1>2, <1>4 DEF KCheckpoints

\* The file of a partition is written, or emptied by a crash that comes before.
LEMMA PartitionFile ==
  ASSUME KInv, KCheckpoints, NEW n \in {k_record[2], K!None}, k_pc = "offset",
         K!WriteFile(K!Written(k_record[1]), n), k_fetched' = k_fetched, k_record' = k_record
  PROVE  K!CheckpointsTrue' /\ K!Written(k_record[1]) \in DOMAIN k_files'
<1> DEFINE r == k_record[1]
<1>1. r \in K!Partitions /\ <<r, k_record[2]>> \in k_fetched
  BY DEF KInv, KCheckpoints
<1>2. /\ DOMAIN k_files' = DOMAIN k_files \union {K!Written(r)} /\ k_files'[K!Written(r)] = n
      /\ \A g \in DOMAIN k_files : g # K!Written(r) => k_files'[g] = k_files[g]
      /\ \A g : g # K!Written(r) => (K!Full(g)' <=> K!Full(g))
      /\ K!Full(K!Written(r))' <=> n # K!None
  BY FileWritten
<1> HIDE DEF r
<1>3. ASSUME NEW p \in K!Partitions, K!Full(K!Written(p))' PROVE <<p, k_files'[K!Written(p)]>> \in k_fetched'
  <2>1. CASE p = r
    <3>1. k_files'[K!Written(p)] # K!None
      BY <1>3 DEF K!Full, K!Written
    <3>2. k_files'[K!Written(p)] = k_record[2]
      BY <1>2, <2>1, <3>1
    <3> QED
      BY <1>1, <2>1, <3>2
  <2>2. CASE p # r
    <3>1. K!Written(p) # K!Written(r) /\ K!Full(K!Written(p))
      BY <1>2, <1>3, <2>2, NamesDiffer
    <3> QED
      BY <1>2, <1>3, <3>1 DEF KCheckpoints, K!CheckpointsTrue, K!Full
  <2> QED
    BY <2>1, <2>2
<1>4. ASSUME K!Full(K!OffsetTxt)' PROVE K!Written(k_files'[K!OffsetTxt]) \in DOMAIN k_files'
  <2>1. K!OffsetTxt # K!Written(r)
    BY <1>1, NamesDiffer
  <2>2. K!Full(K!OffsetTxt) /\ k_files'[K!OffsetTxt] = k_files[K!OffsetTxt]
    BY <1>2, <1>4, <2>1 DEF K!Full
  <2> QED
    BY <1>2, <2>2 DEF KCheckpoints, K!CheckpointsTrue
<1>5. K!CheckpointsTrue'
  BY <1>3, <1>4 DEF K!CheckpointsTrue, K!Full, K!Written
<1> QED
  BY <1>2, <1>5 DEF r

\* offset.txt is written, or emptied, after the file of its partition.
LEMMA OffsetFile ==
  ASSUME KInv, KCheckpoints, NEW n \in {k_record[1], K!None}, k_pc = "partition",
         K!WriteFile(K!OffsetTxt, n), k_fetched' = k_fetched, k_record' = k_record
  PROVE  K!CheckpointsTrue'
<1>1. /\ DOMAIN k_files' = DOMAIN k_files \union {K!OffsetTxt} /\ k_files'[K!OffsetTxt] = n
      /\ \A g \in DOMAIN k_files : g # K!OffsetTxt => k_files'[g] = k_files[g]
      /\ \A g : g # K!OffsetTxt => (K!Full(g)' <=> K!Full(g))
      /\ K!Full(K!OffsetTxt)' <=> n # K!None
  BY FileWritten
<1>2. ASSUME NEW p \in K!Partitions, K!Full(K!Written(p))' PROVE <<p, k_files'[K!Written(p)]>> \in k_fetched'
  <2>1. K!Written(p) # K!OffsetTxt
    BY NamesDiffer
  <2>2. K!Full(K!Written(p)) /\ k_files'[K!Written(p)] = k_files[K!Written(p)]
    BY <1>1, <1>2, <2>1 DEF K!Full
  <2> QED
    BY <2>2 DEF KCheckpoints, K!CheckpointsTrue
<1>3. ASSUME K!Full(K!OffsetTxt)' PROVE K!Written(k_files'[K!OffsetTxt]) \in DOMAIN k_files'
  <2>1. k_files'[K!OffsetTxt] = k_record[1]
    BY <1>1, <1>3
  <2> QED
    BY <1>1, <2>1 DEF KCheckpoints
<1> QED
  BY <1>2, <1>3 DEF K!CheckpointsTrue, K!Full, K!Written

\* No step makes a file lie.
LEMMA CheckpointsNext == KInv /\ KCheckpoints /\ [K!Next]_varsK => KCheckpoints'
<1> SUFFICES ASSUME KInv, KCheckpoints, [K!Next]_varsK PROVE KCheckpoints'
  OBVIOUS
<1>1. CASE \/ K!Start \/ K!Assign \/ K!Revoke \/ K!Commit \/ K!Process \/ UNCHANGED varsK
           \/ \E p \in K!Partitions : K!Produce(p)
  <2>1. /\ k_files' = k_files /\ k_fetched' = k_fetched
        /\ k_pc' \in {"offset", "partition"} => k_pc' = k_pc /\ k_record' = k_record
    BY <1>1 DEF K!Start, K!Assign, K!Revoke, K!Commit, K!Process, K!Produce, varsK, K!disk, K!memory, K!counts
  <2> QED
    BY <2>1, SameFiles
<1>2. ASSUME NEW p \in K!Partitions, NEW early \in BOOLEAN, K!Fetch(p, early)
      PROVE  KCheckpoints'
  BY <1>2, FetchCheckpoints
<1>3. CASE K!WriteOffset
  <2>1. /\ k_pc = "offset" /\ k_fetched' = k_fetched /\ k_record' = k_record
        /\ K!WriteFile(K!Written(k_record[1]), k_record[2])
    BY <1>3 DEF K!WriteOffset, K!counts
  <2>2. K!CheckpointsTrue' /\ K!Written(k_record[1]) \in DOMAIN k_files'
    BY <2>1, PartitionFile
  <2> QED
    BY <2>1, <2>2 DEF KCheckpoints, K!Written
<1>4. CASE K!WritePartition
  <2>1. /\ k_pc = "partition" /\ k_pc' = "process" /\ k_fetched' = k_fetched /\ k_record' = k_record
        /\ K!WriteFile(K!OffsetTxt, k_record[1])
    BY <1>4 DEF K!WritePartition, K!counts
  <2>2. K!CheckpointsTrue'
    BY <2>1, OffsetFile
  <2> QED
    BY <2>1, <2>2 DEF KCheckpoints
<1>5. CASE K!Crash
  <2>1. /\ k_pc' = "off" /\ k_fetched' = k_fetched /\ k_record' = k_record
        /\ \/ k_files' = k_files
           \/ k_pc = "offset" /\ K!WriteFile(K!Written(k_record[1]), K!None)
           \/ k_pc = "partition" /\ K!WriteFile(K!OffsetTxt, K!None)
    BY <1>5 DEF K!Crash, K!counts
  <2>2. K!CheckpointsTrue'
    <3>1. k_files' = k_files => K!CheckpointsTrue'
      BY <2>1, SameFiles DEF KCheckpoints
    <3> QED
      BY <2>1, <3>1, PartitionFile, OffsetFile
  <2> QED
    BY <2>1, <2>2 DEF KCheckpoints
<1> QED
  BY <1>1, <1>2, <1>3, <1>4, <1>5 DEF K!Next, K!Round


-----------------------------------------------------------------------------
\* The offsets are in the logs.
KType ==
  /\ k_produced \in [K!Partitions -> Nat]
  /\ k_committed \in [K!Partitions -> Nat \union {K!None}]
  /\ k_stored \in [K!Partitions -> Nat \union {K!None}]
  /\ \A p \in K!Partitions : k_committed[p] <= k_produced[p] /\ k_stored[p] <= k_produced[p]
  /\ DOMAIN k_assigned \subseteq K!Partitions
  /\ \A p \in DOMAIN k_assigned : k_assigned[p] <= k_produced[p]
  /\ \A f \in DOMAIN k_files : k_files[f] \in Nat \union {K!None}
  /\ K!OffsetTxt \in DOMAIN k_files => k_files[K!OffsetTxt] \in K!Partitions \union {K!None}
  /\ k_pc \in {"off", "poll", "offset", "partition", "process"}
  /\ k_record \in K!Partitions \X Nat
  /\ k_maxPartition \in K!Partitions
  /\ k_starts \in 0 .. MaxStarts /\ k_revokes \in 0 .. MaxRevokes
  /\ k_fetched \subseteq K!Partitions \X Nat

\* At the start there is no file.
LEMMA KafkaInitCheckpoints == K!Init => KCheckpoints
  BY DEF K!Init, KCheckpoints, K!CheckpointsTrue, K!Full

\* The types at the start.
LEMMA KafkaInitType == K!Init => KType
<1> SUFFICES ASSUME K!Init PROVE KType
  OBVIOUS
<1>1. 0 \in K!Partitions /\ 0 \in 0 .. MaxStarts /\ 0 \in 0 .. MaxRevokes
  BY KafkaAssumption DEF K!BoundsAssumption, K!Partitions
<1> QED BY <1>1 DEF K!Init, KType, K!None

\* A file is written with an offset, a partition or nothing.
LEMMA WriteType ==
  ASSUME KType, NEW f, NEW n \in Nat \union {K!None}, K!WriteFile(f, n),
         f = K!OffsetTxt => n \in K!Partitions \union {K!None}
  PROVE  /\ \A g \in DOMAIN k_files' : k_files'[g] \in Nat \union {K!None}
         /\ K!OffsetTxt \in DOMAIN k_files' =>
              k_files'[K!OffsetTxt] \in K!Partitions \union {K!None}
<1>1. /\ DOMAIN k_files' = DOMAIN k_files \union {f}
      /\ \A g \in DOMAIN k_files' : k_files'[g] = IF g = f THEN n ELSE k_files[g]
  BY DEF K!WriteFile
<1> QED BY <1>1 DEF KType

\* Every step keeps the types.
LEMMA KafkaNextType == KInv /\ KType /\ [K!Next]_varsK => KType'
<1> SUFFICES ASSUME KInv, KType, [K!Next]_varsK PROVE KType'
  OBVIOUS
<1>0. K!Partitions \subseteq Nat
  BY DEF K!Partitions
<1>r. k_record \in K!Partitions \X Nat /\ k_record[1] \in K!Partitions /\ k_record[2] \in Nat
      /\ k_record[1] \in Nat
  BY <1>0 DEF KType
<1>1. CASE K!Start
  <2>1. ASSUME NEW p \in DOMAIN k_assigned' PROVE p \in K!Partitions /\ k_assigned'[p] = 0
    <3>1. CASE K!Full(K!OffsetTxt)
      <4>1. k_assigned' = [q \in 0 .. k_files[K!OffsetTxt] |-> K!Content(K!Read(q))]
        BY <1>1, <3>1 DEF K!Start
      <4>2. k_files[K!OffsetTxt] \in K!Partitions
        BY <3>1 DEF K!Full, KType
      <4>3. p # K!None /\ p \in K!Partitions
        BY <4>1, <4>2, KafkaAssumption DEF K!None, K!Partitions, K!BoundsAssumption
      <4> QED BY <4>1, <4>3, NeverThere
    <3>2. CASE ~K!Full(K!OffsetTxt)
      <4>1. DOMAIN k_assigned' = {}
        BY <1>1, <3>2 DEF K!Start
      <4> QED BY <4>1
    <3> QED BY <3>1, <3>2
  <2>2. /\ k_starts' \in 0 .. MaxStarts /\ k_maxPartition' \in K!Partitions
        /\ k_stored' = [p \in K!Partitions |-> K!None]
        /\ UNCHANGED <<k_produced, k_committed, k_files, k_record, k_revokes, k_fetched>>
        /\ k_pc' = "poll"
    BY <1>1, KafkaAssumption DEF K!Start, K!disk, KType, K!BoundsAssumption, K!Partitions
  <2>3. \A p \in K!Partitions : k_produced'[p] >= 0 /\ k_stored'[p] <= k_produced'[p]
    BY <2>2 DEF KType, K!None
  <2> QED BY <1>0, <2>1, <2>2, <2>3 DEF KType
<1>2. CASE K!Crash
  <2>1. /\ UNCHANGED <<k_produced, k_committed, k_stored, k_record, k_maxPartition,
                       k_starts, k_revokes, k_fetched>>
        /\ k_pc' = "off" /\ DOMAIN k_assigned' = {}
    BY <1>2 DEF K!Crash, K!counts
  <2>2. \/ k_files' = k_files
        \/ \E p \in K!Partitions : K!WriteFile(K!Written(p), K!None)
        \/ K!WriteFile(K!OffsetTxt, K!None)
    BY <1>2, <1>r DEF K!Crash
  <2>3. /\ \A g \in DOMAIN k_files' : k_files'[g] \in Nat \union {K!None}
        /\ K!OffsetTxt \in DOMAIN k_files' =>
             k_files'[K!OffsetTxt] \in K!Partitions \union {K!None}
    BY <2>2, WriteType, NamesDiffer DEF KType
  <2> QED BY <2>1, <2>3 DEF KType
<1>3. CASE K!Assign
  <2>1. \A p \in K!Partitions : K!Committed(p) <= k_produced[p]
    BY DEF KType, K!Committed, K!Smallest
  <2> QED BY <1>3, <2>1 DEF K!Assign, K!disk, K!counts, KType
<1>4. CASE K!Revoke
  BY <1>4, KafkaAssumption DEF K!Revoke, K!disk, KType, K!BoundsAssumption
<1>5. CASE K!Commit
  BY <1>5 DEF K!Commit, K!memory, K!counts, KType
<1>6. ASSUME NEW p \in K!Partitions, NEW early \in BOOLEAN, K!Fetch(p, early) PROVE KType'
  <2>1. PICK n \in Nat : n = k_assigned[p]
    BY <1>6 DEF K!Fetch, KInv
  <2>2. /\ k_record' = <<p, n>> /\ k_fetched' = k_fetched \union {<<p, n>>}
        /\ k_assigned' = [k_assigned EXCEPT ![p] = n + 1]
        /\ k_stored' = [k_stored EXCEPT ![p] = n + 1]
        /\ n < k_produced[p]
        /\ UNCHANGED <<k_produced, k_committed, k_files, k_maxPartition, k_starts, k_revokes>>
        /\ k_pc' \in {"offset", "process"}
    BY <1>6, <2>1 DEF K!Fetch, K!disk
  <2>3. n + 1 <= k_produced[p]
    BY <2>2 DEF KType
  <2>4. \A q \in K!Partitions : k_stored'[q] <= k_produced'[q]
    BY <2>2, <2>3 DEF KType, KInv
  <2>5. \A q \in DOMAIN k_assigned' : q \in K!Partitions /\ k_assigned'[q] <= k_produced'[q]
    BY <2>2, <2>3 DEF KType, KInv
  <2> QED BY <2>2, <2>4, <2>5 DEF KType
<1>7. CASE K!WriteOffset
  <2>1. /\ UNCHANGED <<k_produced, k_committed, k_assigned, k_stored, k_record, k_maxPartition,
                       k_starts, k_revokes, k_fetched>>
        /\ k_pc' \in {"partition", "process"}
        /\ K!WriteFile(K!Written(k_record[1]), k_record[2])
    BY <1>7 DEF K!WriteOffset, K!counts
  <2>2. K!Written(k_record[1]) # K!OffsetTxt
    BY <1>r, NamesDiffer
  <2> QED BY <1>r, <2>1, <2>2, WriteType DEF KType
<1>8. CASE K!WritePartition
  <2>1. /\ UNCHANGED <<k_produced, k_committed, k_assigned, k_stored, k_record,
                       k_starts, k_revokes, k_fetched>>
        /\ k_pc' = "process" /\ k_maxPartition' = k_record[1]
        /\ K!WriteFile(K!OffsetTxt, k_record[1])
    BY <1>8 DEF K!WritePartition, K!counts
  <2> QED BY <1>r, <2>1, WriteType DEF KType
<1>9. CASE K!Process
  BY <1>9 DEF K!Process, K!disk, K!counts, KType
<1>10. ASSUME NEW p \in K!Partitions, K!Produce(p) PROVE KType'
  <2>1. /\ k_produced' = [k_produced EXCEPT ![p] = @ + 1]
        /\ UNCHANGED <<k_committed, k_files, k_pc, k_assigned, k_stored, k_record,
                       k_maxPartition, k_starts, k_revokes, k_fetched>>
    BY <1>10 DEF K!Produce, K!memory, K!counts
  <2>2. /\ k_produced' \in [K!Partitions -> Nat]
        /\ \A q \in K!Partitions : k_produced[q] <= k_produced'[q]
    BY <2>1 DEF KType
  <2>3. \A q \in K!Partitions : k_committed'[q] <= k_produced'[q] /\ k_stored'[q] <= k_produced'[q]
    BY <2>1, <2>2 DEF KType, KInv, K!None
  <2>4. \A q \in DOMAIN k_assigned' : k_assigned'[q] <= k_produced'[q]
    BY <2>1, <2>2 DEF KType, KInv
  <2> QED BY <2>1, <2>2, <2>3, <2>4 DEF KType
<1>11. CASE UNCHANGED varsK
  BY <1>11 DEF varsK, KType
<1> QED
  BY <1>1, <1>2, <1>3, <1>4, <1>5, <1>6, <1>7, <1>8, <1>9, <1>10, <1>11 DEF K!Next, K!Round

\* What the invariants promise.
LEMMA KafkaImplies == KInv /\ KCheckpoints /\ KType => K!TypeOK /\ K!NoneSkipped /\ K!CheckpointsTrue
<1> SUFFICES ASSUME KInv, KCheckpoints, KType PROVE K!TypeOK /\ K!NoneSkipped
  BY DEF KCheckpoints
<1>3. \A p \in DOMAIN k_assigned : k_assigned[p] \in 0 .. k_produced[p]
  BY DEF KInv, KType
<1>4. K!NoneSkipped
  BY DEF KInv, K!NoneSkipped, KReadTo
<1> QED BY <1>3, <1>4 DEF KInv, KType, K!TypeOK, K!Offsets

------------------------------------------------------------------------------
(* The parts side by side.                                                 *)

ClientInv == RInv /\ TInv /\ CInv /\ SInv /\ DInv /\ PInv /\ KInv /\ KCheckpoints /\ KType

\* Every client begins in its invariant.
LEMMA ClientInit == Init => ClientInv
<1>1. Init => R!Init /\ T!Init /\ C!Init /\ S!Init /\ D!Init /\ P!Init /\ K!Init
  BY DEF Init
<1> QED
  BY <1>1, RedisInit, Redis2Init, CoInit, SocketInit, SqlInit, RpcInit, KafkaInitInv,
     KafkaInitCheckpoints, KafkaInitType DEF ClientInv

\* Every step of the library keeps the invariants of the clients.
LEMMA ClientStep == ClientInv /\ [Next]_vars => ClientInv'
<1> SUFFICES ASSUME ClientInv, [Next]_vars PROVE ClientInv'
  OBVIOUS
<1>1. /\ [R!Next]_varsR /\ [T!Next]_varsT /\ [C!Next]_varsC /\ [S!Next]_varsS
      /\ [D!Next]_varsD /\ [P!Next]_varsP /\ [K!Next]_varsK
  BY PartSteps
<1> QED
  BY <1>1, RedisStep, Redis2Step, CoStep, SocketStep, SqlStep, RpcStep, KafkaNextInv,
     CheckpointsNext, KafkaNextType DEF ClientInv

\* The invariants give the types.
LEMMA ClientTypes ==
  ClientInv => R!TypeOK /\ T!TypeOK /\ C!TypeOK /\ S!TypeOK /\ D!TypeOK /\ P!TypeOK /\ K!TypeOK
<1> SUFFICES ASSUME ClientInv
             PROVE  /\ R!TypeOK /\ T!TypeOK /\ C!TypeOK /\ S!TypeOK /\ D!TypeOK /\ P!TypeOK
                    /\ K!TypeOK
  OBVIOUS
<1>1. R!TypeOK
  BY DEF ClientInv, RInv, RType, R!TypeOK
<1>2. T!TypeOK
  BY DEF ClientInv, TInv, T!TypeOK
<1>3. D!TypeOK
  BY DEF ClientInv, DInv, DBool, DRest, D!TypeOK
<1> QED
  BY <1>1, <1>2, <1>3, CoTypeOK, SocketInvImplies, RpcInvImplies, KafkaImplies DEF ClientInv

\* A client of the library never reports what its server did not do: no command of
\* inv_redis.cpp that looks at its reply takes a refusal for a success (set, remove and
\* hashdel do not look), a reply answers the request it is taken for, however connections
\* break and come back between the two (inv_coredis.cpp, ABDyeingService.cpp), also in
\* inv_socket.cpp unless its send() doubled a byte of this very connection, a statement
\* reported as executed was (inv_mysql.cpp), and what the Kafka consumer commits, writes
\* to its files or passes over, it has read.
THEOREM ClientsReportTheTruth == Spec => []ReportsAreTrue
<1>1. Init => ClientInv
  BY ClientInit
<1>2. ClientInv /\ [Next]_vars => ClientInv'
  BY ClientStep
<1>3. ClientInv => ReportsAreTrue
  <2> SUFFICES ASSUME ClientInv PROVE ReportsAreTrue
    OBVIOUS
  <2>1. R!FailureReported /\ C!ReplyIsMine /\ D!ExecutedAsReported
    BY DEF ClientInv, RInv, CInv, DInv, DRest, C!ReplyIsMine
  <2>2. S!Aligned /\ P!OwnAnswer /\ K!NoneSkipped /\ K!CheckpointsTrue
    BY SocketInvImplies, RpcInvImplies, KafkaImplies DEF ClientInv
  <2> QED BY <2>1, <2>2 DEF ReportsAreTrue
<1> QED
  BY <1>1, <1>2, <1>3, PTL DEF Spec

\* Every part of the library keeps its types.
THEOREM LibraryTypes == Spec => []TypesOK
<1>1. Init => ThreadInv /\ ClientInv
  BY ThreadInit, ClientInit
<1>2. ThreadInv /\ ClientInv /\ [Next]_vars => ThreadInv' /\ ClientInv'
  BY ThreadStep, ClientStep
<1>3. ThreadInv /\ ClientInv => TypesOK
  BY QueueImplies, LocksImplies, LoggerImplies, FilesImplies, ClientTypes DEF ThreadInv, TypesOK
<1> QED
  BY <1>1, <1>2, <1>3, PTL DEF Spec
==============================================================================
