------------------------------ MODULE MCLibrary ------------------------------
(***************************************************************************)
(* Model-checking instance of the parts of module Library: values for the  *)
(* clients of one redis server and for the nodes of a redis cluster, the   *)
(* fairness of the parts in a few formulas, and their liveness.            *)
(***************************************************************************)
EXTENDS Library

CONSTANTS c1, c2, a1, a2, a3

MCClients == {c1, c2}
MCAddrs   == <<a1, a2, a3>>

\* A part has up to six fair actions.  As a behaviour is about one part, the
\* first fair actions of the parts are put together, and the second, and so on.
Fair1 ==
  \/ part = "logger" /\ (G!WriteQueued \/ G!WriteAtOnce \/ G!WriteThrows) /\ UNCHANGED NotG
  \/ part = "redis" /\ (R!Call(R!Kind("hashget"))) /\ UNCHANGED NotR
  \/ part = "coredis" /\ (C!Step) /\ UNCHANGED NotC
  \/ part = "sql" /\ (D!execute) /\ UNCHANGED NotD
  \/ part = "rpc" /\ (P!dispatchCall) /\ UNCHANGED NotP
  \/ part = "kafka" /\ (K!Round) /\ UNCHANGED NotK
  \/ part = "redis2" /\ (T!Call(c1, T!get)) /\ UNCHANGED NotT

Fair2 ==
  \/ part = "logger" /\ (G!run) /\ UNCHANGED NotG
  \/ part = "coredis" /\ (C!Call(TRUE)) /\ UNCHANGED NotC
  \/ part = "sql" /\ (D!queryRecord) /\ UNCHANGED NotD
  \/ part = "rpc" /\ (P!Process) /\ UNCHANGED NotP
  \/ part = "kafka" /\ (K!Assign) /\ UNCHANGED NotK
  \/ part = "redis2" /\ (T!Call(c2, T!get)) /\ UNCHANGED NotT

Fair3 ==
  \/ part = "logger" /\ (G!Swap("group") \/ G!Roll("group") \/ G!RollThrows("group")) /\ UNCHANGED NotG
  \/ part = "sql" /\ (D!Noticed) /\ UNCHANGED NotD
  \/ part = "rpc" /\ (P!recv) /\ UNCHANGED NotP

Fair4 ==
  \/ part = "logger" /\ (G!Swap("admin") \/ G!Roll("admin") \/ G!RollThrows("admin")) /\ UNCHANGED NotG
  \/ part = "rpc" /\ (P!recvClosed) /\ UNCHANGED NotP

Fair5 ==
  \/ part = "logger" /\ (G!unRegisterLogger \/ G!reset) /\ UNCHANGED NotG

Fair6 ==
  \/ part = "logger" /\ (G!install \/ G!registerLogger) /\ UNCHANGED NotG

MCSpec ==
  /\ Spec
  /\ WF_vars(Fair1) /\ WF_vars(Fair2) /\ WF_vars(Fair3)
  /\ WF_vars(Fair4) /\ WF_vars(Fair5) /\ WF_vars(Fair6)
------------------------------------------------------------------------------
\* A client works again by its own calls once its servers stay, and a call of the
\* service its server can read comes back; the Kafka consumer reads all that is in the
\* log: Heals,
\* GetsThrough, Recovers, Answered and Keeps of the parts, in one formula.
ClientsRecover ==
  \/ part = "redis"   /\ r_settled /\ ~r_async
  \/ part = "redis2"  /\ t_settled
  \/ part = "coredis" /\ c_settled /\ C!Knows
  \/ part = "sql"     /\ d_settled
  \/ part = "rpc"     /\ p_waiting # P!None /\ P!Readable(p_waiting)
  \/ part = "kafka"   /\ k_pc # "off"
  ~>
  \/ part = "redis"   /\ R!Works
  \/ part = "redis2"  /\ (t_crashed \/ \A c \in {c1, c2} : t_context[c] = "ok")
  \/ part = "coredis" /\ c_pc = "recv" /\ c_current = c_owner
  \/ part = "sql"     /\ d_session
  \/ part = "rpc"     /\ p_waiting = P!None
  \/ part = "kafka"   /\ (K!CaughtUp \/ k_pc = "off")

\* What is queued for a logger leaves its queue, also when roll() throws.
LogFlushed == G!Flushed
==============================================================================
