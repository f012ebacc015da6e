------------------------------ MODULE ServiceRpc ------------------------------
(***************************************************************************)
(* The thrift code of ABDyeingService (src/proto/gen-cpp): what the two    *)
(* ends of a connection put on the wire and make of it.                    *)
(*                                                                         *)
(* A struct is the set of fields its reader insists on; the others may be  *)
(* missing, and a field that is unknown or has another type is skipped.  A *)
(* peer built from another version of the IDL leaves fields out; the own   *)
(* write() leaves none.  A list has one entry.  TNonblockingServer and the *)
(* transport are external: the server takes one call of a connection at a  *)
(* time and gives it to a thread of the ThreadManager it was started with  *)
(* (INVApplication::start), which logs what a read throws; the socket of   *)
(* the client has no timeout.                                              *)
(***************************************************************************)
EXTENDS Naturals, Sequences

CONSTANTS
  Foreign,    \* a method the server does not have
  MaxCalls    \* bound: calls of a behaviour

CallsAssumption == MaxCalls \in Nat

VARIABLES
  open,       \* the client's end and the server's are connected
  up,         \* the frames on their way to the server
  down,       \* the frames on their way to the client
  serving,    \* what the server is doing: a call it gave to the handler, or None
  waiting,    \* the call the client waits for, or None
  calls,      \* number of calls so far
  last        \* what the last call of the client returned: see recv

vars == <<open, up, down, serving, waiting, calls, last>>

None == [method |-> "none"]
------------------------------------------------------------------------------
(* The structs: the fields without which read() throws INVALID_DATA        *)

ABDyeingRequest        == {"app", "app_ver", "_types"}
ABDyeingLanRequest     == {"app", "app_ver", "app_lan", "_types"}
ABDyeingUidReqInfo     == {"uid", "_uid_info"}
ABDyeingUidLanReqInfo  == {"uid", "_uid_lan_info"}
ABDyeingBatchRequest   == {"_uid_req_infos"}
ABDyeingBatchLanRequest == {"_uid_lan_req_infos"}
ABDyeingEntry          == {"type", "config_id"}
ABDyeingReply          == {"status"}
ABDyeingUidRepInfo     == {"uid", "_uid_rep"}
ABDyeingBatchReply     == {"status"}

\* The arguments and the result of a method, from the outside in: the fields
\* read() insists on, and the field that holds the next struct.  No argument
\* is insisted on, nor is the result.
Level(fields, next) == [fields |-> fields, next |-> next]

dyeing_args == <<Level({}, "req"), Level(ABDyeingRequest, "")>>
DyeingLan_args == <<Level({}, "req"), Level(ABDyeingLanRequest, "")>>
BatchDyeing_args ==
  <<Level({}, "batch_reqs"), Level(ABDyeingBatchRequest, "_uid_req_infos"),
    Level(ABDyeingUidReqInfo, "_uid_info"), Level(ABDyeingRequest, "")>>
BatchDyeingLan_args ==
  <<Level({}, "batch_reqs"), Level(ABDyeingBatchLanRequest, "_uid_lan_req_infos"),
    Level(ABDyeingUidLanReqInfo, "_uid_lan_info"), Level(ABDyeingLanRequest, "")>>

dyeing_result ==
  <<Level({}, "success"), Level(ABDyeingReply, "_entries"), Level(ABDyeingEntry, "")>>
DyeingLan_result == dyeing_result
BatchDyeing_result ==
  <<Level({}, "success"), Level(ABDyeingBatchReply, "_uid_rep_infos"),
    Level(ABDyeingUidRepInfo, "_uid_rep"), Level(ABDyeingReply, "_entries"),
    Level(ABDyeingEntry, "")>>
BatchDyeingLan_result == BatchDyeing_result

\* The levels read() comes to when the peer left out the fields in lost.
Reached(struct, lost) ==
  {i \in DOMAIN struct : \A j \in 1 .. i - 1 : <<j, struct[j].next>> \notin lost}

\* read() of a struct and of all it holds: it does not throw.
read(struct, lost) ==
  \A i \in Reached(struct, lost) : \A f \in struct[i].fields : <<i, f>> \notin lost
------------------------------------------------------------------------------
(* The processor                                                           *)

processMap ==
  [dyeing         |-> [args |-> dyeing_args,         result |-> dyeing_result],
   DyeingLan      |-> [args |-> DyeingLan_args,      result |-> DyeingLan_result],
   BatchDyeing    |-> [args |-> BatchDyeing_args,    result |-> BatchDyeing_result],
   BatchDyeingLan |-> [args |-> BatchDyeingLan_args, result |-> BatchDyeingLan_result]]

Methods == DOMAIN processMap

\* A message.  The code sends 0 as the sequence number of every call and does
\* not look at that of an answer; number is the model's, to tell calls apart.
Message(method, type, number, lost) ==
  [method |-> method, type |-> type, number |-> number, lost |-> lost]

\* The connection is gone, with all that was on its way in it.
Disconnected ==
  open' = FALSE /\ up' = <<>> /\ down' = <<>> /\ serving' = None

\* The server can make something of a call: it does not know the method, or
\* reads the arguments.
Readable(m) == m.method \in Methods => read(processMap[m.method].args, m.lost)

\* An unknown method is skipped and answered with UNKNOWN_METHOD.  Otherwise
\* the arguments are read: what read() throws leaves the processor before it
\* wrote anything.  The task of the thread catches and logs it, and the server
\* takes a call without an answer for a oneway one: it reads the next frame.
dispatchCall ==
  /\ serving = None /\ up # <<>> /\ up' = Tail(up)
  /\ LET m == Head(up) IN
       \/ /\ m.method \notin Methods
          /\ down' = Append(down, Message(m.method, "exception", m.number, {}))
          /\ UNCHANGED serving
       \/ /\ m.method \in Methods /\ Readable(m)
          /\ serving' = m /\ UNCHANGED down
       \/ ~Readable(m) /\ UNCHANGED <<down, serving>>
  /\ UNCHANGED <<open, waiting, calls, last>>

\* The handler returned, or threw a std::exception (the one of this server
\* catches those of its logic itself).
process(type) ==
  /\ serving # None /\ serving' = None
  /\ down' = Append(down, Message(serving.method, type, serving.number, {}))
  /\ UNCHANGED <<open, up, waiting, calls, last>>

process_dyeing ==
  serving.method = "dyeing" /\ \E t \in {"reply", "exception"} : process(t)
process_DyeingLan ==
  serving.method = "DyeingLan" /\ \E t \in {"reply", "exception"} : process(t)
process_BatchDyeing ==
  serving.method = "BatchDyeing" /\ \E t \in {"reply", "exception"} : process(t)
process_BatchDyeingLan ==
  serving.method = "BatchDyeingLan" /\ \E t \in {"reply", "exception"} : process(t)
------------------------------------------------------------------------------
(* The client: one thread that calls, and waits for the answer             *)

Connect ==
  /\ ~open /\ waiting = None
  /\ open' = TRUE
  /\ UNCHANGED <<up, down, serving, waiting, calls, last>>

send(method, lost) ==
  /\ open /\ waiting = None /\ calls < MaxCalls
  /\ calls' = calls + 1
  /\ waiting' = Message(method, "call", calls + 1, lost)
  /\ up' = Append(up, waiting')
  /\ UNCHANGED <<open, down, serving, last>>

\* Nothing, or one field of one level, is left out by the caller.
Lost(args) ==
  {{}} \union UNION {{{<<i, f>>} : f \in (args[i].fields \union {args[i].next}) \ {""}} :
                     i \in DOMAIN args}

dyeing         == \E lost \in Lost(dyeing_args) : send("dyeing", lost)
DyeingLan      == \E lost \in Lost(DyeingLan_args) : send("DyeingLan", lost)
BatchDyeing    == \E lost \in Lost(BatchDyeing_args) : send("BatchDyeing", lost)
BatchDyeingLan == \E lost \in Lost(BatchDyeingLan_args) : send("BatchDyeingLan", lost)
CallForeign    == send(Foreign, {})

\* An exception is thrown to the caller; a result is read, and returned when it
\* holds a success.  A message of another type or method would be skipped and
\* the result read behind it: no such message comes.  The client keeps the
\* connection after an exception.
recv ==
  /\ waiting # None /\ down # <<>>
  /\ LET m == Head(down) IN
       /\ m.type = "exception" \/ m.method = waiting.method
       /\ last' = [answer |-> m.type, number |-> m.number,
                   whole |-> m.type = "exception"
                             \/ read(processMap[m.method].result, m.lost)]
  /\ down' = Tail(down) /\ waiting' = None
  /\ UNCHANGED <<open, up, serving, calls>>

\* The connection went while the client waited: a TTransportException.
recvClosed ==
  /\ waiting # None /\ ~open
  /\ last' = [answer |-> "transport", number |-> calls, whole |-> FALSE]
  /\ waiting' = None
  /\ UNCHANGED <<open, up, down, serving, calls>>

\* The network or the server's end fails.
Break ==
  /\ open /\ Disconnected
  /\ UNCHANGED <<waiting, calls, last>>

Init ==
  /\ open = FALSE /\ up = <<>> /\ down = <<>> /\ serving = None /\ waiting = None
  /\ calls = 0 /\ last = [answer |-> "transport", number |-> 0, whole |-> FALSE]

Next ==
  \/ Connect
  \/ dyeing \/ DyeingLan \/ BatchDyeing \/ BatchDyeingLan \/ CallForeign
  \/ dispatchCall
  \/ process_dyeing \/ process_DyeingLan \/ process_BatchDyeing \/ process_BatchDyeingLan
  \/ recv \/ recvClosed \/ Break

Process == process_dyeing \/ process_DyeingLan \/ process_BatchDyeing \/ process_BatchDyeingLan

\* The threads of the server run, the handler returns, and the client's thread
\* takes what has come.
Fairness ==
  /\ WF_vars(dispatchCall) /\ WF_vars(Process)
  /\ WF_vars(recv) /\ WF_vars(recvClosed)

Spec == Init /\ [][Next]_vars /\ Fairness
------------------------------------------------------------------------------
TypeOK ==
  /\ open \in BOOLEAN /\ calls \in 0 .. MaxCalls
  /\ {up[i].method : i \in DOMAIN up} \subseteq Methods \union {Foreign}
  /\ {down[i].type : i \in DOMAIN down} \subseteq {"reply", "exception"}
  /\ serving.method \in Methods \union {"none"}
  /\ waiting.method \in Methods \union {Foreign, "none"}
  /\ last.answer \in {"reply", "exception", "transport"}

\* The answer of a call is that to this call, whatever came of the calls before
\* it (unknown method, exception, connection broken half-way), though nothing
\* on the wire tells one call from another.
OwnAnswer == waiting = None => last.number = calls /\ (last.answer = "reply" => last.whole)

\* A call the server can read comes back to its caller, though the socket has no
\* timeout.  One it cannot read comes back only if the connection breaks.
Answered == waiting # None /\ Readable(waiting) ~> waiting = None
==============================================================================
