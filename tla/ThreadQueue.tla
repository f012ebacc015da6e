----------------------------- MODULE ThreadQueue -----------------------------
(***************************************************************************)
(* INV_ThreadQueue (src/common/inutil/util/inv_thread_queue.h) over        *)
(* INV_Monitor (inv_monitor.h) and INV_ThreadCond (inv_thread_cond.h).     *)
(*                                                                         *)
(* Every operation holds the monitor from its first to its last line, so   *)
(* it is one step, except where it waits: a pop or a swap of an empty      *)
(* queue blocks, once, and looks at the queue again when it wakes up, by   *)
(* an event, by its deadline or for no reason.  INV_Monitor keeps the      *)
(* notifications of an operation and sends them when it unlocks.           *)
(***************************************************************************)
EXTENDS Naturals, SequencesExt

CONSTANTS
  Threads,   \* threads that pop and swap
  Items,     \* what is put
  MaxSize    \* bound: what _size may count when something is put

ThreadsAssumption == IsFiniteSet(Threads)

VARIABLES
  queue,     \* _queue
  size,      \* _size
  call,      \* per thread: the call it is blocked in
  wait,      \* per thread: "no", "blocked", "event" or "deadline"
  swapped    \* whether swap() ever took anything

vars == <<queue, size, call, wait, swapped>>

Calls    == {"pop", "swap"}
Timeouts == {"now", "timed", "forever"}   \* millsecond: 0, n, -1
Blocked  == {t \in Threads : wait[t] = "blocked"}
Woken    == {t \in Threads : wait[t] = "event"}
Idle(t)  == wait[t] = "no"

\* INV_Monitor::notifyImpl: n signals, each wakes a blocked thread if there is one.
Signal(n) ==
  \E S \in SUBSET Blocked :
    /\ Cardinality(S) = IF n < Cardinality(Blocked) THEN n ELSE Cardinality(Blocked)
    /\ wait' = [t \in Threads |-> IF t \in S THEN "event" ELSE wait[t]]

Init ==
  /\ queue = <<>>
  /\ size = 0
  /\ call = [t \in Threads |-> <<"none", "now">>]
  /\ wait = [t \in Threads |-> "no"]
  /\ swapped = FALSE

\* The items s arrive and make the queue q: one notification each.
PutAll(s, q) ==
  /\ queue' = q
  /\ size' = size + Len(s)
  /\ Signal(Len(s))
  /\ UNCHANGED <<call, swapped>>

PushBack(x)       == PutAll(<<x>>, Append(queue, x))
PushFront(x)      == PutAll(<<x>>, <<x>> \o queue)
PushBackAll(s)    == PutAll(s, queue \o s)
PushFrontAll(s)   == PutAll(s, Reverse(s) \o queue)

\* notifyT(): all the blocked threads wake up.
NotifyT == Signal(Cardinality(Threads)) /\ UNCHANGED <<queue, size, call, swapped>>

\* The end of pop_front(), which asserts that _size > 0.
Take ==
  /\ queue # <<>>
  /\ queue' = Tail(queue)
  /\ size' = size - 1
  /\ UNCHANGED swapped

\* The end of swap(q): the two are exchanged, and _size is read from q after it.
Exchange(q) ==
  /\ queue # <<>>
  /\ queue' = q
  /\ size' = Len(queue)
  /\ swapped' = TRUE

\* The call c finds items, or returns false.
Finish(c, q) ==
  \/ c = "pop"  /\ Take
  \/ c = "swap" /\ Exchange(q)
  \/ queue = <<>> /\ UNCHANGED <<queue, size, swapped>>

\* pop_front(t, ms) and swap(q, ms) that need not wait.
CallNow(t, c, ms, q) ==
  /\ Idle(t)
  /\ queue # <<>> \/ ms = "now"
  /\ Finish(c, q)
  /\ UNCHANGED <<call, wait>>

CallBlocks(t, c, ms) ==
  /\ Idle(t) /\ queue = <<>> /\ ms # "now"
  /\ call' = [call EXCEPT ![t] = <<c, ms>>]
  /\ wait' = [wait EXCEPT ![t] = "blocked"]
  /\ UNCHANGED <<queue, size, swapped>>

\* pthread_cond_wait may return without a signal.
Spurious(t) ==
  /\ wait[t] = "blocked"
  /\ wait' = [wait EXCEPT ![t] = "event"]
  /\ UNCHANGED <<queue, size, call, swapped>>

Deadline(t) ==
  /\ wait[t] = "blocked" /\ call[t][2] = "timed"
  /\ wait' = [wait EXCEPT ![t] = "deadline"]
  /\ UNCHANGED <<queue, size, call, swapped>>

\* The thread has the mutex again: after its deadline the call gives up whatever
\* the queue holds, after an event it looks at the queue once.
Wake(t, q) ==
  /\ wait[t] \in {"event", "deadline"}
  /\ IF wait[t] = "deadline" THEN UNCHANGED <<queue, size, swapped>> ELSE Finish(call[t][1], q)
  /\ wait' = [wait EXCEPT ![t] = "no"]
  /\ call' = [call EXCEPT ![t] = <<"none", "now">>]

Clear ==
  /\ queue' = <<>>
  /\ size' = 0
  /\ UNCHANGED <<call, wait, swapped>>

Put ==
  \/ \E x \in Items : size < MaxSize /\ (PushBack(x) \/ PushFront(x))
  \/ \E x, y \in Items : size + 1 < MaxSize /\ (PushBackAll(<<x, y>>) \/ PushFrontAll(<<x, y>>))

\* The caller's q is empty in the one place that swaps (INV_LoggerRoll::flush).
Next ==
  \/ Put \/ NotifyT \/ Clear
  \/ \E t \in Threads, c \in Calls, ms \in Timeouts :
       CallNow(t, c, ms, <<>>) \/ CallBlocks(t, c, ms)
  \/ \E t \in Threads : Spurious(t) \/ Deadline(t) \/ Wake(t, <<>>)

Spec == Init /\ [][Next]_vars
------------------------------------------------------------------------------
\* State of the queue and of the threads in it.
TypeOK ==
  /\ queue \in Seq(Items)
  /\ size \in Nat
  /\ call \in [Threads -> (Calls \cup {"none"}) \X Timeouts]
  /\ wait \in [Threads -> {"no", "blocked", "event", "deadline"}]
  /\ swapped \in BOOLEAN

\* No wake-up is lost: if a thread is blocked while there are items, at least as
\* many others have been woken as there are items to take.
NoLostWakeup == queue # <<>> /\ Blocked # {} => Cardinality(Woken) >= Len(queue)

\* size() is the length of the queue (its comment: "队列大小") as long as nobody
\* has called swap(), which leaves in _size the number of items it took away.
SizeExact == ~swapped => size = Len(queue)

\* What the comment of size() says, without the exception.
SizeIsLength == size = Len(queue)
==============================================================================
