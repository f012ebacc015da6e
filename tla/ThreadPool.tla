------------------------------ MODULE ThreadPool ------------------------------
(***************************************************************************)
(* INV_ThreadPool and its workers (src/common/inutil/inv_thread_pool.cpp), *)
(* INV_Thread (inv_thread.cpp) which starts and joins them, and the job    *)
(* queue they share (ThreadQueue).                                         *)
(*                                                                         *)
(* One thread, the user, calls init, start, exec, waitForAllDone and stop. *)
(* Each worker runs the start functor, then takes jobs, waiting up to a    *)
(* second for one, until its _bTerminate is set; a worker that leaves      *)
(* clears the job queue.                                                   *)
(***************************************************************************)
EXTENDS Naturals, SequencesExt

CONSTANTS
  NWorkers,   \* size of _jobthread
  Jobs,       \* what is given to exec, each once
  MaxStarts,  \* bound on calls of start()
  None        \* no job

\* The pool has some workers, gets finitely many jobs, and None is no job.
ASSUME PoolAssumption ==
  NWorkers \in Nat /\ MaxStarts \in Nat /\ IsFiniteSet(Jobs) /\ None \notin Jobs

VARIABLES
  queue, size, call, wait, swapped,  \* _jobqueue
  startq,     \* functors in _startqueue
  busy,       \* _busthread
  allDone,    \* _bAllDone
  term,       \* per worker: _bTerminate
  running,    \* per worker: _running of its INV_Thread
  pc,         \* per worker: where its thread is
  hand,       \* per worker: the job it has popped
  user,       \* what the user is in
  cur,        \* the worker its start() or stop() is at
  fresh,      \* jobs never given to exec
  ran,        \* jobs that were run
  dropped,    \* jobs that a leaving worker cleared away
  early,      \* workers whose start() returned before their thread ran
  starts      \* calls of start()

Workers  == 1 .. NWorkers

jqVars   == <<queue, size, call, wait, swapped>>
poolVars == <<startq, busy, allDone>>
workVars == <<term, running, pc, hand>>
userVars == <<user, cur, early, starts>>
jobVars  == <<fresh, ran, dropped>>
vars == <<jqVars, poolVars, workVars, userVars, jobVars>>

JQ == INSTANCE ThreadQueue WITH Threads <- Workers, Items <- Jobs, MaxSize <- Cardinality(Jobs)

Init ==
  /\ JQ!Init
  /\ startq = 0 /\ busy = {} /\ allDone = TRUE
  /\ term = [w \in Workers |-> FALSE]
  /\ running = [w \in Workers |-> FALSE]
  /\ pc = [w \in Workers |-> "none"]
  /\ hand = [w \in Workers |-> None]
  /\ user = "free" /\ cur = 1
  /\ fresh = Jobs /\ ran = {} /\ dropped = {}
  /\ early = {} /\ starts = 0

Gone(w) == pc[w] \in {"none", "gone"}
------------------------------------------------------------------------------
(* The user.                                                               *)

\* exec(tf)
Exec(j) ==
  /\ user = "free" /\ j \in fresh
  /\ JQ!PushBack(j)
  /\ fresh' = fresh \ {j}
  /\ UNCHANGED <<poolVars, workVars, userVars, ran, dropped>>

\* start(tf) first queues a functor per worker, start() does not.  A second start
\* while a thread runs throws and is not called.
Start ==
  /\ user = "free" /\ starts < MaxStarts
  /\ \A w \in Workers : Gone(w)
  /\ startq' \in {startq, startq + Cardinality(Workers)}
  /\ user' = "starting" /\ cur' = 1
  /\ early' = {}
  /\ starts' = starts + 1
  /\ UNCHANGED <<jqVars, busy, allDone, workVars, jobVars>>

\* INV_Thread::start: pthread_create, then one wait() for the new thread.
Create ==
  /\ user = "starting" /\ cur \in Workers
  /\ pc' = [pc EXCEPT ![cur] = "entry"]
  /\ user' = "awaiting"
  /\ UNCHANGED <<jqVars, poolVars, term, running, hand, jobVars, cur, early, starts>>

\* The wait() ends: the thread has notified it, or for no reason.
Created ==
  /\ user = "awaiting"
  /\ early' = IF pc[cur] = "entry" THEN early \cup {cur} ELSE early
  /\ user' = "starting" /\ cur' = cur + 1
  /\ UNCHANGED <<jqVars, poolVars, workVars, jobVars, starts>>

StartEnds ==
  /\ user = "starting" /\ cur \notin Workers
  /\ allDone' = FALSE
  /\ user' = "free"
  /\ UNCHANGED <<jqVars, startq, busy, workVars, jobVars, cur, early, starts>>

\* stop(), and init() which begins with it.
Stop ==
  /\ user = "free"
  /\ user' = "stopping" /\ cur' = 1
  /\ UNCHANGED <<jqVars, poolVars, workVars, jobVars, early, starts>>

\* terminate() sets the flag and wakes the workers of the queue; then join().
Terminate ==
  /\ user = "stopping" /\ cur \in Workers
  /\ IF running[cur]
     THEN /\ term' = [term EXCEPT ![cur] = TRUE]
          /\ JQ!NotifyT
          /\ user' = "joining" /\ UNCHANGED cur
     ELSE cur' = cur + 1 /\ UNCHANGED <<jqVars, term, user>>
  /\ UNCHANGED <<poolVars, running, pc, hand, jobVars, early, starts>>

\* MUTANT of Joined: the thread is not waited for.
NotJoined ==
  /\ user = "joining"
  /\ user' = "stopping" /\ cur' = cur + 1
  /\ UNCHANGED <<jqVars, poolVars, workVars, jobVars, early, starts>>

Joined ==
  /\ user = "joining" /\ pc[cur] = "gone"
  /\ user' = "stopping" /\ cur' = cur + 1
  /\ UNCHANGED <<jqVars, poolVars, workVars, jobVars, early, starts>>

\* stop() leaves the old workers; init() goes on to make new ones, whose flag is
\* down (it is not called while a thread stop() overlooked still runs).
StopEnds ==
  /\ user = "stopping" /\ cur \notin Workers
  /\ allDone' = TRUE
  /\ \/ UNCHANGED <<busy, term>>
     \/ /\ \A w \in Workers : Gone(w)
        /\ busy' = {} /\ term' = [w \in Workers |-> FALSE]
  /\ user' = "free"
  /\ UNCHANGED <<jqVars, startq, running, pc, hand, jobVars, cur, early, starts>>

\* MUTANT of Finish: the job queue is not looked at.
FinishNoQueue == startq = 0 /\ busy = {} /\ allDone

\* finish()
Finish == startq = 0 /\ queue = <<>> /\ busy = {} /\ allDone

\* waitForAllDone(-1) looks again at least every second; with a time it gives up.
WaitForAllDone ==
  /\ user = "free"
  /\ user' \in {"waiting", "waitingFor"}
  /\ UNCHANGED <<jqVars, poolVars, workVars, jobVars, cur, early, starts>>

AllDone ==
  /\ user \in {"waiting", "waitingFor"} /\ Finish
  /\ user' = "free"
  /\ UNCHANGED <<jqVars, poolVars, workVars, jobVars, cur, early, starts>>

GiveUp ==
  /\ user = "waitingFor" /\ ~Finish
  /\ user' = "free"
  /\ UNCHANGED <<jqVars, poolVars, workVars, jobVars, cur, early, starts>>
------------------------------------------------------------------------------
(* The thread of worker w.                                                 *)

\* threadEntry: the flag goes up and whoever started it is notified.
Entry(w) ==
  /\ pc[w] = "entry"
  /\ (user = "awaiting" /\ cur = w) \/ w \in early
  /\ running' = [running EXCEPT ![w] = TRUE]
  /\ pc' = [pc EXCEPT ![w] = "boot"]
  /\ UNCHANGED <<jqVars, poolVars, term, hand, userVars, jobVars>>

\* MUTANT of Boot: the start queue is taken to hold a functor.
BootUnchecked(w) ==
  /\ pc[w] = "boot"
  /\ startq' = startq - 1
  /\ pc' = [pc EXCEPT ![w] = "loop"]
  /\ UNCHANGED <<jqVars, busy, allDone, term, running, hand, userVars, jobVars>>

\* get(): a start functor, if there is one, is run first.
Boot(w) ==
  /\ pc[w] = "boot"
  /\ startq' = IF startq > 0 THEN startq - 1 ELSE 0
  /\ pc' = [pc EXCEPT ![w] = "loop"]
  /\ UNCHANGED <<jqVars, busy, allDone, term, running, hand, userVars, jobVars>>

\* MUTANT of PopTime: wait until there is a job.
PopForever == "forever"

PopTime == "timed"

\* What pop_front gives w: the first job, and then w holds it, or nothing.
Receives(w) ==
  IF queue # <<>>
  THEN hand' = [hand EXCEPT ![w] = Head(queue)] /\ pc' = [pc EXCEPT ![w] = "holds"]
  ELSE pc' = [pc EXCEPT ![w] = "loop"] /\ UNCHANGED hand

\* while (!_bTerminate)
GoesOn(w) ==
  /\ pc[w] = "loop" /\ ~term[w]
  /\ pc' = [pc EXCEPT ![w] = "get"]
  /\ UNCHANGED <<jqVars, poolVars, term, running, hand, userVars, jobVars>>

\* get(ptw): pop_front with 1000 ms.  A terminate() since the flag was looked at
\* has notified nobody.
Pop(w) ==
  /\ pc[w] = "get"
  /\ \/ JQ!CallNow(w, "pop", PopTime, <<>>) /\ Receives(w)
     \/ JQ!CallBlocks(w, "pop", PopTime) /\ pc' = [pc EXCEPT ![w] = "pop"] /\ UNCHANGED hand
  /\ UNCHANGED <<poolVars, term, running, userVars, jobVars>>

WakeUp(w) ==
  /\ pc[w] = "pop"
  /\ JQ!Deadline(w) \/ JQ!Spurious(w)
  /\ UNCHANGED <<poolVars, workVars, userVars, jobVars>>

PopEnds(w) ==
  /\ pc[w] = "pop"
  /\ JQ!Wake(w, <<>>)
  /\ IF wait[w] = "deadline" THEN pc' = [pc EXCEPT ![w] = "loop"] /\ UNCHANGED hand
                              ELSE Receives(w)
  /\ UNCHANGED <<poolVars, term, running, userVars, jobVars>>

\* The rest of get(ptw): the worker is counted among the busy ones.
Count(w) ==
  /\ pc[w] = "holds"
  /\ busy' = busy \cup {w}
  /\ pc' = [pc EXCEPT ![w] = "runs"]
  /\ UNCHANGED <<jqVars, startq, allDone, term, running, hand, userVars, jobVars>>

\* MUTANT of Run: the functor stays in the worker's hand.
RunKeeps(w) ==
  /\ pc[w] = "runs"
  /\ ran' = ran \cup {hand[w]}
  /\ pc' = [pc EXCEPT ![w] = "idle"]
  /\ UNCHANGED <<jqVars, poolVars, term, running, hand, userVars, fresh, dropped>>

\* The job ends, or throws, which is caught.
Run(w) ==
  /\ pc[w] = "runs"
  /\ ran' = ran \cup {hand[w]}
  /\ hand' = [hand EXCEPT ![w] = None]
  /\ pc' = [pc EXCEPT ![w] = "idle"]
  /\ UNCHANGED <<jqVars, poolVars, term, running, userVars, fresh, dropped>>

\* MUTANT of Idle: the last worker does not say that all is done.
IdleSilent(w) ==
  /\ pc[w] = "idle"
  /\ busy' = busy \ {w}
  /\ pc' = [pc EXCEPT ![w] = "loop"]
  /\ UNCHANGED <<jqVars, startq, allDone, term, running, hand, userVars, jobVars>>

\* idle(ptw)
Idle(w) ==
  /\ pc[w] = "idle"
  /\ busy' = busy \ {w}
  /\ allDone' = (allDone \/ busy' = {})
  /\ pc' = [pc EXCEPT ![w] = "loop"]
  /\ UNCHANGED <<jqVars, startq, term, running, hand, userVars, jobVars>>

\* MUTANT of Leave: the job queue is left as it is.
LeaveQueue(w) ==
  /\ pc[w] = "loop" /\ term[w]
  /\ pc' = [pc EXCEPT ![w] = "leaving"]
  /\ UNCHANGED <<jqVars, poolVars, term, running, hand, userVars, jobVars>>

\* exit() clears the job queue of the pool.
Leave(w) ==
  /\ pc[w] = "loop" /\ term[w]
  /\ JQ!Clear
  /\ dropped' = dropped \cup ToSet(queue)
  /\ pc' = [pc EXCEPT ![w] = "leaving"]
  /\ UNCHANGED <<poolVars, term, running, hand, userVars, fresh, ran>>

\* run() is back in threadEntry: the flag goes down and the thread ends.
End(w) ==
  /\ pc[w] = "leaving"
  /\ running' = [running EXCEPT ![w] = FALSE]
  /\ pc' = [pc EXCEPT ![w] = "gone"]
  /\ UNCHANGED <<jqVars, poolVars, term, hand, userVars, jobVars>>

User ==
  \/ \E j \in Jobs : Exec(j)
  \/ Start \/ Stop \/ WaitForAllDone

\* What a call the user has made does next.
UserGoesOn ==
  \/ Create \/ Created \/ StartEnds \/ Terminate \/ Joined \/ StopEnds \/ AllDone \/ GiveUp

Worker(w) ==
  \/ Entry(w) \/ Boot(w) \/ GoesOn(w) \/ Pop(w) \/ PopEnds(w)
  \/ Count(w) \/ Run(w) \/ Idle(w) \/ Leave(w) \/ End(w)

Next ==
  \/ User \/ UserGoesOn
  \/ \E w \in Workers : Worker(w) \/ WakeUp(w)

Spec == Init /\ [][Next]_vars

\* A call the user has made goes on, threads run, and a deadline passes.
Fairness ==
  /\ WF_vars(UserGoesOn)
  /\ \A w \in Workers : WF_vars(Worker(w)) /\ WF_vars(pc[w] = "pop" /\ JQ!Deadline(w) /\ WakeUp(w))

FairSpec == Spec /\ Fairness
------------------------------------------------------------------------------
\* State of the pool, its workers and its user.
TypeOK ==
  /\ JQ!TypeOK
  /\ startq \in Nat /\ busy \subseteq Workers /\ allDone \in BOOLEAN
  /\ term \in [Workers -> BOOLEAN] /\ running \in [Workers -> BOOLEAN]
  /\ pc \in [Workers -> {"none", "entry", "boot", "loop", "get", "pop", "holds", "runs", "idle",
                         "leaving", "gone"}]
  /\ hand \in [Workers -> Jobs \cup {None}]
  /\ user \in {"free", "starting", "awaiting", "stopping", "joining", "waiting", "waitingFor"}
  /\ cur \in 1 .. NWorkers + 1
  /\ fresh \subseteq Jobs /\ ran \subseteq Jobs /\ dropped \subseteq Jobs
  /\ early \subseteq Workers /\ starts \in 0 .. MaxStarts

Queued == ToSet(queue)
Held   == {j \in Jobs : \E w \in Workers : hand[w] = j}

\* A job handed in is queued, in the hands of a worker, run or cleared away, and
\* only one of these: none is lost and none is run twice.
JobsKept ==
  /\ Jobs = fresh \cup Queued \cup Held \cup ran \cup dropped
  /\ Cardinality(fresh) + Len(queue) + Cardinality({w \in Workers : hand[w] # None})
       + Cardinality(ran) + Cardinality(dropped) = Cardinality(Jobs)

\* What waitForAllDone(-1) may overlook when it returns true: only a job a worker
\* has popped and not yet counted itself busy for.
OnlyPoppedOverlooked ==
  [][AllDone => Queued = {} /\ \A w \in Workers : hand[w] # None => pc[w] = "holds"]_vars

\* The comment of waitForAllDone: "true, 所有工作都处理完毕" (all work is done).
AllDoneMeansDone == [][AllDone => Queued \cup Held = {}]_vars

\* After stop() no worker runs, unless its start() came back before its thread did.
StopQuiet == [][StopEnds => \A w \in Workers \ early : Gone(w)]_vars

\* A queued job is taken or cleared away as long as a worker is there that has not
\* yet cleared the queue.  (Alive is not enough: a job given to exec() between the
\* exit() of the last worker, inv_thread_pool.cpp:91, and the end of its thread,
\* inv_thread.cpp:86, stays in the queue although isAlive() still says that it runs.
\* That happens after stop() and start() without init(): _bTerminate is still up.)
JobsTaken ==
  \A j \in Jobs :
    (j \in Queued /\ \E w \in Workers : running[w] /\ pc[w] # "leaving") ~> j \notin Queued

\* start() and stop() come back, whatever the workers are doing.
CallsReturn == user \in {"starting", "stopping"} ~> user = "free"

\* waitForAllDone(-1) comes back when a worker is there and all was done before,
\* or there is a job to do.  (After start() alone it does not: _bAllDone is false
\* until a first job has been run.  Nor after stop() and start() without init():
\* _bTerminate is still up, the new threads leave at once and clear the queue.)
WaitReturns ==
  (/\ user = "waiting" /\ (allDone \/ Queued \cup Held # {})
   /\ \E w \in Workers : running[w] /\ ~term[w]) ~> user = "free"
==============================================================================
