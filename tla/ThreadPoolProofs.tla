--------------------------- MODULE ThreadPoolProofs ---------------------------
(***************************************************************************)
(* Proofs about ThreadPool, for any number of workers, jobs and starts:    *)
(* the types; every job is in one place and is counted once; waitForAllDone*)
(* overlooks at most a job that is popped and not yet counted; after       *)
(* stop() no worker runs whose start() waited for it.                      *)
(***************************************************************************)
EXTENDS ThreadPool, FiniteSetTheorems, TLAPS

\* The queue's counter is its length, and the pool never swaps.
QueueExact ==
  /\ JQ!TypeOK
  /\ size = Len(queue)
  /\ \A w \in Workers : call[w][1] # "swap"

\* The variables of the pool, its workers and its user have their types; the user
\* starts, or joins, a worker there is.
PoolTypes ==
  /\ startq \in Nat /\ busy \subseteq Workers
  /\ pc \in [Workers -> {"none", "entry",
                         "boot", "loop", "get", "pop", "holds", "runs", "idle",
                         "leaving", "gone"}]
  /\ hand \in [Workers -> Jobs \cup {None}]
  /\ user \in {"free", "starting", "awaiting", "stopping", "joining", "waiting", "waitingFor"}
  /\ cur \in 1 .. NWorkers + 1
  /\ fresh \subseteq Jobs /\ ran \subseteq Jobs /\ dropped \subseteq Jobs
  /\ early \subseteq Workers /\ starts \in 0 .. MaxStarts
  /\ user \in {"awaiting", "joining"} => cur \in Workers

\* The flags are Booleans.
FlagTypes ==
  allDone \in BOOLEAN /\ term \in [Workers -> BOOLEAN] /\ running \in [Workers -> BOOLEAN]

\* A worker has a job in its hand from the pop to the end of the run.
HandsFull == \A w \in Workers : hand[w] # None <=> pc[w] \in {"holds", "runs"}

\* A worker that runs a job is counted as busy.
RunnersBusy == \A w \in Workers : pc[w] = "runs" => w \in busy

\* start() has nothing to do yet with the workers ahead of it.
StartingAhead ==
  /\ user = "starting" => \A w \in Workers : w >= cur => Gone(w)
  /\ user = "awaiting" => \A w \in Workers : w > cur => Gone(w)

\* _running is up from the entry of the thread to its end.
RunningInside ==
  \A w \in Workers :
    running[w] <=>
      pc[w] \in {"boot", "loop", "get", "pop", "holds", "runs", "idle", "leaving"}

\* A thread that has not begun is the one start() waits for, or one it did not.
EntryAwaited ==
  \A w \in Workers : pc[w] = "entry" => w \in early \/ (user = "awaiting" /\ cur = w)

\* Behind stop() no worker runs, but those start() did not wait for.
StoppedBehind ==
  user \in {"stopping", "joining"} => \A w \in Workers : w < cur => Gone(w) \/ w \in early

\* No item is twice in s.
Distinct(s) == \A i, k \in DOMAIN s : s[i] = s[k] => i = k

\* A job is in one place, and once in it.
JobsOnce ==
  /\ Jobs = fresh \cup Queued \cup Held \cup ran \cup dropped
  /\ Distinct(queue)
  /\ \A v, w \in Workers : hand[v] = hand[w] /\ hand[v] # None => v = w
  /\ fresh \cap Queued = {} /\ fresh \cap Held = {}
  /\ fresh \cap ran = {} /\ fresh \cap dropped = {}
  /\ Queued \cap Held = {} /\ Queued \cap ran = {} /\ Queued \cap dropped = {}
  /\ Held \cap ran = {} /\ Held \cap dropped = {} /\ ran \cap dropped = {}

\* The inductive invariant.
PoolInv ==
  /\ QueueExact /\ PoolTypes /\ FlagTypes
  /\ HandsFull /\ RunnersBusy /\ StartingAhead /\ RunningInside
  /\ EntryAwaited /\ StoppedBehind
  /\ JobsOnce

------------------------------------------------------------------------------
(* The operations of the queue.                                            *)

\* A signal keeps the type of the waits.
LEMMA SignalKeeps ==
  ASSUME NEW n, JQ!Signal(n), QueueExact
  PROVE  wait' \in [Workers -> {"no", "blocked", "event", "deadline"}]
<1>1. PICK S \in SUBSET JQ!Blocked :
        wait' = [t \in Workers |-> IF t \in S THEN "event" ELSE wait[t]]
  BY DEF JQ!Signal
<1> QED BY <1>1 DEF QueueExact, JQ!TypeOK

\* exec() appends a job.
LEMMA PushBackExact == ASSUME QueueExact, NEW j \in Jobs, JQ!PushBack(j) PROVE QueueExact'
<1>1. /\ queue' = Append(queue, j) /\ size' = size + Len(<<j>>) /\ JQ!Signal(Len(<<j>>))
      /\ UNCHANGED <<call, swapped>>
  BY DEF JQ!PushBack, JQ!PutAll
<1>2. wait' \in [Workers -> {"no", "blocked", "event", "deadline"}]
  BY <1>1, SignalKeeps
<1>3. queue' \in Seq(Jobs) /\ size' \in Nat /\ size' = Len(queue')
  BY <1>1 DEF QueueExact, JQ!TypeOK
<1> QED BY <1>1, <1>2, <1>3 DEF QueueExact, JQ!TypeOK

\* terminate() wakes the workers.
LEMMA NotifyExact == ASSUME QueueExact, JQ!NotifyT PROVE QueueExact'
<1>1. PICK n : JQ!Signal(n)
  BY DEF JQ!NotifyT
<1>2. wait' \in [Workers -> {"no", "blocked", "event", "deadline"}]
  BY <1>1, SignalKeeps
<1> QED BY <1>2 DEF QueueExact, JQ!TypeOK, JQ!NotifyT

\* What a pop makes of the queue: nothing when it is empty, else its tail.
LEMMA PopTakes ==
  ASSUME QueueExact, JQ!Finish("pop", <<>>)
  PROVE  /\ queue' = IF queue = <<>> THEN <<>> ELSE Tail(queue)
         /\ queue' \in Seq(Jobs) /\ size' \in Nat /\ size' = Len(queue') /\ UNCHANGED swapped
<1>1. /\ queue = <<>> => UNCHANGED <<queue, size, swapped>>
      /\ queue # <<>> => queue' = Tail(queue) /\ size' = size - 1 /\ UNCHANGED swapped
  BY DEF JQ!Finish, JQ!Take
<1>2. queue \in Seq(Jobs) /\ size = Len(queue) /\ size \in Nat
  BY DEF QueueExact, JQ!TypeOK
<1> QED BY <1>1, <1>2

\* A pop that need not wait, one that blocks, and the wake-ups.
LEMMA PopNowExact ==
  ASSUME QueueExact, NEW w \in Workers, JQ!CallNow(w, "pop", PopTime, <<>>)
  PROVE  QueueExact' /\ queue # <<>> /\ queue' = Tail(queue)
<1>1. JQ!Finish("pop", <<>>) /\ UNCHANGED <<call, wait>> /\ queue # <<>>
  BY DEF JQ!CallNow, PopTime
<1>2. /\ queue' = IF queue = <<>> THEN <<>> ELSE Tail(queue)
      /\ queue' \in Seq(Jobs) /\ size' \in Nat /\ size' = Len(queue') /\ UNCHANGED swapped
  BY <1>1, PopTakes
<1> QED BY <1>1, <1>2 DEF QueueExact, JQ!TypeOK

LEMMA PopBlocksExact ==
  ASSUME QueueExact, NEW w \in Workers, JQ!CallBlocks(w, "pop", PopTime)
  PROVE  QueueExact'
<1>1. /\ call' = [call EXCEPT ![w] = <<"pop", "timed">>] /\ wait' = [wait EXCEPT ![w] = "blocked"]
      /\ UNCHANGED <<queue, size, swapped>>
  BY DEF JQ!CallBlocks, PopTime
<1>2. <<"pop", "timed">> \in (JQ!Calls \cup {"none"}) \X JQ!Timeouts
  BY DEF JQ!Calls, JQ!Timeouts
<1>3. call' \in [Workers -> (JQ!Calls \cup {"none"}) \X JQ!Timeouts]
  BY <1>1, <1>2 DEF QueueExact, JQ!TypeOK
<1>4. wait' \in [Workers -> {"no", "blocked", "event", "deadline"}]
  BY <1>1 DEF QueueExact, JQ!TypeOK
<1>5. \A v \in Workers : call'[v][1] # "swap"
  <2>1. call \in [Workers -> (JQ!Calls \cup {"none"}) \X JQ!Timeouts]
    BY DEF QueueExact, JQ!TypeOK
  <2>2. \A v \in Workers : call'[v] = IF v = w THEN <<"pop", "timed">> ELSE call[v]
    BY <1>1, <2>1
  <2> QED BY <2>2 DEF QueueExact
<1> QED BY <1>1, <1>3, <1>4, <1>5 DEF QueueExact, JQ!TypeOK

LEMMA WakeUpExact ==
  ASSUME QueueExact, NEW w \in Workers, JQ!Deadline(w) \/ JQ!Spurious(w)
  PROVE  QueueExact' /\ queue' = queue
<1>1. /\ wait' = [wait EXCEPT ![w] = "event"] \/ wait' = [wait EXCEPT ![w] = "deadline"]
      /\ UNCHANGED <<queue, size, call, swapped>>
  BY DEF JQ!Deadline, JQ!Spurious
<1> QED BY <1>1 DEF QueueExact, JQ!TypeOK

\* The end of a pop that waited.
LEMMA WakeExact ==
  ASSUME QueueExact, NEW w \in Workers, JQ!Wake(w, <<>>)
  PROVE  /\ QueueExact'
         /\ wait[w] = "deadline" => queue' = queue
         /\ wait[w] # "deadline" => queue' = IF queue = <<>> THEN <<>> ELSE Tail(queue)
<1>1. /\ call' = [call EXCEPT ![w] = <<"none", "now">>] /\ wait' = [wait EXCEPT ![w] = "no"]
      /\ wait[w] = "deadline" => UNCHANGED <<queue, size, swapped>>
      /\ wait[w] # "deadline" => JQ!Finish(call[w][1], <<>>)
  BY DEF JQ!Wake
<1>2. /\ queue \in Seq(Jobs) /\ size = Len(queue) /\ size \in Nat /\ swapped \in BOOLEAN
      /\ call \in [Workers -> (JQ!Calls \cup {"none"}) \X JQ!Timeouts]
      /\ wait \in [Workers -> {"no", "blocked", "event", "deadline"}]
      /\ \A v \in Workers : call[v][1] # "swap"
  BY DEF QueueExact, JQ!TypeOK
<1>3. /\ queue' \in Seq(Jobs) /\ size' \in Nat /\ size' = Len(queue') /\ UNCHANGED swapped
      /\ wait[w] = "deadline" => queue' = queue
      /\ wait[w] # "deadline" => queue' = IF queue = <<>> THEN <<>> ELSE Tail(queue)
  <2>1. CASE wait[w] = "deadline"
    BY <1>1, <1>2, <2>1
  <2>2. CASE wait[w] # "deadline"
    <3>1. call[w][1] = "pop" \/ (queue = <<>> /\ UNCHANGED <<queue, size, swapped>>)
      BY <1>1, <1>2, <2>2 DEF JQ!Finish
    <3>2. CASE call[w][1] = "pop"
      <4>1. JQ!Finish("pop", <<>>)
        BY <1>1, <2>2, <3>2
      <4> QED BY <4>1, <2>2, PopTakes
    <3>3. CASE queue = <<>> /\ UNCHANGED <<queue, size, swapped>>
      BY <1>2, <2>2, <3>3
    <3> QED BY <3>1, <3>2, <3>3
  <2> QED BY <2>1, <2>2
<1>4. <<"none", "now">> \in (JQ!Calls \cup {"none"}) \X JQ!Timeouts
  BY DEF JQ!Timeouts
<1>5. call' \in [Workers -> (JQ!Calls \cup {"none"}) \X JQ!Timeouts]
  BY <1>1, <1>2, <1>4
<1>6. wait' \in [Workers -> {"no", "blocked", "event", "deadline"}]
  BY <1>1, <1>2
<1>7. \A v \in Workers : call'[v] = IF v = w THEN <<"none", "now">> ELSE call[v]
  BY <1>1, <1>2
<1>8. \A v \in Workers : call'[v][1] # "swap"
  BY <1>2, <1>7
<1> QED BY <1>2, <1>3, <1>5, <1>6, <1>8 DEF QueueExact, JQ!TypeOK

\* A worker that leaves clears the queue.
LEMMA ClearExact == ASSUME QueueExact, JQ!Clear PROVE QueueExact' /\ queue' = <<>>
<1>1. queue' = <<>> /\ size' = 0 /\ UNCHANGED <<call, wait, swapped>>
  BY DEF JQ!Clear
<1>2. <<>> \in Seq(Jobs) /\ Len(<<>>) = 0
  OBVIOUS
<1> QED BY <1>1, <1>2 DEF QueueExact, JQ!TypeOK

\* There are NWorkers workers.
LEMMA WorkersFinite == IsFiniteSet(Workers) /\ Cardinality(Workers) \in Nat
<1>1. NWorkers \in Int /\ 1 \in Int
  BY PoolAssumption
<1>2. IsFiniteSet(1 .. NWorkers)
  BY <1>1, FS_Interval
<1> QED BY <1>2, FS_CardinalityType DEF Workers

------------------------------------------------------------------------------
(* The parts of the invariant, one by one.                                 *)

\* The parts of PoolInv as facts a leaf can use.
LEMMA InvParts ==
  ASSUME PoolInv
  PROVE  /\ NWorkers \in Nat /\ MaxStarts \in Nat /\ Workers = 1 .. NWorkers /\ None \notin Jobs
         /\ QueueExact /\ PoolTypes /\ FlagTypes /\ HandsFull /\ RunnersBusy
         /\ StartingAhead /\ RunningInside /\ EntryAwaited /\ StoppedBehind /\ JobsOnce
BY PoolAssumption DEF PoolInv, Workers

\* What a pop does to its worker: it has a job in hand, goes back to its loop, or
\* waits.
LEMMA PopMoves ==
  ASSUME PoolInv, NEW w \in Workers, Pop(w) \/ PopEnds(w)
  PROVE  /\ \/ \E j \in Jobs : hand' = [hand EXCEPT ![w] = j] /\ pc' = [pc EXCEPT ![w] = "holds"]
            \/ \E s \in {"loop", "pop"} : pc' = [pc EXCEPT ![w] = s] /\ UNCHANGED hand
         /\ pc[w] \in {"get", "pop"}
         /\ UNCHANGED <<startq, busy, allDone, term, running, user, cur, early, starts,
                       fresh, ran, dropped>>
<1>1. queue \in Seq(Jobs)
  BY InvParts DEF QueueExact, JQ!TypeOK
<1>2. queue # <<>> => Head(queue) \in Jobs
  BY <1>1
<1>3. Receives(w) =>
        \/ \E j \in Jobs : hand' = [hand EXCEPT ![w] = j] /\ pc' = [pc EXCEPT ![w] = "holds"]
        \/ pc' = [pc EXCEPT ![w] = "loop"] /\ UNCHANGED hand
  BY <1>2 DEF Receives
<1> QED BY <1>3 DEF Pop, PopEnds, poolVars, userVars, jobVars

\* The pool's variables keep their types.
LEMMA TypesStep == ASSUME PoolInv, [Next]_vars PROVE PoolTypes'
<1>1. CASE \E j \in Jobs : Exec(j)
  BY <1>1, InvParts DEF PoolTypes, Exec, poolVars, workVars, userVars, jobVars
<1>2. CASE Start
  <2>1. Cardinality(Workers) \in Nat
    BY WorkersFinite
  <2> QED BY <1>2, <2>1, InvParts DEF PoolTypes, Start, workVars, jobVars
<1>3. CASE Stop \/ WaitForAllDone \/ StartEnds \/ AllDone \/ GiveUp \/ UNCHANGED vars
  BY <1>3, InvParts DEF PoolTypes, Stop, WaitForAllDone, StartEnds, AllDone, GiveUp,
     vars, jqVars, poolVars, workVars, userVars, jobVars
<1>4. CASE Create \/ Created
  BY <1>4, InvParts DEF PoolTypes, Create, Created, poolVars, workVars, userVars, jobVars
<1>5. CASE Terminate
  BY <1>5, InvParts DEF PoolTypes, Terminate, poolVars, workVars, userVars, jobVars
<1>6. CASE Joined
  BY <1>6, InvParts DEF PoolTypes, Joined, poolVars, workVars, userVars, jobVars
<1>7. CASE StopEnds
  BY <1>7, InvParts DEF PoolTypes, StopEnds, poolVars, workVars, userVars, jobVars
<1>8. ASSUME NEW w \in Workers, Entry(w) \/ GoesOn(w) \/ WakeUp(w) \/ End(w) PROVE PoolTypes'
  BY <1>8, InvParts DEF PoolTypes, Entry, GoesOn, End, WakeUp, poolVars, workVars, userVars,
     jobVars
<1>9. ASSUME NEW w \in Workers, Boot(w) PROVE PoolTypes'
  BY <1>9, InvParts DEF PoolTypes, Boot, poolVars, workVars, userVars, jobVars
<1>10. ASSUME NEW w \in Workers, Pop(w) \/ PopEnds(w) PROVE PoolTypes'
  <2>1. /\ \/ \E j \in Jobs : hand' = [hand EXCEPT ![w] = j] /\ pc' = [pc EXCEPT ![w] = "holds"]
           \/ \E s \in {"loop", "pop"} : pc' = [pc EXCEPT ![w] = s] /\ UNCHANGED hand
        /\ UNCHANGED <<startq, busy, user, cur, early, starts, fresh, ran, dropped>>
    BY <1>10, PopMoves
  <2>2. hand' \in [Workers -> Jobs \cup {None}]
    BY <2>1, InvParts DEF PoolTypes
  <2>3. pc' \in [Workers -> {"none", "entry", "boot", "loop", "get", "pop", "holds", "runs", "idle",
                             "leaving", "gone"}]
    BY <2>1, InvParts DEF PoolTypes
  <2> QED BY <2>1, <2>2, <2>3, InvParts DEF PoolTypes
<1>11. ASSUME NEW w \in Workers, Count(w) \/ Idle(w) PROVE PoolTypes'
  BY <1>11, InvParts DEF PoolTypes, Count, Idle, poolVars, workVars, userVars, jobVars
<1>12. ASSUME NEW w \in Workers, Run(w) PROVE PoolTypes'
  <2>1. hand[w] \in Jobs
    BY <1>12, InvParts DEF PoolTypes, HandsFull, Run
  <2> QED BY <1>12, <2>1, InvParts DEF PoolTypes, Run, poolVars, userVars
<1>13. ASSUME NEW w \in Workers, Leave(w) PROVE PoolTypes'
  <2>1. ToSet(queue) \subseteq Jobs
    BY InvParts DEF QueueExact, JQ!TypeOK, ToSet
  <2> QED BY <1>13, <2>1, InvParts DEF PoolTypes, Leave, poolVars, userVars
<1> QED
  BY <1>1, <1>2, <1>3, <1>4, <1>5, <1>6, <1>7, <1>8, <1>9, <1>10, <1>11, <1>12, <1>13
     DEF Next, User, UserGoesOn, Worker

\* The flags stay Booleans.
LEMMA FlagsStep == ASSUME PoolInv, [Next]_vars PROVE FlagTypes'
<1>1. CASE (\E j \in Jobs : Exec(j)) \/ Start \/ Stop \/ WaitForAllDone \/ Create
            \/ Created \/ Joined \/ AllDone \/ GiveUp \/ UNCHANGED vars
  BY <1>1, InvParts DEF FlagTypes, Exec, Start, Stop, WaitForAllDone, Create, Created,
     Joined, AllDone, GiveUp, vars, jqVars, poolVars, workVars, userVars, jobVars
<1>2. CASE StartEnds
  BY <1>2, InvParts DEF FlagTypes, StartEnds, poolVars, workVars, userVars, jobVars
<1>3. CASE Terminate
  BY <1>3, InvParts DEF FlagTypes, Terminate, poolVars, workVars, userVars, jobVars
<1>4. CASE StopEnds
  BY <1>4, InvParts DEF FlagTypes, StopEnds, poolVars, workVars, userVars, jobVars
<1>5. ASSUME NEW w \in Workers, Entry(w) \/ Leave(w) \/ End(w) PROVE FlagTypes'
  BY <1>5, InvParts DEF FlagTypes, Entry, Leave, End, poolVars, workVars, userVars, jobVars
<1>6. ASSUME NEW w \in Workers, Boot(w) \/ GoesOn(w) \/ WakeUp(w) \/ Count(w)
            \/ Run(w) PROVE FlagTypes'
  BY <1>6, InvParts DEF FlagTypes, Boot, GoesOn, WakeUp, Count, Run, poolVars,
     workVars, userVars, jobVars
<1>7. ASSUME NEW w \in Workers, Pop(w) \/ PopEnds(w) PROVE FlagTypes'
  BY <1>7, InvParts, PopMoves DEF FlagTypes
<1>8. ASSUME NEW w \in Workers, Idle(w) PROVE FlagTypes'
  BY <1>8, InvParts DEF FlagTypes, Idle, poolVars, workVars, userVars, jobVars
<1> QED BY <1>1, <1>2, <1>3, <1>4, <1>5, <1>6, <1>7, <1>8 DEF Next, User, UserGoesOn, Worker

\* A hand is filled by a pop and emptied by the end of the run.
LEMMA HandsStep == ASSUME PoolInv, [Next]_vars PROVE HandsFull'
<1>1. CASE (\E j \in Jobs : Exec(j)) \/ Start \/ Stop \/ WaitForAllDone \/ Created
            \/ StartEnds \/ Joined \/ AllDone \/ GiveUp \/ UNCHANGED vars \/ Terminate \/ StopEnds
  BY <1>1, InvParts DEF HandsFull, PoolTypes, StartingAhead, Gone, Exec, Start, Stop,
     WaitForAllDone, Created, StartEnds, Joined, AllDone, GiveUp, vars, jqVars,
     Terminate, StopEnds, poolVars, workVars, userVars, jobVars
<1>2. CASE Create
  BY <1>2, InvParts DEF HandsFull, PoolTypes, StartingAhead, Gone, Create, poolVars,
     workVars, userVars, jobVars
<1>3. ASSUME NEW w \in Workers, Entry(w) \/ Boot(w) \/ GoesOn(w)
            \/ WakeUp(w) PROVE HandsFull'
  BY <1>3, InvParts DEF HandsFull, PoolTypes, StartingAhead, Gone, Entry, Boot, GoesOn,
     WakeUp, poolVars, workVars, userVars, jobVars
<1>4. ASSUME NEW w \in Workers, Pop(w) \/ PopEnds(w) PROVE HandsFull'
  BY <1>4, InvParts, PopMoves DEF HandsFull, PoolTypes, StartingAhead, Gone
<1>5. ASSUME NEW w \in Workers, Count(w) PROVE HandsFull'
  BY <1>5, InvParts DEF HandsFull, PoolTypes, StartingAhead, Gone, Count, poolVars,
     workVars, userVars, jobVars
<1>6. ASSUME NEW w \in Workers, Run(w) PROVE HandsFull'
  BY <1>6, InvParts DEF HandsFull, PoolTypes, StartingAhead, Gone, Run, poolVars,
     workVars, userVars, jobVars
<1>7. ASSUME NEW w \in Workers, Idle(w) \/ Leave(w) \/ End(w) PROVE HandsFull'
  BY <1>7, InvParts DEF HandsFull, PoolTypes, StartingAhead, Gone, Idle, Leave, End,
     poolVars, workVars, userVars, jobVars
<1> QED BY <1>1, <1>2, <1>3, <1>4, <1>5, <1>6, <1>7 DEF Next, User, UserGoesOn, Worker

\* Who runs has been counted, and init() forgets nobody who runs.
LEMMA RunnersStep == ASSUME PoolInv, [Next]_vars PROVE RunnersBusy'
<1>1. CASE (\E j \in Jobs : Exec(j)) \/ Start \/ Stop \/ WaitForAllDone \/ Created
            \/ StartEnds \/ Joined \/ AllDone \/ GiveUp \/ UNCHANGED vars \/ Terminate
  BY <1>1, InvParts DEF RunnersBusy, PoolTypes, Gone, Exec, Start, Stop,
     WaitForAllDone, Created, StartEnds, Joined, AllDone, GiveUp, vars, jqVars,
     Terminate, poolVars, workVars, userVars, jobVars
<1>2. CASE Create
  BY <1>2, InvParts DEF RunnersBusy, PoolTypes, Gone, Create, poolVars, workVars,
     userVars, jobVars
<1>3. CASE StopEnds
  BY <1>3, InvParts DEF RunnersBusy, PoolTypes, Gone, StopEnds, poolVars, workVars,
     userVars, jobVars
<1>4. ASSUME NEW w \in Workers, Entry(w) \/ Boot(w) \/ GoesOn(w)
            \/ WakeUp(w) PROVE RunnersBusy'
  BY <1>4, InvParts DEF RunnersBusy, PoolTypes, Gone, Entry, Boot, GoesOn, WakeUp,
     poolVars, workVars, userVars, jobVars
<1>5. ASSUME NEW w \in Workers, Pop(w) \/ PopEnds(w) PROVE RunnersBusy'
  BY <1>5, InvParts, PopMoves DEF RunnersBusy, PoolTypes, Gone
<1>6. ASSUME NEW w \in Workers, Count(w) PROVE RunnersBusy'
  BY <1>6, InvParts DEF RunnersBusy, PoolTypes, Gone, Count, poolVars, workVars,
     userVars, jobVars
<1>7. ASSUME NEW w \in Workers, Run(w) PROVE RunnersBusy'
  BY <1>7, InvParts DEF RunnersBusy, PoolTypes, Gone, Run, poolVars, workVars,
     userVars, jobVars
<1>8. ASSUME NEW w \in Workers, Idle(w) \/ Leave(w) \/ End(w) PROVE RunnersBusy'
  BY <1>8, InvParts DEF RunnersBusy, PoolTypes, Gone, Idle, Leave, End, poolVars, workVars,
     userVars, jobVars
<1> QED BY <1>1, <1>2, <1>3, <1>4, <1>5, <1>6, <1>7, <1>8 DEF Next, User, UserGoesOn, Worker

\* Only the entry and the end of a thread move its flag.
LEMMA RunningStep == ASSUME PoolInv, [Next]_vars PROVE RunningInside'
<1>1. CASE (\E j \in Jobs : Exec(j)) \/ Start \/ Stop \/ WaitForAllDone \/ Created
            \/ StartEnds \/ Joined \/ AllDone \/ GiveUp \/ UNCHANGED vars \/ Terminate \/ StopEnds
  BY <1>1, InvParts DEF RunningInside, PoolTypes, FlagTypes, StartingAhead, Gone, Exec,
     Start, Stop, WaitForAllDone, Created, StartEnds, Joined, AllDone, GiveUp, vars,
     jqVars, Terminate, StopEnds, poolVars, workVars, userVars, jobVars
<1>2. CASE Create
  BY <1>2, InvParts DEF RunningInside, PoolTypes, FlagTypes, StartingAhead, Gone,
     Create, poolVars, workVars, userVars, jobVars
<1>3. ASSUME NEW w \in Workers, Entry(w) PROVE RunningInside'
  BY <1>3, InvParts DEF RunningInside, PoolTypes, FlagTypes, StartingAhead, Gone,
     Entry, poolVars, workVars, userVars, jobVars
<1>4. ASSUME NEW w \in Workers, Boot(w) \/ GoesOn(w) \/ WakeUp(w) PROVE RunningInside'
  BY <1>4, InvParts DEF RunningInside, PoolTypes, FlagTypes, StartingAhead, Gone, Boot,
     GoesOn, WakeUp, poolVars, workVars, userVars, jobVars
<1>5. ASSUME NEW w \in Workers, Pop(w) \/ PopEnds(w) PROVE RunningInside'
  BY <1>5, InvParts, PopMoves DEF RunningInside, PoolTypes, FlagTypes, StartingAhead, Gone
<1>6. ASSUME NEW w \in Workers, Count(w) PROVE RunningInside'
  BY <1>6, InvParts DEF RunningInside, PoolTypes, FlagTypes, StartingAhead, Gone,
     Count, poolVars, workVars, userVars, jobVars
<1>7. ASSUME NEW w \in Workers, Run(w) PROVE RunningInside'
  BY <1>7, InvParts DEF RunningInside, PoolTypes, FlagTypes, StartingAhead, Gone, Run,
     poolVars, workVars, userVars, jobVars
<1>8. ASSUME NEW w \in Workers, Idle(w) PROVE RunningInside'
  BY <1>8, InvParts DEF RunningInside, PoolTypes, FlagTypes, StartingAhead, Gone, Idle,
     poolVars, workVars, userVars, jobVars
<1>9. ASSUME NEW w \in Workers, Leave(w) \/ End(w) PROVE RunningInside'
  BY <1>9, InvParts DEF RunningInside, PoolTypes, FlagTypes, StartingAhead, Gone,
     Leave, End, poolVars, workVars, userVars, jobVars
<1> QED
  BY <1>1, <1>2, <1>3, <1>4, <1>5, <1>6, <1>7, <1>8, <1>9 DEF Next, User, UserGoesOn,
     Worker

\* start() begins when all workers are gone and creates them in order.
LEMMA AheadStep == ASSUME PoolInv, [Next]_vars PROVE StartingAhead'
<1>1. CASE (\E j \in Jobs : Exec(j)) \/ Stop \/ WaitForAllDone \/ StartEnds \/ Joined
            \/ AllDone \/ GiveUp \/ UNCHANGED vars \/ Terminate \/ StopEnds
  BY <1>1, InvParts DEF StartingAhead, PoolTypes, Gone, Exec, Stop, WaitForAllDone,
     StartEnds, Joined, AllDone, GiveUp, vars, jqVars, Terminate, StopEnds, poolVars,
     workVars, userVars, jobVars
<1>2. CASE Start
  BY <1>2, InvParts DEF StartingAhead, PoolTypes, Gone, Start, poolVars, workVars,
     userVars, jobVars
<1>3. CASE Create
  BY <1>3, InvParts DEF StartingAhead, PoolTypes, Gone, Create, poolVars, workVars,
     userVars, jobVars
<1>4. CASE Created
  BY <1>4, InvParts DEF StartingAhead, PoolTypes, Gone, Created, poolVars, workVars,
     userVars, jobVars
<1>5. ASSUME NEW w \in Workers, Entry(w) PROVE StartingAhead'
  BY <1>5, InvParts DEF StartingAhead, PoolTypes, Gone, Entry, poolVars, workVars,
     userVars, jobVars
<1>6. ASSUME NEW w \in Workers, Boot(w) \/ GoesOn(w) \/ WakeUp(w) PROVE StartingAhead'
  BY <1>6, InvParts DEF StartingAhead, PoolTypes, Gone, Boot, GoesOn, WakeUp, poolVars,
     workVars, userVars, jobVars
<1>7. ASSUME NEW w \in Workers, Pop(w) \/ PopEnds(w) PROVE StartingAhead'
  BY <1>7, InvParts, PopMoves DEF StartingAhead, PoolTypes, Gone
<1>8. ASSUME NEW w \in Workers, Count(w) \/ Run(w) PROVE StartingAhead'
  BY <1>8, InvParts DEF StartingAhead, PoolTypes, Gone, Count, Run, poolVars, workVars,
     userVars, jobVars
<1>9. ASSUME NEW w \in Workers, Idle(w) \/ Leave(w) \/ End(w) PROVE StartingAhead'
  BY <1>9, InvParts DEF StartingAhead, PoolTypes, Gone, Idle, Leave, End, poolVars,
     workVars, userVars, jobVars
<1> QED
  BY <1>1, <1>2, <1>3, <1>4, <1>5, <1>6, <1>7, <1>8, <1>9 DEF Next, User, UserGoesOn,
     Worker

\* A start() that comes back before the thread notes it in early.
LEMMA EntryStep == ASSUME PoolInv, [Next]_vars PROVE EntryAwaited'
<1>1. CASE (\E j \in Jobs : Exec(j)) \/ Start \/ Stop \/ WaitForAllDone \/ StartEnds
            \/ Joined \/ AllDone \/ GiveUp \/ UNCHANGED vars \/ Terminate \/ StopEnds
  BY <1>1, InvParts DEF EntryAwaited, PoolTypes, Gone, Exec, Start, Stop,
     WaitForAllDone, StartEnds, Joined, AllDone, GiveUp, vars, jqVars, Terminate,
     StopEnds, poolVars, workVars, userVars, jobVars
<1>2. CASE Create
  BY <1>2, InvParts DEF EntryAwaited, PoolTypes, Gone, Create, poolVars, workVars,
     userVars, jobVars
<1>3. CASE Created
  BY <1>3, InvParts DEF EntryAwaited, PoolTypes, Gone, Created, poolVars, workVars,
     userVars, jobVars
<1>4. ASSUME NEW w \in Workers, Entry(w) PROVE EntryAwaited'
  BY <1>4, InvParts DEF EntryAwaited, PoolTypes, Gone, Entry, poolVars, workVars,
     userVars, jobVars
<1>5. ASSUME NEW w \in Workers, Boot(w) \/ GoesOn(w) \/ WakeUp(w) PROVE EntryAwaited'
  BY <1>5, InvParts DEF EntryAwaited, PoolTypes, Gone, Boot, GoesOn, WakeUp, poolVars,
     workVars, userVars, jobVars
<1>6. ASSUME NEW w \in Workers, Pop(w) \/ PopEnds(w) PROVE EntryAwaited'
  BY <1>6, InvParts, PopMoves DEF EntryAwaited, PoolTypes, Gone
<1>7. ASSUME NEW w \in Workers, Count(w) PROVE EntryAwaited'
  BY <1>7, InvParts DEF EntryAwaited, PoolTypes, Gone, Count, poolVars, workVars,
     userVars, jobVars
<1>8. ASSUME NEW w \in Workers, Run(w) PROVE EntryAwaited'
  BY <1>8, InvParts DEF EntryAwaited, PoolTypes, Gone, Run, poolVars, workVars,
     userVars, jobVars
<1>9. ASSUME NEW w \in Workers, Idle(w) \/ Leave(w) \/ End(w) PROVE EntryAwaited'
  BY <1>9, InvParts DEF EntryAwaited, PoolTypes, Gone, Idle, Leave, End, poolVars, workVars,
     userVars, jobVars
<1> QED
  BY <1>1, <1>2, <1>3, <1>4, <1>5, <1>6, <1>7, <1>8, <1>9 DEF Next, User, UserGoesOn,
     Worker

\* stop() goes past a worker when it is gone, or was never seen to run.
LEMMA StoppedStep == ASSUME PoolInv, [Next]_vars PROVE StoppedBehind'
<1>1. CASE (\E j \in Jobs : Exec(j)) \/ Start \/ Stop \/ WaitForAllDone \/ StartEnds
            \/ AllDone \/ GiveUp \/ UNCHANGED vars \/ StopEnds
  BY <1>1, InvParts DEF StoppedBehind, PoolTypes, Gone, RunningInside, EntryAwaited,
     Exec, Start, Stop, WaitForAllDone, StartEnds, AllDone, GiveUp, vars, jqVars,
     StopEnds, poolVars, workVars, userVars, jobVars
<1>2. CASE Create \/ Created
  BY <1>2, InvParts DEF StoppedBehind, PoolTypes, Gone, RunningInside, EntryAwaited,
     Create, Created, poolVars, workVars, userVars, jobVars
<1>3. CASE Terminate
  BY <1>3, InvParts DEF StoppedBehind, PoolTypes, Gone, RunningInside, EntryAwaited,
     Terminate, poolVars, workVars, userVars, jobVars
<1>4. CASE Joined
  BY <1>4, InvParts DEF StoppedBehind, PoolTypes, Gone, RunningInside, EntryAwaited,
     Joined, poolVars, workVars, userVars, jobVars
<1>5. ASSUME NEW w \in Workers, Entry(w) PROVE StoppedBehind'
  BY <1>5, InvParts DEF StoppedBehind, PoolTypes, Gone, RunningInside, EntryAwaited,
     Entry, poolVars, workVars, userVars, jobVars
<1>6. ASSUME NEW w \in Workers, Boot(w) \/ GoesOn(w) \/ WakeUp(w) PROVE StoppedBehind'
  BY <1>6, InvParts DEF StoppedBehind, PoolTypes, Gone, RunningInside, EntryAwaited,
     Boot, GoesOn, WakeUp, poolVars, workVars, userVars, jobVars
<1>7. ASSUME NEW w \in Workers, Pop(w) \/ PopEnds(w) PROVE StoppedBehind'
  BY <1>7, InvParts, PopMoves DEF StoppedBehind, PoolTypes, Gone, RunningInside,
     EntryAwaited
<1>8. ASSUME NEW w \in Workers, Count(w) PROVE StoppedBehind'
  BY <1>8, InvParts DEF StoppedBehind, PoolTypes, Gone, RunningInside, EntryAwaited,
     Count, poolVars, workVars, userVars, jobVars
<1>9. ASSUME NEW w \in Workers, Run(w) PROVE StoppedBehind'
  BY <1>9, InvParts DEF StoppedBehind, PoolTypes, Gone, RunningInside, EntryAwaited,
     Run, poolVars, workVars, userVars, jobVars
<1>10. ASSUME NEW w \in Workers, Idle(w) \/ Leave(w) \/ End(w) PROVE StoppedBehind'
  BY <1>10, InvParts DEF StoppedBehind, PoolTypes, Gone, RunningInside, EntryAwaited,
     Idle, Leave, End, poolVars, workVars, userVars, jobVars
<1> QED
  BY <1>1, <1>2, <1>3, <1>4, <1>5, <1>6, <1>7, <1>8, <1>9, <1>10 DEF Next, User,
     UserGoesOn, Worker

\* The queue's own operations keep its counter exact.
LEMMA QueueStep == ASSUME PoolInv, [Next]_vars PROVE QueueExact'
<1>1. CASE UNCHANGED jqVars
  BY <1>1, InvParts DEF QueueExact, JQ!TypeOK, jqVars
<1>2. ASSUME NEW j \in Jobs, Exec(j) PROVE QueueExact'
  BY <1>2, InvParts, PushBackExact DEF Exec
<1>3. CASE Start \/ Stop \/ WaitForAllDone \/ Create \/ Created \/ StartEnds \/ Joined
           \/ StopEnds \/ AllDone \/ GiveUp \/ UNCHANGED vars
  <2>1. UNCHANGED jqVars
    BY <1>3 DEF Start, Stop, WaitForAllDone, Create, Created, StartEnds, Joined, StopEnds,
                AllDone, GiveUp, vars
  <2> QED BY <1>1, <2>1
<1>4. CASE Terminate
  <2>1. JQ!NotifyT \/ UNCHANGED jqVars
    BY <1>4 DEF Terminate
  <2> QED BY <1>1, <2>1, InvParts, NotifyExact
<1>5. ASSUME NEW w \in Workers, Pop(w) PROVE QueueExact'
  <2>1. JQ!CallNow(w, "pop", PopTime, <<>>) \/ JQ!CallBlocks(w, "pop", PopTime)
    BY <1>5 DEF Pop
  <2> QED BY <2>1, InvParts, PopNowExact, PopBlocksExact
<1>6. ASSUME NEW w \in Workers, PopEnds(w) PROVE QueueExact'
  BY <1>6, InvParts, WakeExact DEF PopEnds
<1>7. ASSUME NEW w \in Workers, WakeUp(w) PROVE QueueExact'
  BY <1>7, InvParts, WakeUpExact DEF WakeUp
<1>8. ASSUME NEW w \in Workers, Leave(w) PROVE QueueExact'
  BY <1>8, InvParts, ClearExact DEF Leave
<1>9. ASSUME NEW w \in Workers,
             Entry(w) \/ Boot(w) \/ GoesOn(w) \/ Count(w) \/ Run(w) \/ Idle(w) \/ End(w)
      PROVE  QueueExact'
  <2>1. UNCHANGED jqVars
    BY <1>9 DEF Entry, Boot, GoesOn, Count, Run, Idle, End
  <2> QED BY <1>1, <2>1
<1> QED
  BY <1>2, <1>3, <1>4, <1>5, <1>6, <1>7, <1>8, <1>9 DEF Next, User, UserGoesOn, Worker

------------------------------------------------------------------------------
(* A job is in one place.                                                  *)

\* What an append adds to a sequence.
LEMMA AppendAdds ==
  ASSUME NEW S, NEW s \in Seq(S), NEW x \in S
  PROVE  /\ ToSet(Append(s, x)) = ToSet(s) \cup {x}
         /\ Distinct(s) /\ x \notin ToSet(s) => Distinct(Append(s, x))
<1> DEFINE t == Append(s, x)
<1>1. /\ Len(s) \in Nat /\ DOMAIN s = 1 .. Len(s) /\ DOMAIN t = 1 .. Len(s) + 1
      /\ \A i \in 1 .. Len(s) : t[i] = s[i]
      /\ t[Len(s) + 1] = x
  OBVIOUS
<1> HIDE DEF t
<1>2. ToSet(t) = ToSet(s) \cup {x}
  <2>1. \A i \in DOMAIN t : i \in DOMAIN s \/ i = Len(s) + 1
    BY <1>1
  <2>2. Len(s) + 1 \in DOMAIN t /\ \A i \in DOMAIN s : i \in DOMAIN t
    BY <1>1
  <2> QED BY <1>1, <2>1, <2>2 DEF ToSet
<1>3. ASSUME Distinct(s), x \notin ToSet(s) PROVE Distinct(t)
  <2> SUFFICES ASSUME NEW i \in DOMAIN t, NEW k \in DOMAIN t, t[i] = t[k] PROVE i = k
    BY DEF Distinct
  <2>1. \A n \in DOMAIN s : s[n] # x
    BY <1>3 DEF ToSet
  <2>2. CASE i \in DOMAIN s /\ k \in DOMAIN s
    BY <1>1, <1>3, <2>2 DEF Distinct
  <2>3. CASE i \notin DOMAIN s \/ k \notin DOMAIN s
    BY <1>1, <2>1, <2>3
  <2> QED BY <2>2, <2>3
<1> QED BY <1>2, <1>3 DEF t

\* What is left of a sequence without its head.
LEMMA TailLeaves ==
  ASSUME NEW S, NEW s \in Seq(S), s # <<>>
  PROVE  /\ ToSet(s) = ToSet(Tail(s)) \cup {Head(s)}
         /\ Distinct(s) => Distinct(Tail(s)) /\ Head(s) \notin ToSet(Tail(s))
<1> DEFINE t == Tail(s)
           x == Head(s)
<1>1. /\ Len(s) \in Nat \ {0} /\ DOMAIN s = 1 .. Len(s) /\ DOMAIN t = 1 .. Len(s) - 1
      /\ \A i \in 1 .. Len(s) - 1 : t[i] = s[i + 1]
      /\ x = s[1]
  OBVIOUS
<1> HIDE DEF t, x
<1>2. ToSet(s) = ToSet(t) \cup {x}
  <2>1. \A i \in DOMAIN s : i = 1 \/ (i - 1 \in DOMAIN t /\ s[i] = t[i - 1])
    BY <1>1
  <2>2. 1 \in DOMAIN s /\ \A i \in DOMAIN t : i + 1 \in DOMAIN s /\ t[i] = s[i + 1]
    BY <1>1
  <2>3. ToSet(s) \subseteq ToSet(t) \cup {x}
    BY <1>1, <2>1 DEF ToSet
  <2>4. ToSet(t) \cup {x} \subseteq ToSet(s)
    BY <1>1, <2>2 DEF ToSet
  <2> QED BY <2>3, <2>4
<1>3. ASSUME Distinct(s) PROVE Distinct(t) /\ x \notin ToSet(t)
  <2>1. Distinct(t)
    <3> SUFFICES ASSUME NEW i \in DOMAIN t, NEW k \in DOMAIN t, t[i] = t[k] PROVE i = k
      BY DEF Distinct
    <3>1. i + 1 \in DOMAIN s /\ k + 1 \in DOMAIN s /\ s[i + 1] = s[k + 1]
      BY <1>1
    <3>2. i + 1 = k + 1
      BY <1>3, <3>1 DEF Distinct
    <3> QED BY <1>1, <3>2
  <2>2. ASSUME NEW i \in DOMAIN t, t[i] = x PROVE FALSE
    <3>1. i + 1 \in DOMAIN s /\ 1 \in DOMAIN s /\ s[i + 1] = s[1]
      BY <1>1, <2>2
    <3>2. i + 1 = 1
      BY <1>3, <3>1 DEF Distinct
    <3> QED BY <1>1, <3>2
  <2> QED BY <2>1, <2>2 DEF ToSet
<1> QED BY <1>2, <1>3 DEF t, x

\* A pop moves the first job of the queue into the hand of its worker, or nothing.
LEMMA PopMovesJob ==
  ASSUME PoolInv, NEW w \in Workers, Pop(w) \/ PopEnds(w)
  PROVE  /\ \/ /\ queue # <<>> /\ queue' = Tail(queue)
               /\ hand' = [hand EXCEPT ![w] = Head(queue)]
            \/ queue' = queue /\ hand' = hand
         /\ hand[w] = None /\ UNCHANGED <<fresh, ran, dropped>>
<1>1. hand[w] = None /\ UNCHANGED <<fresh, ran, dropped>>
  BY InvParts, PopMoves DEF HandsFull
<1>2. CASE Pop(w)
  <2>1. CASE JQ!CallNow(w, "pop", PopTime, <<>>) /\ Receives(w)
    BY <1>1, <2>1, InvParts, PopNowExact DEF Receives
  <2>2. CASE JQ!CallBlocks(w, "pop", PopTime) /\ UNCHANGED hand
    BY <1>1, <2>2 DEF JQ!CallBlocks
  <2> QED BY <1>2, <2>1, <2>2 DEF Pop
<1>3. CASE PopEnds(w)
  <2>1. JQ!Wake(w, <<>>)
    BY <1>3 DEF PopEnds
  <2>2. /\ wait[w] = "deadline" => queue' = queue
        /\ wait[w] # "deadline" => queue' = IF queue = <<>> THEN <<>> ELSE Tail(queue)
    BY <2>1, InvParts, WakeExact
  <2>3. /\ wait[w] = "deadline" => UNCHANGED hand
        /\ wait[w] # "deadline" => Receives(w)
    BY <1>3 DEF PopEnds
  <2> QED BY <1>1, <2>2, <2>3 DEF Receives
<1> QED BY <1>2, <1>3

\* A job moves from one place to the next; none is in two.
LEMMA JobsStep == ASSUME PoolInv, [Next]_vars PROVE JobsOnce'
<1>1. /\ queue \in Seq(Jobs) /\ hand \in [Workers -> Jobs \cup {None}] /\ None \notin Jobs
      /\ fresh \subseteq Jobs /\ JobsOnce
  BY InvParts DEF QueueExact, JQ!TypeOK, PoolTypes
<1>2. CASE UNCHANGED <<queue, hand, fresh, ran, dropped>>
  BY <1>1, <1>2 DEF JobsOnce, Queued, Held
<1>3. ASSUME NEW j \in Jobs, Exec(j) PROVE JobsOnce'
  <2>1. j \in fresh /\ fresh' = fresh \ {j} /\ UNCHANGED <<hand, ran, dropped>> /\ JQ!PushBack(j)
    BY <1>3 DEF Exec, workVars
  <2>2. queue' = Append(queue, j)
    BY <2>1 DEF JQ!PushBack, JQ!PutAll
  <2>3. Held' = Held
    BY <2>1 DEF Held
  <2>4. Queued' = Queued \cup {j} /\ (j \notin Queued /\ Distinct(queue) => Distinct(queue'))
    BY <1>1, <2>2, AppendAdds DEF Queued
  <2>5. j \notin Queued /\ j \notin Held /\ j \notin ran /\ j \notin dropped /\ Distinct(queue)
    BY <1>1, <2>1 DEF JobsOnce
  <2>6. Distinct(queue')
    BY <2>4, <2>5
  <2>7. Distinct(queue)'
    BY <2>6 DEF Distinct
  <2> QED BY <1>1, <2>1, <2>3, <2>4, <2>5, <2>7 DEF JobsOnce
<1>4. CASE Start \/ Stop \/ WaitForAllDone \/ Create \/ Created \/ StartEnds \/ Joined
           \/ StopEnds \/ AllDone \/ GiveUp \/ Terminate \/ UNCHANGED vars
  <2>1. UNCHANGED <<hand, fresh, ran, dropped>>
    BY <1>4 DEF Start, Stop, WaitForAllDone, Create, Created, StartEnds, Joined, StopEnds,
                AllDone, GiveUp, Terminate, vars, workVars, jobVars
  <2>2. UNCHANGED queue
    BY <1>4 DEF Start, Stop, WaitForAllDone, Create, Created, StartEnds, Joined, StopEnds,
                AllDone, GiveUp, Terminate, JQ!NotifyT, vars, jqVars
  <2> QED BY <1>2, <2>1, <2>2
<1>5. ASSUME NEW w \in Workers, Pop(w) \/ PopEnds(w) PROVE JobsOnce'
  <2>1. /\ \/ /\ queue # <<>> /\ queue' = Tail(queue)
              /\ hand' = [hand EXCEPT ![w] = Head(queue)]
           \/ queue' = queue /\ hand' = hand
        /\ hand[w] = None /\ UNCHANGED <<fresh, ran, dropped>>
    BY <1>5, PopMovesJob
  <2>2. CASE /\ queue # <<>> /\ queue' = Tail(queue)
             /\ hand' = [hand EXCEPT ![w] = Head(queue)]
    <3>1. PICK x \in Jobs : x = Head(queue)
      BY <1>1, <2>2
    <3>2. /\ Queued = Queued' \cup {x}
          /\ Distinct(queue) => Distinct(queue') /\ x \notin Queued'
      BY <1>1, <2>2, <3>1, TailLeaves DEF Queued
    <3>3. Distinct(queue) /\ x \notin Held /\ x # None
      BY <1>1, <3>2 DEF JobsOnce
    <3>4. hand' = [hand EXCEPT ![w] = x]
      BY <2>2, <3>1
    <3>5. Held' = Held \cup {x}
      BY <1>1, <2>1, <3>1, <3>4 DEF Held
    <3>6. \A v \in Workers : hand[v] # x
      BY <3>1, <3>3 DEF Held
    <3>7. \A u, v \in Workers : hand'[u] = hand'[v] /\ hand'[u] # None => u = v
      BY <1>1, <3>4, <3>6 DEF JobsOnce
    <3>8. Distinct(queue')
      BY <3>2, <3>3
    <3>9. Distinct(queue)'
      BY <3>8 DEF Distinct
    <3> QED BY <1>1, <2>1, <3>2, <3>3, <3>5, <3>7, <3>9 DEF JobsOnce
  <2> QED BY <1>2, <2>1, <2>2
<1>6. ASSUME NEW w \in Workers, Run(w) PROVE JobsOnce'
  <2>1. /\ ran' = ran \cup {hand[w]} /\ hand' = [hand EXCEPT ![w] = None] /\ pc[w] = "runs"
        /\ UNCHANGED <<queue, fresh, dropped>>
    BY <1>6 DEF Run, jqVars
  <2>2. PICK x \in Jobs : x = hand[w]
    BY <1>1, <2>1, InvParts DEF HandsFull
  <2>3. x \in Held /\ Held' = Held \ {x}
    <3>1. \A v \in Workers : v # w => hand[v] # x
      BY <1>1, <2>2 DEF JobsOnce
    <3> QED BY <1>1, <2>1, <2>2, <3>1 DEF Held
  <2>4. \A u, v \in Workers : hand'[u] = hand'[v] /\ hand'[u] # None => u = v
    BY <1>1, <2>1 DEF JobsOnce
  <2>5. Queued' = Queued /\ (Distinct(queue)' <=> Distinct(queue))
    BY <2>1 DEF Queued, Distinct
  <2>6. ran' = ran \cup {x}
    BY <2>1, <2>2
  <2> QED BY <1>1, <2>1, <2>3, <2>4, <2>5, <2>6 DEF JobsOnce
<1>7. ASSUME NEW w \in Workers, Leave(w) PROVE JobsOnce'
  <2>1. /\ dropped' = dropped \cup Queued /\ UNCHANGED <<hand, fresh, ran>> /\ queue' = <<>>
    BY <1>7 DEF Leave, JQ!Clear, Queued
  <2>2. DOMAIN <<>> = {}
    OBVIOUS
  <2>3. Queued' = {} /\ Distinct(queue)' /\ Held' = Held
    BY <2>1, <2>2 DEF Queued, Distinct, Held, ToSet
  <2> QED BY <1>1, <2>1, <2>3 DEF JobsOnce
<1>8. ASSUME NEW w \in Workers,
             Entry(w) \/ Boot(w) \/ GoesOn(w) \/ Count(w) \/ Idle(w) \/ End(w) \/ WakeUp(w)
      PROVE  JobsOnce'
  <2>1. UNCHANGED <<hand, fresh, ran, dropped>>
    BY <1>8 DEF Entry, Boot, GoesOn, Count, Idle, End, WakeUp, workVars, jobVars
  <2>2. UNCHANGED queue
    BY <1>8, InvParts, WakeUpExact DEF Entry, Boot, GoesOn, Count, Idle, End, WakeUp, jqVars
  <2> QED BY <1>2, <2>1, <2>2
<1> QED
  BY <1>3, <1>4, <1>5, <1>6, <1>7, <1>8 DEF Next, User, UserGoesOn, Worker

------------------------------------------------------------------------------
(* The jobs counted.                                                       *)

\* Two finite sets apart.
LEMMA Apart ==
  ASSUME NEW S, NEW T, IsFiniteSet(S), IsFiniteSet(T), S \cap T = {}
  PROVE  IsFiniteSet(S \cup T) /\ Cardinality(S \cup T) = Cardinality(S) + Cardinality(T)
<1>1. /\ IsFiniteSet(S \cup T)
      /\ Cardinality(S \cup T) = Cardinality(S) + Cardinality(T) - Cardinality(S \cap T)
  BY FS_Union
<1>2. Cardinality(S \cap T) = 0
  BY FS_EmptySet
<1>3. Cardinality(S) \in Nat /\ Cardinality(T) \in Nat
  BY FS_CardinalityType
<1> QED BY <1>1, <1>2, <1>3

\* A queue without repetitions has as many jobs as places.
LEMMA QueuedCounted ==
  ASSUME queue \in Seq(Jobs), Distinct(queue)
  PROVE  IsFiniteSet(Queued) /\ Cardinality(Queued) = Len(queue)
<1> DEFINE n == Len(queue)
<1>1. n \in Nat /\ DOMAIN queue = 1 .. n /\ queue \in [1 .. n -> Jobs]
  OBVIOUS
<1>2. Queued = {queue[i] : i \in 1 .. n}
  BY <1>1 DEF Queued, ToSet
<1>3. queue \in [1 .. n -> Queued]
  BY <1>1, <1>2
<1>4. queue \in Bijection(1 .. n, Queued)
  BY <1>1, <1>2, <1>3 DEF Bijection, Injection, Surjection, IsInjective, Distinct
<1>5. IsFiniteSet(1 .. n) /\ Cardinality(1 .. n) = n
  <2>1. n \in Int /\ 1 \in Int
    BY <1>1
  <2>2. IsFiniteSet(1 .. n) /\ Cardinality(1 .. n) = IF 1 > n THEN 0 ELSE n - 1 + 1
    BY <2>1, FS_Interval
  <2> QED BY <1>1, <2>2
<1>6. ExistsBijection(1 .. n, Queued)
  BY <1>4 DEF ExistsBijection
<1> QED BY <1>5, <1>6, FS_Bijection

\* There are as many full hands as jobs in hands.
LEMMA HeldCounted ==
  ASSUME hand \in [Workers -> Jobs \cup {None}], None \notin Jobs,
         \A v, w \in Workers : hand[v] = hand[w] /\ hand[v] # None => v = w
  PROVE  /\ IsFiniteSet(Held)
         /\ Cardinality({w \in Workers : hand[w] # None}) = Cardinality(Held)
<1> DEFINE full == {w \in Workers : hand[w] # None}
           f == [w \in full |-> hand[w]]
<1>1. IsFiniteSet(full)
  BY WorkersFinite, FS_Subset
<1>2. f \in Bijection(full, Held)
  <2>1. f \in [full -> Held]
    BY DEF Held
  <2>2. IsInjective(f)
    BY DEF IsInjective
  <2>3. \A j \in Held : \E w \in full : f[w] = j
    BY DEF Held
  <2> QED BY <2>1, <2>2, <2>3 DEF Bijection, Injection, Surjection
<1>3. ExistsBijection(full, Held)
  BY <1>2 DEF ExistsBijection
<1> QED BY <1>1, <1>3, FS_Bijection

\* The invariant counts the jobs.
LEMMA JobsCounted == ASSUME PoolInv PROVE JobsKept
<1>1. /\ queue \in Seq(Jobs) /\ hand \in [Workers -> Jobs \cup {None}] /\ None \notin Jobs
      /\ fresh \subseteq Jobs /\ ran \subseteq Jobs /\ dropped \subseteq Jobs /\ JobsOnce
  BY InvParts DEF QueueExact, JQ!TypeOK, PoolTypes
<1>2. IsFiniteSet(fresh) /\ IsFiniteSet(ran) /\ IsFiniteSet(dropped)
  BY <1>1, PoolAssumption, FS_Subset
<1>3. /\ IsFiniteSet(Queued) /\ Cardinality(Queued) = Len(queue)
      /\ IsFiniteSet(Held)
      /\ Cardinality({w \in Workers : hand[w] # None}) = Cardinality(Held)
  <2>1. Distinct(queue) /\ \A v, w \in Workers : hand[v] = hand[w] /\ hand[v] # None => v = w
    BY <1>1 DEF JobsOnce
  <2> QED BY <1>1, <2>1, QueuedCounted, HeldCounted
<1> DEFINE A == fresh
           B == fresh \cup Queued
           C == fresh \cup Queued \cup Held
           D == fresh \cup Queued \cup Held \cup ran
<1>4. A \cap Queued = {} /\ B \cap Held = {} /\ C \cap ran = {} /\ D \cap dropped = {}
  BY <1>1 DEF JobsOnce
<1>5. IsFiniteSet(B) /\ Cardinality(B) = Cardinality(fresh) + Cardinality(Queued)
  BY <1>2, <1>3, <1>4, Apart
<1>6. IsFiniteSet(C) /\ Cardinality(C) = Cardinality(B) + Cardinality(Held)
  BY <1>3, <1>4, <1>5, Apart
<1>7. IsFiniteSet(D) /\ Cardinality(D) = Cardinality(C) + Cardinality(ran)
  BY <1>2, <1>4, <1>6, Apart
<1>8. Cardinality(D \cup dropped) = Cardinality(D) + Cardinality(dropped)
  BY <1>2, <1>4, <1>7, Apart
<1>9. Jobs = D \cup dropped
  BY <1>1 DEF JobsOnce
<1>10. /\ Cardinality(fresh) \in Nat /\ Cardinality(Queued) \in Nat /\ Cardinality(Held) \in Nat
       /\ Cardinality(ran) \in Nat /\ Cardinality(dropped) \in Nat
  BY <1>2, <1>3, FS_CardinalityType
<1>11. Cardinality(Jobs) = Cardinality(fresh) + Cardinality(Queued) + Cardinality(Held)
                             + Cardinality(ran) + Cardinality(dropped)
  <2> HIDE DEF B, C, D
  <2> QED BY <1>5, <1>6, <1>7, <1>8, <1>9, <1>10
<1> HIDE DEF A, B, C, D
<1>12. Cardinality(fresh) + Len(queue) + Cardinality({w \in Workers : hand[w] # None})
         + Cardinality(ran) + Cardinality(dropped) = Cardinality(Jobs)
  BY <1>3, <1>11
<1> QED BY <1>1, <1>12 DEF JobsKept, JobsOnce

------------------------------------------------------------------------------
(* The theorems.                                                           *)

LEMMA InitInv == Init => PoolInv
<1> SUFFICES ASSUME Init PROVE PoolInv
  OBVIOUS
<1>1. queue = <<>> /\ hand = [w \in Workers |-> None] /\ pc = [w \in Workers |-> "none"]
  BY DEF Init, JQ!Init
<1>2. QueueExact
  <2>1. /\ size = 0 /\ swapped = FALSE /\ call = [w \in Workers |-> <<"none", "now">>]
        /\ wait = [w \in Workers |-> "no"]
    BY DEF Init, JQ!Init
  <2>2. <<>> \in Seq(Jobs) /\ Len(<<>>) = 0
    OBVIOUS
  <2>3. <<"none", "now">> \in (JQ!Calls \cup {"none"}) \X JQ!Timeouts
    BY DEF JQ!Timeouts
  <2>4. call \in [Workers -> (JQ!Calls \cup {"none"}) \X JQ!Timeouts]
    BY <2>1, <2>3
  <2>5. swapped \in BOOLEAN
    BY <2>1, Zenon
  <2> QED BY <1>1, <2>1, <2>2, <2>4, <2>5 DEF QueueExact, JQ!TypeOK
<1>3. PoolTypes
  BY PoolAssumption DEF Init, PoolTypes
<1>4. FlagTypes
  BY Zenon DEF Init, FlagTypes
<1>5. HandsFull /\ RunnersBusy /\ RunningInside /\ EntryAwaited /\ StoppedBehind /\ StartingAhead
  BY DEF Init, HandsFull, RunnersBusy, RunningInside, EntryAwaited, StoppedBehind, StartingAhead,
         Gone
<1>6. JobsOnce
  <2>1. DOMAIN <<>> = {}
    OBVIOUS
  <2>2. Queued = {} /\ Distinct(queue)
    BY <1>1, <2>1 DEF Queued, ToSet, Distinct
  <2>3. Held = {}
    BY <1>1, PoolAssumption DEF Held
  <2>4. fresh = Jobs /\ ran = {} /\ dropped = {}
    BY DEF Init
  <2>5. \A v, w \in Workers : hand[v] = hand[w] /\ hand[v] # None => v = w
    BY <1>1
  <2> QED BY <2>2, <2>3, <2>4, <2>5 DEF JobsOnce
<1> QED BY <1>2, <1>3, <1>4, <1>5, <1>6 DEF PoolInv

LEMMA NextInv == PoolInv /\ [Next]_vars => PoolInv'
<1> SUFFICES ASSUME PoolInv, [Next]_vars PROVE PoolInv'
  OBVIOUS
<1> QED
  BY QueueStep, TypesStep, FlagsStep, HandsStep, RunnersStep, AheadStep, RunningStep, EntryStep,
     StoppedStep, JobsStep DEF PoolInv

\* PoolInv is an invariant.
LEMMA Invariance == Spec => []PoolInv
  BY InitInv, NextInv, PTL DEF Spec

\* The variables of the pool, of its queue, its workers and its user stay in their
\* types; in particular the start queue is never popped when it is empty.
THEOREM TypesHold == Spec => []TypeOK
<1>1. PoolInv => TypeOK
  BY DEF PoolInv, QueueExact, PoolTypes, FlagTypes, TypeOK
<1> QED BY <1>1, Invariance, PTL

\* A job given to exec() is queued, in one worker's hand, run, or cleared away, and
\* only one of these: none is lost and none runs twice.
THEOREM EveryJobKept == Spec => []JobsKept
  BY JobsCounted, Invariance, PTL

\* When waitForAllDone returns true, the queue is empty, and a job that is not done
\* has been popped by a worker that is not yet counted as busy.
THEOREM OverlookedOnlyPopped == Spec => OnlyPoppedOverlooked
<1>1. PoolInv /\ [Next]_vars
        => [AllDone => Queued = {} /\ \A w \in Workers : hand[w] # None => pc[w] = "holds"]_vars
  <2> SUFFICES ASSUME PoolInv, AllDone
               PROVE  Queued = {} /\ \A w \in Workers : hand[w] # None => pc[w] = "holds"
    OBVIOUS
  <2>1. queue = <<>> /\ busy = {}
    BY DEF AllDone, Finish
  <2>2. DOMAIN <<>> = {}
    OBVIOUS
  <2> QED BY <2>1, <2>2, InvParts DEF HandsFull, RunnersBusy, Queued, ToSet
<1> QED BY <1>1, Invariance, PTL DEF Spec, OnlyPoppedOverlooked

\* When stop() returns, no worker runs whose start() waited for its thread.
THEOREM StoppedQuietly == Spec => StopQuiet
<1>1. PoolInv /\ [Next]_vars => [StopEnds => \A w \in Workers \ early : Gone(w)]_vars
  <2> SUFFICES ASSUME PoolInv, StopEnds PROVE \A w \in Workers \ early : Gone(w)
    OBVIOUS
  <2>1. user = "stopping" /\ cur \notin Workers
    BY DEF StopEnds
  <2>2. \A w \in Workers : w < cur
    BY <2>1, InvParts DEF PoolTypes
  <2> QED BY <2>1, <2>2, InvParts DEF StoppedBehind
<1> QED BY <1>1, Invariance, PTL DEF Spec, StopQuiet
==============================================================================
