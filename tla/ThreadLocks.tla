----------------------------- MODULE ThreadLocks -----------------------------
(***************************************************************************)
(* The locks of src/common/inutil: INV_ThreadMutex and INV_ThreadRecMutex  *)
(* (inv_thread_mutex.cpp), the monitor over them (util/inv_monitor.h,      *)
(* util/inv_thread_cond.h), INV_ThreadRWLocker (inv_thread_rwlock.cpp) and *)
(* the guard objects that lock and unlock them (util/inv_lock.h).          *)
(*                                                                         *)
(* Threads build guards on one monitor, nest them, acquire, release and    *)
(* destroy them, notify and wait.  INV_ThreadRecMutex counts its nesting   *)
(* itself and keeps the pthread mutex, recursive too, locked once.         *)
(***************************************************************************)
EXTENDS Integers, Sequences, FiniteSets

CONSTANTS
  Threads,
  MaxGuards   \* bound on the guards a thread nests

VARIABLES
  kind,       \* the lock in use: "plain", "recursive" or "rw"
  owner,      \* thread that holds the pthread mutex, or Nobody
  depth,      \* how often it holds it
  count,      \* _count of INV_ThreadRecMutex
  nnotify,    \* _nnotify, -1 for all
  guards,     \* per thread: _acquired of its INV_LockT objects, innermost first
  saved,      \* per thread: the count INV_ThreadCond::wait put aside
  state,      \* per thread: "runs", "blocked", "woken"
  misused,    \* whether tryAcquire was called on a guard that had the lock
  readers,    \* per thread: read guards on the INV_ThreadRWLocker
  writer      \* thread with a write guard on it, or Nobody

\* Nobody is no thread.
Nobody            == "nobody"
ThreadsAssumption == IsFiniteSet(Threads) /\ Nobody \notin Threads

monitor == <<owner, depth, count, nnotify>>
rwVars  == <<readers, writer>>
vars == <<kind, monitor, guards, saved, state, misused, rwVars>>

recursive  == kind = "recursive"
Runs(t)    == state[t] = "runs"
Blocked    == {t \in Threads : state[t] = "blocked"}
Holds(t)   == owner = t
Top(t)     == Head(guards[t])
SetTop(t, b) == guards' = [guards EXCEPT ![t] = <<b>> \o Tail(@)]

Init ==
  /\ kind \in {"plain", "recursive", "rw"}
  /\ owner = Nobody /\ depth = 0 /\ count = 0 /\ nnotify = 0
  /\ guards = [t \in Threads |-> <<>>]
  /\ saved = [t \in Threads |-> 0]
  /\ state = [t \in Threads |-> "runs"]
  /\ misused = FALSE
  /\ readers = [t \in Threads |-> 0] /\ writer = Nobody
------------------------------------------------------------------------------
(* The monitor                                                             *)

\* A thread that can get the pthread mutex now, as a recursive one or not.
CanLock(t) == owner = Nobody \/ (recursive /\ owner = t)

\* lock() of the mutex: a nested one gives the second pthread lock back.
MutexLock(t) ==
  /\ CanLock(t)
  /\ owner' = t
  /\ count' = IF recursive THEN count + 1 ELSE count
  /\ depth' = 1

\* lock() of the monitor forgets the notifications that are still to be sent.
Lock(t) == MutexLock(t) /\ nnotify' = 0

\* notifyImpl(): the threads that wake up; signals find whoever is blocked.
Notified ==
  IF nnotify = -1 THEN {Blocked}
  ELSE {S \in SUBSET Blocked : Cardinality(S) = IF nnotify < Cardinality(Blocked)
                                                THEN nnotify ELSE Cardinality(Blocked)}

WakeSome == \E S \in Notified : state' = [t \in Threads |-> IF t \in S THEN "woken" ELSE state[t]]

\* unlock() of the monitor: the notifications go out first, and are not forgotten.
Unlock(t) ==
  /\ WakeSome
  /\ count' = IF recursive THEN count - 1 ELSE count
  /\ IF count' = 0 THEN owner' = Nobody /\ depth' = 0 ELSE UNCHANGED <<owner, depth>>
  /\ UNCHANGED nnotify

Notify(t) ==
  /\ Runs(t) /\ Holds(t)
  /\ nnotify' \in {-1, IF nnotify = -1 THEN -1 ELSE nnotify + 1}
  /\ nnotify' < Cardinality(Threads)
  /\ UNCHANGED <<kind, owner, depth, count, guards, saved, state, misused, rwVars>>

\* MUTANT of WaitBegins: the count of the nesting is left in the mutex.
WaitBeginsCounted(t) ==
  /\ Runs(t) /\ Holds(t)
  /\ \E S \in Notified :
       state' = [u \in Threads |-> IF u = t THEN "blocked" ELSE IF u \in S THEN "woken" ELSE state[u]]
  /\ saved' = [saved EXCEPT ![t] = count]
  /\ owner' = Nobody /\ depth' = 0
  /\ UNCHANGED <<kind, count, nnotify, guards, misused, rwVars>>

\* wait() and timedWait(): notifications go out, the count is put aside, and
\* pthread_cond_wait gives the mutex back whatever the nesting.
WaitBegins(t) ==
  /\ Runs(t) /\ Holds(t)
  /\ \E S \in Notified :
       state' = [u \in Threads |-> IF u = t THEN "blocked" ELSE IF u \in S THEN "woken" ELSE state[u]]
  /\ saved' = [saved EXCEPT ![t] = count]
  /\ count' = 0
  /\ owner' = Nobody /\ depth' = 0
  /\ UNCHANGED <<kind, nnotify, guards, misused, rwVars>>

\* The deadline, or a wake-up for no reason.
WakesUp(t) ==
  /\ state[t] = "blocked"
  /\ state' = [state EXCEPT ![t] = "woken"]
  /\ UNCHANGED <<kind, monitor, guards, saved, misused, rwVars>>

WaitEnds(t) ==
  /\ state[t] = "woken" /\ owner = Nobody
  /\ state' = [state EXCEPT ![t] = "runs"]
  /\ owner' = t /\ depth' = 1 /\ count' = saved[t] /\ nnotify' = 0
  /\ saved' = [saved EXCEPT ![t] = 0]
  /\ UNCHANGED <<kind, guards, misused, rwVars>>
------------------------------------------------------------------------------
(* INV_LockT and INV_TryLockT                                              *)

\* The constructor; on a plain mutex the thread holds, lock() throws EDEADLK and
\* there is no guard.
Build(t) ==
  /\ Runs(t) /\ Len(guards[t]) < MaxGuards
  /\ Lock(t)
  /\ guards' = [guards EXCEPT ![t] = <<TRUE>> \o @]
  /\ UNCHANGED <<kind, saved, state, misused, rwVars>>

\* tryLock() of the monitor, which is busy for a plain mutex the thread holds.
TryLock(t) == IF CanLock(t) THEN Lock(t) ELSE UNCHANGED monitor

BuildTry(t) ==
  /\ Runs(t) /\ Len(guards[t]) < MaxGuards
  /\ TryLock(t)
  /\ guards' = [guards EXCEPT ![t] = <<CanLock(t)>> \o @]
  /\ UNCHANGED <<kind, saved, state, misused, rwVars>>

\* acquire() throws on a guard that has the lock.
Acquire(t) ==
  /\ Runs(t) /\ guards[t] # <<>> /\ ~Top(t)
  /\ Lock(t)
  /\ SetTop(t, TRUE)
  /\ UNCHANGED <<kind, saved, state, misused, rwVars>>

\* tryAcquire() does not look at _acquired before it overwrites it.
TryAcquire(t) ==
  /\ Runs(t) /\ guards[t] # <<>> /\ count <= MaxGuards
  /\ misused' = (misused \/ Top(t))
  /\ TryLock(t)
  /\ SetTop(t, CanLock(t))
  /\ UNCHANGED <<kind, saved, state, rwVars>>

\* release() throws on a guard that does not have the lock.
Release(t) ==
  /\ Runs(t) /\ guards[t] # <<>> /\ Top(t)
  /\ Unlock(t)
  /\ SetTop(t, FALSE)
  /\ UNCHANGED <<kind, saved, misused, rwVars>>

Destroy(t) ==
  /\ Runs(t) /\ guards[t] # <<>>
  /\ IF Top(t) THEN Unlock(t) ELSE UNCHANGED <<monitor, state>>
  /\ guards' = [guards EXCEPT ![t] = Tail(@)]
  /\ UNCHANGED <<kind, saved, misused, rwVars>>
------------------------------------------------------------------------------
(* INV_ThreadRWLocker and its guards                                       *)

NoReaders == \A t \in Threads : readers[t] = 0

\* A constructor that throws (EDEADLK for the writer itself) leaves no guard.
ReadLock(t) ==
  /\ Runs(t) /\ readers[t] < MaxGuards /\ writer = Nobody
  /\ readers' = [readers EXCEPT ![t] = @ + 1]
  /\ UNCHANGED <<kind, monitor, guards, saved, state, misused, writer>>

WriteLock(t) ==
  /\ Runs(t) /\ NoReaders /\ writer = Nobody
  /\ writer' = t
  /\ UNCHANGED <<kind, monitor, guards, saved, state, misused, readers>>

RWUnlock(t) ==
  /\ Runs(t)
  /\ \/ readers[t] > 0 /\ readers' = [readers EXCEPT ![t] = @ - 1] /\ UNCHANGED writer
     \/ writer = t /\ writer' = Nobody /\ UNCHANGED readers
  /\ UNCHANGED <<kind, monitor, guards, saved, state, misused>>

Next ==
  \E t \in Threads :
    \/ /\ kind # "rw"
       /\ \/ Build(t) \/ BuildTry(t) \/ Acquire(t) \/ TryAcquire(t) \/ Release(t) \/ Destroy(t)
          \/ Notify(t) \/ WaitBegins(t) \/ WakesUp(t) \/ WaitEnds(t)
    \/ /\ kind = "rw"
       /\ ReadLock(t) \/ WriteLock(t) \/ RWUnlock(t)

Spec == Init /\ [][Next]_vars
------------------------------------------------------------------------------
\* State of the locks and of the threads' guards.
TypeOK ==
  /\ kind \in {"plain", "recursive", "rw"}
  /\ owner \in Threads \cup {Nobody} /\ depth \in Nat /\ count \in Int
  /\ nnotify \in Int
  /\ guards \in [Threads -> Seq(BOOLEAN)]
  /\ saved \in [Threads -> Nat]
  /\ state \in [Threads -> {"runs", "blocked", "woken"}]
  /\ misused \in BOOLEAN
  /\ readers \in [Threads -> Nat] /\ writer \in Threads \cup {Nobody}

Acquired(t) == Cardinality({i \in DOMAIN guards[t] : guards[t][i]})

\* A thread that runs holds the mutex exactly when one of its guards has it, as
\* often as there are such guards, through every wait inside a nested section; the
\* pthread mutex below is locked once.  (Once tryAcquire was called on a guard that
\* had the lock this is lost: the guard forgets one of its locks.)
GuardsExact ==
  ~misused =>
    /\ depth = IF owner = Nobody THEN 0 ELSE 1
    /\ \A t \in Threads : Runs(t) => (Holds(t) <=> Acquired(t) > 0)
    /\ recursive => count = IF owner = Nobody THEN 0 ELSE Acquired(owner)
==============================================================================
