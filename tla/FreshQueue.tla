----------------------------- MODULE FreshQueue -----------------------------
(***************************************************************************)
(* The set of "new" users the server learns from Kafka: class              *)
(* DyeingCurrentFresh (src/src/fresh_kafka.cc) and the map it shares with  *)
(* the request threads, kafkaFreshQueue (src/src/ab_def.h).                *)
(*                                                                         *)
(* Two maps are kept, each under a lock of its own, and no code path holds *)
(* both locks:                                                             *)
(*   timeKmsg  _time_kmsg : time of registration -> uid    (_kmsg_mutex)   *)
(*   kq        _kmq->kq   : uid -> time of registration    (_kmq->lock)    *)
(* The Kafka thread adds a uid to the first, then to the second.  The      *)
(* clear thread collects the old entries of the first, then erases their   *)
(* uids from the second, one lock acquisition per uid.  One critical       *)
(* section is one action.                                                  *)
(*                                                                         *)
(* Time is a count of ticks.  A record that does not parse, is not an      *)
(* object or has no uid is dropped by processkafka without touching any    *)
(* state, so only records with a uid appear here.                          *)
(***************************************************************************)
EXTENDS Integers, FiniteSets

CONSTANTS
  Uids,            \* the users that may appear in the topic
  NoUid,           \* no user: the Kafka thread before its first record
  Retention,       \* age, in ticks, past which an entry is swept
  Stall,           \* longest time the Kafka thread spends between its two
                   \* critical sections
  DistinctStamps,  \* TRUE: no two records are stamped with the same time
  MaxReg,          \* bound: last tick at which a record may arrive
  MaxNow           \* bound: last tick of the clock

ASSUME NoUidAssumption == NoUid \notin Uids
ASSUME TimeAssumption  == Retention \in Nat /\ MaxReg \in Nat /\ MaxNow \in Nat
ASSUME StallAssumption == Stall \in Nat /\ Stall <= Retention
ASSUME StampAssumption == DistinctStamps \in BOOLEAN

VARIABLES
  now,       \* the clock behind TNOWUS
  timeKmsg,  \* _time_kmsg
  kq,        \* _kmq->kq
  rec,       \* the Kafka thread, in DyeingCurrentFresh::set
  clr,       \* the clear thread, in DyeingCurrentFresh::clear
  rubsh      \* local of clear(): the entries still to be erased from kq

vars == <<now, timeKmsg, kq, rec, clr, rubsh>>

\* f with x mapped to y, whether or not f has a value at x: map[x] = y.
Put(f, x, y) == [z \in DOMAIN f \cup {x} |-> IF z = x THEN y ELSE f[z]]

\* f without the keys in S: map.erase.
Drop(f, S) == [z \in DOMAIN f \ S |-> f[z]]

-----------------------------------------------------------------------------
Init ==
  /\ now = 0
  /\ timeKmsg = [t \in {} |-> NoUid]
  /\ kq = [u \in {} |-> 0]
  /\ rec = [pc |-> "idle", uid |-> NoUid, stamp |-> 0]
  /\ clr = [pc |-> "idle", cnow |-> 0]
  /\ rubsh = {}

\* The clock advances.  The Kafka thread is assumed not to be held up between
\* the two halves of set() for more than Stall ticks.
Tick ==
  /\ now < MaxNow
  /\ rec.pc = "indexed" => now + 1 <= rec.stamp + Stall
  /\ now' = now + 1
  /\ UNCHANGED <<timeKmsg, kq, rec, clr, rubsh>>

(***************************************************************************)
(* The Kafka thread                                                        *)
(***************************************************************************)
\* MUTANT of SetTime: the uid is moved into the map, so the second half of
\* set() works with an empty one.
SetTimeMoved(u) ==
  /\ rec.pc = "idle"
  /\ now <= MaxReg
  /\ DistinctStamps => now \notin DOMAIN timeKmsg
  /\ timeKmsg' = Put(timeKmsg, now, u)
  /\ rec' = [pc |-> "indexed", uid |-> NoUid, stamp |-> now]
  /\ UNCHANGED <<now, kq, clr, rubsh>>

\* set(), first critical section: _time_kmsg[TNOWUS] = uid.
SetTime(u) ==
  /\ rec.pc = "idle"
  /\ now <= MaxReg
  /\ DistinctStamps => now \notin DOMAIN timeKmsg
  /\ timeKmsg' = Put(timeKmsg, now, u)
  /\ rec' = [pc |-> "indexed", uid |-> u, stamp |-> now]
  /\ UNCHANGED <<now, kq, clr, rubsh>>

\* set(), second critical section: _kmq->kq[uid] = TNOWUS.
SetQueue ==
  /\ rec.pc = "indexed"
  /\ kq' = Put(kq, rec.uid, now)
  /\ rec' = [rec EXCEPT !.pc = "idle"]
  /\ UNCHANGED <<now, timeKmsg, clr, rubsh>>

(***************************************************************************)
(* The clear thread                                                        *)
(***************************************************************************)
\* MUTANT of ClearBegin: the retention is not subtracted from the time.
ClearBeginNow ==
  /\ clr.pc = "idle"
  /\ clr' = [pc |-> "collect", cnow |-> now]
  /\ UNCHANGED <<now, timeKmsg, kq, rec, rubsh>>

\* clear() computes the cutoff before it takes any lock.
ClearBegin ==
  /\ clr.pc = "idle"
  /\ clr' = [pc |-> "collect", cnow |-> now - Retention]
  /\ UNCHANGED <<now, timeKmsg, kq, rec, rubsh>>

\* MUTANTS of Expired: an entry as old as the cutoff is taken too (>= for >);
\* the loop ends one entry before the last.
ExpiredOrEqual(cutoff)   == {t \in DOMAIN timeKmsg : t <= cutoff}
ExpiredButLatest(cutoff) ==
  {t \in DOMAIN timeKmsg : t < cutoff /\ \E s \in DOMAIN timeKmsg : s > t}

\* The map is ordered by time, so the loop that breaks at the first young entry
\* visits every entry older than the cutoff.
Expired(cutoff) == {t \in DOMAIN timeKmsg : t < cutoff}

\* First critical section: move the expired entries to rubsh.
ClearCollect ==
  /\ clr.pc = "collect"
  /\ rubsh' = {[stamp |-> t, uid |-> timeKmsg[t]] : t \in Expired(clr.cnow)}
  /\ timeKmsg' = Drop(timeKmsg, Expired(clr.cnow))
  /\ clr' = [clr EXCEPT !.pc = "erase"]
  /\ UNCHANGED <<now, kq, rec>>

\* One round of the second loop: the entries are erased oldest first.
ClearErase ==
  /\ clr.pc = "erase"
  /\ \E e \in rubsh :
       /\ \A f \in rubsh : e.stamp <= f.stamp
       /\ kq' = Drop(kq, {e.uid})
       /\ rubsh' = rubsh \ {e}
  /\ UNCHANGED <<now, timeKmsg, rec, clr>>

ClearEnd ==
  /\ clr.pc = "erase"
  /\ rubsh = {}
  /\ clr' = [clr EXCEPT !.pc = "idle"]
  /\ UNCHANGED <<now, timeKmsg, kq, rec, rubsh>>

-----------------------------------------------------------------------------
KafkaThread == (\E u \in Uids : SetTime(u)) \/ SetQueue
ClearThread == ClearBegin \/ ClearCollect \/ ClearErase \/ ClearEnd

Next == Tick \/ KafkaThread \/ ClearThread

Spec == Init /\ [][Next]_vars

\* Time passes, a thread that has entered a function leaves it, and the clear
\* thread runs again and again (DailyGate shows that it does, once a day).
FairSpec == Spec /\ WF_vars(Tick) /\ WF_vars(SetQueue) /\ WF_vars(ClearThread)

-----------------------------------------------------------------------------
(***************************************************************************)
(* Properties                                                              *)
(***************************************************************************)
\* The maps and the locals of the two threads hold what their C++ types say.
TypeOK ==
  /\ now \in Nat
  /\ DOMAIN timeKmsg \subseteq Nat
  /\ timeKmsg = [t \in DOMAIN timeKmsg |-> timeKmsg[t]]
  /\ \A t \in DOMAIN timeKmsg : timeKmsg[t] \in Uids
  /\ DOMAIN kq \subseteq Uids
  /\ kq = [u \in DOMAIN kq |-> kq[u]]
  /\ \A u \in DOMAIN kq : kq[u] \in Nat
  /\ rec \in [pc : {"idle", "indexed"}, uid : Uids \cup {NoUid}, stamp : Nat]
  /\ rec.pc = "indexed" => rec.uid \in Uids
  /\ clr \in [pc : {"idle", "collect", "erase"}, cnow : Int]
  /\ rubsh \in SUBSET [stamp : Nat, uid : Uids]

\* Some entry of _time_kmsg or of the sweep in progress will lead the clear
\* thread to u.
Covered(u) ==
  \/ \E t \in DOMAIN timeKmsg : timeKmsg[t] = u
  \/ \E e \in rubsh : e.uid = u

\* No uid is stuck in the shared map: whatever the interleaving of set() and
\* clear(), which never hold both locks, every uid the request threads see as
\* new is still reachable from the time index, the only path by which clear()
\* can ever erase it.
NoOrphan == \A u \in DOMAIN kq : Covered(u)

\* A uid leaves the shared map only on account of a registration of that uid
\* that is older than the retention period.
OnlyExpiredErased ==
  [][\A u \in DOMAIN kq \ DOMAIN kq' :
        \E e \in rubsh : e.uid = u /\ e.stamp + Retention < now]_vars

\* Once no more records arrive the shared map drains: every uid is forgotten.
EventuallyForgotten == <>[](kq = [u \in {} |-> 0] /\ timeKmsg = kq)

\* What the comment of clear() says (fresh_kafka.cc:193, "delete the uids of a
\* day ago") for the uid itself: a uid is erased only when its latest
\* registration, whose time kq keeps, is older than the retention period.
NoEarlyErase ==
  [][\A u \in DOMAIN kq \ DOMAIN kq' : kq[u] + Retention < now]_vars
=============================================================================
