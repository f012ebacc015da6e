--------------------------- MODULE FreshQueueProofs ---------------------------
(***************************************************************************)
(* Proofs about FreshQueue, for every set of users and every retention     *)
(* period: type correctness, no uid stuck in the shared map, and no uid    *)
(* erased on account of a young registration.                              *)
(***************************************************************************)
EXTENDS FreshQueue, TLAPS

(***************************************************************************)
(* The inductive invariant.  NoOrphan alone is not inductive: SetQueue     *)
(* adds a uid to kq, and only IndexedFirst knows that its time is indexed; *)
(* ClearCollect preserves IndexedFirst only because the entry of the set() *)
(* in progress is too young for the cutoff (IndexedFirst, CutoffPast).     *)
(***************************************************************************)
\* Between the halves of set() the entry of the first half is in the index, and
\* not older than Stall.
IndexedFirst ==
  rec.pc = "indexed" =>
    /\ rec.stamp \in DOMAIN timeKmsg
    /\ timeKmsg[rec.stamp] = rec.uid
    /\ now <= rec.stamp + Stall

\* The cutoff of a sweep is at least a retention period ago.
CutoffPast == clr.pc = "collect" => clr.cnow <= now - Retention

\* Entries are in hand only while the sweep erases, and all of them are old.
SweepOld ==
  /\ clr.pc # "erase" => rubsh = {}
  /\ \A e \in rubsh : e.stamp + Retention < now

Inv == TypeOK /\ IndexedFirst /\ CutoffPast /\ SweepOld

-----------------------------------------------------------------------------
LEMMA InitInv == Init => Inv
  BY TimeAssumption DEF Init, Inv, TypeOK, IndexedFirst, CutoffPast, SweepOld

LEMMA NextInv == Inv /\ [Next]_vars => Inv'
<1> SUFFICES ASSUME Inv, [Next]_vars PROVE Inv'
  OBVIOUS
<1> USE TimeAssumption, StallAssumption DEF Inv
<1>1. CASE Tick
  <2>1. TypeOK'
    BY <1>1 DEF Tick, TypeOK
  <2>2. IndexedFirst' /\ CutoffPast' /\ SweepOld'
    BY <1>1 DEF Tick, TypeOK, IndexedFirst, CutoffPast, SweepOld
  <2> QED BY <2>1, <2>2
<1>2. ASSUME NEW u \in Uids, SetTime(u) PROVE Inv'
  <2>1. /\ DOMAIN timeKmsg' = DOMAIN timeKmsg \cup {now}
        /\ timeKmsg'[now] = u
        /\ \A t \in DOMAIN timeKmsg : t # now => timeKmsg'[t] = timeKmsg[t]
        /\ timeKmsg' = [t \in DOMAIN timeKmsg' |-> timeKmsg'[t]]
    BY <1>2 DEF SetTime, Put, TypeOK
  <2>2. TypeOK'
    BY <1>2, <2>1 DEF SetTime, TypeOK
  <2>3. IndexedFirst' /\ CutoffPast' /\ SweepOld'
    BY <1>2, <2>1 DEF SetTime, TypeOK, IndexedFirst, CutoffPast, SweepOld
  <2> QED BY <2>2, <2>3
<1>3. CASE SetQueue
  <2>1. /\ DOMAIN kq' = DOMAIN kq \cup {rec.uid}
        /\ kq'[rec.uid] = now
        /\ \A u \in DOMAIN kq : u # rec.uid => kq'[u] = kq[u]
        /\ kq' = [u \in DOMAIN kq' |-> kq'[u]]
    BY <1>3 DEF SetQueue, Put, TypeOK
  <2>2. TypeOK'
    BY <1>3, <2>1 DEF SetQueue, TypeOK
  <2>3. IndexedFirst' /\ CutoffPast' /\ SweepOld'
    BY <1>3 DEF SetQueue, TypeOK, IndexedFirst, CutoffPast, SweepOld
  <2> QED BY <2>2, <2>3
<1>4. CASE ClearBegin
  BY <1>4 DEF ClearBegin, TypeOK, IndexedFirst, CutoffPast, SweepOld
<1>5. CASE ClearCollect
  <2> DEFINE old == Expired(clr.cnow)
  <2>1. /\ DOMAIN timeKmsg' = DOMAIN timeKmsg \ old
        /\ \A t \in DOMAIN timeKmsg \ old : timeKmsg'[t] = timeKmsg[t]
        /\ timeKmsg' = [t \in DOMAIN timeKmsg' |-> timeKmsg'[t]]
    BY <1>5 DEF ClearCollect, Drop, TypeOK
  <2>2. TypeOK'
    <3>1. /\ DOMAIN timeKmsg' \subseteq Nat
          /\ \A t \in DOMAIN timeKmsg' : timeKmsg'[t] \in Uids
      BY <2>1 DEF TypeOK
    <3>2. rubsh' \in SUBSET [stamp : Nat, uid : Uids]
      BY <1>5 DEF ClearCollect, TypeOK, Expired
    <3>3. clr' \in [pc : {"idle", "collect", "erase"}, cnow : Int]
      BY <1>5 DEF ClearCollect, TypeOK
    <3> QED
      BY <1>5, <2>1, <3>1, <3>2, <3>3 DEF ClearCollect, TypeOK
  <2>3. rec.pc = "indexed" => rec.stamp \notin old
    BY <1>5 DEF ClearCollect, TypeOK, IndexedFirst, CutoffPast, Expired
  <2>4. IndexedFirst'
    BY <1>5, <2>1, <2>3 DEF ClearCollect, TypeOK, IndexedFirst
  <2>5. CutoffPast' /\ SweepOld'
    BY <1>5 DEF ClearCollect, TypeOK, CutoffPast, SweepOld, Expired
  <2> QED BY <2>2, <2>4, <2>5
<1>6. CASE ClearErase
  <2>1. PICK e \in rubsh : kq' = Drop(kq, {e.uid}) /\ rubsh' = rubsh \ {e}
    BY <1>6 DEF ClearErase
  <2>2. /\ DOMAIN kq' = DOMAIN kq \ {e.uid}
        /\ \A u \in DOMAIN kq \ {e.uid} : kq'[u] = kq[u]
        /\ kq' = [u \in DOMAIN kq' |-> kq'[u]]
    BY <2>1 DEF Drop, TypeOK
  <2>3. TypeOK'
    <3>1. /\ DOMAIN kq' \subseteq Uids
          /\ \A u \in DOMAIN kq' : kq'[u] \in Nat
      BY <2>2 DEF TypeOK
    <3>2. UNCHANGED <<now, timeKmsg, rec, clr>>
      BY <1>6 DEF ClearErase
    <3>3. rubsh' \in SUBSET [stamp : Nat, uid : Uids]
      BY <2>1 DEF TypeOK
    <3> QED
      BY <2>2, <3>1, <3>2, <3>3 DEF TypeOK
  <2>4. IndexedFirst' /\ CutoffPast' /\ SweepOld'
    BY <1>6, <2>1 DEF ClearErase, TypeOK, IndexedFirst, CutoffPast, SweepOld
  <2> QED BY <2>3, <2>4
<1>7. CASE ClearEnd
  BY <1>7 DEF ClearEnd, TypeOK, IndexedFirst, CutoffPast, SweepOld
<1>8. CASE UNCHANGED vars
  BY <1>8 DEF vars, TypeOK, IndexedFirst, CutoffPast, SweepOld
<1> QED
  BY <1>1, <1>2, <1>3, <1>4, <1>5, <1>6, <1>7, <1>8
     DEF Next, KafkaThread, ClearThread

\* Type correctness of the two maps and of the locals of set() and clear(), and
\* the facts above, in every reachable state.
THEOREM Invariance == Spec => []Inv
  BY InitInv, NextInv, PTL DEF Spec

\* The maps and the locals of set() and clear() keep their types.
THEOREM TypeCorrect == Spec => []TypeOK
<1>1. Inv => TypeOK
  BY DEF Inv
<1> QED BY <1>1, Invariance, PTL

-----------------------------------------------------------------------------
\* clear() erases a uid from the shared map only on account of a registration
\* older than the retention period.
THEOREM ErasesOnlyExpired == Spec => OnlyExpiredErased
<1> DEFINE Step == \A u \in DOMAIN kq \ DOMAIN kq' :
                     \E e \in rubsh : e.uid = u /\ e.stamp + Retention < now
<1>1. Inv /\ [Next]_vars => [Step]_vars
  <2> SUFFICES ASSUME Inv, Next PROVE Step
    OBVIOUS
  <2>1. CASE ClearErase
    BY <2>1 DEF ClearErase, Drop, Inv, SweepOld
  <2>2. ASSUME NEW u \in Uids, SetTime(u) PROVE Step
    BY <2>2 DEF SetTime
  <2>3. CASE SetQueue
    BY <2>3 DEF SetQueue, Put, Inv, TypeOK
  <2>4. CASE Tick \/ ClearBegin \/ ClearCollect \/ ClearEnd
    BY <2>4 DEF Tick, ClearBegin, ClearCollect, ClearEnd
  <2> QED
    BY <2>1, <2>2, <2>3, <2>4 DEF Next, KafkaThread, ClearThread
<1> QED
  BY <1>1, Invariance, PTL DEF Spec, OnlyExpiredErased

-----------------------------------------------------------------------------
(***************************************************************************)
(* No uid is stuck.  This needs DistinctStamps: a second record stamped    *)
(* with the same time would take the place of the first one in the index.  *)
(***************************************************************************)
LEMMA NextNoOrphan ==
  ASSUME DistinctStamps, Inv, NoOrphan, [Next]_vars
  PROVE  NoOrphan'
<1> SUFFICES ASSUME NEW v \in DOMAIN kq' PROVE Covered(v)'
  BY DEF NoOrphan
<1> USE DEF Inv, TypeOK
<1>1. CASE Tick \/ ClearBegin \/ ClearEnd \/ UNCHANGED vars
  BY <1>1 DEF Tick, ClearBegin, ClearEnd, vars, NoOrphan, Covered
<1>2. ASSUME NEW u \in Uids, SetTime(u) PROVE Covered(v)'
  <2>1. /\ DOMAIN timeKmsg' = DOMAIN timeKmsg \cup {now}
        /\ \A t \in DOMAIN timeKmsg : timeKmsg'[t] = timeKmsg[t]
    BY <1>2 DEF SetTime, Put
  <2> QED
    BY <1>2, <2>1 DEF SetTime, NoOrphan, Covered
<1>3. CASE SetQueue
  <2>1. DOMAIN kq' = DOMAIN kq \cup {rec.uid}
    BY <1>3 DEF SetQueue, Put
  <2>2. CASE v = rec.uid
    BY <1>3, <2>2 DEF SetQueue, IndexedFirst, Covered
  <2>3. CASE v # rec.uid
    BY <1>3, <2>1, <2>3 DEF SetQueue, NoOrphan, Covered
  <2> QED BY <2>2, <2>3
<1>4. CASE ClearCollect
  <2>1. /\ DOMAIN timeKmsg' = DOMAIN timeKmsg \ Expired(clr.cnow)
        /\ \A t \in DOMAIN timeKmsg' : timeKmsg'[t] = timeKmsg[t]
    BY <1>4 DEF ClearCollect, Drop
  <2>2. rubsh = {}
    BY <1>4 DEF ClearCollect, SweepOld
  <2>3. PICK t \in DOMAIN timeKmsg : timeKmsg[t] = v
    BY <1>4, <2>2 DEF ClearCollect, NoOrphan, Covered
  <2>4. CASE t \in Expired(clr.cnow)
    <3>1. [stamp |-> t, uid |-> v] \in rubsh'
      BY <1>4, <2>3, <2>4 DEF ClearCollect
    <3> QED BY <3>1 DEF Covered
  <2>5. CASE t \notin Expired(clr.cnow)
    BY <2>1, <2>3, <2>5 DEF Covered
  <2> QED BY <2>4, <2>5
<1>5. CASE ClearErase
  <2>1. PICK e \in rubsh : kq' = Drop(kq, {e.uid}) /\ rubsh' = rubsh \ {e}
    BY <1>5 DEF ClearErase
  <2>2. v \in DOMAIN kq /\ v # e.uid
    BY <2>1 DEF Drop
  <2> QED
    BY <1>5, <2>1, <2>2 DEF ClearErase, NoOrphan, Covered
<1> QED
  BY <1>1, <1>2, <1>3, <1>4, <1>5 DEF Next, KafkaThread, ClearThread

\* When no two records get the same time, every uid the request threads see as
\* new is always within reach of the clear thread: set() and clear() may
\* interleave at every lock acquisition.
THEOREM NeverOrphaned == DistinctStamps /\ Spec => []NoOrphan
<1> SUFFICES ASSUME DistinctStamps PROVE Spec => []NoOrphan
  OBVIOUS
<1>1. Init => NoOrphan
  BY DEF Init, NoOrphan
<1>2. Inv /\ NoOrphan /\ [Next]_vars => NoOrphan'
  BY NextNoOrphan
<1> QED
  BY <1>1, <1>2, Invariance, PTL DEF Spec
=============================================================================
