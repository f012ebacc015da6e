------------------------- MODULE LibraryThreadProofs -------------------------
(***************************************************************************)
(* What the threads of the common library share stays whole, for any       *)
(* number of threads, items, guards and lines: the thread queue, the       *)
(* mutexes and monitors, the logger between its writers and its flushers,  *)
(* and the files it rolls.                                                 *)
(***************************************************************************)
EXTENDS Integers, Sequences, Library, TLAPS, FiniteSetTheorems, WellFoundedInduction

------------------------------------------------------------------------------
(* INV_ThreadQueue.                                                        *)

\* The module of the queue counts its threads as FiniteSets does.
LEMMA QueueCards ==
  \A X : (Q!IsFiniteSet(X) <=> IsFiniteSet(X)) /\ Q!Cardinality(X) = Cardinality(X)
<1>1. \A X : Q!IsFiniteSet(X) <=> IsFiniteSet(X)
  BY DEF Q!IsFiniteSet, IsFiniteSet
<1>2. ASSUME NEW X PROVE Q!Cardinality(X) = Cardinality(X)
  BY DEF Q!Cardinality, Cardinality
<1> QED BY <1>1, <1>2

\* Lengths add up.
LEMMA ConcatLen ==
  ASSUME NEW X, NEW a \in Seq(X), NEW b \in Seq(X)
  PROVE  a \o b \in Seq(X) /\ Len(a \o b) = Len(a) + Len(b)
  OBVIOUS

QWaits == [Poppers -> {"no", "blocked", "event", "deadline"}]
QBlocked(w) == {t \in Poppers : w[t] = "blocked"}
QWoken(w)   == {t \in Poppers : w[t] = "event"}

\* As many threads of w are woken as there are items, or none is blocked.
Enough(w, n) == n > 0 /\ QBlocked(w) # {} => Cardinality(QWoken(w)) >= n

\* The threads that are blocked, and those that were woken, can be counted.
LEMMA QFinite ==
  ASSUME NEW w
  PROVE  /\ IsFiniteSet(QBlocked(w)) /\ Cardinality(QBlocked(w)) \in Nat
         /\ IsFiniteSet(QWoken(w)) /\ Cardinality(QWoken(w)) \in Nat
<1>1. IsFiniteSet(Poppers)
  BY QueueAssumption, QueueCards DEF Q!ThreadsAssumption
<1>2. QBlocked(w) \in SUBSET Poppers /\ QWoken(w) \in SUBSET Poppers
  BY DEF QBlocked, QWoken
<1>3. IsFiniteSet(QBlocked(w)) /\ IsFiniteSet(QWoken(w))
  BY <1>1, <1>2, FS_Subset
<1> QED BY <1>3, FS_CardinalityType

\* n signals for n new items.
LEMMA QSignal ==
  ASSUME q_wait \in QWaits, NEW m \in Nat, NEW n \in Nat, Enough(q_wait, m), Q!Signal(n)
  PROVE  q_wait' \in QWaits /\ Enough(q_wait', m + n)
<1> DEFINE B == QBlocked(q_wait)
           W == QWoken(q_wait)
<1>1. Q!Blocked = B
  BY DEF Q!Blocked, QBlocked
<1>2. PICK X \in SUBSET B :
        /\ Cardinality(X) = IF n < Cardinality(B) THEN n ELSE Cardinality(B)
        /\ q_wait' = [t \in Poppers |-> IF t \in X THEN "event" ELSE q_wait[t]]
  BY <1>1, QueueCards DEF Q!Signal
<1>3. q_wait' \in QWaits
  BY <1>2 DEF QWaits
<1>4. QBlocked(q_wait') = B \ X
  BY <1>2 DEF QBlocked
<1>5. QWoken(q_wait') = W \cup X /\ W \cap X = {}
  BY <1>2 DEF QBlocked, QWoken
<1>6. /\ IsFiniteSet(B) /\ Cardinality(B) \in Nat /\ IsFiniteSet(W) /\ Cardinality(W) \in Nat
      /\ IsFiniteSet(X) /\ Cardinality(X) \in Nat
  BY QFinite, FS_Subset, FS_CardinalityType
<1> HIDE DEF B, W
<1>7. Cardinality(W \cup X) = Cardinality(W) + Cardinality(X)
  <2>1. Cardinality(W \cup X) = Cardinality(W) + Cardinality(X) - Cardinality(W \cap X)
    BY <1>6, FS_Union
  <2>2. Cardinality(W \cap X) = 0
    BY <1>5, FS_EmptySet
  <2> QED BY <1>6, <2>1, <2>2
<1>8. ASSUME m + n > 0, QBlocked(q_wait') # {} PROVE Cardinality(QWoken(q_wait')) >= m + n
  <2>1. Cardinality(X) # Cardinality(B)
    BY <1>4, <1>6, <1>8, FS_Subset
  <2>2. Cardinality(X) = n
    BY <1>2, <2>1
  <2>3. QBlocked(q_wait) # {}
    BY <1>4, <1>8 DEF B
  <2>4. m > 0 => Cardinality(W) >= m
    BY <2>3 DEF Enough, W
  <2> QED BY <1>5, <1>6, <1>7, <2>2, <2>4
<1> QED BY <1>3, <1>8 DEF Enough

\* A thread stops to be blocked.
LEMMA QUnblock ==
  ASSUME q_wait \in QWaits, NEW m \in Nat, Enough(q_wait, m), NEW t \in Poppers,
         q_wait[t] = "blocked", NEW v \in {"event", "deadline"},
         q_wait' = [q_wait EXCEPT ![t] = v]
  PROVE  q_wait' \in QWaits /\ Enough(q_wait', m)
<1>1. q_wait' \in QWaits
  BY DEF QWaits
<1>2. QBlocked(q_wait') \subseteq QBlocked(q_wait)
  BY DEF QBlocked, QWaits
<1>3. QWoken(q_wait') = QWoken(q_wait) \/ QWoken(q_wait') = QWoken(q_wait) \cup {t}
  BY DEF QWoken, QWaits
<1>4. Cardinality(QWoken(q_wait')) >= Cardinality(QWoken(q_wait))
  <2> DEFINE W == QWoken(q_wait)
             A == W \cup {t}
  <2>1. IsFiniteSet(W) /\ Cardinality(W) \in Nat
    BY QFinite
  <2>2. QWoken(q_wait') = W \/ QWoken(q_wait') = A
    BY <1>3
  <2> HIDE DEF W
  <2>3. Cardinality(A) = IF t \in W THEN Cardinality(W) ELSE Cardinality(W) + 1
    BY <2>1, FS_AddElement
  <2> HIDE DEF A
  <2>4. Cardinality(QWoken(q_wait')) >= Cardinality(W)
    BY <2>1, <2>2, <2>3
  <2> QED BY <2>4 DEF W
<1>5. ASSUME m > 0, QBlocked(q_wait') # {} PROVE Cardinality(QWoken(q_wait')) >= m
  <2>1. Cardinality(QWoken(q_wait)) >= m
    BY <1>2, <1>5 DEF Enough
  <2>2. Cardinality(QWoken(q_wait)) \in Nat /\ Cardinality(QWoken(q_wait')) \in Nat
    BY QFinite
  <2> QED BY <1>4, <2>1, <2>2
<1> QED BY <1>1, <1>5 DEF Enough

\* A thread that was not blocked goes on.
LEMMA QLeave ==
  ASSUME q_wait \in QWaits, NEW m \in Nat, Enough(q_wait, m), NEW t \in Poppers,
         q_wait[t] \in {"event", "deadline"}, q_wait' = [q_wait EXCEPT ![t] = "no"]
  PROVE  /\ q_wait' \in QWaits
         /\ q_wait[t] = "event" /\ m > 0 => Enough(q_wait', m - 1)
         /\ q_wait[t] = "deadline" => Enough(q_wait', m)
<1>1. q_wait' \in QWaits
  BY DEF QWaits
<1>2. QBlocked(q_wait') = QBlocked(q_wait)
  BY DEF QBlocked, QWaits
<1>3. QWoken(q_wait') = QWoken(q_wait) \ {t}
  BY DEF QWoken, QWaits
<1>4. Cardinality(QWoken(q_wait')) =
        IF q_wait[t] = "event" THEN Cardinality(QWoken(q_wait)) - 1
        ELSE Cardinality(QWoken(q_wait))
  BY <1>3, QFinite, FS_RemoveElement DEF QWoken
<1>5. Cardinality(QWoken(q_wait)) \in Nat
  BY QFinite
<1>6. CASE q_wait[t] = "deadline"
  BY <1>1, <1>2, <1>4, <1>6 DEF Enough
<1>7. CASE q_wait[t] = "event"
  <2>1. ASSUME m > 0, m - 1 > 0, QBlocked(q_wait') # {}
        PROVE  Cardinality(QWoken(q_wait')) >= m - 1
    <3>1. Cardinality(QWoken(q_wait)) >= m
      BY <1>2, <2>1 DEF Enough
    <3> QED BY <1>4, <1>5, <1>7, <3>1
  <2> QED BY <1>1, <1>7, <2>1 DEF Enough
<1> QED BY <1>6, <1>7

QType ==
  /\ q_queue \in Seq(Items) /\ q_size \in Nat /\ q_size >= Len(q_queue)
  /\ q_call \in [Poppers -> (Q!Calls \cup {"none"}) \X Q!Timeouts]
  /\ q_wait \in QWaits
  /\ ~q_swapped => q_size = Len(q_queue)
QInv == QType /\ q_swapped \in BOOLEAN /\ Enough(q_wait, Len(q_queue))

\* The queue begins empty, with no one in it.
LEMMA QueueInit == Q!Init => QInv
<1> SUFFICES ASSUME Q!Init PROVE QInv
  OBVIOUS
<1>1. q_swapped \in BOOLEAN
  BY Zenon DEF Q!Init
<1>2. Enough(q_wait, Len(q_queue))
  BY DEF Q!Init, Enough
<1>3. QType
  BY DEF Q!Init, QType, QWaits, Q!Calls, Q!Timeouts
<1> QED BY <1>1, <1>2, <1>3 DEF QInv

\* Items arrive.
LEMMA QueuePut ==
  ASSUME QInv, NEW s \in Seq(Items), NEW q \in Seq(Items), Len(q) = Len(q_queue) + Len(s),
         Q!PutAll(s, q)
  PROVE  QInv'
<1>1. Len(q_queue) \in Nat /\ Len(s) \in Nat
  BY DEF QInv, QType
<1>2. q_wait' \in QWaits /\ Enough(q_wait', Len(q_queue) + Len(s))
  BY <1>1, QSignal DEF Q!PutAll, QInv, QType
<1>3. q_queue' = q /\ q_size' = q_size + Len(s) /\ UNCHANGED <<q_call, q_swapped>>
  BY DEF Q!PutAll
<1>4. Enough(q_wait', Len(q_queue'))
  BY <1>2, <1>3
<1>5. q_swapped' = q_swapped /\ q_swapped' \in BOOLEAN
  BY Zenon, <1>3 DEF QInv
<1>6. QType'
  <2>1. /\ q_queue' \in Seq(Items) /\ q_size' \in Nat /\ q_size' >= Len(q_queue')
        /\ q_size = Len(q_queue) => q_size' = Len(q_queue')
    BY <1>1, <1>3 DEF QInv, QType
  <2> QED BY <1>2, <1>3, <1>5, <2>1 DEF QInv, QType
<1> QED BY <1>4, <1>5, <1>6 DEF QInv

\* What a call that looks at the queue takes: at most one item, or all.
LEMMA QueueFinish ==
  ASSUME QInv, NEW c, Q!Finish(c, <<>>)
  PROVE  /\ q_queue' \in Seq(Items) /\ q_size' \in Nat /\ q_size' >= Len(q_queue')
         /\ q_swapped' \in BOOLEAN
         /\ ~q_swapped' => q_size' = Len(q_queue')
         /\ Len(q_queue') = Len(q_queue) \/ Len(q_queue') = 0
            \/ (Len(q_queue) > 0 /\ Len(q_queue') = Len(q_queue) - 1)
<1>1. CASE Q!Take
  <2>1. q_queue' \in Seq(Items) /\ Len(q_queue') = Len(q_queue) - 1 /\ Len(q_queue) > 0
    BY <1>1 DEF Q!Take, QInv, QType
  <2>2. q_swapped' \in BOOLEAN
    BY Zenon, <1>1 DEF Q!Take, QInv
  <2>3. q_swapped' = q_swapped /\ q_size' = q_size - 1
    BY <1>1 DEF Q!Take
  <2> QED BY <2>1, <2>2, <2>3 DEF QInv, QType
<1>2. CASE Q!Exchange(<<>>)
  <2>1. q_queue' = <<>> /\ q_size' = Len(q_queue) /\ q_swapped' = TRUE
    BY <1>2 DEF Q!Exchange
  <2>2. q_swapped' \in BOOLEAN
    BY Zenon, <2>1
  <2> QED BY <2>1, <2>2 DEF QInv, QType
<1>3. CASE UNCHANGED <<q_queue, q_size, q_swapped>>
  BY <1>3 DEF QInv, QType
<1> QED BY <1>1, <1>2, <1>3 DEF Q!Finish

\* No operation of the queue disturbs its invariant.
LEMMA QueueStep == QInv /\ [Q!Next]_varsQ => QInv'
<1> SUFFICES ASSUME QInv, [Q!Next]_varsQ PROVE QInv'
  OBVIOUS
<1>0. q_queue \in Seq(Items) /\ Len(q_queue) \in Nat /\ q_wait \in QWaits
      /\ Enough(q_wait, Len(q_queue))
  BY DEF QInv, QType
<1>1. CASE Q!Put
  <2>1. ASSUME NEW x \in Items, Q!PushBack(x) PROVE QInv'
    <3>1. <<x>> \in Seq(Items) /\ Len(<<x>>) = 1 /\ Append(q_queue, x) \in Seq(Items)
          /\ Len(Append(q_queue, x)) = Len(q_queue) + 1
      BY <1>0
    <3> QED BY <2>1, <3>1, QueuePut DEF Q!PushBack
  <2>2. ASSUME NEW x \in Items, Q!PushFront(x) PROVE QInv'
    <3>1. <<x>> \in Seq(Items) /\ Len(<<x>>) = 1 /\ <<x>> \o q_queue \in Seq(Items)
          /\ Len(<<x>> \o q_queue) = Len(q_queue) + 1
      BY <1>0
    <3> QED BY <2>2, <3>1, QueuePut DEF Q!PushFront
  <2>3. ASSUME NEW x \in Items, NEW y \in Items, Q!PushBackAll(<<x, y>>) PROVE QInv'
    <3>1. <<x, y>> \in Seq(Items) /\ Len(<<x, y>>) = 2 /\ q_queue \o <<x, y>> \in Seq(Items)
          /\ Len(q_queue \o <<x, y>>) = Len(q_queue) + 2
      BY <1>0
    <3> QED BY <2>3, <3>1, QueuePut DEF Q!PushBackAll
  <2>4. ASSUME NEW x \in Items, NEW y \in Items, Q!PushFrontAll(<<x, y>>) PROVE QInv'
    <3>1. <<x, y>> \in Seq(Items) /\ Len(<<x, y>>) = 2
      OBVIOUS
    <3>2. Q!Reverse(<<x, y>>) \in Seq(Items) /\ Len(Q!Reverse(<<x, y>>)) = 2
      BY <3>1 DEF Q!Reverse
    <3>3. PICK r \in Seq(Items) : r = Q!Reverse(<<x, y>>) /\ Len(r) = 2
      BY <3>2
    <3>4. r \o q_queue \in Seq(Items) /\ Len(r \o q_queue) = Len(q_queue) + 2
      <4>1. r \o q_queue \in Seq(Items) /\ Len(r \o q_queue) = Len(r) + Len(q_queue)
        BY <1>0, ConcatLen
      <4>2. Len(r) = 2
        BY <3>3
      <4> QED BY <1>0, <4>1, <4>2
    <3>5. Q!PutAll(<<x, y>>, r \o q_queue)
      BY <2>4, <3>3 DEF Q!PushFrontAll
    <3> QED BY <3>1, <3>4, <3>5, QueuePut
  <2> QED BY <1>1, <2>1, <2>2, <2>3, <2>4 DEF Q!Put
<1>2. CASE Q!NotifyT
  <2>1. Q!Cardinality(Poppers) \in Nat
    BY QueueAssumption, QueueCards, FS_CardinalityType DEF Q!ThreadsAssumption
  <2>2. q_wait' \in QWaits /\ Enough(q_wait', Len(q_queue) + Q!Cardinality(Poppers))
    BY <1>0, <1>2, <2>1, QSignal DEF Q!NotifyT
  <2>3. Enough(q_wait', Len(q_queue))
    BY <1>0, <2>1, <2>2, QFinite DEF Enough
  <2> QED BY <1>2, <2>2, <2>3 DEF Q!NotifyT, QInv, QType
<1>3. CASE Q!Clear
  <2>1. Enough(q_wait', Len(q_queue'))
    BY <1>3 DEF Q!Clear, Enough
  <2> QED BY <1>3, <2>1 DEF Q!Clear, QInv, QType
<1>4. ASSUME NEW t \in Poppers, NEW c \in Q!Calls, NEW ms \in Q!Timeouts,
             Q!CallNow(t, c, ms, <<>>)
      PROVE  QInv'
  <2>1. Q!Finish(c, <<>>) /\ UNCHANGED <<q_call, q_wait>>
    BY <1>4 DEF Q!CallNow
  <2>2. Enough(q_wait', Len(q_queue'))
    BY <1>0, <2>1, QueueFinish, QFinite DEF Enough
  <2> QED BY <2>1, <2>2, QueueFinish DEF QInv, QType
<1>5. ASSUME NEW t \in Poppers, NEW c \in Q!Calls, NEW ms \in Q!Timeouts,
             Q!CallBlocks(t, c, ms)
      PROVE  QInv'
  <2>1. q_queue' = <<>> /\ q_wait' \in QWaits
        /\ q_call' \in [Poppers -> (Q!Calls \cup {"none"}) \X Q!Timeouts]
    BY <1>0, <1>5 DEF Q!CallBlocks, QWaits, QInv, QType
  <2>2. Enough(q_wait', Len(q_queue'))
    BY <2>1 DEF Enough
  <2> QED BY <1>5, <2>1, <2>2 DEF Q!CallBlocks, QInv, QType
<1>6. ASSUME NEW t \in Poppers, Q!Spurious(t) PROVE QInv'
  <2>1. q_wait' \in QWaits /\ Enough(q_wait', Len(q_queue))
    BY <1>0, <1>6, QUnblock DEF Q!Spurious
  <2> QED BY <1>6, <2>1 DEF Q!Spurious, QInv, QType
<1>7. ASSUME NEW t \in Poppers, Q!Deadline(t) PROVE QInv'
  <2>1. q_wait' \in QWaits /\ Enough(q_wait', Len(q_queue))
    BY <1>0, <1>7, QUnblock DEF Q!Deadline
  <2> QED BY <1>7, <2>1 DEF Q!Deadline, QInv, QType
<1>8. ASSUME NEW t \in Poppers, Q!Wake(t, <<>>) PROVE QInv'
  <2>1. /\ q_wait[t] \in {"event", "deadline"} /\ q_wait' = [q_wait EXCEPT ![t] = "no"]
        /\ q_call' = [q_call EXCEPT ![t] = <<"none", "now">>]
    BY <1>8 DEF Q!Wake
  <2>2. q_call' \in [Poppers -> (Q!Calls \cup {"none"}) \X Q!Timeouts]
    BY <2>1 DEF QInv, QType, Q!Timeouts
  <2>3. CASE q_wait[t] = "deadline"
    <3>1. UNCHANGED <<q_queue, q_size, q_swapped>>
      BY <1>8, <2>3 DEF Q!Wake
    <3>2. q_wait' \in QWaits /\ Enough(q_wait', Len(q_queue))
      BY <1>0, <2>1, <2>3, QLeave
    <3> QED BY <2>2, <3>1, <3>2 DEF QInv, QType
  <2>4. CASE q_wait[t] = "event"
    <3>1. Q!Finish(q_call[t][1], <<>>)
      BY <1>8, <2>4 DEF Q!Wake
    <3>2. q_wait' \in QWaits /\ (Len(q_queue) > 0 => Enough(q_wait', Len(q_queue) - 1))
      BY <1>0, <2>1, <2>4, QLeave
    <3>3. Len(q_queue') = 0 \/ (Len(q_queue) > 0 /\ Len(q_queue') = Len(q_queue) - 1)
      <4>1. Q!Take => Len(q_queue) > 0 /\ Len(q_queue') = Len(q_queue) - 1
        BY <1>0 DEF Q!Take
      <4>2. Q!Exchange(<<>>) => Len(q_queue') = 0
        BY DEF Q!Exchange
      <4>3. q_queue = <<>> /\ UNCHANGED q_queue => Len(q_queue') = 0
        OBVIOUS
      <4> QED BY <3>1, <4>1, <4>2, <4>3 DEF Q!Finish
    <3>4. Enough(q_wait', Len(q_queue'))
      BY <3>2, <3>3 DEF Enough
    <3> QED BY <2>2, <3>1, <3>2, <3>4, QueueFinish DEF QInv, QType
  <2> QED BY <2>1, <2>3, <2>4
<1>9. CASE UNCHANGED varsQ
  BY <1>9 DEF varsQ, QInv, QType
<1> QED
  BY <1>1, <1>2, <1>3, <1>4, <1>5, <1>6, <1>7, <1>8, <1>9 DEF Q!Next

\* What the invariant of the queue promises.
LEMMA QueueImplies == QInv => Q!TypeOK /\ Q!NoLostWakeup /\ Q!SizeExact
<1> SUFFICES ASSUME QInv PROVE Q!TypeOK /\ Q!NoLostWakeup /\ Q!SizeExact
  OBVIOUS
<1>1. Q!NoLostWakeup
  BY QueueCards DEF QInv, QType, Enough, QBlocked, QWoken, Q!NoLostWakeup, Q!Blocked, Q!Woken
<1> QED BY <1>1 DEF QInv, QType, QWaits, Q!TypeOK, Q!SizeExact

------------------------------------------------------------------------------
(* INV_ThreadMutex, INV_Monitor and their guards.                          *)

\* The module of the locks counts as FiniteSets does.
LEMMA LockCards ==
  \A X : (L!IsFiniteSet(X) <=> IsFiniteSet(X)) /\ L!Cardinality(X) = Cardinality(X)
<1>1. \A X : L!IsFiniteSet(X) <=> IsFiniteSet(X)
  BY DEF L!IsFiniteSet, IsFiniteSet
<1>2. ASSUME NEW X PROVE L!Cardinality(X) = Cardinality(X)
  BY DEF L!Cardinality, Cardinality
<1> QED BY <1>1, <1>2

\* How many of the guards g have the lock.
Trues(g) == Cardinality({i \in DOMAIN g : g[i]})

\* The guards that hold the mutex can be counted.
LEMMA TruesType ==
  /\ Trues(<<>>) = 0
  /\ \A g \in Seq(BOOLEAN) : Trues(g) \in Nat
<1>1. Trues(<<>>) = 0
  <2>1. {i \in DOMAIN <<>> : <<>>[i]} = {}
    OBVIOUS
  <2> QED BY <2>1, FS_EmptySet DEF Trues
<1>2. ASSUME NEW g \in Seq(BOOLEAN) PROVE Trues(g) \in Nat
  <2>1. {i \in DOMAIN g : g[i]} \in SUBSET (1 .. Len(g))
    OBVIOUS
  <2>2. IsFiniteSet({i \in DOMAIN g : g[i]})
    BY <2>1, FS_Interval, FS_Subset
  <2> QED BY <2>2, FS_CardinalityType DEF Trues
<1> QED BY <1>1, <1>2

\* A guard more, at the top, that holds or does not.
LEMMA TruesCons ==
  ASSUME NEW b \in BOOLEAN, NEW g \in Seq(BOOLEAN)
  PROVE  /\ <<b>> \o g \in Seq(BOOLEAN)
         /\ Trues(<<b>> \o g) = IF b THEN Trues(g) + 1 ELSE Trues(g)
<1> DEFINE h == <<b>> \o g
           I == {i \in DOMAIN g : g[i]}
           J == {i + 1 : i \in I}
           f == [i \in I |-> i + 1]
<1>1. h \in Seq(BOOLEAN) /\ Len(h) = Len(g) + 1 /\ h[1] = b
      /\ \A i \in 1 .. Len(g) : h[i + 1] = g[i]
  OBVIOUS
<1>2. I \in SUBSET (1 .. Len(g)) /\ 1 \notin J
  OBVIOUS
<1>3. IsFiniteSet(I)
  BY <1>2, FS_Interval, FS_Subset
<1>4. IsFiniteSet(J) /\ Cardinality(J) = Cardinality(I)
  <2>1. f \in Bijection(I, J)
    <3>1. f \in [I -> J] /\ (\A j \in J : \E i \in I : f[i] = j)
      BY <1>2
    <3>2. \A i, j \in I : f[i] = f[j] => i = j
      BY <1>2
    <3> HIDE DEF f, I, J
    <3> QED BY <3>1, <3>2 DEF Bijection, Injection, Surjection, IsInjective
  <2> QED BY <1>3, <2>1, FS_Bijection DEF ExistsBijection
<1>5. {i \in DOMAIN h : h[i]} = IF b THEN J \cup {1} ELSE J
  <2>1. ASSUME NEW i PROVE i \in DOMAIN h /\ h[i] <=> i \in J \/ (b /\ i = 1)
    <3>1. ASSUME i \in DOMAIN h, h[i], i # 1 PROVE i \in J
      <4>1. i - 1 \in 1 .. Len(g) /\ (i - 1) + 1 = i
        BY <1>1, <3>1
      <4>2. g[i - 1]
        BY <1>1, <3>1, <4>1
      <4> QED BY <4>1, <4>2
    <3>2. ASSUME i \in J PROVE i \in DOMAIN h /\ h[i]
      <4>1. PICK k \in 1 .. Len(g) : g[k] /\ i = k + 1
        BY <3>2
      <4> QED BY <1>1, <4>1
    <3>3. 1 \in DOMAIN h /\ (h[1] <=> b)
      BY <1>1
    <3> HIDE DEF h, J
    <3>4. CASE i = 1
      BY <1>2, <3>3, <3>4, Zenon
    <3>5. CASE i # 1
      BY <3>1, <3>2, <3>5, Zenon
    <3> QED BY <3>4, <3>5
  <2> HIDE DEF h, J
  <2> QED BY <2>1
<1>6. Cardinality(I) \in Nat
  BY <1>3, FS_CardinalityType
<1> HIDE DEF h, I, J
<1>7. Cardinality({i \in DOMAIN h : h[i]}) = IF b THEN Cardinality(I) + 1 ELSE Cardinality(I)
  BY <1>2, <1>4, <1>5, FS_AddElement
<1> QED BY <1>1, <1>7 DEF Trues, h, I

\* The guard at the top is gone.
LEMMA TruesTail ==
  ASSUME NEW g \in Seq(BOOLEAN), g # <<>>
  PROVE  /\ Head(g) \in BOOLEAN /\ Tail(g) \in Seq(BOOLEAN)
         /\ Trues(g) = IF Head(g) THEN Trues(Tail(g)) + 1 ELSE Trues(Tail(g))
<1>1. Head(g) \in BOOLEAN /\ Tail(g) \in Seq(BOOLEAN)
  OBVIOUS
<1>2. g = <<Head(g)>> \o Tail(g)
  OBVIOUS
<1> QED BY <1>1, <1>2, TruesCons

-----------------------------------------------------------------------------
LA(t) == Trues(l_guards[t])

LType ==
  /\ l_kind \in {"plain", "recursive", "rw"}
  /\ l_owner \in Lockers \cup {L!Nobody} /\ l_count \in Nat /\ l_nnotify \in Int
  /\ l_guards \in [Lockers -> Seq(BOOLEAN)]
  /\ l_saved \in [Lockers -> Nat]
  /\ l_state \in [Lockers -> {"runs", "blocked", "woken"}]
  /\ l_readers \in [Lockers -> Nat] /\ l_writer \in Lockers \cup {L!Nobody}

\* The monitor.  What a thread's guards have is never more than the count, and all
\* of it while it waits is in saved.
LMonitor ==
  /\ l_depth = IF l_owner = L!Nobody THEN 0 ELSE 1
  /\ l_owner = L!Nobody \/ ~L!recursive => l_count = 0
  /\ l_owner # L!Nobody /\ L!recursive => l_count >= 1 /\ l_count >= LA(l_owner)

LThreads == \A t \in Lockers :
  /\ ~L!recursive => LA(t) <= 1
  /\ L!Runs(t) /\ LA(t) > 0 => l_owner = t
  /\ ~L!Runs(t) => l_owner # t
  /\ ~L!Runs(t) /\ L!recursive => l_saved[t] >= 1 /\ l_saved[t] >= LA(t)
  /\ ~L!Runs(t) /\ ~L!recursive => l_saved[t] = 0

\* And as much, as long as tryAcquire was not misused.
LExact ==
  /\ l_owner # L!Nobody /\ L!recursive => l_count = LA(l_owner)
  /\ \A t \in Lockers :
       /\ L!Runs(t) /\ l_owner = t => LA(t) > 0
       /\ ~L!Runs(t) => LA(t) > 0
       /\ ~L!Runs(t) /\ L!recursive => l_saved[t] = LA(t)

LInv == l_misused \in BOOLEAN /\ LType /\ LMonitor /\ LThreads /\ (~l_misused => LExact)

\* At the start no one holds a mutex and there is no guard.
LEMMA LocksInit == L!Init => LInv
<1> SUFFICES ASSUME L!Init PROVE LInv
  OBVIOUS
<1>1. l_misused \in BOOLEAN
  BY Zenon DEF L!Init
<1>2. LType
  BY DEF L!Init, LType
<1>3. \A t \in Lockers : LA(t) = 0
  BY TruesType DEF L!Init, LA
<1>4. LMonitor /\ LThreads /\ LExact
  BY <1>3, LocksAssumption DEF L!Init, LMonitor, LThreads, LExact, L!Runs, L!ThreadsAssumption
<1> QED BY <1>1, <1>2, <1>4 DEF LInv

\* The count of a thread, now and in the next state.
LEMMA LATypes == LType => \A t \in Lockers : LA(t) \in Nat /\ LA(t)' = Trues(l_guards'[t])
  BY TruesType DEF LType, LA

\* The monitor as a thread with m of its guards locked locks it for one more at
\* most, unlocks it for one, or leaves it.
LockMove(t, m, n) ==
  \/ /\ L!CanLock(t) /\ l_owner' = t /\ l_depth' = 1
     /\ l_count' = IF L!recursive THEN l_count + 1 ELSE l_count
     /\ n >= 1 /\ n <= m + 1 /\ (~l_misused' => n = m + 1)
  \/ /\ m > 0 /\ n = m - 1
     /\ l_count' = IF L!recursive THEN l_count - 1 ELSE l_count
     /\ IF l_count' = 0 THEN l_owner' = L!Nobody /\ l_depth' = 0
        ELSE UNCHANGED <<l_owner, l_depth>>
  \/ /\ UNCHANGED <<l_owner, l_depth, l_count>>
     /\ n <= m /\ (~l_misused' => n = m)

\* A thread that runs moves its guards from those it had to g.
LEMMA LocksGuard ==
  ASSUME LInv, NEW t \in Lockers, L!Runs(t), NEW g \in Seq(BOOLEAN),
         l_guards' = [l_guards EXCEPT ![t] = g], LockMove(t, LA(t), Trues(g)),
         UNCHANGED <<l_kind, l_saved, l_readers, l_writer>>,
         l_nnotify' \in Int, l_state' \in [Lockers -> {"runs", "blocked", "woken"}],
         \A u \in Lockers : l_state'[u] = "runs" <=> l_state[u] = "runs",
         l_misused' \in BOOLEAN, l_misused => l_misused'
  PROVE  LInv'
<1> DEFINE m == LA(t)
           n == Trues(g)
<1>1. m \in Nat /\ n \in Nat /\ \A u \in Lockers : LA(u) \in Nat
  BY LATypes, TruesType DEF LInv
<1>2. \A u \in Lockers : LA(u)' = IF u = t THEN n ELSE LA(u)
  <2>1. \A u \in Lockers : l_guards'[u] = IF u = t THEN g ELSE l_guards[u]
    BY DEF LInv, LType
  <2> QED BY <2>1 DEF LA
<1>3. t # L!Nobody /\ L!Nobody \notin Lockers
  BY LocksAssumption DEF L!ThreadsAssumption
<1>4. (L!recursive)' <=> L!recursive
  BY DEF L!recursive
<1>5. \A u \in Lockers : (L!Runs(u))' <=> L!Runs(u)
  BY DEF L!Runs
<1>6. l_owner \in Lockers \cup {L!Nobody} /\ l_count \in Nat
  BY DEF LInv, LType
<1>7. LockMove(t, m, n) /\ l_saved' = l_saved
  OBVIOUS
<1>8. LMonitor /\ LThreads /\ (~l_misused' => LExact)
  BY DEF LInv
<1>9. l_saved \in [Lockers -> Nat]
  BY DEF LInv, LType
<1> HIDE DEF m, n
<1>10. m = LA(t)
  BY DEF m
<1>11. LMonitor' /\ LThreads' /\ l_count' \in Nat /\ l_owner' \in Lockers \cup {L!Nobody}
  <2> USE <1>1, <1>2, <1>3, <1>4, <1>5, <1>6, <1>7, <1>8, <1>9, <1>10
  <2>1. CASE L!CanLock(t) /\ l_owner' = t /\ l_depth' = 1
             /\ l_count' = (IF L!recursive THEN l_count + 1 ELSE l_count)
             /\ n >= 1 /\ n <= m + 1
    <3>1. LMonitor' /\ l_count' \in Nat /\ l_owner' \in Lockers \cup {L!Nobody}
      BY <2>1 DEF LMonitor, LThreads, L!CanLock
    <3>2. LThreads'
      BY <2>1 DEF LMonitor, LThreads, L!CanLock
    <3> QED BY <3>1, <3>2
  <2>2. CASE m > 0 /\ n = m - 1 /\ l_count' = (IF L!recursive THEN l_count - 1 ELSE l_count)
             /\ IF l_count' = 0 THEN l_owner' = L!Nobody /\ l_depth' = 0
                ELSE UNCHANGED <<l_owner, l_depth>>
    <3>1. LMonitor' /\ l_count' \in Nat /\ l_owner' \in Lockers \cup {L!Nobody}
      BY <2>2 DEF LMonitor, LThreads
    <3>2. LThreads'
      BY <2>2 DEF LMonitor, LThreads
    <3> QED BY <3>1, <3>2
  <2>3. CASE UNCHANGED <<l_owner, l_depth, l_count>> /\ n <= m
    <3>1. LMonitor' /\ l_count' \in Nat /\ l_owner' \in Lockers \cup {L!Nobody}
      BY <2>3 DEF LMonitor, LThreads
    <3>2. LThreads'
      BY <2>3 DEF LMonitor, LThreads
    <3> QED BY <3>1, <3>2
  <2> QED BY <2>1, <2>2, <2>3 DEF LockMove
<1>12. ASSUME ~l_misused' PROVE LExact'
  <2> USE <1>1, <1>2, <1>3, <1>4, <1>5, <1>6, <1>8, <1>9, <1>10, <1>12
  <2>1. CASE L!CanLock(t) /\ l_owner' = t
             /\ l_count' = (IF L!recursive THEN l_count + 1 ELSE l_count)
             /\ n = m + 1
    BY <2>1, <1>7 DEF LMonitor, LThreads, LExact, L!CanLock
  <2>2. CASE m > 0 /\ n = m - 1 /\ l_count' = (IF L!recursive THEN l_count - 1 ELSE l_count)
             /\ IF l_count' = 0 THEN l_owner' = L!Nobody ELSE UNCHANGED l_owner
    BY <2>2, <1>7 DEF LMonitor, LThreads, LExact
  <2>3. CASE UNCHANGED <<l_owner, l_count>> /\ n = m
    BY <2>3, <1>7 DEF LMonitor, LThreads, LExact
  <2> QED BY <1>7, <2>1, <2>2, <2>3 DEF LockMove
<1>13. LType'
  BY <1>11 DEF LInv, LType
<1> QED BY <1>11, <1>12, <1>13 DEF LInv

\* Only threads that are blocked are notified.
LEMMA LocksNotified == \A X \in L!Notified : X \in SUBSET L!Blocked
  BY DEF L!Notified

\* Threads that are woken still do not run: WaitEnds lets them.
LEMMA LocksWake ==
  ASSUME LInv, L!WakeSome
  PROVE  /\ l_state' \in [Lockers -> {"runs", "blocked", "woken"}]
         /\ \A u \in Lockers : l_state'[u] = "runs" <=> l_state[u] = "runs"
<1>1. PICK X \in SUBSET L!Blocked :
        l_state' = [t \in Lockers |-> IF t \in X THEN "woken" ELSE l_state[t]]
  BY LocksNotified DEF L!WakeSome
<1>2. \A t \in X : l_state[t] = "blocked"
  BY DEF L!Blocked
<1> QED BY <1>1, <1>2 DEF LInv, LType

\* A new guard of a thread, and another state of its innermost one.
LEMMA LocksPush ==
  ASSUME LInv, NEW t \in Lockers, NEW b \in BOOLEAN
  PROVE  /\ <<b>> \o l_guards[t] \in Seq(BOOLEAN)
         /\ Trues(<<b>> \o l_guards[t]) = IF b THEN LA(t) + 1 ELSE LA(t)
  BY TruesCons DEF LInv, LType, LA

\* The guard at the top is set or reset.
LEMMA LocksTop ==
  ASSUME LInv, NEW t \in Lockers, NEW b \in BOOLEAN, l_guards[t] # <<>>
  PROVE  /\ L!Top(t) \in BOOLEAN
         /\ Tail(l_guards[t]) \in Seq(BOOLEAN) /\ <<b>> \o Tail(l_guards[t]) \in Seq(BOOLEAN)
         /\ Trues(Tail(l_guards[t])) = IF L!Top(t) THEN LA(t) - 1 ELSE LA(t)
         /\ Trues(<<b>> \o Tail(l_guards[t])) =
              (IF L!Top(t) THEN LA(t) - 1 ELSE LA(t)) + (IF b THEN 1 ELSE 0)
<1>1. l_guards[t] \in Seq(BOOLEAN)
  BY DEF LInv, LType
<1>2. /\ L!Top(t) \in BOOLEAN /\ Tail(l_guards[t]) \in Seq(BOOLEAN)
      /\ LA(t) = IF L!Top(t) THEN Trues(Tail(l_guards[t])) + 1 ELSE Trues(Tail(l_guards[t]))
  BY <1>1, TruesTail DEF L!Top, LA
<1>3. Trues(Tail(l_guards[t])) \in Nat
  BY <1>2, TruesType
<1>4. /\ <<b>> \o Tail(l_guards[t]) \in Seq(BOOLEAN)
      /\ Trues(<<b>> \o Tail(l_guards[t])) =
           IF b THEN Trues(Tail(l_guards[t])) + 1 ELSE Trues(Tail(l_guards[t]))
  BY <1>2, TruesCons
<1>5. Trues(Tail(l_guards[t])) = IF L!Top(t) THEN LA(t) - 1 ELSE LA(t)
  BY <1>2, <1>3
<1> QED BY <1>2, <1>3, <1>4, <1>5

\* For the provers: what is a truth value.
LEMMA LocksBools == TRUE \in BOOLEAN /\ FALSE \in BOOLEAN /\ \A t : L!CanLock(t) \in BOOLEAN
  BY Zenon DEF L!CanLock

\* A guard is built, and locks or not.
LEMMA LocksBuild ==
  ASSUME LInv, NEW t \in Lockers, L!Build(t) \/ L!BuildTry(t)
  PROVE  LInv'
<1>1. /\ L!Runs(t) /\ UNCHANGED <<l_kind, l_saved, l_state, l_misused, l_readers, l_writer>>
  BY DEF L!Build, L!BuildTry, L!rwVars
<1>2. LA(t) \in Nat
  BY LATypes DEF LInv
<1>3. PICK b \in BOOLEAN :
        /\ l_guards' = [l_guards EXCEPT ![t] = <<b>> \o l_guards[t]]
        /\ b <=> L!CanLock(t)
        /\ IF b THEN L!Lock(t) ELSE UNCHANGED <<l_owner, l_depth, l_count, l_nnotify>>
  <2>1. CASE L!Build(t)
    BY <2>1, LocksBools DEF L!Build, L!Lock, L!MutexLock
  <2>2. CASE L!BuildTry(t)
    BY <2>2, LocksBools DEF L!BuildTry, L!TryLock, L!monitor
  <2> QED BY <2>1, <2>2
<1>4. LockMove(t, LA(t), Trues(<<b>> \o l_guards[t]))
  <2>1. Trues(<<b>> \o l_guards[t]) = IF b THEN LA(t) + 1 ELSE LA(t)
    BY LocksPush
  <2> QED BY <1>2, <1>3, <2>1 DEF LockMove, L!Lock, L!MutexLock
<1>5. l_nnotify' \in Int
  BY <1>3 DEF L!Lock, LInv, LType
<1>6. l_misused' \in BOOLEAN /\ (l_misused => l_misused')
  BY <1>1 DEF LInv
<1>7. /\ l_state' \in [Lockers -> {"runs", "blocked", "woken"}]
      /\ \A u \in Lockers : l_state'[u] = "runs" <=> l_state[u] = "runs"
  BY <1>1 DEF LInv, LType
<1> QED BY <1>1, <1>3, <1>4, <1>5, <1>6, <1>7, LocksPush, LocksGuard

\* A guard acquires what it had released.
LEMMA LocksAcquire ==
  ASSUME LInv, NEW t \in Lockers, L!Acquire(t) \/ L!TryAcquire(t)
  PROVE  LInv'
<1>1. /\ L!Runs(t) /\ UNCHANGED <<l_kind, l_saved, l_state, l_readers, l_writer>>
      /\ l_guards[t] # <<>>
  BY DEF L!Acquire, L!TryAcquire, L!rwVars
<1>2. LA(t) \in Nat /\ L!Top(t) \in BOOLEAN
  BY <1>1, LATypes, LocksTop, LocksBools DEF LInv
<1>3. PICK b \in BOOLEAN :
        /\ l_guards' = [l_guards EXCEPT ![t] = <<b>> \o Tail(l_guards[t])]
        /\ b <=> L!CanLock(t)
        /\ IF b THEN L!Lock(t) ELSE UNCHANGED <<l_owner, l_depth, l_count, l_nnotify>>
  <2>1. CASE L!Acquire(t)
    BY <2>1, LocksBools DEF L!Acquire, L!Lock, L!MutexLock, L!SetTop
  <2>2. CASE L!TryAcquire(t)
    BY <2>2, LocksBools DEF L!TryAcquire, L!TryLock, L!monitor, L!SetTop
  <2> QED BY <2>1, <2>2
<1>4. l_misused' \in BOOLEAN
  BY Zenon DEF L!Acquire, L!TryAcquire, LInv
<1>5. (l_misused => l_misused') /\ (L!Top(t) => l_misused')
  <2>1. CASE L!Acquire(t)
    BY Zenon, <2>1 DEF L!Acquire
  <2>2. CASE L!TryAcquire(t)
    <3>1. l_misused' = (l_misused \/ L!Top(t))
      BY Zenon, <2>2 DEF L!TryAcquire
    <3> QED BY <1>2, <3>1 DEF LInv
  <2> QED BY <2>1, <2>2
<1>6. LockMove(t, LA(t), Trues(<<b>> \o Tail(l_guards[t])))
  <2>1. Trues(<<b>> \o Tail(l_guards[t])) =
          (IF L!Top(t) THEN LA(t) - 1 ELSE LA(t)) + (IF b THEN 1 ELSE 0)
    BY <1>1, LocksTop
  <2>2. L!Top(t) => LA(t) >= 1
    <3>1. Trues(Tail(l_guards[t])) \in Nat
      BY <1>1, LocksTop, LocksBools, TruesType
    <3>2. Trues(Tail(l_guards[t])) = IF L!Top(t) THEN LA(t) - 1 ELSE LA(t)
      BY <1>1, LocksTop, LocksBools
    <3> QED BY <1>2, <3>1, <3>2
  <2>3. CASE b
    BY <1>2, <1>3, <1>5, <2>1, <2>2, <2>3 DEF LockMove, L!Lock, L!MutexLock
  <2>4. CASE ~b
    BY <1>2, <1>3, <1>5, <2>1, <2>2, <2>4 DEF LockMove
  <2> QED BY <2>3, <2>4
<1>7. l_nnotify' \in Int
  BY <1>3 DEF L!Lock, LInv, LType
<1>8. /\ l_state' \in [Lockers -> {"runs", "blocked", "woken"}]
      /\ \A u \in Lockers : l_state'[u] = "runs" <=> l_state[u] = "runs"
  BY <1>1 DEF LInv, LType
<1>9. <<b>> \o Tail(l_guards[t]) \in Seq(BOOLEAN)
  BY <1>1, LocksTop
<1> QED BY <1>1, <1>3, <1>4, <1>5, <1>6, <1>7, <1>8, <1>9, LocksGuard

\* A guard releases.
LEMMA LocksRelease ==
  ASSUME LInv, NEW t \in Lockers, L!Release(t) \/ L!Destroy(t)
  PROVE  LInv'
<1>1. /\ L!Runs(t) /\ UNCHANGED <<l_kind, l_saved, l_misused, l_readers, l_writer>>
      /\ l_guards[t] # <<>>
  BY DEF L!Release, L!Destroy, L!rwVars
<1>2. LA(t) \in Nat
  BY LATypes DEF LInv
<1>3. l_misused' \in BOOLEAN /\ (l_misused => l_misused')
  BY <1>1 DEF LInv
<1>4. /\ Tail(l_guards[t]) \in Seq(BOOLEAN) /\ <<FALSE>> \o Tail(l_guards[t]) \in Seq(BOOLEAN)
      /\ Trues(Tail(l_guards[t])) = IF L!Top(t) THEN LA(t) - 1 ELSE LA(t)
      /\ Trues(<<FALSE>> \o Tail(l_guards[t])) = Trues(Tail(l_guards[t]))
  <2>1. /\ Tail(l_guards[t]) \in Seq(BOOLEAN) /\ <<FALSE>> \o Tail(l_guards[t]) \in Seq(BOOLEAN)
        /\ Trues(Tail(l_guards[t])) = IF L!Top(t) THEN LA(t) - 1 ELSE LA(t)
        /\ Trues(<<FALSE>> \o Tail(l_guards[t])) =
             (IF L!Top(t) THEN LA(t) - 1 ELSE LA(t)) + (IF FALSE THEN 1 ELSE 0)
    BY <1>1, LocksTop, LocksBools
  <2> QED BY <1>2, <2>1
<1>5. PICK g \in {Tail(l_guards[t]), <<FALSE>> \o Tail(l_guards[t])} :
        l_guards' = [l_guards EXCEPT ![t] = g]
  BY DEF L!Release, L!Destroy, L!SetTop
<1>6. g \in Seq(BOOLEAN) /\ Trues(g) = IF L!Top(t) THEN LA(t) - 1 ELSE LA(t)
  BY <1>4, <1>5
<1>7. CASE L!Top(t)
  <2>1. L!Unlock(t)
    BY <1>7 DEF L!Release, L!Destroy
  <2>2. Trues(g) \in Nat
    BY <1>6, TruesType
  <2>3. LockMove(t, LA(t), Trues(g))
    BY <1>2, <1>6, <1>7, <2>1, <2>2 DEF LockMove, L!Unlock
  <2>4. l_nnotify' \in Int
    BY <2>1 DEF L!Unlock, LInv, LType
  <2>5. /\ l_state' \in [Lockers -> {"runs", "blocked", "woken"}]
        /\ \A u \in Lockers : l_state'[u] = "runs" <=> l_state[u] = "runs"
    BY <2>1, LocksWake DEF L!Unlock
  <2> QED BY <1>1, <1>3, <1>5, <1>6, <2>3, <2>4, <2>5, LocksGuard
<1>8. CASE ~L!Top(t)
  <2>1. UNCHANGED <<l_owner, l_depth, l_count, l_nnotify, l_state>>
    BY <1>8 DEF L!Release, L!Destroy, L!monitor
  <2>2. LockMove(t, LA(t), Trues(g))
    BY <1>2, <1>6, <1>8, <2>1 DEF LockMove
  <2>3. l_nnotify' \in Int
    BY <2>1 DEF LInv, LType
  <2>4. /\ l_state' \in [Lockers -> {"runs", "blocked", "woken"}]
        /\ \A u \in Lockers : l_state'[u] = "runs" <=> l_state[u] = "runs"
    BY <2>1 DEF LInv, LType
  <2> QED BY <1>1, <1>3, <1>5, <1>6, <2>2, <2>3, <2>4, LocksGuard
<1> QED BY <1>7, <1>8

\* A thread blocks in wait(), and comes back.
LEMMA LocksWaitBegins ==
  ASSUME LInv, NEW t \in Lockers, L!WaitBegins(t)
  PROVE  LInv'
<1>1. PICK X \in SUBSET L!Blocked :
        l_state' = [u \in Lockers |-> IF u = t THEN "blocked" ELSE IF u \in X THEN "woken"
                                      ELSE l_state[u]]
  BY LocksNotified DEF L!WaitBegins
<1>2. \A u \in X : u \in Lockers /\ l_state[u] = "blocked"
  BY DEF L!Blocked
<1>3. /\ l_owner = t /\ l_state[t] = "runs"
      /\ l_owner' = L!Nobody /\ l_depth' = 0 /\ l_count' = 0
      /\ l_saved' = [l_saved EXCEPT ![t] = l_count]
      /\ UNCHANGED <<l_kind, l_nnotify, l_guards, l_misused, l_readers, l_writer>>
  BY DEF L!WaitBegins, L!Runs, L!Holds, L!rwVars
<1>4. \A u \in Lockers : /\ l_state'[u] \in {"runs", "blocked", "woken"}
                         /\ l_state'[u] = "runs" <=> u # t /\ l_state[u] = "runs"
  BY <1>1, <1>2 DEF LInv, LType
<1>5. \A u \in Lockers : l_saved'[u] = IF u = t THEN l_count ELSE l_saved[u]
  BY <1>3 DEF LInv, LType
<1>6. \A u \in Lockers : LA(u) \in Nat /\ LA(u)' = LA(u)
  BY <1>3, LATypes DEF LInv, LA
<1>7. t # L!Nobody /\ L!Nobody \notin Lockers /\ ((L!recursive)' <=> L!recursive)
  BY <1>3, LocksAssumption DEF L!ThreadsAssumption, L!recursive
<1>8. LMonitor /\ LThreads /\ (~l_misused => LExact) /\ l_count \in Nat
      /\ l_saved \in [Lockers -> Nat]
  BY DEF LInv, LType
<1>9. LMonitor'
  BY <1>3 DEF LMonitor
<1>10. LThreads'
  BY <1>3, <1>4, <1>5, <1>6, <1>7, <1>8 DEF LMonitor, LThreads, L!Runs
<1>11. ~l_misused => LExact'
  BY <1>3, <1>4, <1>5, <1>6, <1>7, <1>8 DEF LExact, L!Runs
<1>12. LType'
  <2>1. l_state' \in [Lockers -> {"runs", "blocked", "woken"}]
    BY <1>1, <1>4
  <2>2. l_saved' \in [Lockers -> Nat]
    BY <1>3, <1>8
  <2> QED BY <1>3, <2>1, <2>2 DEF LInv, LType
<1>13. l_misused' = l_misused /\ l_misused' \in BOOLEAN
  BY Zenon, <1>3 DEF LInv
<1> QED BY <1>9, <1>10, <1>11, <1>12, <1>13 DEF LInv

\* The thread is back from its wait, with the depth it had.
LEMMA LocksWaitEnds ==
  ASSUME LInv, NEW t \in Lockers, L!WaitEnds(t)
  PROVE  LInv'
<1>1. /\ l_state[t] = "woken" /\ l_owner = L!Nobody
      /\ l_state' = [l_state EXCEPT ![t] = "runs"]
      /\ l_owner' = t /\ l_depth' = 1 /\ l_count' = l_saved[t] /\ l_nnotify' = 0
      /\ l_saved' = [l_saved EXCEPT ![t] = 0]
      /\ UNCHANGED <<l_kind, l_guards, l_misused, l_readers, l_writer>>
  BY DEF L!WaitEnds, L!rwVars
<1>2. \A u \in Lockers : /\ l_state'[u] = "runs" <=> u = t \/ l_state[u] = "runs"
                         /\ l_saved'[u] = IF u = t THEN 0 ELSE l_saved[u]
  BY <1>1 DEF LInv, LType
<1>3. \A u \in Lockers : LA(u) \in Nat /\ LA(u)' = LA(u)
  BY <1>1, LATypes DEF LInv, LA
<1>4. t # L!Nobody /\ L!Nobody \notin Lockers /\ ((L!recursive)' <=> L!recursive)
  BY <1>1, LocksAssumption DEF L!ThreadsAssumption, L!recursive
<1>5. LMonitor /\ LThreads /\ (~l_misused => LExact) /\ l_saved \in [Lockers -> Nat]
  BY DEF LInv, LType
<1>6. LMonitor'
  BY <1>1, <1>3, <1>4, <1>5 DEF LMonitor, LThreads, L!Runs
<1>7. LThreads'
  BY <1>1, <1>2, <1>3, <1>4, <1>5 DEF LThreads, L!Runs
<1>8. ~l_misused => LExact'
  BY <1>1, <1>2, <1>3, <1>4, <1>5 DEF LThreads, LExact, L!Runs
<1>9. LType'
  BY <1>1 DEF LInv, LType
<1>10. l_misused' = l_misused /\ l_misused' \in BOOLEAN
  BY Zenon, <1>1 DEF LInv
<1> QED BY <1>6, <1>7, <1>8, <1>9, <1>10 DEF LInv

\* The steps that leave the guards and the lock under them as they are.
LEMMA LocksKeep ==
  ASSUME LInv, UNCHANGED <<l_kind, l_owner, l_depth, l_count, l_guards, l_saved, l_misused>>,
         l_nnotify' \in Int, l_state' \in [Lockers -> {"runs", "blocked", "woken"}],
         \A u \in Lockers : l_state'[u] = "runs" <=> l_state[u] = "runs",
         l_readers' \in [Lockers -> Nat], l_writer' \in Lockers \cup {L!Nobody}
  PROVE  LInv'
<1>1. \A u : LA(u)' = LA(u) /\ ((L!recursive)' <=> L!recursive)
  BY DEF LA, L!recursive
<1>2. LMonitor'
  BY <1>1 DEF LInv, LMonitor
<1>3. LThreads'
  BY <1>1 DEF LInv, LThreads, L!Runs
<1>4. ~l_misused => LExact'
  BY <1>1 DEF LInv, LExact, L!Runs
<1>5. LType'
  BY DEF LInv, LType
<1>6. l_misused' = l_misused /\ l_misused' \in BOOLEAN
  BY Zenon DEF LInv
<1> QED BY <1>2, <1>3, <1>4, <1>5, <1>6 DEF LInv

\* No operation of the locks disturbs their invariant.
LEMMA LocksStep == LInv /\ [L!Next]_varsL => LInv'
<1> SUFFICES ASSUME LInv, [L!Next]_varsL PROVE LInv'
  OBVIOUS
<1>0. /\ l_nnotify \in Int /\ l_state \in [Lockers -> {"runs", "blocked", "woken"}]
      /\ l_readers \in [Lockers -> Nat] /\ l_writer \in Lockers \cup {L!Nobody}
  BY DEF LInv, LType
<1>1. ASSUME NEW t \in Lockers, L!Notify(t) PROVE LInv'
  <2>1. l_nnotify' \in Int
    BY <1>0, <1>1 DEF L!Notify
  <2> QED BY <1>0, <1>1, <2>1, LocksKeep DEF L!Notify, L!rwVars
<1>2. ASSUME NEW t \in Lockers, L!WakesUp(t) PROVE LInv'
  <2>1. l_state' = [l_state EXCEPT ![t] = "woken"] /\ l_state[t] = "blocked"
    BY <1>2 DEF L!WakesUp
  <2>2. /\ l_state' \in [Lockers -> {"runs", "blocked", "woken"}]
        /\ \A u \in Lockers : l_state'[u] = "runs" <=> l_state[u] = "runs"
    BY <1>0, <2>1
  <2> QED BY <1>0, <1>2, <2>2, LocksKeep DEF L!WakesUp, L!monitor, L!rwVars
<1>3. ASSUME NEW t \in Lockers, L!ReadLock(t) \/ L!WriteLock(t) \/ L!RWUnlock(t) PROVE LInv'
  <2>1. l_readers' \in [Lockers -> Nat] /\ l_writer' \in Lockers \cup {L!Nobody}
    BY <1>0, <1>3 DEF L!ReadLock, L!WriteLock, L!RWUnlock
  <2>2. UNCHANGED <<l_kind, l_owner, l_depth, l_count, l_nnotify, l_guards, l_saved, l_state,
                    l_misused>>
    BY <1>3 DEF L!ReadLock, L!WriteLock, L!RWUnlock, L!monitor
  <2> QED BY <1>0, <2>1, <2>2, LocksKeep
<1>4. CASE UNCHANGED varsL
  BY <1>0, <1>4, LocksKeep DEF varsL
<1> QED
  BY <1>1, <1>2, <1>3, <1>4, LocksBuild, LocksAcquire, LocksRelease, LocksWaitBegins,
     LocksWaitEnds DEF L!Next

\* What the invariant of the locks promises.
LEMMA LocksImplies == LInv => L!TypeOK /\ L!GuardsExact
<1> SUFFICES ASSUME LInv PROVE L!TypeOK /\ L!GuardsExact
  OBVIOUS
<1>1. \A t \in Lockers : L!Acquired(t) = LA(t) /\ LA(t) \in Nat
  BY LockCards, LATypes DEF LInv, L!Acquired, LA, Trues
<1>2. L!TypeOK
  <2>1. l_depth \in Nat
    BY DEF LInv, LMonitor
  <2> QED BY <2>1 DEF LInv, LType, L!TypeOK
<1>3. ASSUME ~l_misused PROVE L!GuardsExact
  <2>1. LMonitor /\ LThreads /\ LExact /\ l_owner \in Lockers \cup {L!Nobody}
    BY <1>3 DEF LInv, LType
  <2> QED BY <1>1, <2>1 DEF LMonitor, LThreads, LExact, L!GuardsExact, L!Runs, L!Holds
<1> QED BY <1>2, <1>3 DEF L!GuardsExact

------------------------------------------------------------------------------
(* Sequences of sequences, put together by FlattenSeq.                     *)

\* A set of naturals has a least element: the induction of the lemmas below.
LEMMA Least ==
  ASSUME NEW I \in SUBSET Nat, I # {}
  PROVE  \E x \in I : \A y \in I : x <= y
<1>1. PICK x \in I : \A y \in I : ~ (<<y, x>> \in OpToRel(<, Nat))
  BY WFMin, NatLessThanWellFounded
<1>2. ASSUME NEW y \in I, ~(x <= y) PROVE FALSE
  <2>1. <<y, x>> \in OpToRel(<, Nat)
    BY <1>2 DEF OpToRel
  <2> QED BY <2>1, <1>1
<1> QED BY <1>2

Lines == Seq(Int)

\* f[i] is the concatenation of the first i sequences of s.
Unfolds(f, s) == f = [i \in 1 .. Len(s) |-> IF i = 1 THEN s[i] ELSE f[i - 1] \o s[i]]

Flat(s) == G!FlattenSeq(s)

\* The first i of n sequences can be put together, for every i.
LEMMA UnfoldsExist ==
  ASSUME NEW s \in Seq(Lines)
  PROVE  \E f : Unfolds(f, s)
<1> DEFINE Part(f, n) == f = [i \in 1 .. n |-> IF i = 1 THEN s[i] ELSE f[i - 1] \o s[i]]
           I == {n \in Nat : ~ \E f : Part(f, n)}
<1>1. ASSUME I # {} PROVE FALSE
  <2>1. I \in SUBSET Nat
    OBVIOUS
  <2> HIDE DEF I
  <2>2. PICK n \in I : \A y \in I : n <= y
    BY <1>1, <2>1, Least
  <2> USE DEF I
  <2>3. n \in Nat
    BY <2>2
  <2>4. CASE n = 0
    <3>1. Part([i \in 1 .. 0 |-> 0], 0)
      OBVIOUS
    <3> QED BY <3>1, <2>2, <2>4
  <2>5. CASE n # 0
    <3>1. n - 1 \in Nat /\ ~(n <= n - 1)
      BY <2>3, <2>5
    <3>2. n - 1 \notin I
      BY <2>2, <3>1
    <3>3. PICK f : Part(f, n - 1)
      BY <3>1, <3>2
    <3> DEFINE g == [i \in 1 .. n |-> IF i = n THEN IF n = 1 THEN s[n] ELSE f[n - 1] \o s[n]
                                      ELSE f[i]]
    <3>4. \A i \in 1 .. n : g[i] = IF i = 1 THEN s[i] ELSE g[i - 1] \o s[i]
      <4> SUFFICES ASSUME NEW i \in 1 .. n
                   PROVE  g[i] = IF i = 1 THEN s[i] ELSE g[i - 1] \o s[i]
        OBVIOUS
      <4>1. CASE i = n
        <5>1. i # 1 => g[i - 1] = f[n - 1]
          BY <4>1, <2>3
        <5> QED BY <5>1, <4>1
      <4>2. CASE i # n
        <5>1. i \in 1 .. n - 1 /\ (i # 1 => i - 1 \in 1 .. n /\ i - 1 # n)
          BY <4>2, <2>3
        <5>2. f[i] = IF i = 1 THEN s[i] ELSE f[i - 1] \o s[i]
          BY <5>1, <3>3
        <5>3. g[i] = f[i] /\ (i # 1 => g[i - 1] = f[i - 1])
          BY <4>2, <5>1
        <5> QED BY <5>2, <5>3
      <4> QED BY <4>1, <4>2
    <3>5. Part(g, n)
      <4> HIDE DEF g
      <4>1. g = [i \in 1 .. n |-> g[i]]
        BY DEF g
      <4> QED BY <4>1, <3>4
    <3> QED BY <3>5, <2>2
  <2> QED BY <2>4, <2>5
<1>2. \E f : Part(f, Len(s))
  <2> HIDE DEF Part
  <2>1. Len(s) \in Nat
    OBVIOUS
  <2> HIDE DEF I
  <2>2. Len(s) \notin I
    BY <1>1
  <2> QED BY <2>1, <2>2 DEF I
<1> QED BY <1>2 DEF Unfolds

\* FlattenSeq is the last prefix.
LEMMA FlatUnfolds ==
  ASSUME NEW s \in Seq(Lines)
  PROVE  /\ s = <<>> => Flat(s) = <<>>
         /\ \E f : Unfolds(f, s) /\ (s # <<>> => Flat(s) = f[Len(s)])
<1> DEFINE h == CHOOSE f : Unfolds(f, s)
<1>1. Unfolds(h, s)
  BY UnfoldsExist
<1>2. s # <<>> => Flat(s) = h[Len(s)]
  BY DEF Flat, G!FlattenSeq, Unfolds
<1>3. s = <<>> => Flat(s) = <<>>
  BY DEF Flat, G!FlattenSeq
<1> QED BY <1>1, <1>2, <1>3

\* Every prefix is made of integers, and the first sequences decide it.
LEMMA UnfoldsLines ==
  ASSUME NEW s \in Seq(Lines), NEW f, Unfolds(f, s)
  PROVE  \A i \in 1 .. Len(s) : f[i] \in Lines
<1> DEFINE I == {i \in 1 .. Len(s) : f[i] \notin Lines}
<1>1. ASSUME I # {} PROVE FALSE
  <2>1. I \in SUBSET Nat
    OBVIOUS
  <2> HIDE DEF I
  <2>2. PICK i \in I : \A j \in I : i <= j
    BY <1>1, <2>1, Least
  <2> USE DEF I
  <2>3. i \in 1 .. Len(s) /\ f[i] \notin Lines /\ s[i] \in Lines
    BY <2>2
  <2>4. i # 1
    BY <2>3 DEF Unfolds
  <2>5. i - 1 \in 1 .. Len(s) /\ ~(i <= i - 1)
    BY <2>3, <2>4
  <2>6. f[i - 1] \in Lines
    BY <2>2, <2>5
  <2>7. f[i] = f[i - 1] \o s[i]
    BY <2>3, <2>4 DEF Unfolds
  <2> QED BY <2>3, <2>6, <2>7 DEF Lines
<1> QED BY <1>1

\* The concatenation is a sequence of integers.
LEMMA FlatLines ==
  ASSUME NEW s \in Seq(Lines)
  PROVE  Flat(s) \in Lines
<1>1. CASE s = <<>>
  <2>1. Flat(s) = <<>>
    BY <1>1, FlatUnfolds
  <2> QED BY <2>1 DEF Lines
<1>2. CASE s # <<>>
  <2>1. PICK f : Unfolds(f, s) /\ Flat(s) = f[Len(s)]
    BY <1>2, FlatUnfolds
  <2>2. Len(s) \in 1 .. Len(s)
    BY <1>2
  <2> QED BY <2>1, <2>2, UnfoldsLines
<1> QED BY <1>1, <1>2

\* A sequence more at the end does not change the prefixes before it.
LEMMA UnfoldsPrefix ==
  ASSUME NEW s \in Seq(Lines), NEW t \in Lines, NEW f, Unfolds(f, s),
         NEW g, Unfolds(g, Append(s, t))
  PROVE  \A i \in 1 .. Len(s) : g[i] = f[i]
<1> DEFINE I == {i \in 1 .. Len(s) : g[i] # f[i]}
<1>1. ASSUME I # {} PROVE FALSE
  <2>1. I \in SUBSET Nat
    OBVIOUS
  <2> HIDE DEF I
  <2>2. PICK i \in I : \A j \in I : i <= j
    BY <1>1, <2>1, Least
  <2> USE DEF I
  <2>3. /\ i \in 1 .. Len(s) /\ g[i] # f[i] /\ i \in 1 .. Len(Append(s, t))
        /\ Append(s, t)[i] = s[i]
    BY <2>2
  <2>4. f[i] = IF i = 1 THEN s[i] ELSE f[i - 1] \o s[i]
    BY <2>3 DEF Unfolds
  <2>5. g[i] = IF i = 1 THEN s[i] ELSE g[i - 1] \o s[i]
    BY <2>3 DEF Unfolds
  <2>6. i # 1
    BY <2>3, <2>4, <2>5
  <2>7. i - 1 \in 1 .. Len(s) /\ ~(i <= i - 1)
    BY <2>3, <2>6
  <2>8. g[i - 1] = f[i - 1]
    BY <2>2, <2>7
  <2> QED BY <2>3, <2>4, <2>5, <2>6, <2>8
<1> QED BY <1>1

\* Nothing put together is nothing.
LEMMA FlatEmpty == Flat(<<>>) = <<>>
<1>1. <<>> \in Seq(Lines)
  OBVIOUS
<1> QED BY <1>1, FlatUnfolds

\* A sequence more at the end ends the concatenation.
LEMMA FlatAppend ==
  ASSUME NEW s \in Seq(Lines), NEW t \in Lines
  PROVE  Flat(Append(s, t)) = Flat(s) \o t
<1>1. Append(s, t) \in Seq(Lines) /\ Append(s, t) # <<>> /\ Len(Append(s, t)) = Len(s) + 1
  <2>1. Append(s, t) \in Seq(Lines) /\ Len(Append(s, t)) = Len(s) + 1 /\ Len(s) \in Nat
    OBVIOUS
  <2>2. Len(s) + 1 # 0 /\ Len(<<>>) = 0
    BY <2>1
  <2> QED BY <2>1, <2>2, Zenon
<1>2. PICK g : Unfolds(g, Append(s, t)) /\ Flat(Append(s, t)) = g[Len(s) + 1]
  BY <1>1, FlatUnfolds
<1>3. PICK f : Unfolds(f, s) /\ (s # <<>> => Flat(s) = f[Len(s)])
  BY FlatUnfolds
<1>4. g[Len(s) + 1] = IF Len(s) + 1 = 1 THEN t ELSE g[Len(s)] \o t
  <2> DEFINE n == Len(s) + 1
             a == Append(s, t)
  <2>1. n \in 1 .. Len(a) /\ a[n] = t /\ n - 1 = Len(s)
    BY <1>1
  <2> HIDE DEF n, a
  <2>2. g = [i \in 1 .. Len(a) |-> IF i = 1 THEN a[i] ELSE g[i - 1] \o a[i]]
    BY <1>2 DEF Unfolds, a
  <2>3. g[n] = IF n = 1 THEN t ELSE g[Len(s)] \o t
    BY <2>1, <2>2
  <2> QED BY <2>3 DEF n
<1>5. CASE s = <<>>
  <2>1. Flat(s) = <<>>
    BY <1>5, FlatUnfolds
  <2>2. <<>> \o t = t
    BY DEF Lines
  <2>3. Len(s) + 1 = 1
    BY <1>5
  <2> QED BY <2>1, <2>2, <2>3, <1>2, <1>4
<1>6. CASE s # <<>>
  <2>1. Len(s) \in 1 .. Len(s) /\ Len(s) + 1 # 1
    BY <1>6
  <2>2. \A i \in 1 .. Len(s) : g[i] = f[i]
    BY <1>2, <1>3, UnfoldsPrefix
  <2>3. g[Len(s)] = f[Len(s)] /\ Flat(s) = f[Len(s)]
    BY <2>1, <2>2, <1>3, <1>6
  <2> QED BY <2>1, <2>3, <1>2, <1>4
<1> QED BY <1>5, <1>6

------------------------------------------------------------------------------
(* Sequences of lines.                                                     *)

Elems(x) == {x[i] : i \in 1 .. Len(x)}

Rising(x) == \A i, j \in 1 .. Len(x) : i < j => x[i] < x[j]

\* Length, elements and places of a concatenation.
LEMMA Joined ==
  ASSUME NEW x \in Lines, NEW y \in Lines
  PROVE  /\ x \o y \in Lines /\ Len(x \o y) = Len(x) + Len(y)
         /\ Elems(x \o y) = Elems(x) \cup Elems(y)
         /\ \A i \in 1 .. Len(x) : (x \o y)[i] = x[i]
         /\ \A i \in 1 .. Len(y) : (x \o y)[Len(x) + i] = y[i]
<1>1. x \o y \in Lines /\ Len(x \o y) = Len(x) + Len(y) /\ Len(x) \in Nat /\ Len(y) \in Nat
  BY DEF Lines
<1>2. \A i \in 1 .. Len(x) : (x \o y)[i] = x[i]
  BY DEF Lines
<1>3. \A i \in 1 .. Len(y) : (x \o y)[Len(x) + i] = y[i]
  BY DEF Lines
<1>4. Elems(x \o y) \subseteq Elems(x) \cup Elems(y)
  <2> SUFFICES ASSUME NEW i \in 1 .. Len(x \o y) PROVE (x \o y)[i] \in Elems(x) \cup Elems(y)
    BY DEF Elems
  <2>1. CASE i <= Len(x)
    BY <2>1, <1>1, <1>2 DEF Elems
  <2>2. CASE ~(i <= Len(x))
    <3>1. i - Len(x) \in 1 .. Len(y) /\ Len(x) + (i - Len(x)) = i
      BY <2>2, <1>1
    <3>2. (x \o y)[i] = y[i - Len(x)]
      BY <3>1, <1>3
    <3> QED BY <3>1, <3>2 DEF Elems
  <2> QED BY <2>1, <2>2
<1>5. Elems(x) \subseteq Elems(x \o y)
  BY <1>1, <1>2 DEF Elems
<1>6. Elems(y) \subseteq Elems(x \o y)
  <2> SUFFICES ASSUME NEW i \in 1 .. Len(y) PROVE y[i] \in Elems(x \o y)
    BY DEF Elems
  <2>1. Len(x) + i \in 1 .. Len(x \o y)
    BY <1>1
  <2> QED BY <2>1, <1>3 DEF Elems
<1> QED BY <1>1, <1>2, <1>3, <1>4, <1>5, <1>6

\* One element more at the end.
LEMMA Appended ==
  ASSUME NEW x \in Lines, NEW e \in Int
  PROVE  /\ Append(x, e) = x \o <<e>> /\ <<e>> \in Lines /\ Append(x, e) \in Lines
         /\ Len(Append(x, e)) = Len(x) + 1 /\ Elems(Append(x, e)) = Elems(x) \cup {e}
<1>1. Append(x, e) = x \o <<e>> /\ <<e>> \in Lines /\ Len(<<e>>) = 1
  BY DEF Lines
<1>2. Elems(<<e>>) = {e}
  BY <1>1 DEF Elems
<1>3. x \o <<e>> \in Lines /\ Len(x \o <<e>>) = Len(x) + 1
  BY <1>1, Joined
<1>4. Elems(x \o <<e>>) = Elems(x) \cup Elems(<<e>>)
  BY <1>1, Joined
<1> QED BY <1>1, <1>2, <1>3, <1>4

\* The empty sequence.
LEMMA EmptyLines == <<>> \in Lines /\ Len(<<>>) = 0 /\ Elems(<<>>) = {} /\ Flat(<<>>) = <<>>
<1>1. <<>> \in Lines /\ Len(<<>>) = 0
  BY DEF Lines
<1> QED BY <1>1, FlatEmpty DEF Elems

\* No number is twice in a sequence, other than those of d.
Simple(x, d) == \A i, j \in 1 .. Len(x) : i # j /\ x[i] = x[j] => x[i] \in d

\* A concatenation has no number twice if neither part has, nor have both.
LEMMA SimpleJoined ==
  ASSUME NEW x \in Lines, NEW y \in Lines, NEW d
  PROVE  Simple(x \o y, d) <=> /\ Simple(x, d) /\ Simple(y, d)
                               /\ Elems(x) \cap Elems(y) \subseteq d
<1> DEFINE z == x \o y
<1>1. /\ Len(z) = Len(x) + Len(y) /\ Len(x) \in Nat /\ Len(y) \in Nat
      /\ \A i \in 1 .. Len(x) : z[i] = x[i]
      /\ \A i \in 1 .. Len(y) : z[Len(x) + i] = y[i]
  BY Joined DEF Lines
<1> HIDE DEF z
<1>2. ASSUME Simple(z, d)
      PROVE  Simple(x, d) /\ Simple(y, d) /\ Elems(x) \cap Elems(y) \subseteq d
  <2>1. Simple(x, d)
    BY <1>1, <1>2 DEF Simple
  <2>2. Simple(y, d)
    <3> SUFFICES ASSUME NEW i \in 1 .. Len(y), NEW j \in 1 .. Len(y), i # j, y[i] = y[j]
                 PROVE  y[i] \in d
      BY DEF Simple
    <3>1. Len(x) + i \in 1 .. Len(z) /\ Len(x) + j \in 1 .. Len(z) /\ Len(x) + i # Len(x) + j
      BY <1>1
    <3>2. z[Len(x) + i] = y[i] /\ z[Len(x) + j] = y[j]
      BY <1>1
    <3> QED BY <3>1, <3>2, <1>2 DEF Simple
  <2>3. ASSUME NEW i \in 1 .. Len(x), NEW j \in 1 .. Len(y), x[i] = y[j] PROVE x[i] \in d
    <3>1. i \in 1 .. Len(z) /\ Len(x) + j \in 1 .. Len(z) /\ i # Len(x) + j
      BY <1>1
    <3>2. z[i] = x[i] /\ z[Len(x) + j] = y[j]
      BY <1>1
    <3> QED BY <3>1, <3>2, <2>3, <1>2 DEF Simple
  <2> QED BY <2>1, <2>2, <2>3 DEF Elems
<1>3. ASSUME Simple(x, d), Simple(y, d), Elems(x) \cap Elems(y) \subseteq d
      PROVE  Simple(z, d)
  <2> SUFFICES ASSUME NEW i \in 1 .. Len(z), NEW j \in 1 .. Len(z), i # j, z[i] = z[j]
               PROVE  z[i] \in d
    BY DEF Simple
  <2>1. \A k \in 1 .. Len(z) : \/ k \in 1 .. Len(x) /\ z[k] = x[k]
                               \/ k - Len(x) \in 1 .. Len(y) /\ z[k] = y[k - Len(x)]
    <3> SUFFICES ASSUME NEW k \in 1 .. Len(z), k \notin 1 .. Len(x)
                 PROVE  k - Len(x) \in 1 .. Len(y) /\ z[k] = y[k - Len(x)]
      BY <1>1
    <3>1. k - Len(x) \in 1 .. Len(y) /\ Len(x) + (k - Len(x)) = k
      BY <1>1
    <3> QED BY <3>1, <1>1
  <2>2. i - Len(x) # j - Len(x)
    BY <1>1
  <2>3. \A a \in 1 .. Len(x), b \in 1 .. Len(y) : x[a] = y[b] => x[a] \in d
    BY <1>3 DEF Elems
  <2>4. CASE i \in 1 .. Len(x) /\ z[i] = x[i]
    BY <1>3, <2>1, <2>3, <2>4 DEF Simple
  <2>5. CASE i - Len(x) \in 1 .. Len(y) /\ z[i] = y[i - Len(x)]
    BY <1>3, <2>1, <2>2, <2>3, <2>5 DEF Simple
  <2> QED BY <2>1, <2>4, <2>5
<1> QED BY <1>2, <1>3 DEF z

\* Sorted sequences.
LEMMA RisingJoined ==
  ASSUME NEW x \in Lines, NEW y \in Lines
  PROVE  Rising(x \o y) <=> /\ Rising(x) /\ Rising(y)
                            /\ \A a \in Elems(x), b \in Elems(y) : a < b
<1> DEFINE z == x \o y
<1>1. /\ z \in Lines /\ Len(z) = Len(x) + Len(y) /\ Len(x) \in Nat /\ Len(y) \in Nat
      /\ \A i \in 1 .. Len(x) : z[i] = x[i]
      /\ \A i \in 1 .. Len(y) : z[Len(x) + i] = y[i]
  BY Joined DEF Lines
<1> HIDE DEF z
<1>2. ASSUME Rising(z)
      PROVE  Rising(x) /\ Rising(y) /\ \A a \in Elems(x), b \in Elems(y) : a < b
  <2>1. Rising(x)
    BY <1>1, <1>2 DEF Rising
  <2>2. Rising(y)
    <3> SUFFICES ASSUME NEW i \in 1 .. Len(y), NEW j \in 1 .. Len(y), i < j PROVE y[i] < y[j]
      BY DEF Rising
    <3>1. Len(x) + i \in 1 .. Len(z) /\ Len(x) + j \in 1 .. Len(z) /\ Len(x) + i < Len(x) + j
      BY <1>1
    <3>2. z[Len(x) + i] < z[Len(x) + j]
      BY <3>1, <1>2 DEF Rising
    <3> QED BY <3>2, <1>1
  <2>3. ASSUME NEW i \in 1 .. Len(x), NEW j \in 1 .. Len(y) PROVE x[i] < y[j]
    <3>1. i \in 1 .. Len(z) /\ Len(x) + j \in 1 .. Len(z) /\ i < Len(x) + j
      BY <1>1
    <3>2. z[i] < z[Len(x) + j]
      BY <3>1, <1>2 DEF Rising
    <3> QED BY <3>2, <1>1
  <2> QED BY <2>1, <2>2, <2>3 DEF Elems
<1>3. ASSUME Rising(x), Rising(y), \A a \in Elems(x), b \in Elems(y) : a < b
      PROVE  Rising(z)
  <2> SUFFICES ASSUME NEW i \in 1 .. Len(z), NEW j \in 1 .. Len(z), i < j PROVE z[i] < z[j]
    BY DEF Rising
  <2>1. CASE j <= Len(x)
    BY <2>1, <1>1, <1>3 DEF Rising
  <2>2. CASE i <= Len(x) /\ ~(j <= Len(x))
    <3>1. j - Len(x) \in 1 .. Len(y) /\ Len(x) + (j - Len(x)) = j /\ i \in 1 .. Len(x)
      BY <2>2, <1>1
    <3>2. z[j] = y[j - Len(x)] /\ z[i] = x[i]
      BY <3>1, <1>1
    <3> QED BY <3>1, <3>2, <1>3 DEF Elems
  <2>3. CASE ~(i <= Len(x))
    <3>1. /\ j - Len(x) \in 1 .. Len(y) /\ Len(x) + (j - Len(x)) = j
          /\ i - Len(x) \in 1 .. Len(y) /\ Len(x) + (i - Len(x)) = i
          /\ i - Len(x) < j - Len(x)
      BY <2>3, <1>1
    <3>2. z[j] = y[j - Len(x)] /\ z[i] = y[i - Len(x)]
      BY <3>1, <1>1
    <3> QED BY <3>1, <3>2, <1>3 DEF Rising
  <2> QED BY <2>1, <2>2, <2>3, <1>1
<1> QED BY <1>2, <1>3 DEF z

------------------------------------------------------------------------------
(* INV_Logger and INV_LoggerRoll.                                          *)

GStates == {"idle", "flush", "flushRoll", "drop", "reset", "last", "lastRoll", "first",
            "firstRoll", "install", "register"}
GRolls  == {"flushRoll", "lastRoll", "firstRoll"}

GType ==
  /\ g_level \in G!Levels /\ g_holder \in Writers \cup {Nil}
  /\ {g_way, g_group, g_member} \subseteq BOOLEAN
  /\ g_switches \in 0 .. MaxSwitches /\ g_next \in 1 .. MaxQueued + 1
  /\ g_text \in Lines /\ g_file \in Lines /\ g_buffer \in Seq(Lines)
  /\ g_qt \in [G!Flushers -> Seq(Lines)] /\ g_pc \in [G!Flushers -> GStates]
  /\ g_pc["group"] \in {"idle", "flush", "flushRoll"}
  /\ \A f \in G!Flushers : g_pc[f] \notin GRolls => g_qt[f] = <<>>

\* The places of a line: the put area, the queue, the hands of the flushers, the files.
GPlaces == {"text", "buffer", "group", "admin", "file"}

Content(t, b, p, a, f) == [q \in GPlaces |->
  CASE q = "text" -> t [] q = "buffer" -> b [] q = "group" -> p [] q = "admin" -> a
    [] q = "file" -> f]

\* The contents c of the places and the lines l that are lost are together n lines, each
\* in one place and once, other than those of d.
Held(c, l, d, n) ==
  /\ \A i : i \in 1 .. n <=> (i \in l \/ \E q \in GPlaces : i \in Elems(c[q]))
  /\ d \subseteq 1 .. n
  /\ \A q \in GPlaces : Simple(c[q], d) /\ Elems(c[q]) \cap l \subseteq d
  /\ \A q, r \in GPlaces : q # r => Elems(c[q]) \cap Elems(c[r]) \subseteq d

GContent == Content(g_text, Flat(g_buffer), Flat(g_qt["group"]), Flat(g_qt["admin"]), g_file)

GHeld == Held(GContent, g_lost, g_twice, g_next - 1)

\* The lines of one place go to the end of another.
LEMMA HeldMove ==
  ASSUME NEW c \in [GPlaces -> Lines], NEW e \in [GPlaces -> Lines], NEW l, NEW d, NEW n,
         Held(c, l, d, n), NEW q \in GPlaces, NEW r \in GPlaces, q # r,
         e[q] = <<>>, e[r] = c[r] \o c[q], \A s \in GPlaces \ {q, r} : e[s] = c[s]
  PROVE  Held(e, l, d, n)
<1>1. \A s \in GPlaces : c[s] \in Lines
  OBVIOUS
<1>2. Elems(e[q]) = {} /\ Simple(e[q], d)
  BY EmptyLines DEF Simple
<1>3. Elems(e[r]) = Elems(c[r]) \cup Elems(c[q])
  BY <1>1, Joined
<1>4. Simple(e[r], d)
  BY <1>1, SimpleJoined DEF Held
<1>5. \A s \in GPlaces : s # q /\ s # r => Elems(e[s]) = Elems(c[s]) /\ Simple(e[s], d)
  BY DEF Held
<1>6. \A i : (\E s \in GPlaces : i \in Elems(e[s])) <=> (\E s \in GPlaces : i \in Elems(c[s]))
  <2> SUFFICES ASSUME NEW i
               PROVE  (\E s \in GPlaces : i \in Elems(e[s])) <=> (\E s \in GPlaces : i \in Elems(c[s]))
    OBVIOUS
  <2>1. ASSUME NEW s \in GPlaces, i \in Elems(e[s]) PROVE \E u \in GPlaces : i \in Elems(c[u])
    BY <1>2, <1>3, <1>5, <2>1
  <2>2. ASSUME NEW s \in GPlaces, i \in Elems(c[s]) PROVE \E u \in GPlaces : i \in Elems(e[u])
    BY <1>2, <1>3, <1>5, <2>2
  <2> QED BY <2>1, <2>2
<1>7. \A s \in GPlaces : Simple(e[s], d) /\ Elems(e[s]) \cap l \subseteq d
  BY <1>2, <1>3, <1>4, <1>5 DEF Held
<1>8. \A s, u \in GPlaces : s # u => Elems(e[s]) \cap Elems(e[u]) \subseteq d
  BY <1>2, <1>3, <1>5 DEF Held
<1> QED BY <1>6, <1>7, <1>8 DEF Held

\* The lines of the put area are written, and stay in it.
LEMMA HeldCopy ==
  ASSUME NEW c \in [GPlaces -> Lines], NEW e \in [GPlaces -> Lines], NEW l, NEW d, NEW n,
         Held(c, l, d, n), NEW q \in GPlaces, NEW r \in GPlaces, q # r,
         e[r] = c[r] \o c[q], \A s \in GPlaces \ {r} : e[s] = c[s]
  PROVE  Held(e, l, d \cup Elems(c[q]), n)
<1> DEFINE g == d \cup Elems(c[q])
<1>1. \A s \in GPlaces : c[s] \in Lines
  OBVIOUS
<1>2. d \subseteq g /\ Elems(c[q]) \subseteq g
  OBVIOUS
<1> HIDE DEF g
<1>3. Elems(e[r]) = Elems(c[r]) \cup Elems(c[q])
  BY <1>1, Joined
<1>4. \A s \in GPlaces : Simple(c[s], g)
  BY <1>2 DEF Held, Simple
<1>5. Simple(e[r], g)
  BY <1>1, <1>2, <1>4, SimpleJoined
<1>6. \A s \in GPlaces : s # r => Elems(e[s]) = Elems(c[s]) /\ Simple(e[s], g)
  BY <1>4
<1>7. \A i : (\E s \in GPlaces : i \in Elems(e[s])) <=> (\E s \in GPlaces : i \in Elems(c[s]))
  <2> SUFFICES ASSUME NEW i
               PROVE  (\E s \in GPlaces : i \in Elems(e[s])) <=> (\E s \in GPlaces : i \in Elems(c[s]))
    OBVIOUS
  <2>1. ASSUME NEW s \in GPlaces, i \in Elems(e[s]) PROVE \E u \in GPlaces : i \in Elems(c[u])
    BY <1>3, <1>6, <2>1
  <2>2. ASSUME NEW s \in GPlaces, i \in Elems(c[s]) PROVE \E u \in GPlaces : i \in Elems(e[u])
    BY <1>3, <1>6, <2>2
  <2> QED BY <2>1, <2>2
<1>8. \A s \in GPlaces : Simple(e[s], g) /\ Elems(e[s]) \cap l \subseteq g
  BY <1>2, <1>3, <1>5, <1>6 DEF Held
<1>9. \A s, u \in GPlaces : s # u => Elems(e[s]) \cap Elems(e[u]) \subseteq g
  BY <1>2, <1>3, <1>6 DEF Held
<1>10. g \subseteq 1 .. n
  BY DEF Held, g
<1> QED BY <1>7, <1>8, <1>9, <1>10 DEF Held, g

\* The lines of one place are lost.
LEMMA HeldLose ==
  ASSUME NEW c \in [GPlaces -> Lines], NEW e \in [GPlaces -> Lines], NEW l, NEW d, NEW n,
         Held(c, l, d, n), NEW q \in GPlaces,
         e[q] = <<>>, \A s \in GPlaces \ {q} : e[s] = c[s]
  PROVE  Held(e, l \cup Elems(c[q]), d, n)
<1>1. Elems(e[q]) = {} /\ Simple(e[q], d)
  BY EmptyLines DEF Simple
<1>2. \A s \in GPlaces : s # q => e[s] = c[s]
  OBVIOUS
<1>3. \A i : (i \in l \cup Elems(c[q]) \/ \E s \in GPlaces : i \in Elems(e[s]))
             <=> (i \in l \/ \E s \in GPlaces : i \in Elems(c[s]))
  BY <1>1, <1>2
<1>4. \A s \in GPlaces : Simple(e[s], d) /\ Elems(e[s]) \cap (l \cup Elems(c[q])) \subseteq d
  BY <1>1, <1>2 DEF Held
<1>5. \A s, u \in GPlaces : s # u => Elems(e[s]) \cap Elems(e[u]) \subseteq d
  BY <1>1, <1>2 DEF Held
<1> QED BY <1>3, <1>4, <1>5 DEF Held

\* There is one line more, in one place.
LEMMA HeldNew ==
  ASSUME NEW c \in [GPlaces -> Lines], NEW e \in [GPlaces -> Lines], NEW l, NEW d, NEW n \in Nat,
         Held(c, l, d, n), NEW q \in GPlaces,
         e[q] = c[q] \o <<n + 1>>, \A s \in GPlaces \ {q} : e[s] = c[s]
  PROVE  Held(e, l, d, n + 1)
<1> DEFINE v == n + 1
<1>1. v \in Int /\ 1 .. v = (1 .. n) \cup {v} /\ v \notin 1 .. n
  OBVIOUS
<1>2. <<v>> \in Lines /\ Elems(<<v>>) = {v} /\ Simple(<<v>>, d) /\ c[q] \in Lines
  BY <1>1, Appended DEF Elems, Simple
<1>3. e[q] = c[q] \o <<v>>
  OBVIOUS
<1> HIDE DEF v
<1>4. Elems(e[q]) = Elems(c[q]) \cup {v}
  <2> DEFINE w == <<v>>
             x == c[q]
  <2>1. w \in Lines /\ Elems(w) = {v} /\ x \in Lines /\ e[q] = x \o w
    BY <1>2, <1>3
  <2> HIDE DEF w, x
  <2>2. Elems(e[q]) = Elems(x) \cup Elems(w)
    BY <2>1, Joined
  <2> QED BY <2>1, <2>2 DEF x
<1>5. v \notin l /\ \A s \in GPlaces : v \notin Elems(c[s])
  BY <1>1 DEF Held
<1>6. Simple(e[q], d)
  <2>1. Elems(c[q]) \cap Elems(<<v>>) \subseteq d /\ Simple(c[q], d)
    BY <1>2, <1>5 DEF Held
  <2> QED BY <1>2, <1>3, <2>1, SimpleJoined
<1>7. \A s \in GPlaces : s # q => e[s] = c[s]
  OBVIOUS
<1>8. \A i : i \in 1 .. v <=> (i \in l \/ \E s \in GPlaces : i \in Elems(e[s]))
  <2> SUFFICES ASSUME NEW i PROVE i \in 1 .. v <=> (i \in l \/ \E s \in GPlaces : i \in Elems(e[s]))
    OBVIOUS
  <2>1. i \in 1 .. n <=> (i \in l \/ \E s \in GPlaces : i \in Elems(c[s]))
    BY DEF Held
  <2>2. (\E s \in GPlaces : i \in Elems(e[s])) <=> (i = v \/ \E s \in GPlaces : i \in Elems(c[s]))
    BY <1>4, <1>7
  <2> QED BY <1>1, <2>1, <2>2
<1>9. \A s \in GPlaces : Simple(e[s], d) /\ Elems(e[s]) \cap l \subseteq d
  BY <1>4, <1>5, <1>6, <1>7 DEF Held
<1>10. \A s, u \in GPlaces : s # u => Elems(e[s]) \cap Elems(e[u]) \subseteq d
  <2> SUFFICES ASSUME NEW s \in GPlaces, NEW u \in GPlaces, s # u
               PROVE  Elems(e[s]) \cap Elems(e[u]) \subseteq d
    OBVIOUS
  <2>1. Elems(c[s]) \cap Elems(c[u]) \subseteq d
    BY DEF Held
  <2>2. CASE s = q
    <3>1. Elems(e[u]) = Elems(c[u]) /\ v \notin Elems(c[u])
      BY <1>5, <1>7, <2>2
    <3> QED BY <1>4, <2>1, <2>2, <3>1
  <2>3. CASE u = q
    <3>1. Elems(e[s]) = Elems(c[s]) /\ v \notin Elems(c[s])
      BY <1>5, <1>7, <2>3
    <3> QED BY <1>4, <2>1, <2>3, <3>1
  <2>4. CASE s # q /\ u # q
    BY <1>7, <2>1, <2>4
  <2> QED BY <2>2, <2>3, <2>4
<1>11. d \subseteq 1 .. v
  BY <1>1 DEF Held
<1> QED BY <1>8, <1>9, <1>10, <1>11 DEF Held, v

\* The way of a line to the files while sync() is not called.
GPath == g_file \o (Flat(g_qt["group"]) \o (Flat(g_buffer) \o g_text))

GOrder ==
  g_switches = 0 =>
    /\ g_pc["admin"] = "idle" /\ g_group /\ (g_holder # Nil => g_way)
    /\ Rising(GPath)

GInv == GType /\ GHeld /\ GOrder

\* At the start there is no line.
LEMMA LoggerInit == G!Init => GInv
<1> SUFFICES ASSUME G!Init PROVE GInv
  OBVIOUS
<1>1. <<>> \in Lines /\ <<>> \in Seq(Lines) /\ Len(<<>>) = 0 /\ Elems(<<>>) = {} /\ Flat(<<>>) = <<>>
  BY EmptyLines
<1>2. g_qt \in [G!Flushers -> Seq(Lines)] /\ g_pc \in [G!Flushers -> GStates]
  BY <1>1 DEF G!Init, GStates
<1>3. /\ g_qt["group"] = <<>> /\ g_qt["admin"] = <<>> /\ g_pc["group"] = "idle"
      /\ g_pc["admin"] = "idle" /\ \A f \in G!Flushers : g_qt[f] = <<>>
  BY DEF G!Init, G!Flushers
<1>4. GType
  <2>1. g_next \in 1 .. MaxQueued + 1 /\ g_switches \in 0 .. MaxSwitches
    BY LoggerAssumption DEF G!BoundsAssumption, G!Init
  <2>2. {g_way, g_group, g_member} \subseteq BOOLEAN /\ g_level \in G!Levels
    BY DEF G!Init, G!Levels
  <2> QED BY <1>1, <1>2, <1>3, <2>1, <2>2 DEF G!Init, GType
<1>5. GHeld
  <2>1. g_lost = {} /\ g_twice = {} /\ g_next - 1 = 0 /\ 1 .. 0 = {}
    BY DEF G!Init
  <2>2. g_text = <<>> /\ g_buffer = <<>> /\ g_file = <<>>
    BY DEF G!Init
  <2>3. \A q \in GPlaces : GContent[q] = <<>>
    BY <1>1, <1>3, <2>2 DEF GContent, Content, GPlaces
  <2>4. \A q \in GPlaces : Elems(GContent[q]) = {} /\ Simple(GContent[q], {})
    BY <1>1, <2>3 DEF Simple
  <2> HIDE DEF GContent
  <2> QED BY <2>1, <2>4 DEF GHeld, Held
<1>6. GOrder
  <2>1. GPath = <<>> \o (<<>> \o (<<>> \o <<>>))
    BY <1>1, <1>3 DEF GPath, G!Init
  <2>2. <<>> \o <<>> = <<>>
    OBVIOUS
  <2>3. Rising(GPath)
    BY <1>1, <2>1, <2>2 DEF Rising
  <2> QED BY <1>3, <2>3 DEF GOrder, G!Init
<1> QED BY <1>4, <1>5, <1>6 DEF GInv

\* The invariant depends on what the flushers, the queue and the files hold.
LEMMA LoggerStays ==
  ASSUME GInv, GType', g_text' = g_text, g_buffer' = g_buffer, g_qt' = g_qt, g_file' = g_file,
         g_lost' = g_lost, g_twice' = g_twice, g_next' = g_next,
         g_switches' = 0 => /\ g_switches = 0 /\ g_pc'["admin"] = "idle" /\ g_group'
                            /\ (g_holder' # Nil => g_way')
  PROVE  GInv'
<1>1. GHeld'
  BY DEF GInv, GHeld, GContent
<1>2. GPath' = GPath
  BY DEF GPath
<1>3. GOrder'
  BY <1>2 DEF GInv, GOrder
<1> QED BY <1>1, <1>3 DEF GInv

\* The steps of the logger that move no line.
LEMMA LoggerControl ==
  ASSUME GInv,
         \/ \E l \in G!Levels : G!setLogLevel(l)
         \/ G!run \/ G!unSetupThread \/ G!unRegisterLogger \/ G!reset
         \/ G!setupThread \/ G!install \/ G!registerLogger \/ UNCHANGED varsG
  PROVE  GInv'
<1> USE DEF GInv, GType, GOrder, G!writer, G!roller
<1>1. CASE \E l \in G!Levels : G!setLogLevel(l)
  <2>1. GType'
    BY <1>1 DEF G!setLogLevel
  <2> QED BY <1>1, <2>1, LoggerStays DEF G!setLogLevel
<1>3. CASE G!run
  <2>1. /\ g_pc' = [g_pc EXCEPT !["group"] = "flush"] /\ g_pc' \in [G!Flushers -> GStates]
        /\ g_pc'["group"] = "flush" /\ g_pc'["admin"] = g_pc["admin"]
    BY <1>3 DEF G!run, G!GoTo, GStates, G!Flushers
  <2>2. \A f \in G!Flushers : g_qt'[f] = g_qt[f] /\ (g_pc'[f] \notin GRolls => g_pc[f] \notin GRolls)
    BY <1>3, <2>1 DEF G!run, GRolls, G!Flushers
  <2>3. GType'
    BY <1>3, <2>1, <2>2 DEF G!run
  <2> QED BY <1>3, <2>1, <2>3, LoggerStays DEF G!run
<1>4. ASSUME NEW v \in GStates \ GRolls, G!GoTo("admin", v), g_pc["admin"] \notin GRolls
      PROVE  /\ g_pc' \in [G!Flushers -> GStates]
             /\ g_pc'["group"] = g_pc["group"] /\ g_pc'["admin"] = v
             /\ \A f \in G!Flushers : g_pc'[f] \notin GRolls => g_pc[f] \notin GRolls
  BY <1>4 DEF G!GoTo, GStates, G!Flushers
<1>5. CASE G!unSetupThread
  <2>1. g_switches \in Int /\ g_switches >= 0 /\ g_switches + 1 # 0 /\ g_switches' = g_switches + 1
    BY <1>5 DEF G!unSetupThread
  <2>2. g_pc["admin"] \notin GRolls /\ "flush" \in GStates \ GRolls
    BY <1>5 DEF G!unSetupThread, GRolls, GStates
  <2>3. GType'
    BY <1>4, <1>5, <2>2, LoggerAssumption DEF G!unSetupThread, G!BoundsAssumption
  <2> QED BY <1>5, <2>1, <2>3, LoggerStays DEF G!unSetupThread
<1>6. CASE G!setupThread
  <2>1. g_switches \in Int /\ g_switches >= 0 /\ g_switches + 1 # 0 /\ g_switches' = g_switches + 1
    BY <1>6 DEF G!setupThread
  <2>2. g_pc["admin"] \notin GRolls /\ "first" \in GStates \ GRolls
    BY <1>6 DEF G!setupThread, GRolls, GStates
  <2>3. GType'
    BY <1>4, <1>6, <2>2, LoggerAssumption DEF G!setupThread, G!BoundsAssumption
  <2> QED BY <1>6, <2>1, <2>3, LoggerStays DEF G!setupThread
<1>7. CASE G!unRegisterLogger
  <2>1. g_pc["admin"] \notin GRolls /\ "reset" \in GStates \ GRolls /\ g_pc["admin"] # "idle"
    BY <1>7 DEF G!unRegisterLogger, GRolls, GStates
  <2>2. GType'
    BY <1>4, <1>7, <2>1 DEF G!unRegisterLogger
  <2> QED BY <1>7, <2>1, <2>2, LoggerStays DEF G!unRegisterLogger
<1>8. CASE G!reset
  <2>1. g_pc["admin"] \notin GRolls /\ "last" \in GStates \ GRolls /\ g_pc["admin"] # "idle"
    BY <1>8 DEF G!reset, GRolls, GStates
  <2>2. GType'
    BY <1>4, <1>8, <2>1 DEF G!reset
  <2> QED BY <1>8, <2>1, <2>2, LoggerStays DEF G!reset
<1>10. CASE G!install
  <2>1. g_pc["admin"] \notin GRolls /\ "register" \in GStates \ GRolls /\ g_pc["admin"] # "idle"
    BY <1>10 DEF G!install, GRolls, GStates
  <2>2. GType'
    BY <1>4, <1>10, <2>1 DEF G!install
  <2> QED BY <1>10, <2>1, <2>2, LoggerStays DEF G!install
<1>11. CASE G!registerLogger
  <2>1. g_pc["admin"] \notin GRolls /\ "idle" \in GStates \ GRolls /\ g_pc["admin"] # "idle"
    BY <1>11 DEF G!registerLogger, GRolls, GStates
  <2>2. GType'
    BY <1>4, <1>11, <2>1 DEF G!registerLogger
  <2> QED BY <1>11, <2>1, <2>2, LoggerStays DEF G!registerLogger
<1>9. CASE UNCHANGED varsG
  <2>1. GType'
    BY <1>9 DEF varsG
  <2> QED BY <1>9, <2>1, LoggerStays DEF varsG
<1> QED BY <1>1, <1>3, <1>5, <1>6, <1>7, <1>8, <1>9, <1>10, <1>11

\* All the places of a line are sequences of lines.
LEMMA LoggerLines ==
  ASSUME GType
  PROVE  /\ g_text \in Lines /\ g_file \in Lines /\ Flat(g_buffer) \in Lines
         /\ Flat(g_qt["group"]) \in Lines /\ Flat(g_qt["admin"]) \in Lines
         /\ GPath \in Lines /\ GContent \in [GPlaces -> Lines]
         /\ GContent["text"] = g_text /\ GContent["buffer"] = Flat(g_buffer)
         /\ GContent["file"] = g_file /\ GContent["group"] = Flat(g_qt["group"])
         /\ GContent["admin"] = Flat(g_qt["admin"])
<1>1. /\ g_text \in Lines /\ g_file \in Lines /\ Flat(g_buffer) \in Lines
      /\ Flat(g_qt["group"]) \in Lines /\ Flat(g_qt["admin"]) \in Lines
  <2>1. g_qt["group"] \in Seq(Lines) /\ g_qt["admin"] \in Seq(Lines)
    BY DEF GType, G!Flushers
  <2> QED BY <2>1, FlatLines DEF GType
<1>2. GPath \in Lines
  BY <1>1, Joined DEF GPath
<1>3. /\ GContent \in [GPlaces -> Lines]
      /\ GContent["text"] = g_text /\ GContent["buffer"] = Flat(g_buffer)
      /\ GContent["file"] = g_file /\ GContent["group"] = Flat(g_qt["group"])
      /\ GContent["admin"] = Flat(g_qt["admin"])
  <2> DEFINE b == Flat(g_buffer)
             p == Flat(g_qt["group"])
             a == Flat(g_qt["admin"])
             c == GContent
  <2>1. c = Content(g_text, b, p, a, g_file) /\ b \in Lines /\ p \in Lines /\ a \in Lines
    BY <1>1 DEF GContent
  <2> HIDE DEF b, p, a, c
  <2>2. /\ c \in [GPlaces -> Lines]
        /\ c["text"] = g_text /\ c["buffer"] = b /\ c["group"] = p /\ c["admin"] = a
        /\ c["file"] = g_file
    BY <1>1, <2>1 DEF Content, GPlaces
  <2> QED BY <2>2 DEF b, p, a, c
<1> QED BY <1>1, <1>2, <1>3

\* Concatenation is associative.
LEMMA JoinedTwice ==
  ASSUME NEW x \in Lines, NEW y \in Lines, NEW z \in Lines
  PROVE  x \o (y \o z) = (x \o y) \o z
  BY DEF Lines

\* Concatenation with nothing.
LEMMA JoinedEmpty ==
  ASSUME NEW x \in Lines
  PROVE  <<>> \o x = x /\ x \o <<>> = x
  BY DEF Lines

\* A line is written: it is new, and behind all the others.
LEMMA LoggerStream ==
  ASSUME GInv, NEW w \in Writers, NEW l \in G!Levels, G!stream(w, l)
  PROVE  GInv'
<1> DEFINE n == g_next
<1>1. n \in Int /\ n >= 1 /\ n <= MaxQueued /\ MaxQueued \in Nat /\ g_next' = n + 1
  BY LoggerAssumption DEF GInv, GType, G!stream, G!BoundsAssumption
<1>2. /\ g_text' = Append(g_text, n) /\ UNCHANGED <<g_buffer, g_qt, g_file, g_lost, g_twice, g_pc>>
      /\ UNCHANGED <<g_group, g_switches>> /\ g_way' = g_group
  BY DEF G!stream, G!roller
<1>3. /\ g_text \in Lines /\ g_file \in Lines /\ Flat(g_buffer) \in Lines
      /\ Flat(g_qt["group"]) \in Lines /\ Flat(g_qt["admin"]) \in Lines /\ GPath \in Lines
  BY LoggerLines DEF GInv
<1>4. /\ Append(g_text, n) = g_text \o <<n>> /\ <<n>> \in Lines /\ g_text' \in Lines
      /\ Len(g_text') = Len(g_text) + 1 /\ Elems(g_text') = Elems(g_text) \cup {n}
  BY <1>1, <1>2, <1>3, Appended
<1>5. GType'
  <2>1. g_next' \in 1 .. MaxQueued + 1
    BY <1>1
  <2>2. {g_way', g_group', g_member'} \subseteq BOOLEAN
    BY Zenon DEF GInv, GType, G!stream
  <2> QED BY <1>4, <2>1, <2>2 DEF GInv, GType, G!stream, G!roller
<1>6. \A q \in GPlaces : \A i \in Elems(GContent[q]) : i \in 1 .. n - 1
  BY DEF GInv, GHeld, Held
<1>7. GHeld'
  <2> DEFINE c == GContent
             e == GContent'
  <2>1. /\ c \in [GPlaces -> Lines] /\ c["text"] = g_text /\ c["buffer"] = Flat(g_buffer)
        /\ c["file"] = g_file /\ c["group"] = Flat(g_qt["group"]) /\ c["admin"] = Flat(g_qt["admin"])
    BY LoggerLines DEF GInv
  <2>2. /\ e \in [GPlaces -> Lines] /\ e["text"] = g_text \o <<n>> /\ e["buffer"] = Flat(g_buffer)
        /\ e["file"] = g_file /\ e["group"] = Flat(g_qt["group"]) /\ e["admin"] = Flat(g_qt["admin"])
    <3> DEFINE tt == g_text \o <<n>>
               bb == Flat(g_buffer)
               pp == Flat(g_qt["group"])
               aa == Flat(g_qt["admin"])
               ff == g_file
    <3>1. e = Content(tt, bb, pp, aa, ff)
      BY <1>2, <1>3, <1>4 DEF GContent
    <3>2. tt \in Lines /\ bb \in Lines /\ pp \in Lines /\ aa \in Lines /\ ff \in Lines
      BY <1>2, <1>3, <1>4
    <3> HIDE DEF tt, bb, pp, aa, ff, e
    <3>3. /\ e \in [GPlaces -> Lines]
        /\ e["text"] = tt /\ e["buffer"] = bb /\ e["group"] = pp /\ e["admin"] = aa
        /\ e["file"] = ff
      BY <3>1, <3>2 DEF Content, GPlaces
    <3> QED BY <3>3 DEF tt, bb, pp, aa, ff
  <2>3. Held(c, g_lost, g_twice, n - 1) /\ n - 1 \in Nat /\ (n - 1) + 1 = n
    BY <1>1 DEF GInv, GHeld
  <2> HIDE DEF c, e
  <2>4. "text" \in GPlaces /\ \A q \in GPlaces \ {"text"} : e[q] = c[q]
    BY <2>1, <2>2 DEF GPlaces
  <2> DEFINE m == n - 1
  <2>5. m \in Nat /\ e["text"] = c["text"] \o <<m + 1>> /\ Held(c, g_lost, g_twice, m)
    BY <2>1, <2>2, <2>3
  <2> HIDE DEF m
  <2>6. Held(e, g_lost, g_twice, m + 1)
    BY <2>1, <2>2, <2>4, <2>5, HeldNew
  <2>7. m + 1 = g_next' - 1
    BY <1>1 DEF m
  <2> QED BY <1>2, <2>6, <2>7 DEF GHeld, e
<1>8. ASSUME g_switches = 0 PROVE Rising(GPath')
  <2> DEFINE a == Flat(g_buffer)
             b == Flat(g_qt["group"])
  <2>1. a \in Lines /\ b \in Lines
    BY <1>3
  <2>2. GPath' = g_file \o (b \o (a \o (g_text \o <<n>>))) /\ GPath = g_file \o (b \o (a \o g_text))
    BY <1>2, <1>4 DEF GPath
  <2> HIDE DEF a, b
  <2>3. GPath' = GPath \o <<n>>
    <3> DEFINE e == <<n>>
    <3>1. e \in Lines /\ g_file \in Lines /\ g_text \in Lines
      BY <1>3, <1>4
    <3> HIDE DEF e
    <3>a. a \o g_text \in Lines
      BY <2>1, <3>1, Joined
    <3>2. a \o (g_text \o e) = (a \o g_text) \o e
      BY <2>1, <3>1, JoinedTwice
    <3> DEFINE c == a \o g_text
    <3>3. c \in Lines
      BY <3>a
    <3> HIDE DEF c
    <3>b. b \o c \in Lines
      BY <2>1, <3>3, Joined
    <3>4. b \o (c \o e) = (b \o c) \o e
      BY <2>1, <3>1, <3>3, JoinedTwice
    <3> DEFINE d == b \o c
    <3>5. d \in Lines
      BY <3>b
    <3> HIDE DEF d
    <3>6. g_file \o (d \o e) = (g_file \o d) \o e
      BY <3>1, <3>5, JoinedTwice
    <3>7. g_file \o (b \o (a \o (g_text \o e))) = (g_file \o (b \o (a \o g_text))) \o e
      BY <3>2, <3>4, <3>6 DEF c, d
    <3> QED BY <3>7, <2>2 DEF e
  <2>4. Rising(<<n>>)
    BY DEF Rising
  <2>5. Elems(<<n>>) = {n}
    BY DEF Elems
  <2>6. Elems(GPath) = Elems(g_file) \cup (Elems(b) \cup (Elems(a) \cup Elems(g_text)))
    <3>1. g_file \in Lines /\ g_text \in Lines
      BY <1>3
    <3>2. a \o g_text \in Lines /\ Elems(a \o g_text) = Elems(a) \cup Elems(g_text)
      BY <2>1, <3>1, Joined
    <3>3. /\ b \o (a \o g_text) \in Lines
          /\ Elems(b \o (a \o g_text)) = Elems(b) \cup Elems(a \o g_text)
      BY <2>1, <3>2, Joined
    <3>4. Elems(g_file \o (b \o (a \o g_text))) = Elems(g_file) \cup Elems(b \o (a \o g_text))
      BY <3>1, <3>3, Joined
    <3> QED BY <2>2, <3>2, <3>3, <3>4, Zenon
  <2>7. \A i \in Elems(GPath) : i < n
    <3> USE DEF a, b
    <3>1. \A i \in Elems(GPath) : i \in 1 .. n - 1
      <4>1. /\ GContent["text"] = g_text /\ GContent["buffer"] = a
            /\ GContent["file"] = g_file /\ GContent["group"] = b
        BY LoggerLines DEF GInv
      <4>2. "text" \in GPlaces /\ "buffer" \in GPlaces /\ "file" \in GPlaces /\ "group" \in GPlaces
        BY DEF GPlaces
      <4> HIDE DEF GContent, a, b
      <4> QED BY <1>6, <2>6, <4>1, <4>2
    <3> QED BY <3>1, <1>1
  <2>8. Rising(GPath)
    BY <1>8 DEF GInv, GOrder
  <2> QED BY <1>3, <1>4, <2>3, <2>4, <2>5, <2>7, <2>8, RisingJoined
<1>9. GOrder'
  BY <1>2, <1>8 DEF GInv, GOrder
<1> QED BY <1>5, <1>7, <1>9 DEF GInv

\* sync() pushes the put area to the end of the queue.
LEMMA LoggerWriteQueued ==
  ASSUME GInv, G!WriteQueued
  PROVE  GInv'
<1>1. /\ g_text' = <<>> /\ g_buffer' = Append(g_buffer, g_text)
      /\ UNCHANGED <<g_qt, g_file, g_lost, g_twice, g_pc, g_next, g_group, g_switches, g_way>>
  BY DEF G!WriteQueued, G!push, G!Written, G!roller
<1>2. /\ g_text \in Lines /\ g_file \in Lines /\ Flat(g_buffer) \in Lines
      /\ Flat(g_qt["group"]) \in Lines /\ Flat(g_qt["admin"]) \in Lines
  BY LoggerLines DEF GInv
<1>3. Flat(g_buffer') = Flat(g_buffer) \o g_text
  BY <1>1, <1>2, FlatAppend DEF GInv, GType
<1>4. /\ Len(Flat(g_buffer')) = Len(Flat(g_buffer)) + Len(g_text)
      /\ Elems(Flat(g_buffer')) = Elems(Flat(g_buffer)) \cup Elems(g_text)
  BY <1>2, <1>3, Joined
<1>5. <<>> \in Lines /\ Len(<<>>) = 0 /\ Elems(<<>>) = {}
  BY EmptyLines
<1>6. GType'
  <2>1. Append(g_buffer, g_text) \in Seq(Lines)
    BY <1>2 DEF GInv, GType
  <2>2. {g_way', g_group', g_member'} \subseteq BOOLEAN
    BY Zenon DEF GInv, GType, G!WriteQueued, G!Written
  <2> QED BY <1>1, <1>5, <2>1, <2>2 DEF GInv, GType, G!WriteQueued, G!Written, G!roller
<1>7. GHeld'
  <2> DEFINE c == GContent
             e == GContent'
  <2>1. /\ c \in [GPlaces -> Lines] /\ c["text"] = g_text /\ c["buffer"] = Flat(g_buffer)
        /\ c["file"] = g_file /\ c["group"] = Flat(g_qt["group"]) /\ c["admin"] = Flat(g_qt["admin"])
    BY LoggerLines DEF GInv
  <2>2. Flat(g_buffer') \in Lines
    BY <1>2, <1>3, Joined
  <2>3. /\ e \in [GPlaces -> Lines] /\ e["text"] = <<>> /\ e["buffer"] = Flat(g_buffer) \o g_text
        /\ e["file"] = g_file /\ e["group"] = Flat(g_qt["group"]) /\ e["admin"] = Flat(g_qt["admin"])
    <3> DEFINE tt == <<>>
               bb == Flat(g_buffer) \o g_text
               pp == Flat(g_qt["group"])
               aa == Flat(g_qt["admin"])
               ff == g_file
    <3>1. e = Content(tt, bb, pp, aa, ff)
      BY <1>1, <1>2, <1>3, <1>5, <2>2 DEF GContent
    <3>2. tt \in Lines /\ bb \in Lines /\ pp \in Lines /\ aa \in Lines /\ ff \in Lines
      BY <1>1, <1>2, <1>3, <1>5, <2>2
    <3> HIDE DEF tt, bb, pp, aa, ff, e
    <3>3. /\ e \in [GPlaces -> Lines]
        /\ e["text"] = tt /\ e["buffer"] = bb /\ e["group"] = pp /\ e["admin"] = aa
        /\ e["file"] = ff
      BY <3>1, <3>2 DEF Content, GPlaces
    <3> QED BY <3>3 DEF tt, bb, pp, aa, ff
  <2>4. Held(c, g_lost, g_twice, g_next - 1)
    BY DEF GInv, GHeld
  <2> HIDE DEF c, e
  <2>5. /\ "text" \in GPlaces /\ "buffer" \in GPlaces /\ "text" # "buffer"
        /\ \A q \in GPlaces \ {"text", "buffer"} : e[q] = c[q]
    BY <2>1, <2>3 DEF GPlaces
  <2>6. Held(e, g_lost, g_twice, g_next - 1)
    BY <2>1, <2>3, <2>4, <2>5, HeldMove
  <2> QED BY <1>1, <2>6 DEF GHeld, e
<1>8. GPath' = GPath
  <2>1. (Flat(g_buffer) \o g_text) \o <<>> = Flat(g_buffer) \o g_text
    BY <1>2, Joined, JoinedEmpty
  <2> QED BY <1>1, <1>3, <2>1 DEF GPath
<1>9. GOrder'
  BY <1>1, <1>8 DEF GInv, GOrder, G!WriteQueued, G!Written
<1> QED BY <1>6, <1>7, <1>9 DEF GInv

\* sync() appends the put area to the files: never while the order is promised.
LEMMA LoggerWriteAtOnce ==
  ASSUME GInv, G!WriteAtOnce
  PROVE  GInv'
<1>1. /\ g_text' = <<>> /\ g_file' = g_file \o g_text
      /\ UNCHANGED <<g_qt, g_buffer, g_lost, g_twice, g_pc, g_next, g_group, g_switches, g_way>>
      /\ g_holder # Nil /\ ~g_way
  BY DEF G!WriteAtOnce, G!Written
<1>2. /\ g_text \in Lines /\ g_file \in Lines /\ Flat(g_buffer) \in Lines
      /\ Flat(g_qt["group"]) \in Lines /\ Flat(g_qt["admin"]) \in Lines
  BY LoggerLines DEF GInv
<1>3. /\ g_file' \in Lines /\ Len(g_file') = Len(g_file) + Len(g_text)
      /\ Elems(g_file') = Elems(g_file) \cup Elems(g_text)
  BY <1>1, <1>2, Joined
<1>4. <<>> \in Lines /\ Len(<<>>) = 0 /\ Elems(<<>>) = {}
  BY EmptyLines
<1>5. GType'
  <2>1. {g_way', g_group', g_member'} \subseteq BOOLEAN
    BY Zenon DEF GInv, GType, G!WriteAtOnce, G!Written
  <2> QED BY <1>1, <1>3, <1>4, <2>1 DEF GInv, GType, G!WriteAtOnce, G!Written
<1>6. GHeld'
  <2> DEFINE c == GContent
             e == GContent'
  <2>1. /\ c \in [GPlaces -> Lines] /\ c["text"] = g_text /\ c["buffer"] = Flat(g_buffer)
        /\ c["file"] = g_file /\ c["group"] = Flat(g_qt["group"]) /\ c["admin"] = Flat(g_qt["admin"])
    BY LoggerLines DEF GInv
  <2>2. /\ e \in [GPlaces -> Lines] /\ e["text"] = <<>> /\ e["buffer"] = Flat(g_buffer)
        /\ e["file"] = g_file \o g_text /\ e["group"] = Flat(g_qt["group"])
        /\ e["admin"] = Flat(g_qt["admin"])
    <3> DEFINE tt == <<>>
               bb == Flat(g_buffer)
               pp == Flat(g_qt["group"])
               aa == Flat(g_qt["admin"])
               ff == g_file \o g_text
    <3>1. e = Content(tt, bb, pp, aa, ff)
      BY <1>1, <1>2, <1>3, <1>4 DEF GContent
    <3>2. tt \in Lines /\ bb \in Lines /\ pp \in Lines /\ aa \in Lines /\ ff \in Lines
      BY <1>1, <1>2, <1>3, <1>4
    <3> HIDE DEF tt, bb, pp, aa, ff, e
    <3>3. /\ e \in [GPlaces -> Lines]
        /\ e["text"] = tt /\ e["buffer"] = bb /\ e["group"] = pp /\ e["admin"] = aa
        /\ e["file"] = ff
      BY <3>1, <3>2 DEF Content, GPlaces
    <3> QED BY <3>3 DEF tt, bb, pp, aa, ff
  <2>3. Held(c, g_lost, g_twice, g_next - 1)
    BY DEF GInv, GHeld
  <2> HIDE DEF c, e
  <2>4. /\ "text" \in GPlaces /\ "file" \in GPlaces /\ "text" # "file"
        /\ \A q \in GPlaces \ {"text", "file"} : e[q] = c[q]
    BY <2>1, <2>2 DEF GPlaces
  <2>5. Held(e, g_lost, g_twice, g_next - 1)
    BY <2>1, <2>2, <2>3, <2>4, HeldMove
  <2> QED BY <1>1, <2>5 DEF GHeld, e
<1>7. GOrder'
  BY <1>1 DEF GInv, GOrder
<1> QED BY <1>5, <1>6, <1>7 DEF GInv

\* The elements, as the two modules write them.
LEMMA Elements == \A x \in Lines : G!ToSet(x) = Elems(x) /\ F!ToSet(x) = Elems(x)
<1> SUFFICES ASSUME NEW x \in Lines PROVE G!ToSet(x) = Elems(x) /\ F!ToSet(x) = Elems(x)
  OBVIOUS
<1>1. DOMAIN x = 1 .. Len(x)
  BY DEF Lines
<1> QED BY <1>1 DEF G!ToSet, F!ToSet, Elems

\* roll() throws in the writer's thread: the text stays where it is, and may be in the
\* files as well.
LEMMA LoggerWriteThrows ==
  ASSUME GInv, G!WriteThrows
  PROVE  GInv'
<1>1. /\ UNCHANGED <<g_level, g_text, g_qt, g_buffer, g_lost, g_pc, g_next>>
      /\ UNCHANGED <<g_group, g_member, g_switches>>
      /\ g_holder # Nil /\ ~g_way /\ g_holder' \in Writers \cup {Nil}
  BY DEF G!WriteThrows, GInv, GType
<1>2. g_switches # 0
  BY <1>1 DEF GInv, GOrder
<1>3. GOrder'
  BY <1>1, <1>2 DEF GOrder
<1>4. g_way' \in BOOLEAN
  BY Zenon DEF GInv, GType, G!WriteThrows
<1>5. {g_way', g_group', g_member'} \subseteq BOOLEAN
  BY <1>1, <1>4 DEF GInv, GType
<1>6. CASE UNCHANGED <<g_file, g_twice>>
  <2>1. GType'
    BY <1>1, <1>5, <1>6 DEF GInv, GType
  <2>2. GHeld'
    BY <1>1, <1>6 DEF GInv, GHeld, GContent
  <2> QED BY <1>3, <2>1, <2>2 DEF GInv
<1>7. CASE g_file' = g_file \o g_text /\ g_twice' = g_twice \cup G!ToSet(g_text)
  <2>1. /\ g_text \in Lines /\ g_file \in Lines /\ Flat(g_buffer) \in Lines
        /\ Flat(g_qt["group"]) \in Lines /\ Flat(g_qt["admin"]) \in Lines
    BY LoggerLines DEF GInv
  <2>2. g_file' \in Lines /\ g_twice' = g_twice \cup Elems(g_text)
    BY <1>7, <2>1, Joined, Elements
  <2>3. GType'
    BY <1>1, <1>5, <2>2 DEF GInv, GType
  <2>4. GHeld'
    <3> DEFINE c == GContent
               e == GContent'
    <3>1. /\ c \in [GPlaces -> Lines] /\ c["text"] = g_text /\ c["buffer"] = Flat(g_buffer)
          /\ c["file"] = g_file /\ c["group"] = Flat(g_qt["group"])
          /\ c["admin"] = Flat(g_qt["admin"])
      BY LoggerLines DEF GInv
    <3>2. /\ e \in [GPlaces -> Lines] /\ e["text"] = g_text /\ e["buffer"] = Flat(g_buffer)
          /\ e["file"] = g_file \o g_text /\ e["group"] = Flat(g_qt["group"])
          /\ e["admin"] = Flat(g_qt["admin"])
      <4> DEFINE tt == g_text
                 bb == Flat(g_buffer)
                 pp == Flat(g_qt["group"])
                 aa == Flat(g_qt["admin"])
                 ff == g_file \o g_text
      <4>1. e = Content(tt, bb, pp, aa, ff)
        BY <1>1, <1>7, <2>1, <2>2 DEF GContent
      <4>2. tt \in Lines /\ bb \in Lines /\ pp \in Lines /\ aa \in Lines /\ ff \in Lines
        BY <1>1, <1>7, <2>1, <2>2
      <4> HIDE DEF tt, bb, pp, aa, ff, e
      <4>3. /\ e \in [GPlaces -> Lines]
          /\ e["text"] = tt /\ e["buffer"] = bb /\ e["group"] = pp /\ e["admin"] = aa
          /\ e["file"] = ff
        BY <4>1, <4>2 DEF Content, GPlaces
      <4> QED BY <4>3 DEF tt, bb, pp, aa, ff
    <3>3. Held(c, g_lost, g_twice, g_next - 1)
      BY DEF GInv, GHeld
    <3> HIDE DEF c, e
    <3>4. /\ "text" \in GPlaces /\ "file" \in GPlaces /\ "text" # "file"
          /\ \A q \in GPlaces \ {"file"} : e[q] = c[q]
      BY <3>1, <3>2 DEF GPlaces
    <3>5. Held(e, g_lost, g_twice \cup Elems(c["text"]), g_next - 1)
      BY <3>1, <3>2, <3>3, <3>4, HeldCopy
    <3> QED BY <1>1, <2>2, <3>1, <3>5 DEF GHeld, e
  <2> QED BY <1>3, <2>3, <2>4 DEF GInv
<1> QED BY <1>6, <1>7 DEF G!WriteThrows

\* The flushers are the thread of the group and the caller of sync().
LEMMA LoggerFlushers ==
  ASSUME NEW f \in G!Flushers
  PROVE  f = "group" \/ f = "admin"
  BY DEF G!Flushers

\* The flusher f goes on, with what it took.
LEMMA LoggerGoes ==
  ASSUME GInv, NEW f \in G!Flushers, NEW q \in Seq(Lines), NEW v \in GStates,
         g_qt' = [g_qt EXCEPT ![f] = q], G!GoTo(f, v), v \notin GRolls => q = <<>>,
         f = "group" => v \in {"idle", "flush", "flushRoll"}
  PROVE  /\ g_qt' \in [G!Flushers -> Seq(Lines)] /\ g_pc' \in [G!Flushers -> GStates]
         /\ g_pc'["group"] \in {"idle", "flush", "flushRoll"}
         /\ \A h \in G!Flushers : g_pc'[h] \notin GRolls => g_qt'[h] = <<>>
         /\ g_qt'[f] = q /\ g_pc'[f] = v
         /\ \A h \in G!Flushers : h # f => g_qt'[h] = g_qt[h] /\ g_pc'[h] = g_pc[h]
<1>1. /\ g_pc' = [g_pc EXCEPT ![f] = v] /\ g_qt \in [G!Flushers -> Seq(Lines)]
      /\ g_pc \in [G!Flushers -> GStates]
  BY DEF G!GoTo, GInv, GType
<1>2. /\ g_qt' \in [G!Flushers -> Seq(Lines)] /\ g_pc' \in [G!Flushers -> GStates]
      /\ g_qt'[f] = q /\ g_pc'[f] = v
      /\ \A h \in G!Flushers : h # f => g_qt'[h] = g_qt[h] /\ g_pc'[h] = g_pc[h]
  BY <1>1
<1>3. g_pc'["group"] \in {"idle", "flush", "flushRoll"}
  BY <1>2 DEF GInv, GType, G!Flushers
<1>4. \A h \in G!Flushers : g_pc'[h] \notin GRolls => g_qt'[h] = <<>>
  BY <1>2 DEF GInv, GType
<1> QED BY <1>2, <1>3, <1>4

\* What a flusher takes, it takes with an empty hand.
LEMMA LoggerSwap ==
  ASSUME GInv, NEW f \in G!Flushers, G!Swap(f)
  PROVE  GInv'
<1> DEFINE v == G!Rolling[g_pc[f]]
<1>1. /\ g_pc[f] \in {"flush", "last", "first"} /\ v \in GRolls /\ v \in GStates
      /\ (f = "group" => v = "flushRoll") /\ g_pc[f] \notin GRolls /\ g_pc[f] # "idle"
  BY DEF G!Swap, G!Rolling, GRolls, GStates, GInv, GType
<1>2. /\ g_qt' = [g_qt EXCEPT ![f] = g_buffer] /\ g_buffer' = <<>> /\ G!GoTo(f, v)
      /\ UNCHANGED <<g_level, g_holder, g_way, g_text, g_next>>
      /\ UNCHANGED <<g_group, g_member, g_file, g_lost, g_twice, g_switches>>
  BY DEF G!Swap, G!writer
<1> HIDE DEF v
<1>3. g_buffer \in Seq(Lines) /\ <<>> \in Seq(Lines) /\ Len(<<>>) = 0 /\ Elems(<<>>) = {}
      /\ Flat(<<>>) = <<>> /\ <<>> \in Lines
  BY EmptyLines DEF GInv, GType
<1>4. /\ g_qt' \in [G!Flushers -> Seq(Lines)] /\ g_pc' \in [G!Flushers -> GStates]
      /\ g_pc'["group"] \in {"idle", "flush", "flushRoll"}
      /\ \A h \in G!Flushers : g_pc'[h] \notin GRolls => g_qt'[h] = <<>>
      /\ g_qt'[f] = g_buffer /\ g_pc'[f] = v
      /\ \A h \in G!Flushers : h # f => g_qt'[h] = g_qt[h] /\ g_pc'[h] = g_pc[h]
  BY <1>1, <1>2, <1>3, LoggerGoes
<1>5. g_qt[f] = <<>>
  BY <1>1 DEF GInv, GType
<1>6. GType'
  <2>1. {g_way', g_group', g_member'} \subseteq BOOLEAN
    BY <1>2, Zenon DEF GInv, GType
  <2> QED BY <1>2, <1>3, <1>4, <2>1 DEF GInv, GType
<1>7. /\ g_text \in Lines /\ g_file \in Lines /\ Flat(g_buffer) \in Lines
      /\ Flat(g_qt["group"]) \in Lines /\ Flat(g_qt["admin"]) \in Lines
  BY LoggerLines DEF GInv
<1>8. "group" \in G!Flushers /\ "admin" \in G!Flushers /\ "group" # "admin"
  BY DEF G!Flushers
<1>10. GHeld'
  <2> DEFINE c == GContent
             e == GContent'
  <2>1. /\ c \in [GPlaces -> Lines] /\ c["text"] = g_text /\ c["buffer"] = Flat(g_buffer)
        /\ c["file"] = g_file /\ c["group"] = Flat(g_qt["group"]) /\ c["admin"] = Flat(g_qt["admin"])
    BY LoggerLines DEF GInv
  <2>2. /\ Flat(g_qt'["group"]) = IF f = "group" THEN Flat(g_buffer) ELSE Flat(g_qt["group"])
        /\ Flat(g_qt'["admin"]) = IF f = "admin" THEN Flat(g_buffer) ELSE Flat(g_qt["admin"])
        /\ Flat(g_buffer') = <<>>
    BY <1>2, <1>3, <1>4, <1>8
  <2>3. /\ e \in [GPlaces -> Lines] /\ e["text"] = g_text /\ e["buffer"] = <<>>
        /\ e["file"] = g_file
        /\ e["group"] = (IF f = "group" THEN Flat(g_buffer) ELSE Flat(g_qt["group"]))
        /\ e["admin"] = (IF f = "admin" THEN Flat(g_buffer) ELSE Flat(g_qt["admin"]))
    <3> DEFINE tt == g_text
               bb == <<>>
               pp == IF f = "group" THEN Flat(g_buffer) ELSE Flat(g_qt["group"])
               aa == IF f = "admin" THEN Flat(g_buffer) ELSE Flat(g_qt["admin"])
               ff == g_file
    <3>1. e = Content(tt, bb, pp, aa, ff)
      BY <1>2, <1>3, <1>7, <2>2 DEF GContent
    <3>2. tt \in Lines /\ bb \in Lines /\ pp \in Lines /\ aa \in Lines /\ ff \in Lines
      BY <1>2, <1>3, <1>7, <2>2
    <3> HIDE DEF tt, bb, pp, aa, ff, e
    <3>3. /\ e \in [GPlaces -> Lines]
        /\ e["text"] = tt /\ e["buffer"] = bb /\ e["group"] = pp /\ e["admin"] = aa
        /\ e["file"] = ff
      BY <3>1, <3>2 DEF Content, GPlaces
    <3> QED BY <3>3 DEF tt, bb, pp, aa, ff
  <2>4. Held(c, g_lost, g_twice, g_next - 1)
    BY DEF GInv, GHeld
  <2>5. c[f] = <<>> /\ <<>> \o Flat(g_buffer) = Flat(g_buffer)
    BY <1>3, <1>5, <1>7, <2>1, JoinedEmpty, LoggerFlushers
  <2> HIDE DEF c, e
  <2>6. /\ "buffer" \in GPlaces /\ f \in GPlaces /\ "buffer" # f
        /\ \A q \in GPlaces \ {"buffer", f} : e[q] = c[q]
        /\ e[f] = Flat(g_buffer)
    BY <2>1, <2>3, LoggerFlushers DEF GPlaces
  <2>7. Held(e, g_lost, g_twice, g_next - 1)
    BY <2>1, <2>3, <2>4, <2>5, <2>6, HeldMove
  <2> QED BY <1>2, <2>7 DEF GHeld, e
<1>11. GOrder'
  <2> SUFFICES ASSUME g_switches = 0
               PROVE  /\ g_pc'["admin"] = "idle" /\ g_group' /\ (g_holder' # Nil => g_way')
                      /\ Rising(GPath')
    BY <1>2 DEF GOrder
  <2>1. /\ g_pc["admin"] = "idle" /\ g_group /\ (g_holder # Nil => g_way) /\ Rising(GPath)
    BY DEF GInv, GOrder
  <2>2. f = "group"
    BY <1>1, <2>1, LoggerFlushers
  <2>3. g_pc'["admin"] = "idle" /\ g_qt'["group"] = g_buffer /\ g_qt["group"] = <<>>
    BY <1>4, <1>5, <1>8, <2>1, <2>2
  <2>4. GPath' = g_file \o (Flat(g_buffer) \o (<<>> \o g_text))
    BY <1>2, <1>3, <2>3 DEF GPath
  <2>5. GPath = g_file \o (<<>> \o (Flat(g_buffer) \o g_text))
    BY <1>3, <2>3 DEF GPath
  <2>6. <<>> \o g_text = g_text /\ <<>> \o (Flat(g_buffer) \o g_text) = Flat(g_buffer) \o g_text
    BY <1>7, Joined, JoinedEmpty
  <2> QED BY <1>2, <2>1, <2>3, <2>4, <2>5, <2>6
<1> QED BY <1>6, <1>10, <1>11 DEF GInv

\* Where a flusher goes from its roll().
LEMMA LoggerThen ==
  ASSUME GInv, NEW f \in G!Flushers, g_pc[f] \in GRolls, NEW v, v \in {G!Then(f), G!Unwound(f)}
  PROVE  v \in GStates /\ v \notin GRolls /\ (f = "group" => v = "idle") /\ g_pc[f] # "idle"
<1>1. g_pc[f] = "flushRoll" => v = IF f = "group" THEN "idle" ELSE "drop"
  BY DEF G!Then, G!Unwound
<1>2. g_pc[f] = "lastRoll" => v = "idle"
  BY DEF G!Then, G!Unwound
<1>3. g_pc[f] = "firstRoll" => v \in {"install", "idle"}
  BY DEF G!Then, G!Unwound
<1>4. f = "group" => g_pc[f] = "flushRoll"
  BY DEF GInv, GType, GRolls
<1> QED BY <1>1, <1>2, <1>3, <1>4 DEF GRolls, GStates

\* What is the same when a flusher empties its hand, and when it loses what is in it.
GEmptied(f, v) ==
  /\ g_qt' = [g_qt EXCEPT ![f] = <<>>] /\ G!GoTo(f, v)
  /\ UNCHANGED <<g_level, g_holder, g_way, g_text, g_next, g_buffer>>
  /\ UNCHANGED <<g_group, g_member, g_twice, g_switches>>

\* A flusher empties its hand.
LEMMA LoggerEmptied ==
  ASSUME GInv, NEW f \in G!Flushers, g_pc[f] \in GRolls, NEW v, v \in {G!Then(f), G!Unwound(f)},
         GEmptied(f, v), g_file' \in Lines
  PROVE  /\ GType'
         /\ Flat(g_qt'["group"]) = (IF f = "group" THEN <<>> ELSE Flat(g_qt["group"]))
         /\ Flat(g_qt'["admin"]) = (IF f = "admin" THEN <<>> ELSE Flat(g_qt["admin"]))
         /\ GOrder' <=> (g_switches = 0 => Rising(GPath'))
         /\ g_switches = 0 => f = "group"
<1>1. v \in GStates /\ v \notin GRolls /\ (f = "group" => v = "idle") /\ g_pc[f] # "idle"
  BY LoggerThen
<1>2. <<>> \in Seq(Lines) /\ Flat(<<>>) = <<>>
  BY EmptyLines
<1>3. /\ g_qt' \in [G!Flushers -> Seq(Lines)] /\ g_pc' \in [G!Flushers -> GStates]
      /\ g_pc'["group"] \in {"idle", "flush", "flushRoll"}
      /\ \A h \in G!Flushers : g_pc'[h] \notin GRolls => g_qt'[h] = <<>>
      /\ g_qt'[f] = <<>> /\ g_pc'[f] = v
      /\ \A h \in G!Flushers : h # f => g_qt'[h] = g_qt[h] /\ g_pc'[h] = g_pc[h]
  <2>1. f = "group" => v \in {"idle", "flush", "flushRoll"}
    BY <1>1
  <2> QED BY <1>1, <1>2, <2>1, LoggerGoes DEF GEmptied
<1>4. GType'
  <2>1. {g_way', g_group', g_member'} \subseteq BOOLEAN
    BY Zenon DEF GInv, GType, GEmptied
  <2> QED BY <1>3, <2>1 DEF GInv, GType, GEmptied
<1>5. "group" \in G!Flushers /\ "admin" \in G!Flushers /\ "group" # "admin"
  BY DEF G!Flushers
<1>6. /\ Flat(g_qt'["group"]) = (IF f = "group" THEN <<>> ELSE Flat(g_qt["group"]))
      /\ Flat(g_qt'["admin"]) = (IF f = "admin" THEN <<>> ELSE Flat(g_qt["admin"]))
  BY <1>2, <1>3, <1>5
<1>7. ASSUME g_switches = 0
      PROVE  /\ f = "group" /\ g_pc'["admin"] = "idle" /\ g_group' /\ (g_holder' # Nil => g_way')
             /\ g_switches' = 0
  <2>1. /\ g_pc["admin"] = "idle" /\ g_group /\ (g_holder # Nil => g_way)
    BY <1>7 DEF GInv, GOrder
  <2>2. f = "group"
    BY <1>1, <2>1, LoggerFlushers
  <2> QED BY <1>3, <1>5, <1>7, <2>1, <2>2 DEF GEmptied
<1>8. g_switches' = g_switches
  BY DEF GEmptied
<1>9. GOrder' <=> (g_switches = 0 => Rising(GPath'))
  BY <1>7, <1>8 DEF GOrder
<1> QED BY <1>4, <1>6, <1>7, <1>9

\* A flusher empties its hand into the files, whether roll() throws behind that or not.
LEMMA LoggerRolled ==
  ASSUME GInv, NEW f \in G!Flushers, g_pc[f] \in GRolls, NEW v, v \in {G!Then(f), G!Unwound(f)},
         GEmptied(f, v), g_file' = g_file \o Flat(g_qt[f]), g_lost' = g_lost
  PROVE  GInv'
<1> DEFINE x == Flat(g_qt[f])
<1>1. /\ g_text \in Lines /\ g_file \in Lines /\ Flat(g_buffer) \in Lines
      /\ Flat(g_qt["group"]) \in Lines /\ Flat(g_qt["admin"]) \in Lines /\ x \in Lines
  BY LoggerLines, LoggerFlushers DEF GInv
<1>2. g_file' = g_file \o x /\ g_file' \in Lines
  BY <1>1, Joined
<1>3. <<>> \in Lines /\ Flat(<<>>) = <<>>
  BY EmptyLines
<1>4. /\ UNCHANGED <<g_text, g_buffer, g_next, g_twice>>
      /\ x = IF f = "group" THEN Flat(g_qt["group"]) ELSE Flat(g_qt["admin"])
  BY LoggerFlushers DEF GEmptied
<1> HIDE DEF x
<1>5. /\ GType'
      /\ Flat(g_qt'["group"]) = (IF f = "group" THEN <<>> ELSE Flat(g_qt["group"]))
      /\ Flat(g_qt'["admin"]) = (IF f = "admin" THEN <<>> ELSE Flat(g_qt["admin"]))
      /\ GOrder' <=> (g_switches = 0 => Rising(GPath'))
      /\ g_switches = 0 => f = "group"
  BY <1>2, LoggerEmptied
<1>6. GHeld'
  <2> DEFINE c == GContent
             e == GContent'
  <2>1. /\ c \in [GPlaces -> Lines] /\ c["text"] = g_text /\ c["buffer"] = Flat(g_buffer)
        /\ c["file"] = g_file /\ c["group"] = Flat(g_qt["group"]) /\ c["admin"] = Flat(g_qt["admin"])
    BY LoggerLines DEF GInv
  <2>2. /\ e \in [GPlaces -> Lines] /\ e["text"] = g_text /\ e["buffer"] = Flat(g_buffer)
        /\ e["file"] = g_file \o x
        /\ e["group"] = (IF f = "group" THEN <<>> ELSE Flat(g_qt["group"]))
        /\ e["admin"] = (IF f = "admin" THEN <<>> ELSE Flat(g_qt["admin"]))
    <3> DEFINE tt == g_text
               bb == Flat(g_buffer)
               pp == IF f = "group" THEN <<>> ELSE Flat(g_qt["group"])
               aa == IF f = "admin" THEN <<>> ELSE Flat(g_qt["admin"])
               ff == g_file \o x
    <3>1. e = Content(tt, bb, pp, aa, ff)
      BY <1>1, <1>2, <1>3, <1>4, <1>5 DEF GContent
    <3>2. tt \in Lines /\ bb \in Lines /\ pp \in Lines /\ aa \in Lines /\ ff \in Lines
      BY <1>1, <1>2, <1>3, <1>4, <1>5
    <3> HIDE DEF tt, bb, pp, aa, ff, e
    <3>3. /\ e \in [GPlaces -> Lines]
        /\ e["text"] = tt /\ e["buffer"] = bb /\ e["group"] = pp /\ e["admin"] = aa
        /\ e["file"] = ff
      BY <3>1, <3>2 DEF Content, GPlaces
    <3> QED BY <3>3 DEF tt, bb, pp, aa, ff
  <2>3. Held(c, g_lost, g_twice, g_next - 1)
    BY DEF GInv, GHeld
  <2> HIDE DEF c, e
  <2>4. /\ "file" \in GPlaces /\ f \in GPlaces /\ "file" # f
        /\ \A q \in GPlaces \ {f, "file"} : e[q] = c[q]
        /\ e[f] = <<>> /\ c[f] = x
    BY <1>4, <2>1, <2>2, LoggerFlushers DEF GPlaces
  <2>5. Held(e, g_lost, g_twice, g_next - 1)
    BY <2>1, <2>2, <2>3, <2>4, HeldMove
  <2> QED BY <1>4, <2>5 DEF GHeld, e
<1>7. ASSUME g_switches = 0 PROVE Rising(GPath')
  <2>1. Rising(GPath)
    BY <1>7 DEF GInv, GOrder
  <2> DEFINE y == Flat(g_buffer) \o g_text
  <2>2. y \in Lines
    BY <1>1, Joined
  <2>3. GPath' = (g_file \o x) \o (<<>> \o y)
    BY <1>2, <1>4, <1>5, <1>7 DEF GPath
  <2>4. GPath = g_file \o (x \o y)
    BY <1>4, <1>5, <1>7 DEF GPath
  <2> HIDE DEF y
  <2>5. <<>> \o y = y
    BY <2>2, JoinedEmpty
  <2>6. \A a, b, z \in Lines : a \o (b \o z) = (a \o b) \o z
    BY JoinedTwice
  <2>7. g_file \o (x \o y) = (g_file \o x) \o y
    <3>1. g_file \in Lines /\ x \in Lines
      BY <1>1
    <3> QED BY <2>2, <2>6, <3>1, Zenon
  <2> QED BY <2>1, <2>3, <2>4, <2>5, <2>7
<1> QED BY <1>5, <1>6, <1>7 DEF GInv

\* A flusher empties its hand into the files.
LEMMA LoggerRoll ==
  ASSUME GInv, NEW f \in G!Flushers, G!Roll(f)
  PROVE  GInv'
<1>1. g_pc[f] \in GRolls /\ g_file' = g_file \o Flat(g_qt[f]) /\ g_lost' = g_lost
  BY DEF G!Roll, GRolls, Flat
<1> DEFINE v == G!Then(f)
<1>2. GEmptied(f, v) /\ v \in {G!Then(f), G!Unwound(f)}
  BY DEF G!Roll, GEmptied, G!writer
<1> HIDE DEF v
<1> QED BY <1>1, <1>2, LoggerRolled

\* A flush that throws loses what the flusher took, and no more, or has written it.
LEMMA LoggerRollThrows ==
  ASSUME GInv, NEW f \in G!Flushers, G!RollThrows(f)
  PROVE  GInv'
<1> DEFINE v == G!Unwound(f)
           x == Flat(g_qt[f])
<1>1. /\ g_text \in Lines /\ g_file \in Lines /\ Flat(g_buffer) \in Lines
      /\ Flat(g_qt["group"]) \in Lines /\ Flat(g_qt["admin"]) \in Lines /\ x \in Lines
  BY LoggerLines, LoggerFlushers DEF GInv
<1>2. g_pc[f] \in GRolls /\ GEmptied(f, v) /\ v \in {G!Then(f), G!Unwound(f)}
  BY DEF G!RollThrows, GRolls, GEmptied, G!writer
<1>3. \/ g_file' = g_file \o x /\ g_lost' = g_lost
      \/ g_lost' = g_lost \cup Elems(x) /\ g_file' = g_file
  BY <1>1, Elements DEF G!RollThrows, Flat
<1> HIDE DEF v
<1>4. CASE g_file' = g_file \o x /\ g_lost' = g_lost
  BY <1>2, <1>4, LoggerRolled
<1>5. CASE g_lost' = g_lost \cup Elems(x) /\ g_file' = g_file
  <2>1. <<>> \in Lines /\ Flat(<<>>) = <<>>
    BY EmptyLines
  <2>2. /\ UNCHANGED <<g_text, g_buffer, g_next, g_twice>>
        /\ x = IF f = "group" THEN Flat(g_qt["group"]) ELSE Flat(g_qt["admin"])
    BY <1>2, LoggerFlushers DEF GEmptied
  <2> HIDE DEF x
  <2>3. /\ GType'
        /\ Flat(g_qt'["group"]) = (IF f = "group" THEN <<>> ELSE Flat(g_qt["group"]))
        /\ Flat(g_qt'["admin"]) = (IF f = "admin" THEN <<>> ELSE Flat(g_qt["admin"]))
        /\ GOrder' <=> (g_switches = 0 => Rising(GPath'))
        /\ g_switches = 0 => f = "group"
    BY <1>1, <1>2, <1>5, LoggerEmptied
  <2>4. GHeld'
    <3> DEFINE c == GContent
               e == GContent'
    <3>1. /\ c \in [GPlaces -> Lines] /\ c["text"] = g_text /\ c["buffer"] = Flat(g_buffer)
          /\ c["file"] = g_file /\ c["group"] = Flat(g_qt["group"])
          /\ c["admin"] = Flat(g_qt["admin"])
      BY LoggerLines DEF GInv
    <3>2. /\ e \in [GPlaces -> Lines] /\ e["text"] = g_text /\ e["buffer"] = Flat(g_buffer)
          /\ e["file"] = g_file
          /\ e["group"] = (IF f = "group" THEN <<>> ELSE Flat(g_qt["group"]))
          /\ e["admin"] = (IF f = "admin" THEN <<>> ELSE Flat(g_qt["admin"]))
      <4> DEFINE tt == g_text
                 bb == Flat(g_buffer)
                 pp == IF f = "group" THEN <<>> ELSE Flat(g_qt["group"])
                 aa == IF f = "admin" THEN <<>> ELSE Flat(g_qt["admin"])
                 ff == g_file
      <4>1. e = Content(tt, bb, pp, aa, ff)
        BY <1>1, <1>5, <2>1, <2>2, <2>3 DEF GContent
      <4>2. tt \in Lines /\ bb \in Lines /\ pp \in Lines /\ aa \in Lines /\ ff \in Lines
        BY <1>1, <1>5, <2>1, <2>2, <2>3
      <4> HIDE DEF tt, bb, pp, aa, ff, e
      <4>3. /\ e \in [GPlaces -> Lines]
          /\ e["text"] = tt /\ e["buffer"] = bb /\ e["group"] = pp /\ e["admin"] = aa
          /\ e["file"] = ff
        BY <4>1, <4>2 DEF Content, GPlaces
      <4> QED BY <4>3 DEF tt, bb, pp, aa, ff
    <3>3. Held(c, g_lost, g_twice, g_next - 1)
      BY DEF GInv, GHeld
    <3> HIDE DEF c, e
    <3>4. /\ f \in GPlaces /\ \A q \in GPlaces \ {f} : e[q] = c[q]
          /\ e[f] = <<>> /\ c[f] = x
      BY <2>2, <3>1, <3>2, LoggerFlushers DEF GPlaces
    <3>5. Held(e, g_lost \cup Elems(c[f]), g_twice, g_next - 1)
      BY <3>1, <3>2, <3>3, <3>4, HeldLose
    <3> QED BY <1>5, <2>2, <3>4, <3>5 DEF GHeld, e
  <2>5. ASSUME g_switches = 0 PROVE Rising(GPath')
    <3>1. Rising(GPath)
      BY <2>5 DEF GInv, GOrder
    <3> DEFINE y == Flat(g_buffer) \o g_text
    <3>2. y \in Lines
      BY <1>1, Joined
    <3>3. GPath' = g_file \o (<<>> \o y)
      BY <1>5, <2>2, <2>3, <2>5 DEF GPath
    <3>4. GPath = g_file \o (x \o y)
      BY <2>2, <2>3, <2>5 DEF GPath
    <3> HIDE DEF y
    <3>5. <<>> \o y = y
      BY <3>2, JoinedEmpty
    <3>6. x \in Lines /\ x \o y \in Lines /\ Elems(x \o y) = Elems(x) \cup Elems(y)
      BY <1>1, <2>2, <3>2, Joined
    <3>7. Rising(g_file) /\ Rising(x \o y) /\ \A i \in Elems(g_file), j \in Elems(x \o y) : i < j
      BY <1>1, <3>1, <3>4, <3>6, RisingJoined
    <3>8. Rising(y)
      BY <3>2, <3>6, <3>7, RisingJoined
    <3>9. \A i \in Elems(g_file), j \in Elems(y) : i < j
      BY <3>6, <3>7
    <3>10. Rising(g_file \o y)
      BY <1>1, <3>2, <3>7, <3>8, <3>9, RisingJoined
    <3> QED BY <3>3, <3>5, <3>10
  <2> QED BY <2>3, <2>4, <2>5 DEF GInv
<1> QED BY <1>3, <1>4, <1>5

\* No step of the logger disturbs its invariant.
LEMMA LoggerStep == GInv /\ [G!Next]_varsG => GInv'
<1> SUFFICES ASSUME GInv, [G!Next]_varsG PROVE GInv'
  OBVIOUS
<1>1. CASE \E w \in Writers, l \in G!Levels : G!stream(w, l)
  BY <1>1, LoggerStream
<1>2. CASE \E f \in G!Flushers : G!Swap(f) \/ G!Roll(f) \/ G!RollThrows(f)
  BY <1>2, LoggerSwap, LoggerRoll, LoggerRollThrows
<1> QED
  BY <1>1, <1>2, LoggerWriteQueued, LoggerWriteAtOnce, LoggerWriteThrows, LoggerControl DEF G!Next

\* What the invariant of the logger promises.
LEMMA LoggerImplies == GInv => G!TypeOK /\ G!Once /\ G!InOrder
<1> SUFFICES ASSUME GInv PROVE G!TypeOK /\ G!Once /\ G!InOrder
  OBVIOUS
<1> DEFINE b == Flat(g_buffer)
           p == Flat(g_qt["group"])
           a == Flat(g_qt["admin"])
           n == g_next - 1
<1>1. /\ g_text \in Lines /\ g_file \in Lines /\ b \in Lines /\ p \in Lines /\ a \in Lines
      /\ GPath \in Lines
  BY LoggerLines DEF GInv
<1>2. n \in Nat /\ n <= MaxQueued /\ MaxQueued \in Nat
  BY LoggerAssumption DEF GInv, GType, G!BoundsAssumption
<1>3. G!Places = (((g_text \o b) \o p) \o a) \o g_file
  BY DEF G!Places, Flat
<1>4. /\ \A i : i \in 1 .. n <=> (i \in g_lost \/ i \in Elems(g_text) \cup Elems(b) \cup Elems(p)
                                                        \cup Elems(a) \cup Elems(g_file))
      /\ g_twice \subseteq 1 .. n
      /\ \A x \in {g_text, b, p, a, g_file} : /\ Simple(x, g_twice)
                                              /\ Elems(x) \cap g_lost \subseteq g_twice
      /\ Elems(g_text) \cap Elems(b) \subseteq g_twice /\ Elems(g_text) \cap Elems(p) \subseteq g_twice
      /\ Elems(g_text) \cap Elems(a) \subseteq g_twice
      /\ Elems(g_text) \cap Elems(g_file) \subseteq g_twice
      /\ Elems(b) \cap Elems(p) \subseteq g_twice /\ Elems(b) \cap Elems(a) \subseteq g_twice
      /\ Elems(b) \cap Elems(g_file) \subseteq g_twice /\ Elems(p) \cap Elems(a) \subseteq g_twice
      /\ Elems(p) \cap Elems(g_file) \subseteq g_twice /\ Elems(a) \cap Elems(g_file) \subseteq g_twice
  <2> DEFINE c == GContent
  <2>1. /\ c["text"] = g_text /\ c["buffer"] = b /\ c["file"] = g_file
        /\ c["group"] = p /\ c["admin"] = a
    BY LoggerLines DEF GInv
  <2>2. Held(c, g_lost, g_twice, n)
    BY DEF GInv, GHeld
  <2> HIDE DEF c, b, p, a, n
  <2>3. /\ "text" \in GPlaces /\ "buffer" \in GPlaces /\ "group" \in GPlaces /\ "admin" \in GPlaces
        /\ "file" \in GPlaces
        /\ \A q \in GPlaces : q \in {"text", "buffer", "group", "admin", "file"}
    BY DEF GPlaces
  <2>4. \A q, r \in GPlaces : q # r => Elems(c[q]) \cap Elems(c[r]) \subseteq g_twice
    BY <2>2 DEF Held
  <2>5. \A i : i \in 1 .. n <=> (i \in g_lost \/ i \in Elems(g_text) \cup Elems(b) \cup Elems(p)
                                                        \cup Elems(a) \cup Elems(g_file))
    BY <2>1, <2>2, <2>3 DEF Held
  <2>6. \A x \in {g_text, b, p, a, g_file} : /\ Simple(x, g_twice)
                                             /\ Elems(x) \cap g_lost \subseteq g_twice
    BY <2>1, <2>2, <2>3 DEF Held
  <2>7. g_twice \subseteq 1 .. n
    BY <2>2 DEF Held
  <2> QED BY <2>1, <2>3, <2>4, <2>5, <2>6, <2>7
<1> HIDE DEF b, p, a, n
<1>5. /\ G!Places \in Lines /\ Simple(G!Places, g_twice)
      /\ Elems(G!Places) = Elems(g_text) \cup Elems(b) \cup Elems(p) \cup Elems(a) \cup Elems(g_file)
  <2> DEFINE x == g_text \o b
             y == x \o p
             z == y \o a
  <2>1. x \in Lines /\ Elems(x) = Elems(g_text) \cup Elems(b) /\ Simple(x, g_twice)
    BY <1>1, <1>4, Joined, SimpleJoined
  <2> HIDE DEF x
  <2>2. y \in Lines /\ Elems(y) = Elems(x) \cup Elems(p) /\ Simple(y, g_twice)
    BY <1>1, <1>4, <2>1, Joined, SimpleJoined
  <2> HIDE DEF y
  <2>3. z \in Lines /\ Elems(z) = Elems(y) \cup Elems(a) /\ Simple(z, g_twice)
    BY <1>1, <1>4, <2>1, <2>2, Joined, SimpleJoined
  <2> HIDE DEF z
  <2>4. /\ z \o g_file \in Lines /\ Elems(z \o g_file) = Elems(z) \cup Elems(g_file)
        /\ Simple(z \o g_file, g_twice)
    BY <1>1, <1>4, <2>1, <2>2, <2>3, Joined, SimpleJoined
  <2>5. G!Places = z \o g_file
    BY <1>3 DEF x, y, z
  <2> QED BY <2>1, <2>2, <2>3, <2>4, <2>5, Zenon
<1>8. G!Once
  <2> DEFINE w == G!Places
  <2>1. G!ToSet(w) = Elems(w) /\ DOMAIN w = 1 .. Len(w) /\ Simple(w, g_twice)
    BY <1>5, Elements DEF Lines
  <2>2. Elems(w) = Elems(g_text) \cup Elems(b) \cup Elems(p) \cup Elems(a) \cup Elems(g_file)
    BY <1>5
  <2> HIDE DEF w
  <2>3. Elems(w) \cup g_lost = 1 .. n
    BY <1>4, <2>2
  <2>4. Elems(w) \cap g_lost \subseteq g_twice
    BY <1>4, <2>2
  <2>5. \A i, j \in DOMAIN w : i # j /\ w[i] = w[j] => w[i] \in g_twice
    BY <2>1 DEF Simple
  <2> QED BY <2>1, <2>3, <2>4, <2>5 DEF G!Once, w, n
<1>6. G!InOrder
  <2> SUFFICES ASSUME g_switches = 0, NEW i \in 1 .. Len(g_file) - 1
               PROVE  g_file[i] < g_file[i + 1]
    BY DEF G!InOrder
  <2> DEFINE y == p \o (b \o g_text)
  <2>1. y \in Lines /\ GPath = g_file \o y
    BY <1>1, Joined DEF GPath, p, b
  <2>2. Rising(GPath)
    BY DEF GInv, GOrder
  <2> HIDE DEF y
  <2>3. Rising(g_file)
    BY <1>1, <2>1, <2>2, RisingJoined
  <2>4. i \in 1 .. Len(g_file) /\ i + 1 \in 1 .. Len(g_file) /\ i < i + 1
    BY <1>1 DEF Lines
  <2> QED BY <2>3, <2>4 DEF Rising
<1>7. G!TypeOK
  <2>1. G!ToSet(g_text) = Elems(g_text) /\ G!ToSet(g_file) = Elems(g_file)
    BY <1>1, Elements
  <2>2. Elems(g_text) \cup Elems(g_file) \cup g_lost \cup g_twice \subseteq 1 .. n
    BY <1>4
  <2>3. 1 .. n \subseteq 1 .. MaxQueued
    BY <1>2
  <2>4. {g_way, g_group, g_member} \subseteq BOOLEAN
    BY DEF GInv, GType
  <2> QED BY <2>1, <2>2, <2>3, <2>4 DEF GInv, GType, G!TypeOK
<1> QED BY <1>6, <1>7, <1>8

------------------------------------------------------------------------------
(* INV_RollBySize and INV_RollByTime.                                      *)

Precedes(x, y) == \A a \in Elems(x), b \in Elems(y) : a < b

\* Sequences that are sorted and in order make one that is, with their elements.
LEMMA FlatRising ==
  ASSUME NEW s \in Seq(Lines), \A i \in 1 .. Len(s) : Rising(s[i]),
         \A i, j \in 1 .. Len(s) : i < j => Precedes(s[i], s[j])
  PROVE  Rising(Flat(s)) /\ Elems(Flat(s)) = {e \in Int : \E i \in 1 .. Len(s) : e \in Elems(s[i])}
<1> DEFINE Of(n) == {e \in Int : \E i \in 1 .. n : e \in Elems(s[i])}
<1>1. CASE s = <<>>
  <2>1. Flat(s) = <<>> /\ Elems(<<>>) = {} /\ Len(s) = 0
    BY <1>1, EmptyLines
  <2> QED BY <2>1 DEF Rising
<1>2. CASE s # <<>>
  <2>1. PICK f : Unfolds(f, s) /\ Flat(s) = f[Len(s)]
    BY <1>2, FlatUnfolds
  <2>2. \A i \in 1 .. Len(s) : f[i] \in Lines /\ s[i] \in Lines
    BY <2>1, UnfoldsLines
  <2>3. \A i \in 1 .. Len(s) : Elems(s[i]) \subseteq Int
    BY <2>2 DEF Elems, Lines
  <2> DEFINE I == {i \in 1 .. Len(s) : ~(Rising(f[i]) /\ Elems(f[i]) = Of(i))}
  <2>4. ASSUME I # {} PROVE FALSE
    <3>1. I \in SUBSET Nat
      OBVIOUS
    <3> HIDE DEF I
    <3>2. PICK i \in I : \A j \in I : i <= j
      BY <2>4, <3>1, Least
    <3>3. i \in 1 .. Len(s) /\ ~(Rising(f[i]) /\ Elems(f[i]) = Of(i))
      BY <3>2 DEF I
    <3>4. CASE i = 1
      <4>1. f[i] = s[i]
        BY <2>1, <3>3, <3>4 DEF Unfolds
      <4>2. Elems(s[i]) = Of(i)
        BY <2>3, <3>3, <3>4
      <4> QED BY <3>3, <4>1, <4>2
    <3>5. CASE i # 1
      <4> DEFINE h == i - 1
      <4>1. h \in 1 .. Len(s) /\ ~(i <= h) /\ h \in Nat /\ i = h + 1
        BY <3>3, <3>5
      <4>2. f[i] = f[h] \o s[i]
        BY <2>1, <3>3, <3>5 DEF Unfolds
      <4> HIDE DEF h
      <4>3. h \notin I
        BY <3>2, <4>1
      <4>4. Rising(f[h]) /\ Elems(f[h]) = Of(h)
        BY <4>1, <4>3 DEF I
      <4>5. f[h] \in Lines /\ s[i] \in Lines
        BY <2>2, <3>3, <4>1
      <4>6. Elems(f[i]) = Elems(f[h]) \cup Elems(s[i])
        BY <4>2, <4>5, Joined
      <4>7. Elems(f[i]) = Of(i)
        <5>1. Of(h) \cup Elems(s[i]) = Of(i)
          <6>1. 1 .. i = (1 .. h) \cup {i}
            BY <3>3, <4>1
          <6> QED BY <2>3, <3>3, <6>1
        <5> QED BY <4>4, <4>6, <5>1
      <4>8. \A a \in Of(h), b \in Elems(s[i]) : a < b
        <5> SUFFICES ASSUME NEW j \in 1 .. h, NEW a \in Elems(s[j]), NEW b \in Elems(s[i])
                     PROVE  a < b
          OBVIOUS
        <5>1. j \in 1 .. Len(s) /\ j < i
          BY <3>3, <4>1
        <5> QED BY <3>3, <5>1 DEF Precedes
      <4>9. Rising(f[i])
        <5>1. \A a \in Elems(f[h]), b \in Elems(s[i]) : a < b
          BY <4>4, <4>8
        <5> QED BY <3>3, <4>2, <4>4, <4>5, <5>1, RisingJoined
      <4> QED BY <3>3, <4>7, <4>9
    <3> QED BY <3>4, <3>5
  <2>5. Len(s) \in 1 .. Len(s)
    BY <1>2
  <2> HIDE DEF Of
  <2>6. Rising(f[Len(s)]) /\ Elems(f[Len(s)]) = Of(Len(s))
    BY <2>4, <2>5
  <2> QED BY <2>1, <2>6 DEF Of
<1> QED BY <1>1, <1>2

\* Integer division.
LEMMA Quotient ==
  ASSUME NEW a \in Int, NEW d \in Nat \ {0}
  PROVE  /\ a \div d \in Int
         /\ (a \div d) * d <= a /\ a < (a \div d) * d + d
  OBVIOUS

\* The quotient is the only one of its kind.
LEMMA QuotientIs ==
  ASSUME NEW a \in Int, NEW d \in Nat \ {0}, NEW q \in Int, q * d <= a, a < q * d + d
  PROVE  a \div d = q
<1> DEFINE p == a \div d
<1>1. p \in Int /\ p * d <= a /\ a < p * d + d
  BY Quotient
<1> HIDE DEF p
<1>2. ASSUME p < q PROVE FALSE
  <2>1. p + 1 <= q
    BY <1>1, <1>2
  <2>2. (p + 1) * d <= q * d
    BY <1>1, <2>1
  <2>3. (p + 1) * d = p * d + d
    BY <1>1
  <2> QED BY <1>1, <2>2, <2>3
<1>3. ASSUME q < p PROVE FALSE
  <2>1. q + 1 <= p
    BY <1>1, <1>3
  <2>2. (q + 1) * d <= p * d
    BY <1>1, <2>1
  <2>3. (q + 1) * d = q * d + d
    BY <1>1
  <2> QED BY <1>1, <2>2, <2>3
<1> QED BY <1>1, <1>2, <1>3 DEF p

\* A multiple leaves no remainder.
LEMMA Multiple ==
  ASSUME NEW q \in Int, NEW d \in Nat \ {0}
  PROVE  (q * d) % d = 0
  OBVIOUS

\* Division keeps the order, and two times less than a period apart are of the same
\* period or of neighbours.
LEMMA QuotientGrows ==
  ASSUME NEW a \in Int, NEW b \in Int, NEW d \in Nat \ {0}, a <= b
  PROVE  /\ a \div d <= b \div d
         /\ b < a + d => b \div d \in {a \div d, (a \div d) + 1}
<1> DEFINE p == a \div d
           q == b \div d
<1>1. /\ p \in Int /\ p * d <= a /\ a < p * d + d
      /\ q \in Int /\ q * d <= b /\ b < q * d + d
  BY Quotient
<1> HIDE DEF p, q
<1>2. ASSUME q < p PROVE FALSE
  <2>1. (q + 1) * d <= p * d
    BY <1>1, <1>2
  <2>2. (q + 1) * d = q * d + d
    BY <1>1
  <2> QED BY <1>1, <2>1, <2>2
<1>3. ASSUME b < a + d, p + 1 < q PROVE FALSE
  <2>1. (p + 2) * d <= q * d
    BY <1>1, <1>3
  <2>2. (p + 2) * d = p * d + d + d
    BY <1>1
  <2> QED BY <1>1, <1>3, <2>1, <2>2
<1> QED BY <1>1, <1>2, <1>3 DEF p, q

\* The place of a file: 0 is path.log.
FNums == 0 .. MaxNum - 1

FType ==
  /\ f_policy \in {"size", "date", "type"}
  /\ f_now \in 0 .. MaxTime /\ f_lt \in 0 .. f_now
  /\ f_of \in {"closed", "log", "gone"}
  /\ f_next \in 1 .. MaxLines + 1 /\ f_removed \in -1 .. f_now
  /\ f_files \in [FNums -> Lines] /\ f_swept \in Lines /\ f_gone \in SUBSET Int

\* Each file is sorted, what was swept comes first, and an older file before a newer one.
Ordered(sw, fs) ==
  /\ Rising(sw)
  /\ \A i \in FNums : Rising(fs[i]) /\ Precedes(sw, fs[i])
  /\ \A i, j \in FNums : j < i => Precedes(fs[i], fs[j])

Written(sw, fs) == Elems(sw) \cup {e \in Int : \E i \in FNums : e \in Elems(fs[i])}

FLog == Ordered(f_swept, f_files) /\ Written(f_swept, f_files) \cup f_gone = 1 .. f_next - 1

\* A file that was removed has not been open for longer than since then.
FReopened == f_late = {} /\ (f_of = "gone" => f_removed >= f_lt)

\* The period that ends at cut began before now, and the name is of its first day.
FDated ==
  /\ \E m \in Int : f_cut = m * Day
  /\ f_cut - Day <= f_now /\ f_current = F!tm2str(f_cut - Day)
  /\ F!OwnDay

FInv == FType /\ FLog /\ FReopened /\ FDated

\* The assumptions on the constants of the files.
LEMMA FilesBounds ==
  /\ Day \in Nat \ {0} /\ Zone \in Int /\ MaxNum \in Nat \ {0, 1} /\ MaxLength \in Nat
  /\ Reopen \in Nat /\ MaxLines \in Nat /\ MaxTime \in Nat /\ Day <= MaxTime + 1
  BY FilesAssumption DEF F!PeriodAssumption, F!FilesAssumption, F!BoundsAssumption

\* At the start there is no file.
LEMMA FilesInit == F!Init => FInv
<1> SUFFICES ASSUME F!Init PROVE FInv
  OBVIOUS
<1>1. /\ f_now \in 0 .. Day - 1 /\ f_lt = f_now /\ f_of = "closed" /\ f_swept = <<>> /\ f_gone = {}
      /\ f_files = [i \in FNums |-> <<>>] /\ f_next = 1 /\ f_removed = -1 /\ f_late = {}
  BY DEF F!Init, FNums
<1>2. <<>> \in Lines /\ Len(<<>>) = 0 /\ Elems(<<>>) = {}
  BY EmptyLines
<1>3. FType
  BY <1>1, <1>2, FilesBounds DEF F!Init, FType
<1>4. FLog
  <2>1. Ordered(f_swept, f_files)
    BY <1>1, <1>2 DEF Ordered, Rising, Precedes
  <2>2. Written(f_swept, f_files) = {} /\ 1 .. f_next - 1 = {}
    BY <1>1, <1>2 DEF Written
  <2> QED BY <1>1, <2>1, <2>2 DEF FLog
<1>5. FReopened
  BY <1>1 DEF FReopened
<1>6. FDated
  <2>1. f_now \div Day = 0
    BY <1>1, FilesBounds, QuotientIs
  <2>2. f_cut = 1 * Day /\ f_cut = Day
    BY <2>1, FilesBounds DEF F!Init
  <2>3. f_cut - Day <= f_now
    BY <1>1, <2>2, FilesBounds
  <2>4. \E m \in Int : f_cut = m * Day
    BY <2>2
  <2>5. f_current = F!tm2str(f_cut - Day) /\ f_dated = {}
    BY DEF F!Init
  <2>6. F!OwnDay
    BY <2>5 DEF F!OwnDay
  <2> QED BY <2>3, <2>4, <2>5, <2>6 DEF FDated
<1> QED BY <1>3, <1>4, <1>5, <1>6 DEF FInv

\* Time passes.
LEMMA FilesTick ==
  ASSUME FInv, F!Tick
  PROVE  FInv'
<1> USE DEF FInv, F!Tick, F!bysize, F!bytime
<1>1. FType'
  BY FilesBounds DEF FType
<1>2. FLog'
  BY DEF FLog
<1>3. FReopened'
  BY DEF FReopened
<1>4. FDated'
  <2>1. f_cut' - Day <= f_now'
    BY FilesBounds DEF FDated, FType
  <2> QED BY <2>1 DEF FDated, F!OwnDay, F!tm2str
<1> QED BY <1>1, <1>2, <1>3, <1>4

\* A line for the file of its date.
LEMMA FilesByDate ==
  ASSUME FInv, F!rollByDate
  PROVE  FInv'
<1> USE DEF FInv, F!rollByDate, F!bysize, F!bytime
<1>1. FType'
  BY DEF FType
<1>2. FLog' /\ FReopened'
  BY DEF FLog, FReopened
<1>3. F!OwnDay'
  BY DEF FDated, F!OwnDay
<1>4. FDated'
  BY <1>3 DEF FDated, F!tm2str
<1> QED BY <1>1, <1>2, <1>4

\* A line for the file of an InvLogType: the period that is open now has begun at most
\* a period ago, however long nothing was logged.
LEMMA FilesByType ==
  ASSUME FInv, F!rollByType
  PROVE  FInv'
<1> USE DEF FInv
<1>1. UNCHANGED <<f_policy, f_now, F!bysize>>
  BY DEF F!rollByType
<1>2. FType'
  BY <1>1 DEF FType, F!bysize
<1>3. FLog' /\ FReopened'
  BY <1>1 DEF FLog, FReopened, F!bysize
<1>4. PICK m \in Int : f_cut = m * Day
  BY DEF FDated
<1>5. f_cut \in Int /\ f_now \in Int
  BY <1>4, FilesBounds DEF FType
\* The period of the line: it begins at c, and the file has the date of c.
<1>6. \E c \in Int : /\ \E k \in Int : c = k * Day
                     /\ f_cut' = c + Day /\ f_current' = F!tm2str(c)
                     /\ c <= f_now /\ f_now < c + Day
  <2>1. CASE F!IsCut
    <3> DEFINE k == (f_now - f_cut) \div Day
               c == F!CutAt(f_now)
    <3>1. k \in Int /\ k * Day <= f_now - f_cut /\ f_now - f_cut < k * Day + Day
      BY <1>5, FilesBounds, Quotient
    <3>2. c = f_cut + k * Day
      BY DEF F!CutAt
    <3>3. f_cut' = c + Day /\ f_current' = F!tm2str(c)
      BY <2>1 DEF F!rollByType
    <3> HIDE DEF k, c
    <3>4. k * Day \in Int /\ c \in Int
      BY <1>5, <3>1, <3>2, FilesBounds
    <3>5. c = (m + k) * Day
      BY <1>4, <3>1, <3>2, FilesBounds
    <3>6. c <= f_now /\ f_now < c + Day
      BY <1>5, <3>1, <3>2, <3>4, FilesBounds
    <3> QED BY <3>1, <3>3, <3>4, <3>5, <3>6
  <2>2. CASE ~F!IsCut
    <3>1. f_cut' = f_cut /\ f_current' = F!tm2str(f_cut - Day)
      BY <2>2 DEF F!rollByType, FDated
    <3>2. f_now < f_cut
      <4> SUFFICES ASSUME f_cut <= f_now PROVE FALSE
        BY <1>5
      <4>1. f_cut + Zone \in Int /\ f_now + Zone \in Int /\ f_cut + Zone <= f_now + Zone
        BY <1>5, FilesBounds
      <4>2. (f_cut + Zone) \div Day <= (f_now + Zone) \div Day
        BY <4>1, FilesBounds, QuotientGrows
      <4>3. (f_cut + Zone) \div Day \in Int /\ (f_now + Zone) \div Day \in Int
        BY <4>1, FilesBounds, Quotient
      <4> QED BY <1>5, <2>2, <4>2, <4>3 DEF F!IsCut, F!tm2str
    <3> DEFINE c == f_cut - Day
    <3>3. c \in Int /\ c <= f_now /\ f_now < c + Day /\ f_cut' = c + Day
      BY <1>5, <3>1, <3>2, FilesBounds DEF FDated
    <3>4. c = (m - 1) * Day
      BY <1>4, FilesBounds
    <3> QED BY <3>1, <3>3, <3>4
  <2> QED BY <2>1, <2>2
<1>7. PICK c \in Int : /\ \E k \in Int : c = k * Day
                       /\ f_cut' = c + Day /\ f_current' = F!tm2str(c)
                       /\ c <= f_now /\ f_now < c + Day
  BY <1>6
<1>8. F!tm2str(f_now) \in {f_current', f_current' + 1} /\ f_current' \in Int
  <2>1. c + Zone \in Int /\ f_now + Zone \in Int /\ c + Zone <= f_now + Zone /\ f_now + Zone < c + Zone + Day
    BY <1>5, <1>7, FilesBounds
  <2>2. (f_now + Zone) \div Day \in {(c + Zone) \div Day, ((c + Zone) \div Day) + 1}
    BY <2>1, FilesBounds, QuotientGrows
  <2>3. (c + Zone) \div Day \in Int
    BY <2>1, FilesBounds, Quotient
  <2> QED BY <1>7, <2>2, <2>3 DEF F!tm2str
<1>9. F!OwnDay'
  <2> SUFFICES ASSUME NEW d \in f_dated'
               PROVE  d[2] \in {d[1] - 1, d[1]} /\ (f_policy' = "date" => d[2] = d[1])
    BY DEF F!OwnDay
  <2>1. f_policy' = f_policy /\ f_policy = "type"
        /\ f_dated' = f_dated \cup {<<F!tm2str(f_now), f_current'>>}
    BY DEF F!rollByType
  <2>2. CASE d \in f_dated
    BY <2>1, <2>2 DEF FDated, F!OwnDay
  <2>3. CASE d = <<F!tm2str(f_now), f_current'>>
    <3>1. d[1] = F!tm2str(f_now) /\ d[2] = f_current'
      BY <2>3
    <3> QED BY <1>8, <2>1, <3>1
  <2> QED BY <2>1, <2>2, <2>3
<1>10. FDated'
  <2>1. PICK k \in Int : c = k * Day
    BY <1>7
  <2>2. f_cut' = (k + 1) * Day
    BY <1>7, <2>1, FilesBounds
  <2>3. f_cut' - Day = c /\ f_cut' - Day <= f_now'
    BY <1>1, <1>5, <1>7, FilesBounds
  <2>4. f_current' = F!tm2str(f_cut' - Day)
    BY <1>7, <2>3
  <2>5. F!tm2str(f_cut - Day)' = F!tm2str(f_cut' - Day)
    BY DEF F!tm2str
  <2> QED BY <1>9, <2>2, <2>3, <2>4, <2>5 DEF FDated
<1> QED BY <1>2, <1>3, <1>10

\* The next line is behind all that were written.
LEMMA FilesNext ==
  ASSUME FInv, f_next <= MaxLines
  PROVE  /\ f_next \in Int /\ f_next >= 1 /\ f_next + 1 \in 1 .. MaxLines + 1
         /\ \A e \in Written(f_swept, f_files) \cup f_gone : e \in Int /\ e < f_next
         /\ 1 .. f_next = (1 .. f_next - 1) \cup {f_next}
<1>1. f_next \in Int /\ f_next >= 1 /\ f_next + 1 \in 1 .. MaxLines + 1
  BY FilesBounds DEF FInv, FType
<1>2. \A e \in 1 .. f_next - 1 : e \in Int /\ e < f_next
  BY <1>1
<1>3. 1 .. f_next = (1 .. f_next - 1) \cup {f_next}
  BY <1>1
<1> QED BY <1>1, <1>2, <1>3, Zenon DEF FInv, FLog

\* A line at the end of path.log.
LEMMA FilesAppend ==
  ASSUME FInv, f_next <= MaxLines, NEW fs, fs = [f_files EXCEPT ![0] = Append(@, f_next)]
  PROVE  /\ fs \in [FNums -> Lines] /\ Ordered(f_swept, fs)
         /\ Written(f_swept, fs) = Written(f_swept, f_files) \cup {f_next}
<1>1. 0 \in FNums /\ \A i \in FNums : i \in Int /\ (i # 0 => 0 < i) /\ ~(i < 0)
  BY FilesBounds DEF FNums
<1>2. f_next \in Int /\ \A e \in Written(f_swept, f_files) : e < f_next
  BY FilesNext
<1>3. f_swept \in Lines /\ f_files \in [FNums -> Lines]
  BY DEF FInv, FType
<1>4. /\ Append(f_files[0], f_next) = f_files[0] \o <<f_next>> /\ <<f_next>> \in Lines
      /\ Append(f_files[0], f_next) \in Lines
      /\ Elems(Append(f_files[0], f_next)) = Elems(f_files[0]) \cup {f_next}
  BY <1>1, <1>2, <1>3, Appended
<1>5. /\ fs \in [FNums -> Lines] /\ fs[0] = f_files[0] \o <<f_next>>
      /\ Elems(fs[0]) = Elems(f_files[0]) \cup {f_next}
      /\ \A i \in FNums : i # 0 => fs[i] = f_files[i]
  BY <1>1, <1>3, <1>4
<1>6. \A i \in FNums : Elems(f_files[i]) \subseteq Written(f_swept, f_files)
  BY <1>3 DEF Written, Elems, Lines
<1>7. \A i \in FNums : \A e \in Elems(f_files[i]) : e < f_next
  BY <1>2, <1>6
<1>8. \A e \in Elems(f_swept) : e < f_next
  BY <1>2 DEF Written
<1>9. Rising(fs[0])
  <2>1. Rising(<<f_next>>) /\ Elems(<<f_next>>) = {f_next}
    BY DEF Rising, Elems
  <2>2. Rising(f_files[0]) /\ f_files[0] \in Lines
    BY <1>1, <1>3 DEF FInv, FLog, Ordered
  <2>3. \A a \in Elems(f_files[0]), b \in Elems(<<f_next>>) : a < b
    BY <1>1, <1>7, <2>1
  <2> QED BY <1>4, <1>5, <2>1, <2>2, <2>3, RisingJoined
<1>10. Ordered(f_swept, fs)
  <2>1. \A i \in FNums : Rising(fs[i]) /\ Precedes(f_swept, fs[i])
    BY <1>1, <1>5, <1>8, <1>9 DEF FInv, FLog, Ordered, Precedes
  <2>2. \A i, j \in FNums : j < i => Precedes(fs[i], fs[j])
    BY <1>1, <1>5, <1>7 DEF FInv, FLog, Ordered, Precedes
  <2> QED BY <2>1, <2>2 DEF FInv, FLog, Ordered
<1>11. Written(f_swept, fs) = Written(f_swept, f_files) \cup {f_next}
  BY <1>1, <1>2, <1>5 DEF Written
<1> QED BY <1>5, <1>10, <1>11

\* The files are moved on, and the last one is swept away.
LEMMA FilesShift ==
  ASSUME NEW sw \in Lines, NEW fs \in [FNums -> Lines], Ordered(sw, fs)
  PROVE  LET last == fs[MaxNum - 1]
         IN  /\ F!ShiftedFrom(fs) \in [FNums -> Lines] /\ sw \o last \in Lines
             /\ Ordered(sw \o last, F!ShiftedFrom(fs))
             /\ Written(sw \o last, F!ShiftedFrom(fs)) = Written(sw, fs)
<1> DEFINE last == fs[MaxNum - 1]
           gs == F!ShiftedFrom(fs)
           tw == sw \o last
<1>1. /\ MaxNum - 1 \in FNums /\ \A i \in FNums : i \in Int /\ (i # 0 => i - 1 \in FNums)
      /\ \A i \in FNums : i # MaxNum - 1 => i + 1 \in FNums /\ i + 1 # 0 /\ (i + 1) - 1 = i
  BY FilesBounds DEF FNums
<1>2. <<>> \in Lines /\ Elems(<<>>) = {} /\ Rising(<<>>)
  BY EmptyLines DEF Rising
<1>3. /\ gs \in [FNums -> Lines] /\ gs[0] = <<>>
      /\ \A i \in FNums : i # 0 => gs[i] = fs[i - 1]
  <2>1. DOMAIN fs = FNums /\ 0 \in FNums
    BY FilesBounds DEF FNums
  <2>2. gs = [i \in FNums |-> IF i = 0 THEN <<>> ELSE fs[i - 1]]
    BY <2>1 DEF F!ShiftedFrom
  <2> QED BY <1>1, <1>2, <2>1, <2>2
<1>4. last \in Lines
  BY <1>1
<1> HIDE DEF gs, last
<1>5. tw \in Lines /\ Elems(tw) = Elems(sw) \cup Elems(last)
  BY <1>4, Joined
<1>6. Rising(tw)
  <2>1. Rising(sw) /\ Rising(last) /\ Precedes(sw, last)
    BY <1>1 DEF Ordered, last
  <2> QED BY <1>4, <2>1, RisingJoined DEF Precedes
<1> HIDE DEF tw
<1>7. \A i \in FNums : Rising(gs[i]) /\ Precedes(tw, gs[i])
  <2> SUFFICES ASSUME NEW i \in FNums PROVE Rising(gs[i]) /\ Precedes(tw, gs[i])
    OBVIOUS
  <2>1. CASE i = 0
    BY <1>2, <1>3, <2>1 DEF Precedes
  <2>2. CASE i # 0
    <3>1. i - 1 \in FNums /\ gs[i] = fs[i - 1] /\ i - 1 < MaxNum - 1
      BY <1>1, <1>3, <2>2, FilesBounds DEF FNums
    <3>2. Rising(fs[i - 1]) /\ Precedes(sw, fs[i - 1]) /\ Precedes(last, fs[i - 1])
      BY <1>1, <3>1 DEF Ordered, last
    <3> QED BY <1>5, <3>1, <3>2 DEF Precedes
  <2> QED BY <2>1, <2>2
<1>8. \A i, j \in FNums : j < i => Precedes(gs[i], gs[j])
  <2> SUFFICES ASSUME NEW i \in FNums, NEW j \in FNums, j < i PROVE Precedes(gs[i], gs[j])
    OBVIOUS
  <2>1. CASE j = 0
    BY <1>2, <1>3, <2>1 DEF Precedes
  <2>2. CASE j # 0
    <3>1. i # 0
      BY <2>2 DEF FNums
    <3>2. i - 1 \in FNums /\ j - 1 \in FNums /\ j - 1 < i - 1 /\ gs[i] = fs[i - 1] /\ gs[j] = fs[j - 1]
      BY <1>1, <1>3, <2>2, <3>1
    <3> QED BY <3>2 DEF Ordered
  <2> QED BY <2>1, <2>2
<1>9. Written(tw, gs) = Written(sw, fs)
  <2>1. \A i \in FNums : Elems(fs[i]) \subseteq Int
    BY DEF Elems, Lines
  <2>2. Written(tw, gs) \subseteq Written(sw, fs)
    <3>1. Elems(last) \subseteq Written(sw, fs)
      BY <1>1, <2>1 DEF Written, last
    <3>2. \A i \in FNums : Elems(gs[i]) \subseteq Written(sw, fs)
      BY <1>1, <1>2, <1>3, <2>1 DEF Written
    <3>3. Elems(sw) \subseteq Written(sw, fs)
      BY DEF Written
    <3> QED BY <1>5, <3>1, <3>2, <3>3 DEF Written
  <2>3. Written(sw, fs) \subseteq Written(tw, gs)
    <3> SUFFICES ASSUME NEW i \in FNums PROVE Elems(fs[i]) \subseteq Written(tw, gs)
      BY <1>5 DEF Written
    <3>1. CASE i = MaxNum - 1
      BY <1>5, <3>1 DEF Written, last
    <3>2. CASE i # MaxNum - 1
      <4>1. i + 1 \in FNums /\ gs[i + 1] = fs[i]
        BY <1>1, <1>3, <3>2
      <4> QED BY <2>1, <4>1 DEF Written
    <3> QED BY <3>1, <3>2
  <2> QED BY <2>2, <2>3
<1> QED BY <1>3, <1>5, <1>6, <1>7, <1>8, <1>9 DEF Ordered, gs, tw, last

\* A line for path.log, which may be shifted.
LEMMA FilesRoll ==
  ASSUME FInv, F!roll
  PROVE  FInv'
<1>1. /\ f_next <= MaxLines /\ f_next' = f_next + 1
      /\ f_lt' = (IF F!Aged THEN f_now ELSE f_lt) /\ f_of' = F!Opened
      /\ UNCHANGED <<f_policy, f_now, f_removed, f_cut, f_current, f_dated>>
  BY DEF F!roll, F!bytime
<1>2. /\ f_next \in Int /\ f_next >= 1 /\ f_next + 1 \in 1 .. MaxLines + 1
      /\ 1 .. f_next = (1 .. f_next - 1) \cup {f_next} /\ f_next' - 1 = f_next
  BY <1>1, FilesNext
<1>3. /\ f_now \in Int /\ f_lt \in Int /\ f_removed \in Int /\ f_lt <= f_now /\ 0 <= f_lt
      /\ f_lt' \in 0 .. f_now /\ Reopen \in Nat
  BY <1>1, FilesBounds DEF FInv, FType
<1>4. f_of' \in {"closed", "log", "gone"} /\ (F!Opened = "gone" => ~F!Aged /\ f_of = "gone")
  BY <1>1 DEF F!Opened, FInv, FType
<1>5. FDated'
  BY <1>1 DEF FInv, FDated, F!OwnDay, F!tm2str
<1>6. f_late' = {} /\ (f_of' = "gone" => f_removed' >= f_lt')
  <2>1. CASE F!Opened = "gone"
    <3>1. f_removed >= f_lt /\ f_now - f_lt <= Reopen
      BY <1>3, <1>4, <2>1 DEF FInv, FReopened, F!Aged
    <3>2. ~(f_now - f_removed > Reopen)
      BY <1>3, <3>1
    <3>3. f_late' = f_late /\ f_lt' = f_lt
      BY <1>1, <1>4, <2>1, <3>2 DEF F!roll
    <3> QED BY <1>1, <3>1, <3>3 DEF FInv, FReopened
  <2>2. CASE F!Opened # "gone"
    <3>1. f_late' = f_late
      BY <2>2 DEF F!roll
    <3> QED BY <1>1, <2>2, <3>1 DEF FInv, FReopened
  <2> QED BY <2>1, <2>2
<1>7. FReopened'
  BY <1>6 DEF FReopened
<1>8. CASE F!Opened = "gone"
  <2>1. f_gone' = f_gone \cup {f_next} /\ f_files' = f_files /\ f_swept' = f_swept
    BY <1>8 DEF F!roll
  <2>2. FLog'
    <3>1. Written(f_swept, f_files) \cup f_gone' = 1 .. f_next' - 1
      BY <1>2, <2>1, Zenon DEF FInv, FLog
    <3> QED BY <2>1, <3>1 DEF FInv, FLog
  <2>3. FType'
    BY <1>1, <1>2, <1>3, <1>4, <2>1 DEF FInv, FType
  <2> QED BY <1>5, <1>7, <2>2, <2>3 DEF FInv
<1>9. CASE F!Opened # "gone"
  <2> DEFINE fs == [f_files EXCEPT ![0] = Append(@, f_next)]
  <2>1. /\ f_files' = (IF F!TooLong(fs) THEN F!ShiftedFrom(fs) ELSE fs)
        /\ f_swept' = (IF F!TooLong(fs) THEN f_swept \o fs[MaxNum - 1] ELSE f_swept)
        /\ f_gone' = f_gone
    BY <1>9 DEF F!roll
  <2>2. /\ fs \in [FNums -> Lines] /\ Ordered(f_swept, fs)
        /\ Written(f_swept, fs) = Written(f_swept, f_files) \cup {f_next}
    BY <1>1, FilesAppend
  <2> HIDE DEF fs
  <2>3. f_swept \in Lines
    BY DEF FInv, FType
  <2>4. /\ f_files' \in [FNums -> Lines] /\ f_swept' \in Lines /\ Ordered(f_swept', f_files')
        /\ Written(f_swept', f_files') = Written(f_swept, fs)
    <3>1. CASE F!TooLong(fs)
      <4>1. f_files' = F!ShiftedFrom(fs) /\ f_swept' = f_swept \o fs[MaxNum - 1]
        BY <2>1, <3>1
      <4> QED BY <2>2, <2>3, <4>1, FilesShift
    <3>2. CASE ~F!TooLong(fs)
      BY <2>1, <2>2, <2>3, <3>2
    <3> QED BY <3>1, <3>2
  <2>5. FLog'
    <3>1. Written(f_swept', f_files') \cup f_gone' = 1 .. f_next' - 1
      BY <1>2, <2>1, <2>2, <2>4, Zenon DEF FInv, FLog
    <3> QED BY <2>4, <3>1 DEF FLog
  <2>6. FType'
    BY <1>1, <1>2, <1>3, <1>4, <2>1, <2>4 DEF FInv, FType
  <2> QED BY <1>5, <1>7, <2>5, <2>6 DEF FInv
<1> QED BY <1>8, <1>9

\* A line that is in the files, moved on or not, with path.log just opened or closed.
LEMMA FilesKept ==
  ASSUME FInv, NEW fs, fs = [f_files EXCEPT ![0] = Append(@, f_next)],
         f_next <= MaxLines, f_next' = f_next + 1, f_lt' = f_now, f_of' \in {"closed", "log"},
         UNCHANGED <<f_policy, f_now, f_gone, f_removed, f_late, F!bytime>>,
         \/ f_files' = F!ShiftedFrom(fs) /\ f_swept' = f_swept \o fs[MaxNum - 1]
         \/ f_files' = fs /\ f_swept' = f_swept
  PROVE  FInv'
<1>1. /\ f_next \in Int /\ f_next >= 1 /\ f_next + 1 \in 1 .. MaxLines + 1
      /\ 1 .. f_next = (1 .. f_next - 1) \cup {f_next} /\ f_next' - 1 = f_next
  BY FilesNext
<1>2. /\ fs \in [FNums -> Lines] /\ Ordered(f_swept, fs) /\ f_swept \in Lines
      /\ Written(f_swept, fs) = Written(f_swept, f_files) \cup {f_next}
  BY FilesAppend DEF FInv, FType
<1>3. f_lt' \in 0 .. f_now'
  BY FilesBounds DEF FInv, FType
<1>4. /\ f_files' \in [FNums -> Lines] /\ f_swept' \in Lines /\ Ordered(f_swept', f_files')
      /\ Written(f_swept', f_files') = Written(f_swept, fs)
  <2>1. CASE f_files' = F!ShiftedFrom(fs) /\ f_swept' = f_swept \o fs[MaxNum - 1]
    BY <1>2, <2>1, FilesShift
  <2>2. CASE f_files' = fs /\ f_swept' = f_swept
    BY <1>2, <2>2
  <2> QED BY <2>1, <2>2
<1>5. FLog'
  <2>1. Written(f_swept', f_files') \cup f_gone' = 1 .. f_next' - 1
    BY <1>1, <1>2, <1>4, Zenon DEF FInv, FLog
  <2> QED BY <1>4, <2>1 DEF FLog
<1>6. FType'
  BY <1>1, <1>3, <1>4 DEF FInv, FType
<1>7. FReopened' /\ FDated'
  BY DEF FInv, FReopened, FDated, F!OwnDay, F!tm2str, F!bytime
<1> QED BY <1>5, <1>6, <1>7 DEF FInv

\* roll() throws behind the move of the files.
LEMMA FilesThrowMoved ==
  ASSUME FInv, F!rollThrowsMoved
  PROVE  FInv'
<1> DEFINE fs == [f_files EXCEPT ![0] = Append(@, f_next)]
<1>1. /\ f_next <= MaxLines /\ f_next' = f_next + 1 /\ f_lt' = f_now /\ f_of' = "closed"
      /\ UNCHANGED <<f_policy, f_now, f_gone, f_removed, f_late, F!bytime>>
      /\ f_files' = F!ShiftedFrom(fs) /\ f_swept' = f_swept \o fs[MaxNum - 1]
  BY DEF F!rollThrowsMoved
<1> QED BY <1>1, FilesKept

\* The oldest file cannot be removed.
LEMMA FilesKeep ==
  ASSUME FInv, F!rollKeeps
  PROVE  FInv'
<1> DEFINE fs == [f_files EXCEPT ![0] = Append(@, f_next)]
<1>1. /\ f_next <= MaxLines /\ f_next' = f_next + 1 /\ f_lt' = f_now /\ f_of' = "log"
      /\ UNCHANGED <<f_policy, f_now, f_gone, f_removed, f_late, F!bytime>>
      /\ f_files' = fs /\ f_swept' = f_swept
  BY DEF F!rollKeeps
<1> QED BY <1>1, FilesKept

\* A line that path.log could not be opened for.
LEMMA FilesThrow ==
  ASSUME FInv, F!rollThrows
  PROVE  FInv'
<1>1. /\ f_next <= MaxLines /\ f_next' = f_next + 1
      /\ f_lt' = (IF F!Aged THEN f_now ELSE f_lt) /\ f_of' = "closed"
      /\ f_gone' = f_gone \cup {f_next}
      /\ UNCHANGED <<f_policy, f_now, f_removed, f_cut, f_current, f_dated>>
      /\ UNCHANGED <<f_files, f_swept, f_late>>
  BY DEF F!rollThrows, F!bytime
<1>2. /\ f_next \in Int /\ f_next >= 1 /\ f_next + 1 \in 1 .. MaxLines + 1
      /\ 1 .. f_next = (1 .. f_next - 1) \cup {f_next} /\ f_next' - 1 = f_next
  BY <1>1, FilesNext
<1>3. f_lt' \in 0 .. f_now
  BY <1>1, FilesBounds DEF FInv, FType
<1>4. FLog'
  <2>1. Written(f_swept, f_files) \cup f_gone' = 1 .. f_next' - 1
    BY <1>1, <1>2, Zenon DEF FInv, FLog
  <2> QED BY <1>1, <2>1 DEF FInv, FLog
<1>5. FType'
  BY <1>1, <1>2, <1>3 DEF FInv, FType
<1>6. FReopened' /\ FDated'
  BY <1>1 DEF FInv, FReopened, FDated, F!OwnDay, F!tm2str
<1> QED BY <1>4, <1>5, <1>6 DEF FInv

\* Someone removes path.log.
LEMMA FilesUnlink ==
  ASSUME FInv, F!Unlink
  PROVE  FInv'
<1>1. /\ f_gone' = f_gone \cup Elems(f_files[0]) /\ f_files' = [f_files EXCEPT ![0] = <<>>]
      /\ f_of' = (IF f_of = "log" THEN "gone" ELSE f_of) /\ f_removed' = f_now
      /\ UNCHANGED <<f_policy, f_now, f_lt, f_next, f_swept, f_late, f_cut, f_current, f_dated>>
  <2>1. f_files[0] \in Lines
    BY FilesBounds DEF FInv, FType, FNums
  <2> QED BY <2>1, Elements DEF F!Unlink, F!bytime
<1>2. /\ 0 \in FNums /\ f_files \in [FNums -> Lines]
      /\ \A i \in FNums : Elems(f_files[i]) \subseteq Int
  <2>1. 0 \in FNums /\ f_files \in [FNums -> Lines]
    BY FilesBounds DEF FInv, FType, FNums
  <2>2. \A i \in FNums : Elems(f_files[i]) \subseteq Int
    BY <2>1 DEF Elems, Lines
  <2> QED BY <2>1, <2>2
<1>3. <<>> \in Lines /\ Elems(<<>>) = {} /\ Rising(<<>>)
  BY EmptyLines DEF Rising
<1>4. /\ f_files' \in [FNums -> Lines] /\ f_files'[0] = <<>>
      /\ \A i \in FNums : i # 0 => f_files'[i] = f_files[i]
  BY <1>1, <1>2, <1>3
<1>5. FLog'
  <2>1. Ordered(f_swept', f_files')
    <3>1. \A i \in FNums : Rising(f_files'[i]) /\ Precedes(f_swept, f_files'[i])
      BY <1>3, <1>4 DEF FInv, FLog, Ordered, Precedes
    <3>2. \A i, j \in FNums : j < i => Precedes(f_files'[i], f_files'[j])
      <4> SUFFICES ASSUME NEW i \in FNums, NEW j \in FNums, j < i
                   PROVE  Precedes(f_files'[i], f_files'[j])
        OBVIOUS
      <4>1. CASE i = 0 \/ j = 0
        BY <1>3, <1>4, <4>1 DEF Precedes
      <4>2. CASE i # 0 /\ j # 0
        BY <1>4, <4>2 DEF FInv, FLog, Ordered
      <4> QED BY <4>1, <4>2
    <3> QED BY <1>1, <3>1, <3>2 DEF FInv, FLog, Ordered
  <2>2. Written(f_swept', f_files') \cup f_gone' = Written(f_swept, f_files) \cup f_gone
    BY <1>1, <1>2, <1>3, <1>4 DEF Written
  <2> QED BY <1>1, <2>1, <2>2 DEF FInv, FLog
<1>6. FReopened'
  BY <1>1 DEF FInv, FReopened, FType
<1>7. FType'
  <2>1. f_removed' \in -1 .. f_now
    BY <1>1, FilesBounds DEF FInv, FType
  <2>2. f_of' \in {"closed", "log", "gone"}
    BY <1>1 DEF FInv, FType
  <2>3. f_gone' \in SUBSET Int
    BY <1>1, <1>2 DEF FInv, FType
  <2> QED BY <1>1, <1>4, <2>1, <2>2, <2>3 DEF FInv, FType
<1>8. FDated'
  BY <1>1 DEF FInv, FDated, F!OwnDay, F!tm2str
<1> QED BY <1>5, <1>6, <1>7, <1>8 DEF FInv

\* No step of the files disturbs their invariant.
LEMMA FilesStep == FInv /\ [F!Next]_varsF => FInv'
<1> SUFFICES ASSUME FInv, [F!Next]_varsF PROVE FInv'
  OBVIOUS
<1>1. CASE UNCHANGED varsF
  BY <1>1 DEF varsF, FInv, FType, FLog, FReopened, FDated, F!OwnDay, F!tm2str
<1> QED
  BY <1>1, FilesTick, FilesRoll, FilesThrow, FilesThrowMoved, FilesKeep, FilesUnlink, FilesByDate,
     FilesByType
  DEF F!Next

\* What the invariant of the files promises.
LEMMA FilesImplies == FInv => F!TypeOK /\ F!OneLog /\ F!NoneLate /\ F!OwnDay
<1> SUFFICES ASSUME FInv PROVE F!TypeOK /\ F!OneLog /\ F!NoneLate /\ F!OwnDay
  OBVIOUS
<1>1. F!TypeOK
  <2>1. PICK m \in Int : f_cut = m * Day
    BY DEF FInv, FDated
  <2>2. f_cut % Day = 0
    BY <2>1, FilesBounds, Multiple
  <2> QED BY <2>2 DEF FInv, FType, F!TypeOK
<1> DEFINE s == [i \in 1 .. MaxNum |-> f_files[MaxNum - i]]
<1>2. /\ f_files \in [FNums -> Lines] /\ f_swept \in Lines
      /\ \A i \in FNums : Elems(f_files[i]) \subseteq Int
  BY DEF FInv, FType, Elems, Lines
<1>3. \A i \in 1 .. MaxNum : MaxNum - i \in FNums /\ i \in Int
  BY FilesBounds DEF FNums
<1>4. /\ s \in Seq(Lines) /\ Len(s) = MaxNum /\ MaxNum \in Nat
      /\ \A i \in 1 .. MaxNum : s[i] = f_files[MaxNum - i]
  <2>1. \A i \in 1 .. MaxNum : f_files[MaxNum - i] \in Lines
    BY <1>2, <1>3
  <2> QED BY <2>1, FilesBounds
<1> HIDE DEF s
<1>5. \A i \in 1 .. Len(s) : Rising(s[i]) /\ Precedes(f_swept, s[i])
  BY <1>3, <1>4 DEF FInv, FLog, Ordered
<1>6. \A i, j \in 1 .. Len(s) : i < j => Precedes(s[i], s[j])
  <2> SUFFICES ASSUME NEW i \in 1 .. Len(s), NEW j \in 1 .. Len(s), i < j PROVE Precedes(s[i], s[j])
    OBVIOUS
  <2>1. MaxNum - i \in FNums /\ MaxNum - j \in FNums /\ MaxNum - j < MaxNum - i
    BY <1>3, <1>4
  <2> QED BY <1>4, <2>1 DEF FInv, FLog, Ordered
<1> DEFINE z == Flat(s)
<1>7. Rising(z) /\ Elems(z) = {e \in Int : \E i \in 1 .. Len(s) : e \in Elems(s[i])} /\ z \in Lines
  BY <1>4, <1>5, <1>6, FlatRising, FlatLines
<1> HIDE DEF z
<1>8. f_swept \o z = F!AllLines
  BY DEF F!AllLines, z, s, Flat, F!FlattenSeq, G!FlattenSeq
<1>9. Rising(f_swept \o z)
  <2>1. \A a \in Elems(f_swept), b \in Elems(z) : a < b
    BY <1>5, <1>7 DEF Precedes
  <2>2. Rising(f_swept)
    BY DEF FInv, FLog, Ordered
  <2> QED BY <1>2, <1>7, <2>1, <2>2, RisingJoined
<1>10. Elems(f_swept \o z) = Written(f_swept, f_files)
  <2>1. {e \in Int : \E i \in 1 .. Len(s) : e \in Elems(s[i])}
        = {e \in Int : \E i \in FNums : e \in Elems(f_files[i])}
    <3>1. \A j \in FNums : MaxNum - j \in 1 .. MaxNum /\ MaxNum - (MaxNum - j) = j
      BY FilesBounds DEF FNums
    <3> QED BY <1>3, <1>4, <3>1
  <2>2. Elems(f_swept \o z) = Elems(f_swept) \cup Elems(z)
    BY <1>2, <1>7, Joined
  <2> QED BY <1>7, <2>1, <2>2, Zenon DEF Written
<1>11. f_swept \o z \in Lines
  BY <1>2, <1>7, Joined
<1>12. F!OneLog
  <2> DEFINE a == F!AllLines
  <2>1. a \in Lines /\ Rising(a) /\ Elems(a) = Written(f_swept, f_files)
    BY <1>8, <1>9, <1>10, <1>11, Zenon
  <2> HIDE DEF a
  <2>2. \A i \in 1 .. Len(a) - 1 : a[i] < a[i + 1]
    <3> SUFFICES ASSUME NEW i \in 1 .. Len(a) - 1 PROVE a[i] < a[i + 1]
      OBVIOUS
    <3>1. i \in 1 .. Len(a) /\ i + 1 \in 1 .. Len(a) /\ i < i + 1
      BY <2>1 DEF Lines
    <3> QED BY <2>1, <3>1 DEF Rising
  <2>3. F!ToSet(a) \cup f_gone = 1 .. f_next - 1
    BY <2>1, Elements DEF FInv, FLog
  <2> QED BY <2>2, <2>3 DEF F!OneLog, a
<1>13. F!NoneLate /\ F!OwnDay
  BY DEF FInv, FReopened, FDated, F!NoneLate
<1> QED BY <1>1, <1>12, <1>13

------------------------------------------------------------------------------
(* The parts side by side.                                                 *)

\* A step of the library is a step of one part, and none of the others.
LEMMA PartSteps ==
  [Next]_vars => /\ [Q!Next]_varsQ /\ [L!Next]_varsL /\ [G!Next]_varsG /\ [F!Next]_varsF
                 /\ [R!Next]_varsR /\ [T!Next]_varsT /\ [C!Next]_varsC /\ [S!Next]_varsS
                 /\ [D!Next]_varsD /\ [P!Next]_varsP /\ [K!Next]_varsK
<1> SUFFICES ASSUME [Next]_vars
             PROVE  /\ [Q!Next]_varsQ /\ [L!Next]_varsL /\ [G!Next]_varsG /\ [F!Next]_varsF
                    /\ [R!Next]_varsR /\ [T!Next]_varsT /\ [C!Next]_varsC /\ [S!Next]_varsS
                    /\ [D!Next]_varsD /\ [P!Next]_varsP /\ [K!Next]_varsK
  OBVIOUS
<1> USE DEF NotQ, NotL, NotG, NotF, NotR, NotT, NotC, NotS, NotD, NotP, NotK, vars
<1> QED BY DEF Next

ThreadInv == QInv /\ LInv /\ GInv /\ FInv

\* Every part begins in its invariant.
LEMMA ThreadInit == Init => ThreadInv
<1>1. Init => Q!Init /\ L!Init /\ G!Init /\ F!Init
  BY DEF Init
<1> QED
  BY <1>1, QueueInit, LocksInit, LoggerInit, FilesInit DEF ThreadInv

\* Every step of the library keeps the invariants.
LEMMA ThreadStep == ThreadInv /\ [Next]_vars => ThreadInv'
<1> SUFFICES ASSUME ThreadInv, [Next]_vars PROVE ThreadInv'
  OBVIOUS
<1>1. [Q!Next]_varsQ /\ [L!Next]_varsL /\ [G!Next]_varsG /\ [F!Next]_varsF
  BY PartSteps
<1> QED
  BY <1>1, QueueStep, LocksStep, LoggerStep, FilesStep DEF ThreadInv

\* No thread sleeps in the queue while an item lies there for which no other was woken,
\* and its size is that of its deque (INV_ThreadQueue); a mutex is held as often as the
\* guards of its owner say, through timed waits inside nested sections (INV_ThreadMutex,
\* INV_Monitor, INV_LockT).  For any number of threads, items and guards.
THEOREM WaitsAndLocksAreExact == Spec => []WaitsAndLocksExact
<1>1. ThreadInv => WaitsAndLocksExact
  BY QueueImplies, LocksImplies DEF ThreadInv, WaitsAndLocksExact
<1> QED
  BY <1>1, ThreadInit, ThreadStep, PTL DEF Spec

\* A line that was logged is in the put area, the queue, the hand of a flusher or the
\* files, or its flush failed; in two of them, or twice, only if the roll() of its writer
\* threw behind its write; without sync() the lines are in the files in the order they
\* were written (INV_Logger, INV_LoggerRoll, INV_LoggerThreadGroup); the
\* files of INV_RollBySize are one log, no line goes to a file long removed, and those of
\* INV_RollByTime have the date of their lines.  For any number of writers, lines, files,
\* any size, period and zone.
THEOREM LogStaysWhole == Spec => []LogIsWhole
<1>1. ThreadInv => LogIsWhole
  BY LoggerImplies, FilesImplies DEF ThreadInv, LogIsWhole
<1> QED
  BY <1>1, ThreadInit, ThreadStep, PTL DEF Spec
==============================================================================
