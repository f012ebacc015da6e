------------------------- MODULE DyeingServiceProofs -------------------------
(***************************************************************************)
(* What a request decides while the slots and the queue change under it,   *)
(* and what its reply looks like, for any number of request threads,       *)
(* users, types, calls and flushes.                                        *)
(***************************************************************************)
EXTENDS DyeingService, TLAPS

Fields == {"pc", "call", "status", "infos", "k", "entries", "product", "begin",
           "inQueue", "onceInQueue"}

\* The slots only grow, and are never empty.
SlotsOK ==
  /\ white \in Seq(WhiteLists) /\ Len(white) >= 1
  /\ snap \in Seq(Snapshots) /\ Len(snap) >= 1
  /\ push \in Seq(PushTables \cup {{}}) /\ Len(push) >= 1

\* What a request remembers of the moment it came to its type is of the past, and
\* the two flags follow the queue.
History(r) ==
  Dyeing(r) =>
    /\ r.begin.white \in 1 .. Len(white)
    /\ r.begin.snap \in 1 .. Len(snap)
    /\ r.begin.push \in 1 .. Len(push)
    /\ r.inQueue => Item(r).uid \in newUsers
    /\ Item(r).uid \in newUsers => r.onceInQueue

NotWhite(r) ==
  r.pc \in {"push", "fresh", "queue", "online"} =>
    \E v \in r.begin.white .. Len(white) : <<Item(r).uid, Type(r)>> \notin white[v]

\* What the sources consulted so far have said.
SoFar(r) ==
  /\ r.pc = "push" => BizNoticias(r)
  /\ r.pc \in {"fresh", "queue"} /\ BizNoticias(r) => ~InEach(r, push, r.begin.push)
  /\ r.pc = "queue" => ~InEach(r, snap, r.begin.snap)

Justified(r) ==
  /\ r.product = "plain" => ~r.inQueue /\ ~InEach(r, snap, r.begin.snap)
  /\ r.product = "fresh" => r.onceInQueue \/ InOne(r, snap, r.begin.snap)
  /\ r.product = "pushed" => InOne(r, push, r.begin.push)
  /\ r.product = "new" => /\ r.onceInQueue
                          /\ ~InEach(r, snap, r.begin.snap)
                          /\ ~InEach(r, push, r.begin.push)
  /\ r.product = "recurring" => /\ ~r.inQueue \/ InOne(r, snap, r.begin.snap)
                                /\ ~InEach(r, push, r.begin.push)
  /\ r.product \in {"plain", "fresh", "pushed", "new", "recurring"}

Good(r) ==
  /\ DOMAIN r = Fields
  /\ History(r) /\ NotWhite(r) /\ SoFar(r)
  /\ r.pc = "online" => Justified(r)

Inv ==
  /\ SlotsOK
  /\ DOMAIN req = Workers /\ req = [w \in Workers |-> req[w]]
  /\ \A w \in Workers : Good(req[w])

-----------------------------------------------------------------------------
(* The records a request becomes.                                          *)

LEMMA EnterGood ==
  ASSUME SlotsOK, NEW r, NEW k, DOMAIN r = Fields
  PROVE  Good(EnterType(r, k))
<1> DEFINE e == EnterType(r, k)
<1>1. /\ DOMAIN e = Fields /\ e.pc = "white" /\ e.begin = Versions
      /\ e.call = r.call /\ e.infos = r.infos
      /\ e.inQueue = (Item(r).uid \in newUsers)
      /\ e.onceInQueue = (Item(r).uid \in newUsers)
  BY DEF EnterType, Fields
<1>2. Item(e) = Item(r)
  BY <1>1 DEF Item
<1>3. /\ e.begin.white = Len(white) /\ e.begin.snap = Len(snap)
      /\ e.begin.push = Len(push)
  BY <1>1 DEF Versions
<1>4. /\ Len(white) \in 1 .. Len(white) /\ Len(snap) \in 1 .. Len(snap)
      /\ Len(push) \in 1 .. Len(push)
  BY DEF SlotsOK
<1>5. (e.inQueue => Item(e).uid \in newUsers) /\ (Item(e).uid \in newUsers => e.onceInQueue)
  BY <1>1, <1>2
<1>6. History(e)
  <2> HIDE DEF e
  <2> QED
    BY <1>3, <1>4, <1>5 DEF History
<1> QED
  BY <1>1, <1>6 DEF Good, NotWhite, SoFar

\* A request that is at no type has nothing to justify.
LEMMA OutsideGood ==
  ASSUME NEW r, DOMAIN r = Fields, ~Dyeing(r)
  PROVE  Good(r)
BY DEF Good, History, NotWhite, SoFar, Dyeing

LEMMA EndGood ==
  ASSUME NEW r, NEW status, DOMAIN r = Fields
  PROVE  Good(EndItem(r, status))
<1>1. /\ DOMAIN EndItem(r, status) = Fields
      /\ EndItem(r, status).pc \in {"answered", "item"}
  BY DEF EndItem, Fields
<1> QED
  BY <1>1, OutsideGood DEF Dyeing

LEMMA NextTypeGood ==
  ASSUME SlotsOK, NEW r, DOMAIN r = Fields
  PROVE  Good(NextType(r))
BY EnterGood, EndGood DEF NextType

LEMMA AddEntryFields ==
  ASSUME NEW r, NEW source, NEW version, DOMAIN r = Fields
  PROVE  DOMAIN AddEntry(r, source, version) = Fields
BY DEF AddEntry, Fields

\* A step of one request thread that leaves the rest alone.
LEMMA BecomesInv ==
  ASSUME Inv, NEW w \in Workers, NEW r, Becomes(w, r), Good(r)
  PROVE  Inv'
<1>1. /\ req' = [req EXCEPT ![w] = r]
      /\ white' = white /\ snap' = snap /\ push' = push /\ newUsers' = newUsers
  BY DEF Becomes, slots
<1>2. SlotsOK' /\ DOMAIN req' = Workers /\ req' = [q \in Workers |-> req'[q]]
  BY <1>1 DEF SlotsOK, Inv
<1>3. ASSUME NEW q \in Workers PROVE Good(req[q])'
  <2>1. req'[q] = IF q = w THEN r ELSE req[q]
    BY <1>1 DEF Inv
  <2>2. Good(req'[q])
    BY <2>1 DEF Inv
  <2>3. Good(req[q])' = Good(req'[q])
    BY <1>1 DEF Good, History, NotWhite, SoFar, Justified, InOne, InEach, Item, Type,
              Dyeing, BizNoticias
  <2> QED
    BY <2>2, <2>3
<1> QED
  BY <1>2, <1>3 DEF Inv

-----------------------------------------------------------------------------
(* The flush threads and the Kafka threads.                                *)

\* What a slot has shown it has shown for good.
Grown(old, new) ==
  /\ Len(old) \in Nat /\ Len(new) \in Nat /\ Len(old) <= Len(new)
  /\ \A i \in 1 .. Len(old) : new[i] = old[i]

LEMMA AppendGrown ==
  ASSUME NEW S, NEW s \in Seq(S), NEW c \in S
  PROVE  Append(s, c) \in Seq(S) /\ Grown(s, Append(s, c))
BY DEF Grown

LEMMA SameGrown == ASSUME NEW S, NEW s \in Seq(S) PROVE Grown(s, s)
BY DEF Grown

\* A later version of a slot refutes no exhibit among the earlier ones.
LEMMA FlushInv ==
  ASSUME Inv, SlotsOK', req' = req, newUsers' = newUsers,
         Grown(white, white'), Grown(snap, snap'), Grown(push, push')
  PROVE  Inv'
<1>1. ASSUME NEW w \in Workers PROVE Good(req[w])'
  <2> DEFINE r == req[w]
  <2>1. r' = r /\ Good(r)
    BY DEF Inv
  <2>2. /\ Item(r)' = Item(r) /\ Type(r)' = Type(r) /\ Dyeing(r)' = Dyeing(r)
        /\ BizNoticias(r)' = BizNoticias(r)
    BY DEF Item, Type, Dyeing, BizNoticias
  <2> HIDE DEF r
  <2>3. CASE ~Dyeing(r)
    <3>1. DOMAIN r = Fields
      BY <2>1 DEF Good
    <3> QED
      BY <2>1, <2>2, <2>3, <3>1 DEF Good, History, NotWhite, SoFar, Dyeing, r
  <2>4. CASE Dyeing(r)
    <3>1. /\ r.begin.white \in 1 .. Len(white)
          /\ r.begin.snap \in 1 .. Len(snap)
          /\ r.begin.push \in 1 .. Len(push)
      BY <2>1, <2>4 DEF Good, History
    <3>2. /\ r.begin.white .. Len(white) \subseteq r.begin.white .. Len(white')
          /\ r.begin.snap .. Len(snap) \subseteq r.begin.snap .. Len(snap')
          /\ r.begin.push .. Len(push) \subseteq r.begin.push .. Len(push')
          /\ \A v \in r.begin.white .. Len(white) : white'[v] = white[v]
          /\ \A v \in r.begin.snap .. Len(snap) : snap'[v] = snap[v]
          /\ \A v \in r.begin.push .. Len(push) : push'[v] = push[v]
      BY <3>1 DEF Grown
    <3>3. History(r)'
      BY <2>1, <2>2, <2>4, <3>1 DEF Good, History, Grown
    <3>4. NotWhite(r)'
      BY <2>1, <2>2, <3>2 DEF Good, NotWhite
    <3>5. /\ ~InEach(r, push, r.begin.push) => ~InEach(r, push, r.begin.push)'
          /\ ~InEach(r, snap, r.begin.snap) => ~InEach(r, snap, r.begin.snap)'
      BY <2>1, <2>2, <3>2 DEF InEach
    <3>6. /\ InOne(r, push, r.begin.push) => InOne(r, push, r.begin.push)'
          /\ InOne(r, snap, r.begin.snap) => InOne(r, snap, r.begin.snap)'
      BY <2>1, <2>2, <3>2 DEF InOne
    <3>7. SoFar(r)'
      BY <2>1, <2>2, <3>5 DEF Good, SoFar
    <3>8. (r.pc = "online" => Justified(r))'
      BY <2>1, <3>5, <3>6 DEF Good, Justified
    <3> QED
      BY <2>1, <3>3, <3>4, <3>7, <3>8 DEF Good, r
  <2> QED
    BY <2>3, <2>4
<1> QED
  BY <1>1 DEF Inv

LEMMA FlushesInv ==
  Inv /\ (FlushWhite \/ FlushOnline \/ FlushFreshUser \/ FlushPushUser) => Inv'
<1> SUFFICES ASSUME Inv, FlushWhite \/ FlushOnline \/ FlushFreshUser \/ FlushPushUser
             PROVE  Inv'
  OBVIOUS
<1>1. /\ white \in Seq(WhiteLists) /\ snap \in Seq(Snapshots)
      /\ push \in Seq(PushTables \cup {{}})
  BY DEF Inv, SlotsOK
<1>2. /\ Grown(white, white) /\ Grown(snap, snap) /\ Grown(push, push)
  BY <1>1, SameGrown
<1>3. CASE FlushWhite
  <2>1. white' = white \/ \E c \in WhiteLists : white' = Append(white, c)
    BY <1>3 DEF FlushWhite, Publish
  <2>2. white' \in Seq(WhiteLists) /\ Grown(white, white')
    BY <1>1, <1>2, <2>1, AppendGrown
  <2>3. snap' = snap /\ push' = push /\ req' = req /\ newUsers' = newUsers
    BY <1>3 DEF FlushWhite
  <2>4. SlotsOK'
    BY <2>2, <2>3 DEF SlotsOK, Inv, Grown
  <2> QED
    BY <1>2, <2>2, <2>3, <2>4, FlushInv
<1>4. CASE FlushOnline
  <2>1. /\ white' = white /\ snap' = snap /\ push' = push /\ req' = req
        /\ newUsers' = newUsers
    BY <1>4 DEF FlushOnline
  <2>2. SlotsOK'
    BY <2>1 DEF SlotsOK, Inv
  <2> QED
    BY <1>2, <2>1, <2>2, FlushInv
<1>5. CASE FlushFreshUser
  <2>1. snap' = snap \/ \E c \in Snapshots : snap' = Append(snap, c)
    BY <1>5 DEF FlushFreshUser, Publish
  <2>2. snap' \in Seq(Snapshots) /\ Grown(snap, snap')
    BY <1>1, <1>2, <2>1, AppendGrown
  <2>3. white' = white /\ push' = push /\ req' = req /\ newUsers' = newUsers
    BY <1>5 DEF FlushFreshUser
  <2>4. SlotsOK'
    BY <2>2, <2>3 DEF SlotsOK, Inv, Grown
  <2> QED
    BY <1>2, <2>2, <2>3, <2>4, FlushInv
<1>6. CASE FlushPushUser
  <2>1. push' = push \/ \E c \in PushTables \cup {{}} : push' = Append(push, c)
    BY <1>6 DEF FlushPushUser, Publish
  <2>2. push' \in Seq(PushTables \cup {{}}) /\ Grown(push, push')
    <3> DEFINE P == PushTables \cup {{}}
    <3>1. /\ push \in Seq(P) /\ Grown(push, push)
          /\ push' = push \/ \E c \in P : push' = Append(push, c)
      BY <1>1, <1>2, <2>1
    <3> SUFFICES push' \in Seq(P) /\ Grown(push, push')
      OBVIOUS
    <3> HIDE DEF P
    <3> QED
      BY <3>1, AppendGrown
  <2>3. white' = white /\ snap' = snap /\ req' = req /\ newUsers' = newUsers
    BY <1>6 DEF FlushPushUser
  <2>4. SlotsOK'
    BY <2>2, <2>3 DEF SlotsOK, Inv, Grown
  <2> QED
    BY <1>2, <2>2, <2>3, <2>4, FlushInv
<1> QED
  BY <1>3, <1>4, <1>5, <1>6

\* What a request remembers of the queue follows it.
LEMMA QueueInv ==
  ASSUME Inv, NEW u, Learn(u) \/ Forget(u)
  PROVE  Inv'
<1>1. /\ white' = white /\ snap' = snap /\ push' = push
      /\ req' = [w \in Workers |-> req'[w]]
  BY DEF Learn, Forget, slots
<1>2. SlotsOK'
  BY <1>1 DEF Inv, SlotsOK
<1>3. ASSUME NEW w \in Workers PROVE Good(req[w])'
  <2> DEFINE r == req[w]
             s == req'[w]
  <2>1. DOMAIN r = Fields /\ Good(r)
    BY DEF Inv, Good
  <2>2. /\ DOMAIN s = Fields
        /\ s.pc = r.pc /\ s.call = r.call /\ s.infos = r.infos /\ s.k = r.k
        /\ s.product = r.product /\ s.begin = r.begin
    BY <2>1 DEF Learn, Forget, Fields
  <2>3. /\ Item(s) = Item(r) /\ Type(s) = Type(r) /\ Dyeing(s) = Dyeing(r)
        /\ BizNoticias(s) = BizNoticias(r)
    BY <2>2 DEF Item, Type, Dyeing, BizNoticias
  <2>4. /\ Dyeing(r) => (s.inQueue => Item(r).uid \in newUsers')
        /\ Dyeing(r) => (Item(r).uid \in newUsers' => s.onceInQueue)
        /\ Dyeing(r) => (s.inQueue => r.inQueue)
        /\ Dyeing(r) => (r.onceInQueue => s.onceInQueue)
    <3>1. Dyeing(r) => /\ r.inQueue => Item(r).uid \in newUsers
                       /\ Item(r).uid \in newUsers => r.onceInQueue
      BY <2>1 DEF Good, History
    <3>2. CASE Learn(u)
      <4>1. newUsers' = newUsers \cup {u}
        BY <3>2 DEF Learn
      <4>2. s = IF Dyeing(r) /\ Item(r).uid = u THEN [r EXCEPT !.onceInQueue = TRUE] ELSE r
        BY <3>2 DEF Learn
      <4>3. CASE Dyeing(r) /\ Item(r).uid = u
        <5>1. s.inQueue = r.inQueue /\ s.onceInQueue = TRUE
          BY <2>1, <4>2, <4>3 DEF Fields
        <5> QED
          BY <3>1, <4>1, <5>1
      <4>4. CASE ~(Dyeing(r) /\ Item(r).uid = u)
        BY <3>1, <4>1, <4>2, <4>4
      <4> QED
        BY <4>3, <4>4
    <3>3. CASE Forget(u)
      <4>1. newUsers' = newUsers \ {u}
        BY <3>3 DEF Forget
      <4>2. s = IF Dyeing(r) /\ Item(r).uid = u THEN [r EXCEPT !.inQueue = FALSE] ELSE r
        BY <3>3 DEF Forget
      <4>3. CASE Dyeing(r) /\ Item(r).uid = u
        <5>1. s.onceInQueue = r.onceInQueue /\ s.inQueue = FALSE
          BY <2>1, <4>2, <4>3 DEF Fields
        <5> QED
          BY <3>1, <4>1, <4>3, <5>1
      <4>4. CASE ~(Dyeing(r) /\ Item(r).uid = u)
        BY <3>1, <4>1, <4>2, <4>4
      <4> QED
        BY <4>3, <4>4
    <3> QED
      BY <3>2, <3>3
  <2>5. /\ \A sl, v : InEach(s, sl, v) = InEach(r, sl, v)
        /\ \A sl, v : InOne(s, sl, v) = InOne(r, sl, v)
    BY <2>3 DEF InEach, InOne
  <2> HIDE DEF r, s
  <2>6. NotWhite(s) /\ SoFar(s)
    BY <2>1, <2>2, <2>3, <2>5 DEF Good, NotWhite, SoFar
  <2>7. s.pc = "online" => Justified(s)
    <3>1. s.pc = "online" => Dyeing(r)
      BY <2>2 DEF Dyeing
    <3> QED
      BY <2>1, <2>2, <2>4, <2>5, <3>1 DEF Good, Justified
  <2>8. Dyeing(s) =>
          /\ s.begin.white \in 1 .. Len(white)
          /\ s.begin.snap \in 1 .. Len(snap)
          /\ s.begin.push \in 1 .. Len(push)
          /\ s.inQueue => Item(s).uid \in newUsers'
          /\ Item(s).uid \in newUsers' => s.onceInQueue
    BY <2>1, <2>2, <2>3, <2>4 DEF Good, History
  <2> QED
    BY <1>1, <2>2, <2>6, <2>7, <2>8
    DEF s, Good, History, NotWhite, SoFar, Justified, InOne, InEach, Item, Type, Dyeing,
        BizNoticias
<1> QED
  BY <1>1, <1>2, <1>3 DEF Inv

-----------------------------------------------------------------------------
(* The request threads.                                                    *)

\* What a record that takes its next source keeps.
SameRequest(r, s) ==
  /\ DOMAIN s = Fields
  /\ s.call = r.call /\ s.infos = r.infos /\ s.k = r.k /\ s.begin = r.begin
  /\ s.inQueue = r.inQueue /\ s.onceInQueue = r.onceInQueue

LEMMA SameRequestReads ==
  ASSUME NEW r, NEW s, SameRequest(r, s)
  PROVE  /\ Item(s) = Item(r) /\ Type(s) = Type(r) /\ BizNoticias(s) = BizNoticias(r)
         /\ \A sl, v : InEach(s, sl, v) = InEach(r, sl, v)
         /\ \A sl, v : InOne(s, sl, v) = InOne(r, sl, v)
         /\ Dyeing(r) /\ History(r) => History(s)
BY DEF SameRequest, Item, Type, BizNoticias, InEach, InOne, History

LEMMA WhiteListInv == ASSUME Inv, NEW w \in Workers, HandleWhiteList(w) PROVE Inv'
<1> DEFINE r == req[w]
           s == [r EXCEPT !.pc = IF BizNoticias(r) THEN "push" ELSE "fresh"]
<1>1. DOMAIN r = Fields /\ Good(r) /\ r.pc = "white" /\ SlotsOK
  BY DEF HandleWhiteList, Inv, Good
<1>2. Good(NextType(AddEntry(r, "white", Len(white))))
  BY <1>1, AddEntryFields, NextTypeGood
<1>3. ASSUME <<Item(r).uid, Type(r)>> \notin Last(white) PROVE Good(s)
  <2>1. SameRequest(r, s) /\ s.pc = IF BizNoticias(r) THEN "push" ELSE "fresh"
    BY <1>1 DEF SameRequest, Fields
  <2>2. Dyeing(r) /\ History(r)
    BY <1>1 DEF Dyeing, Good
  <2> HIDE DEF s
  <2>3. /\ Item(s) = Item(r) /\ Type(s) = Type(r) /\ BizNoticias(s) = BizNoticias(r)
        /\ History(s)
    BY <2>1, <2>2, SameRequestReads
  <2>4. Len(white) \in r.begin.white .. Len(white)
    BY <1>1, <2>2 DEF History, SlotsOK
  <2>5. NotWhite(s)
    BY <1>3, <2>1, <2>3, <2>4 DEF NotWhite, Last, SameRequest
  <2>6. SoFar(s)
    BY <2>1, <2>3 DEF SoFar
  <2> QED
    BY <2>1, <2>3, <2>5, <2>6 DEF Good, SameRequest
<1>4. PICK q : Becomes(w, q) /\ Good(q)
  BY <1>2, <1>3 DEF HandleWhiteList
<1> QED
  BY <1>4, BecomesInv

\* The three sources between the white list and the buckets: nothing is forgotten
\* of what the earlier ones said.
LEMMA SourceGood ==
  ASSUME NEW r, NEW s, Good(r), SameRequest(r, s),
         r.pc \in {"push", "fresh", "queue"}, s.pc \in {"fresh", "queue", "online"},
         SoFar(s), s.pc = "online" => Justified(s)
  PROVE  Good(s)
<1>1. Dyeing(r) /\ History(r) /\ NotWhite(r)
  BY DEF Dyeing, Good
<1>2. NotWhite(s)
  BY <1>1, SameRequestReads DEF NotWhite, SameRequest
<1> QED
  BY <1>1, <1>2, SameRequestReads DEF Good, SameRequest

LEMMA PushUserInv == ASSUME Inv, NEW w \in Workers, HandlePushUser(w) PROVE Inv'
<1> DEFINE r  == req[w]
           s1 == [r EXCEPT !.pc = "online", !.product = "pushed"]
           s2 == [r EXCEPT !.pc = "fresh"]
<1>1. DOMAIN r = Fields /\ Good(r) /\ r.pc = "push" /\ SlotsOK
  BY DEF HandlePushUser, Inv, Good
<1>2. History(r) /\ BizNoticias(r)
  BY <1>1 DEF Good, SoFar
<1>3. Len(push) \in r.begin.push .. Len(push)
  BY <1>1, <1>2 DEF History, Dyeing, SlotsOK
<1>4. ASSUME Item(r).uid \in Last(push) PROVE Good(s1)
  <2>1. SameRequest(r, s1) /\ s1.pc = "online" /\ s1.product = "pushed"
    BY <1>1 DEF SameRequest, Fields
  <2> HIDE DEF s1
  <2>2. InOne(r, push, r.begin.push)
    BY <1>3, <1>4 DEF InOne, Last
  <2>3. Justified(s1)
    BY <2>1, <2>2, SameRequestReads DEF Justified, SameRequest
  <2>4. SoFar(s1)
    BY <2>1 DEF SoFar
  <2> QED
    BY <1>1, <2>1, <2>3, <2>4, SourceGood
<1>5. ASSUME Item(r).uid \notin Last(push) PROVE Good(s2)
  <2>1. SameRequest(r, s2) /\ s2.pc = "fresh"
    BY <1>1 DEF SameRequest, Fields
  <2> HIDE DEF s2
  <2>2. ~InEach(r, push, r.begin.push)
    BY <1>3, <1>5 DEF InEach, Last
  <2>3. SoFar(s2)
    BY <2>1, <2>2, SameRequestReads DEF SoFar, SameRequest
  <2> QED
    BY <1>1, <2>1, <2>3, SourceGood
<1>6. PICK q : Becomes(w, q) /\ Good(q)
  BY <1>4, <1>5 DEF HandlePushUser
<1> QED
  BY <1>6, BecomesInv

LEMMA SnapshotInv == ASSUME Inv, NEW w \in Workers, LookupSnapshot(w) PROVE Inv'
<1> DEFINE r  == req[w]
           p  == Product(r, 1)
           s1 == [r EXCEPT !.pc = "online", !.product = p]
           s2 == [r EXCEPT !.pc = "queue"]
<1>1. DOMAIN r = Fields /\ Good(r) /\ r.pc = "fresh" /\ SlotsOK
  BY DEF LookupSnapshot, Inv, Good
<1>2. /\ History(r)
      /\ BizNoticias(r) => ~InEach(r, push, r.begin.push)
  BY <1>1 DEF Good, SoFar
<1>3. Len(snap) \in r.begin.snap .. Len(snap)
  BY <1>1, <1>2 DEF History, Dyeing, SlotsOK
<1>4. ASSUME Item(r).uid \in Last(snap) PROVE Good(s1)
  <2>1. SameRequest(r, s1) /\ s1.pc = "online" /\ s1.product = p
    BY <1>1 DEF SameRequest, Fields
  <2> HIDE DEF s1
  <2>2. InOne(r, snap, r.begin.snap)
    BY <1>3, <1>4 DEF InOne, Last
  <2>3. /\ BizNoticias(r) => p = "recurring"
        /\ ~BizNoticias(r) => p = "fresh"
    BY DEF Product
  <2>4. Justified(s1)
    BY <1>2, <2>1, <2>2, <2>3, SameRequestReads DEF Justified, SameRequest
  <2>5. SoFar(s1)
    BY <2>1 DEF SoFar
  <2> QED
    BY <1>1, <2>1, <2>4, <2>5, SourceGood
<1>5. ASSUME Item(r).uid \notin Last(snap) PROVE Good(s2)
  <2>1. SameRequest(r, s2) /\ s2.pc = "queue"
    BY <1>1 DEF SameRequest, Fields
  <2> HIDE DEF s2
  <2>2. ~InEach(r, snap, r.begin.snap)
    BY <1>3, <1>5 DEF InEach, Last
  <2>3. SoFar(s2)
    BY <1>2, <2>1, <2>2, SameRequestReads DEF SoFar, SameRequest
  <2> QED
    BY <1>1, <2>1, <2>3, SourceGood
<1>6. PICK q : Becomes(w, q) /\ Good(q)
  BY <1>4, <1>5 DEF LookupSnapshot
<1> QED
  BY <1>6, BecomesInv

LEMMA QueueLookupInv == ASSUME Inv, NEW w \in Workers, LookupQueue(w) PROVE Inv'
<1> DEFINE r == req[w]
           n == IF Item(r).uid \in newUsers THEN 2 ELSE 0
           p == Product(r, n)
           s == [r EXCEPT !.pc = "online", !.product = p]
<1>1. DOMAIN r = Fields /\ Good(r) /\ r.pc = "queue"
  BY DEF LookupQueue, Inv, Good
<1>2. /\ BizNoticias(r) => ~InEach(r, push, r.begin.push)
      /\ ~InEach(r, snap, r.begin.snap)
      /\ r.inQueue => Item(r).uid \in newUsers
      /\ Item(r).uid \in newUsers => r.onceInQueue
  BY <1>1 DEF Good, SoFar, History, Dyeing
<1>3. SameRequest(r, s) /\ s.pc = "online" /\ s.product = p
  BY <1>1 DEF SameRequest, Fields
<1>4. /\ BizNoticias(r) /\ Item(r).uid \in newUsers => p = "new"
      /\ BizNoticias(r) /\ Item(r).uid \notin newUsers => p = "recurring"
      /\ ~BizNoticias(r) /\ Item(r).uid \in newUsers => p = "fresh"
      /\ ~BizNoticias(r) /\ Item(r).uid \notin newUsers => p = "plain"
  BY DEF Product
<1>5. Good(s)
  <2> HIDE DEF s, p
  <2>1. Justified(s)
    BY <1>2, <1>3, <1>4, SameRequestReads DEF Justified, SameRequest
  <2>2. SoFar(s)
    BY <1>3 DEF SoFar
  <2> QED
    BY <1>1, <1>3, <2>1, <2>2, SourceGood
<1>6. Becomes(w, s)
  BY DEF LookupQueue
<1> QED
  BY <1>5, <1>6, BecomesInv

\* The steps after which a request is at no source, or at the first of its type.
LEMMA OtherStepsInv ==
  ASSUME Inv, NEW w \in Workers,
         Receive(w) \/ BeginItem(w) \/ HandleOnlineHash(w) \/ Fault(w) \/ Answer(w)
  PROVE  Inv'
<1> DEFINE r == req[w]
<1>1. DOMAIN r = Fields /\ SlotsOK
  BY DEF Inv, Good
<1>2. DOMAIN Idle = Fields /\ Idle.pc = "idle"
  BY DEF Idle, Fields
<1>3. CASE Receive(w)
  <2>1. PICK c \in Calls :
          LET i == [Idle EXCEPT !.call = c] IN
          \/ Becomes(w, [i EXCEPT !.pc = "answered", !.status = "ERROR"])
          \/ Becomes(w, [i EXCEPT !.pc = IF c.items = <<>> THEN "answered" ELSE "item"])
    BY <1>3 DEF Receive
  <2> DEFINE i  == [Idle EXCEPT !.call = c]
             s1 == [i EXCEPT !.pc = "answered", !.status = "ERROR"]
             s2 == [i EXCEPT !.pc = IF c.items = <<>> THEN "answered" ELSE "item"]
  <2>2. DOMAIN i = Fields
    BY <1>2
  <2> HIDE DEF i
  <2>3. /\ DOMAIN s1 = Fields /\ s1.pc = "answered"
        /\ DOMAIN s2 = Fields /\ s2.pc \in {"answered", "item"}
    BY <2>2 DEF Fields
  <2>4. Good(s1) /\ Good(s2)
    BY <2>3, OutsideGood DEF Dyeing
  <2>5. Becomes(w, s1) \/ Becomes(w, s2)
    BY <2>1 DEF i
  <2> QED
    BY <2>4, <2>5, BecomesInv
<1>4. CASE BeginItem(w)
  <2>1. Good(EndItem(r, "ERROR")) /\ Good(EnterType(r, 1))
    BY <1>1, EndGood, EnterGood
  <2>2. PICK q : Becomes(w, q) /\ Good(q)
    BY <1>4, <2>1 DEF BeginItem
  <2> QED
    BY <2>2, BecomesInv
<1>5. CASE HandleOnlineHash(w)
  <2>1. /\ Good(NextType(AddEntry(r, r.product, Len(online))))
        /\ Good(NextType(AddEntry(r, "default", Len(online))))
        /\ Good(NextType(r))
    BY <1>1, AddEntryFields, NextTypeGood
  <2>2. PICK q : Becomes(w, q) /\ Good(q)
    BY <1>5, <2>1 DEF HandleOnlineHash
  <2> QED
    BY <2>2, BecomesInv
<1>6. CASE Fault(w)
  <2>1. Becomes(w, EndItem(r, "FAULT")) /\ Good(EndItem(r, "FAULT"))
    BY <1>1, <1>6, EndGood DEF Fault
  <2> QED
    BY <2>1, BecomesInv
<1>7. CASE Answer(w)
  <2>1. Becomes(w, Idle) /\ Good(Idle)
    BY <1>2, <1>7, OutsideGood DEF Answer, Dyeing
  <2> QED
    BY <2>1, BecomesInv
<1> QED
  BY <1>3, <1>4, <1>5, <1>6, <1>7

-----------------------------------------------------------------------------
LEMMA InitInv == Init => Inv
<1> SUFFICES ASSUME Init PROVE Inv
  OBVIOUS
<1>1. SlotsOK
  <2>1. PICK a \in WhiteLists, b \in Snapshots : white = <<a>> /\ snap = <<b>>
    BY DEF Init
  <2>2. <<a>> \in Seq(WhiteLists) /\ Len(<<a>>) = 1
    OBVIOUS
  <2>3. <<b>> \in Seq(Snapshots) /\ Len(<<b>>) = 1
    OBVIOUS
  <2>4. push \in Seq(PushTables \cup {{}}) /\ Len(push) = 1
    BY DEF Init
  <2> QED
    BY <2>1, <2>2, <2>3, <2>4 DEF SlotsOK
<1>2. Good(Idle)
  <2>1. DOMAIN Idle = Fields /\ ~Dyeing(Idle)
    BY DEF Idle, Fields, Dyeing
  <2> QED
    BY <2>1, OutsideGood
<1>3. req = [w \in Workers |-> Idle]
  BY DEF Init
<1> QED
  BY <1>1, <1>2, <1>3 DEF Inv

LEMMA NextInv == Inv /\ [Next]_vars => Inv'
<1> SUFFICES ASSUME Inv, [Next]_vars PROVE Inv'
  OBVIOUS
<1>1. CASE FlushWhite \/ FlushOnline \/ FlushFreshUser \/ FlushPushUser
  BY <1>1, FlushesInv
<1>2. ASSUME NEW u \in Uids, Learn(u) \/ Forget(u) PROVE Inv'
  BY <1>2, QueueInv
<1>3. ASSUME NEW w \in Workers, Receive(w) \/ Serve(w) \/ Fault(w) PROVE Inv'
  BY <1>3, WhiteListInv, PushUserInv, SnapshotInv, QueueLookupInv, OtherStepsInv DEF Serve
<1>4. CASE UNCHANGED vars
  <2>1. SlotsOK' /\ req' = req /\ newUsers' = newUsers
    BY <1>4 DEF vars, slots, SlotsOK, Inv
  <2>2. Grown(white, white') /\ Grown(snap, snap') /\ Grown(push, push')
    BY <1>4, SameGrown DEF vars, slots, SlotsOK, Inv
  <2> QED
    BY <2>1, <2>2, FlushInv
<1> QED
  BY <1>1, <1>2, <1>3, <1>4 DEF Next

\* No flush, however timed, lets a request past a white list that named its user
\* all the time: for any number of threads, users, types and versions.
THEOREM WhiteListAlwaysWins == Spec => []WhiteListWins
<1>1. Inv => WhiteListWins
  BY DEF Inv, Good, NotWhite, WhiteListWins
<1> QED
  BY <1>1, InitInv, NextInv, PTL DEF Spec

\* Whatever order flushes, the Kafka threads and the five lookups come in, the
\* product a user is dyed for is one that held at some instant of the request.
THEOREM ProductAlwaysJustified == Spec => []ProductJustified
<1>1. Inv => ProductJustified
  BY DEF Inv, Good, Justified, ProductJustified
<1> QED
  BY <1>1, InitInv, NextInv, PTL DEF Spec

-----------------------------------------------------------------------------
(* The shape of a reply.                                                   *)

IsSeq(s) == Len(s) \in Nat /\ s = [i \in 1 .. Len(s) |-> s[i]]

\* What the calls have to be: lists of items, with lists of types.
CallsOK ==
  \A c \in Calls :
    /\ c.batch \in BOOLEAN /\ IsSeq(c.items)
    /\ \A i \in 1 .. Len(c.items) : IsSeq(c.items[i].types)

TooLong(c) == c.batch /\ Len(c.items) > MaxBatch

\* The entries answer some of the first n types, in order.
Ordered(entries, types, n) ==
  \E pos \in [1 .. Len(entries) -> 1 .. n] :
    /\ \A i, j \in 1 .. Len(entries) : i < j => pos[i] < pos[j]
    /\ \A i \in 1 .. Len(entries) : entries[i].type = types[pos[i]]

Answers(info, item) ==
  /\ info.uid = item.uid
  /\ InOrder(info.entries, item.types)
  /\ info.status = "OK" => info.entries # <<>>
  /\ info.status = "ERROR" => info.entries = <<>>

AllAnswer(r) ==
  /\ r.call \in Calls /\ IsSeq(r.infos)
  /\ \A i \in 1 .. Len(r.infos) : Answers(r.infos[i], r.call.items[i])

\* A request that is at an item, and has been through the first n of its types.
AtItem(r, n) ==
  /\ DOMAIN r = Fields
  /\ AllAnswer(r)
  /\ Len(r.infos) < Len(r.call.items) /\ r.status = "OK" /\ ~TooLong(r.call)
  /\ IsSeq(r.entries) /\ Ordered(r.entries, Item(r).types, n)

Shape(r) ==
  /\ DOMAIN r = Fields
  /\ r.pc = "item" => AtItem(r, 0) /\ r.entries = <<>>
  /\ Dyeing(r) => AtItem(r, r.k - 1) /\ r.k \in 1 .. Len(Item(r).types)
  /\ r.pc = "answered" =>
       /\ AllAnswer(r)
       /\ Len(r.infos) = IF r.status = "ERROR" THEN 0 ELSE Len(r.call.items)
       /\ r.status = "ERROR" <=> TooLong(r.call)

ShapeInv ==
  /\ DOMAIN req = Workers /\ req = [w \in Workers |-> req[w]]
  /\ \A w \in Workers : Shape(req[w])

LEMMA SeqIs == ASSUME NEW S, NEW s \in Seq(S) PROVE IsSeq(s)
BY DEF IsSeq

LEMMA AppendAny ==
  ASSUME NEW s, NEW e, IsSeq(s)
  PROVE  /\ IsSeq(Append(s, e)) /\ Len(Append(s, e)) = Len(s) + 1
         /\ \A i \in 1 .. Len(s) : Append(s, e)[i] = s[i]
         /\ Append(s, e)[Len(s) + 1] = e
<1> DEFINE S == {s[i] : i \in 1 .. Len(s)} \cup {e}
<1>1. Len(s) \in Nat /\ s = [i \in 1 .. Len(s) |-> s[i]]
  BY DEF IsSeq
<1>2. \A i \in 1 .. Len(s) : s[i] \in S
  OBVIOUS
<1>3. e \in S
  OBVIOUS
<1> HIDE DEF S
<1>4. s \in [1 .. Len(s) -> S]
  BY <1>1, <1>2
<1>5. s \in Seq(S)
  BY <1>1, <1>4
<1>6. Append(s, e) \in Seq(S) /\ Len(Append(s, e)) = Len(s) + 1
  BY <1>3, <1>5
<1>7. \A i \in 1 .. Len(s) : Append(s, e)[i] = s[i]
  BY <1>3, <1>5
<1>8. Append(s, e)[Len(s) + 1] = e
  BY <1>3, <1>5
<1>9. IsSeq(Append(s, e))
  BY <1>6, SeqIs
<1> QED
  BY <1>6, <1>7, <1>8, <1>9

LEMMA EmptyIs == ASSUME NEW s, IsSeq(s) PROVE s = <<>> <=> Len(s) = 0
<1>1. Len(s) = 0 => s = <<>>
  <2> SUFFICES ASSUME Len(s) = 0 PROVE s = <<>>
    OBVIOUS
  <2>1. s = [i \in 1 .. 0 |-> s[i]]
    BY DEF IsSeq
  <2>2. DOMAIN s = {}
    BY <2>1
  <2> QED
    BY <2>1, <2>2
<1>2. s = <<>> => Len(s) = 0
  OBVIOUS
<1> QED
  BY <1>1, <1>2

LEMMA OrderedMore ==
  ASSUME NEW es, NEW ts, NEW m \in Nat, NEW n \in Nat, m <= n, Ordered(es, ts, m)
  PROVE  Ordered(es, ts, n)
<1>1. PICK pos \in [1 .. Len(es) -> 1 .. m] :
        /\ \A i, j \in 1 .. Len(es) : i < j => pos[i] < pos[j]
        /\ \A i \in 1 .. Len(es) : es[i].type = ts[pos[i]]
  BY DEF Ordered
<1>2. pos \in [1 .. Len(es) -> 1 .. n]
  BY <1>1
<1> QED
  BY <1>1, <1>2 DEF Ordered

LEMMA NothingOrdered ==
  ASSUME NEW ts
  PROVE  IsSeq(<<>>) /\ Ordered(<<>>, ts, 0)
<1>1. IsSeq(<<>>) /\ Len(<<>>) = 0
  BY DEF IsSeq
<1>2. ASSUME NEW es, Len(es) = 0 PROVE Ordered(es, ts, 0)
  <2>1. [i \in 1 .. 0 |-> 0] \in [1 .. Len(es) -> 1 .. 0]
    BY <1>2
  <2>2. 1 .. Len(es) = {}
    BY <1>2
  <2> QED
    BY <2>1, <2>2 DEF Ordered
<1> QED
  BY <1>1, <1>2

\* One more entry, for the type that follows the first n.
LEMMA OrderedAdd ==
  ASSUME NEW es, NEW ts, NEW n \in Nat, NEW e, IsSeq(es),
         Ordered(es, ts, n), e.type = ts[n + 1]
  PROVE  Ordered(Append(es, e), ts, n + 1)
<1>1. PICK pos \in [1 .. Len(es) -> 1 .. n] :
        /\ \A i, j \in 1 .. Len(es) : i < j => pos[i] < pos[j]
        /\ \A i \in 1 .. Len(es) : es[i].type = ts[pos[i]]
  BY DEF Ordered
<1> DEFINE m == Len(es)
           fs == Append(es, e)
           to == [i \in 1 .. m + 1 |-> IF i <= m THEN pos[i] ELSE n + 1]
<1>2. /\ m \in Nat /\ Len(fs) = m + 1 /\ fs[m + 1] = e
      /\ \A i \in 1 .. m : fs[i] = es[i]
  BY AppendAny DEF IsSeq
<1> HIDE DEF m, fs
<1>3. /\ to[m + 1] = n + 1 /\ \A i \in 1 .. m : to[i] = pos[i]
  BY <1>2
<1>4. to \in [1 .. m + 1 -> 1 .. n + 1]
  BY <1>1, <1>2 DEF m
<1>5. \A i \in 1 .. m : pos[i] \in 1 .. n
  BY <1>1 DEF m
<1>6. \A i \in 1 .. m + 1 : i = m + 1 \/ i \in 1 .. m
  BY <1>2
<1> HIDE DEF to
<1>7. ASSUME NEW i \in 1 .. m + 1, NEW j \in 1 .. m + 1, i < j PROVE to[i] < to[j]
  <2>1. i \in 1 .. m
    BY <1>2, <1>7
  <2>2. CASE j = m + 1
    BY <1>3, <1>5, <2>1, <2>2
  <2>3. CASE j \in 1 .. m
    BY <1>1, <1>3, <1>7, <2>1, <2>3 DEF m
  <2> QED
    BY <1>6, <2>2, <2>3
<1>8. ASSUME NEW i \in 1 .. m + 1 PROVE fs[i].type = ts[to[i]]
  <2>1. CASE i = m + 1
    BY <1>2, <1>3, <2>1
  <2>2. CASE i \in 1 .. m
    BY <1>1, <1>2, <1>3, <2>2 DEF m
  <2> QED
    BY <1>6, <2>1, <2>2
<1>9. Ordered(fs, ts, n + 1)
  BY <1>2, <1>4, <1>7, <1>8 DEF Ordered
<1> QED
  BY <1>9 DEF fs

LEMMA OrderedInOrder ==
  ASSUME NEW es, NEW ts, IsSeq(es), IsSeq(ts), Ordered(es, ts, Len(ts))
  PROVE  InOrder(es, ts)
<1>1. DOMAIN es = 1 .. Len(es) /\ DOMAIN ts = 1 .. Len(ts)
  BY DEF IsSeq
<1> QED
  BY <1>1 DEF Ordered, InOrder

LEMMA TypesListed ==
  ASSUME CallsOK, NEW r, NEW n, AtItem(r, n)
  PROVE  IsSeq(Item(r).types) /\ Len(Item(r).types) \in Nat
<1>1. /\ r.call \in Calls /\ IsSeq(r.infos) /\ Len(r.infos) < Len(r.call.items)
      /\ Item(r) = r.call.items[Len(r.infos) + 1]
  BY DEF AtItem, AllAnswer, Item
<1>2. IsSeq(r.call.items)
  BY <1>1 DEF CallsOK
<1>3. Len(r.infos) + 1 \in 1 .. Len(r.call.items)
  BY <1>1, <1>2 DEF IsSeq
<1>4. IsSeq(Item(r).types)
  BY <1>1, <1>3 DEF CallsOK
<1> QED
  BY <1>4 DEF IsSeq

LEMMA EnterShape ==
  ASSUME NEW r, NEW k \in 1 .. Len(Item(r).types), AtItem(r, k - 1)
  PROVE  Shape(EnterType(r, k))
<1> DEFINE e == EnterType(r, k)
<1>1. /\ DOMAIN e = Fields /\ e.pc = "white" /\ e.k = k
      /\ e.call = r.call /\ e.infos = r.infos /\ e.status = r.status
      /\ e.entries = r.entries
  BY DEF AtItem, EnterType, Fields
<1> HIDE DEF e
<1>2. Item(e) = Item(r)
  BY <1>1 DEF Item
<1>3. AtItem(e, k - 1)
  BY <1>1, <1>2 DEF AtItem, AllAnswer, TooLong
<1> QED
  BY <1>1, <1>2, <1>3 DEF Shape, e

\* An item that has been through all its types is pushed on the reply.
LEMMA EndShape ==
  ASSUME CallsOK, NEW r, NEW status, AtItem(r, Len(Item(r).types)),
         status = "OK" => r.entries # <<>>, status = "ERROR" => r.entries = <<>>
  PROVE  Shape(EndItem(r, status))
<1> DEFINE n == Len(r.infos)
           info == [uid |-> Item(r).uid, status |-> status, entries |-> r.entries]
           e == EndItem(r, status)
<1>1. /\ r.call \in Calls /\ IsSeq(r.infos) /\ n \in Nat
      /\ IsSeq(r.call.items) /\ Len(r.call.items) \in Nat /\ n < Len(r.call.items)
      /\ Item(r) = r.call.items[n + 1]
  BY DEF AtItem, AllAnswer, CallsOK, Item, IsSeq
<1>2. /\ DOMAIN e = Fields /\ e.call = r.call /\ e.status = r.status
      /\ e.infos = Append(r.infos, info) /\ e.entries = <<>>
      /\ e.pc = IF n + 1 = Len(r.call.items) THEN "answered" ELSE "item"
  BY DEF AtItem, EndItem, Fields
<1>3. Answers(info, Item(r))
  <2>1. IsSeq(Item(r).types)
    BY <1>1 DEF CallsOK
  <2>2. InOrder(r.entries, Item(r).types)
    BY <2>1, OrderedInOrder DEF AtItem
  <2> QED
    BY <2>2 DEF Answers
<1> HIDE DEF info, e
<1>4. /\ IsSeq(e.infos) /\ Len(e.infos) = n + 1 /\ e.infos[n + 1] = info
      /\ \A i \in 1 .. n : e.infos[i] = r.infos[i]
  BY <1>1, <1>2, AppendAny
<1>5. AllAnswer(e)
  <2>1. \A i \in 1 .. n + 1 : i = n + 1 \/ i \in 1 .. n
    BY <1>1
  <2>2. \A i \in 1 .. n : Answers(r.infos[i], r.call.items[i])
    BY DEF AtItem, AllAnswer
  <2>3. Answers(e.infos[n + 1], e.call.items[n + 1])
    BY <1>1, <1>2, <1>3, <1>4
  <2>4. \A i \in 1 .. n + 1 : Answers(e.infos[i], e.call.items[i])
    BY <1>2, <1>4, <2>1, <2>2, <2>3
  <2> QED
    BY <1>1, <1>2, <1>4, <2>4 DEF AllAnswer
<1>6. e.status = "OK" /\ ~TooLong(e.call)
  BY <1>2 DEF AtItem
<1>7. CASE n + 1 = Len(r.call.items)
  <2>1. e.pc = "answered" /\ Len(e.infos) = Len(e.call.items)
    BY <1>2, <1>4, <1>7
  <2>2. Shape(e)
    BY <1>2, <1>5, <1>6, <2>1 DEF Shape, Dyeing
  <2> QED
    BY <2>2 DEF e
<1>8. CASE n + 1 # Len(r.call.items)
  <2>1. e.pc = "item" /\ Len(e.infos) < Len(e.call.items)
    BY <1>1, <1>2, <1>4, <1>8
  <2>2. AtItem(e, 0)
    BY <1>2, <1>5, <1>6, <2>1, NothingOrdered DEF AtItem
  <2>3. Shape(e)
    BY <1>2, <2>1, <2>2 DEF Shape, Dyeing
  <2> QED
    BY <2>3 DEF e
<1> QED
  BY <1>7, <1>8

LEMMA NextTypeShape ==
  ASSUME CallsOK, NEW r, r.k \in 1 .. Len(Item(r).types), AtItem(r, r.k)
  PROVE  Shape(NextType(r))
<1>1. Len(Item(r).types) \in Nat
  BY TypesListed
<1>2. CASE r.k < Len(Item(r).types)
  <2>1. r.k + 1 \in 1 .. Len(Item(r).types) /\ AtItem(r, (r.k + 1) - 1)
    BY <1>1, <1>2
  <2> QED
    BY <1>2, <2>1, EnterShape DEF NextType
<1>3. CASE ~(r.k < Len(Item(r).types))
  <2>1. AtItem(r, Len(Item(r).types))
    <3>1. r.k = Len(Item(r).types)
      BY <1>1, <1>3
    <3> QED
      BY <3>1
  <2>2. Shape(EndItem(r, StatusOf(r.entries)))
    BY <2>1, EndShape DEF StatusOf
  <2> QED
    BY <1>3, <2>2 DEF NextType
<1> QED
  BY <1>2, <1>3

\* onDyeing adds an entry for its type, or none.
LEMMA AddShape ==
  ASSUME CallsOK, NEW r, NEW source, NEW version,
         r.k \in 1 .. Len(Item(r).types), AtItem(r, r.k - 1)
  PROVE  Shape(NextType(AddEntry(r, source, version))) /\ Shape(NextType(r))
<1>1. Len(Item(r).types) \in Nat
  BY TypesListed
<1>2. Shape(NextType(r))
  <2>1. Ordered(r.entries, Item(r).types, r.k)
    BY <1>1, OrderedMore DEF AtItem
  <2> QED
    BY <2>1, NextTypeShape DEF AtItem
<1>3. Shape(NextType(AddEntry(r, source, version)))
  <2> DEFINE e == [type |-> Type(r), source |-> source, version |-> version]
             s == AddEntry(r, source, version)
  <2>1. /\ DOMAIN s = Fields /\ s.call = r.call /\ s.infos = r.infos
        /\ s.status = r.status /\ s.k = r.k /\ s.entries = Append(r.entries, e)
    BY DEF AtItem, AddEntry, Fields
  <2>2. e.type = Item(r).types[r.k]
    BY DEF Type
  <2> HIDE DEF e, s
  <2>3. Item(s) = Item(r)
    BY <2>1 DEF Item
  <2>4. IsSeq(s.entries)
    BY <2>1, AppendAny DEF AtItem
  <2>5. Ordered(s.entries, Item(r).types, (r.k - 1) + 1)
    <3>1. r.k - 1 \in Nat /\ (r.k - 1) + 1 = r.k
      BY <1>1
    <3>2. IsSeq(r.entries) /\ Ordered(r.entries, Item(r).types, r.k - 1)
      BY DEF AtItem
    <3> QED
      BY <2>1, <2>2, <3>1, <3>2, OrderedAdd
  <2>6. Ordered(s.entries, Item(r).types, r.k)
    <3>1. (r.k - 1) + 1 = r.k
      BY <1>1
    <3> QED
      BY <2>5, <3>1
  <2>7. AtItem(s, s.k)
    BY <2>1, <2>3, <2>4, <2>6 DEF AtItem, AllAnswer
  <2> QED
    BY <2>1, <2>3, <2>7, NextTypeShape DEF s
<1> QED
  BY <1>2, <1>3

\* A record that goes on to its next source has the same shape.
LEMMA SourceShape ==
  ASSUME NEW r, NEW s, Shape(r), Dyeing(r), Dyeing(s), DOMAIN s = Fields,
         s.call = r.call, s.infos = r.infos, s.k = r.k, s.status = r.status,
         s.entries = r.entries
  PROVE  Shape(s)
<1>1. Item(s) = Item(r)
  BY DEF Item
<1>2. AtItem(s, s.k - 1)
  BY <1>1 DEF Shape, AtItem, AllAnswer
<1> QED
  BY <1>1, <1>2 DEF Shape, Dyeing

LEMMA BecomesShape ==
  ASSUME ShapeInv, NEW w \in Workers, NEW r, Becomes(w, r), Shape(r)
  PROVE  ShapeInv'
<1>1. req' = [req EXCEPT ![w] = r]
  BY DEF Becomes
<1>2. DOMAIN req' = Workers /\ req' = [q \in Workers |-> req'[q]]
  BY <1>1 DEF ShapeInv
<1>3. ASSUME NEW q \in Workers PROVE Shape(req[q])'
  <2>1. req'[q] = IF q = w THEN r ELSE req[q]
    BY <1>1 DEF ShapeInv
  <2>2. Shape(req'[q])
    BY <2>1 DEF ShapeInv
  <2> QED
    BY <2>2 DEF Shape, AtItem, AllAnswer, Answers, InOrder, IsSeq, Ordered, TooLong, Item,
              Dyeing
<1> QED
  BY <1>2, <1>3 DEF ShapeInv

LEMMA ReceiveShape ==
  ASSUME CallsOK, NEW w \in Workers, Receive(w)
  PROVE  \E q : Becomes(w, q) /\ Shape(q)
<1>1. PICK c \in Calls :
        LET i == [Idle EXCEPT !.call = c] IN
        IF TooLong(c)
          THEN Becomes(w, [i EXCEPT !.pc = "answered", !.status = "ERROR"])
          ELSE Becomes(w, [i EXCEPT !.pc = IF c.items = <<>> THEN "answered" ELSE "item"])
  BY DEF Receive, TooLong
<1> DEFINE i  == [Idle EXCEPT !.call = c]
           s1 == [i EXCEPT !.pc = "answered", !.status = "ERROR"]
           s2 == [i EXCEPT !.pc = IF c.items = <<>> THEN "answered" ELSE "item"]
<1>2. /\ DOMAIN i = Fields /\ i.call = c /\ i.infos = <<>> /\ i.entries = <<>>
      /\ i.status = "OK"
  BY DEF Idle, Fields
<1> HIDE DEF i
<1>3. /\ DOMAIN s1 = Fields /\ s1.pc = "answered" /\ s1.status = "ERROR"
      /\ s1.call = c /\ s1.infos = <<>>
  BY <1>2 DEF Fields
<1>4. /\ DOMAIN s2 = Fields /\ s2.pc = IF c.items = <<>> THEN "answered" ELSE "item"
      /\ s2.call = c /\ s2.infos = <<>> /\ s2.entries = <<>> /\ s2.status = "OK"
  BY <1>2 DEF Fields
<1>5. \/ TooLong(c) /\ Becomes(w, s1)
      \/ ~TooLong(c) /\ Becomes(w, s2)
  BY <1>1 DEF i
<1> HIDE DEF s1, s2
<1>6. IsSeq(<<>>) /\ Len(<<>>) = 0
  BY NothingOrdered
<1>7. IsSeq(c.items) /\ (c.items = <<>> <=> Len(c.items) = 0) /\ Len(c.items) \in Nat
  <2>1. IsSeq(c.items)
    BY DEF CallsOK
  <2> QED
    BY <2>1, EmptyIs DEF IsSeq
<1>8. AllAnswer(s1) /\ AllAnswer(s2)
  BY <1>3, <1>4, <1>6 DEF AllAnswer
<1>9. TooLong(c) => Shape(s1)
  BY <1>3, <1>6, <1>8 DEF Shape, Dyeing
<1>10. ~TooLong(c) => Shape(s2)
  <2> SUFFICES ASSUME ~TooLong(c) PROVE Shape(s2)
    OBVIOUS
  <2>1. CASE c.items = <<>>
    BY <1>4, <1>6, <1>7, <1>8, <2>1 DEF Shape, Dyeing
  <2>2. CASE c.items # <<>>
    <3>1. AtItem(s2, 0)
      BY <1>4, <1>6, <1>7, <1>8, <2>2, NothingOrdered DEF AtItem
    <3> QED
      BY <1>4, <2>2, <3>1 DEF Shape, Dyeing
  <2> QED
    BY <2>1, <2>2
<1> QED
  BY <1>5, <1>9, <1>10

LEMMA ShapeNext ==
  ASSUME CallsOK, ShapeInv, [Next]_vars
  PROVE  ShapeInv'
<1>1. ASSUME UNCHANGED req PROVE ShapeInv'
  <2>1. req' = req
    BY <1>1
  <2>2. ASSUME NEW w \in Workers PROVE Shape(req[w])'
    <3>1. Shape(req'[w])
      BY <2>1 DEF ShapeInv
    <3> QED
      BY <3>1 DEF Shape, AtItem, AllAnswer, Answers, InOrder, IsSeq, Ordered, TooLong, Item,
                Dyeing
  <2> QED
    BY <2>1, <2>2 DEF ShapeInv
<1>2. CASE FlushWhite \/ FlushOnline \/ FlushFreshUser \/ FlushPushUser \/ UNCHANGED vars
  <2>1. UNCHANGED req
    BY <1>2 DEF FlushWhite, FlushOnline, FlushFreshUser, FlushPushUser, vars
  <2> QED
    BY <1>1, <2>1
<1>3. ASSUME NEW u \in Uids, Learn(u) \/ Forget(u) PROVE ShapeInv'
  <2>1. DOMAIN req' = Workers /\ req' = [w \in Workers |-> req'[w]]
    BY <1>3 DEF Learn, Forget
  <2>2. ASSUME NEW w \in Workers PROVE Shape(req[w])'
    <3> DEFINE r == req[w]
               s == req'[w]
    <3>1. DOMAIN r = Fields /\ Shape(r)
      BY DEF ShapeInv, Shape
    <3>2. /\ DOMAIN s = Fields
          /\ s.pc = r.pc /\ s.call = r.call /\ s.infos = r.infos /\ s.k = r.k
          /\ s.status = r.status /\ s.entries = r.entries
      BY <1>3, <3>1 DEF Learn, Forget, Fields
    <3> HIDE DEF r, s
    <3>3. Shape(s)
      <4>1. Item(s) = Item(r) /\ Dyeing(s) = Dyeing(r) /\ AllAnswer(s) = AllAnswer(r)
        BY <3>2 DEF Item, Dyeing, AllAnswer
      <4>2. \A n : AtItem(r, n) => AtItem(s, n)
        BY <3>2, <4>1 DEF AtItem
      <4> QED
        BY <3>1, <3>2, <4>1, <4>2 DEF Shape
    <3> QED
      BY <3>3 DEF s, Shape, AtItem, AllAnswer, Answers, InOrder, IsSeq, Ordered, TooLong,
                  Item, Dyeing
  <2> QED
    BY <2>1, <2>2 DEF ShapeInv
<1>4. ASSUME NEW w \in Workers, Receive(w) \/ Serve(w) \/ Fault(w) PROVE ShapeInv'
  <2> DEFINE r == req[w]
  <2>1. Shape(r) /\ DOMAIN r = Fields
    BY DEF ShapeInv, Shape
  <2>2. Dyeing(r) => AtItem(r, r.k - 1) /\ r.k \in 1 .. Len(Item(r).types)
    BY <2>1 DEF Shape
  <2>3. ASSUME NEW q, Becomes(w, q), Shape(q) PROVE ShapeInv'
    BY <2>3, BecomesShape
  <2>4. CASE Receive(w)
    BY <2>3, <2>4, ReceiveShape
  <2>5. CASE BeginItem(w)
    <3>1. AtItem(r, 0) /\ r.entries = <<>>
      BY <2>1, <2>5 DEF BeginItem, Shape
    <3>2. IsSeq(Item(r).types)
      BY <3>1, TypesListed
    <3>3. CASE Item(r).types = <<>>
      <4>1. Len(Item(r).types) = 0
        BY <3>2, <3>3, EmptyIs
      <4>2. Shape(EndItem(r, "ERROR"))
        BY <3>1, <4>1, EndShape
      <4> QED
        BY <2>3, <2>5, <3>3, <4>2 DEF BeginItem
    <3>4. CASE Item(r).types # <<>>
      <4>1. 1 \in 1 .. Len(Item(r).types)
        BY <3>2, <3>4, EmptyIs DEF IsSeq
      <4>2. Shape(EnterType(r, 1))
        BY <3>1, <4>1, EnterShape
      <4> QED
        BY <2>3, <2>5, <3>4, <4>2 DEF BeginItem
    <3> QED
      BY <3>3, <3>4
  <2>6. CASE HandleWhiteList(w) \/ HandlePushUser(w) \/ LookupSnapshot(w) \/ LookupQueue(w)
    <3>1. Dyeing(r)
      BY <2>6 DEF HandleWhiteList, HandlePushUser, LookupSnapshot, LookupQueue, Dyeing
    <3>2. Shape(NextType(AddEntry(r, "white", Len(white))))
      BY <2>2, <3>1, AddShape
    <3>3. ASSUME NEW p \in {"push", "fresh", "queue", "online"}
          PROVE  Shape([r EXCEPT !.pc = p])
      <4> DEFINE s == [r EXCEPT !.pc = p]
      <4>1. /\ DOMAIN s = Fields /\ s.pc = p /\ s.call = r.call /\ s.infos = r.infos
            /\ s.k = r.k /\ s.status = r.status /\ s.entries = r.entries
        BY <2>1 DEF Fields
      <4> HIDE DEF s
      <4>2. Dyeing(s)
        BY <4>1 DEF Dyeing
      <4>3. Shape(s)
        BY <2>1, <3>1, <4>1, <4>2, SourceShape
      <4> QED
        BY <4>3 DEF s
    <3>4. ASSUME NEW x PROVE Shape([r EXCEPT !.pc = "online", !.product = x])
      <4> DEFINE s == [r EXCEPT !.pc = "online", !.product = x]
      <4>1. /\ DOMAIN s = Fields /\ s.pc = "online" /\ s.call = r.call /\ s.infos = r.infos
            /\ s.k = r.k /\ s.status = r.status /\ s.entries = r.entries
        BY <2>1 DEF Fields
      <4> HIDE DEF s
      <4>2. Dyeing(s)
        BY <4>1 DEF Dyeing
      <4>3. Shape(s)
        BY <2>1, <3>1, <4>1, <4>2, SourceShape
      <4> QED
        BY <4>3 DEF s
    <3>5. PICK q : Becomes(w, q) /\ Shape(q)
      <4>1. CASE HandleWhiteList(w)
        BY <3>2, <3>3, <4>1 DEF HandleWhiteList
      <4>2. CASE HandlePushUser(w)
        BY <3>3, <3>4, <4>2 DEF HandlePushUser
      <4>3. CASE LookupSnapshot(w)
        BY <3>3, <3>4, <4>3 DEF LookupSnapshot
      <4>4. CASE LookupQueue(w)
        BY <3>4, <4>4 DEF LookupQueue
      <4> QED
        BY <2>6, <4>1, <4>2, <4>3, <4>4
    <3> QED
      BY <2>3, <3>5
  <2>7. CASE HandleOnlineHash(w)
    <3>1. Dyeing(r)
      BY <2>7 DEF HandleOnlineHash, Dyeing
    <3>2. /\ Shape(NextType(AddEntry(r, r.product, Len(online))))
          /\ Shape(NextType(AddEntry(r, "default", Len(online))))
          /\ Shape(NextType(r))
      BY <2>2, <3>1, AddShape
    <3>3. PICK q : Becomes(w, q) /\ Shape(q)
      BY <2>7, <3>2 DEF HandleOnlineHash
    <3> QED
      BY <2>3, <3>3
  <2>8. CASE Fault(w)
    <3>1. AtItem(r, r.k - 1) /\ r.k \in 1 .. Len(Item(r).types)
      BY <2>2, <2>8 DEF Fault
    <3>2. Len(Item(r).types) \in Nat
      BY <3>1, TypesListed
    <3>3. AtItem(r, Len(Item(r).types))
      BY <3>1, <3>2, OrderedMore DEF AtItem
    <3>4. Shape(EndItem(r, "FAULT"))
      BY <3>3, EndShape
    <3> QED
      BY <2>3, <2>8, <3>4 DEF Fault
  <2>9. CASE Answer(w)
    <3>1. Shape(Idle)
      BY DEF Shape, Idle, Dyeing, Fields
    <3> QED
      BY <2>3, <2>9, <3>1 DEF Answer
  <2> QED
    BY <1>4, <2>4, <2>5, <2>6, <2>7, <2>8, <2>9 DEF Serve
<1> QED
  BY <1>2, <1>3, <1>4 DEF Next

-----------------------------------------------------------------------------
(* The entries of a call, and the versions they carry.                     *)

\* What an entry records, when the white list has come to version m and the online
\* policy to version n.
Stamped(e, m, n) ==
  /\ e.type \in Types /\ e.source \in Sources
  /\ e.version \in Nat /\ e.version <= IF e.source = "white" THEN m ELSE n

\* The entries are in the order of their versions: VersionsMonotone, of one call.
Monotone(r) ==
  \A h, i \in 1 .. Len(r.infos) + 1 :
    \A j \in 1 .. Len(EntriesAt(r, h)), k \in 1 .. Len(EntriesAt(r, i)) :
      MadeInOrder(h, j, i, k)
        /\ (EntriesAt(r, h)[j].source = "white" <=> EntriesAt(r, i)[k].source = "white")
        => EntriesAt(r, h)[j].version <= EntriesAt(r, i)[k].version

Recorded(r, m, n) ==
  /\ IsSeq(r.infos)
  /\ \A i \in 1 .. Len(r.infos) : r.infos[i].uid \in Uids /\ r.infos[i].status \in Statuses
  /\ \A i \in 1 .. Len(r.infos) + 1 :
       /\ IsSeq(EntriesAt(r, i))
       /\ \A j \in 1 .. Len(EntriesAt(r, i)) : Stamped(EntriesAt(r, i)[j], m, n)
  /\ Monotone(r)

\* Which source a request is at, and which product it was given.
Placed(r) ==
  /\ r.pc \in {"idle", "item", "white", "push", "fresh", "queue", "online", "answered"}
  /\ r.status \in {"OK", "ERROR"}
  /\ r.pc = "online" <=> r.product # "none"

LEMMA SameRecorded ==
  ASSUME NEW r, NEW s, NEW m, NEW n, Recorded(r, m, n),
         s.infos = r.infos, s.entries = r.entries
  PROVE  Recorded(s, m, n)
<1>1. \A i : EntriesAt(s, i) = EntriesAt(r, i)
  BY DEF EntriesAt
<1> QED
  BY <1>1 DEF Recorded, Monotone

LEMMA LaterRecorded ==
  ASSUME NEW r, NEW m \in Nat, NEW n \in Nat, NEW mm \in Nat, NEW nn \in Nat,
         m <= mm, n <= nn, Recorded(r, m, n)
  PROVE  Recorded(r, mm, nn)
<1>1. ASSUME NEW e, Stamped(e, m, n) PROVE Stamped(e, mm, nn)
  <2>1. CASE e.source = "white"
    BY <1>1, <2>1 DEF Stamped
  <2>2. CASE e.source # "white"
    BY <1>1, <2>2 DEF Stamped
  <2> QED
    BY <2>1, <2>2
<1> QED
  BY <1>1 DEF Recorded

\* A new entry carries the version its slot shows.
LEMMA AddRecorded ==
  ASSUME NEW r, NEW s, NEW m \in Nat, NEW n \in Nat, NEW e, Recorded(r, m, n),
         s.infos = r.infos, s.entries = Append(r.entries, e),
         e.type \in Types, e.source \in Sources,
         e.version = IF e.source = "white" THEN m ELSE n
  PROVE  Recorded(s, m, n)
<1> DEFINE N == Len(r.infos)
           L == Len(r.entries)
<1>1. N \in Nat /\ IsSeq(r.infos)
  BY DEF Recorded, IsSeq
<1>2. EntriesAt(r, N + 1) = r.entries /\ EntriesAt(s, N + 1) = s.entries
  BY <1>1 DEF EntriesAt
<1>3. \A i \in 1 .. N : EntriesAt(s, i) = EntriesAt(r, i)
  BY DEF EntriesAt
<1>4. N + 1 \in 1 .. N + 1 /\ \A i \in 1 .. N + 1 : i = N + 1 \/ i \in 1 .. N
  BY <1>1
<1>5. IsSeq(r.entries)
  BY <1>2, <1>4 DEF Recorded
<1>6. /\ L \in Nat /\ IsSeq(s.entries) /\ Len(s.entries) = L + 1
      /\ s.entries[L + 1] = e /\ \A j \in 1 .. L : s.entries[j] = r.entries[j]
  BY <1>5, AppendAny DEF IsSeq
<1>7. \A j \in 1 .. L + 1 : j = L + 1 \/ j \in 1 .. L
  BY <1>6
<1>8. e.version \in Nat /\ e.version <= IF e.source = "white" THEN m ELSE n
  OBVIOUS
<1>9. Stamped(e, m, n)
  BY <1>8 DEF Stamped
\* An entry of s is one of r, or the new one, which is the last.
<1>10. ASSUME NEW i \in 1 .. N + 1, NEW j \in 1 .. Len(EntriesAt(s, i))
       PROVE  \/ /\ j \in 1 .. Len(EntriesAt(r, i))
                 /\ EntriesAt(s, i)[j] = EntriesAt(r, i)[j]
              \/ i = N + 1 /\ j = L + 1 /\ EntriesAt(s, i)[j] = e
  <2>1. CASE i \in 1 .. N
    BY <1>3, <2>1
  <2>2. CASE i = N + 1
    BY <1>2, <1>6, <1>7, <2>2
  <2> QED
    BY <1>4, <2>1, <2>2
<1>11. ASSUME NEW i \in 1 .. N + 1, NEW j \in 1 .. Len(EntriesAt(r, i))
       PROVE  Stamped(EntriesAt(r, i)[j], m, n)
  BY DEF Recorded
<1>12. \A i \in 1 .. N + 1 : IsSeq(EntriesAt(s, i))
  BY <1>2, <1>3, <1>4, <1>6 DEF Recorded
<1>13. \A i \in 1 .. N + 1 : Len(EntriesAt(s, i)) \in Nat
  BY <1>12 DEF IsSeq
<1>14. ASSUME NEW i \in 1 .. N + 1, NEW j \in 1 .. Len(EntriesAt(s, i))
       PROVE  Stamped(EntriesAt(s, i)[j], m, n)
  BY <1>9, <1>10, <1>11
<1>15. ASSUME NEW h \in 1 .. N + 1, NEW i \in 1 .. N + 1,
              NEW j \in 1 .. Len(EntriesAt(s, h)), NEW k \in 1 .. Len(EntriesAt(s, i)),
              MadeInOrder(h, j, i, k),
              EntriesAt(s, h)[j].source = "white" <=> EntriesAt(s, i)[k].source = "white"
       PROVE  EntriesAt(s, h)[j].version <= EntriesAt(s, i)[k].version
  <2> DEFINE d == EntriesAt(s, h)[j]
             f == EntriesAt(s, i)[k]
  <2>1. CASE k \in 1 .. Len(EntriesAt(r, i)) /\ f = EntriesAt(r, i)[k]
    <3>1. ~(h = N + 1 /\ j = L + 1)
      <4> SUFFICES ASSUME h = N + 1, j = L + 1 PROVE FALSE
        OBVIOUS
      <4>1. ~(h < i)
        BY <1>1
      <4>2. i = N + 1 /\ L + 1 < k
        BY <1>15, <4>1 DEF MadeInOrder
      <4>3. k \in 1 .. L
        BY <1>2, <2>1, <4>2
      <4> QED
        BY <1>6, <4>2, <4>3
    <3>2. j \in 1 .. Len(EntriesAt(r, h)) /\ d = EntriesAt(r, h)[j]
      BY <1>10, <3>1
    <3> QED
      BY <1>15, <2>1, <3>2 DEF Recorded, Monotone
  <2>2. CASE f = e
    <3>1. Stamped(d, m, n)
      BY <1>14
    <3>2. d.source = "white" <=> e.source = "white"
      BY <1>15, <2>2
    <3>3. (IF d.source = "white" THEN m ELSE n) = e.version
      BY <3>2
    <3> QED
      BY <2>2, <3>1, <3>3 DEF Stamped
  <2> QED
    BY <1>10, <2>1, <2>2
<1>16. Monotone(s)
  BY <1>15 DEF Monotone
<1> QED
  BY <1>12, <1>14, <1>16 DEF Recorded

\* A finished item takes its entries with it, and the next has none.
LEMMA EndRecorded ==
  ASSUME NEW r, NEW s, NEW m, NEW n, NEW info, Recorded(r, m, n),
         s.infos = Append(r.infos, info), s.entries = <<>>,
         info.uid \in Uids, info.status \in Statuses, info.entries = r.entries
  PROVE  Recorded(s, m, n)
<1> DEFINE N == Len(r.infos)
<1>1. N \in Nat /\ IsSeq(r.infos)
  BY DEF Recorded, IsSeq
<1>2. /\ IsSeq(s.infos) /\ Len(s.infos) = N + 1 /\ s.infos[N + 1] = info
      /\ \A i \in 1 .. N : s.infos[i] = r.infos[i]
  BY <1>1, AppendAny
<1>3. /\ \A i \in 1 .. N + 1 : i = N + 1 \/ i \in 1 .. N
      /\ \A i \in 1 .. (N + 1) + 1 : i = N + 2 \/ i \in 1 .. N + 1
  BY <1>1
<1>4. \A i \in 1 .. N + 1 : s.infos[i].uid \in Uids /\ s.infos[i].status \in Statuses
  <2>1. \A i \in 1 .. N : r.infos[i].uid \in Uids /\ r.infos[i].status \in Statuses
    BY DEF Recorded
  <2> QED
    BY <1>2, <1>3, <2>1
<1>5. \A i \in 1 .. N + 1 : EntriesAt(s, i) = EntriesAt(r, i)
  <2>1. \A i \in 1 .. N : EntriesAt(s, i) = EntriesAt(r, i)
    <3> TAKE i \in 1 .. N
    <3>1. i <= N /\ i <= N + 1
      BY <1>1
    <3> QED
      BY <1>2, <3>1 DEF EntriesAt
  <2>2. EntriesAt(s, N + 1) = r.entries
    BY <1>1, <1>2 DEF EntriesAt
  <2>3. EntriesAt(r, N + 1) = r.entries
    BY <1>1 DEF EntriesAt
  <2> QED
    BY <1>3, <2>1, <2>2, <2>3
<1>6. EntriesAt(s, N + 2) = <<>>
  BY <1>1, <1>2 DEF EntriesAt
<1>7. IsSeq(<<>>) /\ Len(<<>>) = 0
  BY NothingOrdered
<1>8. \A j \in 1 .. Len(EntriesAt(s, N + 2)) : FALSE
  <2>1. Len(EntriesAt(s, N + 2)) = 0
    BY <1>6, <1>7
  <2> QED
    BY <2>1
<1>9. \A i \in 1 .. (N + 1) + 1 :
        /\ IsSeq(EntriesAt(s, i))
        /\ \A j \in 1 .. Len(EntriesAt(s, i)) :
             /\ i \in 1 .. N + 1
             /\ j \in 1 .. Len(EntriesAt(r, i))
             /\ EntriesAt(s, i)[j] = EntriesAt(r, i)[j]
             /\ Stamped(EntriesAt(s, i)[j], m, n)
  <2> TAKE i \in 1 .. (N + 1) + 1
  <2>1. CASE i = N + 2
    <3>1. IsSeq(EntriesAt(s, i))
      BY <1>6, <1>7, <2>1
    <3> QED
      BY <1>8, <2>1, <3>1
  <2>2. CASE i \in 1 .. N + 1
    <3>1. EntriesAt(s, i) = EntriesAt(r, i)
      BY <1>5, <2>2
    <3> QED
      BY <2>2, <3>1 DEF Recorded
  <2> QED
    BY <1>3, <2>1, <2>2
<1>10. Monotone(s)
  <2> SUFFICES ASSUME NEW h \in 1 .. (N + 1) + 1, NEW i \in 1 .. (N + 1) + 1,
                      NEW j \in 1 .. Len(EntriesAt(s, h)),
                      NEW k \in 1 .. Len(EntriesAt(s, i)),
                      MadeInOrder(h, j, i, k),
                      EntriesAt(s, h)[j].source = "white"
                        <=> EntriesAt(s, i)[k].source = "white"
               PROVE  EntriesAt(s, h)[j].version <= EntriesAt(s, i)[k].version
    BY <1>2 DEF Monotone
  <2>1. /\ h \in 1 .. N + 1 /\ j \in 1 .. Len(EntriesAt(r, h))
        /\ EntriesAt(s, h)[j] = EntriesAt(r, h)[j]
    BY <1>9
  <2>2. /\ i \in 1 .. N + 1 /\ k \in 1 .. Len(EntriesAt(r, i))
        /\ EntriesAt(s, i)[k] = EntriesAt(r, i)[k]
    BY <1>9
  <2> QED
    BY <2>1, <2>2 DEF Recorded, Monotone
<1> QED
  BY <1>2, <1>4, <1>9, <1>10 DEF Recorded

-----------------------------------------------------------------------------
LEMMA CallsAreOK ==
  /\ CallsOK
  /\ \A c \in Calls : \A i \in 1 .. Len(c.items) :
       /\ c.items[i].uid \in Uids
       /\ \A k \in 1 .. Len(c.items[i].types) : c.items[i].types[k] \in Types
<1> DEFINE I == [uid : Uids, app : STRING, types : Seq(Types)]
<1>1. \A i \in I : i.uid \in Uids /\ i.types \in Seq(Types)
  OBVIOUS
<1>2. Calls \subseteq [batch : BOOLEAN, items : Seq(I)]
  BY CallAssumption
<1> HIDE DEF I
<1>3. ASSUME NEW c \in Calls PROVE c.items \in Seq(I) /\ c.batch \in BOOLEAN
  <2>1. c \in [batch : BOOLEAN, items : Seq(I)]
    BY <1>2
  <2>2. c.items \in Seq(I)
    BY <2>1
  <2>3. c.batch \in BOOLEAN
    BY <2>1, Zenon
  <2> QED
    BY <2>2, <2>3
<1>4. ASSUME NEW c \in Calls, NEW i \in 1 .. Len(c.items) PROVE c.items[i] \in I
  BY <1>3
<1>5. ASSUME NEW c \in Calls, NEW i \in 1 .. Len(c.items)
      PROVE  /\ c.items[i].uid \in Uids /\ IsSeq(c.items[i].types)
             /\ \A k \in 1 .. Len(c.items[i].types) : c.items[i].types[k] \in Types
  <2>1. c.items[i].uid \in Uids /\ c.items[i].types \in Seq(Types)
    BY <1>1, <1>4
  <2> QED
    BY <2>1, SeqIs
<1>6. \A c \in Calls : IsSeq(c.items)
  BY <1>3, SeqIs
<1> QED
  BY <1>3, <1>5, <1>6 DEF CallsOK

\* The item a request is at is one of its call's.
LEMMA ItemTyped ==
  ASSUME NEW r, NEW n, AtItem(r, n)
  PROVE  /\ Item(r).uid \in Uids
         /\ \A k \in 1 .. Len(Item(r).types) : Item(r).types[k] \in Types
<1>1. /\ r.call \in Calls /\ IsSeq(r.infos) /\ Len(r.infos) < Len(r.call.items)
      /\ Item(r) = r.call.items[Len(r.infos) + 1]
  BY DEF AtItem, AllAnswer, Item
<1>2. IsSeq(r.call.items)
  BY <1>1, CallsAreOK DEF CallsOK
<1>3. Len(r.infos) + 1 \in 1 .. Len(r.call.items)
  BY <1>1, <1>2 DEF IsSeq
<1> QED
  BY <1>1, <1>3, CallsAreOK

\* The call goes to its next type, or its next item.
Written(r, m, n) == DOMAIN r = Fields /\ Recorded(r, m, n) /\ Placed(r)

LEMMA EnterWritten ==
  ASSUME NEW r, NEW k, NEW m, NEW n, DOMAIN r = Fields, Recorded(r, m, n),
         r.status \in {"OK", "ERROR"}
  PROVE  Written(EnterType(r, k), m, n)
<1> DEFINE e == EnterType(r, k)
<1>1. /\ DOMAIN e = Fields /\ e.infos = r.infos /\ e.entries = r.entries
      /\ e.pc = "white" /\ e.product = "none" /\ e.status = r.status
  BY DEF EnterType, Fields
<1> HIDE DEF e
<1>2. Recorded(e, m, n)
  BY <1>1, SameRecorded
<1>3. Placed(e)
  BY <1>1 DEF Placed
<1> QED
  BY <1>1, <1>2, <1>3 DEF Written, e

LEMMA EndWritten ==
  ASSUME NEW r, NEW status \in Statuses, NEW m, NEW n, DOMAIN r = Fields,
         Recorded(r, m, n), Item(r).uid \in Uids, r.status \in {"OK", "ERROR"}
  PROVE  Written(EndItem(r, status), m, n)
<1> DEFINE info == [uid |-> Item(r).uid, status |-> status, entries |-> r.entries]
           e == EndItem(r, status)
<1>1. /\ DOMAIN e = Fields /\ e.infos = Append(r.infos, info) /\ e.entries = <<>>
      /\ e.pc \in {"answered", "item"} /\ e.product = "none" /\ e.status = r.status
  BY DEF EndItem, Fields
<1>2. info.uid \in Uids /\ info.status \in Statuses /\ info.entries = r.entries
  OBVIOUS
<1> HIDE DEF e, info
<1>3. Recorded(e, m, n)
  BY <1>1, <1>2, EndRecorded
<1>4. Placed(e)
  BY <1>1 DEF Placed
<1> QED
  BY <1>1, <1>3, <1>4 DEF Written, e

LEMMA NextWritten ==
  ASSUME NEW r, NEW m, NEW n, DOMAIN r = Fields, Recorded(r, m, n),
         Item(r).uid \in Uids, r.status \in {"OK", "ERROR"}
  PROVE  Written(NextType(r), m, n)
<1>1. StatusOf(r.entries) \in Statuses
  BY DEF StatusOf, Statuses
<1> QED
  BY <1>1, EnterWritten, EndWritten DEF NextType

LEMMA AddWritten ==
  ASSUME NEW r, NEW source \in Sources, NEW m \in Nat, NEW n \in Nat, NEW version,
         DOMAIN r = Fields, Recorded(r, m, n), r.status \in {"OK", "ERROR"},
         Item(r).uid \in Uids, Type(r) \in Types,
         version = IF source = "white" THEN m ELSE n
  PROVE  Written(NextType(AddEntry(r, source, version)), m, n)
<1> DEFINE e == [type |-> Type(r), source |-> source, version |-> version]
           s == AddEntry(r, source, version)
<1>1. /\ DOMAIN s = Fields /\ s.infos = r.infos /\ s.entries = Append(r.entries, e)
      /\ s.status = r.status /\ s.call = r.call
  BY DEF AddEntry, Fields
<1>2. /\ e.type \in Types /\ e.source \in Sources
      /\ e.version = IF e.source = "white" THEN m ELSE n
  OBVIOUS
<1> HIDE DEF e, s
<1>3. Recorded(s, m, n)
  BY <1>1, <1>2, AddRecorded
<1>4. Item(s) = Item(r)
  BY <1>1 DEF Item
<1>5. Written(NextType(s), m, n)
  BY <1>1, <1>3, <1>4, NextWritten
<1> QED
  BY <1>5 DEF s

-----------------------------------------------------------------------------
RecordInv ==
  /\ online \in Seq(Policies) /\ Len(online) >= 1
  /\ newUsers \subseteq Uids
  /\ policyPc \in {"white", "online"} /\ freshPc \in {"fresh", "push"}
  /\ \A w \in Workers : Written(req[w], Len(white), Len(online))

LEMMA IdleWritten == ASSUME NEW m, NEW n PROVE Written(Idle, m, n)
<1>1. /\ DOMAIN Idle = Fields /\ Idle.infos = <<>> /\ Idle.entries = <<>>
      /\ Idle.pc = "idle" /\ Idle.status = "OK" /\ Idle.product = "none"
  BY DEF Idle, Fields
<1>2. ASSUME NEW r, r.infos = <<>>, r.entries = <<>> PROVE Recorded(r, m, n)
  <2>1. IsSeq(<<>>) /\ Len(<<>>) = 0
    BY NothingOrdered
  <2>2. Len(r.infos) = 0
    BY <1>2, <2>1
  <2>3. \A i \in 1 .. 0 + 1 : EntriesAt(r, i) = <<>>
    BY <1>2, <2>2 DEF EntriesAt
  <2>4. \A i \in 1 .. 0 + 1 : IsSeq(EntriesAt(r, i)) /\ Len(EntriesAt(r, i)) = 0
    BY <2>1, <2>3
  <2>5. IsSeq(r.infos)
    BY <1>2, <2>1
  <2>6. Monotone(r)
    BY <2>2, <2>4 DEF Monotone
  <2>7. \A i \in 1 .. 0 : FALSE
    OBVIOUS
  <2> QED
    BY <2>2, <2>4, <2>5, <2>6, <2>7 DEF Recorded
<1>3. Recorded(Idle, m, n)
  BY <1>1, <1>2
<1> QED
  BY <1>1, <1>3 DEF Written, Placed

LEMMA ReceiveWritten ==
  ASSUME NEW w \in Workers, NEW m, NEW n, Receive(w)
  PROVE  \E q : Becomes(w, q) /\ Written(q, m, n)
<1>1. PICK c \in Calls :
        LET i == [Idle EXCEPT !.call = c] IN
        \/ Becomes(w, [i EXCEPT !.pc = "answered", !.status = "ERROR"])
        \/ Becomes(w, [i EXCEPT !.pc = IF c.items = <<>> THEN "answered" ELSE "item"])
  BY DEF Receive
<1> DEFINE i  == [Idle EXCEPT !.call = c]
           s1 == [i EXCEPT !.pc = "answered", !.status = "ERROR"]
           s2 == [i EXCEPT !.pc = IF c.items = <<>> THEN "answered" ELSE "item"]
<1>2. /\ DOMAIN i = Fields /\ i.infos = Idle.infos /\ i.entries = Idle.entries
      /\ i.status = "OK" /\ i.product = "none"
  BY DEF Idle, Fields
<1> HIDE DEF i
<1>3. /\ DOMAIN s1 = Fields /\ s1.pc = "answered" /\ s1.status = "ERROR"
      /\ s1.infos = Idle.infos /\ s1.entries = Idle.entries /\ s1.product = "none"
  BY <1>2 DEF Fields
<1>4. /\ DOMAIN s2 = Fields /\ s2.pc \in {"answered", "item"} /\ s2.status = "OK"
      /\ s2.infos = Idle.infos /\ s2.entries = Idle.entries /\ s2.product = "none"
  BY <1>2 DEF Fields
<1>5. Becomes(w, s1) \/ Becomes(w, s2)
  BY <1>1 DEF i
<1> HIDE DEF s1, s2
<1>6. Recorded(Idle, m, n)
  BY IdleWritten DEF Written
<1>7. Written(s1, m, n)
  BY <1>3, <1>6, SameRecorded DEF Written, Placed
<1>8. Written(s2, m, n)
  BY <1>4, <1>6, SameRecorded DEF Written, Placed
<1> QED
  BY <1>5, <1>7, <1>8

\* What a request thread does next.
LEMMA ServeWritten ==
  ASSUME Inv, ShapeInv, RecordInv, NEW w \in Workers, Serve(w) \/ Fault(w)
  PROVE  \E q : Becomes(w, q) /\ Written(q, Len(white), Len(online))
<1> DEFINE r == req[w]
           m == Len(white)
           n == Len(online)
<1>1. /\ DOMAIN r = Fields /\ Recorded(r, m, n) /\ Placed(r) /\ r.status \in {"OK", "ERROR"}
      /\ Shape(r) /\ Good(r)
  BY DEF RecordInv, Written, Placed, Inv, ShapeInv
<1>2. m \in Nat /\ n \in Nat
  BY DEF Inv, SlotsOK, RecordInv
<1>3. Dyeing(r) => AtItem(r, r.k - 1) /\ r.k \in 1 .. Len(Item(r).types)
  BY <1>1 DEF Shape
<1>4. Dyeing(r) => Item(r).uid \in Uids /\ Type(r) \in Types
  BY <1>3, ItemTyped DEF Type
<1> HIDE DEF m, n
<1>5. CASE BeginItem(w)
  <2>1. Item(r).uid \in Uids
    BY <1>1, <1>5, ItemTyped DEF BeginItem, Shape
  <2>2. "ERROR" \in Statuses
    BY DEF Statuses
  <2>3. Written(EndItem(r, "ERROR"), m, n)
    BY <1>1, <2>1, <2>2, EndWritten
  <2>4. Written(EnterType(r, 1), m, n)
    BY <1>1, EnterWritten
  <2> QED
    BY <1>5, <2>3, <2>4 DEF BeginItem, m, n
<1>6. CASE HandleWhiteList(w) \/ HandlePushUser(w) \/ LookupSnapshot(w) \/ LookupQueue(w)
  <2>1. Dyeing(r) /\ r.pc \in {"white", "push", "fresh", "queue"}
    BY <1>6 DEF HandleWhiteList, HandlePushUser, LookupSnapshot, LookupQueue, Dyeing
  <2>2. ASSUME NEW p \in {"push", "fresh", "queue"}
        PROVE  Written([r EXCEPT !.pc = p], m, n)
    <3> DEFINE s == [r EXCEPT !.pc = p]
    <3>1. /\ DOMAIN s = Fields /\ s.pc = p /\ s.infos = r.infos /\ s.entries = r.entries
          /\ s.status = r.status /\ s.product = r.product
      BY <1>1 DEF Fields
    <3>2. r.product = "none"
      BY <1>1, <2>1 DEF Placed
    <3> HIDE DEF s
    <3>3. Recorded(s, m, n)
      BY <1>1, <3>1, SameRecorded
    <3>4. Placed(s)
      BY <1>1, <3>1, <3>2 DEF Placed
    <3> QED
      BY <3>1, <3>3, <3>4 DEF Written, s
  <2>3. ASSUME NEW x, x # "none"
        PROVE  Written([r EXCEPT !.pc = "online", !.product = x], m, n)
    <3> DEFINE s == [r EXCEPT !.pc = "online", !.product = x]
    <3>1. /\ DOMAIN s = Fields /\ s.pc = "online" /\ s.infos = r.infos
          /\ s.entries = r.entries /\ s.status = r.status /\ s.product = x
      BY <1>1 DEF Fields
    <3> HIDE DEF s
    <3>2. Recorded(s, m, n)
      BY <1>1, <3>1, SameRecorded
    <3>3. Placed(s)
      BY <1>1, <2>3, <3>1 DEF Placed
    <3> QED
      BY <3>1, <3>2, <3>3 DEF Written, s
  <2>4. \A f \in {0, 1, 2} : Product(r, f) # "none"
    BY DEF Product
  <2>5. CASE HandleWhiteList(w)
    <3>1. "white" \in Sources
      BY DEF Sources
    <3>2. Written(NextType(AddEntry(r, "white", m)), m, n)
      BY <1>1, <1>2, <1>4, <2>1, <3>1, AddWritten
    <3>3. Written(NextType(AddEntry(r, "white", Len(white))), m, n)
      BY <3>2 DEF m
    <3> QED
      BY <2>2, <2>5, <3>3 DEF HandleWhiteList, m, n
  <2>6. CASE HandlePushUser(w)
    BY <2>2, <2>3, <2>6 DEF HandlePushUser, m, n
  <2>7. CASE LookupSnapshot(w)
    <3>1. Written([r EXCEPT !.pc = "online", !.product = Product(r, 1)], m, n)
      BY <2>3, <2>4
    <3> QED
      BY <2>2, <2>7, <3>1 DEF LookupSnapshot, m, n
  <2>8. CASE LookupQueue(w)
    <3> DEFINE f == IF Item(r).uid \in newUsers THEN 2 ELSE 0
    <3>1. f \in {0, 1, 2}
      OBVIOUS
    <3>2. Becomes(w, [r EXCEPT !.pc = "online", !.product = Product(r, f)])
      BY <2>8 DEF LookupQueue
    <3> HIDE DEF f
    <3>3. Written([r EXCEPT !.pc = "online", !.product = Product(r, f)], m, n)
      BY <2>3, <2>4, <3>1
    <3> QED
      BY <3>2, <3>3 DEF m, n
  <2> QED
    BY <1>6, <2>5, <2>6, <2>7, <2>8
<1>7. CASE HandleOnlineHash(w)
  <2>1. Dyeing(r) /\ r.pc = "online"
    BY <1>7 DEF HandleOnlineHash, Dyeing
  <2>2. r.product \in {"plain", "fresh", "pushed", "new", "recurring"}
    BY <1>1, <2>1 DEF Good, Justified
  <2>3. /\ r.product \in Sources /\ r.product # "white"
        /\ "default" \in Sources
    BY <2>2 DEF Sources
  <2>4. Written(NextType(AddEntry(r, r.product, n)), m, n)
    BY <1>1, <1>2, <1>4, <2>1, <2>3, AddWritten
  <2>5. Written(NextType(AddEntry(r, "default", n)), m, n)
    BY <1>1, <1>2, <1>4, <2>1, <2>3, AddWritten
  <2>6. Written(NextType(r), m, n)
    BY <1>1, <1>4, <2>1, NextWritten
  <2> QED
    BY <1>7, <2>4, <2>5, <2>6 DEF HandleOnlineHash, m, n
<1>8. CASE Fault(w)
  <2>1. "FAULT" \in Statuses
    BY DEF Statuses
  <2>2. Written(EndItem(r, "FAULT"), m, n)
    BY <1>1, <1>4, <1>8, <2>1, EndWritten DEF Fault
  <2> QED
    BY <1>8, <2>2 DEF Fault, m, n
<1>9. CASE Answer(w)
  <2>1. Written(Idle, m, n)
    BY IdleWritten
  <2> QED
    BY <1>9, <2>1 DEF Answer, m, n
<1> QED
  BY <1>5, <1>6, <1>7, <1>8, <1>9 DEF Serve

\* Later versions of the slots leave every entry behind them.
LEMMA WrittenGrows ==
  ASSUME Inv, Inv', RecordInv, Len(white) <= Len(white'),
         online' \in Seq(Policies), Len(online) <= Len(online'),
         \A w \in Workers : Written(req'[w], Len(white), Len(online)),
         newUsers' \subseteq Uids,
         policyPc' \in {"white", "online"}, freshPc' \in {"fresh", "push"}
  PROVE  RecordInv'
<1>1. /\ Len(white) \in Nat /\ Len(white') \in Nat
      /\ Len(online) \in Nat /\ Len(online') \in Nat /\ Len(online) >= 1
  BY DEF Inv, SlotsOK, RecordInv
<1>2. ASSUME NEW w \in Workers PROVE Written(req'[w], Len(white'), Len(online'))
  BY <1>1, LaterRecorded DEF Written
<1>3. Len(online') >= 1
  BY <1>1
<1>4. ASSUME NEW w \in Workers PROVE Written(req[w], Len(white), Len(online))'
  BY <1>2 DEF Written, Recorded, Stamped, Monotone, EntriesAt, MadeInOrder, IsSeq, Placed
<1> QED
  BY <1>3, <1>4 DEF RecordInv

LEMMA RecordNext ==
  ASSUME Inv, ShapeInv, RecordInv, [Next]_vars, Inv'
  PROVE  RecordInv'
<1>1. /\ Len(white) \in Nat /\ online \in Seq(Policies) /\ Len(online) \in Nat
      /\ newUsers \subseteq Uids
      /\ policyPc \in {"white", "online"} /\ freshPc \in {"fresh", "push"}
      /\ \A w \in Workers : Written(req[w], Len(white), Len(online))
  BY DEF Inv, SlotsOK, RecordInv
<1>2. CASE FlushWhite \/ FlushOnline \/ FlushFreshUser \/ FlushPushUser \/ UNCHANGED vars
  <2>1. /\ req' = req /\ newUsers' = newUsers
        /\ policyPc' \in {"white", "online"} /\ freshPc' \in {"fresh", "push"}
    BY <1>1, <1>2 DEF FlushWhite, FlushOnline, FlushFreshUser, FlushPushUser, vars
  <2>2. white' = white \/ \E c \in WhiteLists : white' = Append(white, c)
    BY <1>2 DEF FlushWhite, FlushOnline, FlushFreshUser, FlushPushUser, Publish, vars, slots
  <2>3. Len(white) <= Len(white')
    <3>1. white \in Seq(WhiteLists)
      BY DEF Inv, SlotsOK
    <3> QED
      BY <2>2, <3>1
  <2>4. online' = online \/ \E c \in Policies : online' = Append(online, c)
    BY <1>2 DEF FlushWhite, FlushOnline, FlushFreshUser, FlushPushUser, Publish, vars, slots
  <2>5. online' \in Seq(Policies) /\ Len(online) <= Len(online')
    BY <1>1, <2>4
  <2>6. \A w \in Workers : Written(req'[w], Len(white), Len(online))
    BY <1>1, <2>1
  <2> QED
    BY <1>1, <2>1, <2>3, <2>5, <2>6, WrittenGrows
<1>3. ASSUME NEW u \in Uids, Learn(u) \/ Forget(u) PROVE RecordInv'
  <2>1. /\ white' = white /\ online' = online /\ policyPc' = policyPc /\ freshPc' = freshPc
        /\ newUsers' \subseteq Uids
    BY <1>1, <1>3 DEF Learn, Forget, slots
  <2>2. ASSUME NEW w \in Workers PROVE Written(req'[w], Len(white), Len(online))
    <3> DEFINE r == req[w]
               s == req'[w]
    <3>1. DOMAIN r = Fields /\ Recorded(r, Len(white), Len(online)) /\ Placed(r)
      BY <1>1 DEF Written
    <3>2. /\ DOMAIN s = Fields /\ s.pc = r.pc /\ s.infos = r.infos
          /\ s.status = r.status /\ s.entries = r.entries /\ s.product = r.product
      BY <1>3, <3>1 DEF Learn, Forget, Fields
    <3> HIDE DEF r, s
    <3>3. Recorded(s, Len(white), Len(online))
      BY <3>1, <3>2, SameRecorded
    <3>4. Placed(s)
      BY <3>1, <3>2 DEF Placed
    <3> QED
      BY <3>2, <3>3, <3>4 DEF Written, s
  <2> QED
    BY <1>1, <2>1, <2>2, WrittenGrows
<1>4. ASSUME NEW w \in Workers, Receive(w) \/ Serve(w) \/ Fault(w) PROVE RecordInv'
  <2>1. PICK q : Becomes(w, q) /\ Written(q, Len(white), Len(online))
    BY <1>4, ReceiveWritten, ServeWritten
  <2>2. /\ white' = white /\ online' = online /\ policyPc' = policyPc /\ freshPc' = freshPc
        /\ newUsers' = newUsers
        /\ \A v \in Workers : req'[v] = IF v = w THEN q ELSE req[v]
    BY <2>1 DEF Becomes, slots, Inv
  <2>3. \A v \in Workers : Written(req'[v], Len(white), Len(online))
    BY <1>1, <2>1, <2>2
  <2> QED
    BY <1>1, <2>2, <2>3, WrittenGrows
<1> QED
  BY <1>2, <1>3, <1>4 DEF Next

RequestInv == Inv /\ ShapeInv /\ RecordInv

LEMMA RequestInvariant == Spec => []RequestInv
<1>1. Init => RequestInv
  <2> SUFFICES ASSUME Init PROVE ShapeInv /\ RecordInv
    BY InitInv DEF RequestInv
  <2>1. Shape(Idle)
    BY DEF Shape, Idle, Dyeing, Fields
  <2>2. ShapeInv
    BY <2>1 DEF Init, ShapeInv
  <2>3. \A w \in Workers : Written(req[w], Len(white), Len(online))
    BY IdleWritten DEF Init
  <2>4. online \in Seq(Policies) /\ Len(online) >= 1
    <3>1. PICK c \in Policies : online = <<c>>
      BY DEF Init
    <3> QED
      BY <3>1
  <2> QED
    BY <2>2, <2>3, <2>4 DEF RecordInv, Init
<1>2. RequestInv /\ [Next]_vars => RequestInv'
  <2> SUFFICES ASSUME RequestInv, [Next]_vars PROVE RequestInv'
    OBVIOUS
  <2>1. Inv'
    BY NextInv DEF RequestInv
  <2>2. ShapeInv'
    BY ShapeNext, CallsAreOK DEF RequestInv
  <2>3. RecordInv'
    BY <2>1, RecordNext DEF RequestInv
  <2> QED
    BY <2>1, <2>2, <2>3 DEF RequestInv
<1> QED
  BY <1>1, <1>2, PTL DEF Spec

\* Every reply has, in order, one part for each item, and in it the entries in the
\* order of the types asked, with the status that says whether there are any:
\* for any threads, calls and batches, whatever is flushed or thrown meanwhile.
THEOREM RepliesWellShaped == Spec => []ReplyShape
<1>1. RequestInv => ReplyShape
  <2> SUFFICES ASSUME RequestInv, NEW w \in Workers, req[w].pc = "answered"
               PROVE  LET r == req[w] IN
                        /\ Len(r.infos) = IF r.status = "ERROR" THEN 0 ELSE Len(r.call.items)
                        /\ (r.status = "ERROR")
                             = (r.call.batch /\ Len(r.call.items) > MaxBatch)
                        /\ \A i \in DOMAIN r.infos :
                             /\ r.infos[i].uid = r.call.items[i].uid
                             /\ InOrder(r.infos[i].entries, r.call.items[i].types)
                             /\ r.infos[i].status = "OK" => r.infos[i].entries # <<>>
                             /\ r.infos[i].status = "ERROR" => r.infos[i].entries = <<>>
    BY DEF ReplyShape
  <2>1. /\ AllAnswer(req[w])
        /\ Len(req[w].infos) = IF req[w].status = "ERROR" THEN 0 ELSE Len(req[w].call.items)
        /\ req[w].status = "ERROR" <=> TooLong(req[w].call)
    BY DEF RequestInv, ShapeInv, Shape
  <2>2. DOMAIN req[w].infos = 1 .. Len(req[w].infos)
    BY <2>1 DEF AllAnswer, IsSeq
  <2>3. (req[w].status = "ERROR") = (req[w].call.batch /\ Len(req[w].call.items) > MaxBatch)
    BY <2>1, CallsAreOK DEF TooLong, AllAnswer, CallsOK
  <2> QED
    BY <2>1, <2>2, <2>3 DEF AllAnswer, Answers
<1> QED
  BY <1>1, RequestInvariant, PTL

\* One call never mixes an old policy in after a newer one: whatever is flushed
\* between its types and items, the entries of each slot come in the order of the
\* versions they were taken from.
THEOREM VersionsAlwaysMonotone == Spec => []VersionsMonotone
<1>1. RequestInv => VersionsMonotone
  <2> SUFFICES ASSUME RequestInv, NEW w \in Workers,
                      NEW h \in 1 .. Len(req[w].infos) + 1,
                      NEW i \in 1 .. Len(req[w].infos) + 1,
                      NEW j \in DOMAIN EntriesAt(req[w], h),
                      NEW k \in DOMAIN EntriesAt(req[w], i),
                      MadeInOrder(h, j, i, k),
                      (EntriesAt(req[w], h)[j].source = "white")
                        = (EntriesAt(req[w], i)[k].source = "white")
               PROVE  EntriesAt(req[w], h)[j].version <= EntriesAt(req[w], i)[k].version
    BY DEF VersionsMonotone
  <2>1. Recorded(req[w], Len(white), Len(online))
    BY DEF RequestInv, RecordInv, Written
  <2>2. /\ DOMAIN EntriesAt(req[w], h) = 1 .. Len(EntriesAt(req[w], h))
        /\ DOMAIN EntriesAt(req[w], i) = 1 .. Len(EntriesAt(req[w], i))
    BY <2>1 DEF Recorded, IsSeq
  <2>3. EntriesAt(req[w], h)[j].source = "white"
          <=> EntriesAt(req[w], i)[k].source = "white"
    OBVIOUS
  <2> QED
    BY <2>1, <2>2, <2>3 DEF Recorded, Monotone
<1> QED
  BY <1>1, RequestInvariant, PTL

\* A request thread is always at a place its call allows: at an item that is there,
\* a type that was asked, and with a product exactly when it goes to the buckets;
\* and what it has written so far names users, types and sources that exist.
THEOREM RequestTypes == Spec => []TypeOK
<1>1. RequestInv => TypeOK
  <2> SUFFICES ASSUME RequestInv PROVE TypeOK
    OBVIOUS
  <2>1. /\ \A i \in DOMAIN white : white[i] \in WhiteLists
        /\ \A i \in DOMAIN online : online[i] \in Policies
        /\ \A i \in DOMAIN snap : snap[i] \in Snapshots
        /\ newUsers \subseteq Uids
        /\ policyPc \in {"white", "online"} /\ freshPc \in {"fresh", "push"}
    BY DEF RequestInv, Inv, SlotsOK, RecordInv
  <2>2. \A i \in DOMAIN push : push[i] \in PushTables \cup {{}}
    <3> DEFINE P == PushTables \cup {{}}
    <3>1. push \in Seq(P)
      BY DEF RequestInv, Inv, SlotsOK
    <3> SUFFICES \A i \in DOMAIN push : push[i] \in P
      OBVIOUS
    <3> HIDE DEF P
    <3> QED
      BY <3>1
  <2>3. ASSUME NEW w \in Workers
        PROVE  LET r == req[w] IN
          /\ r.pc \in {"idle", "item", "white", "push", "fresh", "queue", "online",
                       "answered"}
          /\ r.pc # "idle" => r.call \in Calls
          /\ r.status \in {"OK", "ERROR"}
          /\ r.pc = "item" \/ Dyeing(r) => Len(r.infos) < Len(r.call.items)
          /\ Dyeing(r) => r.k \in DOMAIN Item(r).types
          /\ (r.pc = "online") = (r.product # "none")
          /\ \A i \in DOMAIN r.infos :
               /\ r.infos[i].uid \in Uids
               /\ r.infos[i].status \in Statuses
               /\ \A j \in DOMAIN r.infos[i].entries :
                    /\ r.infos[i].entries[j].type \in Types
                    /\ r.infos[i].entries[j].source \in Sources
    <3> DEFINE r == req[w]
    <3>1. Shape(r) /\ Recorded(r, Len(white), Len(online)) /\ Placed(r)
      BY DEF RequestInv, ShapeInv, RecordInv, Written
    <3> HIDE DEF r
    <3>2. /\ r.pc \in {"idle", "item", "white", "push", "fresh", "queue", "online",
                       "answered"}
          /\ r.status \in {"OK", "ERROR"}
          /\ r.pc = "online" <=> r.product # "none"
      BY <3>1 DEF Placed
    <3>3. r.pc = "item" \/ Dyeing(r) => r.call \in Calls /\ Len(r.infos) < Len(r.call.items)
      BY <3>1 DEF Shape, AtItem, AllAnswer
    <3>4. r.pc = "answered" => r.call \in Calls
      BY <3>1 DEF Shape, AllAnswer
    <3>5. r.pc # "idle" => r.call \in Calls
      BY <3>2, <3>3, <3>4 DEF Dyeing
    <3>6. Dyeing(r) => r.k \in DOMAIN Item(r).types
      <4> SUFFICES ASSUME Dyeing(r) PROVE r.k \in DOMAIN Item(r).types
        OBVIOUS
      <4>1. AtItem(r, r.k - 1) /\ r.k \in 1 .. Len(Item(r).types)
        BY <3>1 DEF Shape
      <4>2. IsSeq(Item(r).types)
        BY <4>1, TypesListed, CallsAreOK
      <4> QED
        BY <4>1, <4>2 DEF IsSeq
    <3>7. ASSUME NEW i \in DOMAIN r.infos
          PROVE  /\ r.infos[i].uid \in Uids
                 /\ r.infos[i].status \in Statuses
                 /\ \A j \in DOMAIN r.infos[i].entries :
                      /\ r.infos[i].entries[j].type \in Types
                      /\ r.infos[i].entries[j].source \in Sources
      <4>1. i \in 1 .. Len(r.infos) /\ Len(r.infos) \in Nat
        BY <3>1 DEF Recorded, IsSeq
      <4>2. i \in 1 .. Len(r.infos) + 1 /\ EntriesAt(r, i) = r.infos[i].entries
        BY <4>1 DEF EntriesAt
      <4>3. /\ IsSeq(r.infos[i].entries)
            /\ \A j \in 1 .. Len(r.infos[i].entries) :
                 Stamped(r.infos[i].entries[j], Len(white), Len(online))
        BY <3>1, <4>2 DEF Recorded
      <4>4. DOMAIN r.infos[i].entries = 1 .. Len(r.infos[i].entries)
        BY <4>3 DEF IsSeq
      <4> QED
        BY <3>1, <4>1, <4>3, <4>4 DEF Recorded, Stamped
    <3>8. (r.pc = "online") = (r.product # "none")
      BY <3>2
    <3> QED
      BY <3>2, <3>3, <3>5, <3>6, <3>7, <3>8 DEF r
  <2> QED
    BY <2>1, <2>2, <2>3 DEF TypeOK
<1> QED
  BY <1>1, RequestInvariant, PTL
=============================================================================
