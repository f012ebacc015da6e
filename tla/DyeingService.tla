---------------------------- MODULE DyeingService ----------------------------
(***************************************************************************)
(* The request path of ABDyeingHandler (src/src/dyeing_handler.cc) and     *)
(* DyeingLogic (src/src/dyeing_logic.cc), against everything that changes  *)
(* under it: the policy flush thread, the fresh-user flush thread and the  *)
(* Kafka threads.                                                          *)
(*                                                                         *)
(* A request thread consults up to five sources for each business type,    *)
(* one after the other, and holds nothing between two of them.  Each       *)
(* consultation is one action: it takes the version a slot shows at that   *)
(* instant (SnapshotSlot) or looks a uid up under the read lock of the map *)
(* of new users (FreshQueue, whose kq is the set newUsers here).           *)
(*                                                                         *)
(* A slot is the sequence of the contents published so far: its version is *)
(* its length.  The fields begin, inQueue and onceInQueue of a request     *)
(* record what was there while it ran: they are for the properties and     *)
(* decide nothing.                                                         *)
(***************************************************************************)
EXTENDS Integers, Sequences

CONSTANTS
  Workers,        \* the thrift threads
  Uids,           \* the users asked about
  Types,          \* the business types
  Calls,          \* the calls clients make: [batch, items], an item being
                  \* [uid, app, types]; NoCall is not one of them
  NoCall,
  WhiteLists,     \* possible white lists: sets of <<uid, type>>
  Policies,       \* possible online policies: for each type, the products it
                  \* has a bucket table for
  Snapshots,      \* possible contents of daily_fresh_user: sets of uids
  PushTables,     \* possible contents of t_daily_push_user_type: sets of uids
  MaxBatch,       \* the longest batch that is served (1000 in the code)
  MaxVersion      \* bound: versions of a slot

ASSUME BoundAssumption == MaxBatch \in Nat /\ MaxVersion \in Nat
ASSUME CallAssumption ==
  /\ NoCall \notin Calls
  /\ Calls \subseteq [batch : BOOLEAN,
                     items : Seq([uid : Uids, app : STRING, types : Seq(Types)])]

VARIABLES
  white, online, snap, push,  \* the slots _white_list, _online_plugin,
                              \* _fresh_user and _push_user
  newUsers,                   \* the uids in _kmq->kq
  policyPc, freshPc,          \* which slot each flush thread publishes next
  req                         \* the request threads

slots == <<white, online, snap, push>>
vars  == <<slots, newUsers, policyPc, freshPc, req>>

Last(s) == s[Len(s)]

Versions == [white |-> Len(white), online |-> Len(online),
             snap |-> Len(snap), push |-> Len(push)]

Idle == [pc |-> "idle", call |-> NoCall, status |-> "OK", infos |-> <<>>,
         k |-> 1, entries |-> <<>>, product |-> "none",
         begin |-> [white |-> 1, online |-> 1, snap |-> 1, push |-> 1],
         inQueue |-> FALSE, onceInQueue |-> FALSE]

\* init() loads every slot but _push_user, which starts empty, and ignores what
\* the loads return.
Init ==
  /\ \E c \in WhiteLists : white = <<c>>
  /\ \E c \in Policies : online = <<c>>
  /\ \E c \in Snapshots : snap = <<c>>
  /\ push = <<{}>>
  /\ newUsers = {}
  /\ policyPc = "white"
  /\ freshPc = "fresh"
  /\ req = [w \in Workers |-> Idle]

-----------------------------------------------------------------------------
(***************************************************************************)
(* The flush threads                                                       *)
(***************************************************************************)
\* A load built one of the contents, and the slot shows it.  What was loaded
\* again unchanged is not told apart from what was there.
Publish(slot, contents) ==
  \E c \in contents :
    \/ c = Last(slot) /\ slot' = slot
    \/ c # Last(slot) /\ Len(slot) < MaxVersion /\ slot' = Append(slot, c)

\* flushPolicy: the white list, whose load never fails, then the online policy,
\* whose load may.
FlushWhite ==
  /\ policyPc = "white"
  /\ Publish(white, WhiteLists)
  /\ policyPc' = "online"
  /\ UNCHANGED <<online, snap, push, newUsers, freshPc, req>>

\* MUTANT of FlushOnline: a failed load brings the previous policy back.
FlushOnlineRollsBack ==
  /\ policyPc = "online"
  /\ \/ Publish(online, Policies)
     \/ Len(online) > 1 /\ online' = SubSeq(online, 1, Len(online) - 1)
  /\ policyPc' = "white"
  /\ UNCHANGED <<white, snap, push, newUsers, freshPc, req>>

FlushOnline ==
  /\ policyPc = "online"
  /\ Publish(online, Policies) \/ UNCHANGED online
  /\ policyPc' = "white"
  /\ UNCHANGED <<white, snap, push, newUsers, freshPc, req>>

\* flushFreshUserPolicy: an empty or failed query leaves the slot alone.
FlushFreshUser ==
  /\ freshPc = "fresh"
  /\ Publish(snap, Snapshots \ {{}}) \/ UNCHANGED snap
  /\ freshPc' = "push"
  /\ UNCHANGED <<white, online, push, newUsers, policyPc, req>>

FlushPushUser ==
  /\ freshPc = "push"
  /\ Publish(push, PushTables \ {{}}) \/ UNCHANGED push
  /\ freshPc' = "fresh"
  /\ UNCHANGED <<white, online, snap, newUsers, policyPc, req>>

-----------------------------------------------------------------------------
(***************************************************************************)
(* The Kafka threads                                                       *)
(***************************************************************************)
\* The item and the type a request is at.
Item(r) == r.call.items[Len(r.infos) + 1]
Type(r) == Item(r).types[r.k]

\* Whether a request is inside onDyeing.
Dyeing(r) == r.pc \in {"white", "push", "fresh", "queue", "online"}

\* set() and clear() add and erase a uid under the write lock.
Learn(u) ==
  /\ newUsers' = newUsers \cup {u}
  /\ req' = [w \in Workers |->
               IF Dyeing(req[w]) /\ Item(req[w]).uid = u
                 THEN [req[w] EXCEPT !.onceInQueue = TRUE] ELSE req[w]]
  /\ UNCHANGED <<slots, policyPc, freshPc>>

Forget(u) ==
  /\ newUsers' = newUsers \ {u}
  /\ req' = [w \in Workers |->
               IF Dyeing(req[w]) /\ Item(req[w]).uid = u
                 THEN [req[w] EXCEPT !.inQueue = FALSE] ELSE req[w]]
  /\ UNCHANGED <<slots, policyPc, freshPc>>

-----------------------------------------------------------------------------
(***************************************************************************)
(* The request threads                                                     *)
(***************************************************************************)
Becomes(w, r) ==
  /\ req' = [req EXCEPT ![w] = r]
  /\ UNCHANGED <<slots, newUsers, policyPc, freshPc>>

\* onDyeing is called for the k-th type.
EnterType(r, k) ==
  [r EXCEPT !.pc = "white", !.k = k, !.product = "none", !.begin = Versions,
            !.inQueue = Item(r).uid \in newUsers,
            !.onceInQueue = Item(r).uid \in newUsers]

\* The reply of an item is finished and pushed on the reply of the call.
EndItem(r, status) ==
  [r EXCEPT !.infos = Append(@, [uid |-> Item(r).uid, status |-> status,
                                 entries |-> r.entries]),
            !.pc = IF Len(r.infos) + 1 = Len(r.call.items) THEN "answered" ELSE "item",
            !.entries = <<>>, !.k = 1, !.product = "none"]

StatusOf(entries) == IF entries = <<>> THEN "ERROR" ELSE "OK"

\* MUTANT of NextType: one type too many.
NextTypeOneMore(r) ==
  IF r.k <= Len(Item(r).types) THEN EnterType(r, r.k + 1)
                               ELSE EndItem(r, StatusOf(r.entries))

\* onDyeing returned: the next type, or the status of the finished loop.
NextType(r) ==
  IF r.k < Len(Item(r).types) THEN EnterType(r, r.k + 1)
                              ELSE EndItem(r, StatusOf(r.entries))

\* onDyeing adds an entry: the white list's, or that of a product's buckets.
AddEntry(r, source, version) ==
  [r EXCEPT !.entries = Append(@, [type |-> Type(r), source |-> source,
                                   version |-> version])]

\* MUTANT of Receive: a batch of the greatest length is refused.
ReceiveRefusesLongest(w) ==
  /\ req[w].pc = "idle"
  /\ \E c \in Calls :
       LET r == [Idle EXCEPT !.call = c] IN
       IF c.batch /\ Len(c.items) >= MaxBatch
         THEN Becomes(w, [r EXCEPT !.pc = "answered", !.status = "ERROR"])
         ELSE Becomes(w, [r EXCEPT !.pc = IF c.items = <<>> THEN "answered" ELSE "item"])

\* A call of dyeing or DyeingLan (one item), or of BatchDyeing or
\* BatchDyeingLan: too long a batch is answered at once, with no item.
Receive(w) ==
  /\ req[w].pc = "idle"
  /\ \E c \in Calls :
       LET r == [Idle EXCEPT !.call = c] IN
       IF c.batch /\ Len(c.items) > MaxBatch
         THEN Becomes(w, [r EXCEPT !.pc = "answered", !.status = "ERROR"])
         ELSE Becomes(w, [r EXCEPT !.pc = IF c.items = <<>> THEN "answered" ELSE "item"])

\* The loop of dyeing over the types begins, unless there are none.
BeginItem(w) ==
  /\ req[w].pc = "item"
  /\ Becomes(w, IF Item(req[w]).types = <<>> THEN EndItem(req[w], "ERROR")
                                             ELSE EnterType(req[w], 1))

\* The special case of onDyeing: noticias has products of its own for biz.
BizNoticias(r) == Type(r) = "biz" /\ Item(r).app = "noticias"

\* MUTANT of HandleWhiteList: the thread keeps the plugin it first got.
HandleWhiteListCached(w) ==
  LET r == req[w] IN
  /\ r.pc = "white"
  /\ Becomes(w, IF <<Item(r).uid, Type(r)>> \in white[1]
                  THEN NextType(AddEntry(r, "white", 1))
                  ELSE [r EXCEPT !.pc = IF BizNoticias(r) THEN "push" ELSE "fresh"])

HandleWhiteList(w) ==
  LET r == req[w] IN
  /\ r.pc = "white"
  /\ Becomes(w, IF <<Item(r).uid, Type(r)>> \in Last(white)
                  THEN NextType(AddEntry(r, "white", Len(white)))
                  ELSE [r EXCEPT !.pc = IF BizNoticias(r) THEN "push" ELSE "fresh"])

HandlePushUser(w) ==
  LET r == req[w] IN
  /\ r.pc = "push"
  /\ Becomes(w, IF Item(r).uid \in Last(push)
                  THEN [r EXCEPT !.pc = "online", !.product = "pushed"]
                  ELSE [r EXCEPT !.pc = "fresh"])

\* What onDyeing makes of the result of handleFreshUser: 0, 1 (in the snapshot)
\* or 2 (not in the snapshot, but in the queue).
Product(r, isNew) ==
  IF BizNoticias(r) THEN IF isNew = 2 THEN "new" ELSE "recurring"
                    ELSE IF isNew = 0 THEN "plain" ELSE "fresh"

\* MUTANT of LookupSnapshot: who is not in the snapshot is not fresh.
LookupSnapshotOnly(w) ==
  LET r == req[w] IN
  /\ r.pc = "fresh"
  /\ Becomes(w, [r EXCEPT !.pc = "online",
                          !.product = Product(r, IF Item(r).uid \in Last(snap) THEN 1 ELSE 0)])

\* handleFreshUser, its first half: the snapshot.
LookupSnapshot(w) ==
  LET r == req[w] IN
  /\ r.pc = "fresh"
  /\ Becomes(w, IF Item(r).uid \in Last(snap)
                  THEN [r EXCEPT !.pc = "online", !.product = Product(r, 1)]
                  ELSE [r EXCEPT !.pc = "queue"])

\* Its second half: the queue, under the read lock.
LookupQueue(w) ==
  LET r == req[w] IN
  /\ r.pc = "queue"
  /\ Becomes(w, [r EXCEPT !.pc = "online",
                          !.product = Product(r, IF Item(r).uid \in newUsers THEN 2 ELSE 0)])

\* MUTANT of HandleOnlineHash: a type without a table is tried again.
HandleOnlineHashRetries(w) ==
  LET r      == req[w]
      tables == Last(online)[Type(r)]
  IN
  /\ r.pc = "online"
  /\ Becomes(w, CASE r.product \in tables -> NextType(AddEntry(r, r.product, Len(online)))
                  [] r.product \notin tables /\ "default" \in tables
                       -> NextType(AddEntry(r, "default", Len(online)))
                  [] OTHER -> r)

\* DyeingOnlinePlugin::get: the product's bucket table, or the default one; a
\* type with neither gets no entry.
HandleOnlineHash(w) ==
  LET r      == req[w]
      tables == Last(online)[Type(r)]
  IN
  /\ r.pc = "online"
  /\ Becomes(w, NextType(CASE r.product \in tables -> AddEntry(r, r.product, Len(online))
                           [] r.product \notin tables /\ "default" \in tables
                                -> AddEntry(r, "default", Len(online))
                           [] OTHER -> r))

\* An exception anywhere in the loop ends the item; what it has so far stays in
\* the reply.
Fault(w) ==
  /\ Dyeing(req[w])
  /\ Becomes(w, EndItem(req[w], "FAULT"))

\* The reply goes out.
Answer(w) ==
  /\ req[w].pc = "answered"
  /\ Becomes(w, Idle)

Serve(w) ==
  \/ BeginItem(w) \/ HandleWhiteList(w) \/ HandlePushUser(w)
  \/ LookupSnapshot(w) \/ LookupQueue(w) \/ HandleOnlineHash(w)
  \/ Answer(w)

-----------------------------------------------------------------------------
Next ==
  \/ FlushWhite \/ FlushOnline \/ FlushFreshUser \/ FlushPushUser
  \/ \E u \in Uids : Learn(u) \/ Forget(u)
  \/ \E w \in Workers : Receive(w) \/ Serve(w) \/ Fault(w)

Spec == Init /\ [][Next]_vars

\* A thread that has a call works on it.  Nothing obliges it to fail.
FairSpec == Spec /\ \A w \in Workers : WF_vars(Serve(w))

-----------------------------------------------------------------------------
(***************************************************************************)
(* Properties                                                              *)
(***************************************************************************)
Sources  == {"white", "pushed", "new", "recurring", "plain", "fresh", "default"}
Statuses == {"OK", "ERROR", "FAULT"}

TypeOK ==
  /\ \A i \in DOMAIN white : white[i] \in WhiteLists
  /\ \A i \in DOMAIN online : online[i] \in Policies
  /\ \A i \in DOMAIN snap : snap[i] \in Snapshots
  /\ \A i \in DOMAIN push : push[i] \in PushTables \cup {{}}
  /\ newUsers \subseteq Uids
  /\ policyPc \in {"white", "online"} /\ freshPc \in {"fresh", "push"}
  /\ \A w \in Workers : LET r == req[w] IN
       /\ r.pc \in {"idle", "item", "white", "push", "fresh", "queue", "online", "answered"}
       /\ r.pc # "idle" => r.call \in Calls
       /\ r.status \in {"OK", "ERROR"}
       /\ r.pc = "item" \/ Dyeing(r) => Len(r.infos) < Len(r.call.items)
       /\ Dyeing(r) => r.k \in DOMAIN Item(r).types
       /\ (r.pc = "online") = (r.product # "none")
       /\ \A i \in DOMAIN r.infos :
            /\ r.infos[i].uid \in Uids
            /\ r.infos[i].status \in Statuses
            /\ \A j \in DOMAIN r.infos[i].entries :
                 /\ r.infos[i].entries[j].type \in Types
                 /\ r.infos[i].entries[j].source \in Sources

\* entries answer types in the order they were asked, each at most once.
InOrder(entries, types) ==
  \E pos \in [DOMAIN entries -> DOMAIN types] :
    /\ \A i, j \in DOMAIN entries : i < j => pos[i] < pos[j]
    /\ \A i \in DOMAIN entries : entries[i].type = types[pos[i]]

\* What a client can rely on in a reply, whatever was flushed or went wrong
\* while it was built: one reply for each item, in order (none for too long a
\* batch, and only then the status of the batch is not OK); in it the entries
\* in the order of the types asked; OK means that there is one, ERROR that
\* there is none.
ReplyShape ==
  \A w \in Workers : LET r == req[w] IN
    r.pc = "answered" =>
      /\ Len(r.infos) = IF r.status = "ERROR" THEN 0 ELSE Len(r.call.items)
      /\ (r.status = "ERROR") = (r.call.batch /\ Len(r.call.items) > MaxBatch)
      /\ \A i \in DOMAIN r.infos :
           /\ r.infos[i].uid = r.call.items[i].uid
           /\ InOrder(r.infos[i].entries, r.call.items[i].types)
           /\ r.infos[i].status = "OK" => r.infos[i].entries # <<>>
           /\ r.infos[i].status = "ERROR" => r.infos[i].entries = <<>>

\* The white list overrides everything: a request goes on to the other sources
\* only if some white list shown since it came to this type lacks the uid.
WhiteListWins ==
  \A w \in Workers : LET r == req[w] IN
    r.pc \in {"push", "fresh", "queue", "online"} =>
      \E v \in r.begin.white .. Len(white) : <<Item(r).uid, Type(r)>> \notin white[v]

\* Whether the uid was in one, or in each, of the versions of a slot that have
\* been shown since the request came to its type.
InOne(r, slot, v)  == \E i \in v .. Len(slot) : Item(r).uid \in slot[i]
InEach(r, slot, v) == \A i \in v .. Len(slot) : Item(r).uid \in slot[i]

\* The product a user is dyed for is justified by what was true while the
\* request ran, although the sources are read one by one and change in between:
\*  - a user who was in the queue, or in the snapshot, all the time is not taken
\*    for an old one, and nobody is taken for fresh who was never in either;
\*  - for biz on noticias a push type outranks the rest, and new means in the
\*    queue and not in the snapshot.
ProductJustified ==
  \A w \in Workers : LET r == req[w] IN
    r.pc = "online" =>
      CASE r.product = "plain" ->
             ~r.inQueue /\ ~InEach(r, snap, r.begin.snap)
        [] r.product = "fresh" ->
             r.onceInQueue \/ InOne(r, snap, r.begin.snap)
        [] r.product = "pushed" ->
             InOne(r, push, r.begin.push)
        [] r.product = "new" ->
             /\ r.onceInQueue
             /\ ~InEach(r, snap, r.begin.snap)
             /\ ~InEach(r, push, r.begin.push)
        [] r.product = "recurring" ->
             /\ ~r.inQueue \/ InOne(r, snap, r.begin.snap)
             /\ ~InEach(r, push, r.begin.push)

\* The entries of the i-th item of a call: a finished one, or the one it is at.
EntriesAt(r, i) == IF i <= Len(r.infos) THEN r.infos[i].entries ELSE r.entries

\* The j-th entry of item h was made before the k-th of item i.
MadeInOrder(h, j, i, k) == h < i \/ (h = i /\ j < k)

\* One call never goes back in time: of two entries that come from the same slot
\* the later one is of the same version or of a later one, however many flushes
\* happen in between.
VersionsMonotone ==
  \A w \in Workers : LET r == req[w] IN
    \A h, i \in 1 .. Len(r.infos) + 1 :
      \A j \in DOMAIN EntriesAt(r, h), k \in DOMAIN EntriesAt(r, i) :
        LET d == EntriesAt(r, h)[j]
            e == EntriesAt(r, i)[k]
        IN  MadeInOrder(h, j, i, k) /\ ((d.source = "white") = (e.source = "white"))
              => d.version <= e.version

\* Every call is answered.
Answered == \A w \in Workers : (req[w].pc # "idle") ~> (req[w].pc = "idle")
=============================================================================
