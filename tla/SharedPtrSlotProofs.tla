------------------------- MODULE SharedPtrSlotProofs -------------------------
(***************************************************************************)
(* A shared_ptr slot that is copied and assigned without a lock, for any   *)
(* number of readers and of versions: until a torn copy counts itself in a *)
(* freed block the counts are exact and no whole copy uses freed memory,   *)
(* and the slot is the safe register SnapshotSlot.                         *)
(***************************************************************************)
EXTENDS SharedPtrSlot, FiniteSetTheorems, TLAPS

\* The four shared_ptrs that are not a reader's.
Handles == {"slot", "version", "old", "temp"}

\* There are finitely many request threads, and none of them is one of those.
ReadersApart == IsFiniteSet(Readers) /\ Readers \cap Handles = {}

\* The flush thread is between its first write to the member and the release of
\* the version it replaced.
Replacing == flush.pc \in {"swap", "drop_temp", "drop_old"}

\* The types, for as long as there is anything to say of the counts and after.
WordTypes ==
  /\ slot \in [Both -> Versions]
  /\ refs \in [Versions -> Int]
  /\ mem \in [Versions -> {"unborn", "live", "freed"}]
  /\ flush \in [pc : {"idle", "loaded", "assign", "swap", "drop_temp",
                      "drop_old", "drop_version"},
                version : Versions, old : Versions \cup {NoVersion},
                todo : SUBSET Both]
  /\ copy \in [Readers -> [pc : {"idle", "copy", "using"},
                           px : Versions \cup {NoVersion},
                           pi : Versions \cup {NoVersion}]]
  /\ torn \subseteq Readers

\* The words of the member and what the flush thread remembers of them.
SlotWords ==
  /\ flush.pc \in {"idle", "loaded", "drop_version"} => flush.old = NoVersion
  /\ ~Replacing => slot.px = slot.pi
  /\ flush.pc = "loaded" => slot.pi < flush.version
  /\ flush.pc = "assign" => flush.old = slot.pi /\ slot.pi < flush.version
  /\ Replacing => flush.old \in Versions /\ flush.old < flush.version
  /\ flush.pc = "swap" =>
       /\ flush.todo # {}
       /\ \A word \in Both :
            slot[word] = IF word \in flush.todo THEN flush.old ELSE flush.version
  /\ flush.pc \in {"drop_temp", "drop_old"} =>
       flush.todo = {} /\ \A word \in Both : slot[word] = flush.version
  /\ \A word \in Both : slot[word] <= flush.version

\* The words of the readers: a copy that met no swap has those of the member, if
\* it is in progress, and two equal ones if it counts.
CopyWords ==
  \A r \in Readers :
    /\ copy[r].pc = "idle" => copy[r].px = NoVersion /\ copy[r].pi = NoVersion
    /\ copy[r].pc = "copy" =>
         /\ copy[r].pi # NoVersion => copy[r].pi <= flush.version
         /\ r \notin torn =>
              /\ slot.px = slot.pi
              /\ copy[r].px \in {NoVersion, slot.px}
              /\ copy[r].pi \in {NoVersion, slot.pi}
    /\ copy[r].pc = "using" =>
         /\ copy[r].px \in Versions /\ copy[r].pi \in Versions
         /\ copy[r].pi <= flush.version
         /\ r \notin torn => copy[r].px = copy[r].pi

\* Versions are born in order.
BornInOrder == \A v \in Versions : (mem[v] = "unborn") = (v > flush.version)

\* The counts, and the memory they stand for.
Exact ==
  \A v \in Versions :
    /\ refs[v] = Cardinality(Holders(v))
    /\ (mem[v] = "live") = (refs[v] > 0)

\* What holds as long as no count was taken in a freed block.
Inv ==
  /\ sound = TRUE
  /\ WordTypes /\ refs \in [Versions -> Nat]
  /\ SlotWords /\ CopyWords /\ BornInOrder /\ Exact

\* What always holds.
SlotInv == WordTypes /\ sound \in BOOLEAN /\ (sound => Inv)

LEMMA HoldersFinite ==
  ASSUME ReadersApart, NEW v
  PROVE  IsFiniteSet(Holders(v)) /\ Cardinality(Holders(v)) \in Nat
<1>1. IsFiniteSet(Handles)
  <2>1. IsFiniteSet({"slot"})
    BY FS_Singleton
  <2>2. IsFiniteSet({"slot"} \cup {"version"})
    BY <2>1, FS_AddElement
  <2>3. IsFiniteSet(({"slot"} \cup {"version"}) \cup {"old"})
    BY <2>2, FS_AddElement
  <2>4. IsFiniteSet((({"slot"} \cup {"version"}) \cup {"old"}) \cup {"temp"})
    BY <2>3, FS_AddElement
  <2>5. Handles = (({"slot"} \cup {"version"}) \cup {"old"}) \cup {"temp"}
    BY DEF Handles
  <2> QED
    BY <2>4, <2>5
<1>2. IsFiniteSet(Readers \cup Handles)
  BY <1>1, FS_Union DEF ReadersApart
<1>3. Holders(v) \subseteq Readers \cup Handles
  BY DEF Holders, Handles
<1> QED
  BY <1>2, <1>3, FS_Subset, FS_CardinalityType

\* A shared_ptr of v more, counted by AddRef.
LEMMA AddHolder ==
  ASSUME ReadersApart, Inv, NEW v \in Versions, NEW h,
         h \notin Holders(v), Holders(v) # {}, AddRef(v),
         \A u \in Versions : Holders(u)' = IF u = v THEN Holders(u) \cup {h} ELSE Holders(u)
  PROVE  Exact' /\ refs' \in [Versions -> Nat] /\ mem' = mem
<1>1. Cardinality(Holders(v) \cup {h}) = Cardinality(Holders(v)) + 1
  BY HoldersFinite, FS_AddElement
<1>2. Cardinality(Holders(v)) # 0
  BY HoldersFinite, FS_EmptySet
<1>3. /\ refs' = [refs EXCEPT ![v] = @ + 1] /\ mem' = mem
      /\ refs \in [Versions -> Nat]
  BY DEF AddRef, Inv, WordTypes
<1>4. ASSUME NEW u \in Versions
      PROVE  refs'[u] = Cardinality(Holders(u)') /\ (mem'[u] = "live") = (refs'[u] > 0)
  <2>1. refs[u] = Cardinality(Holders(u)) /\ (mem[u] = "live") = (refs[u] > 0)
    BY DEF Inv, Exact
  <2>2. CASE u = v
    <3>1. refs'[u] = refs[u] + 1
      BY <1>3, <2>2
    <3>2. Holders(u)' = Holders(v) \cup {h}
      BY <2>2
    <3>3. refs[u] \in Nat /\ refs[u] > 0
      BY <1>2, <1>3, <2>1, <2>2
    <3> QED
      BY <1>1, <1>3, <2>1, <2>2, <3>1, <3>2, <3>3
  <2>3. CASE u # v
    BY <1>3, <2>1, <2>3
  <2> QED
    BY <2>2, <2>3
<1> QED
  BY <1>3, <1>4 DEF Exact

\* A shared_ptr of v less, counted by DropRef: the last one frees it.
LEMMA DropHolder ==
  ASSUME ReadersApart, Inv, NEW v \in Versions, NEW h \in Holders(v), DropRef(v),
         \A u \in Versions : Holders(u)' = IF u = v THEN Holders(u) \ {h} ELSE Holders(u)
  PROVE  /\ Exact' /\ refs' \in [Versions -> Nat]
         /\ mem[v] = "live"
         /\ \/ mem' = mem
            \/ mem' = [mem EXCEPT ![v] = "freed"] /\ Holders(v)' = {}
<1>1. Cardinality(Holders(v) \ {h}) = Cardinality(Holders(v)) - 1
  BY HoldersFinite, FS_RemoveElement
<1>2. /\ refs' = [refs EXCEPT ![v] = @ - 1]
      /\ mem' = IF refs[v] = 1 THEN [mem EXCEPT ![v] = "freed"] ELSE mem
      /\ refs \in [Versions -> Nat]
      /\ mem \in [Versions -> {"unborn", "live", "freed"}]
  BY DEF DropRef, Inv, WordTypes
<1>3. refs[v] = Cardinality(Holders(v)) /\ (mem[v] = "live") = (refs[v] > 0)
  BY DEF Inv, Exact
<1>4. Cardinality(Holders(v)) # 0
  BY HoldersFinite, FS_EmptySet
<1>5. refs[v] > 0 /\ refs'[v] = refs[v] - 1 /\ refs'[v] \in Nat
  BY <1>2, <1>3, <1>4
<1>6. IsFiniteSet(Holders(v) \ {h})
  BY HoldersFinite, FS_RemoveElement
<1>7. ASSUME NEW u \in Versions
      PROVE  refs'[u] = Cardinality(Holders(u)') /\ (mem'[u] = "live") = (refs'[u] > 0)
  <2>1. refs[u] = Cardinality(Holders(u)) /\ (mem[u] = "live") = (refs[u] > 0)
    BY DEF Inv, Exact
  <2>2. CASE u = v
    <3>1. Holders(u)' = Holders(v) \ {h}
      BY <2>2
    <3>2. refs'[u] = Cardinality(Holders(u)')
      BY <1>1, <1>3, <1>5, <2>2, <3>1
    <3>3. (mem'[u] = "live") = (refs'[u] > 0)
      BY <1>2, <1>3, <1>5, <2>2
    <3> QED
      BY <3>2, <3>3
  <2>3. CASE u # v
    BY <1>2, <2>1, <2>3
  <2> QED
    BY <2>2, <2>3
<1>8. refs[v] = 1 => Holders(v)' = {}
  <2> SUFFICES ASSUME refs[v] = 1 PROVE Holders(v)' = {}
    OBVIOUS
  <2>1. Cardinality(Holders(v) \ {h}) = 0
    BY <1>1, <1>3
  <2>2. Holders(v) \ {h} = {}
    BY <1>6, <2>1, FS_EmptySet
  <2> QED
    BY <2>2
<1> QED
  BY <1>2, <1>3, <1>5, <1>7, <1>8 DEF Exact

-----------------------------------------------------------------------------
(* One lemma for each action.                                              *)

\* A release changes nothing of what is born.
LEMMA BornStays ==
  ASSUME BornInOrder, mem \in [Versions -> {"unborn", "live", "freed"}],
         NEW v \in Versions, mem[v] = "live",
         mem' = mem \/ mem' = [mem EXCEPT ![v] = "freed"],
         flush'.version = flush.version
  PROVE  BornInOrder'
<1> SUFFICES ASSUME NEW u \in Versions
             PROVE  (mem'[u] = "unborn") = (u > flush'.version)
  BY DEF BornInOrder
<1>1. (mem'[u] = "unborn") = (mem[u] = "unborn")
  BY DEF BornInOrder
<1>2. (mem[u] = "unborn") = (u > flush.version)
  BY DEF BornInOrder
<1> QED
  BY <1>1, <1>2

LEMMA InitInv == ReadersApart /\ Init => Inv
<1> SUFFICES ASSUME ReadersApart, Init PROVE Inv
  OBVIOUS
<1> USE MaxVersionAssumption, NoVersionAssumption DEF Init, Versions
<1>1. WordTypes
  BY DEF WordTypes, Both
<1>2. SlotWords
  BY DEF SlotWords, Replacing, Both
<1>3. CopyWords
  BY DEF CopyWords
<1>4. BornInOrder
  BY DEF BornInOrder
<1>5. Exact
  <2>1. Holders(0) = {"slot"}
    BY DEF Holders
  <2>2. Cardinality(Holders(0)) = 1
    BY <2>1, FS_Singleton
  <2>3. ASSUME NEW v \in Versions, v # 0 PROVE Holders(v) = {}
    BY <2>3 DEF Holders
  <2>4. ASSUME NEW v \in Versions
        PROVE  refs[v] = Cardinality(Holders(v)) /\ (mem[v] = "live") = (refs[v] > 0)
    <3>1. CASE v = 0
      <4>1. refs[v] = 1 /\ mem[v] = "live"
        BY <3>1
      <4> QED
        BY <2>2, <3>1, <4>1
    <3>2. CASE v # 0
      <4>1. refs[v] = 0 /\ mem[v] = "unborn"
        BY <3>2
      <4>2. Cardinality(Holders(v)) = 0
        BY <2>3, <3>2, FS_EmptySet
      <4> QED
        BY <4>1, <4>2
    <3> QED
      BY <3>1, <3>2
  <2> QED
    BY <2>4 DEF Exact
<1>6. sound = TRUE /\ refs \in [Versions -> Nat]
  OBVIOUS
<1> QED
  BY <1>1, <1>2, <1>3, <1>4, <1>5, <1>6 DEF Inv

LEMMA LoadInv == ReadersApart /\ Inv /\ WordTypes' /\ Load => Inv'
<1> SUFFICES ASSUME ReadersApart, Inv, WordTypes', Load PROVE Inv'
  OBVIOUS
<1> USE MaxVersionAssumption, NoVersionAssumption DEF Inv, Versions
<1>0. PICK new \in Versions : new = flush.version + 1
  BY DEF Load, WordTypes
<1>1. /\ flush.pc = "idle" /\ new > flush.version /\ flush.version \in Versions
      /\ flush' = [flush EXCEPT !.pc = "loaded", !.version = new]
      /\ refs' = [refs EXCEPT ![new] = 1] /\ mem' = [mem EXCEPT ![new] = "live"]
      /\ torn' = torn /\ sound' = sound /\ slot' = slot /\ copy' = copy
  BY <1>0 DEF Load, WordTypes
<1>3. SlotWords'
  BY <1>0, <1>1 DEF SlotWords, Replacing, WordTypes, Both
<1>4. CopyWords'
  BY <1>0, <1>1 DEF CopyWords, Replacing, WordTypes
<1>5. BornInOrder'
  BY <1>0, <1>1 DEF BornInOrder, WordTypes
<1>6. Holders(new)' = {"version"}
  <2>1. slot'.pi # new
    BY <1>0, <1>1 DEF SlotWords, Both, WordTypes
  <2>2. ASSUME NEW r \in Readers PROVE ~(copy'[r].pc = "using" /\ copy'[r].pi = new)
    BY <1>0, <1>1 DEF CopyWords, WordTypes
  <2>3. flush'.pc = "loaded" /\ flush'.version = new /\ flush'.old = NoVersion
    BY <1>0, <1>1 DEF SlotWords, WordTypes
  <2>4. NoVersion # new
    BY <1>1
  <2> HIDE DEF Inv, Versions
  <2> QED
    BY <2>1, <2>2, <2>3, <2>4 DEF Holders
<1>7. ASSUME NEW v \in Versions, v # new PROVE Holders(v)' = Holders(v)
  BY <1>1, <1>7 DEF Holders, SlotWords, WordTypes
<1>8. Exact'
  <2>1. Cardinality(Holders(new)') = 1
    BY <1>6, FS_Singleton
  <2>2. refs \in [Versions -> Nat] /\ mem \in [Versions -> {"unborn", "live", "freed"}]
    BY DEF WordTypes
  <2> SUFFICES ASSUME NEW v \in Versions
               PROVE  refs'[v] = Cardinality(Holders(v)') /\ (mem'[v] = "live") = (refs'[v] > 0)
    BY DEF Exact
  <2>3. CASE v = new
    <3>1. refs'[v] = 1 /\ mem'[v] = "live"
      BY <1>1, <2>2, <2>3
    <3> QED
      BY <2>1, <2>3, <3>1
  <2>4. CASE v # new
    <3>1. refs'[v] = refs[v] /\ mem'[v] = mem[v]
      BY <1>1, <2>2, <2>4
    <3>2. refs[v] = Cardinality(Holders(v)) /\ (mem[v] = "live") = (refs[v] > 0)
      BY DEF Exact
    <3> QED
      BY <1>7, <2>4, <3>1, <3>2
  <2> QED
    BY <2>3, <2>4
<1>9. refs' \in [Versions -> Nat]
  BY <1>0, <1>1
<1> QED
  BY <1>1, <1>3, <1>4, <1>5, <1>8, <1>9

LEMMA LoadFailsInv == ReadersApart /\ Inv /\ WordTypes' /\ LoadFails => Inv'
<1> SUFFICES ASSUME ReadersApart, Inv, WordTypes', LoadFails PROVE Inv'
  OBVIOUS
<1> USE MaxVersionAssumption, NoVersionAssumption DEF Inv, Versions, LoadFails
<1>2. SlotWords'
  BY DEF SlotWords, Replacing, WordTypes, Both
<1>3. CopyWords'
  BY DEF CopyWords, Replacing, WordTypes
<1>4. BornInOrder'
  BY DEF BornInOrder, WordTypes
<1>5. ASSUME NEW v \in Versions PROVE Holders(v)' = Holders(v)
  BY DEF Holders, SlotWords, WordTypes
<1>6. Exact'
  BY <1>5 DEF Exact
<1> QED
  BY <1>2, <1>3, <1>4, <1>6

LEMMA HoldOldInv == ReadersApart /\ Inv /\ WordTypes' /\ HoldOld => Inv'
<1> SUFFICES ASSUME ReadersApart, Inv, WordTypes', HoldOld PROVE Inv'
  OBVIOUS
<1> USE MaxVersionAssumption, NoVersionAssumption DEF Inv, Versions
<1> DEFINE v == slot.pi
<1>1. /\ flush.pc = "loaded" /\ v \in Versions /\ flush.old = NoVersion
      /\ flush' = [flush EXCEPT !.pc = "assign", !.old = v]
      /\ torn' = torn /\ sound' = sound /\ slot' = slot /\ copy' = copy /\ AddRef(v)
  BY DEF HoldOld, WordTypes, SlotWords, Both
<1>2. "old" \notin Holders(v) /\ "slot" \in Holders(v)
  BY <1>1, NoVersionAssumption DEF Holders, ReadersApart, Handles
<1>3. ASSUME NEW u \in Versions
      PROVE  Holders(u)' = IF u = v THEN Holders(u) \cup {"old"} ELSE Holders(u)
  BY <1>1 DEF Holders, WordTypes
<1>4. Exact' /\ refs' \in [Versions -> Nat] /\ mem' = mem
  <2> HIDE DEF Inv, Versions, v
  <2> QED
    BY <1>1, <1>2, <1>3, AddHolder
<1>6. SlotWords'
  BY <1>1 DEF SlotWords, Replacing, WordTypes, Both
<1>7. CopyWords'
  BY <1>1 DEF CopyWords, Replacing, WordTypes
<1>8. BornInOrder'
  BY <1>1, <1>4 DEF BornInOrder, WordTypes
<1> QED
  BY <1>1, <1>4, <1>6, <1>7, <1>8

LEMMA MakeTempInv == ReadersApart /\ Inv /\ WordTypes' /\ MakeTemp => Inv'
<1> SUFFICES ASSUME ReadersApart, Inv, WordTypes', MakeTemp PROVE Inv'
  OBVIOUS
<1> USE MaxVersionAssumption, NoVersionAssumption DEF Inv, Versions
<1> DEFINE v == flush.version
<1>1. /\ flush.pc = "assign" /\ v \in Versions /\ flush.old = slot.pi /\ slot.px = slot.pi
      /\ flush' = [flush EXCEPT !.pc = "swap", !.todo = Both]
      /\ torn' = torn /\ sound' = sound /\ slot' = slot /\ copy' = copy /\ AddRef(v)
  BY DEF MakeTemp, WordTypes, SlotWords, Replacing
<1>2. "temp" \notin Holders(v) /\ "version" \in Holders(v)
  BY <1>1 DEF Holders, ReadersApart, Handles
<1>3. ASSUME NEW u \in Versions
      PROVE  Holders(u)' = IF u = v THEN Holders(u) \cup {"temp"} ELSE Holders(u)
  BY <1>1 DEF Holders, WordTypes, Both
<1>4. Exact' /\ refs' \in [Versions -> Nat] /\ mem' = mem
  <2> HIDE DEF Inv, Versions, v
  <2> QED
    BY <1>1, <1>2, <1>3, AddHolder
<1>6. SlotWords'
  BY <1>1 DEF SlotWords, Replacing, WordTypes, Both
<1>7. CopyWords'
  BY <1>1 DEF CopyWords, Replacing, WordTypes
<1>8. BornInOrder'
  BY <1>1, <1>4 DEF BornInOrder, WordTypes
<1> QED
  BY <1>1, <1>4, <1>6, <1>7, <1>8

\* The swap of a word moves a share of the replaced version from the member to
\* the temporary and one of the new version the other way: no count changes.
LEMMA SwapInv == ASSUME ReadersApart, Inv, WordTypes', NEW word \in Both, Swap(word) PROVE Inv'
<1> USE MaxVersionAssumption, NoVersionAssumption DEF Inv, Versions
<1> DEFINE new == flush.version
           old == flush.old
<1>1. /\ flush.pc = "swap" /\ word \in flush.todo /\ new \in Versions /\ old \in Versions
      /\ old < new /\ slot[word] = old
      /\ slot' = [slot EXCEPT ![word] = new]
      /\ flush' = [flush EXCEPT !.todo = @ \ {word},
                                !.pc = IF flush.todo = {word} THEN "drop_temp" ELSE "swap"]
      /\ refs' = refs /\ mem' = mem /\ copy' = copy /\ sound' = sound
      /\ torn' = torn \cup {r \in Readers : copy[r].pc = "copy"}
  BY DEF Copying, Swap, WordTypes, SlotWords, Replacing
<1>3. SlotWords'
  <2>1. /\ slot \in [Both -> Versions] /\ flush.todo \subseteq Both
        /\ \A w \in Both : slot[w] = IF w \in flush.todo THEN old ELSE new
    BY <1>1 DEF SlotWords, WordTypes
  <2>2. /\ flush'.pc = IF flush.todo = {word} THEN "drop_temp" ELSE "swap"
        /\ flush'.todo = flush.todo \ {word} /\ flush'.old = old /\ flush'.version = new
    BY <1>1 DEF WordTypes
  <2>3. \A w \in Both : slot'[w] = IF w \in flush'.todo THEN old ELSE new
    BY <1>1, <2>1, <2>2
  <2>4. old < new /\ old \in Versions /\ new \in Versions /\ old <= new /\ new <= new
    BY <1>1
  <2>5. flush'.todo = {} <=> flush.todo = {word}
    BY <1>1, <2>2
  <2> HIDE DEF Inv, old, new
  <2> QED
    BY <2>2, <2>3, <2>4, <2>5 DEF SlotWords, Replacing
<1>4. CopyWords'
  BY <1>1 DEF CopyWords, Replacing, WordTypes
<1>5. BornInOrder'
  BY <1>1 DEF BornInOrder, WordTypes
<1>6. ASSUME NEW v \in Versions PROVE Cardinality(Holders(v)') = Cardinality(Holders(v))
  <2>1. CASE word = "px"
    <3>1. Holders(v)' = Holders(v)
      BY <1>1, <2>1 DEF Holders, WordTypes, Both
    <3> QED
      BY <3>1
  <2>2. CASE word = "pi" /\ v \notin {old, new}
    <3>1. Holders(v)' = Holders(v)
      BY <1>1, <2>2 DEF Holders, WordTypes, Both
    <3> QED
      BY <3>1
  <2>3. CASE word = "pi" /\ v = old
    <3>1. "slot" \in Holders(v) /\ "temp" \notin Holders(v)
      BY <1>1, <2>3 DEF Holders, ReadersApart, Handles
    <3>2. Holders(v)' = (Holders(v) \ {"slot"}) \cup {"temp"}
      BY <1>1, <2>3, <3>1 DEF Holders, WordTypes, Both, ReadersApart, Handles
    <3> HIDE DEF Inv, Versions
    <3>3. /\ IsFiniteSet(Holders(v) \ {"slot"})
          /\ Cardinality(Holders(v) \ {"slot"}) = Cardinality(Holders(v)) - 1
      BY <3>1, HoldersFinite, FS_RemoveElement
    <3>4. Cardinality((Holders(v) \ {"slot"}) \cup {"temp"})
            = Cardinality(Holders(v) \ {"slot"}) + 1
      BY <3>1, <3>3, FS_AddElement
    <3> QED
      BY <3>2, <3>3, <3>4, HoldersFinite
  <2>4. CASE word = "pi" /\ v = new
    <3>1. "temp" \in Holders(v) /\ "slot" \notin Holders(v)
      BY <1>1, <2>4 DEF Holders, ReadersApart, Handles
    <3>2. Holders(v)' = (Holders(v) \ {"temp"}) \cup {"slot"}
      BY <1>1, <2>4, <3>1 DEF Holders, WordTypes, Both, ReadersApart, Handles
    <3> HIDE DEF Inv, Versions
    <3>3. /\ IsFiniteSet(Holders(v) \ {"temp"})
          /\ Cardinality(Holders(v) \ {"temp"}) = Cardinality(Holders(v)) - 1
      BY <3>1, HoldersFinite, FS_RemoveElement
    <3>4. Cardinality((Holders(v) \ {"temp"}) \cup {"slot"})
            = Cardinality(Holders(v) \ {"temp"}) + 1
      BY <3>1, <3>3, FS_AddElement
    <3> QED
      BY <3>2, <3>3, <3>4, HoldersFinite
  <2> QED
    BY <2>1, <2>2, <2>3, <2>4 DEF Both
<1>7. Exact'
  BY <1>1, <1>6 DEF Exact
<1> QED
  BY <1>1, <1>3, <1>4, <1>5, <1>7

LEMMA DropTempInv == ReadersApart /\ Inv /\ WordTypes' /\ DropTemp => Inv'
<1> SUFFICES ASSUME ReadersApart, Inv, WordTypes', DropTemp PROVE Inv'
  OBVIOUS
<1> USE MaxVersionAssumption, NoVersionAssumption DEF Inv, Versions
<1> DEFINE v == flush.old
<1>1. /\ flush.pc = "drop_temp" /\ v \in Versions /\ flush.todo = {} /\ v < flush.version
      /\ flush' = [flush EXCEPT !.pc = "drop_old"]
      /\ torn' = torn /\ sound' = sound /\ slot' = slot /\ copy' = copy /\ DropRef(v)
  BY DEF DropTemp, WordTypes, SlotWords, Replacing
<1>2. "temp" \in Holders(v)
  BY <1>1 DEF Holders
<1>3. ASSUME NEW u \in Versions
      PROVE  Holders(u)' = IF u = v THEN Holders(u) \ {"temp"} ELSE Holders(u)
  BY <1>1 DEF Holders, WordTypes, ReadersApart, Handles
<1>4. /\ Exact' /\ refs' \in [Versions -> Nat] /\ mem[v] = "live"
      /\ mem' = mem \/ mem' = [mem EXCEPT ![v] = "freed"]
  <2> HIDE DEF Inv, Versions, v
  <2> QED
    BY <1>1, <1>2, <1>3, DropHolder
<1>6. SlotWords'
  BY <1>1 DEF SlotWords, Replacing, WordTypes, Both
<1>7. CopyWords'
  BY <1>1 DEF CopyWords, Replacing, WordTypes
<1>8. BornInOrder'
  <2>1. flush'.version = flush.version
    BY <1>1 DEF WordTypes
  <2>2. mem \in [Versions -> {"unborn", "live", "freed"}] /\ BornInOrder
    BY DEF WordTypes
  <2> HIDE DEF Inv, Versions, v
  <2> QED
    BY <1>1, <1>4, <2>1, <2>2, BornStays
<1> QED
  BY <1>1, <1>4, <1>6, <1>7, <1>8

LEMMA DropOldInv == ReadersApart /\ Inv /\ WordTypes' /\ DropOld => Inv'
<1> SUFFICES ASSUME ReadersApart, Inv, WordTypes', DropOld PROVE Inv'
  OBVIOUS
<1> USE MaxVersionAssumption, NoVersionAssumption DEF Inv, Versions
<1> DEFINE v == flush.old
<1>1. /\ flush.pc = "drop_old" /\ v \in Versions
      /\ flush' = [flush EXCEPT !.pc = "drop_version", !.old = NoVersion]
      /\ torn' = torn /\ sound' = sound /\ slot' = slot /\ copy' = copy /\ DropRef(v)
  BY DEF DropOld, WordTypes, SlotWords, Replacing
<1>2. "old" \in Holders(v)
  BY <1>1 DEF Holders
<1>3. ASSUME NEW u \in Versions
      PROVE  Holders(u)' = IF u = v THEN Holders(u) \ {"old"} ELSE Holders(u)
  BY <1>1 DEF Holders, WordTypes, ReadersApart, Handles
<1>4. /\ Exact' /\ refs' \in [Versions -> Nat] /\ mem[v] = "live"
      /\ mem' = mem \/ mem' = [mem EXCEPT ![v] = "freed"]
  <2> HIDE DEF Inv, Versions, v
  <2> QED
    BY <1>1, <1>2, <1>3, DropHolder
<1>6. SlotWords'
  BY <1>1 DEF SlotWords, Replacing, WordTypes, Both
<1>7. CopyWords'
  BY <1>1 DEF CopyWords, Replacing, WordTypes
<1>8. BornInOrder'
  <2>1. flush'.version = flush.version
    BY <1>1 DEF WordTypes
  <2>2. mem \in [Versions -> {"unborn", "live", "freed"}] /\ BornInOrder
    BY DEF WordTypes
  <2> HIDE DEF Inv, Versions, v
  <2> QED
    BY <1>1, <1>4, <2>1, <2>2, BornStays
<1> QED
  BY <1>1, <1>4, <1>6, <1>7, <1>8

LEMMA DropVersionInv == ReadersApart /\ Inv /\ WordTypes' /\ DropVersion => Inv'
<1> SUFFICES ASSUME ReadersApart, Inv, WordTypes', DropVersion PROVE Inv'
  OBVIOUS
<1> USE MaxVersionAssumption, NoVersionAssumption DEF Inv, Versions
<1> DEFINE v == flush.version
<1>1. /\ flush.pc = "drop_version" /\ v \in Versions
      /\ flush' = [flush EXCEPT !.pc = "idle"]
      /\ torn' = torn /\ sound' = sound /\ slot' = slot /\ copy' = copy /\ DropRef(v)
  BY DEF DropVersion, WordTypes
<1>2. "version" \in Holders(v)
  BY <1>1 DEF Holders
<1>3. ASSUME NEW u \in Versions
      PROVE  Holders(u)' = IF u = v THEN Holders(u) \ {"version"} ELSE Holders(u)
  BY <1>1 DEF Holders, WordTypes, ReadersApart, Handles
<1>4. /\ Exact' /\ refs' \in [Versions -> Nat] /\ mem[v] = "live"
      /\ mem' = mem \/ mem' = [mem EXCEPT ![v] = "freed"]
  <2> HIDE DEF Inv, Versions, v
  <2> QED
    BY <1>1, <1>2, <1>3, DropHolder
<1>6. SlotWords'
  BY <1>1 DEF SlotWords, Replacing, WordTypes, Both
<1>7. CopyWords'
  BY <1>1 DEF CopyWords, Replacing, WordTypes
<1>8. BornInOrder'
  <2>1. flush'.version = flush.version
    BY <1>1 DEF WordTypes
  <2>2. mem \in [Versions -> {"unborn", "live", "freed"}] /\ BornInOrder
    BY DEF WordTypes
  <2> HIDE DEF Inv, Versions, v
  <2> QED
    BY <1>1, <1>4, <2>1, <2>2, BornStays
<1> QED
  BY <1>1, <1>4, <1>6, <1>7, <1>8

LEMMA ReadInv ==
  ASSUME ReadersApart, Inv, WordTypes', NEW r \in Readers, NEW word \in Both, Read(r, word)
  PROVE  Inv'
<1> USE MaxVersionAssumption, NoVersionAssumption DEF Inv, Versions
<1>1. /\ copy[r].pc \in {"idle", "copy"} /\ copy[r][word] = NoVersion
      /\ torn' = IF copy[r].pc # "copy" /\ slot.px # slot.pi THEN torn \cup {r} ELSE torn
      /\ copy' = [copy EXCEPT ![r] = [@ EXCEPT !.pc = "copy", ![word] = slot[word]]]
      /\ slot' = slot /\ refs' = refs /\ mem' = mem /\ flush' = flush /\ sound' = sound
  BY DEF Read, Copying
<1>3. SlotWords'
  BY <1>1 DEF SlotWords, Replacing
<1>4. CopyWords'
  <2>1. /\ copy'[r].pc = "copy" /\ copy'[r][word] = slot[word]
        /\ \A w \in Both \ {word} : copy'[r][w] = copy[r][w]
    BY <1>1 DEF WordTypes, Both
  <2>2. \A q \in Readers \ {r} : copy'[q] = copy[q] /\ (q \notin torn' <=> q \notin torn)
    BY <1>1 DEF WordTypes
  <2>3. slot[word] <= flush.version
    BY DEF SlotWords
  <2>4. copy[r].pi # NoVersion => copy[r].pi <= flush.version
    BY <1>1 DEF CopyWords
  <2>5. copy'[r].pi # NoVersion => copy'[r].pi <= flush.version
    BY <2>1, <2>3, <2>4 DEF Both
  <2>6. ASSUME r \notin torn'
        PROVE  /\ slot.px = slot.pi
               /\ copy'[r].px \in {NoVersion, slot.px}
               /\ copy'[r].pi \in {NoVersion, slot.pi}
    <3>1. slot.px = slot.pi /\ copy[r].px \in {NoVersion, slot.px}
                            /\ copy[r].pi \in {NoVersion, slot.pi}
      BY <1>1, <2>6 DEF CopyWords
    <3> QED
      BY <2>1, <3>1 DEF Both
  <2>7. CopyWords
    OBVIOUS
  <2> HIDE DEF Inv, Versions
  <2> QED
    BY <1>1, <2>1, <2>2, <2>5, <2>6, <2>7 DEF CopyWords
<1>5. BornInOrder'
  BY <1>1 DEF BornInOrder
<1>6. ASSUME NEW v \in Versions PROVE Holders(v)' = Holders(v)
  BY <1>1 DEF Holders, WordTypes, Both
<1>7. Exact'
  BY <1>1, <1>6 DEF Exact
<1> QED
  BY <1>1, <1>3, <1>4, <1>5, <1>7

\* A block that is still there has an owner, so the count of a copy is exact even
\* if the copy is torn.
LEMMA CountInv ==
  ASSUME ReadersApart, Inv, WordTypes', NEW r \in Readers, Count(r), sound'
  PROVE  Inv'
<1> USE MaxVersionAssumption, NoVersionAssumption DEF Inv, Versions
<1> DEFINE v == copy[r].pi
<1>1. /\ copy[r].pc = "copy" /\ v \in Versions /\ copy[r].px \in Versions
      /\ v <= flush.version /\ mem[v] = "live"
      /\ copy' = [copy EXCEPT ![r].pc = "using"]
      /\ slot' = slot /\ flush' = flush /\ torn' = torn /\ AddRef(v)
  BY DEF Count, Copying, WordTypes, CopyWords
<1>2. r \notin Holders(v) /\ Holders(v) # {}
  <2>1. r \notin Holders(v)
    BY <1>1 DEF Holders, ReadersApart, Handles
  <2>2. Cardinality(Holders(v)) # 0
    BY <1>1 DEF Exact
  <2> QED
    BY <2>1, <2>2, FS_EmptySet
<1>3. ASSUME NEW u \in Versions
      PROVE  Holders(u)' = IF u = v THEN Holders(u) \cup {r} ELSE Holders(u)
  BY <1>1 DEF Holders, WordTypes
<1>4. Exact' /\ refs' \in [Versions -> Nat] /\ mem' = mem
  <2> HIDE DEF Inv, Versions, v
  <2> QED
    BY <1>1, <1>2, <1>3, AddHolder
<1>6. SlotWords'
  BY <1>1 DEF SlotWords, Replacing
<1>7. CopyWords'
  BY <1>1 DEF CopyWords, WordTypes
<1>8. BornInOrder'
  BY <1>1, <1>4 DEF BornInOrder, WordTypes
<1>9. sound' = TRUE
  BY DEF Count
<1> QED
  BY <1>4, <1>6, <1>7, <1>8, <1>9

LEMMA ReleaseInv == ASSUME ReadersApart, Inv, WordTypes', NEW r \in Readers, Release(r) PROVE Inv'
<1> USE MaxVersionAssumption, NoVersionAssumption DEF Inv, Versions
<1> DEFINE v == copy[r].pi
<1>1. /\ copy[r].pc = "using" /\ v \in Versions /\ v <= flush.version
      /\ copy' = [copy EXCEPT ![r] = [pc |-> "idle", px |-> NoVersion, pi |-> NoVersion]]
      /\ slot' = slot /\ flush' = flush /\ DropRef(v) /\ torn' = torn \ {r} /\ sound' = sound
  BY DEF Release, WordTypes, CopyWords
<1>2. r \in Holders(v)
  BY <1>1 DEF Holders
<1>3. ASSUME NEW u \in Versions
      PROVE  Holders(u)' = IF u = v THEN Holders(u) \ {r} ELSE Holders(u)
  BY <1>1 DEF Holders, WordTypes, ReadersApart, Handles
<1>4. /\ Exact' /\ refs' \in [Versions -> Nat] /\ mem[v] = "live"
      /\ mem' = mem \/ mem' = [mem EXCEPT ![v] = "freed"]
  <2> HIDE DEF Inv, Versions, v
  <2> QED
    BY <1>1, <1>2, <1>3, DropHolder
<1>6. SlotWords'
  BY <1>1 DEF SlotWords, Replacing
<1>7. CopyWords'
  BY <1>1 DEF CopyWords, Replacing, WordTypes
<1>8. BornInOrder'
  <2>1. flush'.version = flush.version
    BY <1>1 DEF WordTypes
  <2>2. mem \in [Versions -> {"unborn", "live", "freed"}] /\ BornInOrder
    BY DEF WordTypes
  <2> HIDE DEF Inv, Versions, v
  <2> QED
    BY <1>1, <1>4, <2>1, <2>2, BornStays
<1> QED
  BY <1>1, <1>4, <1>6, <1>7, <1>8

LEMMA StutterInv == Inv /\ UNCHANGED vars => Inv'
<1> SUFFICES ASSUME Inv, UNCHANGED vars PROVE Inv'
  OBVIOUS
<1> USE DEF Inv, vars
<1>1. WordTypes' /\ BornInOrder'
  BY DEF WordTypes, BornInOrder
<1>2. SlotWords' /\ CopyWords'
  BY DEF SlotWords, CopyWords, Replacing
<1>3. ASSUME NEW v \in Versions PROVE Holders(v)' = Holders(v)
  BY DEF Holders
<1>4. Exact'
  BY <1>3 DEF Exact
<1> QED
  BY <1>1, <1>2, <1>4

(* The types and the end of soundness, in every step.                      *)

LEMMA NextTypes == WordTypes /\ sound \in BOOLEAN /\ [Next]_vars
                     => WordTypes' /\ sound' \in BOOLEAN /\ (sound' => sound)
<1> SUFFICES ASSUME WordTypes, sound \in BOOLEAN, [Next]_vars
             PROVE  WordTypes' /\ sound' \in BOOLEAN /\ (sound' => sound)
  OBVIOUS
<1> USE MaxVersionAssumption, NoVersionAssumption
<1>1. ASSUME NEW v, AddRef(v) PROVE refs' \in [Versions -> Int] /\ mem' = mem
  <2>1. refs' = [refs EXCEPT ![v] = @ + 1] /\ mem' = mem /\ refs \in [Versions -> Int]
    BY <1>1 DEF AddRef, WordTypes
  <2>2. CASE v \in Versions
    BY <2>1, <2>2
  <2>3. CASE v \notin Versions
    BY <2>1, <2>3
  <2> QED BY <2>1, <2>2, <2>3
<1>2. ASSUME NEW v, DropRef(v)
      PROVE  refs' \in [Versions -> Int] /\ mem' \in [Versions -> {"unborn", "live", "freed"}]
  <2>1. /\ refs' = [refs EXCEPT ![v] = @ - 1]
        /\ mem' = mem \/ mem' = [mem EXCEPT ![v] = "freed"]
        /\ refs \in [Versions -> Int] /\ mem \in [Versions -> {"unborn", "live", "freed"}]
    BY <1>2 DEF DropRef, WordTypes
  <2>2. CASE v \in Versions
    BY <2>1, <2>2
  <2>3. CASE v \notin Versions
    BY <2>1, <2>3
  <2> QED BY <2>2, <2>3
<1>3. CASE Load
  <2>1. PICK v \in Versions : v = flush.version + 1
    BY <1>3 DEF Load, WordTypes, Versions
  <2>2. /\ flush' = [flush EXCEPT !.pc = "loaded", !.version = v]
        /\ refs' = [refs EXCEPT ![v] = 1] /\ mem' = [mem EXCEPT ![v] = "live"]
        /\ slot' = slot /\ copy' = copy /\ torn' = torn /\ sound' = sound
    BY <1>3, <2>1 DEF Load
  <2>3. refs' \in [Versions -> Int] /\ mem' \in [Versions -> {"unborn", "live", "freed"}]
    BY <2>1, <2>2 DEF WordTypes
  <2>4. WordTypes'
    BY <2>1, <2>2, <2>3 DEF WordTypes
  <2> QED BY <2>2, <2>4
<1>4. CASE LoadFails
  BY <1>4 DEF LoadFails, WordTypes
<1>5. CASE HoldOld
  <2>1. AddRef(slot.pi) /\ slot.pi \in Versions
    BY <1>5 DEF HoldOld, WordTypes, Both
  <2> QED BY <1>1, <1>5, <2>1 DEF HoldOld, WordTypes
<1>6. CASE MakeTemp
  BY <1>1, <1>6 DEF MakeTemp, WordTypes
<1>7. ASSUME NEW word \in Both, Swap(word)
      PROVE  WordTypes' /\ sound' \in BOOLEAN /\ (sound' => sound)
  BY <1>7 DEF Swap, WordTypes
<1>8. CASE DropTemp
  BY <1>2, <1>8 DEF DropTemp, WordTypes
<1>9. CASE DropOld
  BY <1>2, <1>9 DEF DropOld, WordTypes
<1>10. CASE DropVersion
  BY <1>2, <1>10 DEF DropVersion, WordTypes
<1>11. ASSUME NEW r \in Readers, NEW word \in Both, Read(r, word)
       PROVE  WordTypes' /\ sound' \in BOOLEAN /\ (sound' => sound)
  <2> DEFINE Copies == [pc : {"idle", "copy", "using"},
                        px : Versions \cup {NoVersion}, pi : Versions \cup {NoVersion}]
             q == [copy[r] EXCEPT !.pc = "copy", ![word] = slot[word]]
  <2>1. slot[word] \in Versions /\ copy[r] \in Copies
    BY DEF WordTypes
  <2>2. q \in Copies
    <3>1. CASE word = "px"
      BY <2>1, <3>1
    <3>2. CASE word = "pi"
      BY <2>1, <3>2
    <3> QED BY <3>1, <3>2 DEF Both
  <2>3. copy' = [copy EXCEPT ![r] = q]
    BY <1>11 DEF Read
  <2>4. copy' \in [Readers -> Copies]
    BY <2>2, <2>3 DEF WordTypes
  <2>5. torn' \subseteq Readers /\ sound' = sound
    BY <1>11 DEF Read, WordTypes
  <2> QED BY <1>11, <2>4, <2>5 DEF Read, WordTypes
<1>12. ASSUME NEW r \in Readers, Count(r)
       PROVE  WordTypes' /\ sound' \in BOOLEAN /\ (sound' => sound)
  <2>1. sound' = (sound /\ mem[copy[r].pi] = "live")
    BY <1>12 DEF Count
  <2>2. sound' \in BOOLEAN /\ (sound' => sound)
    BY <2>1, Zenon
  <2>3. WordTypes'
    BY <1>1, <1>12 DEF Count, WordTypes
  <2> QED BY <2>2, <2>3
<1>13. ASSUME NEW r \in Readers, Release(r)
       PROVE  WordTypes' /\ sound' \in BOOLEAN /\ (sound' => sound)
  BY <1>2, <1>13 DEF Release, WordTypes
<1>14. CASE UNCHANGED vars
  BY <1>14 DEF vars, WordTypes
<1> QED
  BY <1>3, <1>4, <1>5, <1>6, <1>7, <1>8, <1>9, <1>10, <1>11, <1>12, <1>13, <1>14
  DEF Next, FlushThread, Request

LEMMA NextInv == ReadersApart /\ Inv /\ sound' /\ [Next]_vars => Inv'
<1> SUFFICES ASSUME ReadersApart, Inv, sound', [Next]_vars PROVE Inv'
  OBVIOUS
<1>0. WordTypes'
  <2>1. WordTypes /\ sound \in BOOLEAN
    BY Zenon DEF Inv
  <2> QED
    BY <2>1, NextTypes
<1>1. CASE Load
  BY <1>0, <1>1, LoadInv
<1>2. CASE LoadFails
  BY <1>0, <1>2, LoadFailsInv
<1>3. CASE HoldOld
  BY <1>0, <1>3, HoldOldInv
<1>4. CASE MakeTemp
  BY <1>0, <1>4, MakeTempInv
<1>5. ASSUME NEW word \in Both, Swap(word) PROVE Inv'
  BY <1>0, <1>5, SwapInv
<1>6. CASE DropTemp
  BY <1>0, <1>6, DropTempInv
<1>7. CASE DropOld
  BY <1>0, <1>7, DropOldInv
<1>8. CASE DropVersion
  BY <1>0, <1>8, DropVersionInv
<1>9. ASSUME NEW r \in Readers, Request(r) PROVE Inv'
  <2>1. ASSUME NEW word \in Both, Read(r, word) PROVE Inv'
    BY <1>0, <2>1, ReadInv
  <2>2. CASE Count(r)
    BY <1>0, <2>2, CountInv
  <2>3. CASE Release(r)
    BY <1>0, <2>3, ReleaseInv
  <2> QED
    BY <1>9, <2>1, <2>2, <2>3 DEF Request
<1>10. CASE UNCHANGED vars
  BY <1>10, StutterInv
<1> QED
  BY <1>1, <1>2, <1>3, <1>4, <1>5, <1>6, <1>7, <1>8, <1>9, <1>10 DEF Next, FlushThread

-----------------------------------------------------------------------------
(* What follows from the invariant.                                        *)

\* What is shown, what is being loaded, and what a request uses whose copy met no
\* swap or has counted itself, is in memory.
InUseAlive ==
  /\ Shown \in Versions /\ mem[Shown] = "live"
  /\ flush.pc # "idle" => mem[flush.version] = "live"
  /\ \A r \in Readers : copy[r].pc = "using" =>
       mem[copy[r].pi] = "live" /\ (r \notin torn => copy[r].px = copy[r].pi)

LEMMA InvInUse == ReadersApart /\ Inv => InUseAlive
<1> SUFFICES ASSUME ReadersApart, Inv PROVE InUseAlive
  OBVIOUS
<1>1. ASSUME NEW v \in Versions, NEW h \in Holders(v) PROVE mem[v] = "live"
  <2>1. Cardinality(Holders(v)) # 0
    BY HoldersFinite, FS_EmptySet
  <2>2. refs[v] = Cardinality(Holders(v)) /\ (mem[v] = "live") = (refs[v] > 0)
    BY DEF Inv, Exact
  <2>3. refs[v] \in Nat
    BY DEF Inv, WordTypes
  <2> QED
    BY <2>1, <2>2, <2>3
<1>2. Shown \in Versions /\ mem[Shown] = "live"
  <2>1. CASE slot.px = slot.pi
    <3>1. Shown = slot.pi /\ slot.pi \in Versions
      BY <2>1 DEF Shown, Inv, WordTypes, Both
    <3>2. "slot" \in Holders(slot.pi)
      BY DEF Holders
    <3> QED
      BY <1>1, <3>1, <3>2
  <2>2. CASE slot.px # slot.pi
    <3>1. Shown = flush.old /\ flush.old \in Versions
      BY <2>2 DEF Shown, Inv, SlotWords
    <3>2. "old" \in Holders(flush.old)
      BY DEF Holders
    <3> QED
      BY <1>1, <3>1, <3>2
  <2> QED
    BY <2>1, <2>2
<1>3. ASSUME flush.pc # "idle" PROVE mem[flush.version] = "live"
  <2>1. "version" \in Holders(flush.version) /\ flush.version \in Versions
    BY <1>3 DEF Holders, Inv, WordTypes
  <2> QED
    BY <1>1, <2>1
<1>4. ASSUME NEW r \in Readers, copy[r].pc = "using"
      PROVE  mem[copy[r].pi] = "live" /\ (r \notin torn => copy[r].px = copy[r].pi)
  <2>1. copy[r].pi \in Versions /\ (r \notin torn => copy[r].px = copy[r].pi)
    BY <1>4 DEF Inv, CopyWords
  <2>2. r \in Holders(copy[r].pi)
    BY <1>4 DEF Holders
  <2> QED
    BY <1>1, <2>1, <2>2
<1> QED
  BY <1>2, <1>3, <1>4 DEF InUseAlive

LEMMA SpecInv == ReadersApart /\ Spec => []SlotInv
<1> SUFFICES ASSUME ReadersApart PROVE Spec => []SlotInv
  OBVIOUS
<1>1. Init => SlotInv
  <2>1. Init => Inv
    BY InitInv
  <2>2. Inv => WordTypes /\ sound = TRUE
    BY DEF Inv
  <2> QED BY <2>1, <2>2 DEF SlotInv
<1>2. SlotInv /\ [Next]_vars => SlotInv'
  BY NextInv, NextTypes DEF SlotInv
<1> QED
  BY <1>1, <1>2, PTL DEF Spec

\* The words, the counts and the locals of the threads stay in their types; above
\* all no count, which is a long in the code, is ever dropped below zero, unless
\* a torn copy has counted itself in a freed block.
THEOREM TypesHold == ReadersApart /\ Spec => []TypeOK
<1> SUFFICES ASSUME ReadersApart PROVE Spec => []TypeOK
  OBVIOUS
<1>1. SlotInv => TypeOK
  <2> SUFFICES ASSUME SlotInv PROVE TypeOK
    OBVIOUS
  <2>1. sound => \A v \in Versions : refs[v] >= 0
    BY DEF SlotInv, Inv
  <2> QED
    BY <2>1 DEF SlotInv, WordTypes, TypeOK
<1> QED
  BY <1>1, SpecInv, PTL

\* No count of an owner is lost or added twice, in any interleaving of the eight
\* steps of a flush with the copies and the ends of any number of requests, torn
\* copies of a version that is still there included, and a version is in memory
\* exactly while something owns it.
THEOREM CountsExact == ReadersApart /\ Spec => []RefsExact
<1> SUFFICES ASSUME ReadersApart PROVE Spec => []RefsExact
  OBVIOUS
<1>1. SlotInv => RefsExact
  BY DEF SlotInv, Inv, Exact, RefsExact
<1> QED
  BY <1>1, SpecInv, PTL

\* A request whose own copy met no swap never works on a freed version, whatever
\* the others' torn copies did, short of counting in freed memory.
THEOREM RequestsSafe == ReadersApart /\ Spec => []WholeCopiesSafe
<1> SUFFICES ASSUME ReadersApart PROVE Spec => []WholeCopiesSafe
  OBVIOUS
<1>1. SlotInv => WholeCopiesSafe
  BY InvInUse DEF SlotInv, InUseAlive, WholeCopiesSafe
<1> QED
  BY <1>1, SpecInv, PTL

-----------------------------------------------------------------------------
(* The slot implements the abstract slot.                                  *)

\* The state of the abstract slot, as the refinement mapping of Snapshot gives it.
NextShown == IF slot.px = slot.pi THEN NoVersion ELSE flush.version
Phase == [r \in Readers |-> copy[r].pc]
Held == [r \in Readers |-> IF copy[r].pc = "using" /\ r \notin torn
                           THEN copy[r].px ELSE NoVersion]
Alive == {v \in Versions : mem[v] = "live"}
Used == ({Shown, NextShown} \cup {Held[r] : r \in Readers}) \ {NoVersion}

LEMMA UsedAlive == Inv /\ InUseAlive => Used \subseteq Alive
<1> SUFFICES ASSUME Inv, InUseAlive PROVE Used \subseteq Alive
  OBVIOUS
<1>1. Shown \in Alive
  BY DEF InUseAlive, Alive
<1>2. NextShown # NoVersion => NextShown \in Alive
  BY DEF NextShown, InUseAlive, Alive, Inv, SlotWords, Replacing, WordTypes
<1>3. ASSUME NEW r \in Readers, Held[r] # NoVersion PROVE Held[r] \in Alive
  <2>1. copy[r].pc = "using" /\ r \notin torn /\ Held[r] = copy[r].px
    BY <1>3 DEF Held
  <2>2. copy[r].px \in Versions /\ mem[copy[r].px] = "live"
    BY <2>1 DEF InUseAlive, Inv, CopyWords
  <2> QED
    BY <2>1, <2>2 DEF Alive
<1> QED
  BY <1>1, <1>2, <1>3 DEF Used

\* A step that changes nothing for the readers and at most frees a version gives
\* back one that nobody uses.
LEMMA FreeStep ==
  ASSUME Inv, Used' \subseteq Alive', NEW v \in Versions,
         mem' = mem \/ mem' = [mem EXCEPT ![v] = "freed"],
         Shown' = Shown, NextShown' = NextShown, Phase' = Phase, Held' = Held,
         torn' = torn, sound' = sound
  PROVE  [Snapshot!Next]_(Snapshot!vars)
<1>1. CASE Alive' = Alive
  BY <1>1 DEF Snapshot!vars, Alive, Held, Phase, NextShown
<1>2. CASE Alive' # Alive
  <2>1. v \in Alive /\ Alive' = Alive \ {v}
    BY <1>2 DEF Alive, Inv, WordTypes
  <2>2. Used' = Used
    BY DEF Used
  <2>3. v \notin Used
    BY <2>1, <2>2
  <2>4. Snapshot!Reclaim(v)
    BY <2>1, <2>3 DEF Snapshot!Reclaim, Snapshot!InUse, Used, Held, Alive, NextShown, Phase
  <2> QED
    BY <2>4 DEF Snapshot!Next, Snapshot!Sound, Inv
<1> QED
  BY <1>1, <1>2

LEMMA SameReaders == UNCHANGED <<copy, torn>> => Held' = Held /\ Phase' = Phase
  BY DEF Held, Phase

\* A step while the memory is sound, and stays so.
LEMMA SnapshotStep ==
  Inv /\ InUseAlive /\ Inv' /\ Used' \subseteq Alive' /\ [Next]_vars
    => [Snapshot!Next]_(Snapshot!vars)
<1> SUFFICES ASSUME Inv, InUseAlive, Inv', Used' \subseteq Alive', [Next]_vars
             PROVE  [Snapshot!Next]_(Snapshot!vars)
  OBVIOUS
<1> USE MaxVersionAssumption, NoVersionAssumption
<1>0. sound = TRUE /\ sound' = TRUE /\ sound' = sound
  BY DEF Inv
<1>s. Snapshot!Sound => Snapshot!Next
  BY <1>0 DEF Snapshot!Next
<1>1. CASE Load
  <2>0. PICK v \in Versions : v = flush.version + 1
    BY <1>1 DEF Load, Inv, WordTypes, Versions
  <2>1. /\ flush.pc = "idle" /\ mem' = [mem EXCEPT ![v] = "live"]
        /\ slot' = slot /\ copy' = copy /\ torn' = torn
    BY <1>1, <2>0 DEF Load
  <2>2. ASSUME NEW u \in Alive PROVE u < v
    <3>1. u \in Versions /\ mem[u] # "unborn"
      BY DEF Alive
    <3>2. ~(u > flush.version)
      BY <3>1 DEF Inv, BornInOrder
    <3> QED
      BY <2>0, <3>1, <3>2 DEF Versions, Inv, WordTypes
  <2>3. Alive' = Alive \cup {v}
    BY <2>1 DEF Alive, Inv, WordTypes
  <2>4. Shown' = Shown /\ NextShown' = NextShown
    BY <2>1 DEF Shown, NextShown, Inv, SlotWords, Replacing
  <2>5. Snapshot!Load(v)
    BY <1>0, <2>1, <2>2, <2>3, <2>4, SameReaders
    DEF Snapshot!Load, Alive, Held, Phase, NextShown
  <2> QED
    BY <1>s, <2>5 DEF Snapshot!Sound
<1>2. CASE LoadFails \/ HoldOld \/ MakeTemp
  <2>1. mem' = mem /\ slot' = slot /\ copy' = copy /\ torn' = torn
    BY <1>2 DEF LoadFails, HoldOld, MakeTemp, AddRef
  <2>2. slot.px = slot.pi
    BY <1>2 DEF LoadFails, HoldOld, MakeTemp, Inv, SlotWords, Replacing
  <2>3. Shown' = Shown /\ NextShown' = NextShown
    BY <2>1, <2>2 DEF Shown, NextShown
  <2> QED
    BY <1>0, <2>1, <2>3, SameReaders DEF Snapshot!vars, Held, Phase, NextShown
<1>3. ASSUME NEW word \in Both, Swap(word) PROVE [Snapshot!Next]_(Snapshot!vars)
  <2>1. /\ flush.pc = "swap" /\ mem' = mem /\ copy' = copy /\ flush'.version = flush.version
        /\ flush'.old = flush.old /\ flush'.todo = flush.todo \ {word}
        /\ slot' = [slot EXCEPT ![word] = flush.version] /\ word \in flush.todo
        /\ slot \in [Both -> Versions] /\ flush.todo \subseteq Both
        /\ torn' = torn \cup {r \in Readers : copy[r].pc = "copy"}
    BY <1>3 DEF Swap, Inv, WordTypes, Copying
  <2>2. /\ flush.old < flush.version /\ flush.old \in Versions /\ flush.version \in Versions
        /\ \A w \in Both :
             slot[w] = IF w \in flush.todo THEN flush.old ELSE flush.version
    BY <2>1 DEF Inv, SlotWords, Replacing, WordTypes
  <2>3. flush.old # flush.version /\ flush.version # NoVersion
    BY <2>2 DEF Versions
  <2>4. Shown = flush.old
    BY <2>1, <2>2, <2>3 DEF Shown, Both
  <2>5. Alive' = Alive /\ Phase' = Phase /\ flush.version \in Alive
    BY <2>1, <2>2 DEF Alive, Phase, InUseAlive
  <2>6. Held' = Held
    BY <2>1 DEF Held
  <2>7. CASE flush.todo = {word}
    <3>1. slot.px # slot.pi /\ Shown' = flush.version /\ NextShown = flush.version
          /\ NextShown' = NoVersion
      BY <2>1, <2>2, <2>3, <2>7 DEF Shown, NextShown, Both
    <3>2. torn' = torn
      BY <2>1, <3>1 DEF Inv, CopyWords, WordTypes
    <3>3. Snapshot!End
      BY <1>0, <2>3, <2>5, <2>6, <3>1, <3>2
      DEF Snapshot!End, Alive, Held, Phase, NextShown
    <3> QED
      BY <1>s, <3>3 DEF Snapshot!Sound
  <2>8. CASE flush.todo # {word}
    <3>1. slot.px = slot.pi /\ Shown' = Shown /\ NextShown' = flush.version
          /\ NextShown = NoVersion
      BY <2>1, <2>2, <2>3, <2>4, <2>8 DEF Shown, NextShown, Both, Versions
    <3>2. torn' = torn \cup {r \in Readers : Phase[r] = "copy"}
      BY <2>1 DEF Phase
    <3>3. Shown < flush.version
      BY <2>2, <2>4
    <3>4. Snapshot!Begin(flush.version)
      BY <1>0, <2>5, <2>6, <3>1, <3>2, <3>3
      DEF Snapshot!Begin, Alive, Held, Phase, NextShown
    <3> QED
      BY <1>s, <2>2, <3>4 DEF Snapshot!Sound
  <2> QED
    BY <2>7, <2>8
<1>4. CASE DropTemp \/ DropOld \/ DropVersion
  <2>1. /\ slot' = slot /\ copy' = copy /\ torn' = torn
        /\ DropRef(flush.old) \/ DropRef(flush.version)
        /\ flush.pc \in {"drop_temp", "drop_old", "drop_version"}
        /\ flush.pc = "drop_version" => DropRef(flush.version)
        /\ flush.pc # "drop_version" => DropRef(flush.old)
    BY <1>4 DEF DropTemp, DropOld, DropVersion
  <2>2. slot.px = slot.pi
    BY <2>1 DEF Inv, SlotWords, Replacing, Both
  <2>3. Shown' = Shown /\ NextShown' = NextShown
    BY <2>1, <2>2 DEF Shown, NextShown
  <2>4. PICK v \in Versions : mem' = mem \/ mem' = [mem EXCEPT ![v] = "freed"]
    <3>1. CASE flush.pc = "drop_version"
      BY <2>1, <3>1 DEF DropRef, Inv, WordTypes
    <3>2. CASE flush.pc # "drop_version"
      <4>1. flush.old \in Versions
        BY <2>1, <3>2 DEF Inv, SlotWords, Replacing
      <4> QED BY <2>1, <3>2, <4>1 DEF DropRef
    <3> QED BY <3>1, <3>2
  <2>5. Held' = Held /\ Phase' = Phase
    BY <2>1, SameReaders
  <2> QED
    BY <1>0, <2>1, <2>3, <2>4, <2>5, FreeStep
<1>6. ASSUME NEW r \in Readers, NEW word \in Both, Read(r, word)
      PROVE  [Snapshot!Next]_(Snapshot!vars)
  <2>1. /\ slot' = slot /\ mem' = mem /\ flush' = flush
        /\ copy' = [copy EXCEPT ![r] = [@ EXCEPT !.pc = "copy", ![word] = slot[word]]]
        /\ torn' = IF copy[r].pc # "copy" /\ slot.px # slot.pi THEN torn \cup {r} ELSE torn
        /\ copy[r].pc \in {"idle", "copy"}
    BY <1>6 DEF Read, Copying
  <2>2. Shown' = Shown /\ NextShown' = NextShown /\ Alive' = Alive
    BY <2>1 DEF Shown, NextShown, Alive
  <2>3. copy'[r].pc = "copy" /\ \A q \in Readers \ {r} : copy'[q] = copy[q]
    BY <2>1 DEF Inv, WordTypes, Both
  <2>4. ASSUME NEW q \in Readers PROVE Held'[q] = Held[q]
    BY <2>1, <2>3 DEF Held
  <2>5. Held' = Held
    BY <2>4 DEF Held
  <2>6. Phase' = [Phase EXCEPT ![r] = "copy"]
    <3>1. \A q \in Readers : Phase'[q] = IF q = r THEN "copy" ELSE Phase[q]
      BY <2>3 DEF Phase
    <3> QED
      BY <3>1 DEF Phase
  <2>7. NextShown = NoVersion <=> slot.px = slot.pi
    BY DEF NextShown, Inv, WordTypes
  <2>8. CASE copy[r].pc = "idle"
    <3>1. Phase[r] = "idle" /\ torn' = IF NextShown = NoVersion THEN torn ELSE torn \cup {r}
      BY <2>1, <2>7, <2>8 DEF Phase
    <3>2. Snapshot!Take(r)
      BY <1>0, <2>2, <2>5, <2>6, <3>1 DEF Snapshot!Take, Alive, Held, Phase, NextShown
    <3> QED
      BY <1>s, <3>2 DEF Snapshot!Sound
  <2>9. CASE copy[r].pc = "copy"
    <3>1. torn' = torn /\ Phase' = Phase
      BY <2>1, <2>6, <2>9 DEF Phase
    <3> QED
      BY <1>0, <2>2, <2>5, <3>1 DEF Snapshot!vars, Alive, Held, Phase, NextShown
  <2> QED
    BY <2>1, <2>8, <2>9
<1>7. ASSUME NEW r \in Readers, Count(r) PROVE [Snapshot!Next]_(Snapshot!vars)
  <2>1. /\ copy[r].pc = "copy" /\ copy' = [copy EXCEPT ![r].pc = "using"]
        /\ slot' = slot /\ flush' = flush /\ mem' = mem /\ torn' = torn
        /\ NoVersion \notin {copy[r].px, copy[r].pi}
    BY <1>7 DEF Count, Copying, AddRef
  <2>2. Shown' = Shown /\ NextShown' = NextShown /\ Alive' = Alive
    BY <2>1 DEF Shown, NextShown, Alive
  <2>3. Phase[r] = "copy" /\ Phase' = [Phase EXCEPT ![r] = "using"]
    BY <2>1 DEF Phase, Inv, WordTypes
  <2>4. r \notin torn => copy[r].px = Shown
    BY <2>1 DEF Inv, CopyWords, Shown
  <2>5. copy'[r].pc = "using" /\ copy'[r].px = copy[r].px
        /\ \A q \in Readers \ {r} : copy'[q] = copy[q]
    BY <2>1 DEF Inv, WordTypes
  <2>6. Held' = IF r \in torn THEN Held ELSE [Held EXCEPT ![r] = Shown]
    <3>1. CASE r \in torn
      BY <2>1, <2>5, <3>1 DEF Held
    <3>2. CASE r \notin torn
      <4>1. \A q \in Readers : Held'[q] = IF q = r THEN Shown ELSE Held[q]
        BY <2>1, <2>4, <2>5, <3>2 DEF Held
      <4> QED
        BY <3>2, <4>1 DEF Held
    <3> QED BY <3>1, <3>2
  <2>7. Snapshot!Acquire(r)
    BY <1>0, <2>1, <2>2, <2>3, <2>6 DEF Snapshot!Acquire, Alive, Held, Phase, NextShown
  <2> QED
    BY <1>s, <2>7 DEF Snapshot!Sound
<1>8. ASSUME NEW r \in Readers, Release(r) PROVE [Snapshot!Next]_(Snapshot!vars)
  <2>0. PICK v \in Versions : v = copy[r].pi
    BY <1>8 DEF Release, Inv, CopyWords
  <2>1. /\ copy[r].pc = "using" /\ DropRef(v) /\ torn' = torn \ {r}
        /\ copy' = [copy EXCEPT ![r] = [pc |-> "idle", px |-> NoVersion, pi |-> NoVersion]]
        /\ slot' = slot /\ flush' = flush
    BY <1>8, <2>0 DEF Release
  <2>2. Shown' = Shown /\ NextShown' = NextShown
    BY <2>1 DEF Shown, NextShown
  <2>3. Phase[r] = "using" /\ Phase' = [Phase EXCEPT ![r] = "idle"]
    BY <2>1 DEF Phase, Inv, WordTypes
  <2>4. copy'[r].pc = "idle" /\ \A q \in Readers \ {r} : copy'[q] = copy[q]
    BY <2>1 DEF Inv, WordTypes
  <2>5. Held' = [Held EXCEPT ![r] = NoVersion]
    <3>1. \A q \in Readers : Held'[q] = IF q = r THEN NoVersion ELSE Held[q]
      BY <2>1, <2>4 DEF Held
    <3> QED
      BY <3>1 DEF Held
  <2>6. Alive' = Alive \/ \E u \in Alive \ Used' : Alive' = Alive \ {u}
    <3>1. mem' = mem \/ mem' = [mem EXCEPT ![v] = "freed"]
      BY <2>1 DEF DropRef
    <3>2. CASE Alive' # Alive
      <4>1. v \in Alive /\ Alive' = Alive \ {v}
        BY <3>1, <3>2 DEF Alive, Inv, WordTypes
      <4>2. v \notin Used'
        BY <4>1
      <4> QED BY <4>1, <4>2
    <3> QED BY <3>2
  <2>7. Snapshot!InUse' = Used'
    BY DEF Snapshot!InUse, Used, Held, NextShown
  <2>8. Snapshot!Release(r)
    BY <1>0, <2>1, <2>2, <2>3, <2>5, <2>6, <2>7
    DEF Snapshot!Release, Alive, Held, Phase, NextShown
  <2> QED
    BY <1>s, <2>8 DEF Snapshot!Sound
<1>9. CASE UNCHANGED vars
  <2>1. Shown' = Shown /\ NextShown' = NextShown /\ mem' = mem /\ copy' = copy /\ torn' = torn
    BY <1>9 DEF vars, Shown, NextShown
  <2> QED
    BY <1>0, <2>1, SameReaders DEF Snapshot!vars, Held, Phase, NextShown
<1> QED
  BY <1>1, <1>2, <1>3, <1>4, <1>6, <1>7, <1>8, <1>9
  DEF Next, FlushThread, Request

\* The step that ruins the memory is that of a reader that met a publication, and
\* of a ruined memory nothing is promised.
LEMMA RuinStep ==
  SlotInv /\ InUseAlive /\ sound /\ ~sound' /\ [Next]_vars => [Snapshot!Next]_(Snapshot!vars)
<1> SUFFICES ASSUME SlotInv, InUseAlive, sound, ~sound', [Next]_vars
             PROVE  [Snapshot!Next]_(Snapshot!vars)
  OBVIOUS
<1>1. PICK r \in Readers : Count(r)
  <2>1. sound' # sound
    OBVIOUS
  <2> QED
    BY <2>1 DEF vars, Next, FlushThread, Request, Load, LoadFails, HoldOld, MakeTemp, Swap,
                DropTemp, DropOld, DropVersion, Read, Release
<1>2. copy[r].pc = "copy" /\ mem[copy[r].pi] # "live" /\ NoVersion # copy[r].pi
  BY <1>1 DEF Count, Copying
<1>3. r \in torn
  <2> SUFFICES ASSUME r \notin torn PROVE FALSE
    OBVIOUS
  <2>1. copy[r].pi = slot.pi /\ slot.px = slot.pi
    BY <1>2 DEF SlotInv, Inv, CopyWords
  <2>2. Shown = copy[r].pi
    BY <2>1 DEF Shown
  <2> QED BY <1>2, <2>2 DEF InUseAlive
<1>4. Phase[r] = "copy"
  BY <1>2 DEF Phase
<1>5. sound' = FALSE
  <2>1. sound' = (sound /\ mem[copy[r].pi] = "live")
    BY <1>1 DEF Count
  <2> QED BY <1>2, <2>1
<1>6. Snapshot!Ruin(r)
  BY <1>3, <1>4, <1>5 DEF Snapshot!Ruin, Phase
<1> QED
  BY <1>6 DEF Snapshot!Next, Snapshot!Sound

LEMMA SnapshotStart == Init => Snapshot!Init
<1> SUFFICES ASSUME Init PROVE Snapshot!Init
  OBVIOUS
<1>1. Shown = 0 /\ NextShown = NoVersion
  BY DEF Init, Shown, NextShown
<1>2. Held = [r \in Readers |-> NoVersion] /\ Phase = [r \in Readers |-> "idle"]
  BY DEF Init, Held, Phase
<1>3. Alive = {0}
  BY MaxVersionAssumption DEF Init, Alive, Versions
<1>4. torn = {} /\ sound = TRUE
  BY DEF Init
<1> QED
  BY <1>1, <1>2, <1>3, <1>4 DEF Snapshot!Init, Held, Alive, Phase, NextShown

\* What the invariant says of the memory, for the two states of a step.
Sheltered == sound => InUseAlive /\ Used \subseteq Alive

\* The two words, the counts and the eight steps of a flush are, to the requests,
\* one safe register of versions: who meets no publication has the version shown,
\* and owns it.
THEOREM SlotIsSnapshot == ReadersApart /\ Spec => ImplementsSnapshot
<1> SUFFICES ASSUME ReadersApart PROVE Spec => ImplementsSnapshot
  OBVIOUS
<1>1. Init => Snapshot!Init
  BY SnapshotStart
<1>2. SlotInv => Sheltered
  BY InvInUse, UsedAlive DEF SlotInv, Sheltered
<1>3. SlotInv /\ Sheltered /\ SlotInv' /\ Sheltered' /\ [Next]_vars
        => [Snapshot!Next]_(Snapshot!vars)
  <2> SUFFICES ASSUME SlotInv, Sheltered, SlotInv', Sheltered', [Next]_vars
               PROVE  [Snapshot!Next]_(Snapshot!vars)
    OBVIOUS
  <2>1. CASE ~sound
    <3>1. sound' \in BOOLEAN /\ ~sound'
      BY <2>1, NextTypes DEF SlotInv
    <3>2. sound' = FALSE
      BY <3>1, Zenon
    <3> QED
      BY <2>1, <3>2 DEF Snapshot!Next
  <2>2. CASE sound /\ ~sound'
    BY <2>2, RuinStep DEF Sheltered
  <2>3. CASE sound /\ sound'
    BY <2>3, SnapshotStep DEF SlotInv, Sheltered
  <2> QED
    BY <2>1, <2>2, <2>3
<1> QED
  BY <1>1, <1>2, <1>3, SpecInv, PTL DEF Spec, ImplementsSnapshot, Snapshot!Spec

-----------------------------------------------------------------------------
(* What the abstract slot promises, and the concrete one with it.          *)

\* The promise, with the types that it needs.
SnapshotInv == sound => Shown \in Alive /\ Used \subseteq Alive /\ Alive \subseteq Versions

LEMMA SnapshotInit == Snapshot!Init => SnapshotInv
<1> SUFFICES ASSUME Snapshot!Init PROVE SnapshotInv
  OBVIOUS
<1>1. /\ Shown = 0 /\ NextShown = NoVersion /\ Held = [r \in Readers |-> NoVersion]
      /\ Alive = {0}
  BY DEF Snapshot!Init, Held, Alive, NextShown
<1>2. 0 \in Versions
  BY MaxVersionAssumption DEF Versions
<1> QED BY <1>1, <1>2 DEF SnapshotInv, Used

LEMMA SnapshotNext == SnapshotInv /\ [Snapshot!Next]_(Snapshot!vars) => SnapshotInv'
<1> SUFFICES ASSUME SnapshotInv, [Snapshot!Next]_(Snapshot!vars), sound'
             PROVE  Shown' \in Alive' /\ Used' \subseteq Alive' /\ Alive' \subseteq Versions
  BY DEF SnapshotInv
<1> USE DEF SnapshotInv, Used
<1>1. ASSUME NEW v \in Versions, sound, Snapshot!Load(v)
      PROVE  Shown' \in Alive' /\ Used' \subseteq Alive' /\ Alive' \subseteq Versions
  <2>1. /\ Alive' = Alive \cup {v} /\ Held' = Held /\ Shown' = Shown /\ NextShown' = NextShown
    BY <1>1 DEF Snapshot!Load, Held, Alive, NextShown
  <2> QED BY <1>1, <2>1
<1>2. ASSUME NEW v \in Versions, sound, Snapshot!Begin(v)
      PROVE  Shown' \in Alive' /\ Used' \subseteq Alive' /\ Alive' \subseteq Versions
  <2>1. v \in Alive /\ Alive' = Alive /\ Held' = Held /\ Shown' = Shown /\ NextShown' = v
    BY <1>2 DEF Snapshot!Begin, Held, Alive, NextShown
  <2> QED BY <1>2, <2>1
<1>3. ASSUME NEW v \in Versions, sound, Snapshot!Reclaim(v)
      PROVE  Shown' \in Alive' /\ Used' \subseteq Alive' /\ Alive' \subseteq Versions
  <2>1. /\ v \notin Used /\ Alive' = Alive \ {v} /\ Held' = Held /\ Shown' = Shown
        /\ NextShown' = NextShown
    BY <1>3 DEF Snapshot!Reclaim, Snapshot!InUse, Held, Alive, NextShown
  <2>2. Shown # NoVersion
    BY <1>3, NoVersionAssumption
  <2> QED BY <1>3, <2>1, <2>2
<1>4. ASSUME sound, Snapshot!End
      PROVE  Shown' \in Alive' /\ Used' \subseteq Alive' /\ Alive' \subseteq Versions
  <2>1. /\ NextShown # NoVersion /\ Shown' = NextShown /\ NextShown' = NoVersion
        /\ Alive' = Alive /\ Held' = Held
    BY <1>4 DEF Snapshot!End, Held, Alive, NextShown
  <2> QED BY <1>4, <2>1
<1>5. ASSUME NEW r \in Readers, sound, Snapshot!Take(r)
      PROVE  Shown' \in Alive' /\ Used' \subseteq Alive' /\ Alive' \subseteq Versions
  <2>1. Alive' = Alive /\ Held' = Held /\ Shown' = Shown /\ NextShown' = NextShown
    BY <1>5 DEF Snapshot!Take, Held, Alive, NextShown
  <2> QED BY <1>5, <2>1
<1>6. ASSUME NEW r \in Readers, sound, Snapshot!Acquire(r)
      PROVE  Shown' \in Alive' /\ Used' \subseteq Alive' /\ Alive' \subseteq Versions
  <2>1. /\ Held' = Held \/ Held' = [Held EXCEPT ![r] = Shown]
        /\ Alive' = Alive /\ Shown' = Shown /\ NextShown' = NextShown
    BY <1>6 DEF Snapshot!Acquire, Held, Alive, NextShown
  <2>2. ASSUME NEW q \in Readers PROVE Held'[q] = Held[q] \/ Held'[q] = Shown
    BY <2>1 DEF Held
  <2> QED BY <1>6, <2>1, <2>2
<1>7. ASSUME NEW r \in Readers, sound, Snapshot!Release(r)
      PROVE  Shown' \in Alive' /\ Used' \subseteq Alive' /\ Alive' \subseteq Versions
  <2>1. /\ Held' = [Held EXCEPT ![r] = NoVersion] /\ Shown' = Shown /\ NextShown' = NextShown
        /\ Alive' = Alive \/ \E v \in Alive \ Used' : Alive' = Alive \ {v}
    <3>1. Snapshot!InUse' = Used'
      BY DEF Snapshot!InUse, Held, NextShown
    <3> QED BY <1>7, <3>1 DEF Snapshot!Release, Held, Alive, NextShown
  <2>2. ASSUME NEW q \in Readers PROVE Held'[q] = Held[q] \/ Held'[q] = NoVersion
    BY <2>1 DEF Held
  <2>3. Used' \subseteq Used /\ Shown # NoVersion
    BY <1>7, <2>1, <2>2, NoVersionAssumption
  <2>4. Shown' \in Used'
    BY <2>1, <2>3
  <2> QED BY <1>7, <2>1, <2>3, <2>4
<1>8. ASSUME NEW r \in Readers, Snapshot!Ruin(r) PROVE FALSE
  BY <1>8 DEF Snapshot!Ruin
<1>9. CASE UNCHANGED Snapshot!vars
  <2>1. /\ Held' = Held /\ Alive' = Alive /\ Shown' = Shown /\ NextShown' = NextShown
        /\ sound' = sound
    BY <1>9 DEF Snapshot!vars, Held, Alive, NextShown
  <2> QED BY <2>1
<1>10. CASE ~sound /\ sound' = FALSE
  BY <1>10
<1> QED
  BY <1>1, <1>2, <1>3, <1>4, <1>5, <1>6, <1>7, <1>8, <1>9, <1>10
  DEF Snapshot!Next, Snapshot!Sound

\* Whatever the slot shows, is being published or is held by a request that met
\* no publication is in memory, however flushes and requests interleave: the
\* promise of the abstract slot, which the steps of boost::shared_ptr keep.
THEOREM SnapshotSafe == ReadersApart /\ Spec => []Snapshot!HeldIsAlive
<1> SUFFICES ASSUME ReadersApart PROVE Spec => []Snapshot!HeldIsAlive
  OBVIOUS
<1>1. Snapshot!Spec => []SnapshotInv
  BY SnapshotInit, SnapshotNext, PTL DEF Snapshot!Spec
<1>2. SnapshotInv => Snapshot!HeldIsAlive
  BY DEF Snapshot!HeldIsAlive, Snapshot!InUse, SnapshotInv, Used, Held, Alive, NextShown
<1> QED
  BY <1>1, <1>2, SlotIsSnapshot, PTL DEF ImplementsSnapshot
=============================================================================
