---------------------------- MODULE SharedPtrSlot ----------------------------
(***************************************************************************)
(* One policy slot of ABDyeingHandler (_white_list, _online_plugin,        *)
(* _fresh_user or _push_user: src/src/dyeing_handler.h): a                 *)
(* boost::shared_ptr member that one flush thread assigns and every        *)
(* request thread copies, with no lock around either.                      *)
(*                                                                         *)
(* A shared_ptr is two words, the object (px) and the control block (pi)   *)
(* whose use count the copies share.  A copy reads both words, then adds   *)
(* one to the count it found: accesses that nothing makes atomic, and that *)
(* wait for nobody.  An assignment builds a temporary and swaps both words *)
(* with it.  The order of the two reads and of the two swaps is the        *)
(* compiler's choice, so either order is possible.  Counting itself is     *)
(* atomic in boost.                                                        *)
(*                                                                         *)
(* A copy that meets a swap is torn: it may pair the object of one version *)
(* with the count of another, or count itself in a block that is freed by  *)
(* then.  The second writes to memory that is not the slot's any more, and *)
(* nothing is known of the heap from there on: sound is FALSE, and the     *)
(* properties promise nothing.  What they promise until then holds among   *)
(* torn copies too.                                                        *)
(*                                                                         *)
(* The object and the control block of a version are freed together here.  *)
(***************************************************************************)
EXTENDS Integers, FiniteSets

CONSTANTS
  Readers,     \* the request threads
  MaxVersion,  \* bound: the flush thread loads versions 1 .. MaxVersion
  NoVersion    \* an empty shared_ptr, or a word that is not read yet

Versions == 0 .. MaxVersion

ASSUME MaxVersionAssumption == MaxVersion \in Nat
ASSUME NoVersionAssumption  == NoVersion \notin Versions

VARIABLES
  slot,    \* the two words of the member
  refs,    \* use count of each version's control block
  mem,     \* memory of each version
  flush,   \* the flush thread: its locals `version`, `old` and the temporary
  copy,    \* each reader: the two words of its local shared_ptr
  torn,    \* history: the readers whose copy met a swap
  sound    \* history: FALSE once a reader counted itself in a freed block

vars == <<slot, refs, mem, flush, copy, torn, sound>>

Both == {"px", "pi"}

Init ==
  /\ slot = [px |-> 0, pi |-> 0]
  /\ refs = [v \in Versions |-> IF v = 0 THEN 1 ELSE 0]
  /\ mem = [v \in Versions |-> IF v = 0 THEN "live" ELSE "unborn"]
  /\ flush = [pc |-> "idle", version |-> 0, old |-> NoVersion, todo |-> {}]
  /\ copy = [r \in Readers |-> [pc |-> "idle", px |-> NoVersion, pi |-> NoVersion]]
  /\ torn = {}
  /\ sound = TRUE

\* One holder of v more.
AddRef(v) == refs' = [refs EXCEPT ![v] = @ + 1] /\ UNCHANGED mem

\* One holder of v less; the last one frees it.
DropRef(v) ==
  /\ refs' = [refs EXCEPT ![v] = @ - 1]
  /\ mem' = IF refs[v] = 1 THEN [mem EXCEPT ![v] = "freed"] ELSE mem

\* A reader has begun to copy the member and has not counted itself yet.
Copying(r) == copy[r].pc = "copy"

(***************************************************************************)
(* The flush thread                                                        *)
(***************************************************************************)
\* new DyeingXxxPlugin, whose configuration is then loaded.
Load ==
  /\ flush.pc = "idle"
  /\ flush.version < MaxVersion
  /\ LET v == flush.version + 1 IN
       /\ flush' = [flush EXCEPT !.pc = "loaded", !.version = v]
       /\ refs' = [refs EXCEPT ![v] = 1]
       /\ mem' = [mem EXCEPT ![v] = "live"]
  /\ UNCHANGED <<slot, copy, torn, sound>>

\* MUTANT of LoadFails: the version is deleted by hand although `version`
\* still owns it.
LoadFailsDeletes ==
  /\ flush.pc = "loaded"
  /\ DropRef(flush.version)
  /\ flush' = [flush EXCEPT !.pc = "drop_version"]
  /\ UNCHANGED <<slot, copy, torn, sound>>

\* loadConfig returned false: the slot keeps its version.
LoadFails ==
  /\ flush.pc = "loaded"
  /\ flush' = [flush EXCEPT !.pc = "drop_version"]
  /\ UNCHANGED <<slot, refs, mem, copy, torn, sound>>

\* auto old = slot.  No other thread writes the member.
HoldOld ==
  /\ flush.pc = "loaded"
  /\ AddRef(slot.pi)
  /\ flush' = [flush EXCEPT !.pc = "assign", !.old = slot.pi]
  /\ UNCHANGED <<slot, copy, torn, sound>>

\* slot = version: the temporary that boost's assignment swaps with.
MakeTemp ==
  /\ flush.pc = "assign"
  /\ AddRef(flush.version)
  /\ flush' = [flush EXCEPT !.pc = "swap", !.todo = Both]
  /\ UNCHANGED <<slot, copy, torn, sound>>

\* Whoever is copying at that moment has a torn copy.
Swap(word) ==
  /\ flush.pc = "swap"
  /\ word \in flush.todo
  /\ slot' = [slot EXCEPT ![word] = flush.version]
  /\ flush' = [flush EXCEPT !.todo = @ \ {word},
                            !.pc = IF flush.todo = {word} THEN "drop_temp" ELSE "swap"]
  /\ torn' = torn \cup {r \in Readers : Copying(r)}
  /\ UNCHANGED <<refs, mem, copy, sound>>

\* MUTANT of DropTemp: the swapped-out words are forgotten, not released.
DropTempLeaks ==
  /\ flush.pc = "drop_temp"
  /\ flush' = [flush EXCEPT !.pc = "drop_old"]
  /\ UNCHANGED <<slot, refs, mem, copy, torn, sound>>

\* The temporary, which now holds the replaced version, goes.
DropTemp ==
  /\ flush.pc = "drop_temp"
  /\ DropRef(flush.old)
  /\ flush' = [flush EXCEPT !.pc = "drop_old"]
  /\ UNCHANGED <<slot, copy, torn, sound>>

\* MUTANT of DropOld: `old` is a bare pointer that nobody deletes.
DropOldLeaks ==
  /\ flush.pc = "drop_old"
  /\ flush' = [flush EXCEPT !.pc = "drop_version", !.old = NoVersion]
  /\ UNCHANGED <<slot, refs, mem, copy, torn, sound>>

\* `old` goes at the end of the if block.
DropOld ==
  /\ flush.pc = "drop_old"
  /\ DropRef(flush.old)
  /\ flush' = [flush EXCEPT !.pc = "drop_version", !.old = NoVersion]
  /\ UNCHANGED <<slot, copy, torn, sound>>

\* `version` goes when the function returns.
DropVersion ==
  /\ flush.pc = "drop_version"
  /\ DropRef(flush.version)
  /\ flush' = [flush EXCEPT !.pc = "idle"]
  /\ UNCHANGED <<slot, copy, torn, sound>>

(***************************************************************************)
(* A request thread: auto p = _owner->getXxx(), the use of p, its end      *)
(***************************************************************************)
Read(r, word) ==
  /\ copy[r].pc \in {"idle", "copy"}
  /\ copy[r][word] = NoVersion
  /\ torn' = IF ~Copying(r) /\ slot.px # slot.pi THEN torn \cup {r} ELSE torn
  /\ copy' = [copy EXCEPT ![r] = [@ EXCEPT !.pc = "copy", ![word] = slot[word]]]
  /\ UNCHANGED <<slot, refs, mem, flush, sound>>

\* MUTANT of Count: the getter hands out the words without counting.
CountNot(r) ==
  /\ Copying(r)
  /\ NoVersion \notin {copy[r].px, copy[r].pi}
  /\ copy' = [copy EXCEPT ![r].pc = "using"]
  /\ UNCHANGED <<slot, refs, mem, flush, torn, sound>>

\* The count is in whatever block was read, which may be freed by now.
Count(r) ==
  /\ Copying(r)
  /\ NoVersion \notin {copy[r].px, copy[r].pi}
  /\ AddRef(copy[r].pi)
  /\ sound' = (sound /\ mem[copy[r].pi] = "live")
  /\ copy' = [copy EXCEPT ![r].pc = "using"]
  /\ UNCHANGED <<slot, flush, torn>>

\* MUTANT of Release: the words are kept and used for the next request.
ReleaseKeepsWords(r) ==
  /\ copy[r].pc = "using"
  /\ DropRef(copy[r].pi)
  /\ copy' = [copy EXCEPT ![r].pc = "copy"]
  /\ UNCHANGED <<slot, flush, torn, sound>>

Release(r) ==
  /\ copy[r].pc = "using"
  /\ DropRef(copy[r].pi)
  /\ copy' = [copy EXCEPT ![r] = [pc |-> "idle", px |-> NoVersion, pi |-> NoVersion]]
  /\ torn' = torn \ {r}
  /\ UNCHANGED <<slot, flush, sound>>

-----------------------------------------------------------------------------
FlushThread ==
  \/ Load \/ LoadFails \/ HoldOld \/ MakeTemp
  \/ \E word \in Both : Swap(word)
  \/ DropTemp \/ DropOld \/ DropVersion

Request(r) == (\E word \in Both : Read(r, word)) \/ Count(r) \/ Release(r)

Next == FlushThread \/ \E r \in Readers : Request(r)

Spec == Init /\ [][Next]_vars

\* A flush, once begun, runs to its end, and so does a request.
FairSpec ==
  /\ Spec
  /\ WF_vars(FlushThread /\ ~Load)
  /\ \A r \in Readers : WF_vars(Request(r))

-----------------------------------------------------------------------------
(***************************************************************************)
(* Properties                                                              *)
(***************************************************************************)
TypeOK ==
  /\ slot \in [Both -> Versions]
  /\ refs \in [Versions -> Int]
  /\ mem \in [Versions -> {"unborn", "live", "freed"}]
  /\ flush \in [pc : {"idle", "loaded", "assign", "swap", "drop_temp",
                      "drop_old", "drop_version"},
                version : Versions, old : Versions \cup {NoVersion},
                todo : SUBSET Both]
  /\ copy \in [Readers -> [pc : {"idle", "copy", "using"},
                           px : Versions \cup {NoVersion},
                           pi : Versions \cup {NoVersion}]]
  /\ torn \subseteq Readers
  /\ sound \in BOOLEAN
  /\ sound => \A v \in Versions : refs[v] >= 0

\* The shared_ptrs whose control block is that of v.
Holders(v) ==
  {r \in Readers : copy[r].pc = "using" /\ copy[r].pi = v}
  \cup {h \in {"slot", "version", "old", "temp"} :
          \/ h = "slot" /\ slot.pi = v
          \/ /\ h = "version"
             /\ flush.pc # "idle"
             /\ flush.version = v
          \/ h = "old" /\ flush.old = v
          \/ /\ h = "temp"
             /\ \/ flush.pc = "swap" /\ "pi" \in flush.todo /\ flush.version = v
                \/ flush.pc \in {"swap", "drop_temp"} /\ "pi" \notin flush.todo
                                                     /\ flush.old = v}

\* The count of every version is the number of shared_ptrs that own it, and its
\* memory is there exactly while there are some: across the eight steps of a
\* flush and the copies of the readers, the torn ones included, no count is lost
\* or added twice, as long as none was taken in a freed block.
RefsExact ==
  sound => \A v \in Versions :
             /\ refs[v] = Cardinality(Holders(v))
             /\ (mem[v] = "live") = (refs[v] > 0)

\* The lock-free design of the handler (README.md:9, dyeing_handler.cc:193
\* "refcount +1"): a request never works on a version that has been freed, nor
\* has its count in a freed control block.
NoUseAfterFree ==
  \A r \in Readers : copy[r].pc = "using" =>
    mem[copy[r].px] = "live" /\ mem[copy[r].pi] = "live"

\* What the code keeps of that design: a request whose own copy met no swap works
\* on a version that is in memory until the request ends, owned by the count it
\* took, even while other requests have torn copies (dyeing_handler.h:26 against
\* dyeing_handler.cc:178).
WholeCopiesSafe ==
  sound => \A r \in Readers \ torn : copy[r].pc = "using" =>
             copy[r].px = copy[r].pi /\ mem[copy[r].px] = "live"

\* A version that is no longer shown is freed once the requests that use it end,
\* or that counted themselves in it by a torn copy.
OldFreed ==
  \A v \in Versions :
    (v < slot.px /\ mem[v] = "live") ~> (mem[v] = "freed" \/ ~sound)

\* The slot is a SnapshotSlot: the first swap begins the publication of a version,
\* the second one ends it, and a reader has what it has when it has counted itself.
Shown == IF slot.px = slot.pi THEN slot.px ELSE flush.old

Snapshot == INSTANCE SnapshotSlot WITH
  cur   <- Shown,
  next  <- IF slot.px = slot.pi THEN NoVersion ELSE flush.version,
  phase <- [r \in Readers |-> copy[r].pc],
  held  <- [r \in Readers |-> IF copy[r].pc = "using" /\ r \notin torn
                              THEN copy[r].px ELSE NoVersion],
  met   <- torn,
  alive <- {v \in Versions : mem[v] = "live"}

ImplementsSnapshot == Snapshot!Spec
=============================================================================
