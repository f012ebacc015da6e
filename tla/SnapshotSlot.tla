---------------------------- MODULE SnapshotSlot ----------------------------
(***************************************************************************)
(* What a policy slot of ABDyeingHandler promises to the request threads:  *)
(* the abstract specification that SharedPtrSlot implements.               *)
(*                                                                         *)
(* The slot is a safe register of versions with an owner's rights for its  *)
(* readers.  It shows one version, and another one while that is being     *)
(* published.  A request that takes the version while no publication is    *)
(* under way has the one that is shown, keeps it as long as it likes, and  *)
(* its memory is given back only when the slot shows a later one and no    *)
(* such request holds it.  A request that meets a publication has nothing  *)
(* it could rely on, and may even ruin the memory for everybody.           *)
(***************************************************************************)
EXTENDS Integers

CONSTANTS
  Readers,    \* the request threads
  Versions,   \* the versions of the policy, numbered in the order of loading
  NoVersion   \* no version: held by nobody, published by nobody

\* What the constants have to be.
VersionsNumbered == Versions \subseteq Nat /\ 0 \in Versions /\ NoVersion \notin Versions

VARIABLES
  cur,    \* the version the slot shows
  next,   \* the version that is being published, or NoVersion
  phase,  \* each reader: "idle", taking the version ("copy"), or "using" it
  met,    \* the readers whose taking met a publication
  held,   \* the version of each reader that met none
  alive,  \* the versions in memory
  sound   \* FALSE once a reader that met a publication has ruined the memory

vars == <<cur, next, phase, met, held, alive, sound>>

Init ==
  /\ cur = 0
  /\ next = NoVersion
  /\ phase = [r \in Readers |-> "idle"]
  /\ met = {}
  /\ held = [r \in Readers |-> NoVersion]
  /\ alive = {0}
  /\ sound = TRUE

InUse == ({cur, next} \cup {held[r] : r \in Readers}) \ {NoVersion}

\* A new version is built.
Load(v) ==
  /\ \A u \in alive : u < v
  /\ alive' = alive \cup {v}
  /\ UNCHANGED <<cur, next, phase, met, held, sound>>

\* A version built after the one shown is about to replace it, in the eyes of
\* all who are taking it just now.
Begin(v) ==
  /\ next = NoVersion
  /\ v \in alive
  /\ cur < v
  /\ next' = v
  /\ met' = met \cup {r \in Readers : phase[r] = "copy"}
  /\ UNCHANGED <<cur, phase, held, alive, sound>>

End ==
  /\ next # NoVersion
  /\ cur' = next
  /\ next' = NoVersion
  /\ UNCHANGED <<phase, met, held, alive, sound>>

Take(r) ==
  /\ phase[r] = "idle"
  /\ phase' = [phase EXCEPT ![r] = "copy"]
  /\ met' = IF next = NoVersion THEN met ELSE met \cup {r}
  /\ UNCHANGED <<cur, next, held, alive, sound>>

\* A reader that met no publication holds the version shown.
Acquire(r) ==
  /\ phase[r] = "copy"
  /\ phase' = [phase EXCEPT ![r] = "using"]
  /\ held' = IF r \in met THEN held ELSE [held EXCEPT ![r] = cur]
  /\ UNCHANGED <<cur, next, met, alive, sound>>

\* A reader lets go; the last one to do so may give the memory back.
Release(r) ==
  /\ phase[r] = "using"
  /\ phase' = [phase EXCEPT ![r] = "idle"]
  /\ held' = [held EXCEPT ![r] = NoVersion]
  /\ met' = met \ {r}
  /\ UNCHANGED <<cur, next, sound>>
  /\ \/ alive' = alive
     \/ \E v \in alive \ InUse' : alive' = alive \ {v}

Reclaim(v) ==
  /\ v \in alive \ InUse
  /\ alive' = alive \ {v}
  /\ UNCHANGED <<cur, next, phase, met, held, sound>>

\* A reader that met a publication writes where it must not.
Ruin(r) == phase[r] = "copy" /\ r \in met /\ sound' = FALSE

Sound ==
  \/ \E v \in Versions : Load(v) \/ Begin(v) \/ Reclaim(v)
  \/ End
  \/ \E r \in Readers : Take(r) \/ Acquire(r) \/ Release(r) \/ Ruin(r)

\* Nothing is promised of a ruined memory but that it stays ruined.
Next == (sound /\ Sound) \/ (~sound /\ sound' = FALSE)

Spec == Init /\ [][Next]_vars

-----------------------------------------------------------------------------
\* What is shown, published and held are versions, and so is what is in memory.
TypeOK ==
  /\ cur \in Versions
  /\ next \in Versions \cup {NoVersion}
  /\ phase \in [Readers -> {"idle", "copy", "using"}]
  /\ met \subseteq Readers
  /\ held \in [Readers -> Versions \cup {NoVersion}]
  /\ alive \subseteq Versions
  /\ sound \in BOOLEAN

\* Whatever is shown, published or held by a reader that met no publication is in
\* memory: a flush that replaces a version and a request that ends give back only
\* what nobody else can reach.
HeldIsAlive == sound => InUse \subseteq alive
=============================================================================
