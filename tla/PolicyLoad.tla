----------------------------- MODULE PolicyLoad -----------------------------
(***************************************************************************)
(* How a policy gets from the configuration center to its slot: flushPolicy*)
(* (src/src/dyeing_handler.cc) and the loadConfig, loadInternal and        *)
(* ParseProductPolicy of the online policy (src/src/online_hash.cc), or    *)
(* the loadConfig and loadInternal of the white list                       *)
(* (src/src/white_list.cc), which have the same loop.                      *)
(*                                                                         *)
(* A load reads one node with the list of business types, then one node    *)
(* per type, each with a call of its own, while operators edit the nodes.  *)
(* The result of the load is that of its last type.                        *)
(*                                                                         *)
(* The text of a type's node is a sequence of lines.  A line is            *)
(* [key, fields]: a product and its buckets, or a uid and its              *)
(* configuration.  Splitting on separators is abstracted to its outcome: a *)
(* line may have no key (Bad: it does not split into two), and a field may *)
(* be malformed (Bad).                                                     *)
(***************************************************************************)
EXTENDS Integers, Sequences, FiniteSetsExt

CONSTANTS
  Types,       \* business types
  Lists,       \* possible contents of the node with the list of types
  Texts,       \* possible texts of a type's node
  ConfTypes,   \* _types, of the configuration file
  Bad,         \* a key or a field that does not parse
  Plugins,     \* the plugins to consider
  MaxEdits     \* bound: edits of the operators

\* Assumed of the constants by the module that gives them values.
ConfTypesAssumption == ConfTypes \in Seq(Types) /\ ConfTypes # <<>>
ListsAssumption     == Lists \subseteq Seq(Types)
TextsAssumption     == \A x \in Texts : x \in Seq(Range(x))
PluginsAssumption   == Plugins \subseteq {"online_plugin", "white_list"}
MaxEditsAssumption  == MaxEdits \in Nat

VARIABLES
  plugin,      \* the plugin this is about; it never changes
  list, text,   \* the nodes of the configuration center
  edits,        \* edits so far
  shown,        \* the policy in the slot: type -> key -> value
  pc,           \* of the flush thread: "idle" or "load"
  todo,         \* types the loop has not come to
  policy,       \* the plugin under construction
  rtval,        \* local of loadConfig
  first,        \* the load of init(), whose result is not looked at
  seen,         \* history: the texts each node has had since the load began
  steady        \* history: the types that were listed, with a text that gives
                \* them something, all the time

vars == <<plugin, list, text, edits, shown, pc, todo, policy, rtval, first, seen, steady>>

\* An empty node fails the type in the online policy, not in the white list.
EmptyFails == plugin = "online_plugin"

Nothing == [k \in {} |-> <<>>]

\* A line without a key or without a field is skipped, and so is a malformed
\* field; of two lines with the same key the last one stays.
WellFormed(fields) == SelectSeq(fields, LAMBDA f : f # Bad)

Parsed(lines) ==
  LET good    == {i \in DOMAIN lines : lines[i].key # Bad /\ lines[i].fields # <<>>}
      last(k) == Max({i \in good : lines[i].key = k})
  IN  [k \in {lines[i].key : i \in good} |-> WellFormed(lines[last(k)].fields)]

\* g over f: insertion of every pair of g into the map f.
Over(g, f) == [k \in DOMAIN g \cup DOMAIN f |-> IF k \in DOMAIN g THEN g[k] ELSE f[k]]

\* The types a load goes through: those of the node, or of the file if the node
\* is empty.
TypesRead == IF list = <<>> THEN ConfTypes ELSE list

\* The types with something to show for now.
Configured(l, x) ==
  {t \in Range(IF l = <<>> THEN ConfTypes ELSE l) : DOMAIN Parsed(x[t]) # {}}

-----------------------------------------------------------------------------
Init ==
  /\ plugin \in Plugins
  /\ list \in Lists
  /\ text \in [Types -> Texts]
  /\ edits = 0
  /\ shown = [t \in Types |-> Nothing]
  /\ pc = "idle"
  /\ todo = <<>>
  /\ policy = [t \in Types |-> Nothing]
  /\ rtval = FALSE
  /\ first = TRUE
  /\ seen = [t \in Types |-> {}]
  /\ steady = Configured(list, text)

\* An operator changes a node.
EditList ==
  /\ edits < MaxEdits
  /\ list' \in Lists \ {list}
  /\ steady' = steady \cap Configured(list', text)
  /\ edits' = edits + 1
  /\ UNCHANGED <<plugin, text, shown, pc, todo, policy, rtval, first, seen>>

EditText(t) ==
  /\ edits < MaxEdits
  /\ \E x \in Texts \ {text[t]} :
       /\ text' = [text EXCEPT ![t] = x]
       /\ seen' = [seen EXCEPT ![t] = @ \cup {x}]
  /\ steady' = steady \cap Configured(list, text')
  /\ edits' = edits + 1
  /\ UNCHANGED <<plugin, list, shown, pc, todo, policy, rtval, first>>

\* MUTANT of Begin: the plugin of the last load is filled again.
BeginReused ==
  /\ pc = "idle"
  /\ pc' = "load"
  /\ todo' = TypesRead
  /\ rtval' = FALSE
  /\ seen' = [t \in Types |-> {text[t]}]
  /\ UNCHANGED <<plugin, list, text, edits, shown, policy, first, steady>>

\* A new plugin; the list of types is read.
Begin ==
  /\ pc = "idle"
  /\ pc' = "load"
  /\ todo' = TypesRead
  /\ policy' = [t \in Types |-> Nothing]
  /\ rtval' = FALSE
  /\ seen' = [t \in Types |-> {text[t]}]
  /\ UNCHANGED <<plugin, list, text, edits, shown, first, steady>>

\* MUTANT of LoadInternal: the loop returns with its first type.
LoadInternalReturns ==
  /\ pc = "load"
  /\ todo # <<>>
  /\ LET t == Head(todo) IN
       /\ rtval' = (text[t] # <<>> \/ ~EmptyFails)
       /\ policy' = [policy EXCEPT ![t] = Over(Parsed(text[t]), @)]
  /\ todo' = <<>>
  /\ UNCHANGED <<plugin, list, text, edits, shown, pc, first, seen, steady>>

\* One type: its node is read and parsed into the plugin.  A type that is listed
\* twice is read twice, over what it had.
LoadInternal ==
  /\ pc = "load"
  /\ todo # <<>>
  /\ LET t == Head(todo) IN
       /\ rtval' = (text[t] # <<>> \/ ~EmptyFails)
       /\ policy' = [policy EXCEPT ![t] = Over(Parsed(text[t]), @)]
  /\ todo' = Tail(todo)
  /\ UNCHANGED <<plugin, list, text, edits, shown, pc, first, seen, steady>>

\* MUTANT of End: the plugin is only completed, not replaced.
EndMerges ==
  /\ pc = "load"
  /\ todo = <<>>
  /\ shown' = IF rtval \/ first THEN [t \in Types |-> Over(policy[t], shown[t])] ELSE shown
  /\ pc' = "idle"
  /\ first' = FALSE
  /\ UNCHANGED <<plugin, list, text, edits, todo, policy, rtval, seen, steady>>

\* The slot gets the plugin if the last type was loaded, and in init() always.
End ==
  /\ pc = "load"
  /\ todo = <<>>
  /\ shown' = IF rtval \/ first THEN policy ELSE shown
  /\ pc' = "idle"
  /\ first' = FALSE
  /\ UNCHANGED <<plugin, list, text, edits, todo, policy, rtval, seen, steady>>

FlushThread == Begin \/ LoadInternal \/ End
Operators   == EditList \/ \E t \in Types : EditText(t)
Next == FlushThread \/ Operators

Spec == Init /\ [][Next]_vars

\* The flush thread loads again and again, once a minute.
FairSpec == Spec /\ WF_vars(FlushThread)

-----------------------------------------------------------------------------
(***************************************************************************)
(* Properties                                                              *)
(***************************************************************************)
\* What a policy holds for a type is what some text has for it, or a mixture
\* of such texts; the loop is over types that are listed.
Lines    == UNION {{x[i] : i \in DOMAIN x} : x \in Texts}
LineKeys == {l.key : l \in Lines} \ {Bad}
Values   == {WellFormed(l.fields) : l \in Lines}

PolicyOK(p) ==
  \A t \in Types : DOMAIN p[t] \subseteq LineKeys /\ \A k \in DOMAIN p[t] : p[t][k] \in Values

TypeOK ==
  /\ plugin \in Plugins
  /\ list \in Lists /\ text \in [Types -> Texts] /\ edits \in 0 .. MaxEdits
  /\ DOMAIN shown = Types /\ PolicyOK(shown)
  /\ DOMAIN policy = Types /\ PolicyOK(policy)
  /\ pc \in {"idle", "load"} /\ rtval \in BOOLEAN /\ first \in BOOLEAN
  /\ \E l \in Lists \cup {ConfTypes} : \E n \in 0 .. Len(l) : todo = SubSeq(l, n + 1, Len(l))
  /\ (pc = "idle" => todo = <<>>)
  /\ seen \in [Types -> SUBSET Texts] /\ steady \subseteq Types

\* A policy is made of what the nodes held since its load began, although they
\* are read one by one and edited in between: nothing of an earlier load is left
\* in it.
FromThisLoad ==
  [][shown' # shown =>
       \A t \in Types : \A k \in DOMAIN shown'[t] :
         \E x \in seen[t] : k \in DOMAIN Parsed(x) /\ Parsed(x)[k] = shown'[t][k]]_vars

\* A type that is configured all the time is served all the time, whatever is
\* edited elsewhere, and whichever types fail: a load that leaves it out is not
\* shown.
SteadyServed == ~first => \A t \in steady : DOMAIN shown[t] # {}

\* What the nodes say of the listed types.
Stored ==
  [t \in Types |-> IF t \in Range(TypesRead) THEN Parsed(text[t]) ELSE Nothing]

\* After the last edit the slot comes to show what is stored, unless the last
\* type of the list has an empty node: then no load is shown any more.
Converges == <>[](text[TypesRead[Len(TypesRead)]] # <<>> \/ ~EmptyFails => shown = Stored)

\* "no find set first", says online_hash.cc:207 where no bucket contains the hash:
\* every product in the slot has a first bucket.
FirstExists == \A t \in Types : \A k \in DOMAIN shown[t] : shown[t][k] # <<>>
=============================================================================
