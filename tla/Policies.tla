------------------------------ MODULE Policies ------------------------------
(***************************************************************************)
(* The policies side by side: how a lookup uses a table (OnlineHash), how a*)
(* policy is loaded from the configuration center (PolicyLoad), and how the*)
(* table of push users is made of the rows of a query (PushTable).  A      *)
(* behaviour is about one of them, chosen at the start, and the others stay*)
(* where they begin.                                                       *)
(***************************************************************************)
EXTENDS Integers, Sequences

CONSTANTS
  MaxConfigId, Tables, Asks,
  Types, Lists, Texts, ConfTypes, Bad, Plugins, MaxEdits,
  Keys, UserTypes, Results

VARIABLES
  part,  \* the part of the system this behaviour is about
  h_table, h_ask, h_hv, h_pc, h_tried, h_key, h_index, h_confId,
  l_plugin, l_list, l_text, l_edits, l_shown, l_pc, l_todo, l_policy, l_rtval,
  l_first, l_seen, l_steady,
  t_pc, t_records, t_next, t_map, t_ret

H == INSTANCE OnlineHash WITH
  table <- h_table, ask <- h_ask, hv <- h_hv, pc <- h_pc, tried <- h_tried,
  key <- h_key, index <- h_index, confId <- h_confId

L == INSTANCE PolicyLoad WITH
  plugin <- l_plugin, list <- l_list, text <- l_text, edits <- l_edits, shown
  <- l_shown, pc <- l_pc, todo <- l_todo, policy <- l_policy, rtval <-
  l_rtval, first <- l_first, seen <- l_seen, steady <- l_steady

T == INSTANCE PushTable WITH
  pc <- t_pc, records <- t_records, next <- t_next, map <- t_map, ret <- t_ret

ASSUME LookupAssumptions ==
  H!MaxConfigIdAssumption /\ H!BucketsAssumption /\ H!AsksAssumption
ASSUME LoadAssumptions ==
  /\ L!ConfTypesAssumption /\ L!ListsAssumption /\ L!TextsAssumption
  /\ L!PluginsAssumption /\ L!MaxEditsAssumption
ASSUME TableAssumptions == T!ResultsAssumption

varsH == <<h_table, h_ask, h_hv, h_pc, h_tried, h_key, h_index, h_confId>>
varsL == <<l_plugin, l_list, l_text, l_edits, l_shown, l_pc, l_todo, l_policy,
           l_rtval, l_first, l_seen, l_steady>>
varsT == <<t_pc, t_records, t_next, t_map, t_ret>>
vars  == <<part, varsH, varsL, varsT>>

Init == part \in {"lookup", "load", "table"} /\ H!Init /\ L!Init /\ T!Init

Next ==
  \/ part = "lookup" /\ H!Next /\ UNCHANGED <<part, varsL, varsT>>
  \/ part = "load"   /\ L!Next /\ UNCHANGED <<part, varsH, varsT>>
  \/ part = "table"  /\ T!Next /\ UNCHANGED <<part, varsH, varsL>>

Spec == Init /\ [][Next]_vars
-----------------------------------------------------------------------------
\* The parts hold values of their types.
TypesOK == H!TypeOK /\ L!TypeOK /\ T!TypeOK

\* get() computes the configuration its table, request and hash value determine.
LookupComputesConf == H!ComputesConf

\* An app with a product of its own is never given the default one's.
LookupNeverDefaultForOwn == H!NeverDefaultForOwn

\* A type that is configured all the time is served after the first load.
LoadSteadyServed == L!SteadyServed

\* A published policy holds what the nodes held since its load began.
LoadFromThisLoad == L!FromThisLoad

\* A published table has the latest type of every user of the query.
LatestWins == T!LatestWins
=============================================================================
