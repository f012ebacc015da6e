------------------------------ MODULE MCPolicies ------------------------------
(***************************************************************************)
(* Model-checking instance of the parts of module Policies: tables, texts  *)
(* and query results, one initial state for the parts that stay, the       *)
(* fairness of the parts, and their liveness.                              *)
(***************************************************************************)
EXTENDS Policies

CONSTANTS a, b, p, q, x, y, k1, k2, t1, t2

\* Tables with gaps, overlaps, a bucket whose configuration has no name, and every
\* choice of product keys; what a key has depends on how long it is.
Bucket(c, s, e) == [conf |-> c, start |-> s, end |-> e]

Divided     == <<Bucket("62", 1, 1), Bucket("63", 2, 2), Bucket("-1", 3, 10)>>
Gapped      == <<Bucket("64", 9, 10), Bucket("", 3, 4)>>
Overlapping == <<Bucket("a", 2, 6), Bucket("b", 4, 8), Bucket("c", 0, 3)>>

TableOf(K) == [k \in K |-> CASE k = <<"default">> -> Gapped
                             [] Len(k) = 1 /\ k # <<"default">> -> Divided
                             [] Len(k) = 2 -> Overlapping
                             [] OTHER -> <<Bucket("d", 0, 9)>>]

AllKeys ==
  {<<"emui">>, <<"emui", "1.1">>, <<"emui", "en">>, <<"emui", "1.1", "en">>, <<"default">>}
AllTables == {TableOf(K) : K \in SUBSET AllKeys}
AllAsks   == [app : {<<"emui">>, <<"coolpad">>}, ver : {<<>>, <<"1.1">>}, lan : {<<>>, <<"en">>}]

\* Lists with a type left out, listed twice, and none; texts that are empty, have
\* one product, two, one twice, and lines that do not parse.
Line(k, fs) == [key |-> k, fields |-> fs]

SomeConfTypes == <<a, b>>
SomeLists == {<<>>, <<b>>, <<b, a>>, <<a, b, a>>}
SomeTexts == {<<>>,
              <<Line(p, <<x>>)>>,
              <<Line(p, <<x>>), Line(q, <<y>>), Line(Bad, <<y>>)>>,
              <<Line(p, <<x>>), Line(p, <<y, Bad>>), Line(q, <<>>)>>}

\* Every result of up to three rows.
SomeRows  == [key : {k1, k2}, timestamp : 0 .. 2, user_type : {t1, t2}]
UpToThree == UNION {[1 .. n -> SomeRows] : n \in 0 .. 3}

MCInit ==
  /\ part \in {"lookup", "load", "table"}
  /\ part = "lookup" \/
       (h_table = TableOf({}) /\ h_ask = [app |-> <<"emui">>, ver |-> <<>>, lan |-> <<>>] /\ h_hv = 0)
  /\ part = "load" \/
       (l_plugin = "white_list" /\ l_list = <<>> /\ l_text = [t \in {a, b} |-> <<>>])
  /\ Init

MCSpec ==
  /\ MCInit /\ [][Next]_vars
  /\ WF_vars(part = "lookup" /\ H!Next /\ UNCHANGED <<part, varsL, varsT>>)
  /\ WF_vars(part = "load" /\ L!FlushThread /\ UNCHANGED <<part, varsH, varsT>>)
------------------------------------------------------------------------------
\* get() returns.
LookupReturns == part = "lookup" => H!Returns

\* After the last edit the slot comes to show what is stored.
LoadConverges == part = "load" => L!Converges
==============================================================================
