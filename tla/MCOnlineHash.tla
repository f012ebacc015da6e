---------------------------- MODULE MCOnlineHash ----------------------------
(***************************************************************************)
(* The sample configuration of online_hash.cc:123, with 10 hash values for *)
(* 1000.                                                                   *)
(***************************************************************************)
EXTENDS OnlineHash

Bucket(c, s, e) == [conf |-> c, start |-> s, end |-> e]

Sample     == <<Bucket("62", 1, 1), Bucket("63", 2, 2), Bucket("-1", 3, 10)>>
SampleOnly == {[k \in {<<"emui">>} |-> Sample]}

AllAsks == [app : {<<"emui">>, <<"coolpad">>}, ver : {<<>>, <<"1.1">>}, lan : {<<>>, <<"en">>}]
=============================================================================
