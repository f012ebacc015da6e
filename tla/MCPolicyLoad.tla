---------------------------- MODULE MCPolicyLoad ----------------------------
(***************************************************************************)
(* One load of the online policy, with texts whose product has only        *)
(* malformed buckets.                                                      *)
(***************************************************************************)
EXTENDS PolicyLoad

CONSTANTS a, b, p

SomeLists     == {<<>>, <<b>>, <<b, a>>}
FileTypes     == <<a, b>>
NoBucketTexts == {<<>>, <<[key |-> p, fields |-> <<Bad>>]>>}
=============================================================================
