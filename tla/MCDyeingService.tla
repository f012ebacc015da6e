-------------------------- MODULE MCDyeingService --------------------------
(***************************************************************************)
(* Model-checking instance of DyeingService: which calls are made and what *)
(* the sources may contain.                                                *)
(***************************************************************************)
EXTENDS DyeingService

CONSTANTS u1

One == {u1}

AllTypes == {"biz", "news"}

Ask(app, types) == [uid |-> u1, app |-> app, types |-> types]

\* One user asks on noticias for its special type and for another one; or for
\* nothing; and in batches: empty, of two items, and one too long for MaxBatch = 2.
AllCalls ==
  LET special == Ask("noticias", <<"biz", "news">>)
      other   == Ask("other", <<"news">>)
      single(item)  == [batch |-> FALSE, items |-> <<item>>]
      batch(items)  == [batch |-> TRUE, items |-> items]
  IN  {single(special), single(Ask("noticias", <<>>)),
       batch(<<>>), batch(<<other, other>>), batch(<<other, other, other>>)}

\* A policy that serves everybody by the default table, one with tables for the
\* special products and no default, and one that lost the type news.
SomePolicies ==
  {[t \in AllTypes |-> {"default"}],
   [biz |-> {"new", "recurring"}, news |-> {}]}

WhiteNews == {{}, {<<u1, "news">>}}
UidSets   == {{}, {u1}}
=============================================================================
