------------------------------ MODULE OnlineHash ------------------------------
(***************************************************************************)
(* DyeingOnlinePlugin::get (src/src/online_hash.cc): which configuration a *)
(* user gets for a business type.  The product is looked up under five     *)
(* keys, from the most to the least specific, then the user's hash picks   *)
(* one of the product's buckets.                                           *)
(*                                                                         *)
(* A string is a sequence of atoms, so that concatenating app, version and *)
(* language does to the keys what it does in the code: "" adds nothing,    *)
(* and different requests may have the same key.  CityHash64 is external:  *)
(* any value may come out of it, and it enters here reduced modulo         *)
(* MaxConfigId.                                                            *)
(***************************************************************************)
EXTENDS Integers, Sequences, FiniteSets

CONSTANTS
  MaxConfigId,  \* max_config_id: how many values the reduced hash has (1000)
  Tables,       \* policies of a business type: product key -> its buckets, a
                \* sequence of [conf, start, end]
  Asks          \* requests: [app, ver, lan]

\* Assumed of the constants by the module that gives them values.
MaxConfigIdAssumption == MaxConfigId \in Nat \ {0}
\* conf_id_infos[0] is read when no bucket matches: a product without a bucket
\* would be undefined behaviour, and is left out.
ConfIdInfo        == [conf : STRING, start : Int, end : Int]
BucketsAssumption ==
  \A t \in Tables : \A p \in DOMAIN t : t[p] \in Seq(ConfIdInfo) /\ t[p] # <<>>
\* A request names its app; the version and the language may be empty.
AsksAssumption ==
  /\ Asks \subseteq [app : Seq(STRING), ver : Seq(STRING), lan : Seq(STRING)]
  /\ \A a \in Asks : a.app # <<>>

Default == <<"default">>

VARIABLES
  table, ask, hv,  \* the policy of the type, the request, the reduced hash
  pc,              \* "product", "scan" or "done"
  tried,           \* keys tried and not found
  key,             \* tmp_product_id
  index,           \* of the loop over conf_id_infos
  confId           \* the answer; "" while there is none

vars == <<table, ask, hv, pc, tried, key, index, confId>>

\* The keys in the order they are tried.
ProductKeys(a) == <<a.app \o a.ver \o a.lan, a.app \o a.lan, a.app \o a.ver, a.app, Default>>

Init ==
  /\ table \in Tables
  /\ ask \in Asks
  /\ hv \in 0 .. MaxConfigId - 1
  /\ pc = "product"
  /\ tried = 0
  /\ key = ProductKeys(ask)[1]
  /\ index = 1
  /\ confId = ""

\* MUTANT of NextKey: the language is given up before the version is tried.
NextKeySkipsVersion == IF tried = 1 THEN 4 ELSE tried + 2

\* The position, among the keys, of the one tried after this one fails.
NextKey == tried + 2

\* One lookup of the chain fails: the next key.
TryNextKey ==
  /\ pc = "product"
  /\ key \notin DOMAIN table
  /\ tried < Len(ProductKeys(ask)) - 1
  /\ key' = ProductKeys(ask)[NextKey]
  /\ tried' = NextKey - 1
  /\ UNCHANGED <<table, ask, hv, pc, index, confId>>

\* Not even a default: get returns false.
NoProduct ==
  /\ pc = "product"
  /\ key \notin DOMAIN table
  /\ tried = Len(ProductKeys(ask)) - 1
  /\ pc' = "done"
  /\ UNCHANGED <<table, ask, hv, tried, key, index, confId>>

FoundProduct ==
  /\ pc = "product"
  /\ key \in DOMAIN table
  /\ pc' = "scan"
  /\ UNCHANGED <<table, ask, hv, tried, key, index, confId>>

\* MUTANT of InBucket: the last value of a bucket is left out.
InBucketExclusive(b) == hv >= b.start /\ hv < b.end

InBucket(b) == hv >= b.start /\ hv <= b.end

\* The loop found this configuration: none, or one without a name, means that of
\* the first bucket.
Named(buckets, c) == IF c = "" THEN buckets[1].conf ELSE c

\* One round of the scan: the first bucket that contains the hash.
ScanMatch ==
  /\ pc = "scan"
  /\ index <= Len(table[key])
  /\ InBucket(table[key][index])
  /\ confId' = Named(table[key], table[key][index].conf)
  /\ pc' = "done"
  /\ UNCHANGED <<table, ask, hv, tried, key, index>>

\* MUTANTS of ScanNext: the loop does not advance; it advances by two.
ScanNextStays ==
  /\ pc = "scan"
  /\ index <= Len(table[key])
  /\ ~InBucket(table[key][index])
  /\ UNCHANGED vars

ScanNextByTwo ==
  /\ pc = "scan"
  /\ index <= Len(table[key])
  /\ ~InBucket(table[key][index])
  /\ index' = index + 2
  /\ UNCHANGED <<table, ask, hv, pc, tried, key, confId>>

ScanNext ==
  /\ pc = "scan"
  /\ index <= Len(table[key])
  /\ ~InBucket(table[key][index])
  /\ index' = index + 1
  /\ UNCHANGED <<table, ask, hv, pc, tried, key, confId>>

\* None contains it: the first bucket.
ScanEnd ==
  /\ pc = "scan"
  /\ index > Len(table[key])
  /\ confId' = Named(table[key], "")
  /\ pc' = "done"
  /\ UNCHANGED <<table, ask, hv, tried, key, index>>

\* get has returned.
Returned == pc = "done" /\ UNCHANGED vars

Next ==
  \/ TryNextKey \/ NoProduct \/ FoundProduct
  \/ ScanMatch \/ ScanNext \/ ScanEnd \/ Returned

Spec == Init /\ [][Next]_vars
FairSpec == Spec /\ WF_vars(Next)

-----------------------------------------------------------------------------
(***************************************************************************)
(* Properties                                                              *)
(***************************************************************************)
\* The key is the one the count of failed lookups says, a scan stays within the
\* product's buckets or stops just past them, and there is an answer only when get
\* has returned true.
TypeOK ==
  /\ table \in Tables /\ ask \in Asks /\ hv \in 0 .. MaxConfigId - 1
  /\ pc \in {"product", "scan", "done"}
  /\ tried \in 0 .. 4 /\ key = ProductKeys(ask)[tried + 1]
  /\ index \in Nat
  /\ pc = "scan" => key \in DOMAIN table /\ index <= Len(table[key]) + 1
  /\ confId # "" => pc = "done" /\ key \in DOMAIN table

\* The buckets get would use: those of the most specific key the table has.
MostSpecific(t, a) ==
  CHOOSE i \in 1 .. 5 :
    /\ ProductKeys(a)[i] \in DOMAIN t
    /\ \A j \in 1 .. i - 1 : ProductKeys(a)[j] \notin DOMAIN t

\* Whether any key is found.
Served(t, a) == \E i \in 1 .. 5 : ProductKeys(a)[i] \in DOMAIN t

\* The configuration a sequence of buckets gives to a hash value.
ConfOf(buckets, h) ==
  LET matches == {i \in DOMAIN buckets : buckets[i].start <= h /\ h <= buckets[i].end}
      first   == IF matches = {} THEN 1 ELSE CHOOSE i \in matches : \A j \in matches : i <= j
  IN  Named(buckets, buckets[first].conf)

\* The chain of lookups and the scan compute this function of their inputs: the
\* most specific product, its first bucket that contains the hash, and its first
\* bucket of all if none does.
ComputesConf ==
  pc = "done" =>
    IF Served(table, ask)
      THEN confId = ConfOf(table[ProductKeys(ask)[MostSpecific(table, ask)]], hv)
      ELSE confId = ""

\* A user of an app that has a product is never given another product's
\* configuration: the default table serves only who has no table of their own.
NeverDefaultForOwn ==
  (pc # "product" /\ key = Default /\ ask.app # Default) =>
     \A k \in {ask.app \o ask.ver \o ask.lan, ask.app \o ask.lan,
               ask.app \o ask.ver, ask.app} : k \notin DOMAIN table

\* The lookup ends.
Returns == <>(pc = "done")

\* README.md:7 promises a distribution in the proportions configured by the
\* buckets, which the sample of online_hash.cc:123 numbers 1 to max_config_id:
\* when the buckets divide 1 .. MaxConfigId, each configuration is given for as
\* many hash values as its buckets are long.
Length(buckets, c) ==
  Cardinality(UNION {buckets[i].start .. buckets[i].end :
                       i \in {j \in DOMAIN buckets : buckets[j].conf = c}})

Proportional ==
  \A p \in DOMAIN table :
    UNION {table[p][i].start .. table[p][i].end : i \in DOMAIN table[p]} = 1 .. MaxConfigId
    => \A i \in DOMAIN table[p] :
         LET c == table[p][i].conf IN
         Cardinality({h \in 0 .. MaxConfigId - 1 : ConfOf(table[p], h) = c})
           = Length(table[p], c)
=============================================================================
