--------------------------- MODULE PoliciesProofs ---------------------------
(***************************************************************************)
(* What a lookup computes, what a load shows and which row of a user wins, *)
(* for any tables, requests, texts, edits and query results.               *)
(***************************************************************************)
EXTENDS Policies, SequenceTheorems, WellFoundedInduction, TLAPS

-----------------------------------------------------------------------------
(* The lookup: DyeingOnlinePlugin::get.                                    *)

\* The keys tried were not found, and the buckets passed do not contain the hash.
LookupInv ==
  /\ h_table \in Tables /\ h_ask \in Asks /\ h_hv \in 0 .. MaxConfigId - 1
  /\ h_index \in Nat
  /\ h_tried \in 0 .. 4 /\ h_key = H!ProductKeys(h_ask)[h_tried + 1]
  /\ \A j \in 1 .. h_tried : H!ProductKeys(h_ask)[j] \notin DOMAIN h_table
  /\ h_pc \in {"product", "scan", "done"}
  /\ h_pc = "product" => h_index = 1 /\ h_confId = ""
  /\ h_pc = "scan" =>
       /\ h_key \in DOMAIN h_table /\ h_confId = ""
       /\ h_index \in 1 .. Len(h_table[h_key]) + 1
       /\ \A i \in 1 .. h_index - 1 : ~H!InBucket(h_table[h_key][i])
  /\ h_pc = "done" =>
       IF h_key \in DOMAIN h_table THEN h_confId = H!ConfOf(h_table[h_key], h_hv)
                               ELSE h_tried = 4 /\ h_confId = ""

LEMMA FiveKeys == Len(H!ProductKeys(h_ask)) = 5
  BY DEF H!ProductKeys

\* A product has buckets.
LEMMA ProductBuckets ==
  ASSUME NEW t \in Tables, NEW k \in DOMAIN t
  PROVE  /\ t[k] \in Seq(H!ConfIdInfo)
         /\ Len(t[k]) \in Nat \ {0} /\ DOMAIN t[k] = 1 .. Len(t[k])
<1>1. t[k] \in Seq(H!ConfIdInfo) /\ t[k] # <<>>
  BY LookupAssumptions DEF H!BucketsAssumption
<1>2. Len(t[k]) \in Nat \ {0} /\ DOMAIN t[k] = 1 .. Len(t[k])
  BY <1>1
<1> QED
  BY <1>1, <1>2

\* The first bucket that contains the hash, and the first of all if none does.
LEMMA ConfOfMatch ==
  ASSUME NEW s, Len(s) \in Nat, DOMAIN s = 1 .. Len(s), NEW h, NEW i \in DOMAIN s,
         s[i].start <= h, h <= s[i].end,
         \A j \in 1 .. i - 1 : ~(s[j].start <= h /\ h <= s[j].end)
  PROVE  H!ConfOf(s, h) = H!Named(s, s[i].conf)
<1> DEFINE matches == {j \in DOMAIN s : s[j].start <= h /\ h <= s[j].end}
<1>1. i \in matches /\ \A j \in matches : i <= j
  OBVIOUS
<1>2. \A k \in matches : (\A j \in matches : k <= j) => k = i
  BY <1>1
<1>3. (CHOOSE k \in matches : \A j \in matches : k <= j) = i
  <2> HIDE DEF matches
  <2> QED
    BY <1>1, <1>2
<1> QED
  BY <1>1, <1>3 DEF H!ConfOf

LEMMA ConfOfNone ==
  ASSUME NEW s, NEW h, \A j \in DOMAIN s : ~(s[j].start <= h /\ h <= s[j].end)
  PROVE  H!ConfOf(s, h) = H!Named(s, "")
<1>1. {j \in DOMAIN s : s[j].start <= h /\ h <= s[j].end} = {}
  OBVIOUS
<1>2. H!ConfOf(s, h) = H!Named(s, s[1].conf)
  BY <1>1 DEF H!ConfOf
<1> QED
  BY <1>2 DEF H!Named

LEMMA PastTheEnd ==
  ASSUME NEW n \in Nat, NEW i \in 1 .. n + 1, ~(i <= n) PROVE i = n + 1
  OBVIOUS

\* The first four keys are those of the app.
LEMMA OwnKeys ==
  \A k : (\E j \in 1 .. 4 : k = H!ProductKeys(h_ask)[j])
         <=> k \in {h_ask.app \o h_ask.ver \o h_ask.lan, h_ask.app \o h_ask.lan,
                   h_ask.app \o h_ask.ver, h_ask.app}
<1> DEFINE a1 == h_ask.app \o h_ask.ver \o h_ask.lan
           a2 == h_ask.app \o h_ask.lan
           a3 == h_ask.app \o h_ask.ver
           a4 == h_ask.app
<1>1. H!ProductKeys(h_ask) = <<a1, a2, a3, a4, H!Default>>
  BY DEF H!ProductKeys
<1> SUFFICES \A k : (\E j \in 1 .. 4 : k = H!ProductKeys(h_ask)[j]) <=> k \in {a1, a2, a3, a4}
  OBVIOUS
<1> HIDE DEF a1, a2, a3, a4
<1> QED
  BY <1>1

LEMMA Regroup ==
  ASSUME NEW S, NEW r \in Seq(S), NEW s \in Seq(S), NEW t \in Seq(S)
  PROVE  r \o s \o t = r \o (s \o t) /\ s \o t \in Seq(S)
<1>1. s \o t \in Seq(S)
  OBVIOUS
<1>2. r \o s \o t = r \o (s \o t)
  BY ConcatAssociative
<1> QED
  BY <1>1, <1>2

LEMMA LookupInit == H!Init => LookupInv
<1> SUFFICES ASSUME H!Init PROVE LookupInv
  OBVIOUS
<1>1. /\ h_table \in Tables /\ h_pc = "product" /\ h_tried = 0 /\ h_index = 1 /\ h_confId = ""
      /\ h_key = H!ProductKeys(h_ask)[1]
      /\ h_ask \in Asks /\ h_hv \in 0 .. MaxConfigId - 1
  BY DEF H!Init
<1>2. h_tried \in 0 .. 4 /\ h_tried + 1 = 1 /\ \A j \in 1 .. h_tried : FALSE
  <2>1. h_tried = 0
    BY <1>1
  <2>2. 0 \in 0 .. 4 /\ 0 + 1 = 1 /\ \A j \in 1 .. 0 : FALSE
    OBVIOUS
  <2> QED
    BY <2>1, <2>2
<1>3. h_key = H!ProductKeys(h_ask)[h_tried + 1]
  BY <1>1, <1>2
<1>4. h_index \in Nat
  BY <1>1
<1> QED
  BY <1>1, <1>2, <1>3, <1>4 DEF LookupInv

LEMMA LookupNext == LookupInv /\ [H!Next]_(H!vars) => LookupInv'
<1> SUFFICES ASSUME LookupInv, [H!Next]_(H!vars) PROVE LookupInv'
  OBVIOUS
<1>a. /\ h_table \in Tables /\ h_ask \in Asks /\ h_hv \in 0 .. MaxConfigId - 1
      /\ h_index \in Nat
  BY DEF LookupInv
<1>0. h_tried \in 0 .. 4 /\ \A j \in 1 .. h_tried : H!ProductKeys(h_ask)[j] \notin DOMAIN h_table
  BY DEF LookupInv
<1>1. CASE H!TryNextKey
  <2>1. /\ h_table' = h_table /\ h_ask' = h_ask /\ h_hv' = h_hv /\ h_pc' = h_pc /\ h_index' = h_index
        /\ h_confId' = h_confId /\ h_pc = "product" /\ h_key \notin DOMAIN h_table
        /\ h_tried' = h_tried + 1 /\ h_tried' \in 0 .. 4
        /\ h_key' = H!ProductKeys(h_ask)[h_tried + 2]
    <3>1. h_tried < 4 /\ H!NextKey - 1 = h_tried + 1
      BY <1>0, <1>1, FiveKeys DEF H!TryNextKey, H!NextKey
    <3> QED
      BY <1>0, <1>1, <3>1 DEF H!TryNextKey, H!NextKey
  <2>2. \A j \in 1 .. h_tried' : H!ProductKeys(h_ask)[j] \notin DOMAIN h_table
    <3>1. \A j \in 1 .. h_tried + 1 : j \in 1 .. h_tried \/ j = h_tried + 1
      BY <1>0
    <3>2. H!ProductKeys(h_ask)[h_tried + 1] \notin DOMAIN h_table
      BY <2>1 DEF LookupInv
    <3> QED
      BY <1>0, <2>1, <3>1, <3>2
  <2>3. H!ProductKeys(h_ask)' = H!ProductKeys(h_ask)
    BY <2>1 DEF H!ProductKeys
  <2>4. h_key' = H!ProductKeys(h_ask)[h_tried' + 1]
    <3>1. h_tried' + 1 = h_tried + 2
      BY <1>0, <2>1
    <3> QED
      BY <2>1, <3>1
  <2> QED
    BY <1>a, <2>1, <2>2, <2>3, <2>4 DEF LookupInv
<1>2. CASE H!NoProduct
  <2>1. h_tried = 4
    BY <1>0, <1>2, FiveKeys DEF H!NoProduct
  <2>2. H!ProductKeys(h_ask)' = H!ProductKeys(h_ask)
    BY <1>2 DEF H!NoProduct, H!ProductKeys
  <2>3. /\ h_table' = h_table /\ h_ask' = h_ask /\ h_hv' = h_hv /\ h_tried' = h_tried
        /\ h_key' = h_key /\ h_index' = h_index /\ h_confId' = h_confId
        /\ h_pc = "product" /\ h_pc' = "done" /\ h_key \notin DOMAIN h_table
    BY <1>2 DEF H!NoProduct
  <2> QED
    BY <1>a, <2>1, <2>2, <2>3 DEF LookupInv
<1>3. CASE H!FoundProduct
  <2>1. H!ProductKeys(h_ask)' = H!ProductKeys(h_ask)
    BY <1>3 DEF H!FoundProduct, H!ProductKeys
  <2>2. h_key \in DOMAIN h_table /\ Len(h_table[h_key]) \in Nat
    BY <1>a, <1>3, ProductBuckets DEF H!FoundProduct
  <2>3. h_index = 1
    BY <1>3 DEF H!FoundProduct, LookupInv
  <2>4. h_index \in 1 .. Len(h_table[h_key]) + 1 /\ \A i \in 1 .. h_index - 1 : FALSE
    BY <2>2, <2>3
  <2>5. /\ h_table' = h_table /\ h_tried' = h_tried /\ h_key' = h_key /\ h_index' = h_index
        /\ h_confId' = h_confId /\ h_pc = "product" /\ h_pc' = "scan"
        /\ h_ask' = h_ask /\ h_hv' = h_hv
    BY <1>3 DEF H!FoundProduct
  <2> QED
    BY <1>a, <2>1, <2>2, <2>4, <2>5 DEF LookupInv
<1>4. ASSUME h_pc = "scan"
      PROVE  /\ h_key \in DOMAIN h_table /\ Len(h_table[h_key]) \in Nat
             /\ DOMAIN h_table[h_key] = 1 .. Len(h_table[h_key])
             /\ h_index \in 1 .. Len(h_table[h_key]) + 1
             /\ \A i \in 1 .. h_index - 1 : ~H!InBucket(h_table[h_key][i])
  BY <1>4, ProductBuckets DEF LookupInv
<1>5. CASE H!ScanMatch
  <2>1. /\ h_table' = h_table /\ h_ask' = h_ask /\ h_hv' = h_hv /\ h_tried' = h_tried /\ h_key' = h_key
        /\ h_pc = "scan" /\ h_pc' = "done" /\ h_index \in 1 .. Len(h_table[h_key])
        /\ h_index' = h_index
        /\ H!InBucket(h_table[h_key][h_index]) /\ h_confId' = H!Named(h_table[h_key], h_table[h_key][h_index].conf)
    BY <1>4, <1>5 DEF H!ScanMatch
  <2>2. h_confId' = H!ConfOf(h_table[h_key], h_hv)
    <3>1. ASSUME NEW s, s = h_table[h_key] PROVE H!ConfOf(s, h_hv) = H!Named(s, s[h_index].conf)
      BY <1>4, <2>1, <3>1, ConfOfMatch DEF H!InBucket
    <3> QED
      BY <2>1, <3>1
  <2>3. H!ProductKeys(h_ask)' = H!ProductKeys(h_ask)
    BY <2>1 DEF H!ProductKeys
  <2>4. H!ConfOf(h_table[h_key], h_hv)' = H!ConfOf(h_table[h_key], h_hv)
    BY <2>1
  <2> QED
    BY <1>a, <1>4, <2>1, <2>2, <2>3, <2>4 DEF LookupInv
<1>6. CASE H!ScanNext
  <2>1. /\ h_table' = h_table /\ h_ask' = h_ask /\ h_hv' = h_hv /\ h_tried' = h_tried /\ h_key' = h_key
        /\ h_pc = "scan" /\ h_pc' = "scan" /\ h_index \in 1 .. Len(h_table[h_key])
        /\ ~H!InBucket(h_table[h_key][h_index]) /\ h_confId' = h_confId /\ h_index' = h_index + 1
    BY <1>4, <1>6 DEF H!ScanNext
  <2>2. \A i \in 1 .. h_index' - 1 : ~H!InBucket(h_table[h_key][i])
    <3>1. \A i \in 1 .. h_index' - 1 : i \in 1 .. h_index - 1 \/ i = h_index
      BY <1>4, <2>1
    <3> QED
      BY <1>4, <2>1, <3>1
  <2>3. \A b : H!InBucket(b)' = H!InBucket(b)
    BY <2>1 DEF H!InBucket
  <2>4. H!ProductKeys(h_ask)' = H!ProductKeys(h_ask)
    BY <2>1 DEF H!ProductKeys
  <2>5. h_index' \in 1 .. Len(h_table[h_key]) + 1
    BY <1>4, <2>1
  <2> QED
    <3>1. h_index' \in Nat
      BY <1>4, <2>1
    <3>2. \A i \in 1 .. h_index' - 1 : ~H!InBucket(h_table[h_key][i])'
      BY <2>1, <2>2, <2>3
    <3>3. h_confId' = ""
      BY <2>1 DEF LookupInv
    <3> QED
      BY <1>a, <1>4, <2>1, <2>3, <2>4, <2>5, <3>1, <3>2, <3>3 DEF LookupInv
<1>7. CASE H!ScanEnd
  <2>1. /\ h_table' = h_table /\ h_ask' = h_ask /\ h_hv' = h_hv /\ h_tried' = h_tried /\ h_key' = h_key
        /\ h_pc = "scan" /\ h_pc' = "done" /\ h_index' = h_index
        /\ h_index > Len(h_table[h_key])
    BY <1>7 DEF H!ScanEnd
  <2>7. h_confId' = H!Named(h_table[h_key], "")
    BY <1>7 DEF H!ScanEnd
  <2>6. h_index = Len(h_table[h_key]) + 1
    <3>1. Len(h_table[h_key]) \in Nat /\ h_index \in 1 .. Len(h_table[h_key]) + 1
      BY <1>4, <2>1
    <3> QED
      BY <2>1, <3>1, PastTheEnd
  <2>2. \A i \in DOMAIN h_table[h_key] : ~H!InBucket(h_table[h_key][i])
    <3>1. h_index - 1 = Len(h_table[h_key])
      BY <1>4, <2>1, <2>6
    <3> QED
      BY <1>4, <2>1, <3>1
  <2>3. h_confId' = H!ConfOf(h_table[h_key], h_hv)
    <3>1. \A j \in DOMAIN h_table[h_key] :
            ~(h_table[h_key][j].start <= h_hv /\ h_hv <= h_table[h_key][j].end)
      BY <1>a, <2>2 DEF H!InBucket
    <3> QED
      BY <2>7, <3>1, ConfOfNone
  <2>4. H!ConfOf(h_table[h_key], h_hv)' = H!ConfOf(h_table[h_key], h_hv)
    BY <2>1
  <2>5. H!ProductKeys(h_ask)' = H!ProductKeys(h_ask)
    BY <2>1 DEF H!ProductKeys
  <2> QED
    BY <1>a, <1>4, <2>1, <2>3, <2>4, <2>5, <2>6 DEF LookupInv
<1>8. CASE UNCHANGED H!vars
  <2>1. H!ProductKeys(h_ask)' = H!ProductKeys(h_ask) /\ H!ConfOf(h_table[h_key], h_hv)' = H!ConfOf(h_table[h_key], h_hv)
    BY <1>8 DEF H!vars, H!ProductKeys, H!ConfOf, H!Named
  <2> QED
    BY <1>8, <2>1 DEF H!vars, LookupInv, H!InBucket
<1> QED
  BY <1>1, <1>2, <1>3, <1>5, <1>6, <1>7, <1>8 DEF H!Next, H!Returned

\* What LookupInv says at the end is what get is meant to compute.
LEMMA LookupEnds == LookupInv => H!ComputesConf
<1> SUFFICES ASSUME LookupInv, h_pc = "done"
             PROVE  IF H!Served(h_table, h_ask)
                      THEN h_confId = H!ConfOf(h_table[H!ProductKeys(h_ask)[H!MostSpecific(h_table, h_ask)]], h_hv)
                      ELSE h_confId = ""
  BY DEF H!ComputesConf
<1>1. /\ h_tried \in 0 .. 4 /\ h_key = H!ProductKeys(h_ask)[h_tried + 1]
      /\ \A j \in 1 .. h_tried : H!ProductKeys(h_ask)[j] \notin DOMAIN h_table
  BY DEF LookupInv
<1>2. CASE h_key \in DOMAIN h_table
  <2> DEFINE n == h_tried + 1
             First(i) == /\ H!ProductKeys(h_ask)[i] \in DOMAIN h_table
                         /\ \A j \in 1 .. i - 1 : H!ProductKeys(h_ask)[j] \notin DOMAIN h_table
  <2>1. n \in 1 .. 5 /\ First(n)
    BY <1>1, <1>2
  <2>2. \A i \in 1 .. 5 : First(i) => i = n
    <3> SUFFICES ASSUME NEW i \in 1 .. 5, First(i), i # n PROVE FALSE
      OBVIOUS
    <3>1. CASE i < n
      BY <2>1, <3>1
    <3>2. CASE n < i
      BY <2>1, <3>2
    <3> QED
      BY <2>1, <3>1, <3>2
  <2>3. H!MostSpecific(h_table, h_ask) = n
    <3>1. H!MostSpecific(h_table, h_ask) = CHOOSE i \in 1 .. 5 : First(i)
      BY DEF H!MostSpecific
    <3> HIDE DEF n, First
    <3> QED
      BY <2>1, <2>2, <3>1
  <2>4. H!Served(h_table, h_ask)
    BY <2>1 DEF H!Served
  <2>5. h_confId = H!ConfOf(h_table[h_key], h_hv)
    BY <1>2 DEF LookupInv
  <2> QED
    BY <1>1, <2>3, <2>4, <2>5
<1>3. CASE h_key \notin DOMAIN h_table
  <2>1. h_tried = 4
    BY <1>3 DEF LookupInv
  <2>2. ~H!Served(h_table, h_ask)
    <3> SUFFICES ASSUME NEW i \in 1 .. 5 PROVE H!ProductKeys(h_ask)[i] \notin DOMAIN h_table
      BY DEF H!Served
    <3>1. i \in 1 .. 4 \/ i = 5
      OBVIOUS
    <3>2. h_key = H!ProductKeys(h_ask)[5]
      <4>1. h_tried = 4 /\ 4 + 1 = 5
        BY <2>1
      <4> QED
        BY <1>1, <4>1
    <3>3. \A j \in 1 .. 4 : H!ProductKeys(h_ask)[j] \notin DOMAIN h_table
      BY <1>1, <2>1
    <3> QED
      BY <1>3, <3>1, <3>2, <3>3
  <2>3. h_confId = ""
    BY <1>3 DEF LookupInv
  <2> QED
    BY <2>2, <2>3
<1> QED
  BY <1>2, <1>3

\* An app with a product of its own does not get to the default one: were its key
\* found earlier, some key of the request would spell the name of the default.
LEMMA LookupOwn == LookupInv => H!NeverDefaultForOwn
<1> SUFFICES ASSUME LookupInv, h_pc # "product", h_key = H!Default, h_ask.app # H!Default
             PROVE  \A k \in {h_ask.app \o h_ask.ver \o h_ask.lan, h_ask.app \o h_ask.lan,
                              h_ask.app \o h_ask.ver, h_ask.app} : k \notin DOMAIN h_table
  BY DEF H!NeverDefaultForOwn
<1>1. /\ h_tried \in 0 .. 4 /\ h_key = H!ProductKeys(h_ask)[h_tried + 1]
      /\ \A j \in 1 .. h_tried : H!ProductKeys(h_ask)[j] \notin DOMAIN h_table
  BY DEF LookupInv
<1>2. /\ h_ask.app \in Seq(STRING) /\ h_ask.ver \in Seq(STRING) /\ h_ask.lan \in Seq(STRING)
      /\ h_ask.app # <<>>
  BY LookupAssumptions DEF LookupInv, H!AsksAssumption
<1>3. ASSUME NEW s \in Seq(STRING), h_ask.app \o s = H!Default PROVE FALSE
  <2>1. Len(h_ask.app) \in Nat \ {0} /\ Len(s) \in Nat
    BY <1>2
  <2>2. Len(h_ask.app \o s) = Len(h_ask.app) + Len(s)
    BY <1>2
  <2>3. Len(H!Default) = 1
    BY DEF H!Default
  <2>4. Len(s) = 0
    BY <1>3, <2>1, <2>2, <2>3
  <2>5. s = <<>>
    BY <2>4
  <2>6. h_ask.app \o s = h_ask.app
    BY <1>2, <2>5
  <2> QED
    BY <1>3, <2>6
<1>4. h_tried = 4
  <2>1. /\ h_ask.app \o h_ask.lan # H!Default /\ h_ask.app \o h_ask.ver # H!Default
    BY <1>2, <1>3
  <2>2. h_ask.app \o h_ask.ver \o h_ask.lan # H!Default
    <3>1. /\ h_ask.ver \o h_ask.lan \in Seq(STRING)
          /\ h_ask.app \o h_ask.ver \o h_ask.lan = h_ask.app \o (h_ask.ver \o h_ask.lan)
      <4> DEFINE r == h_ask.app
                 s == h_ask.ver
                 t == h_ask.lan
                 X == STRING
      <4>1. r \in Seq(X) /\ s \in Seq(X) /\ t \in Seq(X)
        BY <1>2
      <4>2. r \o s \o t = r \o (s \o t) /\ s \o t \in Seq(X)
        <5> HIDE DEF r, s, t, X
        <5> QED
          BY <4>1, Regroup
      <4> QED
        BY <4>2
    <3> QED
      BY <1>3, <3>1, Zenon
  <2>3. \A j \in 1 .. 4 : H!ProductKeys(h_ask)[j] # H!Default
    <3>1. H!Default \notin {h_ask.app \o h_ask.ver \o h_ask.lan, h_ask.app \o h_ask.lan,
                           h_ask.app \o h_ask.ver, h_ask.app}
      BY <2>1, <2>2
    <3> QED
      BY <3>1, OwnKeys
  <2>4. ASSUME h_tried < 4 PROVE FALSE
    <3>1. h_tried + 1 \in 1 .. 4
      BY <1>1, <2>4
    <3> QED
      BY <1>1, <2>3, <3>1
  <2> QED
    BY <1>1, <2>4
<1>5. \A j \in 1 .. 4 : H!ProductKeys(h_ask)[j] \notin DOMAIN h_table
  BY <1>1, <1>4
<1> QED
  BY <1>5, OwnKeys

LEMMA LookupTypes == LookupInv => H!TypeOK
<1> SUFFICES ASSUME LookupInv PROVE H!TypeOK
  OBVIOUS
<1>1. h_pc = "scan" => h_key \in DOMAIN h_table /\ h_index <= Len(h_table[h_key]) + 1
  <2> SUFFICES ASSUME h_pc = "scan"
               PROVE  h_key \in DOMAIN h_table /\ h_index <= Len(h_table[h_key]) + 1
    OBVIOUS
  <2>1. h_key \in DOMAIN h_table /\ h_table \in Tables /\ h_index \in 1 .. Len(h_table[h_key]) + 1
    BY DEF LookupInv
  <2> QED
    BY <2>1, ProductBuckets
<1>2. h_confId # "" => h_pc = "done" /\ h_key \in DOMAIN h_table
  BY DEF LookupInv
<1> QED
  BY <1>1, <1>2 DEF LookupInv, H!TypeOK

-----------------------------------------------------------------------------
(* The load: flushPolicy and loadConfig.                                   *)

\* A set of naturals has a least element, and one with a bound a greatest.
LEMMA Least ==
  ASSUME NEW I \in SUBSET Nat, I # {}
  PROVE  \E i \in I : \A j \in I : i <= j
<1>1. PICK i \in I : \A j \in I : ~ (<<j, i>> \in OpToRel(<, Nat))
  BY WFMin, NatLessThanWellFounded
<1>2. ASSUME NEW j \in I, ~(i <= j) PROVE FALSE
  <2>1. <<j, i>> \in OpToRel(<, Nat)
    BY <1>2 DEF OpToRel
  <2> QED
    BY <2>1, <1>1
<1> QED
  BY <1>2

LEMMA Greatest ==
  ASSUME NEW n \in Nat, NEW I \in SUBSET (1 .. n), I # {}
  PROVE  L!Max(I) \in I /\ \A i \in I : i <= L!Max(I)
<1> DEFINE Above == {u \in Nat : \A i \in I : i <= u}
<1>1. Above \in SUBSET Nat /\ n \in Above
  OBVIOUS
<1>2. PICK m \in Above : \A u \in Above : m <= u
  <2> HIDE DEF Above
  <2> QED
    BY <1>1, Least
<1>3. m \in I
  <2> SUFFICES ASSUME m \notin I PROVE FALSE
    OBVIOUS
  <2>1. m \in Nat /\ \A i \in I : i <= m /\ i # m /\ i \in 1 .. n
    BY <1>2
  <2>2. \A i \in I : i <= m - 1
    BY <2>1
  <2>3. m - 1 \in Nat
    <3>1. \E i \in I : i \in 1 .. n /\ i <= m
      BY <2>1
    <3> QED
      BY <2>1, <3>1
  <2>4. m - 1 \in Above
    BY <2>2, <2>3
  <2>5. m <= m - 1
    BY <1>2, <2>4
  <2> QED
    BY <2>1, <2>5
<1>4. \E i \in I : \A j \in I : i >= j
  BY <1>2, <1>3
<1>5. L!Max(I) \in I /\ \A j \in I : L!Max(I) >= j
  BY <1>4 DEF L!Max
<1> QED
  BY <1>5

\* What a text says is what some of its lines say.
LEMMA ParsedOK ==
  ASSUME NEW x \in Texts
  PROVE  /\ DOMAIN L!Parsed(x) \subseteq L!LineKeys
         /\ \A k \in DOMAIN L!Parsed(x) : L!Parsed(x)[k] \in L!Values
<1> DEFINE good    == {i \in DOMAIN x : x[i].key # Bad /\ x[i].fields # <<>>}
           of(k)   == {i \in good : x[i].key = k}
           last(k) == L!Max(of(k))
<1>1. x \in Seq(L!Range(x))
  BY LoadAssumptions DEF L!TextsAssumption
<1>2. Len(x) \in Nat /\ DOMAIN x = 1 .. Len(x)
  BY <1>1
<1>3. L!Parsed(x) = [k \in {x[i].key : i \in good} |-> L!WellFormed(x[last(k)].fields)]
  BY DEF L!Parsed
<1>4. \A i \in DOMAIN x : x[i] \in L!Lines
  BY DEF L!Lines
<1>5. \A k \in DOMAIN L!Parsed(x) : k \in L!LineKeys
  BY <1>3, <1>4 DEF L!LineKeys
<1>6. ASSUME NEW k \in DOMAIN L!Parsed(x) PROVE L!Parsed(x)[k] \in L!Values
  <2>1. of(k) # {} /\ of(k) \subseteq 1 .. Len(x)
    BY <1>2, <1>3
  <2>2. last(k) \in of(k)
    <3> HIDE DEF of
    <3> QED
      BY <1>2, <2>1, Greatest
  <2>3. x[last(k)] \in L!Lines
    BY <1>4, <2>2
  <2>4. L!Parsed(x)[k] = L!WellFormed(x[last(k)].fields)
    BY <1>3
  <2> HIDE DEF last
  <2> QED
    BY <2>3, <2>4 DEF L!Values
<1> QED
  BY <1>5, <1>6

LoadSteady ==
  /\ l_steady \subseteq L!Configured(l_list, l_text)
  /\ ~l_first => \A t \in l_steady : DOMAIN l_shown[t] # {}
  /\ l_pc = "load" => \A t \in l_steady : t \in L!Range(l_todo) \/ DOMAIN l_policy[t] # {}

LoadFresh ==
  l_pc = "load" =>
    \A t \in Types :
      /\ l_text[t] \in l_seen[t]
      /\ \A k \in DOMAIN l_policy[t] : \E x \in l_seen[t] :
           k \in DOMAIN L!Parsed(x) /\ L!Parsed(x)[k] = l_policy[t][k]

LoadInv == L!TypeOK /\ LoadSteady /\ LoadFresh

LEMMA NothingOK == L!PolicyOK([t \in Types |-> L!Nothing])
  BY DEF L!PolicyOK, L!Nothing

LEMMA ReadTypes ==
  ASSUME l_list \in Lists
  PROVE  /\ L!TypesRead \in Lists \cup {ConfTypes} /\ L!TypesRead \in Seq(Types)
         /\ Len(L!TypesRead) \in Nat
         /\ L!TypesRead = SubSeq(L!TypesRead, 0 + 1, Len(L!TypesRead))
<1>1. L!TypesRead \in Lists \cup {ConfTypes}
  BY DEF L!TypesRead
<1>2. L!TypesRead \in Seq(Types)
  BY <1>1, LoadAssumptions DEF L!ListsAssumption, L!ConfTypesAssumption
<1> QED
  BY <1>1, <1>2

LEMMA LoadInit == L!Init => LoadInv
<1> SUFFICES ASSUME L!Init PROVE LoadInv
  OBVIOUS
<1> USE DEF L!Init
<1>1. L!TypeOK
  <2>1. L!PolicyOK(l_shown) /\ L!PolicyOK(l_policy)
    BY NothingOK
  <2>2. \E l \in Lists \cup {ConfTypes} : \E n \in 0 .. Len(l) : l_todo = SubSeq(l, n + 1, Len(l))
    <3>1. ConfTypes \in Seq(Types)
      BY LoadAssumptions DEF L!ConfTypesAssumption
    <3>2. Len(ConfTypes) \in Nat /\ SubSeq(ConfTypes, Len(ConfTypes) + 1, Len(ConfTypes)) = <<>>
      BY <3>1, SubSeqEmpty
    <3> QED
      BY <3>2
  <2>3. l_steady \subseteq Types
    <3>1. ConfTypes \in Seq(Types) /\ l_list \in Seq(Types)
      BY LoadAssumptions DEF L!ConfTypesAssumption, L!ListsAssumption
    <3> QED
      BY <3>1 DEF L!Configured, L!Range
  <2>4. l_edits \in 0 .. MaxEdits /\ l_seen \in [Types -> SUBSET Texts]
    BY LoadAssumptions DEF L!MaxEditsAssumption
  <2>5. l_rtval \in BOOLEAN /\ l_first \in BOOLEAN
    BY Zenon
  <2> QED
    BY <2>1, <2>2, <2>3, <2>4, <2>5, Zenon DEF L!TypeOK
<1> QED
  BY <1>1 DEF LoadInv, LoadSteady, LoadFresh

\* A step of the load or of an operator changes what is configured as it says.
LEMMA LoadNext == LoadInv /\ [L!Next]_(L!vars) => LoadInv'
<1> SUFFICES ASSUME LoadInv, [L!Next]_(L!vars) PROVE LoadInv'
  OBVIOUS
<1>0. /\ L!TypeOK /\ LoadSteady /\ LoadFresh
  BY DEF LoadInv
<1>1. CASE L!EditList
  <2>1. /\ l_edits < MaxEdits /\ l_list' \in Lists /\ l_edits' = l_edits + 1
        /\ l_steady' = l_steady \cap L!Configured(l_list', l_text)
        /\ UNCHANGED <<l_plugin, l_text, l_shown, l_pc, l_todo, l_policy, l_rtval, l_first, l_seen>>
    BY <1>1 DEF L!EditList
  <2>2. l_edits' \in 0 .. MaxEdits
    BY <1>0, <2>1, LoadAssumptions DEF L!TypeOK, L!MaxEditsAssumption
  <2>3. L!TypeOK'
    BY <1>0, <2>1, <2>2 DEF L!TypeOK, L!PolicyOK
  <2>4. l_steady' \subseteq L!Configured(l_list, l_text)'
    BY <2>1 DEF L!Configured
  <2>5. LoadSteady'
    BY <1>0, <2>1, <2>4 DEF LoadSteady
  <2>6. LoadFresh'
    BY <1>0, <2>1 DEF LoadFresh
  <2> QED
    BY <2>3, <2>5, <2>6 DEF LoadInv
<1>2. ASSUME NEW t \in Types, L!EditText(t) PROVE LoadInv'
  <2>1. /\ l_edits < MaxEdits /\ l_edits' = l_edits + 1
        /\ l_steady' = l_steady \cap L!Configured(l_list, l_text')
        /\ UNCHANGED <<l_plugin, l_list, l_shown, l_pc, l_todo, l_policy, l_rtval, l_first>>
    BY <1>2 DEF L!EditText
  <2>2. PICK x \in Texts : /\ l_text' = [l_text EXCEPT ![t] = x]
                           /\ l_seen' = [l_seen EXCEPT ![t] = @ \cup {x}]
    BY <1>2 DEF L!EditText
  <2>3. l_edits' \in 0 .. MaxEdits
    BY <1>0, <2>1, LoadAssumptions DEF L!TypeOK, L!MaxEditsAssumption
  <2>4. /\ l_text \in [Types -> Texts] /\ l_seen \in [Types -> SUBSET Texts]
    BY <1>0 DEF L!TypeOK
  <2>5. l_text' \in [Types -> Texts] /\ l_seen' \in [Types -> SUBSET Texts]
    BY <2>2, <2>4
  <2>6. L!TypeOK'
    BY <1>0, <2>1, <2>3, <2>5 DEF L!TypeOK, L!PolicyOK
  <2>7. l_steady' \subseteq L!Configured(l_list, l_text)'
    BY <2>1 DEF L!Configured
  <2>8. LoadSteady'
    BY <1>0, <2>1, <2>7 DEF LoadSteady
  <2>9. \A u \in Types : l_seen[u] \subseteq l_seen'[u]
    BY <2>2, <2>4
  <2>10. \A u \in Types : l_text'[u] \in l_seen'[u] \/ l_pc # "load"
    BY <1>0, <2>2, <2>4 DEF LoadFresh
  <2>11. LoadFresh'
    BY <1>0, <2>1, <2>9, <2>10 DEF LoadFresh
  <2> QED
    BY <2>6, <2>8, <2>11 DEF LoadInv
<1>3. CASE L!Begin
  <2>1. /\ l_pc' = "load" /\ l_todo' = L!TypesRead /\ l_policy' = [t \in Types |-> L!Nothing]
        /\ l_rtval' = FALSE /\ l_seen' = [t \in Types |-> {l_text[t]}]
        /\ UNCHANGED <<l_plugin, l_list, l_text, l_edits, l_shown, l_first, l_steady>>
    BY <1>3 DEF L!Begin
  <2>2. /\ l_text \in [Types -> Texts] /\ l_list \in Lists /\ l_steady \subseteq Types
    BY <1>0 DEF L!TypeOK
  <2>3. \E l \in Lists \cup {ConfTypes} : \E n \in 0 .. Len(l) : l_todo' = SubSeq(l, n + 1, Len(l))
    BY <2>1, <2>2, ReadTypes
  <2>4. l_seen' \in [Types -> SUBSET Texts]
    BY <2>1, <2>2
  <2>5. DOMAIN l_policy' = Types /\ L!PolicyOK(l_policy)'
    BY <2>1 DEF L!PolicyOK, L!Nothing
  <2>6. l_rtval' \in BOOLEAN
    BY <2>1, Zenon
  <2>7. L!TypeOK'
    BY <1>0, <2>1, <2>3, <2>4, <2>5, <2>6 DEF L!TypeOK, L!PolicyOK
  <2>8. \A t \in l_steady : t \in L!Range(l_todo')
    BY <1>0, <2>1 DEF LoadSteady, L!Configured, L!TypesRead
  <2>9. LoadSteady'
    BY <1>0, <2>1, <2>8 DEF LoadSteady, L!Configured
  <2>10. \A t \in Types : l_text[t] \in l_seen'[t] /\ DOMAIN l_policy'[t] = {}
    BY <2>1 DEF L!Nothing
  <2>11. LoadFresh'
    BY <2>1, <2>10 DEF LoadFresh
  <2> QED
    BY <2>7, <2>9, <2>11 DEF LoadInv
<1>4. CASE L!LoadInternal
  <2> DEFINE t == Head(l_todo)
             p == L!Over(L!Parsed(l_text[t]), l_policy[t])
  <2>1. /\ l_pc = "load" /\ l_todo # <<>> /\ l_todo' = Tail(l_todo)
        /\ l_rtval' = (l_text[t] # <<>> \/ ~L!EmptyFails)
        /\ l_policy' = [l_policy EXCEPT ![t] = p]
        /\ UNCHANGED <<l_plugin, l_list, l_text, l_edits, l_shown, l_pc, l_first, l_seen, l_steady>>
    BY <1>4 DEF L!LoadInternal
  <2>a. PICK l \in Lists \cup {ConfTypes} : \E n \in 0 .. Len(l) : l_todo = SubSeq(l, n + 1, Len(l))
    BY <1>0 DEF L!TypeOK
  <2>2. PICK n \in 0 .. Len(l) : l_todo = SubSeq(l, n + 1, Len(l))
    BY <2>a
  <2>3. l \in Seq(Types) /\ Len(l) \in Nat
    BY LoadAssumptions DEF L!ListsAssumption, L!ConfTypesAssumption
  <2>4. n < Len(l)
    <3>1. n \in 0 .. Len(l)
      BY <2>2
    <3>2. ASSUME n = Len(l) PROVE FALSE
      <4>1. SubSeq(l, n + 1, Len(l)) = <<>>
        BY <2>3, <3>2, SubSeqEmpty
      <4> QED
        BY <2>1, <2>2, <4>1
    <3> QED
      BY <2>3, <3>1, <3>2
  <2>5. n + 1 \in 1 .. Len(l) /\ Len(l) \in n + 1 .. Len(l)
    BY <2>2, <2>3, <2>4
  <2>6. t = l[n + 1] /\ Tail(l_todo) = SubSeq(l, (n + 1) + 1, Len(l))
    BY <2>2, <2>3, <2>5, HeadTailOfSubSeq
  <2>7. t \in Types /\ n + 1 \in 0 .. Len(l)
    BY <2>3, <2>5, <2>6
  <2>8. \E m \in Lists \cup {ConfTypes} : \E i \in 0 .. Len(m) : l_todo' = SubSeq(m, i + 1, Len(m))
    BY <2>1, <2>6, <2>7
  <2>9. l_text[t] \in Texts /\ DOMAIN l_policy = Types /\ L!PolicyOK(l_policy)
    BY <1>0, <2>7 DEF L!TypeOK
  <2>10. /\ DOMAIN p = DOMAIN L!Parsed(l_text[t]) \cup DOMAIN l_policy[t]
         /\ \A k \in DOMAIN p : \/ k \in DOMAIN L!Parsed(l_text[t]) /\ p[k] = L!Parsed(l_text[t])[k]
                                \/ k \in DOMAIN l_policy[t] /\ p[k] = l_policy[t][k]
    BY DEF L!Over
  <2>11. DOMAIN p \subseteq L!LineKeys /\ \A k \in DOMAIN p : p[k] \in L!Values
    <3> HIDE DEF p
    <3> QED
      BY <2>7, <2>9, <2>10, ParsedOK DEF L!PolicyOK
  <2>12. /\ DOMAIN l_policy' = Types /\ l_policy'[t] = p
         /\ \A u \in Types \ {t} : l_policy'[u] = l_policy[u]
    <3> HIDE DEF p, t
    <3> QED
      BY <2>1, <2>7, <2>9
  <2>13. L!PolicyOK(l_policy)'
    <3> HIDE DEF p, t
    <3> QED
      BY <2>9, <2>11, <2>12 DEF L!PolicyOK
  <2>14. l_rtval' \in BOOLEAN
    BY <2>1, Zenon
  <2>15. L!TypeOK'
    BY <1>0, <2>1, <2>8, <2>12, <2>13, <2>14 DEF L!TypeOK, L!PolicyOK
  <2>16. ASSUME NEW u \in l_steady PROVE u \in L!Range(l_todo') \/ DOMAIN l_policy'[u] # {}
    <3>1. u \in Types
      BY <1>0 DEF L!TypeOK
    <3>2. CASE u = t
      <4>1. DOMAIN L!Parsed(l_text[t]) # {}
        BY <1>0, <3>2 DEF LoadSteady, L!Configured
      <4> HIDE DEF p
      <4> QED
        BY <2>10, <2>12, <3>2, <4>1
    <3>3. CASE u # t /\ u \in L!Range(l_todo)
      <4>1. PICK i \in DOMAIN l_todo : l_todo[i] = u
        BY <3>3 DEF L!Range
      <4>2. /\ l_todo \in Seq(Types) /\ Len(l_todo) \in Nat /\ DOMAIN l_todo = 1 .. Len(l_todo)
            /\ t = l_todo[1]
        <5>1. l_todo \in Seq(Types)
          BY <2>2, <2>3, <2>5, SubSeqProperties
        <5> QED
          BY <5>1, <2>1
      <4>3. i - 1 \in 1 .. Len(l_todo) - 1
        BY <3>3, <4>1, <4>2
      <4>4. /\ Len(Tail(l_todo)) = Len(l_todo) - 1 /\ Tail(l_todo) \in Seq(Types)
            /\ \A j \in 1 .. Len(Tail(l_todo)) : Tail(l_todo)[j] = l_todo[j + 1]
        BY <2>1, <4>2, HeadTailProperties
      <4>5. Tail(l_todo)[i - 1] = u /\ i - 1 \in DOMAIN Tail(l_todo)
        BY <4>1, <4>2, <4>3, <4>4
      <4> QED
        BY <2>1, <4>5 DEF L!Range
    <3>4. CASE u # t /\ DOMAIN l_policy[u] # {}
      BY <2>12, <3>1, <3>4
    <3> QED
      BY <1>0, <2>1, <3>2, <3>3, <3>4 DEF LoadSteady
  <2>17. LoadSteady'
    BY <1>0, <2>1, <2>16 DEF LoadSteady, L!Configured
  <2>18. ASSUME NEW u \in Types, NEW k \in DOMAIN l_policy'[u]
         PROVE  \E x \in l_seen[u] : k \in DOMAIN L!Parsed(x) /\ L!Parsed(x)[k] = l_policy'[u][k]
    <3>1. CASE u # t
      BY <1>0, <2>1, <2>12, <2>18, <3>1 DEF LoadFresh
    <3>2. CASE u = t /\ k \in DOMAIN L!Parsed(l_text[t]) /\ p[k] = L!Parsed(l_text[t])[k]
      <4> HIDE DEF p
      <4> QED
        BY <1>0, <2>1, <2>12, <3>2 DEF LoadFresh
    <3>3. CASE u = t /\ k \in DOMAIN l_policy[t] /\ p[k] = l_policy[t][k]
      <4> HIDE DEF p
      <4> QED
        BY <1>0, <2>1, <2>12, <3>3 DEF LoadFresh
    <3> HIDE DEF p
    <3> QED
      BY <2>10, <2>12, <3>1, <3>2, <3>3
  <2>19. LoadFresh'
    BY <1>0, <2>1, <2>18 DEF LoadFresh
  <2> QED
    BY <2>15, <2>17, <2>19 DEF LoadInv
<1>5. CASE L!End
  <2>1. /\ l_pc = "load" /\ l_todo = <<>> /\ l_pc' = "idle" /\ l_first' = FALSE
        /\ l_shown' = IF l_rtval \/ l_first THEN l_policy ELSE l_shown
        /\ UNCHANGED <<l_plugin, l_list, l_text, l_edits, l_todo, l_policy, l_rtval, l_seen, l_steady>>
    BY <1>5 DEF L!End
  <2>2. L!TypeOK'
    <3>1. DOMAIN l_shown' = Types /\ L!PolicyOK(l_shown)'
      BY <1>0, <2>1 DEF L!TypeOK, L!PolicyOK
    <3>2. l_first' \in BOOLEAN
      BY <2>1, Zenon
    <3> QED
      BY <1>0, <2>1, <3>1, <3>2 DEF L!TypeOK, L!PolicyOK
  <2>3. \A t \in l_steady : DOMAIN l_policy[t] # {}
    <3>1. L!Range(l_todo) = {}
      BY <2>1 DEF L!Range
    <3> QED
      BY <1>0, <2>1, <3>1 DEF LoadSteady
  <2>4. LoadSteady'
    BY <1>0, <2>1, <2>3 DEF LoadSteady, L!Configured
  <2>5. LoadFresh'
    BY <2>1 DEF LoadFresh
  <2> QED
    BY <2>2, <2>4, <2>5 DEF LoadInv
<1>6. CASE UNCHANGED L!vars
  BY <1>0, <1>6 DEF L!vars, LoadInv, L!TypeOK, L!PolicyOK, LoadSteady, LoadFresh, L!Configured
<1> QED
  BY <1>1, <1>2, <1>3, <1>4, <1>5, <1>6 DEF L!Next, L!FlushThread, L!Operators

\* What a step shows was made of the texts of its load.
LEMMA LoadShows ==
  LoadInv /\ [L!Next]_(L!vars) =>
    (l_shown' # l_shown =>
       \A t \in Types : \A k \in DOMAIN l_shown'[t] :
         \E x \in l_seen[t] : k \in DOMAIN L!Parsed(x) /\ L!Parsed(x)[k] = l_shown'[t][k])
<1> SUFFICES ASSUME LoadInv, [L!Next]_(L!vars), l_shown' # l_shown
             PROVE  \A t \in Types : \A k \in DOMAIN l_shown'[t] :
                      \E x \in l_seen[t] :
                        k \in DOMAIN L!Parsed(x) /\ L!Parsed(x)[k] = l_shown'[t][k]
  OBVIOUS
<1>1. L!End
  BY DEF L!Next, L!vars, L!FlushThread, L!Operators, L!Begin, L!LoadInternal, L!EditList,
     L!EditText
<1>2. l_pc = "load" /\ l_shown' = l_policy
  BY <1>1 DEF L!End
<1> QED
  BY <1>2 DEF LoadInv, LoadFresh

-----------------------------------------------------------------------------
(* The table: flushPushUserType.  The map is right for the rows read so    *)
(* far, which at the end are all of them.                                  *)

ReadSoFar == t_next - 1

TableInv ==
  /\ T!TypeOK
  /\ T!Latest(ReadSoFar)
  /\ t_pc = "query" => t_records = <<>>
  /\ t_pc = "done" => ReadSoFar = Len(t_records)
  /\ t_ret = (ReadSoFar > 0)

LEMMA TableInit == T!Init => TableInv
<1> SUFFICES ASSUME T!Init PROVE TableInv
  OBVIOUS
<1>1. t_records = <<>> /\ t_next = 1 /\ DOMAIN t_map = {} /\ t_ret = FALSE /\ t_pc = "query"
  BY DEF T!Init
<1>2. t_records \in Seq(T!Rows) /\ Len(t_records) = 0
  BY <1>1
<1>3. T!TypeOK
  <2>1. t_next \in 1 .. Len(t_records) + 1
    BY <1>1, <1>2
  <2>2. DOMAIN t_map \subseteq Keys
    BY <1>1
  <2>3. \A k \in DOMAIN t_map : t_map[k] \in [timestamp : Nat, user_type : UserTypes]
    BY <1>1
  <2> QED
    BY <1>1, <1>2, <2>1, <2>2, <2>3, Zenon DEF T!TypeOK
<1>4. ReadSoFar = 0
  BY <1>1 DEF ReadSoFar
<1>5. T!Latest(ReadSoFar)
  BY <1>1, <1>4 DEF T!Latest
<1>6. t_ret = (ReadSoFar > 0)
  <2>1. (ReadSoFar > 0) = FALSE
    BY <1>4
  <2> QED
    BY <1>1, <2>1, Zenon
<1>7. t_pc # "done"
  BY <1>1
<1> QED
  BY <1>1, <1>3, <1>5, <1>6, <1>7, Zenon DEF TableInv

\* Reading one more row leaves the map right: the row decides for its key if it
\* is taken, and what decided before still does if it is not.
LEMMA SetMapLatest ==
  ASSUME TableInv, T!SetMap PROVE T!Latest(ReadSoFar)'
<1> DEFINE row == t_records[t_next]
           n == ReadSoFar
<1>1. /\ t_next \in 1 .. Len(t_records) /\ t_records \in Seq(T!Rows)
      /\ row \in T!Rows /\ n \in Nat /\ n + 1 = t_next
      /\ t_records' = t_records /\ ReadSoFar' = t_next
  BY DEF TableInv, T!TypeOK, T!SetMap, ReadSoFar
<1>2. \A m \in 1 .. t_next : t_records[m] \in T!Rows
  BY <1>1
<1>3. \A m \in 1 .. t_next : t_records[m].key \in DOMAIN t_map'
  <2>1. row.key \in DOMAIN t_map' /\ DOMAIN t_map \subseteq DOMAIN t_map'
    BY DEF T!SetMap, T!Takes
  <2>2. \A m \in 1 .. n : t_records[m].key \in DOMAIN t_map
    BY DEF TableInv, T!Latest
  <2>3. \A m \in 1 .. t_next : m \in 1 .. n \/ m = t_next
    BY <1>1
  <2> QED
    BY <2>1, <2>2, <2>3
<1>4. ASSUME NEW k \in DOMAIN t_map'
      PROVE  \E j \in 1 .. t_next :
               /\ T!Decides(j, t_next) /\ t_records[j].key = k
               /\ t_map'[k].timestamp = t_records[j].timestamp
               /\ t_map'[k].user_type = t_records[j].user_type
  <2>1. CASE k # row.key
    <3>1. k \in DOMAIN t_map /\ t_map'[k] = t_map[k]
      BY <2>1, <1>4 DEF T!SetMap
    <3>2. PICK j \in 1 .. n : /\ T!Decides(j, n) /\ t_records[j].key = k
                              /\ t_map[k].timestamp = t_records[j].timestamp
                              /\ t_map[k].user_type = t_records[j].user_type
      BY <3>1 DEF TableInv, T!Latest
    <3>3. T!Decides(j, t_next)
      BY <3>2, <2>1, <1>1 DEF T!Decides
    <3> QED
      BY <3>1, <3>2, <3>3, <1>1
  <2>2. CASE k = row.key /\ T!Takes(row)
    <3>1. t_map'[k].timestamp = row.timestamp /\ t_map'[k].user_type = row.user_type
      BY <2>2 DEF T!SetMap
    <3>2. \A m \in 1 .. n : t_records[m].key = k => t_records[m].timestamp < row.timestamp
      <4> TAKE m \in 1 .. n
      <4> HAVE t_records[m].key = k
      <4>1. k \in DOMAIN t_map
        BY DEF TableInv, T!Latest
      <4>2. PICK j \in 1 .. n : /\ T!Decides(j, n) /\ t_records[j].key = k
                                /\ t_map[k].timestamp = t_records[j].timestamp
        BY <4>1 DEF TableInv, T!Latest
      <4>3. t_map[k].timestamp < row.timestamp
        BY <4>1, <2>2 DEF T!Takes
      <4>4. t_records[m].timestamp <= t_records[j].timestamp
        <5>1. /\ t_records[m].timestamp \in Nat /\ t_records[j].timestamp \in Nat
          BY <1>1, <1>2, <4>2 DEF T!Rows
        <5> QED
          BY <5>1, <4>2 DEF T!Decides
      <4>5. /\ t_records[m].timestamp \in Nat /\ t_records[j].timestamp \in Nat
            /\ row.timestamp \in Nat
        BY <1>1, <1>2, <4>2 DEF T!Rows
      <4> QED
        BY <4>2, <4>3, <4>4, <4>5
    <3>3. T!Decides(t_next, t_next)
      BY <3>2, <2>2, <1>1 DEF T!Decides
    <3> QED
      BY <3>1, <3>3, <2>2, <1>1
  <2>3. CASE k = row.key /\ ~T!Takes(row)
    <3>1. k \in DOMAIN t_map /\ t_map' = t_map /\ ~(t_map[k].timestamp < row.timestamp)
      BY <2>3 DEF T!SetMap, T!Takes
    <3>2. PICK j \in 1 .. n : /\ T!Decides(j, n) /\ t_records[j].key = k
                              /\ t_map[k].timestamp = t_records[j].timestamp
                              /\ t_map[k].user_type = t_records[j].user_type
      BY <3>1 DEF TableInv, T!Latest
    <3>3. T!Decides(j, t_next)
      BY <3>1, <3>2, <2>3, <1>1, <1>2 DEF T!Decides, T!Rows
    <3> QED
      BY <3>1, <3>2, <3>3, <1>1
  <2> QED
    BY <2>1, <2>2, <2>3
<1>5. ReadSoFar' = t_next /\ t_records' = t_records
  BY <1>1
<1>6. \A k \in DOMAIN t_map' : \E j \in 1 .. ReadSoFar' :
        /\ T!Decides(j, ReadSoFar)'
        /\ t_records'[j].key = k
        /\ t_map'[k].timestamp = t_records'[j].timestamp
        /\ t_map'[k].user_type = t_records'[j].user_type
  <2> TAKE k \in DOMAIN t_map'
  <2>1. PICK j \in 1 .. t_next :
          /\ T!Decides(j, t_next) /\ t_records[j].key = k
          /\ t_map'[k].timestamp = t_records[j].timestamp
          /\ t_map'[k].user_type = t_records[j].user_type
    BY <1>4
  <2>2. T!Decides(j, ReadSoFar)'
    BY <1>5, <2>1 DEF T!Decides
  <2> QED
    BY <1>5, <2>1, <2>2
<1>7. \A m \in 1 .. ReadSoFar' : t_records'[m].key \in DOMAIN t_map'
  BY <1>3, <1>5
<1> QED
  BY <1>6, <1>7, Zenon DEF T!Latest

LEMMA TableNext == TableInv /\ [T!Next]_(T!vars) => TableInv'
<1> SUFFICES ASSUME TableInv, [T!Next]_(T!vars) PROVE TableInv'
  OBVIOUS
<1>1. CASE T!QueryFails
  <2>1. UNCHANGED <<t_records, t_next, t_map, t_ret>> /\ t_pc = "query" /\ t_pc' = "done"
    BY <1>1 DEF T!QueryFails
  <2>2. T!TypeOK' /\ T!Latest(ReadSoFar)'
    BY <2>1 DEF TableInv, T!TypeOK, T!Latest, T!Decides, ReadSoFar
  <2>3. ReadSoFar' = Len(t_records')
    <3>1. t_records = <<>>
      BY <2>1 DEF TableInv
    <3>2. Len(t_records) = 0
      BY <3>1
    <3>3. t_next \in 1 .. 0 + 1
      BY <3>2 DEF TableInv, T!TypeOK
    <3> QED
      BY <2>1, <3>2, <3>3 DEF ReadSoFar
  <2>4. t_ret' = (ReadSoFar' > 0)
    BY <2>1 DEF TableInv, ReadSoFar
  <2> QED
    BY <2>1, <2>2, <2>3, <2>4, Zenon DEF TableInv
<1>2. CASE T!Query
  <2>1. t_records' \in Seq(T!Rows)
    BY <1>2, TableAssumptions DEF T!ResultsAssumption, T!Query
  <2>2. t_next = 1 /\ t_next' = 1 /\ t_map' = t_map /\ t_ret' = t_ret
    BY <1>2 DEF T!Query, TableInv, T!TypeOK
  <2>3. t_records' = <<>> <=> Len(t_records') = 0
    BY <2>1
  <2>4. DOMAIN t_map = {}
    <3>1. ReadSoFar = 0 /\ 1 .. ReadSoFar = {}
      BY <2>2 DEF ReadSoFar
    <3>2. \A k \in DOMAIN t_map : \E j \in 1 .. ReadSoFar : TRUE
      BY Zenon DEF TableInv, T!Latest
    <3> QED
      BY <3>1, <3>2
  <2>5. T!TypeOK'
    BY <1>2, <2>1, <2>2 DEF T!Query, TableInv, T!TypeOK
  <2>6. T!Latest(ReadSoFar)'
    BY <2>2, <2>4 DEF T!Latest, ReadSoFar
  <2>7. t_pc' # "query" /\ (t_pc' = "done" => Len(t_records') = 0) /\ ReadSoFar' = 0
    BY <1>2, <2>2, <2>3 DEF T!Query, ReadSoFar
  <2>8. t_ret' = (ReadSoFar' > 0)
    BY <2>2, <2>7 DEF TableInv, ReadSoFar
  <2> QED
    BY <2>5, <2>6, <2>7, <2>8 DEF TableInv
<1>3. CASE T!SetMap
  <2>1. T!Latest(ReadSoFar)'
    BY <1>3, SetMapLatest
  <2>2. t_records[t_next] \in T!Rows
    BY <1>3 DEF T!SetMap, TableInv, T!TypeOK
  <2>3. T!TypeOK'
    BY <1>3, <2>2 DEF T!SetMap, TableInv, T!TypeOK, T!Rows
  <2>4. t_pc' = "fill" /\ t_ret' = TRUE /\ ReadSoFar' > 0
    BY <1>3 DEF T!SetMap, TableInv, T!TypeOK, ReadSoFar
  <2> QED
    BY <2>1, <2>3, <2>4 DEF TableInv
<1>4. CASE T!Return
  <2>1. UNCHANGED <<t_records, t_next, t_map, t_ret>> /\ t_pc' = "done"
    BY <1>4 DEF T!Return
  <2>2. T!TypeOK' /\ T!Latest(ReadSoFar)'
    BY <2>1 DEF TableInv, T!TypeOK, T!Latest, T!Decides, ReadSoFar
  <2>3. ReadSoFar' = Len(t_records')
    <3>1. t_next > Len(t_records)
      BY <1>4 DEF T!Return
    <3>2. t_next \in 1 .. Len(t_records) + 1 /\ Len(t_records) \in Nat
      BY DEF TableInv, T!TypeOK
    <3> QED
      BY <2>1, <3>1, <3>2 DEF ReadSoFar
  <2>4. t_ret' = (ReadSoFar' > 0)
    BY <2>1 DEF TableInv, ReadSoFar
  <2> QED
    BY <2>1, <2>2, <2>3, <2>4, Zenon DEF TableInv
<1>5. CASE UNCHANGED T!vars
  BY <1>5 DEF T!vars, TableInv, T!TypeOK, T!Latest, T!Decides, ReadSoFar
<1> QED
  BY <1>1, <1>2, <1>3, <1>4, <1>5 DEF T!Next, T!Returned
-----------------------------------------------------------------------------
(* The parts side by side.                                                 *)

LEMMA PartSteps ==
  [Next]_vars => [H!Next]_(H!vars) /\ [L!Next]_(L!vars) /\ [T!Next]_(T!vars)
<1> SUFFICES ASSUME [Next]_vars
             PROVE  [H!Next]_(H!vars) /\ [L!Next]_(L!vars) /\ [T!Next]_(T!vars)
  OBVIOUS
<1>1. varsH' = varsH => UNCHANGED H!vars
  BY DEF varsH, H!vars
<1>2. varsL' = varsL => UNCHANGED L!vars
  BY DEF varsL, L!vars
<1>3. varsT' = varsT => UNCHANGED T!vars
  BY DEF varsT, T!vars
<1> QED
  BY <1>1, <1>2, <1>3 DEF Next, vars

PoliciesInv == LookupInv /\ LoadInv /\ TableInv

LEMMA PoliciesInvariant == Spec => []PoliciesInv
<1>1. Init => PoliciesInv
  BY LookupInit, LoadInit, TableInit DEF Init, PoliciesInv
<1>2. PoliciesInv /\ [Next]_vars => PoliciesInv'
  BY PartSteps, LookupNext, LoadNext, TableNext DEF PoliciesInv
<1> QED
  BY <1>1, <1>2, PTL DEF Spec

\* The variables of the lookup, of the load and of the table keep their types,
\* for any tables, requests, texts, lists of types, edits and query results.
THEOREM PolicyTypes == Spec => []TypesOK
<1>1. PoliciesInv => TypesOK
  BY LookupTypes DEF PoliciesInv, LoadInv, TableInv, TypesOK
<1> QED
  BY <1>1, PoliciesInvariant, PTL

\* The chain of lookups and the scan of DyeingOnlinePlugin::get compute one
\* function of the policy, the request and the hash, whatever the tables hold:
\* overlapping buckets, gaps, buckets whose configuration has no name, requests
\* whose keys coincide.
THEOREM LookupComputes == Spec => []LookupComputesConf
<1>1. PoliciesInv => LookupComputesConf
  BY LookupEnds DEF PoliciesInv, LookupComputesConf
<1> QED
  BY <1>1, PoliciesInvariant, PTL

\* get never serves an app from the default table while the policy has a table
\* for any of the keys the request spells.
THEOREM OwnTableServed == Spec => []LookupNeverDefaultForOwn
<1>1. PoliciesInv => LookupNeverDefaultForOwn
  BY LookupOwn DEF PoliciesInv, LookupNeverDefaultForOwn
<1> QED
  BY <1>1, PoliciesInvariant, PTL

\* A business type that is configured all the time is in every policy that
\* flushPolicy shows after the first load, whatever operators edit between the
\* reads of two nodes and whichever other types fail.
THEOREM SteadyTypesServed == Spec => []LoadSteadyServed
<1>1. PoliciesInv => LoadSteadyServed
  BY DEF PoliciesInv, LoadInv, LoadSteady, LoadSteadyServed, L!SteadyServed
<1> QED
  BY <1>1, PoliciesInvariant, PTL

\* Nothing of an earlier load is left in a policy that flushPolicy shows: each of
\* its entries was in the node of its type since the load began.
THEOREM PolicyIsOfThisLoad == Spec => LoadFromThisLoad
<1>1. PoliciesInv /\ [Next]_vars =>
        [l_shown' # l_shown =>
           \A t \in Types : \A k \in DOMAIN l_shown'[t] :
             \E x \in l_seen[t] :
               k \in DOMAIN L!Parsed(x) /\ L!Parsed(x)[k] = l_shown'[t][k]]_(L!vars)
  BY PartSteps, LoadShows DEF PoliciesInv
<1> QED
  BY <1>1, PoliciesInvariant, PTL DEF Spec, LoadFromThisLoad, L!FromThisLoad

\* The table that flushPushUserType publishes has the latest type of every user,
\* whatever the result of the query and the order of its rows.
THEOREM LatestRowWins == Spec => []LatestWins
<1>1. PoliciesInv => LatestWins
  BY DEF PoliciesInv, TableInv, LatestWins, T!TypeOK, T!LatestWins, ReadSoFar
<1> QED
  BY <1>1, PoliciesInvariant, PTL
=============================================================================
