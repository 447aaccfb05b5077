------------------------- MODULE RoutingTableProofs -------------------------
(***************************************************************************)
(* The safety invariants of RoutingTable, proved for every identifier       *)
(* width, bucket capacity, failure limit, set of peers and number of        *)
(* handlers.  IInv is the inductive invariant: every bucket is well formed  *)
(* (BucketOK) for the identifiers that belong in it, and every handler that *)
(* waits for a ping holds a newcomer of the bucket of the peer it waits     *)
(* for.  The second part is what lets the eviction, seconds later, put the  *)
(* newcomer into the bucket of the evicted peer.                            *)
(***************************************************************************)
EXTENDS RoutingTable, FoldLemmas

(* What each operation of KBucket keeps of a bucket, for every capacity,    *)
(* failure limit and set of identifiers: first the sequence operators the   *)
(* operations are built from, then one lemma per operation (insert,         *)
(* evict_and_insert, remove, record_failure), then what the operations do   *)
(* to the number of peers.                                                  *)

\* Min picks an element of a non-empty set of naturals that bounds it below:
\* the first match of the iter().position of every KBucket operation.
LEMMA MinNat ==
    ASSUME NEW S \in SUBSET Nat, S # {}
    PROVE  /\ Min(S) \in S
           /\ \A y \in S : Min(S) <= y
<1>1. \E z \in S : \A y \in S : z <= y
  BY LeastNat
<1> QED
  BY <1>1 DEF Min

\* A peer without a failure is below the limit (max_failures is at least 1).
LEMMA LimitPositive == 0 < MaxFailures
BY BucketAssumption

\* A prefix of a sequence.
LEMMA PrefixFacts ==
    ASSUME NEW S, NEW s \in Seq(S), NEW i \in 1..Len(s)
    PROVE  /\ SubSeq(s, 1, i - 1) \in Seq(S)
           /\ Len(SubSeq(s, 1, i - 1)) = i - 1
           /\ \A j \in 1..(i - 1) : SubSeq(s, 1, i - 1)[j] = s[j]
<1>1. Len(s) \in Nat /\ i \in Nat /\ i >= 1 /\ i <= Len(s)
  BY LenProperties
<1> QED
  BY <1>1

(* What removing an element of a sequence leaves. *)
LEMMA RemoveAtFacts ==
    ASSUME NEW S, NEW s \in Seq(S), NEW i \in 1..Len(s)
    PROVE  /\ RemoveAt(s, i) \in Seq(S)
           /\ Len(RemoveAt(s, i)) = Len(s) - 1
           /\ \A j \in 1..(Len(s) - 1) :
                RemoveAt(s, i)[j] = IF j < i THEN s[j] ELSE s[j + 1]
<1> DEFINE a == SubSeq(s, 1, i - 1)
           b == SubSeq(s, i + 1, Len(s))
<1>1. Len(s) \in Nat /\ i \in Nat /\ i >= 1 /\ i <= Len(s)
  BY LenProperties
<1>2. /\ a \in Seq(S)
      /\ Len(a) = i - 1
      /\ \A j \in 1..(i - 1) : a[j] = s[j]
  BY PrefixFacts
<1>3. /\ b \in Seq(S)
      /\ Len(b) = Len(s) - i
      /\ \A j \in 1..(Len(s) - i) : b[j] = s[i + j]
  BY <1>1
<1> HIDE DEF a, b
<1>4. /\ a \o b \in Seq(S)
      /\ Len(a \o b) = Len(a) + Len(b)
      /\ \A j \in 1..(Len(a) + Len(b)) :
            (a \o b)[j] = IF j <= Len(a) THEN a[j] ELSE b[j - Len(a)]
  BY <1>2, <1>3, ConcatProperties
<1>5. RemoveAt(s, i) = a \o b
  BY DEF RemoveAt, a, b
<1>6. ASSUME NEW j \in 1..(Len(s) - 1)
      PROVE  (a \o b)[j] = IF j < i THEN s[j] ELSE s[j + 1]
  <2>1. CASE j < i
    BY <1>1, <1>2, <1>3, <1>4, <2>1
  <2>2. CASE ~(j < i)
    <3>1. j - Len(a) \in 1..(Len(s) - i) /\ i + (j - Len(a)) = j + 1
      BY <1>1, <1>2, <2>2
    <3>2. (a \o b)[j] = b[j - Len(a)]
      BY <1>1, <1>2, <1>3, <1>4, <2>2
    <3> QED
      BY <1>3, <2>2, <3>1, <3>2
  <2> QED
    BY <2>1, <2>2
<1>7. Len(a \o b) = Len(s) - 1
  BY <1>1, <1>2, <1>3, <1>4
<1> QED
  BY <1>4, <1>5, <1>6, <1>7, Zenon

(* Position is where the first entry with an identifier sits. *)
LEMMA PositionFacts ==
    ASSUME NEW s \in Seq(NodeInfo), NEW id, Has(s, id)
    PROVE  Position(s, id) \in 1..Len(s) /\ s[Position(s, id)].node_id = id
<1>1. Positions(s, id) \in SUBSET Nat /\ Positions(s, id) # {}
  BY LenProperties DEF Positions, Has
<1>2. Position(s, id) \in Positions(s, id)
  BY <1>1, MinNat DEF Position
<1> QED
  BY <1>2 DEF Positions

(* Has speaks of positions; this is what it says of entries. *)
LEMMA HasFacts ==
    ASSUME NEW s \in Seq(NodeInfo), NEW id
    PROVE  /\ Has(s, id) <=> \E i \in 1..Len(s) : s[i].node_id = id
           /\ Has(s, id) <=> id \in IdsOf(s)
BY DEF Has, Positions, IdsOf

(* Removing a position keeps the identifiers distinct. *)
LEMMA RemoveAtIds ==
    ASSUME NEW s \in Seq(NodeInfo), NEW i \in 1..Len(s)
    PROVE  /\ IdsOf(RemoveAt(s, i)) \subseteq IdsOf(s)
           /\ Distinct(s) => Distinct(RemoveAt(s, i))
           /\ Distinct(s) => s[i].node_id \notin IdsOf(RemoveAt(s, i))
<1> DEFINE r == RemoveAt(s, i)
<1>1. /\ r \in Seq(NodeInfo)
      /\ Len(r) = Len(s) - 1
      /\ \A j \in 1..(Len(s) - 1) : r[j] = IF j < i THEN s[j] ELSE s[j + 1]
  BY RemoveAtFacts
<1> HIDE DEF r
<1>2. Len(s) \in Nat
  BY LenProperties
<1> DEFINE up(j) == IF j < i THEN j ELSE j + 1
<1>3. ASSUME NEW j \in 1..Len(r)
      PROVE  up(j) \in 1..Len(s) /\ up(j) # i /\ r[j] = s[up(j)]
  BY <1>1, <1>2
<1>4. ASSUME NEW j \in 1..Len(r), NEW k \in 1..Len(r), up(j) = up(k)
      PROVE  j = k
  BY <1>1, <1>2, <1>4
<1> HIDE DEF up
<1>5. IdsOf(r) \subseteq IdsOf(s)
  BY <1>3 DEF IdsOf
<1>6. Distinct(s) => Distinct(r)
  BY <1>3, <1>4 DEF Distinct
<1>7. Distinct(s) => s[i].node_id \notin IdsOf(r)
  BY <1>3 DEF Distinct, IdsOf
<1> QED
  BY <1>5, <1>6, <1>7 DEF r

(* Appending an entry adds its identifier, dropping the first adds none. *)
LEMMA AppendFacts ==
    ASSUME NEW s \in Seq(NodeInfo), NEW n \in NodeInfo
    PROVE  /\ Append(s, n) \in Seq(NodeInfo)
           /\ Len(Append(s, n)) = Len(s) + 1
           /\ \A i \in 1..Len(s) : Append(s, n)[i] = s[i]
           /\ Append(s, n)[Len(s) + 1] = n
           /\ IdsOf(Append(s, n)) = IdsOf(s) \cup {n.node_id}
           /\ Distinct(s) /\ n.node_id \notin IdsOf(s) => Distinct(Append(s, n))
<1> DEFINE a == Append(s, n)
<1>1. /\ a \in Seq(NodeInfo)
      /\ Len(a) = Len(s) + 1
      /\ \A i \in 1..Len(s) : a[i] = s[i]
      /\ a[Len(s) + 1] = n
      /\ Len(s) \in Nat
  OBVIOUS
<1> HIDE DEF a
<1>2. ASSUME NEW id PROVE id \in IdsOf(a) <=> id \in IdsOf(s) \cup {n.node_id}
  <2>1. id \in IdsOf(a) <=> \E i \in 1..Len(a) : a[i].node_id = id
    BY DEF IdsOf
  <2>2. id \in IdsOf(s) <=> \E i \in 1..Len(s) : s[i].node_id = id
    BY DEF IdsOf
  <2>3. \A i \in 1..Len(a) : i \in 1..Len(s) \/ i = Len(s) + 1
    BY <1>1
  <2>4. 1..Len(s) \subseteq 1..Len(a) /\ Len(s) + 1 \in 1..Len(a)
    BY <1>1
  <2> QED
    BY <1>1, <2>1, <2>2, <2>3, <2>4
<1>3. IdsOf(a) = IdsOf(s) \cup {n.node_id}
  BY <1>2
<1>4. Distinct(s) /\ n.node_id \notin IdsOf(s) => Distinct(a)
  <2> SUFFICES ASSUME Distinct(s), n.node_id \notin IdsOf(s),
                      NEW i \in 1..Len(a), NEW j \in 1..Len(a),
                      a[i].node_id = a[j].node_id
               PROVE  i = j
    BY DEF Distinct
  <2>1. \A l \in 1..Len(s) : s[l].node_id # n.node_id
    BY DEF IdsOf
  <2> QED
    BY <1>1, <2>1 DEF Distinct
<1> QED
  BY <1>1, <1>3, <1>4 DEF a

\* Dropping the oldest candidate, as add_to_cache does when the cache is full,
\* keeps the identifiers distinct and adds none.
LEMMA TailFacts ==
    ASSUME NEW s \in Seq(NodeInfo), Len(s) > 0
    PROVE  /\ Tail(s) \in Seq(NodeInfo)
           /\ Len(Tail(s)) = Len(s) - 1
           /\ \A i \in 1..Len(Tail(s)) :
                i + 1 \in 1..Len(s) /\ Tail(s)[i] = s[i + 1]
           /\ IdsOf(Tail(s)) \subseteq IdsOf(s)
           /\ Distinct(s) => Distinct(Tail(s))
<1> DEFINE t == Tail(s)
<1>1. /\ t \in Seq(NodeInfo)
      /\ Len(t) = Len(s) - 1
      /\ \A i \in 1..Len(t) : i + 1 \in 1..Len(s) /\ t[i] = s[i + 1]
      /\ Len(s) \in Nat
  BY LenProperties
<1> HIDE DEF t
<1>2. ASSUME NEW id \in IdsOf(t) PROVE id \in IdsOf(s)
  <2>1. PICK i \in 1..Len(t) : t[i].node_id = id
    BY DEF IdsOf
  <2> QED
    BY <1>1, <2>1 DEF IdsOf
<1>3. Distinct(s) => Distinct(t)
  <2> SUFFICES ASSUME Distinct(s), NEW i \in 1..Len(t), NEW j \in 1..Len(t),
                      t[i].node_id = t[j].node_id
               PROVE  i = j
    BY DEF Distinct
  <2>1. i + 1 = j + 1
    BY <1>1 DEF Distinct
  <2> QED
    BY <1>1, <2>1
<1> QED
  BY <1>1, <1>2, <1>3 DEF t

(* Without drops the entry of an identifier and nothing else. *)
LEMMA WithoutFacts ==
    ASSUME NEW s \in Seq(NodeInfo), NEW id, Distinct(s)
    PROVE  /\ Without(s, id) \in Seq(NodeInfo)
           /\ Len(Without(s, id)) <= Len(s)
           /\ IdsOf(Without(s, id)) \subseteq IdsOf(s) \ {id}
           /\ Distinct(Without(s, id))
           /\ \A i \in 1..Len(Without(s, id)) : \E j \in 1..Len(s) :
                Without(s, id)[i] = s[j]
<1>1. Len(s) \in Nat
  BY LenProperties
<1>2. CASE Has(s, id)
  <2>1. Position(s, id) \in 1..Len(s) /\ s[Position(s, id)].node_id = id
    BY <1>2, PositionFacts
  <2>2. Without(s, id) = RemoveAt(s, Position(s, id))
    BY <1>2 DEF Without
  <2> DEFINE p == Position(s, id)
             r == RemoveAt(s, p)
  <2>3. /\ r \in Seq(NodeInfo) /\ Len(r) = Len(s) - 1
        /\ \A j \in 1..(Len(s) - 1) : r[j] = IF j < p THEN s[j] ELSE s[j + 1]
    BY <2>1, RemoveAtFacts
  <2>4. /\ IdsOf(r) \subseteq IdsOf(s) /\ Distinct(r)
        /\ id \notin IdsOf(r)
    BY <2>1, RemoveAtIds
  <2> HIDE DEF r, p
  <2>5. \A i \in 1..Len(r) : \E j \in 1..Len(s) : r[i] = s[j]
    <3> SUFFICES ASSUME NEW i \in 1..Len(r)
                 PROVE  \E j \in 1..Len(s) : r[i] = s[j]
      OBVIOUS
    <3>1. i \in 1..Len(s) /\ i + 1 \in 1..Len(s) /\ i \in 1..(Len(s) - 1)
      BY <1>1, <2>3
    <3> QED
      BY <2>3, <3>1
  <2> QED
    BY <1>1, <2>2, <2>3, <2>4, <2>5 DEF r, p
<1>3. CASE ~Has(s, id)
  BY <1>1, <1>3, HasFacts DEF Without
<1> QED
  BY <1>2, <1>3

-----------------------------------------------------------------------------
(* Every method of the bucket keeps BucketOK, for any set F of identifiers  *)
(* that may be filed in it.                                                 *)

\* add_to_cache keeps the cache within K and its identifiers distinct, and adds
\* no identifier but the newcomer's.
LEMMA AddToCacheFacts ==
    ASSUME NEW c \in Seq(NodeInfo), Len(c) <= K, Distinct(c),
           NEW n \in NodeInfo, n.fail_count = 0,
           \A i \in 1..Len(c) : c[i].fail_count = 0
    PROVE  /\ AddToCache(c, n) \in Seq(NodeInfo)
           /\ Len(AddToCache(c, n)) <= K
           /\ Distinct(AddToCache(c, n))
           /\ IdsOf(AddToCache(c, n)) \subseteq IdsOf(c) \cup {n.node_id}
           /\ \A i \in 1..Len(AddToCache(c, n)) :
                AddToCache(c, n)[i].fail_count = 0
<1> DEFINE w == Without(c, n.node_id)
           a == Append(w, n)
<1>1. /\ w \in Seq(NodeInfo) /\ Len(w) <= Len(c)
      /\ IdsOf(w) \subseteq IdsOf(c) \ {n.node_id}
      /\ Distinct(w)
      /\ \A i \in 1..Len(w) : \E j \in 1..Len(c) : w[i] = c[j]
  BY WithoutFacts
<1>2. Len(c) \in Nat /\ Len(w) \in Nat /\ K \in Nat
  BY <1>1, LenProperties, BucketAssumption
<1>3. \A i \in 1..Len(w) : w[i].fail_count = 0
  BY <1>1
<1> HIDE DEF w
<1>4. /\ a \in Seq(NodeInfo)
      /\ Len(a) = Len(w) + 1
      /\ \A i \in 1..Len(w) : a[i] = w[i]
      /\ a[Len(w) + 1] = n
      /\ IdsOf(a) = IdsOf(w) \cup {n.node_id}
      /\ Distinct(a)
  BY <1>1, AppendFacts
<1> HIDE DEF a
<1>5. \A i \in 1..Len(a) : a[i].fail_count = 0
  BY <1>2, <1>3, <1>4
<1>6. AddToCache(c, n) = IF Len(a) > K THEN Tail(a) ELSE a
  BY DEF AddToCache, a, w
<1>7. CASE Len(a) > K
  <2> DEFINE t == Tail(a)
  <2>1. /\ t \in Seq(NodeInfo)
        /\ Len(t) = Len(a) - 1
        /\ \A i \in 1..Len(t) : i + 1 \in 1..Len(a) /\ t[i] = a[i + 1]
        /\ IdsOf(t) \subseteq IdsOf(a)
        /\ Distinct(t)
    BY <1>2, <1>4, TailFacts
  <2>2. AddToCache(c, n) = t
    BY <1>6, <1>7
  <2> HIDE DEF t
  <2>3. Len(t) <= K
    BY <1>1, <1>2, <1>4, <2>1
  <2>4. \A i \in 1..Len(t) : t[i].fail_count = 0
    BY <1>5, <2>1
  <2> QED
    BY <1>1, <1>4, <2>1, <2>2, <2>3, <2>4
<1>8. CASE ~(Len(a) > K)
  <2>1. AddToCache(c, n) = a
    BY <1>6, <1>8
  <2>2. Len(a) <= K
    BY <1>2, <1>4, <1>8
  <2> QED
    BY <1>1, <1>4, <1>5, <2>1, <2>2
<1> QED
  BY <1>7, <1>8

(* Taking the newest candidate off the cache. *)
LEMMA FrontFacts ==
    ASSUME NEW s \in Seq(NodeInfo), s # <<>>
    PROVE  /\ Front(s) \in Seq(NodeInfo)
           /\ Last(s) \in NodeInfo
           /\ Len(Front(s)) = Len(s) - 1
           /\ \A i \in 1..Len(Front(s)) :
                i \in 1..Len(s) /\ Front(s)[i] = s[i]
           /\ Len(s) \in 1..Len(s) /\ Last(s) = s[Len(s)]
           /\ Last(s).node_id \in IdsOf(s)
           /\ IdsOf(Front(s)) \subseteq IdsOf(s)
           /\ Distinct(s) => Distinct(Front(s))
           /\ Distinct(s) => Last(s).node_id \notin IdsOf(Front(s))
<1> DEFINE t == Front(s)
<1>1. Len(s) \in Nat /\ Len(s) > 0
  BY LenProperties, EmptySeq
<1>2. /\ t \in Seq(NodeInfo)
      /\ Len(t) = Len(s) - 1
      /\ \A i \in 1..Len(t) : i \in 1..Len(s) /\ t[i] = s[i]
  <2>1. /\ SubSeq(s, 1, Len(s) - 1) \in Seq(NodeInfo)
        /\ Len(SubSeq(s, 1, Len(s) - 1)) = Len(s) - 1
        /\ \A i \in 1..(Len(s) - 1) : SubSeq(s, 1, Len(s) - 1)[i] = s[i]
    <3>1. Len(s) \in 1..Len(s)
      BY <1>1
    <3> QED
      BY <3>1, PrefixFacts
  <2>2. t = SubSeq(s, 1, Len(s) - 1)
    BY DEF Front
  <2>3. \A i \in 1..(Len(s) - 1) : i \in 1..Len(s)
    BY <1>1
  <2> HIDE DEF t
  <2> QED
    BY <2>1, <2>2, <2>3
<1> HIDE DEF t
<1>3. Len(s) \in 1..Len(s) /\ Last(s) = s[Len(s)] /\ Last(s) \in NodeInfo
  BY <1>1, ElementOfSeq DEF Last
<1>4. Last(s).node_id \in IdsOf(s)
  BY <1>3 DEF IdsOf
<1>5. IdsOf(t) \subseteq IdsOf(s)
  BY <1>2 DEF IdsOf
<1>6. Distinct(s) => Distinct(t)
  BY <1>2 DEF Distinct
<1>7. Distinct(s) => Last(s).node_id \notin IdsOf(t)
  <2> SUFFICES ASSUME Distinct(s), NEW i \in 1..Len(t),
                      t[i].node_id = s[Len(s)].node_id
               PROVE  FALSE
    BY <1>3 DEF IdsOf
  <2>1. i = Len(s)
    BY <1>2, <1>3 DEF Distinct
  <2> QED
    BY <1>1, <1>2, <2>1
<1> QED
  BY <1>2, <1>3, <1>4, <1>5, <1>6, <1>7 DEF t

\* KBucket::insert keeps a bucket well formed in each of its three outcomes:
\* refreshed, appended, or put in the replacement cache of a full bucket.
LEMMA InsertKeeps ==
    ASSUME NEW F, NEW b, BucketOK(b, F), NEW now \in Nat,
           NEW n \in NodeInfo, n.fail_count = 0, n.node_id \in F
    PROVE  BucketOK(BucketInsert(b, n, now), F)
<1> DEFINE r == BucketInsert(b, n, now)
<1>1. /\ b \in Bucket /\ b.nodes \in Seq(NodeInfo) /\ b.cache \in Seq(NodeInfo)
      /\ b.last_updated \in Nat
      /\ Len(b.nodes) \in Nat /\ Len(b.cache) \in Nat /\ K \in Nat
  BY LenProperties, BucketAssumption DEF BucketOK, Bucket
<1>2. CASE Has(b.nodes, n.node_id)
  <2> DEFINE p == Position(b.nodes, n.node_id)
             e == Refreshed(b.nodes[p], n, now)
             s == [b.nodes EXCEPT ![p] = e]
  <2>1. p \in 1..Len(b.nodes) /\ b.nodes[p].node_id = n.node_id
    BY <1>1, <1>2, PositionFacts
  <2>2. e \in NodeInfo /\ e.node_id = n.node_id /\ e.fail_count = 0
    <3>1. b.nodes[p] \in NodeInfo
      BY <1>1, <2>1, ElementOfSeq
    <3>2. MergeAddresses(b.nodes[p].addresses, n.addresses) \in AddrList
      BY <3>1, AddrListAssumption DEF NodeInfo
    <3> QED
      BY <2>1, <3>1, <3>2 DEF Refreshed, NodeInfo
  <2> HIDE DEF p, e
  <2>3. /\ s \in Seq(NodeInfo) /\ Len(s) = Len(b.nodes)
        /\ \A i \in 1..Len(s) : s[i] = IF i = p THEN e ELSE b.nodes[i]
    BY <1>1, <2>1, <2>2, ExceptSeq
  <2> HIDE DEF s
  <2>4. r = [nodes |-> s, cache |-> b.cache, last_updated |-> now]
    BY <1>2 DEF BucketInsert, p, e, s
  <2>5. IdsOf(s) = IdsOf(b.nodes)
    <3>1. \A i \in 1..Len(b.nodes) : s[i].node_id = b.nodes[i].node_id
      BY <2>1, <2>2, <2>3
    <3> QED
      BY <2>3, <3>1 DEF IdsOf
  <2>6. \A i \in 1..Len(s) : s[i].fail_count < MaxFailures
    BY <2>2, <2>3, BucketAssumption DEF BucketOK, BucketFailCounts
  <2>7. r \in Bucket /\ r.nodes = s /\ r.cache = b.cache
    BY <1>1, <2>3, <2>4 DEF Bucket
  <2> HIDE DEF r
  <2> QED
    BY <2>3, <2>5, <2>6, <2>7 DEF BucketOK, BucketSizeOK, BucketCacheWaits,
       BucketCacheDisjoint, BucketFailCounts, r
<1>3. CASE ~Has(b.nodes, n.node_id) /\ ~IsFull(b)
  <2> DEFINE s == Append(b.nodes, n)
  <2>1. /\ s \in Seq(NodeInfo) /\ Len(s) = Len(b.nodes) + 1
        /\ \A i \in 1..Len(b.nodes) : s[i] = b.nodes[i]
        /\ s[Len(b.nodes) + 1] = n
        /\ IdsOf(s) = IdsOf(b.nodes) \cup {n.node_id}
    BY <1>1, AppendFacts
  <2> HIDE DEF s
  <2>2. r = [nodes |-> s, cache |-> b.cache, last_updated |-> now]
    BY <1>3 DEF BucketInsert, s
  <2>3. r \in Bucket /\ r.nodes = s /\ r.cache = b.cache
    BY <1>1, <2>1, <2>2 DEF Bucket
  <2>4. b.cache = <<>> /\ Len(b.nodes) < K
    BY <1>1, <1>3 DEF IsFull, BucketOK, BucketCacheWaits
  <2>5. IdsOf(<<>>) = {} /\ Distinct(<<>>) /\ Len(<<>>) = 0
    BY DEF IdsOf, Distinct
  <2>6. \A i \in 1..Len(s) : s[i].fail_count < MaxFailures
    <3>1. \A i \in 1..Len(b.nodes) : b.nodes[i].fail_count < MaxFailures
      BY DEF BucketOK, BucketFailCounts
    <3>2. n.fail_count < MaxFailures
      BY LimitPositive, Zenon
    <3>3. \A i \in 1..Len(s) : i \in 1..Len(b.nodes) \/ i = Len(b.nodes) + 1
      BY <1>1, <2>1
    <3> QED
      BY <2>1, <3>1, <3>2, <3>3
  <2> HIDE DEF r
  <2>7. BucketSizeOK(r) /\ BucketCacheWaits(r)
    BY <1>1, <2>1, <2>3, <2>4, <2>5 DEF BucketSizeOK, BucketCacheWaits
  <2>8. BucketCacheDisjoint(r) /\ BucketFailCounts(r)
    BY <2>3, <2>4, <2>5, <2>6 DEF BucketCacheDisjoint, BucketFailCounts
  <2>9. IdsOf(r.nodes) \cup IdsOf(r.cache) \subseteq F
    BY <2>1, <2>3 DEF BucketOK
  <2> QED
    BY <2>3, <2>7, <2>8, <2>9 DEF BucketOK, r
<1>4. CASE ~Has(b.nodes, n.node_id) /\ IsFull(b)
  <2> DEFINE c == AddToCache(b.cache, n)
  <2>1. /\ c \in Seq(NodeInfo) /\ Len(c) <= K /\ Distinct(c)
        /\ IdsOf(c) \subseteq IdsOf(b.cache) \cup {n.node_id}
        /\ \A i \in 1..Len(c) : c[i].fail_count = 0
    BY <1>1, AddToCacheFacts
       DEF BucketOK, BucketSizeOK, BucketCacheDisjoint, BucketFailCounts
  <2> HIDE DEF c
  <2>2. r = [nodes |-> b.nodes, cache |-> c, last_updated |-> b.last_updated]
    BY <1>4 DEF BucketInsert, c
  <2>3. r \in Bucket /\ r.nodes = b.nodes /\ r.cache = c
    BY <1>1, <2>1, <2>2 DEF Bucket
  <2>4. n.node_id \notin IdsOf(b.nodes)
    BY <1>1, <1>4, HasFacts
  <2>5. Len(b.nodes) = K
    BY <1>1, <1>4 DEF IsFull, BucketOK, BucketSizeOK
  <2> HIDE DEF r
  <2> QED
    BY <2>1, <2>3, <2>4, <2>5 DEF BucketOK, BucketSizeOK, BucketCacheWaits,
       BucketCacheDisjoint, BucketFailCounts, r
<1> QED
  BY <1>2, <1>3, <1>4

\* KBucket::evict_and_insert keeps a bucket well formed when it swaps, and when
\* the peer to evict is gone or the newcomer was inserted in the meantime.
LEMMA EvictKeeps ==
    ASSUME NEW F, NEW b, BucketOK(b, F), NEW now \in Nat, NEW failed,
           NEW n \in NodeInfo, n.fail_count = 0, n.node_id \in F
    PROVE  BucketOK(BucketEvictAndInsert(b, failed, n, now), F)
<1> DEFINE r == BucketEvictAndInsert(b, failed, n, now)
<1>1. /\ b \in Bucket /\ b.nodes \in Seq(NodeInfo) /\ b.cache \in Seq(NodeInfo)
      /\ Len(b.nodes) \in Nat /\ Len(b.cache) \in Nat /\ K \in Nat
      /\ Distinct(b.cache)
  BY LenProperties, BucketAssumption DEF BucketOK, Bucket, BucketCacheDisjoint
<1>2. CASE ~Has(b.nodes, failed)
  BY <1>2 DEF BucketEvictAndInsert
<1>3. CASE Has(b.nodes, failed)
  <2> DEFINE p == Position(b.nodes, failed)
             q == RemoveAt(b.nodes, p)
             s == Append(q, n)
             c == Without(b.cache, n.node_id)
  <2>1. p \in 1..Len(b.nodes)
    BY <1>1, <1>3, PositionFacts
  <2>2. /\ q \in Seq(NodeInfo) /\ Len(q) = Len(b.nodes) - 1
        /\ \A j \in 1..(Len(b.nodes) - 1) :
                q[j] = IF j < p THEN b.nodes[j] ELSE b.nodes[j + 1]
        /\ IdsOf(q) \subseteq IdsOf(b.nodes)
    BY <1>1, <2>1, RemoveAtFacts, RemoveAtIds
  <2>3. /\ c \in Seq(NodeInfo) /\ Len(c) <= Len(b.cache)
        /\ IdsOf(c) \subseteq IdsOf(b.cache) \ {n.node_id}
        /\ Distinct(c)
        /\ \A i \in 1..Len(c) : \E j \in 1..Len(b.cache) : c[i] = b.cache[j]
    BY <1>1, WithoutFacts
  <2>15. Len(c) \in Nat
    BY <2>3, LenProperties
  <2>4. r = [nodes |-> s, cache |-> c, last_updated |-> now]
    BY <1>3 DEF BucketEvictAndInsert
  <2> HIDE DEF p, q, c, r
  <2>5. /\ s \in Seq(NodeInfo) /\ Len(s) = Len(q) + 1
        /\ \A i \in 1..Len(q) : s[i] = q[i]
        /\ s[Len(q) + 1] = n
        /\ IdsOf(s) = IdsOf(q) \cup {n.node_id}
    BY <2>2, AppendFacts
  <2> HIDE DEF s
  <2>6. r \in Bucket /\ r.nodes = s /\ r.cache = c
    BY <2>3, <2>4, <2>5 DEF Bucket
  <2>7. Len(s) = Len(b.nodes)
    BY <1>1, <2>2, <2>5
  <2>8. \A i \in 1..Len(s) : s[i].fail_count < MaxFailures
    <3> SUFFICES ASSUME NEW i \in 1..Len(s)
                 PROVE  s[i].fail_count < MaxFailures
      OBVIOUS
    <3>1. \A j \in 1..Len(b.nodes) : b.nodes[j].fail_count < MaxFailures
      BY DEF BucketOK, BucketFailCounts
    <3>2. n.fail_count < MaxFailures
      BY LimitPositive, Zenon
    <3>3. CASE i = Len(q) + 1
      BY <2>5, <3>2, <3>3
    <3>4. CASE i # Len(q) + 1
      <4>1. /\ i \in 1..Len(q) /\ i \in 1..(Len(b.nodes) - 1)
            /\ i \in 1..Len(b.nodes) /\ i + 1 \in 1..Len(b.nodes)
        BY <1>1, <2>2, <2>5, <3>4
      <4> QED
        BY <2>2, <2>5, <3>1, <4>1
    <3> QED
      BY <3>3, <3>4
  <2>9. \A i \in 1..Len(c) : c[i].fail_count = 0
    BY <2>3 DEF BucketOK, BucketFailCounts
  <2>10. c # <<>> => Len(b.nodes) = K
    <3>1. c # <<>> => Len(c) > 0
      BY <2>3, <2>15, EmptySeq
    <3>2. Len(c) > 0 => b.cache # <<>>
      BY <1>1, <2>3, <2>15, EmptySeq
    <3> QED
      BY <3>1, <3>2 DEF BucketOK, BucketCacheWaits
  <2>11. BucketSizeOK(r) /\ BucketCacheWaits(r)
    BY <1>1, <2>3, <2>15, <2>6, <2>7, <2>10 DEF BucketOK, BucketSizeOK, BucketCacheWaits
  <2>12. BucketCacheDisjoint(r)
    BY <2>2, <2>3, <2>5, <2>6 DEF BucketOK, BucketCacheDisjoint
  <2>13. BucketFailCounts(r)
    BY <2>6, <2>8, <2>9 DEF BucketFailCounts
  <2>14. IdsOf(r.nodes) \cup IdsOf(r.cache) \subseteq F
    BY <2>2, <2>3, <2>5, <2>6 DEF BucketOK
  <2> QED
    BY <2>6, <2>11, <2>12, <2>13, <2>14 DEF BucketOK, r
<1> QED
  BY <1>2, <1>3

(* The entry at Position is about to go, so its own fail_count is free. *)
LEMMA RemoveKeeps ==
    ASSUME NEW F, NEW b, NEW id, b \in Bucket, BucketSizeOK(b),
           BucketCacheWaits(b), BucketCacheDisjoint(b),
           IdsOf(b.nodes) \cup IdsOf(b.cache) \subseteq F,
           Has(b.nodes, id),
           \A i \in 1..Len(b.nodes) : i # Position(b.nodes, id) =>
                b.nodes[i].fail_count < MaxFailures,
           \A i \in 1..Len(b.cache) : b.cache[i].fail_count = 0
    PROVE  BucketOK(BucketRemove(b, id), F)
<1> DEFINE r == BucketRemove(b, id)
           p == Position(b.nodes, id)
           q == RemoveAt(b.nodes, p)
<1>1. /\ b.nodes \in Seq(NodeInfo) /\ b.cache \in Seq(NodeInfo)
      /\ b.last_updated \in Nat
      /\ Len(b.nodes) \in Nat /\ Len(b.cache) \in Nat /\ K \in Nat
      /\ Distinct(b.cache)
  BY LenProperties, BucketAssumption DEF Bucket, BucketCacheDisjoint
<1>2. p \in 1..Len(b.nodes)
  BY <1>1, PositionFacts
<1>3. /\ q \in Seq(NodeInfo) /\ Len(q) = Len(b.nodes) - 1
      /\ \A j \in 1..(Len(b.nodes) - 1) :
              q[j] = IF j < p THEN b.nodes[j] ELSE b.nodes[j + 1]
      /\ IdsOf(q) \subseteq IdsOf(b.nodes)
  <2> HIDE DEF p, r
  <2>1. /\ q \in Seq(NodeInfo) /\ Len(q) = Len(b.nodes) - 1
        /\ \A j \in 1..(Len(b.nodes) - 1) :
                q[j] = IF j < p THEN b.nodes[j] ELSE b.nodes[j + 1]
    BY <1>1, <1>2, RemoveAtFacts
  <2>2. IdsOf(q) \subseteq IdsOf(b.nodes)
    BY <1>1, <1>2, RemoveAtIds
  <2> QED
    BY <2>1, <2>2
<1>4. r = IF b.cache = <<>>
          THEN [nodes |-> q, cache |-> <<>>, last_updated |-> b.last_updated]
          ELSE [nodes |-> Append(q, Last(b.cache)), cache |-> Front(b.cache),
                last_updated |-> b.last_updated]
  BY DEF BucketRemove
<1>5. \A i \in 1..Len(q) : q[i].fail_count < MaxFailures
  <2> SUFFICES ASSUME NEW i \in 1..Len(q) PROVE q[i].fail_count < MaxFailures
    OBVIOUS
  <2> HIDE DEF q, p, r
  <2>1. /\ i \in 1..(Len(b.nodes) - 1) /\ i \in 1..Len(b.nodes)
        /\ i + 1 \in 1..Len(b.nodes)
        /\ i < p => i # p
        /\ ~(i < p) => i + 1 # p
    BY <1>1, <1>2, <1>3
  <2> QED
    BY <1>3, <2>1 DEF p
<1> HIDE DEF r, p, q
<1>6. CASE b.cache = <<>>
  <2>1. IdsOf(<<>>) = {} /\ Distinct(<<>>) /\ Len(<<>>) = 0 /\ <<>> \in Seq(NodeInfo)
    BY DEF IdsOf, Distinct
  <2>2. r \in Bucket /\ r.nodes = q /\ r.cache = <<>>
    BY <1>1, <1>3, <1>4, <1>6, <2>1 DEF Bucket
  <2>3. BucketSizeOK(r) /\ BucketCacheWaits(r)
    BY <1>1, <1>2, <1>3, <2>1, <2>2 DEF BucketSizeOK, BucketCacheWaits
  <2>4. BucketCacheDisjoint(r) /\ BucketFailCounts(r)
    BY <1>5, <2>1, <2>2 DEF BucketCacheDisjoint, BucketFailCounts
  <2>5. IdsOf(r.nodes) \cup IdsOf(r.cache) \subseteq F
    BY <1>3, <2>1, <2>2
  <2> QED
    BY <2>2, <2>3, <2>4, <2>5 DEF BucketOK, r
<1>7. CASE b.cache # <<>>
  <2> DEFINE l == Last(b.cache)
             c == Front(b.cache)
             s == Append(q, l)
  <2>1. /\ c \in Seq(NodeInfo) /\ l \in NodeInfo
        /\ Len(c) = Len(b.cache) - 1
        /\ \A i \in 1..Len(c) : i \in 1..Len(b.cache) /\ c[i] = b.cache[i]
        /\ Len(b.cache) \in 1..Len(b.cache) /\ l = b.cache[Len(b.cache)]
        /\ l.node_id \in IdsOf(b.cache)
        /\ IdsOf(c) \subseteq IdsOf(b.cache)
        /\ Distinct(c)
        /\ l.node_id \notin IdsOf(c)
    BY <1>1, <1>7, FrontFacts
  <2>2. r = [nodes |-> s, cache |-> c, last_updated |-> b.last_updated]
    BY <1>4, <1>7
  <2> HIDE DEF l, c
  <2>3. /\ s \in Seq(NodeInfo) /\ Len(s) = Len(q) + 1
        /\ \A i \in 1..Len(q) : s[i] = q[i]
        /\ s[Len(q) + 1] = l
        /\ IdsOf(s) = IdsOf(q) \cup {l.node_id}
    BY <1>3, <2>1, AppendFacts
  <2> HIDE DEF s
  <2>4. r \in Bucket /\ r.nodes = s /\ r.cache = c
    BY <1>1, <2>1, <2>2, <2>3 DEF Bucket
  <2>5. Len(s) = Len(b.nodes) /\ Len(b.nodes) = K
    BY <1>1, <1>3, <1>7, <2>3 DEF BucketCacheWaits
  <2>6. BucketSizeOK(r) /\ BucketCacheWaits(r)
    BY <1>1, <2>1, <2>4, <2>5 DEF BucketSizeOK, BucketCacheWaits
  <2>7. BucketCacheDisjoint(r)
    BY <1>3, <2>1, <2>3, <2>4 DEF BucketCacheDisjoint
  <2>8. \A i \in 1..Len(s) : s[i].fail_count < MaxFailures
    <3>3. l.fail_count = 0
      <4>1. b.cache[Len(b.cache)].fail_count = 0
        BY <2>1, Zenon
      <4> QED
        BY <2>1, <4>1, Zenon
    <3>4. 0 < MaxFailures
      BY LimitPositive, Zenon
    <3>1. l.fail_count < MaxFailures
      BY <3>3, <3>4, Zenon
    <3>2. \A i \in 1..Len(s) : i \in 1..Len(q) \/ i = Len(q) + 1
      BY <1>1, <1>3, <2>3
    <3> QED
      BY <1>5, <2>3, <3>1, <3>2
  <2>9. BucketFailCounts(r)
    BY <2>1, <2>4, <2>8 DEF BucketFailCounts
  <2>10. IdsOf(r.nodes) \cup IdsOf(r.cache) \subseteq F
    BY <1>3, <2>1, <2>3, <2>4
  <2> QED
    BY <2>4, <2>6, <2>7, <2>9, <2>10 DEF BucketOK, r
<1> QED
  BY <1>6, <1>7

\* KBucket::record_failure keeps a bucket well formed: it counts the failure or
\* removes the peer that has reached the limit and promotes a candidate.
LEMMA RecordFailureKeeps ==
    ASSUME NEW F, NEW b, BucketOK(b, F), NEW id
    PROVE  BucketOK(BucketRecordFailure(b, id), F)
<1>1. /\ b \in Bucket /\ b.nodes \in Seq(NodeInfo) /\ b.cache \in Seq(NodeInfo)
      /\ b.last_updated \in Nat
      /\ Len(b.nodes) \in Nat /\ Len(b.cache) \in Nat /\ K \in Nat
  BY LenProperties, BucketAssumption DEF BucketOK, Bucket
<1>2. CASE ~Has(b.nodes, id)
  BY <1>2 DEF BucketRecordFailure
<1>3. CASE Has(b.nodes, id)
  <2> DEFINE p == Position(b.nodes, id)
             e == Failed(b.nodes[p])
             s == [b.nodes EXCEPT ![p] = e]
             f == [nodes |-> s, cache |-> b.cache,
                   last_updated |-> b.last_updated]
  <2>1. p \in 1..Len(b.nodes) /\ b.nodes[p].node_id = id
    BY <1>1, <1>3, PositionFacts
  <2>2. e \in NodeInfo /\ e.node_id = b.nodes[p].node_id
    <3>1. b.nodes[p] \in NodeInfo
      BY <1>1, <2>1, ElementOfSeq
    <3> HIDE DEF p
    <3> QED
      BY <3>1 DEF Failed, NodeInfo
  <2>3. BucketRecordFailure(b, id) =
            IF f.nodes[p].fail_count >= MaxFailures
            THEN BucketRemove(f, id) ELSE f
    BY <1>3 DEF BucketRecordFailure
  <2> HIDE DEF p, e
  <2>4. /\ s \in Seq(NodeInfo) /\ Len(s) = Len(b.nodes)
        /\ \A i \in 1..Len(s) : s[i] = IF i = p THEN e ELSE b.nodes[i]
    BY <1>1, <2>1, <2>2, ExceptSeq
  <2> HIDE DEF s
  <2>5. f \in Bucket /\ f.nodes = s /\ f.cache = b.cache
    BY <1>1, <2>4 DEF Bucket
  <2> HIDE DEF f
  <2>6. \A i \in 1..Len(b.nodes) : s[i].node_id = b.nodes[i].node_id
    BY <2>2, <2>4
  <2>7. IdsOf(s) = IdsOf(b.nodes)
    BY <2>4, <2>6 DEF IdsOf
  <2>8. Positions(s, id) = Positions(b.nodes, id)
    BY <2>4, <2>6 DEF Positions
  <2>9. Has(s, id) /\ Position(s, id) = p
    BY <1>3, <2>8 DEF Has, Position, p
  <2>10. /\ BucketSizeOK(f) /\ BucketCacheWaits(f) /\ BucketCacheDisjoint(f)
         /\ IdsOf(f.nodes) \cup IdsOf(f.cache) \subseteq F
    BY <2>4, <2>5, <2>7
       DEF BucketOK, BucketSizeOK, BucketCacheWaits, BucketCacheDisjoint
  <2>11. \A i \in 1..Len(s) : i # p => s[i].fail_count < MaxFailures
    BY <2>4 DEF BucketOK, BucketFailCounts
  <2>12. \A i \in 1..Len(f.cache) : f.cache[i].fail_count = 0
    BY <2>5 DEF BucketOK, BucketFailCounts
  <2>13. CASE f.nodes[p].fail_count >= MaxFailures
    BY <2>3, <2>5, <2>9, <2>10, <2>11, <2>12, <2>13, RemoveKeeps
  <2>14. CASE ~(f.nodes[p].fail_count >= MaxFailures)
    <3>1. s[p].fail_count < MaxFailures
      <4>1. s[p] \in NodeInfo
        BY <2>1, <2>4, ElementOfSeq
      <4>2. s[p].fail_count \in Int
        BY <4>1 DEF NodeInfo
      <4>3. MaxFailures \in Int
        BY BucketAssumption
      <4>4. ~(s[p].fail_count >= MaxFailures)
        BY <2>5, <2>14
      <4> DEFINE x == s[p].fail_count
      <4> HIDE DEF x
      <4>5. x \in Int /\ ~(x >= MaxFailures)
        BY <4>2, <4>4 DEF x
      <4>6. x < MaxFailures
        BY <4>3, <4>5
      <4> QED
        BY <4>6 DEF x
    <3>2. BucketFailCounts(f)
      BY <2>5, <2>11, <2>12, <3>1 DEF BucketFailCounts
    <3> QED
      BY <2>3, <2>5, <2>10, <2>14, <3>2 DEF BucketOK
  <2> QED
    BY <2>13, <2>14
<1> QED
  BY <1>2, <1>3

-----------------------------------------------------------------------------
\* insert never shortens a bucket: it refreshes, appends, or leaves the peers.
LEMMA InsertSlot ==
    ASSUME NEW b \in Bucket, NEW n \in NodeInfo, NEW now
    PROVE  SlotKept(b, BucketInsert(b, n, now))
<1>1. b.nodes \in Seq(NodeInfo) /\ Len(b.nodes) \in Nat
  BY LenProperties DEF Bucket
<1> DEFINE p == Position(b.nodes, n.node_id)
           e == Refreshed(b.nodes[p], n, now)
<1>2. Len([b.nodes EXCEPT ![p] = e]) = Len(b.nodes)
  <2> HIDE DEF p, e
  <2> QED
    BY <1>1
<1>3. Len(Append(b.nodes, n)) = Len(b.nodes) + 1
  BY <1>1, AppendFacts
<1>4. \/ BucketInsert(b, n, now).nodes = [b.nodes EXCEPT ![p] = e]
      \/ BucketInsert(b, n, now).nodes = Append(b.nodes, n)
      \/ BucketInsert(b, n, now).nodes = b.nodes
  BY DEF BucketInsert
<1> HIDE DEF p, e
<1>5. Len(BucketInsert(b, n, now).nodes) >= Len(b.nodes)
  BY <1>1, <1>2, <1>3, <1>4
<1> QED
  BY <1>5 DEF SlotKept

\* evict_and_insert swaps one peer for another.
LEMMA EvictSlot ==
    ASSUME NEW b \in Bucket, NEW failed, NEW n \in NodeInfo, NEW now
    PROVE  SlotKept(b, BucketEvictAndInsert(b, failed, n, now))
<1>1. b.nodes \in Seq(NodeInfo) /\ Len(b.nodes) \in Nat
  BY LenProperties DEF Bucket
<1>2. CASE ~Has(b.nodes, failed)
  BY <1>1, <1>2 DEF BucketEvictAndInsert, SlotKept
<1>3. CASE Has(b.nodes, failed)
  <2> DEFINE q == RemoveAt(b.nodes, Position(b.nodes, failed))
  <2>1. Position(b.nodes, failed) \in 1..Len(b.nodes)
    BY <1>1, <1>3, PositionFacts
  <2>2. q \in Seq(NodeInfo) /\ Len(q) = Len(b.nodes) - 1
    BY <1>1, <2>1, RemoveAtFacts
  <2>3. BucketEvictAndInsert(b, failed, n, now).nodes = Append(q, n)
    BY <1>3 DEF BucketEvictAndInsert
  <2> HIDE DEF q
  <2>4. Len(Append(q, n)) = Len(q) + 1
    BY <2>2, AppendFacts
  <2> QED
    BY <1>1, <2>2, <2>3, <2>4 DEF SlotKept
<1> QED
  BY <1>2, <1>3

\* remove, and so record_failure, promotes a candidate if there is one.
LEMMA RecordFailureSlot ==
    ASSUME NEW b \in Bucket, NEW id
    PROVE  SlotKept(b, BucketRecordFailure(b, id))
<1>1. /\ b.nodes \in Seq(NodeInfo) /\ Len(b.nodes) \in Nat
      /\ b.cache \in Seq(NodeInfo)
  BY LenProperties DEF Bucket
<1>2. CASE ~Has(b.nodes, id)
  BY <1>1, <1>2 DEF BucketRecordFailure, SlotKept
<1>3. CASE Has(b.nodes, id)
  <2> DEFINE p == Position(b.nodes, id)
             e == Failed(b.nodes[p])
             s == [b.nodes EXCEPT ![p] = e]
             f == [nodes |-> s, cache |-> b.cache,
                   last_updated |-> b.last_updated]
             q == RemoveAt(s, Position(s, id))
  <2>1. p \in 1..Len(b.nodes)
    BY <1>1, <1>3, PositionFacts
  <2>2. e \in NodeInfo /\ e.node_id = b.nodes[p].node_id
    <3>1. b.nodes[p] \in NodeInfo
      BY <1>1, <2>1, ElementOfSeq
    <3> HIDE DEF p
    <3> QED
      BY <3>1 DEF Failed, NodeInfo
  <2>3. BucketRecordFailure(b, id) \in {BucketRemove(f, id), f}
    BY <1>3 DEF BucketRecordFailure
  <2>5. f.nodes = s /\ f.cache = b.cache
    OBVIOUS
  <2> HIDE DEF f, e, p
  <2>6. s \in Seq(NodeInfo) /\ Len(s) = Len(b.nodes)
    BY <1>1, <2>1, <2>2, ExceptSeq
  <2> HIDE DEF s
  <2>7. Has(s, id) => q \in Seq(NodeInfo) /\ Len(q) = Len(s) - 1
    BY <2>6, PositionFacts, RemoveAtFacts
  <2>8. BucketRemove(f, id) = IF ~Has(s, id) THEN f
            ELSE IF b.cache = <<>>
                 THEN [nodes |-> q, cache |-> <<>>,
                       last_updated |-> f.last_updated]
                 ELSE [nodes |-> Append(q, Last(b.cache)),
                       cache |-> Front(b.cache),
                       last_updated |-> f.last_updated]
    BY <2>5 DEF BucketRemove
  <2> HIDE DEF q
  <2>9. b.cache # <<>> => Last(b.cache) \in NodeInfo
    BY <1>1, FrontFacts
  <2>10. CASE BucketRecordFailure(b, id) = f
    BY <1>1, <2>5, <2>6, <2>10 DEF SlotKept
  <2>11. CASE BucketRecordFailure(b, id) = BucketRemove(f, id)
    <3>1. CASE ~Has(s, id)
      BY <1>1, <2>5, <2>6, <2>8, <2>11, <3>1 DEF SlotKept
    <3>2. CASE Has(s, id) /\ b.cache = <<>>
      BY <2>8, <2>11, <3>2 DEF SlotKept
    <3>3. CASE Has(s, id) /\ b.cache # <<>>
      <4>1. BucketRemove(f, id).nodes = Append(q, Last(b.cache))
        BY <2>8, <3>3
      <4>2. Len(Append(q, Last(b.cache))) = Len(q) + 1
        BY <2>7, <2>9, <3>3, AppendFacts
      <4> QED
        BY <1>1, <2>6, <2>7, <2>11, <3>3, <4>1, <4>2 DEF SlotKept
    <3> QED
      BY <3>1, <3>2, <3>3
  <2> QED
    BY <2>3, <2>10, <2>11
<1> QED
  BY <1>2, <1>3
-----------------------------------------------------------------------------
(* The table *)

\* The identifiers that belong in bucket i.
Filed(i) == {id \in NodeId : id # Self /\ BucketIndex(id) = i}

TableOK(bs) ==
    /\ bs \in [BucketIdx -> Bucket]
    /\ \A i \in BucketIdx : BucketOK(bs[i], Filed(i))

IInv == TypeOK /\ TableOK(buckets) /\ PendingEvictionOK

-----------------------------------------------------------------------------
\* bucket_index never leaves the array of buckets, not even for the node's own
\* identifier, whose prefix length is the width of an identifier.
LEMMA BucketIndexType ==
    ASSUME NEW id \in NodeId
    PROVE  BucketIndex(id) \in BucketIdx
<1> DEFINE d == Distance(Self, id)
           D == {i \in Bits : d[i] # 0}
<1>1. W \in Nat /\ W >= 1
  BY WAssumption
<1>2. D \in SUBSET Nat /\ \A i \in D : 1 <= i /\ i <= W
  BY <1>1 DEF Bits
<1> HIDE DEF d
<1>3. CASE D = {}
  <2>1. CommonPrefixLength(Self, id) = W
    BY <1>3 DEF CommonPrefixLength, LeadingZeros, d
  <2> QED
    BY <1>1, <2>1 DEF BucketIndex, BucketIdx
<1>4. CASE D # {}
  <2>1. Min(D) \in D
    BY <1>2, <1>4, MinNat
  <2>2. CommonPrefixLength(Self, id) = Min(D) - 1
    BY <1>4 DEF CommonPrefixLength, LeadingZeros, d
  <2> HIDE DEF D
  <2>3. Min(D) \in Nat /\ 1 <= Min(D) /\ Min(D) <= W
    BY <1>2, <2>1
  <2> QED
    BY <1>1, <2>2, <2>3 DEF BucketIndex, BucketIdx
<1> QED
  BY <1>3, <1>4

\* RoutingTable::insert of a new entry keeps every bucket well formed and loses
\* no slot.
LEMMA TableInsertKeeps ==
    ASSUME NEW bs, TableOK(bs), NEW n \in NodeInfo, n.fail_count = 0,
           NEW now \in Nat
    PROVE  /\ TableOK(TableInsert(bs, n, now))
           /\ \A i \in BucketIdx : SlotKept(bs[i], TableInsert(bs, n, now)[i])
<1>1. CASE n.node_id = Self
  <2>1. \A i \in BucketIdx : Len(bs[i].nodes) \in Nat
    BY LenProperties DEF TableOK, Bucket
  <2> QED
    BY <1>1, <2>1 DEF TableInsert, SlotKept
<1>2. CASE n.node_id # Self
  <2> DEFINE j == BucketIndex(n.node_id)
             c == BucketInsert(bs[j], n, now)
  <2>1. j \in BucketIdx /\ n.node_id \in Filed(j)
    BY <1>2, BucketIndexType DEF NodeInfo, Filed
  <2>2. TableInsert(bs, n, now) = [bs EXCEPT ![j] = c]
    BY <1>2 DEF TableInsert
  <2> HIDE DEF j
  <2>3. BucketOK(c, Filed(j))
    BY <2>1, InsertKeeps DEF TableOK
  <2>4. SlotKept(bs[j], c)
    BY <2>1, InsertSlot DEF TableOK
  <2> HIDE DEF c
  <2>5. \A i \in BucketIdx : SlotKept(bs[i], bs[i])
    BY LenProperties DEF TableOK, Bucket, SlotKept
  <2>6. c \in Bucket
    BY <2>3 DEF BucketOK
  <2> QED
    BY <2>1, <2>2, <2>3, <2>4, <2>5, <2>6 DEF TableOK
<1> QED
  BY <1>1, <1>2

\* evict_and_insert keeps the table well formed when the newcomer belongs to
\* the bucket of the peer it replaces.
LEMMA TableEvictKeeps ==
    ASSUME NEW bs, TableOK(bs), NEW failed \in NodeId, NEW n \in NodeInfo,
           n.fail_count = 0, n.node_id \in Filed(BucketIndex(failed)),
           NEW now \in Nat
    PROVE  /\ TableOK(TableEvictAndInsert(bs, failed, n, now))
           /\ \A i \in BucketIdx :
                SlotKept(bs[i], TableEvictAndInsert(bs, failed, n, now)[i])
<1> DEFINE j == BucketIndex(failed)
           c == BucketEvictAndInsert(bs[j], failed, n, now)
<1>1. j \in BucketIdx
  BY BucketIndexType
<1>2. TableEvictAndInsert(bs, failed, n, now) = [bs EXCEPT ![j] = c]
  BY DEF TableEvictAndInsert
<1>3. n.node_id \in Filed(j)
  OBVIOUS
<1> HIDE DEF j
<1>4. BucketOK(c, Filed(j))
  BY <1>1, <1>3, EvictKeeps DEF TableOK
<1>5. SlotKept(bs[j], c)
  BY <1>1, EvictSlot DEF TableOK
<1> HIDE DEF c
<1>6. \A i \in BucketIdx : SlotKept(bs[i], bs[i])
  BY LenProperties DEF TableOK, Bucket, SlotKept
<1>7. c \in Bucket
  BY <1>4 DEF BucketOK
<1> QED
  BY <1>1, <1>2, <1>4, <1>5, <1>6, <1>7 DEF TableOK

\* A failure booked in any bucket, for any identifier, keeps the table well
\* formed; record_failure and record_failure_by_addr differ in which.
LEMMA FailureKeeps ==
    ASSUME NEW bs, TableOK(bs), NEW j \in BucketIdx, NEW id,
           NEW cs, cs = [bs EXCEPT ![j] = BucketRecordFailure(@, id)]
    PROVE  /\ TableOK(cs)
           /\ \A i \in BucketIdx : SlotKept(bs[i], cs[i])
<1> DEFINE c == BucketRecordFailure(bs[j], id)
<1>1. BucketOK(c, Filed(j))
  BY RecordFailureKeeps DEF TableOK
<1>2. SlotKept(bs[j], c)
  BY RecordFailureSlot DEF TableOK
<1>3. cs = [bs EXCEPT ![j] = c]
  OBVIOUS
<1> HIDE DEF c
<1>4. \A i \in BucketIdx : SlotKept(bs[i], bs[i])
  BY LenProperties DEF TableOK, Bucket, SlotKept
<1>5. c \in Bucket
  BY <1>1 DEF BucketOK
<1> QED
  BY <1>1, <1>2, <1>3, <1>4, <1>5 DEF TableOK

\* The entry NodeInfo::new builds.
LEMMA NewNodeInfoType ==
    ASSUME NEW id \in NodeId, NEW addrs \in AddrList, NEW now \in Nat
    PROVE  /\ NewNodeInfo(id, addrs, now) \in NodeInfo
           /\ NewNodeInfo(id, addrs, now).fail_count = 0
           /\ NewNodeInfo(id, addrs, now).node_id = id
BY DEF NewNodeInfo, NodeInfo

-----------------------------------------------------------------------------
\* The empty table and idle handlers a node starts with satisfy the invariant.
LEMMA InitIInv == Init => IInv
<1> SUFFICES ASSUME Init PROVE IInv
  OBVIOUS
<1>1. \A i \in BucketIdx : BucketOK(EmptyBucket(0), Filed(i))
  <2> DEFINE e == EmptyBucket(0)
  <2>1. e.nodes = <<>> /\ e.cache = <<>> /\ e \in Bucket
    BY DEF EmptyBucket, Bucket
  <2>2. IdsOf(<<>>) = {} /\ Distinct(<<>>) /\ Len(<<>>) = 0
    BY DEF IdsOf, Distinct
  <2>3. K \in Nat
    BY BucketAssumption
  <2> HIDE DEF e
  <2> QED
    BY <2>1, <2>2, <2>3 DEF BucketOK, BucketSizeOK, BucketCacheWaits,
       BucketCacheDisjoint, BucketFailCounts, e
<1>2. TableOK(buckets)
  BY <1>1 DEF Init, TableOK, BucketOK
<1>3. TypeOK
  BY <1>2, TableAssumption DEF Init, TableOK, TypeOK
<1>4. PendingEvictionOK
  BY DEF Init, PendingEvictionOK
<1> QED
  BY <1>2, <1>3, <1>4 DEF IInv

\* Every step of every task keeps the invariant and loses no slot.
LEMMA StepIInv ==
    ASSUME IInv, [Next]_vars
    PROVE  /\ IInv'
           /\ \A i \in BucketIdx : SlotKept(buckets[i], buckets'[i])
<1> DEFINE Kept == \A i \in BucketIdx : SlotKept(buckets[i], buckets'[i])
           Pending == [phase : {"resolve", "ping"}, node : NodeInfo, lrs : NodeId]
<1>1. /\ TypeOK /\ TableOK(buckets) /\ PendingEvictionOK
      /\ clock \in Nat /\ MaxClock \in Nat
  BY TableAssumption DEF IInv, TypeOK
<1>2. \A h \in Handler : task[h] # Idle =>
        /\ task[h] \in Pending
        /\ task[h].node.node_id # Self
        /\ task[h].node.fail_count = 0
        /\ BucketIndex(task[h].node.node_id) = BucketIndex(task[h].lrs)
  BY <1>1 DEF TypeOK, PendingEvictionOK
<1>3. UNCHANGED buckets => TableOK(buckets') /\ Kept
  <2>1. \A i \in BucketIdx : SlotKept(buckets[i], buckets[i])
    BY <1>1, LenProperties DEF TableOK, Bucket, SlotKept
  <2> QED
    BY <1>1, <2>1
\* A handler that goes idle keeps the other handlers as they are.
<1>4. ASSUME NEW h \in Handler, task' = [task EXCEPT ![h] = Idle],
             TableOK(buckets'), clock' = clock
      PROVE  IInv'
  <2>1. TypeOK'
    BY <1>1, <1>4 DEF TypeOK, TableOK
  <2>2. PendingEvictionOK'
    BY <1>1, <1>4 DEF TypeOK, PendingEvictionOK
  <2> QED
    BY <1>4, <2>1, <2>2 DEF IInv
\* A step that leaves the handlers alone.
<1>5. ASSUME UNCHANGED task, TableOK(buckets'), clock' \in 0..MaxClock
      PROVE  IInv'
  BY <1>1, <1>5 DEF IInv, TypeOK, TableOK, PendingEvictionOK
<1>6. ASSUME NEW h \in Handler, NEW p \in Peer, Inbound(h, p)
      PROVE  IInv' /\ Kept
  <2>1. PICK a \in SourceAddr[p] :
            LET node == NewNodeInfo(p, <<a>>, clock)
            IN  /\ buckets' = TableInsert(buckets, node, clock)
                /\ task' =
                    IF TableInsertResult(buckets, node) = "BucketFull"
                    THEN [task EXCEPT ![h] =
                            [phase |-> "resolve",
                             node  |-> node,
                             lrs   |-> buckets[BucketIndex(p)].nodes[1].node_id]]
                    ELSE task
    BY <1>6 DEF Inbound
  <2> DEFINE node == NewNodeInfo(p, <<a>>, clock)
             lrs  == buckets[BucketIndex(p)].nodes[1].node_id
  <2>2. p \in NodeId /\ <<a>> \in AddrList
    BY TableAssumption, AddrListAssumption
  <2>3. node \in NodeInfo /\ node.fail_count = 0 /\ node.node_id = p
    BY <1>1, <2>2, NewNodeInfoType
  <2>4. TableOK(buckets') /\ Kept
    BY <1>1, <2>1, <2>3, TableInsertKeeps
  <2>5. clock' = clock
    BY <1>6 DEF Inbound
  <2>6. CASE TableInsertResult(buckets, node) # "BucketFull"
    <3>1. UNCHANGED task
      BY <2>1, <2>6
    <3>2. clock' \in 0..MaxClock
      BY <1>1, <2>5 DEF TypeOK
    <3> QED
      BY <1>5, <2>4, <3>1, <3>2
  <2>7. CASE TableInsertResult(buckets, node) = "BucketFull"
    <3> DEFINE b == buckets[BucketIndex(p)]
    <3>1. p # Self /\ ~Has(b.nodes, p) /\ IsFull(b)
      BY <2>3, <2>7 DEF TableInsertResult, InsertResult
    <3>2. BucketIndex(p) \in BucketIdx
      BY <2>2, BucketIndexType
    <3>3. BucketOK(b, Filed(BucketIndex(p)))
      BY <1>1, <3>2 DEF TableOK
    <3>4. b.nodes \in Seq(NodeInfo) /\ Len(b.nodes) \in Nat
      BY <3>3, LenProperties DEF BucketOK, Bucket
    <3>5. 1 \in 1..Len(b.nodes)
      BY <3>1, <3>4, BucketAssumption DEF IsFull
    <3>6. lrs \in IdsOf(b.nodes)
      BY <3>5 DEF IdsOf
    <3>7. lrs \in Filed(BucketIndex(p)) /\ lrs # p
      BY <3>1, <3>3, <3>4, <3>6, HasFacts DEF BucketOK
    <3>8. lrs \in NodeId /\ BucketIndex(lrs) = BucketIndex(p)
      BY <3>7 DEF Filed
    <3>9. task' = [task EXCEPT ![h] =
                    [phase |-> "resolve", node |-> node, lrs |-> lrs]]
      BY <2>1, <2>7
    <3> HIDE DEF b, lrs, node
    <3> DEFINE new == [phase |-> "resolve", node |-> node, lrs |-> lrs]
    <3>10. new \in Pending /\ new.node = node /\ new.lrs = lrs
      BY <2>3, <3>8
    <3> HIDE DEF new
    <3>11. task' = [task EXCEPT ![h] = new]
      BY <3>9 DEF new
    <3>12. TypeOK'
      BY <1>1, <2>4, <2>5, <3>10, <3>11 DEF TypeOK, TableOK
    <3>13. PendingEvictionOK'
      <4> SUFFICES ASSUME NEW g \in Handler, task'[g] # Idle
                   PROVE  /\ task'[g].node.node_id # Self
                          /\ task'[g].node.node_id # task'[g].lrs
                          /\ task'[g].node.fail_count = 0
                          /\ BucketIndex(task'[g].node.node_id)
                                = BucketIndex(task'[g].lrs)
        BY DEF PendingEvictionOK
      <4>1. CASE g = h
        <5>1. task'[g] = new
          BY <1>1, <3>11, <4>1 DEF TypeOK
        <5> QED
          BY <2>3, <3>1, <3>7, <3>8, <3>10, <5>1
      <4>2. CASE g # h
        <5>1. task'[g] = task[g]
          BY <1>1, <3>11, <4>2 DEF TypeOK
        <5> QED
          BY <1>1, <5>1 DEF PendingEvictionOK
      <4> QED
        BY <4>1, <4>2
    <3> QED
      BY <2>4, <3>12, <3>13 DEF IInv
  <2> QED
    BY <2>4, <2>6, <2>7
<1>7. ASSUME NEW h \in Handler, ResolveLrs(h) PROVE IInv' /\ Kept
  <2>1. UNCHANGED <<buckets, clock>> /\ task[h].phase = "resolve"
    BY <1>7 DEF ResolveLrs
  <2>2. task[h] # Idle
    BY <2>1 DEF Idle
  <2> DEFINE new == [phase |-> "ping", node |-> task[h].node, lrs |-> task[h].lrs]
  <2>3. \/ task' = [task EXCEPT ![h] = new]
        \/ task' = [task EXCEPT ![h] = Idle]
    BY <1>7 DEF ResolveLrs
  <2>4. new \in Pending /\ new.node = task[h].node /\ new.lrs = task[h].lrs
    BY <1>2, <2>2
  <2> HIDE DEF new
  <2>5. CASE task' = [task EXCEPT ![h] = Idle]
    BY <1>3, <1>4, <2>1, <2>5
  <2>6. CASE task' = [task EXCEPT ![h] = new]
    <3>1. TypeOK'
      BY <1>1, <2>1, <2>4, <2>6 DEF TypeOK
    <3>2. PendingEvictionOK'
      BY <1>1, <2>1, <2>2, <2>4, <2>6 DEF TypeOK, PendingEvictionOK
    <3> QED
      BY <1>3, <2>1, <3>1, <3>2 DEF IInv
  <2> QED
    BY <2>3, <2>5, <2>6
<1>8. ASSUME NEW h \in Handler, PingAnswered(h) PROVE IInv' /\ Kept
  BY <1>3, <1>4, <1>8 DEF PingAnswered
<1>9. ASSUME NEW h \in Handler, PingFailed(h) PROVE IInv' /\ Kept
  <2>1. /\ task[h].phase = "ping" /\ clock' = clock
        /\ buckets' = TableEvictAndInsert(buckets, task[h].lrs, task[h].node,
                                          clock)
        /\ task' = [task EXCEPT ![h] = Idle]
    BY <1>9 DEF PingFailed
  <2>2. task[h] # Idle
    BY <2>1 DEF Idle
  <2>3. task[h].lrs \in NodeId /\ task[h].node \in NodeInfo
    BY <1>2, <2>2
  <2>4. task[h].node.node_id \in Filed(BucketIndex(task[h].lrs))
    BY <1>2, <2>2, <2>3 DEF Filed, NodeInfo
  <2>5. TableOK(buckets') /\ Kept
    BY <1>1, <1>2, <2>1, <2>2, <2>3, <2>4, TableEvictKeeps
  <2> QED
    BY <1>4, <2>1, <2>5
<1>10. ASSUME NEW p \in Peer, NEW addrs \in Mention[p], Learn(p, addrs)
       PROVE  IInv' /\ Kept
  <2>1. p \in NodeId /\ addrs \in AddrList
    BY TableAssumption
  <2>2. TableOK(buckets') /\ Kept
    BY <1>1, <1>10, <2>1, NewNodeInfoType, TableInsertKeeps DEF Learn
  <2> QED
    BY <1>1, <1>5, <1>10, <2>2 DEF Learn, TypeOK
<1>11. ASSUME NEW p \in Peer, PeerFailed(p) PROVE IInv' /\ Kept
  <2>1. BucketIndex(p) \in BucketIdx
    BY TableAssumption, BucketIndexType
  <2>2. TableOK(buckets') /\ Kept
    BY <1>1, <1>11, <2>1, FailureKeeps DEF PeerFailed, TableRecordFailure
  <2> QED
    BY <1>1, <1>5, <1>11, <2>2 DEF PeerFailed, TypeOK
<1>12. ASSUME NEW a \in Addr, AddrFailed(a) PROVE IInv' /\ Kept
  <2>1. TableOK(buckets') /\ Kept
    <3>1. CASE BucketsAt(buckets, a) = {}
      BY <1>3, <1>12, <3>1 DEF AddrFailed, TableRecordFailureByAddr
    <3>2. CASE BucketsAt(buckets, a) # {}
      <4> DEFINE i  == Min(BucketsAt(buckets, a))
                 id == buckets[i].nodes[Min(EntriesAt(buckets[i], a))].node_id
      <4>1. BucketsAt(buckets, a) \in SUBSET Nat
        BY WAssumption DEF BucketsAt, BucketIdx
      <4>2. i \in BucketIdx
        BY <3>2, <4>1, MinNat DEF BucketsAt
      <4>3. buckets' = [buckets EXCEPT ![i] = BucketRecordFailure(@, id)]
        BY <1>12, <3>2 DEF AddrFailed, TableRecordFailureByAddr
      <4> HIDE DEF i, id
      <4> QED
        BY <1>1, <4>2, <4>3, FailureKeeps
    <3> QED
      BY <3>1, <3>2
  <2> QED
    BY <1>1, <1>5, <1>12, <2>1 DEF AddrFailed, TypeOK
<1>13. CASE Tick
  <2>1. clock' \in 0..MaxClock
    BY <1>1, <1>13 DEF Tick
  <2> QED
    BY <1>3, <1>5, <1>13, <2>1 DEF Tick
<1>14. CASE UNCHANGED vars
  <2>1. clock' \in 0..MaxClock
    BY <1>1, <1>14 DEF vars, TypeOK
  <2> QED
    BY <1>3, <1>5, <1>14, <2>1 DEF vars
<1> QED
  BY <1>6, <1>7, <1>8, <1>9, <1>10, <1>11, <1>12, <1>13, <1>14 DEF Next

-----------------------------------------------------------------------------
(* closest_nodes and random_id_for_bucket: the XOR metric, what the buckets *)
(* say about it, the sort, and the walk over the buckets.                   *)

\* A distance is a vector of bits, and determines the identifier.
LEMMA DistanceFacts ==
    ASSUME NEW t \in NodeId, NEW a \in NodeId, NEW b \in NodeId
    PROVE  /\ Distance(t, a) \in NodeId
           /\ Distance(t, a) = Distance(t, b) => a = b
<1>1. Distance(t, a) \in NodeId
  BY DEF Distance, NodeId
<1>2. ASSUME Distance(t, a) = Distance(t, b) PROVE a = b
  <2>1. ASSUME NEW i \in Bits PROVE a[i] = b[i]
    <3>1. Distance(t, a)[i] = Distance(t, b)[i]
      BY <1>2
    <3>2. (IF t[i] = a[i] THEN 0 ELSE 1) = (IF t[i] = b[i] THEN 0 ELSE 1)
      BY <3>1 DEF Distance
    <3>3. t[i] \in {0, 1} /\ a[i] \in {0, 1} /\ b[i] \in {0, 1}
      BY DEF NodeId
    <3> QED
      BY <3>2, <3>3
  <2> QED
    BY <2>1 DEF NodeId
<1> QED
  BY <1>1, <1>2


\* The identifiers in the order of their distance to target.
CloserPairs(target) == {p \in NodeId \X NodeId : Closer(target, p[1], p[2])}

\* Closer orders the identifiers.
LEMMA CloserOrder ==
    ASSUME NEW target \in NodeId
    PROVE  /\ StrictOrder(CloserPairs(target), NodeId)
           /\ \A a, b \in NodeId : Closer(target, a, b) => ~Closer(target, b, a) /\ a # b
<1>1. \A a, b \in NodeId : Distance(target, a) \in NodeId
                           /\ (Distance(target, a) = Distance(target, b) => a = b)
  BY DistanceFacts
<1>2. NodeId = [1..W -> {0, 1}] /\ W \in Nat
  BY WAssumption DEF NodeId, Bits
<1>3. \A a, b \in NodeId :
        Closer(target, a, b) <=> LexLess(W, Distance(target, a), Distance(target, b))
  BY DEF Closer, DistanceLess, LexLess, Bits
<1>4. /\ \A d, e \in NodeId : /\ ~LexLess(W, d, d)
                              /\ LexLess(W, d, e) => ~LexLess(W, e, d)
                              /\ d # e => LexLess(W, d, e) \/ LexLess(W, e, d)
      /\ \A d, e, f \in NodeId : LexLess(W, d, e) /\ LexLess(W, e, f) => LexLess(W, d, f)
  BY <1>2, LexOrder
<1>5. \A a, b \in NodeId : <<a, b>> \in CloserPairs(target) <=> Closer(target, a, b)
  BY DEF CloserPairs
<1>6. /\ \A a \in NodeId : ~Closer(target, a, a)
      /\ \A a, b, c \in NodeId : Closer(target, a, b) /\ Closer(target, b, c) => Closer(target, a, c)
      /\ \A a, b \in NodeId : a # b => Closer(target, a, b) \/ Closer(target, b, a)
  BY <1>1, <1>3, <1>4
<1>7. \A a, b \in NodeId : Closer(target, a, b) => ~Closer(target, b, a) /\ a # b
  BY <1>6
<1> QED
  BY <1>5, <1>6, <1>7 DEF StrictOrder

\* The order in which the sort puts the positions of s.
SortOrder(target, s) ==
    StableOrder(CloserPairs(target), [i \in 1..Len(s) |-> s[i].node_id], Len(s))

\* SortedPrefix arranges s in this order.
LEMMA SortIs ==
    ASSUME NEW target \in NodeId, NEW s \in Seq(NodeInfo)
    PROVE  /\ StrictOrder(SortOrder(target, s), 1..Len(s))
           /\ \A i, j \in 1..Len(s) :
                <<i, j>> \in SortOrder(target, s) <=> GoesBefore(target, s, i, j)
           /\ \A n \in 0..Len(s) : SortedPrefix(target, s, n) = Arranged(SortOrder(target, s), s, n)
<1> DEFINE k == [i \in 1..Len(s) |-> s[i].node_id]
           R == SortOrder(target, s)
<1>1. Len(s) \in Nat /\ DOMAIN s = 1..Len(s)
  OBVIOUS
<1>2. k \in [1..Len(s) -> NodeId]
  <2>1. \A i \in 1..Len(s) : s[i] \in NodeInfo
    OBVIOUS
  <2> QED
    BY <2>1 DEF NodeInfo
<1>3. R = StableOrder(CloserPairs(target), k, Len(s))
  BY DEF SortOrder
<1>4. \A i \in 1..Len(s) : k[i] = s[i].node_id
  OBVIOUS
<1> HIDE DEF k, R
<1>5. StrictOrder(R, 1..Len(s))
  BY <1>1, <1>2, <1>3, CloserOrder, StableOrderFacts
<1>6. ASSUME NEW i \in 1..Len(s), NEW j \in 1..Len(s)
      PROVE  <<i, j>> \in R <=> GoesBefore(target, s, i, j)
  <2>1. <<i, j>> \in R <=> <<k[i], k[j]>> \in CloserPairs(target) \/ (k[i] = k[j] /\ i < j)
    BY <1>3 DEF StableOrder
  <2>2. <<k[i], k[j]>> \in CloserPairs(target) <=> Closer(target, k[i], k[j])
    BY <1>2 DEF CloserPairs
  <2> QED
    BY <1>4, <2>1, <2>2 DEF GoesBefore
<1>7. ASSUME NEW i \in 1..Len(s)
      PROVE  Ahead(R, Len(s), i)
               = Cardinality({j \in DOMAIN s : GoesBefore(target, s, j, i)})
  <2>1. Below(R, 1..Len(s), i) = {j \in DOMAIN s : GoesBefore(target, s, j, i)}
    BY <1>1, <1>6 DEF Below
  <2> QED
    BY <2>1 DEF Ahead
<1>8. ASSUME NEW n \in 0..Len(s), NEW m \in 1..n
      PROVE  SortedPrefix(target, s, n)[m] = Arranged(R, s, n)[m]
  <2> DEFINE At(i) == Cardinality({j \in DOMAIN s : GoesBefore(target, s, j, i)}) = m - 1
             c == CHOOSE i \in DOMAIN s : At(i)
  <2>1. PICK i \in 1..Len(s) : Ahead(R, Len(s), i) = m - 1
    <3>1. m \in 1..Len(s)
      BY <1>1
    <3> QED
      BY <1>1, <1>5, <3>1, Ranks DEF Ahead
  <2>2. i \in DOMAIN s /\ At(i)
    BY <1>1, <1>7, <2>1
  <2>3. c \in DOMAIN s /\ At(c)
    BY <2>2
  <2>4. SortedPrefix(target, s, n)[m] = s[c]
    BY DEF SortedPrefix
  <2> HIDE DEF c
  <2>5. c \in 1..Len(s) /\ Ahead(R, Len(s), c) = m - 1
    BY <1>1, <1>7, <2>3
  <2>6. Arranged(R, s, n)[m] = s[c]
    BY <1>5, <2>5, ArrangedAt
  <2> QED
    BY <2>4, <2>6
<1>9. ASSUME NEW n \in 0..Len(s) PROVE SortedPrefix(target, s, n) = Arranged(R, s, n)
  <2>1. /\ SortedPrefix(target, s, n) = [m \in 1..n |-> SortedPrefix(target, s, n)[m]]
        /\ Arranged(R, s, n) = [m \in 1..n |-> Arranged(R, s, n)[m]]
    BY DEF SortedPrefix, Arranged
  <2> QED
    BY <1>8, <2>1
<1> QED
  BY <1>5, <1>6, <1>9 DEF R

\* When the peers that are left out are farther than all others, the sorted list
\* begins as it would have begun with them.
LEMMA SortEmbeds ==
    ASSUME NEW target \in NodeId, NEW s \in Seq(NodeInfo), NEW t \in Seq(NodeInfo),
           NEW Far, NEW phi, Embeds(phi, s, t, Far),
           \A i \in 1..Len(s) : \A e \in Far : e \in NodeInfo =>
              Closer(target, s[i].node_id, e.node_id),
           NEW n \in 0..Len(s)
    PROVE  SortedPrefix(target, s, n) = SortedPrefix(target, t, n)
<1> DEFINE R == SortOrder(target, s)
           Q == SortOrder(target, t)
<1>1. /\ phi \in [1..Len(s) -> 1..Len(t)]
      /\ \A i, j \in 1..Len(s) : i < j => phi[i] < phi[j]
      /\ \A i \in 1..Len(s) : t[phi[i]] = s[i]
  BY DEF Embeds
<1>2. /\ StrictOrder(R, 1..Len(s)) /\ StrictOrder(Q, 1..Len(t))
      /\ \A i, j \in 1..Len(s) : <<i, j>> \in R <=> GoesBefore(target, s, i, j)
      /\ \A i, j \in 1..Len(t) : <<i, j>> \in Q <=> GoesBefore(target, t, i, j)
      /\ SortedPrefix(target, s, n) = Arranged(R, s, n)
      /\ SortedPrefix(target, t, n) = Arranged(Q, t, n)
  <2>1. Len(s) \in Nat /\ Len(t) \in Nat /\ Len(s) <= Len(t)
    BY EmbedLen
  <2>2. n \in 0..Len(t)
    BY <2>1
  <2> QED
    BY <2>2, SortIs
<1> HIDE DEF R, Q
<1>3. ASSUME NEW i \in 1..Len(s), NEW j \in 1..Len(s)
      PROVE  <<i, j>> \in R <=> <<phi[i], phi[j]>> \in Q
  <2>1. phi[i] \in Nat /\ phi[j] \in Nat /\ i \in Nat /\ j \in Nat
    BY <1>1
  <2>2. i < j <=> phi[i] < phi[j]
    BY <1>1, <2>1
  <2>3. t[phi[i]] = s[i] /\ t[phi[j]] = s[j] /\ phi[i] \in 1..Len(t) /\ phi[j] \in 1..Len(t)
    BY <1>1
  <2>4. GoesBefore(target, s, i, j) <=> GoesBefore(target, t, phi[i], phi[j])
    BY <2>2, <2>3 DEF GoesBefore
  <2> QED
    BY <1>2, <2>3, <2>4
<1>4. ASSUME NEW i \in 1..Len(s), NEW j \in 1..Len(t), t[j] \in Far
      PROVE  <<j, phi[i]>> \notin Q
  <2>1. t[j] \in NodeInfo /\ s[i] \in NodeInfo /\ t[phi[i]] = s[i] /\ phi[i] \in 1..Len(t)
    BY <1>1
  <2>2. Closer(target, s[i].node_id, t[j].node_id)
    BY <1>4, <2>1
  <2>3. s[i].node_id \in NodeId /\ t[j].node_id \in NodeId
    BY <2>1 DEF NodeInfo
  <2>4. ~Closer(target, t[j].node_id, s[i].node_id) /\ t[j].node_id # s[i].node_id
    BY <2>2, <2>3, CloserOrder
  <2>5. ~GoesBefore(target, t, j, phi[i])
    BY <2>1, <2>4 DEF GoesBefore
  <2> QED
    BY <1>2, <2>1, <2>5
<1>5. Arranged(R, s, n) = Arranged(Q, t, n)
  BY <1>2, <1>3, <1>4, ArrangedEmbeds
<1> QED
  BY <1>2, <1>5

\* The bucket of an identifier says which of its bits are the node's own: the
\* first i, and not the next unless it is the node itself.
LEMMA BucketBits ==
    ASSUME NEW id \in NodeId
    PROVE  /\ \A b \in 1..BucketIndex(id) : b \in Bits /\ id[b] = Self[b]
           /\ BucketIndex(id) + 1 \in Bits
           /\ id # Self => id[BucketIndex(id) + 1] # Self[BucketIndex(id) + 1]
           /\ id = Self => BucketIndex(id) = W - 1
<1> DEFINE d == Distance(Self, id)
           D == {i \in Bits : d[i] # 0}
<1>1. W \in Nat /\ W >= 1 /\ Bits = 1..W /\ Self \in NodeId
  BY WAssumption, TableAssumption DEF Bits
<1>2. \A i \in Bits : d[i] # 0 <=> id[i] # Self[i]
  BY DEF Distance
<1>3. D \in SUBSET Nat /\ \A i \in D : 1 <= i /\ i <= W
  BY <1>1
<1>4. BucketIndex(id) = LET cpl == IF D # {} THEN Min(D) - 1 ELSE W
                        IN  IF cpl < W - 1 THEN cpl ELSE W - 1
  BY DEF BucketIndex, CommonPrefixLength, LeadingZeros
<1> HIDE DEF d
<1>5. CASE D = {}
  <2>1. BucketIndex(id) = W - 1
    BY <1>1, <1>4, <1>5
  <2>2. \A i \in Bits : id[i] = Self[i]
    BY <1>2, <1>5
  <2>3. id = Self
    BY <1>1, <2>2 DEF NodeId
  <2> QED
    BY <1>1, <2>1, <2>2, <2>3
<1>6. CASE D # {}
  <2> DEFINE p == Min(D)
  <2>1. p \in D /\ \A i \in D : p <= i
    BY <1>3, <1>6, MinNat
  <2> HIDE DEF p
  <2>2. p \in Bits /\ id[p] # Self[p] /\ p \in Nat /\ 1 <= p /\ p <= W
    BY <1>2, <1>3, <2>1
  <2>3. BucketIndex(id) = p - 1
    BY <1>1, <1>4, <1>6, <2>2 DEF p
  <2>4. ASSUME NEW b \in 1..(p - 1) PROVE b \in Bits /\ id[b] = Self[b]
    <3>1. b \in Bits /\ b < p
      BY <1>1, <2>2
    <3>2. b \notin D
      BY <1>1, <2>1, <2>2, <3>1
    <3> QED
      BY <1>2, <3>1, <3>2
  <2>5. id # Self
    BY <2>2
  <2>6. (p - 1) + 1 = p
    BY <2>2
  <2> QED
    BY <2>2, <2>3, <2>4, <2>5, <2>6
<1> QED
  BY <1>5, <1>6

\* ... and the bits determine the bucket.
LEMMA BitsBucket ==
    ASSUME NEW id \in NodeId, NEW i \in BucketIdx,
           \A b \in 1..i : id[b] = Self[b], id[i + 1] # Self[i + 1]
    PROVE  id # Self /\ BucketIndex(id) = i
<1> DEFINE c == BucketIndex(id)
<1>1. id # Self
  OBVIOUS
<1>2. c \in BucketIdx
  BY BucketIndexType
<1>3. /\ \A b \in 1..c : id[b] = Self[b]
      /\ id[c + 1] # Self[c + 1]
  BY <1>1, BucketBits
<1> HIDE DEF c
<1>4. i \in Nat /\ c \in Nat
  BY <1>2, WAssumption DEF BucketIdx
<1>5. ~(c < i)
  <2>1. c < i => c + 1 \in 1..i
    BY <1>4
  <2> QED
    BY <1>3, <2>1
<1>6. ~(i < c)
  <2>1. i < c => i + 1 \in 1..c
    BY <1>4
  <2> QED
    BY <1>3, <2>1
<1>7. c = i
  BY <1>4, <1>5, <1>6
<1> QED
  BY <1>1, <1>7 DEF c

\* random_id_for_bucket returns the identifiers of the bucket, any of them, and
\* nothing else.
LEMMA RandomIdsFacts ==
    ASSUME NEW i \in BucketIdx
    PROVE  RandomIdsForBucket(i) = {id \in NodeId \ {Self} : BucketIndex(id) = i}
<1>0. W \in Nat /\ Bits = 1..W /\ i \in Nat /\ i + 1 \in Bits /\ Self \in NodeId
  BY WAssumption, TableAssumption DEF Bits, BucketIdx
<1>1. \A b \in 1..i : b \in Bits /\ b <= i
  BY <1>0 DEF BucketIdx
<1>2. ASSUME NEW r \in NodeId, NEW id,
             id = [b \in Bits |-> IF b <= i THEN Self[b]
                                  ELSE IF b = i + 1 THEN 1 - Self[b] ELSE r[b]]
      PROVE  id \in NodeId \ {Self} /\ BucketIndex(id) = i
  <2>1. \A b \in Bits : Self[b] \in {0, 1} /\ r[b] \in {0, 1} /\ 1 - Self[b] \in {0, 1}
    BY <1>0 DEF NodeId
  <2>2. id \in NodeId
    BY <1>2, <2>1 DEF NodeId
  <2>3. \A b \in 1..i : id[b] = Self[b]
    BY <1>1, <1>2
  <2>4. id[i + 1] = 1 - Self[i + 1]
    BY <1>0, <1>2
  <2>5. id[i + 1] # Self[i + 1]
    BY <1>0, <2>1, <2>4
  <2> QED
    BY <2>2, <2>3, <2>5, BitsBucket
<1>3. ASSUME NEW id \in NodeId, id # Self, BucketIndex(id) = i
      PROVE  id = [b \in Bits |-> IF b <= i THEN Self[b]
                                  ELSE IF b = i + 1 THEN 1 - Self[b] ELSE id[b]]
  <2>1. (\A b \in 1..i : id[b] = Self[b]) /\ id[i + 1] # Self[i + 1]
    BY <1>3, BucketBits
  <2>2. \A b \in Bits : id[b] \in {0, 1} /\ Self[b] \in {0, 1}
    BY <1>0 DEF NodeId
  <2>3. id[i + 1] = 1 - Self[i + 1]
    BY <1>0, <2>1, <2>2
  <2>4. ASSUME NEW b \in Bits
        PROVE  id[b] = IF b <= i THEN Self[b]
                       ELSE IF b = i + 1 THEN 1 - Self[b] ELSE id[b]
    <3>1. b <= i => b \in 1..i
      BY <1>0
    <3> QED
      BY <2>1, <2>3, <3>1
  <2> QED
    BY <2>4 DEF NodeId
<1>4. ASSUME NEW id \in RandomIdsForBucket(i)
      PROVE  id \in {x \in NodeId \ {Self} : BucketIndex(x) = i}
  <2>1. PICK r \in NodeId : id = [b \in Bits |-> IF b <= i THEN Self[b]
                                  ELSE IF b = i + 1 THEN 1 - Self[b] ELSE r[b]]
    BY DEF RandomIdsForBucket
  <2> QED
    BY <1>2, <2>1
<1>5. ASSUME NEW id \in {x \in NodeId \ {Self} : BucketIndex(x) = i}
      PROVE  id \in RandomIdsForBucket(i)
  BY <1>3 DEF RandomIdsForBucket
<1> QED
  BY <1>4, <1>5

\* a is closer to t than e when a follows t for longer.
LEMMA CloserBy ==
    ASSUME NEW t \in NodeId, NEW a \in NodeId, NEW e \in NodeId, NEW p \in Bits,
           \A b \in 1..p : a[b] = t[b], \A b \in 1..(p - 1) : e[b] = t[b], e[p] # t[p]
    PROVE  Closer(t, a, e)
<1> DEFINE d == Distance(t, a)
           f == Distance(t, e)
<1>1. p \in 1..p /\ p \in Nat /\ \A b \in 1..(p - 1) : b \in 1..p /\ b \in Bits
  BY WAssumption DEF Bits
<1>2. \A b \in Bits : /\ d[b] = IF t[b] = a[b] THEN 0 ELSE 1
                      /\ f[b] = IF t[b] = e[b] THEN 0 ELSE 1
  BY DEF Distance
<1> HIDE DEF d, f
<1>3. d[p] = 0 /\ f[p] = 1
  <2>1. a[p] = t[p]
    BY <1>1
  <2> QED
    BY <1>2, <2>1
<1>4. \A b \in 1..(p - 1) : d[b] = f[b]
  BY <1>1, <1>2
<1>5. DistanceLess(d, f)
  BY <1>3, <1>4 DEF DistanceLess
<1> QED
  BY <1>5 DEF Closer, d, f

\* Seen from the node itself, a bucket with a larger index is closer.
LEMMA SelfOrder ==
    ASSUME NEW i \in BucketIdx, NEW j \in BucketIdx, j < i,
           NEW a \in Filed(i), NEW e \in Filed(j)
    PROVE  Closer(Self, a, e)
<1>0. i \in Nat /\ j \in Nat /\ Self \in NodeId /\ j + 1 \in Nat
  BY WAssumption, TableAssumption DEF BucketIdx
<1>1. a \in NodeId /\ a # Self /\ BucketIndex(a) = i /\ e \in NodeId /\ e # Self /\ BucketIndex(e) = j
  BY DEF Filed
<1>2. (\A b \in 1..i : a[b] = Self[b]) /\ (\A b \in 1..j : e[b] = Self[b])
      /\ e[j + 1] # Self[j + 1] /\ j + 1 \in Bits
  BY <1>1, BucketBits
<1>3. (j + 1) - 1 = j /\ \A b \in 1..(j + 1) : b \in 1..i
  BY <1>0
<1>4. /\ \A b \in 1..(j + 1) : a[b] = Self[b]
      /\ \A b \in 1..((j + 1) - 1) : e[b] = Self[b]
  BY <1>2, <1>3
<1> QED
  BY <1>0, <1>1, <1>2, <1>4, CloserBy

\* The peers of the target's own bucket are closer to it than all others.
LEMMA OwnBucketOrder ==
    ASSUME NEW t \in NodeId, NEW j \in BucketIdx, j # BucketIndex(t),
           NEW a \in Filed(BucketIndex(t)), NEW e \in Filed(j)
    PROVE  Closer(t, a, e)
<1> DEFINE c == BucketIndex(t)
<1>0. c \in BucketIdx
  BY BucketIndexType
<1>1. a \in NodeId /\ a # Self /\ BucketIndex(a) = c /\ e \in NodeId /\ e # Self /\ BucketIndex(e) = j
  BY DEF Filed
<1>2. (\A b \in 1..c : b \in Bits /\ t[b] = Self[b]) /\ c + 1 \in Bits
      /\ (t # Self => t[c + 1] # Self[c + 1])
      /\ (t = Self => c = W - 1)
  BY BucketBits
<1>3. (\A b \in 1..c : a[b] = Self[b]) /\ a[c + 1] # Self[c + 1]
  BY <1>1, BucketBits
<1>4. (\A b \in 1..j : e[b] = Self[b]) /\ e[j + 1] # Self[j + 1] /\ j + 1 \in Bits
  BY <1>1, BucketBits
<1>5. c # j
  OBVIOUS
<1> HIDE DEF c
<1>6. c \in Nat /\ j \in Nat /\ W \in Nat /\ j <= W - 1 /\ Self \in NodeId
  BY <1>0, WAssumption, TableAssumption DEF BucketIdx
<1>7. CASE j < c
  <2>1. (j + 1) - 1 = j /\ (\A b \in 1..(j + 1) : b \in 1..c) /\ (\A b \in 1..j : b \in 1..c)
        /\ j + 1 \in 1..c
    BY <1>6, <1>7
  <2>2. /\ \A b \in 1..(j + 1) : a[b] = t[b]
        /\ \A b \in 1..((j + 1) - 1) : e[b] = t[b]
        /\ e[j + 1] # t[j + 1]
    BY <1>2, <1>3, <1>4, <2>1
  <2> QED
    BY <1>1, <1>4, <2>2, CloserBy
<1>8. CASE c < j
  <2>1. (c + 1) - 1 = c /\ (\A b \in 1..(c + 1) : b \in 1..c \/ b = c + 1)
        /\ (\A b \in 1..c : b \in 1..j) /\ c + 1 \in 1..j /\ c # W - 1
    BY <1>6, <1>8
  <2>2. t[c + 1] # Self[c + 1]
    BY <1>2, <2>1
  <2>3. a[c + 1] = t[c + 1]
    <3>1. a[c + 1] \in {0, 1} /\ t[c + 1] \in {0, 1} /\ Self[c + 1] \in {0, 1}
      BY <1>1, <1>2, <1>6 DEF NodeId
    <3> QED
      BY <1>3, <2>2, <3>1
  <2>4. \A b \in 1..(c + 1) : a[b] = t[b]
    BY <1>2, <1>3, <2>1, <2>3
  <2>5. /\ \A b \in 1..((c + 1) - 1) : e[b] = t[b]
        /\ e[c + 1] # t[c + 1]
    BY <1>2, <1>4, <2>1, <2>2
  <2> QED
    BY <1>1, <1>2, <2>4, <2>5, CloserBy
<1> QED
  BY <1>5, <1>6, <1>7, <1>8
\* The peers of a set of buckets.
PeersIn(bs, idx) ==
    {e \in NodeInfo : \E j \in idx : \E k \in 1..Len(bs[j].nodes) : e = bs[j].nodes[k]}

\* What FlattenSeq puts together for a set of buckets.
Slices(bs, idx) == [i \in 1..W |-> IF i - 1 \in idx THEN bs[i - 1].nodes ELSE <<>>]

LEMMA SlicesType ==
    ASSUME NEW bs \in [BucketIdx -> Bucket], NEW idx \in SUBSET BucketIdx
    PROVE  /\ Slices(bs, idx) \in [1..W -> Seq(PeersIn(bs, idx))]
           /\ Slices(bs, idx) \in [1..W -> Seq(NodeInfo)]
<1>1. ASSUME NEW i \in 1..W
      PROVE  Slices(bs, idx)[i] \in Seq(PeersIn(bs, idx)) /\ Slices(bs, idx)[i] \in Seq(NodeInfo)
  <2>1. CASE i - 1 \in idx
    <3> DEFINE j == i - 1
               s == bs[j].nodes
    <3>1. Slices(bs, idx)[i] = s
      BY <2>1 DEF Slices
    <3>2. j \in idx
      BY <2>1
    <3> HIDE DEF j
    <3>3. s \in Seq(NodeInfo)
      BY <3>2 DEF Bucket
    <3>4. \A k \in 1..Len(s) : s[k] \in PeersIn(bs, idx)
      BY <3>2, <3>3 DEF PeersIn
    <3> HIDE DEF s
    <3>5. s \in Seq(PeersIn(bs, idx))
      <4>1. s = [k \in 1..Len(s) |-> s[k]] /\ Len(s) \in Nat
        BY <3>3
      <4>2. s \in [1..Len(s) -> PeersIn(bs, idx)]
        BY <3>4, <4>1
      <4> QED
        BY <4>1, <4>2, SeqDef
    <3> QED
      BY <3>1, <3>3, <3>5
  <2>2. CASE i - 1 \notin idx
    BY <2>2 DEF Slices
  <2> QED
    BY <2>1, <2>2
<1> QED
  BY <1>1 DEF Slices

\* What is collected from a set of buckets are their peers.
LEMMA EntriesType ==
    ASSUME NEW bs \in [BucketIdx -> Bucket], NEW idx \in SUBSET BucketIdx
    PROVE  /\ EntriesOf(bs, idx) \in Seq(PeersIn(bs, idx))
           /\ EntriesOf(bs, idx) \in Seq(NodeInfo)
           /\ \A i \in 1..Len(EntriesOf(bs, idx)) : EntriesOf(bs, idx)[i] \in PeersIn(bs, idx)
<1> DEFINE p == Slices(bs, idx)
<1>1. p \in [1..W -> Seq(PeersIn(bs, idx))] /\ p \in [1..W -> Seq(NodeInfo)]
  BY SlicesType
<1>2. EntriesOf(bs, idx) = FlattenSeq(p)
  BY DEF EntriesOf, Slices
<1> HIDE DEF p
<1>3. FlattenSeq(p) \in Seq(PeersIn(bs, idx))
  <2>1. PICK F \in [1..W -> Seq(PeersIn(bs, idx))] : Flattens(F, p, W) /\ FlattenSeq(p) = F[W]
    BY <1>1, WAssumption, FlattenSteps
  <2> QED
    BY <2>1, WAssumption
<1>4. FlattenSeq(p) \in Seq(NodeInfo)
  <2>1. PICK F \in [1..W -> Seq(NodeInfo)] : Flattens(F, p, W) /\ FlattenSeq(p) = F[W]
    BY <1>1, WAssumption, FlattenSteps
  <2> QED
    BY <2>1, WAssumption
<1> QED
  BY <1>2, <1>3, <1>4

\* A walk that visits fewer buckets leaves out the peers of the others.
LEMMA EntriesEmbed ==
    ASSUME NEW bs \in [BucketIdx -> Bucket], NEW big \in SUBSET BucketIdx, NEW small \in SUBSET big
    PROVE  \E phi : Embeds(phi, EntriesOf(bs, small), EntriesOf(bs, big), PeersIn(bs, big \ small))
<1> DEFINE p == Slices(bs, small)
           q == Slices(bs, big)
           Far == PeersIn(bs, big \ small)
<1>0. small \in SUBSET BucketIdx
  OBVIOUS
<1>1. p \in [1..W -> Seq(NodeInfo)] /\ q \in [1..W -> Seq(NodeInfo)]
  BY <1>0, SlicesType
<1>2. EntriesOf(bs, small) = FlattenSeq(p) /\ EntriesOf(bs, big) = FlattenSeq(q)
  BY DEF EntriesOf, Slices
<1>3. ASSUME NEW i \in 1..W PROVE \E phi : Embeds(phi, p[i], q[i], Far)
  <2>0. p[i] \in Seq(NodeInfo) /\ q[i] \in Seq(NodeInfo)
    BY <1>1
  <2>1. CASE i - 1 \in small \/ i - 1 \notin big
    <3>1. p[i] = q[i]
      BY <2>1 DEF Slices
    <3> HIDE DEF p, q, Far
    <3> QED
      BY <2>0, <3>1, EmbedSelf
  <2>2. CASE i - 1 \in big \ small
    <3>1. p[i] = <<>> /\ q[i] = bs[i - 1].nodes
      BY <2>2 DEF Slices
    <3> HIDE DEF p, q
    <3>2. \A j \in 1..Len(q[i]) : q[i][j] \in Far
      <4> SUFFICES ASSUME NEW j \in 1..Len(q[i]) PROVE q[i][j] \in Far
        OBVIOUS
      <4>1. q[i][j] \in NodeInfo
        BY <2>0
      <4> QED
        BY <2>2, <3>1, <4>1 DEF PeersIn
    <3> HIDE DEF Far
    <3> QED
      BY <2>0, <3>1, <3>2, EmbedNone
  <2> QED
    BY <2>1, <2>2
<1> HIDE DEF p, q, Far
<1>4. \E phi : Embeds(phi, FlattenSeq(p), FlattenSeq(q), Far)
  BY <1>1, <1>3, WAssumption, FlattenEmbeds
<1> QED
  BY <1>2, <1>4 DEF Far

\* The peers of a visited bucket are all collected.
LEMMA EntriesLen ==
    ASSUME NEW bs \in [BucketIdx -> Bucket], NEW idx \in SUBSET BucketIdx, NEW i \in idx
    PROVE  Len(bs[i].nodes) <= Len(EntriesOf(bs, idx))
<1> DEFINE p == Slices(bs, idx)
           l == i + 1
<1>0. W \in Nat \ {0} /\ i \in Nat /\ l \in 1..W /\ l - 1 = i
  BY WAssumption DEF BucketIdx
<1>1. p \in [1..W -> Seq(NodeInfo)]
  BY SlicesType
<1>2. EntriesOf(bs, idx) = FlattenSeq(p)
  BY DEF EntriesOf, Slices
<1>3. p[l] = bs[i].nodes
  BY <1>0 DEF Slices
<1> HIDE DEF p, l
<1>4. Len(p[l]) <= Len(FlattenSeq(p))
  BY <1>0, <1>1, FlattenLen
<1> QED
  BY <1>2, <1>3, <1>4
-----------------------------------------------------------------------------
\* The smaller of two numbers.
LEMMA MinTwo ==
    ASSUME NEW a \in Nat, NEW b \in Nat
    PROVE  Min({a, b}) = IF a <= b THEN a ELSE b
<1>1. Min({a, b}) \in {a, b} /\ \A y \in {a, b} : Min({a, b}) <= y
  BY MinNat
<1> QED
  BY <1>1

\* The walk ends, at the latest when it has run out of buckets on both sides.
LEMMA WalkEnds ==
    ASSUME NEW bs, NEW center \in BucketIdx, NEW count
    PROVE  /\ Rounds(bs, center, count) \in 0..W
           /\ WalkStops(bs, center, Rounds(bs, center, count), count)
           /\ \A m \in 0..W : WalkStops(bs, center, m, count) => Rounds(bs, center, count) <= m
<1> DEFINE R == {m \in 0..W : WalkStops(bs, center, m, count)}
<1>1. W \in Nat /\ center \in Nat /\ center <= W - 1
  BY WAssumption DEF BucketIdx
<1>2. WalkStops(bs, center, W, count)
  BY <1>1 DEF WalkStops
<1>3. R \in SUBSET Nat /\ R # {}
  BY <1>1, <1>2
<1>4. Rounds(bs, center, count) = Min(R)
  BY DEF Rounds
<1>5. \A m : m \in R <=> m \in 0..W /\ WalkStops(bs, center, m, count)
  OBVIOUS
<1> HIDE DEF R
<1>6. Min(R) \in R /\ \A m \in R : Min(R) <= m
  BY <1>3, MinNat
<1> QED
  BY <1>4, <1>5, <1>6

\* The walk that has stopped has collected enough: as many peers as asked for,
\* or all there are.
LEMMA WalkCollects ==
    ASSUME NEW bs \in [BucketIdx -> Bucket], NEW center \in BucketIdx, NEW m \in 0..W,
           NEW count \in Nat, WalkStops(bs, center, m, count)
    PROVE  Min({count, Len(EntriesOf(bs, Visited(center, m)))})
             = Min({count, Len(EntriesOf(bs, BucketIdx))})
<1> DEFINE V == Visited(center, m)
           v == EntriesOf(bs, V)
           a == EntriesOf(bs, BucketIdx)
<1>1. V \in SUBSET BucketIdx
  BY DEF Visited
<1>2. center \in Nat /\ W \in Nat /\ m \in Nat
  BY WAssumption DEF BucketIdx
<1>3. Len(v) >= count \/ V = BucketIdx
  <2>1. CASE center - m < 0 /\ center + 1 + m >= W
    <3>1. \A i \in BucketIdx : center - m < i /\ i <= center + m
      BY <1>2, <2>1 DEF BucketIdx
    <3> QED
      BY <3>1 DEF Visited
  <2> QED
    BY <2>1 DEF WalkStops
<1>4. PICK phi : Embeds(phi, v, a, PeersIn(bs, BucketIdx \ V))
  <2> HIDE DEF V
  <2> QED
    BY <1>1, EntriesEmbed
<1>5. v \in Seq(NodeInfo) /\ a \in Seq(NodeInfo)
  <2> HIDE DEF V
  <2> QED
    BY <1>1, EntriesType
<1>6. V = BucketIdx => v = a
  OBVIOUS
<1> HIDE DEF v, a, V
<1>7. Len(v) \in Nat /\ Len(a) \in Nat
  BY <1>5
<1>8. Len(v) <= Len(a)
  BY <1>4, <1>5, EmbedLen
<1>9. Min({count, Len(v)}) = Min({count, Len(a)})
  <2>1. CASE Len(v) >= count
    <3>1. Min({count, Len(v)}) = count /\ Min({count, Len(a)}) = count
      BY <1>7, <1>8, <2>1, MinTwo
    <3> QED
      BY <3>1
  <2> QED
    BY <1>3, <1>6, <2>1
<1> QED
  BY <1>9 DEF v, a, V

\* Buckets whose peers are all closer to the target than those of the buckets
\* left out decide how the sorted list begins.
LEMMA NearBuckets ==
    ASSUME NEW bs, TableOK(bs), NEW target \in NodeId,
           NEW big \in SUBSET BucketIdx, NEW small \in SUBSET big,
           \A i \in small, j \in big \ small : \A a \in Filed(i), e \in Filed(j) :
              Closer(target, a, e),
           NEW n \in Nat, n <= Len(EntriesOf(bs, small))
    PROVE  SortedPrefix(target, EntriesOf(bs, small), n)
             = SortedPrefix(target, EntriesOf(bs, big), n)
<1> DEFINE s == EntriesOf(bs, small)
           t == EntriesOf(bs, big)
           Far == PeersIn(bs, big \ small)
<1>0. bs \in [BucketIdx -> Bucket] /\ small \in SUBSET BucketIdx
  BY DEF TableOK
<1>1. PICK phi : Embeds(phi, s, t, Far)
  BY <1>0, EntriesEmbed
<1>2. /\ s \in Seq(NodeInfo) /\ t \in Seq(NodeInfo)
      /\ \A i \in 1..Len(s) : s[i] \in PeersIn(bs, small)
  BY <1>0, EntriesType
<1>4. ASSUME NEW idx \in SUBSET BucketIdx, NEW e \in PeersIn(bs, idx)
      PROVE  \E j \in idx : e.node_id \in Filed(j)
  <2>1. PICK j \in idx : \E k \in 1..Len(bs[j].nodes) : e = bs[j].nodes[k]
    BY DEF PeersIn
  <2>2. e.node_id \in IdsOf(bs[j].nodes)
    BY <2>1 DEF IdsOf
  <2>3. IdsOf(bs[j].nodes) \subseteq Filed(j)
    BY DEF TableOK, BucketOK
  <2> QED
    BY <2>2, <2>3
<1>5. ASSUME NEW i \in 1..Len(s), NEW e \in Far
      PROVE  Closer(target, s[i].node_id, e.node_id)
  <2>1. PICK k \in small : s[i].node_id \in Filed(k)
    BY <1>0, <1>2, <1>4
  <2>2. PICK j \in big \ small : e.node_id \in Filed(j)
    <3>1. big \ small \in SUBSET BucketIdx
      OBVIOUS
    <3> QED
      BY <1>4, <3>1
  <2> QED
    BY <2>1, <2>2
<1>6. n \in 0..Len(s)
  <2>1. Len(s) \in Nat
    BY <1>2
  <2> QED
    BY <2>1
<1> HIDE DEF s, t, Far
<1>7. \A i \in 1..Len(s) : \A e \in Far : e \in NodeInfo => Closer(target, s[i].node_id, e.node_id)
  BY <1>5
<1>8. SortedPrefix(target, s, n) = SortedPrefix(target, t, n)
  BY <1>1, <1>2, <1>6, <1>7, SortEmbeds
<1> QED
  BY <1>8 DEF s, t
-----------------------------------------------------------------------------
\* In every well-formed table closest_nodes returns count peers, or all.
LEMMA ReturnsEnough == TableOK(buckets) => ClosestReturnsEnough
<1> SUFFICES ASSUME TableOK(buckets), NEW target \in NodeId, NEW count \in Counts
             PROVE  Len(ClosestNodes(buckets, target, count)) = Min({count, Len(AllEntries)})
  BY DEF ClosestReturnsEnough
<1> DEFINE c == BucketIndex(target)
           m == Rounds(buckets, c, count)
           v == EntriesOf(buckets, Visited(c, m))
           n == Min({count, Len(v)})
<1>1. count \in Nat /\ buckets \in [BucketIdx -> Bucket]
  BY BucketAssumption DEF Counts, TableOK
<1>2. c \in BucketIdx
  BY BucketIndexType
<1>3. ClosestNodes(buckets, target, count) = SortedPrefix(target, v, n)
  BY DEF ClosestNodes, Nearest
<1> HIDE DEF c
<1>4. m \in 0..W /\ WalkStops(buckets, c, m, count)
  BY <1>2, WalkEnds
<1> HIDE DEF m
<1>5. n = Min({count, Len(AllEntries)})
  BY <1>1, <1>2, <1>4, WalkCollects DEF AllEntries
<1>6. n \in Nat
  <2>1. Visited(c, m) \in SUBSET BucketIdx
    BY DEF Visited
  <2>2. v \in Seq(NodeInfo)
    BY <1>1, <2>1, EntriesType
  <2>3. Len(v) \in Nat
    BY <2>2
  <2> QED
    BY <1>1, <2>3, MinTwo
<1> HIDE DEF n, v
<1>7. Len(SortedPrefix(target, v, n)) = n
  BY <1>6 DEF SortedPrefix
<1> QED
  BY <1>3, <1>5, <1>7

\* In every well-formed table the walk from the node itself is a scan.
LEMMA SelfIsExact == TableOK(buckets) => ClosestToSelfIsExact
<1> SUFFICES ASSUME TableOK(buckets), NEW count \in Counts
             PROVE  ClosestNodes(buckets, Self, count) = NearestOfAll(Self, count)
  BY DEF ClosestToSelfIsExact
<1> DEFINE c == BucketIndex(Self)
           m == Rounds(buckets, c, count)
           V == Visited(c, m)
           v == EntriesOf(buckets, V)
           a == EntriesOf(buckets, BucketIdx)
           n == Min({count, Len(v)})
<1>0. Self \in NodeId /\ W \in Nat
  BY TableAssumption, WAssumption
<1>1. count \in Nat /\ buckets \in [BucketIdx -> Bucket]
  BY BucketAssumption DEF Counts, TableOK
<1>2. c \in BucketIdx /\ c = W - 1
  BY <1>0, BucketIndexType, BucketBits
<1>3. ClosestNodes(buckets, Self, count) = SortedPrefix(Self, v, n)
  BY DEF ClosestNodes, Nearest
<1>4. NearestOfAll(Self, count) = SortedPrefix(Self, a, Min({count, Len(a)}))
  BY DEF NearestOfAll, AllEntries, Nearest
<1> HIDE DEF c
<1>5. m \in 0..W /\ WalkStops(buckets, c, m, count)
  BY <1>2, WalkEnds
<1> HIDE DEF m
<1>6. n = Min({count, Len(a)})
  BY <1>1, <1>2, <1>5, WalkCollects
<1>7. V \in SUBSET BucketIdx
  BY DEF Visited
<1>8. \A i \in V, j \in BucketIdx \ V : j < i
  BY <1>0, <1>2, <1>5 DEF Visited, BucketIdx
<1> HIDE DEF V
<1>9. v \in Seq(NodeInfo)
  BY <1>1, <1>7, EntriesType
<1>10. n \in Nat /\ n <= Len(v)
  <2>1. Len(v) \in Nat
    BY <1>9
  <2> QED
    BY <1>1, <2>1, MinTwo
<1>11. \A i \in V, j \in BucketIdx \ V : \A x \in Filed(i), e \in Filed(j) : Closer(Self, x, e)
  BY <1>7, <1>8, SelfOrder
<1> HIDE DEF n
<1>12. SortedPrefix(Self, v, n) = SortedPrefix(Self, a, n)
  BY <1>0, <1>7, <1>10, <1>11, NearBuckets
<1> QED
  BY <1>3, <1>4, <1>6, <1>12

\* In every well-formed table the walk is a scan when the target's bucket has
\* enough peers: it stops after the first round, and what the round adds to
\* that bucket is farther away.
LEMMA OwnBucketIsExact == TableOK(buckets) => ClosestInOwnBucketIsExact
<1> SUFFICES ASSUME TableOK(buckets), NEW target \in NodeId, NEW count \in Counts,
                    Len(buckets[BucketIndex(target)].nodes) >= count
             PROVE  ClosestNodes(buckets, target, count) = NearestOfAll(target, count)
  BY DEF ClosestInOwnBucketIsExact
<1> DEFINE c == BucketIndex(target)
           m == Rounds(buckets, c, count)
           V == Visited(c, m)
           u == EntriesOf(buckets, {c})
           v == EntriesOf(buckets, V)
           a == EntriesOf(buckets, BucketIdx)
<1>1. count \in Nat /\ count >= 1 /\ buckets \in [BucketIdx -> Bucket]
  BY BucketAssumption DEF Counts, TableOK
<1>2. c \in BucketIdx
  BY BucketIndexType
<1>3. ClosestNodes(buckets, target, count) = SortedPrefix(target, v, Min({count, Len(v)}))
  BY DEF ClosestNodes, Nearest
<1>4. NearestOfAll(target, count) = SortedPrefix(target, a, Min({count, Len(a)}))
  BY DEF NearestOfAll, AllEntries, Nearest
<1>5. \A j \in BucketIdx : j # c => \A x \in Filed(c), e \in Filed(j) : Closer(target, x, e)
  BY OwnBucketOrder
<1>6. Len(buckets[c].nodes) >= count
  OBVIOUS
<1> HIDE DEF c
<1>7. c \in Nat /\ W \in Nat /\ c <= W - 1
  BY <1>2, WAssumption DEF BucketIdx
<1>8. m \in 0..W /\ WalkStops(buckets, c, m, count)
  BY <1>2, WalkEnds
<1> HIDE DEF m
<1>9. V \in SUBSET BucketIdx
  BY DEF Visited
<1>10. m # 0
  <2> SUFFICES ASSUME m = 0 PROVE FALSE
    OBVIOUS
  <2>1. V = {}
    BY <1>7 DEF Visited, BucketIdx
  <2>2. v \in Seq(PeersIn(buckets, {}))
    BY <1>1, <2>1, EntriesType
  <2>3. PeersIn(buckets, {}) = {}
    BY DEF PeersIn
  <2>4. Len(v) = 0
    <3> HIDE DEF v
    <3>1. v \in Seq({})
      BY <2>2, <2>3
    <3>2. Len(v) \in Nat /\ \A i \in 1..Len(v) : v[i] \in {}
      BY <3>1
    <3> QED
      BY <3>2
  <2>5. ~(c - m < 0)
    BY <1>7
  <2>6. Len(v) >= count
    BY <1>8, <2>5 DEF WalkStops
  <2> QED
    BY <1>1, <2>4, <2>6
<1>11. c \in V
  BY <1>2, <1>7, <1>8, <1>10 DEF Visited
<1> HIDE DEF V
<1>12. Len(u) >= count
  <2>1. Len(buckets[c].nodes) <= Len(u)
    BY <1>1, <1>2, EntriesLen
  <2>2. u \in Seq(NodeInfo)
    BY <1>1, <1>2, EntriesType
  <2>3. Len(u) \in Nat /\ Len(buckets[c].nodes) \in Nat
    <3>1. buckets[c].nodes \in Seq(NodeInfo)
      BY <1>1, <1>2 DEF Bucket
    <3> QED
      BY <2>2, <3>1
  <2> QED
    BY <1>1, <1>6, <2>1, <2>3
<1>13. ASSUME NEW big \in SUBSET BucketIdx, c \in big
       PROVE  /\ SortedPrefix(target, u, count) = SortedPrefix(target, EntriesOf(buckets, big), count)
              /\ Min({count, Len(EntriesOf(buckets, big))}) = count
  <2>1. {c} \in SUBSET big
    BY <1>13
  <2>2. \A i \in {c}, j \in big \ {c} : \A x \in Filed(i), e \in Filed(j) : Closer(target, x, e)
    BY <1>5
  <2>3. SortedPrefix(target, u, count) = SortedPrefix(target, EntriesOf(buckets, big), count)
    BY <1>1, <1>12, <2>1, <2>2, NearBuckets
  <2>4. EntriesOf(buckets, big) \in Seq(NodeInfo) /\ Len(buckets[c].nodes) <= Len(EntriesOf(buckets, big))
    BY <1>1, <1>13, EntriesType, EntriesLen
  <2>5. Len(EntriesOf(buckets, big)) \in Nat /\ Len(buckets[c].nodes) \in Nat
    <3>1. buckets[c].nodes \in Seq(NodeInfo)
      BY <1>1, <1>2 DEF Bucket
    <3> QED
      BY <2>4, <3>1
  <2>6. Len(EntriesOf(buckets, big)) >= count
    BY <1>1, <1>6, <2>4, <2>5
  <2>7. Min({count, Len(EntriesOf(buckets, big))}) = count
    BY <1>1, <2>5, <2>6, MinTwo
  <2> QED
    BY <2>3, <2>7
<1>14. SortedPrefix(target, u, count) = SortedPrefix(target, v, count) /\ Min({count, Len(v)}) = count
  BY <1>9, <1>11, <1>13
<1>15. SortedPrefix(target, u, count) = SortedPrefix(target, a, count) /\ Min({count, Len(a)}) = count
  BY <1>2, <1>13
<1> QED
  BY <1>3, <1>4, <1>14, <1>15

-----------------------------------------------------------------------------
\* IInv holds in every reachable state.
THEOREM Invariance == Spec => []IInv
<1>1. IInv /\ [Next]_vars => IInv'
  BY StepIInv
<1> QED
  BY InitIInv, <1>1, PTL DEF Spec

\* Type correctness of the table and its handlers (RoutingTable, node.rs).
THEOREM TypeCorrect == Spec => []TypeOK
<1>1. IInv => TypeOK
  BY DEF IInv
<1> QED
  BY Invariance, <1>1, PTL

\* No bucket and no replacement cache ever exceeds K, whatever evictions were
\* pending when it filled (KBucket::insert, evict_and_insert, add_to_cache).
THEOREM Bounded == Spec => []BucketsBounded
<1>1. IInv => BucketsBounded
  BY DEF IInv, TableOK, BucketOK, BucketsBounded
<1> QED
  BY Invariance, <1>1, PTL

\* Candidates wait only while the bucket is full (KBucket::remove).
THEOREM NoForgottenCandidate == Spec => []CandidatesWaitOnlyForRoom
<1>1. IInv => CandidatesWaitOnlyForRoom
  BY DEF IInv, TableOK, BucketOK, CandidatesWaitOnlyForRoom
<1> QED
  BY Invariance, <1>1, PTL

\* No peer is both in its bucket and in the replacement cache.
THEOREM CacheIsDisjoint == Spec => []CacheDisjoint
<1>1. IInv => CacheDisjoint
  BY DEF IInv, TableOK, BucketOK, CacheDisjoint
<1> QED
  BY Invariance, <1>1, PTL

\* A peer with MaxFailures failures is gone (KBucket::record_failure).
THEOREM FailuresBelow == Spec => []FailuresBelowLimit
<1>1. IInv => FailuresBelowLimit
  BY DEF IInv, TableOK, BucketOK, FailuresBelowLimit
<1> QED
  BY Invariance, <1>1, PTL

\* Every peer sits in the bucket of its prefix length, also after an eviction
\* decided seconds earlier (RoutingTable::evict_and_insert).
THEOREM AllFiledByPrefix == Spec => []FiledByPrefix
<1>1. IInv => FiledByPrefix
  BY DEF IInv, TableOK, BucketOK, FiledByPrefix, Filed
<1> QED
  BY Invariance, <1>1, PTL

\* No task ever loses a slot of a bucket with waiting candidates.
THEOREM SlotsKept == Spec => NoSlotLost
<1>1. IInv /\ [Next]_vars =>
        [\A i \in BucketIdx : SlotKept(buckets[i], buckets'[i])]_vars
  BY StepIInv
<1> QED
  BY Invariance, <1>1, PTL DEF Spec, NoSlotLost

\* closest_nodes never returns fewer peers than asked for while the table has
\* as many, although the walk stops early (RoutingTable::closest_nodes).
THEOREM ClosestReturnsCount == Spec => []ClosestReturnsEnough
<1>1. IInv => ClosestReturnsEnough
  BY ReturnsEnough DEF IInv
<1> QED
  BY Invariance, <1>1, PTL

\* A self-lookup in the table is exact in every reachable table.
THEOREM SelfLookupExact == Spec => []ClosestToSelfIsExact
<1>1. IInv => ClosestToSelfIsExact
  BY SelfIsExact DEF IInv
<1> QED
  BY Invariance, <1>1, PTL

\* closest_nodes is exact whenever the target's own bucket holds enough peers;
\* with a count of one it finds a peer of the table by its identifier.
THEOREM OwnBucketLookupExact == Spec => []ClosestInOwnBucketIsExact
<1>1. IInv => ClosestInOwnBucketIsExact
  BY OwnBucketIsExact DEF IInv
<1> QED
  BY Invariance, <1>1, PTL

\* A refresh looks up any identifier of the stale bucket and no other
\* (random_id_for_bucket, do_bucket_refresh).
THEOREM RefreshHitsBucket == Spec => []RefreshTargetsStaleBucket
<1>1. RefreshTargetsStaleBucket
  BY RandomIdsFacts DEF RefreshTargetsStaleBucket, StaleBuckets
<1> QED
  BY <1>1, PTL
=============================================================================
