---------------------------- MODULE LookupProofs ----------------------------
(***************************************************************************)
(* The safety properties of the iterative lookup, proved for every length   *)
(* of identifiers, every k, alpha and number of rounds, every sorted list   *)
(* of seeds and whatever the peers answer.                                  *)
(***************************************************************************)
EXTENDS Lookup, FoldLemmas

-----------------------------------------------------------------------------
(* The order in which the candidates are sorted *)

\* A distance is a vector of bits, and determines the identifier.
LEMMA DistanceFacts ==
    ASSUME NEW t \in NodeId, NEW a \in NodeId, NEW b \in NodeId
    PROVE  /\ Distance(t, a) \in NodeId
           /\ Distance(t, a) = Distance(t, b) => a = b
<1>1. Distance(t, a) \in NodeId
  BY DEF Distance, NodeId
<1>2. ASSUME Distance(t, a) = Distance(t, b) PROVE a = b
  <2>1. ASSUME NEW i \in Bits PROVE a[i] = b[i]
    <3>1. Distance(t, a)[i] = Distance(t, b)[i]
      BY <1>2
    <3>2. (IF t[i] = a[i] THEN 0 ELSE 1) = (IF t[i] = b[i] THEN 0 ELSE 1)
      BY <3>1 DEF Distance
    <3>3. t[i] \in {0, 1} /\ a[i] \in {0, 1} /\ b[i] \in {0, 1}
      BY DEF NodeId
    <3> QED
      BY <3>2, <3>3
  <2> QED
    BY <2>1 DEF NodeId
<1> QED
  BY <1>1, <1>2


\* The identifiers in the order of their distance to target.
CloserPairs(target) == {p \in NodeId \X NodeId : Closer(target, p[1], p[2])}

\* Closer orders the identifiers.
LEMMA CloserOrder ==
    ASSUME NEW target \in NodeId
    PROVE  /\ StrictOrder(CloserPairs(target), NodeId)
           /\ \A a, b \in NodeId : Closer(target, a, b) => ~Closer(target, b, a) /\ a # b
<1>1. \A a, b \in NodeId : Distance(target, a) \in NodeId
                           /\ (Distance(target, a) = Distance(target, b) => a = b)
  BY DistanceFacts
<1>2. NodeId = [1..W -> {0, 1}] /\ W \in Nat
  BY WAssumption DEF NodeId, Bits
<1>3. \A a, b \in NodeId :
        Closer(target, a, b) <=> LexLess(W, Distance(target, a), Distance(target, b))
  BY DEF Closer, DistanceLess, LexLess, Bits
<1>4. /\ \A d, e \in NodeId : /\ ~LexLess(W, d, d)
                              /\ LexLess(W, d, e) => ~LexLess(W, e, d)
                              /\ d # e => LexLess(W, d, e) \/ LexLess(W, e, d)
      /\ \A d, e, f \in NodeId : LexLess(W, d, e) /\ LexLess(W, e, f) => LexLess(W, d, f)
  BY <1>2, LexOrder
<1>5. \A a, b \in NodeId : <<a, b>> \in CloserPairs(target) <=> Closer(target, a, b)
  BY DEF CloserPairs
<1>6. /\ \A a \in NodeId : ~Closer(target, a, a)
      /\ \A a, b, c \in NodeId : Closer(target, a, b) /\ Closer(target, b, c) => Closer(target, a, c)
      /\ \A a, b \in NodeId : a # b => Closer(target, a, b) \/ Closer(target, b, a)
  BY <1>1, <1>3, <1>4
<1>7. \A a, b \in NodeId : Closer(target, a, b) => ~Closer(target, b, a) /\ a # b
  BY <1>6
<1> QED
  BY <1>5, <1>6, <1>7 DEF StrictOrder

\* The order in which the sort puts the positions of s.
SortOrder(target, s) ==
    StableOrder(CloserPairs(target), [i \in 1..Len(s) |-> s[i].node_id], Len(s))

\* SortedPrefix arranges s in this order.
LEMMA SortIs ==
    ASSUME NEW target \in NodeId, NEW s \in Seq(Node)
    PROVE  /\ StrictOrder(SortOrder(target, s), 1..Len(s))
           /\ \A i, j \in 1..Len(s) :
                <<i, j>> \in SortOrder(target, s) <=> GoesBefore(target, s, i, j)
           /\ \A n \in 0..Len(s) : SortedPrefix(target, s, n) = Arranged(SortOrder(target, s), s, n)
<1> DEFINE k == [i \in 1..Len(s) |-> s[i].node_id]
           R == SortOrder(target, s)
<1>1. Len(s) \in Nat /\ DOMAIN s = 1..Len(s)
  OBVIOUS
<1>2. k \in [1..Len(s) -> NodeId]
  <2>1. \A i \in 1..Len(s) : s[i] \in Node
    OBVIOUS
  <2> QED
    BY <2>1 DEF Node
<1>3. R = StableOrder(CloserPairs(target), k, Len(s))
  BY DEF SortOrder
<1>4. \A i \in 1..Len(s) : k[i] = s[i].node_id
  OBVIOUS
<1> HIDE DEF k, R
<1>5. StrictOrder(R, 1..Len(s))
  BY <1>1, <1>2, <1>3, CloserOrder, StableOrderFacts
<1>6. ASSUME NEW i \in 1..Len(s), NEW j \in 1..Len(s)
      PROVE  <<i, j>> \in R <=> GoesBefore(target, s, i, j)
  <2>1. <<i, j>> \in R <=> <<k[i], k[j]>> \in CloserPairs(target) \/ (k[i] = k[j] /\ i < j)
    BY <1>3 DEF StableOrder
  <2>2. <<k[i], k[j]>> \in CloserPairs(target) <=> Closer(target, k[i], k[j])
    BY <1>2 DEF CloserPairs
  <2> QED
    BY <1>4, <2>1, <2>2 DEF GoesBefore
<1>7. ASSUME NEW i \in 1..Len(s)
      PROVE  Ahead(R, Len(s), i)
               = Cardinality({j \in DOMAIN s : GoesBefore(target, s, j, i)})
  <2>1. Below(R, 1..Len(s), i) = {j \in DOMAIN s : GoesBefore(target, s, j, i)}
    BY <1>1, <1>6 DEF Below
  <2> QED
    BY <2>1 DEF Ahead
<1>8. ASSUME NEW n \in 0..Len(s), NEW m \in 1..n
      PROVE  SortedPrefix(target, s, n)[m] = Arranged(R, s, n)[m]
  <2> DEFINE At(i) == Cardinality({j \in DOMAIN s : GoesBefore(target, s, j, i)}) = m - 1
             c == CHOOSE i \in DOMAIN s : At(i)
  <2>1. PICK i \in 1..Len(s) : Ahead(R, Len(s), i) = m - 1
    <3>1. m \in 1..Len(s)
      BY <1>1
    <3> QED
      BY <1>1, <1>5, <3>1, Ranks DEF Ahead
  <2>2. i \in DOMAIN s /\ At(i)
    BY <1>1, <1>7, <2>1
  <2>3. c \in DOMAIN s /\ At(c)
    BY <2>2
  <2>4. SortedPrefix(target, s, n)[m] = s[c]
    BY DEF SortedPrefix
  <2> HIDE DEF c
  <2>5. c \in 1..Len(s) /\ Ahead(R, Len(s), c) = m - 1
    BY <1>1, <1>7, <2>3
  <2>6. Arranged(R, s, n)[m] = s[c]
    BY <1>5, <2>5, ArrangedAt
  <2> QED
    BY <2>4, <2>6
<1>9. ASSUME NEW n \in 0..Len(s) PROVE SortedPrefix(target, s, n) = Arranged(R, s, n)
  <2>1. /\ SortedPrefix(target, s, n) = [m \in 1..n |-> SortedPrefix(target, s, n)[m]]
        /\ Arranged(R, s, n) = [m \in 1..n |-> Arranged(R, s, n)[m]]
    BY DEF SortedPrefix, Arranged
  <2> QED
    BY <1>8, <2>1
<1> QED
  BY <1>5, <1>6, <1>9 DEF R
-----------------------------------------------------------------------------
(* What sorting, cutting and merging do to a list of candidates *)

\* The order of the candidates by their distance to the target.
LEMMA Nearer ==
    /\ \A a \in NodeId : ~Closer(Target, a, a)
    /\ \A a, b, c \in NodeId :
          ~Closer(Target, a, b) /\ ~Closer(Target, b, c) => ~Closer(Target, a, c)
    /\ \A a, b \in NodeId : a = b \/ Closer(Target, a, b) \/ Closer(Target, b, a)
<1>1. Target \in NodeId
  BY LookupAssumption
<1>2. \A a, b \in NodeId : <<a, b>> \in CloserPairs(Target) <=> Closer(Target, a, b)
  BY DEF CloserPairs
<1>3. /\ \A a \in NodeId : <<a, a>> \notin CloserPairs(Target)
      /\ \A a, b, c \in NodeId : <<a, b>> \in CloserPairs(Target) /\ <<b, c>> \in CloserPairs(Target)
            => <<a, c>> \in CloserPairs(Target)
      /\ \A a, b \in NodeId : a # b => <<a, b>> \in CloserPairs(Target) \/ <<b, a>> \in CloserPairs(Target)
  BY <1>1, CloserOrder DEF StrictOrder
<1> QED
  BY <1>2, <1>3

\* Who is in a list.
LEMMA InIds == \A s, id : id \in IdsIn(s) <=> \E i \in 1..Len(s) : s[i].node_id = id
  BY DEF IdsIn

\* A list of candidates, by its positions.
LEMMA ListFacts ==
    ASSUME NEW s \in Seq(Node)
    PROVE  /\ Len(s) \in Nat
           /\ \A i \in 1..Len(s) : s[i] \in Node /\ s[i].node_id \in NodeId /\ i \in Nat
           /\ IdsIn(s) \subseteq NodeId
<1>1. Len(s) \in Nat /\ \A i \in 1..Len(s) : s[i] \in Node /\ i \in Nat
  OBVIOUS
<1>2. \A i \in 1..Len(s) : s[i].node_id \in NodeId
  BY <1>1 DEF Node
<1>3. IdsIn(s) \subseteq NodeId
  BY <1>2, InIds
<1> QED
  BY <1>1, <1>2, <1>3

\* The sorted list holds the same candidates, in order.
LEMMA SortedFacts ==
    ASSUME NEW s \in Seq(Node)
    PROVE  /\ Sorted(s) \in Seq(Node) /\ Len(Sorted(s)) = Len(s)
           /\ InOrder(Sorted(s))
           /\ IdsIn(Sorted(s)) = IdsIn(s)
           /\ \A m \in 1..Len(s) : \E i \in 1..Len(s) :
                Ahead(SortOrder(Target, s), Len(s), i) = m - 1 /\ Sorted(s)[m] = s[i]
<1> DEFINE R == SortOrder(Target, s)
           n == Len(s)
<1>0. n \in Nat /\ n \in 0..n /\ Target \in NodeId /\ \A i \in 1..n : s[i] \in Node /\ s[i].node_id \in NodeId
  BY ListFacts, LookupAssumption
<1>1. /\ StrictOrder(R, 1..n)
      /\ \A i, j \in 1..n : <<i, j>> \in R <=> GoesBefore(Target, s, i, j)
      /\ Sorted(s) = Arranged(R, s, n)
  BY <1>0, SortIs DEF Sorted
<1>2. Sorted(s) = [m \in 1..n |-> Sorted(s)[m]]
  BY DEF Sorted, SortedPrefix
<1> HIDE DEF R, n
<1>3. n = Len(s) /\ R = SortOrder(Target, s)
  BY DEF n, R
<1>4. ASSUME NEW i \in 1..n
      PROVE  Ahead(R, n, i) + 1 \in 1..n /\ Sorted(s)[Ahead(R, n, i) + 1] = s[i]
  <2>1. Ahead(R, n, i) \in 0..(n - 1)
    BY <1>0, <1>1, Ranks DEF Ahead
  <2> DEFINE m == Ahead(R, n, i) + 1
  <2>2. m \in 1..n /\ Ahead(R, n, i) = m - 1
    BY <1>0, <2>1
  <2> HIDE DEF m
  <2>3. Arranged(R, s, n)[m] = s[i]
    BY <1>0, <1>1, <1>3, <2>2, ArrangedAt
  <2> QED
    BY <1>1, <2>2, <2>3 DEF m
<1>5. ASSUME NEW m \in 1..n
      PROVE  \E i \in 1..n : Ahead(R, n, i) = m - 1 /\ Sorted(s)[m] = s[i]
  <2>1. PICK i \in 1..n : Ahead(R, n, i) = m - 1
    BY <1>0, <1>1, Ranks DEF Ahead
  <2>2. Arranged(R, s, n)[m] = s[i]
    BY <1>0, <1>1, <1>3, <2>1, ArrangedAt
  <2> QED
    BY <1>1, <2>1, <2>2
<1>6. Sorted(s) \in Seq(Node) /\ Len(Sorted(s)) = n
  <2>1. \A m \in 1..n : Sorted(s)[m] \in Node
    BY <1>0, <1>5
  <2>2. Sorted(s) \in [1..n -> Node]
    BY <1>2, <2>1
  <2> HIDE DEF n
  <2> QED
    BY <1>0, <2>2, SeqDef, LenProperties
<1>7. ASSUME NEW l \in 1..n, NEW m \in 1..n, l < m
      PROVE  ~Closer(Target, Sorted(s)[m].node_id, Sorted(s)[l].node_id)
  <2>1. PICK i \in 1..n : Ahead(R, n, i) = l - 1 /\ Sorted(s)[l] = s[i]
    BY <1>5
  <2>2. PICK j \in 1..n : Ahead(R, n, j) = m - 1 /\ Sorted(s)[m] = s[j]
    BY <1>5
  <2>3. <<j, i>> \notin R
    <3>1. ~(m - 1 < l - 1)
      BY <1>0, <1>7
    <3> QED
      BY <1>0, <1>1, <2>1, <2>2, <3>1, Ranks DEF Ahead
  <2> QED
    BY <1>1, <2>1, <2>2, <2>3 DEF GoesBefore
<1>8. IdsIn(Sorted(s)) = IdsIn(s)
  <2>1. \A m \in 1..n : \E i \in 1..n : Sorted(s)[m].node_id = s[i].node_id
    BY <1>5
  <2>2. \A i \in 1..n : \E m \in 1..n : Sorted(s)[m].node_id = s[i].node_id
    BY <1>4
  <2>3. \A id : id \in IdsIn(Sorted(s)) <=> \E i \in 1..n : Sorted(s)[i].node_id = id
    BY <1>6, InIds
  <2>4. \A id : id \in IdsIn(s) <=> \E i \in 1..n : s[i].node_id = id
    BY <1>3, InIds
  <2>5. \A id : id \in IdsIn(Sorted(s)) <=> id \in IdsIn(s)
    BY <2>1, <2>2, <2>3, <2>4, Zenon
  <2> QED
    BY <2>5
<1> QED
  BY <1>3, <1>5, <1>6, <1>7, <1>8 DEF InOrder

\* A list that is in order stays as it is.
LEMMA SortedAlready ==
    ASSUME NEW s \in Seq(Node), InOrder(s)
    PROVE  Sorted(s) = s
<1> DEFINE R == SortOrder(Target, s)
           n == Len(s)
<1>0. n \in Nat /\ n \in 0..n /\ Target \in NodeId
      /\ \A i \in 1..n : s[i].node_id \in NodeId /\ i \in Nat
  BY ListFacts, LookupAssumption
<1>1. /\ StrictOrder(R, 1..n)
      /\ \A i, j \in 1..n : <<i, j>> \in R <=> GoesBefore(Target, s, i, j)
      /\ Sorted(s) = Arranged(R, s, n)
  BY <1>0, SortIs DEF Sorted
<1>2. ASSUME NEW i \in 1..n, NEW j \in 1..n, i < j PROVE <<i, j>> \in R
  <2>1. ~Closer(Target, s[j].node_id, s[i].node_id)
    BY <1>2 DEF InOrder
  <2>2. s[i].node_id = s[j].node_id \/ Closer(Target, s[i].node_id, s[j].node_id)
    BY <1>0, <2>1, Nearer
  <2> QED
    BY <1>1, <1>2, <2>2 DEF GoesBefore
<1>3. \A i, j \in 1..n : <<i, j>> \in R <=> i < j
  <2>1. \A i, j \in 1..n : <<i, j>> \in R => ~(<<j, i>> \in R) /\ i # j
    BY <1>1 DEF StrictOrder
  <2>2. \A i, j \in 1..n : i = j \/ i < j \/ j < i
    BY <1>0
  <2> HIDE DEF R, n
  <2> QED
    BY <1>2, <2>1, <2>2
<1>4. ASSUME NEW i \in 1..n PROVE Ahead(R, n, i) = i - 1
  <2>1. Below(R, 1..n, i) = 1..(i - 1)
    <3>1. {j \in 1..n : j < i} = 1..(i - 1)
      BY <1>0
    <3> QED
      BY <1>3, <3>1 DEF Below
  <2>2. \A k \in Nat : Cardinality(1..k) = k
    BY FS_Interval
  <2>3. i - 1 \in Nat
    OBVIOUS
  <2> QED
    BY <2>1, <2>2, <2>3 DEF Ahead
<1>5. Sorted(s) = [m \in 1..n |-> Sorted(s)[m]] /\ s = [m \in 1..n |-> s[m]]
  BY DEF Sorted, SortedPrefix
<1>6. ASSUME NEW i \in 1..n PROVE Sorted(s)[i] = s[i]
  <2>1. Arranged(R, s, n)[i] = s[i]
    <3> HIDE DEF R
    <3> QED
      BY <1>0, <1>1, <1>4, ArrangedAt
  <2> QED
    BY <1>1, <2>1
<1> HIDE DEF n
<1> QED
  BY <1>5, <1>6
\* Cutting a list leaves its beginning.
LEMMA TruncatedFacts ==
    ASSUME NEW s \in Seq(Node)
    PROVE  /\ Truncated(s, Limit) \in Seq(Node)
           /\ Len(Truncated(s, Limit)) = (IF Len(s) < Limit THEN Len(s) ELSE Limit)
           /\ \A i \in 1..Len(Truncated(s, Limit)) : i \in 1..Len(s) /\ Truncated(s, Limit)[i] = s[i]
           /\ InOrder(s) => InOrder(Truncated(s, Limit))
           /\ Len(s) < Limit => Truncated(s, Limit) = s
<1> DEFINE n == IF Len(s) < Limit THEN Len(s) ELSE Limit
           t == Truncated(s, Limit)
<1>0. Len(s) \in Nat /\ Limit \in Nat /\ n \in Nat /\ n <= Len(s)
  BY LookupAssumption
<1>1. Min({Limit, Len(s)}) = n
  BY <1>0 DEF Min
<1>2. t = SubSeq(s, 1, n)
  BY <1>1 DEF Truncated
<1>3. \A i \in 1..n : i \in 1..Len(s) /\ s[i] \in Node
  BY <1>0
<1> HIDE DEF n, t
<1>4. /\ t \in Seq(Node)
      /\ Len(t) = IF 1 <= n THEN n - 1 + 1 ELSE 0
      /\ \A i \in 1..(n - 1 + 1) : t[i] = s[1 + i - 1]
  BY <1>0, <1>2, <1>3, SubSeqProperties
<1>5. n - 1 + 1 = n /\ Len(t) = n /\ \A i \in 1..n : 1 + i - 1 = i
  BY <1>0, <1>4
<1>6. \A i \in 1..n : t[i] = s[i]
  BY <1>4, <1>5
<1>7. ASSUME Len(s) < Limit PROVE t = s
  <2>1. n = Len(s)
    BY <1>7 DEF n
  <2>2. t = [i \in 1..n |-> t[i]] /\ s = [i \in 1..n |-> s[i]]
    BY <1>4, <1>5, <2>1
  <2> QED
    BY <1>6, <2>2
<1>8. InOrder(s) => InOrder(t)
  BY <1>3, <1>5, <1>6 DEF InOrder
<1>9. Len(t) = IF Len(s) < Limit THEN Len(s) ELSE Limit
  BY <1>5 DEF n
<1> QED
  BY <1>3, <1>4, <1>5, <1>6, <1>7, <1>8, <1>9 DEF t

\* t begins with s.
Extends(s, t) == Len(s) <= Len(t) /\ \A i \in 1..Len(s) : t[i] = s[i]

\* What is mentioned is a candidate afterwards, or the list is full and holds a
\* candidate that is not farther.
Judged(t, id) ==
    \/ id = Self
    \/ id \in IdsIn(t)
    \/ Len(t) >= Limit /\ \E k \in 1..Len(t) : ~Closer(Target, id, t[k].node_id)

\* What a candidate was judged by stays.
LEMMA ExtendsFacts ==
    ASSUME NEW s \in Seq(Node), NEW t \in Seq(Node), Extends(s, t)
    PROVE  /\ \A i \in 1..Len(s) : i \in 1..Len(t) /\ t[i] = s[i]
           /\ IdsIn(s) \subseteq IdsIn(t)
           /\ \A id : Judged(s, id) => Judged(t, id)
           /\ \A u \in Seq(Node) : Extends(t, u) => Extends(s, u)
<1>0. Len(s) \in Nat /\ Len(t) \in Nat /\ Len(s) <= Len(t)
  BY DEF Extends
<1>1. \A i \in 1..Len(s) : i \in 1..Len(t) /\ t[i] = s[i]
  BY <1>0 DEF Extends
<1>2. \A id : id \in IdsIn(s) => id \in IdsIn(t)
  BY <1>1, InIds
<1>3. ASSUME NEW id, Judged(s, id) PROVE Judged(t, id)
  <2>1. CASE id = Self \/ id \in IdsIn(s)
    BY <1>2, <2>1 DEF Judged
  <2>2. CASE Len(s) >= Limit /\ \E k \in 1..Len(s) : ~Closer(Target, id, s[k].node_id)
    <3>1. Len(t) >= Limit
      BY <1>0, <2>2, LookupAssumption
    <3>2. \E k \in 1..Len(t) : ~Closer(Target, id, t[k].node_id)
      BY <1>1, <2>2
    <3> QED
      BY <3>1, <3>2 DEF Judged
  <2> QED
    BY <1>3, <2>1, <2>2 DEF Judged
<1>4. ASSUME NEW u \in Seq(Node), Extends(t, u) PROVE Extends(s, u)
  <2>1. Len(u) \in Nat /\ Len(t) <= Len(u) /\ \A i \in 1..Len(t) : u[i] = t[i]
    BY <1>4 DEF Extends
  <2>2. \A i \in 1..Len(s) : u[i] = s[i]
    BY <1>1, <2>1
  <2>3. Len(s) <= Len(u)
    BY <1>0, <2>1
  <2> QED
    BY <2>2, <2>3 DEF Extends
<1> QED
  BY <1>1, <1>2, <1>3, <1>4

\* One node that was mentioned.
LEMMA ConsiderFacts ==
    ASSUME NEW s \in Seq(Node), NEW x \in Node
    PROVE  /\ Consider(s, x) \in Seq(Node)
           /\ Extends(s, Consider(s, x))
           /\ \A id \in IdsIn(Consider(s, x)) : id \in IdsIn(s) \/ (id = x.node_id /\ id # Self)
           /\ Judged(Consider(s, x), x.node_id)
<1> DEFINE t == Append(s, x)
<1>0. Len(s) \in Nat /\ Limit \in Nat \ {0} /\ x.node_id \in NodeId
  BY LookupAssumption DEF Node
<1>1. CASE x.node_id # Self /\ Wanted(s, x)
  <2>1. Consider(s, x) = t
    BY <1>1 DEF Consider
  <2>2. /\ t \in Seq(Node) /\ Len(t) = Len(s) + 1
        /\ \A i \in 1..Len(s) : t[i] = s[i]
        /\ t[Len(s) + 1] = x
    BY AppendProperties
  <2> HIDE DEF t
  <2>3. Len(s) + 1 \in 1..Len(t) /\ Len(s) <= Len(t) /\ \A i \in 1..Len(t) : i \in 1..Len(s) \/ i = Len(s) + 1
    BY <1>0, <2>2
  <2>4. x.node_id \in IdsIn(t)
    <3>1. t[Len(s) + 1].node_id = x.node_id
      BY <2>2
    <3> QED
      BY <2>3, <3>1, InIds
  <2>5. ASSUME NEW id \in IdsIn(t) PROVE id \in IdsIn(s) \/ (id = x.node_id /\ id # Self)
    <3>1. PICK i \in 1..Len(t) : t[i].node_id = id
      BY InIds
    <3>2. CASE i \in 1..Len(s)
      BY <2>2, <3>1, <3>2, InIds
    <3>3. CASE i = Len(s) + 1
      BY <1>1, <2>2, <3>1, <3>3
    <3> QED
      BY <2>3, <3>2, <3>3
  <2>6. Extends(s, t)
    BY <2>2, <2>3 DEF Extends
  <2> QED
    BY <2>1, <2>2, <2>4, <2>5, <2>6 DEF Judged
<1>2. CASE ~(x.node_id # Self /\ Wanted(s, x))
  <2>1. Consider(s, x) = s
    BY <1>2 DEF Consider
  <2>2. Extends(s, s)
    BY <1>0 DEF Extends
  <2>3. Judged(s, x.node_id)
    <3> SUFFICES ASSUME x.node_id # Self, x.node_id \notin IdsIn(s)
                 PROVE  Len(s) >= Limit /\ \E k \in 1..Len(s) : ~Closer(Target, x.node_id, s[k].node_id)
      BY DEF Judged
    <3>1. ~(Len(s) < Limit) /\ ~Closer(Target, x.node_id, s[Len(s)].node_id)
      BY <1>2 DEF Wanted, Last
    <3>2. Len(s) >= Limit /\ Len(s) \in 1..Len(s)
      BY <1>0, <3>1
    <3> QED
      BY <3>1, <3>2
  <2> QED
    BY <2>1, <2>2, <2>3
<1> QED
  BY <1>1, <1>2
\* it tabulates the merge of what the nodes at each set of positions add.
MergeTable(it, list, nodes) ==
    it = [s \in SUBSET DOMAIN nodes |->
            IF s = {} THEN list ELSE Consider(it[s \ {Max(s)}], nodes[Max(s)])]

\* Every list of nodes has such tables, and they hold lists.
LEMMA MergeTableFacts ==
    ASSUME NEW list \in Seq(Node), NEW nodes \in Seq(Node)
    PROVE  /\ \E it : MergeTable(it, list, nodes)
           /\ \A it : MergeTable(it, list, nodes) =>
                \A s \in SUBSET DOMAIN nodes : it[s] \in Seq(Node)
<1> DEFINE D == DOMAIN nodes
           c == [s \in SUBSET D |-> Max(s)]
           G == [s \in SUBSET D |-> [v \in Seq(Node) |-> Consider(v, nodes[Max(s)])]]
<1>0. D = 1..Len(nodes) /\ Len(nodes) \in Nat /\ IsFiniteSet(D) /\ \A i \in D : nodes[i] \in Node
  BY FS_Interval
<1> HIDE DEF D
<1>1. \A s \in SUBSET D : s # {} => c[s] = Max(s) /\ Max(s) \in s /\ c[s] \in s
  BY <1>0, GreatestNat
<1>2. PICK g : Recursion(g, D, list, c, G)
  <2> HIDE DEF G, c
  <2> QED
    BY <1>0, <1>1, SubsetRecursion
<1>3. /\ g[{}] = list
      /\ \A s \in SUBSET D : s # {} => g[s] = G[s][g[s \ {c[s]}]]
      /\ g = [s \in SUBSET D |-> g[s]]
  <2> HIDE DEF G, c
  <2> QED
    BY <1>2 DEF Recursion
\* A table, of either form, holds lists.
<1>4. ASSUME NEW it, it[{}] = list,
             \A s \in SUBSET D : s # {} /\ it[s \ {Max(s)}] \in Seq(Node) =>
                it[s] = Consider(it[s \ {Max(s)}], nodes[Max(s)])
      PROVE  \A s \in SUBSET D : it[s] \in Seq(Node)
  <2> DEFINE Q == {s \in SUBSET D : it[s] \in Seq(Node)}
  <2>1. {} \in Q
    BY <1>4
  <2>2. ASSUME NEW s \in SUBSET D, s # {}, \A x \in s : s \ {x} \in Q PROVE s \in Q
    <3>1. Max(s) \in s /\ nodes[Max(s)] \in Node
      BY <1>0, <1>1, <2>2
    <3>2. it[s \ {Max(s)}] \in Seq(Node)
      BY <2>2, <3>1
    <3>3. it[s] = Consider(it[s \ {Max(s)}], nodes[Max(s)])
      BY <1>4, <2>2, <3>2
    <3>4. Consider(it[s \ {Max(s)}], nodes[Max(s)]) \in Seq(Node)
      BY <3>1, <3>2, ConsiderFacts
    <3> QED
      BY <3>3, <3>4
  <2> HIDE DEF Q, c, G
  <2>3. IsFiniteSet(D)
    BY <1>0
  <2>4. \A s \in SUBSET D : s \in Q
    BY <2>1, <2>2, <2>3, SubsetInduction
  <2> QED
    BY <2>4 DEF Q
<1>5. ASSUME NEW s \in SUBSET D, s # {}, g[s \ {Max(s)}] \in Seq(Node)
      PROVE  g[s] = Consider(g[s \ {Max(s)}], nodes[Max(s)])
  <2>1. g[s] = G[s][g[s \ {Max(s)}]]
    <3> HIDE DEF G
    <3> QED
      BY <1>1, <1>3, <1>5
  <2> DEFINE v == g[s \ {Max(s)}]
  <2> HIDE DEF v
  <2>2. v \in Seq(Node) /\ g[s] = G[s][v]
    BY <1>5, <2>1 DEF v
  <2>3. G[s][v] = Consider(v, nodes[Max(s)])
    BY <2>2
  <2> QED
    BY <2>2, <2>3 DEF v
<1> HIDE DEF G, c
<1>6. \A s \in SUBSET D : g[s] \in Seq(Node)
  BY <1>3, <1>4, <1>5
<1>7. MergeTable(g, list, nodes)
  <2>1. \A s \in SUBSET D : s # {} => g[s] = Consider(g[s \ {Max(s)}], nodes[Max(s)])
    BY <1>5, <1>6
  <2>2. \A s \in SUBSET D : g[s] = IF s = {} THEN list ELSE Consider(g[s \ {Max(s)}], nodes[Max(s)])
    BY <1>3, <2>1
  <2> QED
    BY <1>3, <2>2 DEF MergeTable, D
<1>8. ASSUME NEW it, MergeTable(it, list, nodes) PROVE \A s \in SUBSET D : it[s] \in Seq(Node)
  <2>1. \A s \in SUBSET D : it[s] = IF s = {} THEN list ELSE Consider(it[s \ {Max(s)}], nodes[Max(s)])
    BY <1>8 DEF MergeTable, D
  <2>2. it[{}] = list
    BY <2>1
  <2>3. \A s \in SUBSET D : s # {} => it[s] = Consider(it[s \ {Max(s)}], nodes[Max(s)])
    BY <2>1
  <2> QED
    BY <1>4, <2>2, <2>3
<1> QED
  BY <1>7, <1>8 DEF D

\* Merging an answer only adds candidates, none of them this node, and judges
\* every node of the answer.
LEMMA MergeFacts ==
    ASSUME NEW list \in Seq(Node), NEW nodes \in Seq(Node)
    PROVE  /\ Merge(list, nodes) \in Seq(Node)
           /\ Extends(list, Merge(list, nodes))
           /\ IdsIn(Merge(list, nodes)) \subseteq IdsIn(list) \cup (IdsIn(nodes) \ {Self})
           /\ \A id \in IdsIn(nodes) : Judged(Merge(list, nodes), id)
<1> DEFINE D == DOMAIN nodes
           h == CHOOSE it : MergeTable(it, list, nodes)
<1>0. D = 1..Len(nodes) /\ Len(nodes) \in Nat /\ IsFiniteSet(D) /\ \A i \in D : nodes[i] \in Node
  BY FS_Interval
<1>1. MergeTable(h, list, nodes)
  BY MergeTableFacts
<1>2. Merge(list, nodes) = h[D]
  BY DEF Merge, FoldLeft, MapThenFoldSet, MergeTable
<1> HIDE DEF h, D
<1>3. \A s \in SUBSET D : h[s] \in Seq(Node)
  BY <1>1, MergeTableFacts DEF D
<1>4. \A s \in SUBSET D : h[s] = IF s = {} THEN list ELSE Consider(h[s \ {Max(s)}], nodes[Max(s)])
  BY <1>1 DEF MergeTable, D
<1> DEFINE Good(s) ==
             /\ Extends(list, h[s])
             /\ \A id \in IdsIn(h[s]) : id \in IdsIn(list) \/ (id # Self /\ \E i \in s : nodes[i].node_id = id)
             /\ \A i \in s : Judged(h[s], nodes[i].node_id)
           Q == {s \in SUBSET D : Good(s)}
<1>5. {} \in Q
  <2>1. h[{}] = list
    BY <1>4
  <2>2. Extends(list, list)
    BY DEF Extends
  <2> QED
    BY <2>1, <2>2
<1>6. ASSUME NEW s \in SUBSET D, s # {}, \A x \in s : s \ {x} \in Q PROVE s \in Q
  <2>1. PICK m \in s : h[s] = Consider(h[s \ {m}], nodes[m])
    <3>1. Max(s) \in s
      BY <1>0, <1>6, GreatestNat
    <3> QED
      BY <1>4, <1>6, <3>1
  <2>2. Good(s \ {m}) /\ h[s \ {m}] \in Seq(Node) /\ h[s] \in Seq(Node) /\ nodes[m] \in Node
    BY <1>0, <1>3, <1>6
  <2>3. /\ Extends(h[s \ {m}], h[s])
        /\ \A id \in IdsIn(h[s]) : id \in IdsIn(h[s \ {m}]) \/ (id = nodes[m].node_id /\ id # Self)
        /\ Judged(h[s], nodes[m].node_id)
    <3> HIDE DEF Good, Q
    <3> DEFINE v == h[s \ {m}]
               x == nodes[m]
    <3> HIDE DEF v, x
    <3>1. v \in Seq(Node) /\ x \in Node /\ h[s] = Consider(v, x)
      BY <2>1, <2>2 DEF v, x
    <3>2. /\ Extends(v, Consider(v, x))
          /\ \A id \in IdsIn(Consider(v, x)) : id \in IdsIn(v) \/ (id = x.node_id /\ id # Self)
          /\ Judged(Consider(v, x), x.node_id)
      BY <3>1, ConsiderFacts
    <3> QED
      BY <3>1, <3>2 DEF v, x
  <2>4. Extends(list, h[s])
    BY <2>2, <2>3, ExtendsFacts
  <2>5. \A id \in IdsIn(h[s]) : id \in IdsIn(list) \/ (id # Self /\ \E i \in s : nodes[i].node_id = id)
    BY <2>2, <2>3
  <2>6. ASSUME NEW i \in s PROVE Judged(h[s], nodes[i].node_id)
    <3>1. CASE i = m
      BY <2>3, <3>1
    <3>2. CASE i # m
      <4>1. Judged(h[s \ {m}], nodes[i].node_id)
        BY <2>2, <3>2
      <4> QED
        BY <2>2, <2>3, <4>1, ExtendsFacts
    <3> QED
      BY <3>1, <3>2
  <2> QED
    BY <2>4, <2>5, <2>6
<1> HIDE DEF Q, Good
<1>7. \A s \in SUBSET D : s \in Q
  <2>1. IsFiniteSet(D)
    BY <1>0
  <2> QED
    BY <1>5, <1>6, <2>1, SubsetInduction
<1>8. /\ Extends(list, h[D]) /\ h[D] \in Seq(Node)
      /\ \A id \in IdsIn(h[D]) : id \in IdsIn(list) \/ (id # Self /\ \E i \in D : nodes[i].node_id = id)
      /\ \A i \in D : Judged(h[D], nodes[i].node_id)
  BY <1>3, <1>7 DEF Q, Good
<1>9. \A id : id \in IdsIn(nodes) <=> \E i \in D : nodes[i].node_id = id
  BY <1>0, InIds
<1>10. \A id \in IdsIn(h[D]) : id \in IdsIn(list) \/ (id # Self /\ id \in IdsIn(nodes))
  BY <1>8, <1>9
<1>11. \A id \in IdsIn(nodes) : Judged(h[D], id)
  BY <1>8, <1>9
<1>12. IdsIn(h[D]) \subseteq IdsIn(list) \cup (IdsIn(nodes) \ {Self})
  BY <1>10
<1> QED
  BY <1>2, <1>8, <1>11, <1>12
\* Adding candidates brings no rank farther from the target.
LEMMA RanksImprove ==
    ASSUME NEW s \in Seq(Node), NEW t \in Seq(Node), Extends(s, t), NEW m \in 1..Len(s)
    PROVE  m <= Len(t) /\ ~Farther(Sorted(t)[m], Sorted(s)[m])
<1> DEFINE R == SortOrder(Target, s)
           Q == SortOrder(Target, t)
<1>0. /\ Len(s) \in Nat /\ Len(t) \in Nat /\ Len(s) <= Len(t) /\ m \in 1..Len(t) /\ Target \in NodeId
      /\ \A i \in 1..Len(s) : i \in 1..Len(t) /\ t[i] = s[i]
  BY ExtendsFacts, LookupAssumption DEF Extends
<1>1. /\ StrictOrder(R, 1..Len(s))
      /\ \A i, j \in 1..Len(s) : <<i, j>> \in R <=> GoesBefore(Target, s, i, j)
  BY <1>0, SortIs
<1>2. /\ StrictOrder(Q, 1..Len(t))
      /\ \A i, j \in 1..Len(t) : <<i, j>> \in Q <=> GoesBefore(Target, t, i, j)
  BY <1>0, SortIs
<1>3. PICK p \in 1..Len(s) : Ahead(R, Len(s), p) = m - 1 /\ Sorted(s)[m] = s[p]
  BY SortedFacts
<1>4. PICK q \in 1..Len(t) : Ahead(Q, Len(t), q) = m - 1 /\ Sorted(t)[m] = t[q]
  BY <1>0, SortedFacts
<1> HIDE DEF R, Q
<1>5. ASSUME NEW i \in 1..Len(s), NEW j \in 1..Len(s) PROVE <<i, j>> \in R <=> <<i, j>> \in Q
  <2>1. i \in 1..Len(t) /\ j \in 1..Len(t) /\ t[i] = s[i] /\ t[j] = s[j]
    BY <1>0
  <2>2. GoesBefore(Target, s, i, j) <=> GoesBefore(Target, t, i, j)
    BY <2>1 DEF GoesBefore
  <2> QED
    BY <1>1, <1>2, <2>1, <2>2
<1>6. <<p, q>> \notin Q
  <2>1. Ahead(R, Len(s), p) = Ahead(Q, Len(t), q)
    BY <1>3, <1>4
  <2> QED
    BY <1>0, <1>1, <1>2, <1>5, <2>1, AheadExtends
<1>7. ~GoesBefore(Target, t, p, q)
  BY <1>0, <1>2, <1>6
<1>8. ~Closer(Target, s[p].node_id, t[q].node_id)
  BY <1>0, <1>7 DEF GoesBefore
<1>9. m <= Len(t)
  BY <1>0
<1> QED
  BY <1>3, <1>4, <1>8, <1>9 DEF Farther

-----------------------------------------------------------------------------
(* Who is asked *)

\* The positions of the peers to ask: at most Alpha of them.
LEMMA ToQueryFacts ==
    ASSUME closest \in Seq(Node)
    PROVE  /\ ToQuery \subseteq 1..Len(closest)
           /\ Cardinality(ToQuery) \in Nat /\ Cardinality(ToQuery) <= Alpha
<1> DEFINE P == {i \in WithAddr(closest) : closest[i].node_id \notin queried}
<1>0. Len(closest) \in Nat /\ Alpha \in Nat
  BY LookupAssumption
<1>1. P \in SUBSET (1..Len(closest))
  BY DEF WithAddr
<1>2. ToQuery = {i \in P : Cardinality({j \in P : j < i}) < Alpha}
  BY DEF ToQuery, FirstOf
<1> HIDE DEF P
<1>3. Cardinality(ToQuery) \in Nat /\ Cardinality(ToQuery) <= Alpha
  BY <1>0, <1>1, <1>2, FirstCount
<1> QED
  BY <1>1, <1>2, <1>3

\* The Alpha nearest that can be asked have been.
AskedNearest(s, asked) == \A i \in FirstOf(WithAddr(s), Alpha) : s[i].node_id \in asked

\* Asking the first Alpha of those not asked leaves none of the first Alpha out.
LEMMA AsksNearest ==
    ASSUME closest \in Seq(Node)
    PROVE  AskedNearest(closest, queried \cup {closest[i].node_id : i \in ToQuery})
<1> DEFINE A == WithAddr(closest)
           P == {i \in A : closest[i].node_id \notin queried}
<1>0. Len(closest) \in Nat /\ A \in SUBSET (1..Len(closest)) /\ Alpha \in Nat
  BY LookupAssumption DEF WithAddr
<1>1. IsFiniteSet(A)
  <2>1. IsFiniteSet(1..Len(closest))
    BY <1>0, FS_Interval
  <2> HIDE DEF A
  <2> QED
    BY <1>0, <2>1, FS_Subset
<1> HIDE DEF A
<1>2. SUFFICES ASSUME NEW i \in A, Cardinality({j \in A : j < i}) < Alpha, i \in P
               PROVE  i \in ToQuery
  BY DEF AskedNearest, FirstOf, A
<1>3. Cardinality({j \in P : j < i}) < Alpha
  <2> DEFINE B == {j \in A : j < i}
             C == {j \in P : j < i}
  <2>1. B \in SUBSET A /\ C \in SUBSET B
    OBVIOUS
  <2> HIDE DEF B, C
  <2>2. IsFiniteSet(B) /\ IsFiniteSet(C) /\ Cardinality(C) <= Cardinality(B)
    BY <1>1, <2>1, FS_Subset
  <2>3. Cardinality(B) \in Nat /\ Cardinality(C) \in Nat
    BY <2>2, FS_CardinalityType
  <2>4. Cardinality(B) < Alpha
    BY <1>2 DEF B
  <2>5. Cardinality(C) < Alpha
    BY <1>0, <2>2, <2>3, <2>4
  <2> QED
    BY <2>5 DEF C
<1> QED
  BY <1>2, <1>3 DEF ToQuery, FirstOf, A

\* The same holds of the beginning of the list.
LEMMA AskedNearestCut ==
    ASSUME NEW s \in Seq(Node), NEW t \in Seq(Node), Extends(t, s),
           NEW asked, AskedNearest(s, asked)
    PROVE  AskedNearest(t, asked)
<1>0. Len(s) \in Nat /\ Len(t) \in Nat /\ \A i \in 1..Len(t) : i \in 1..Len(s) /\ s[i] = t[i]
  BY ExtendsFacts
<1>1. SUFFICES ASSUME NEW i \in WithAddr(t), Cardinality({j \in WithAddr(t) : j < i}) < Alpha
               PROVE  t[i].node_id \in asked
  BY DEF AskedNearest, FirstOf
<1>2. i \in 1..Len(t) /\ i \in WithAddr(s) /\ s[i] = t[i]
  BY <1>0 DEF WithAddr
<1>3. \A j \in 1..Len(s) : j < i => j \in 1..Len(t)
  BY <1>0, <1>2
<1>4. {j \in WithAddr(s) : j < i} = {j \in WithAddr(t) : j < i}
  <2>1. \A j : j \in WithAddr(s) /\ j < i <=> j \in WithAddr(t) /\ j < i
    BY <1>0, <1>3 DEF WithAddr
  <2> QED
    BY <2>1
<1>5. i \in FirstOf(WithAddr(s), Alpha)
  BY <1>1, <1>2, <1>4 DEF FirstOf
<1> QED
  BY <1>2, <1>5 DEF AskedNearest
-----------------------------------------------------------------------------
(* The inductive invariant *)

\* The list is in order except while answers come in.
InOrderBetween == phase # "collect" => InOrder(closest)

\* For every node that was mentioned there is a candidate not farther than it.
Represented ==
    \A id \in heard : \E k \in 1..Len(closest) : ~Closer(Target, id, closest[k].node_id)

\* As long as a round has added nothing, the list is the one its peers were
\* chosen from: still in order, its Alpha nearest asked.
UnchangedWhileIdle ==
    phase = "collect" /\ ~improved => InOrder(closest) /\ AskedNearest(closest, queried)

EndedAsked == phase = "done" /\ round < MaxRounds => AskedNearest(closest, queried)

IInv ==
    /\ TypeOK
    /\ InOrderBetween
    /\ Represented
    /\ NothingLostWhileRoom
    /\ UnchangedWhileIdle
    /\ EndedAsked

LEMMA InitIInv == Init => IInv
<1> SUFFICES ASSUME Init PROVE IInv
  OBVIOUS
<1>1. /\ closest \in Seeds /\ closest \in Seq(Node) /\ InOrder(closest)
      /\ queried = {Self} /\ round = 0 /\ handles = 0 /\ reply = <<>>
      /\ improved = FALSE /\ phase = "round" /\ heard = IdsIn(closest)
  BY LookupAssumption, SeedsAssumption DEF Init
<1>2. TypeOK
  <2>1. queried \subseteq NodeId /\ round \in 0..MaxRounds
    BY <1>1, LookupAssumption
  <2>2. reply \in Seq({Answered(a) : a \in Answer} \cup {Pending, Failed}) /\ Len(reply) = 0
    BY <1>1, EmptySeq
  <2>3. Len(reply) <= Alpha /\ handles \in 0..Len(reply)
    BY <1>1, <2>2, LookupAssumption
  <2>4. heard \subseteq NodeId
    BY <1>1, ListFacts
  <2> QED
    BY <1>1, <2>1, <2>2, <2>3, <2>4 DEF TypeOK
<1>3. Represented
  <2> SUFFICES ASSUME NEW id \in IdsIn(closest)
               PROVE  \E k \in 1..Len(closest) : ~Closer(Target, id, closest[k].node_id)
    BY <1>1 DEF Represented
  <2>1. PICK k \in 1..Len(closest) : closest[k].node_id = id
    BY InIds
  <2>2. id \in NodeId
    BY <1>1, ListFacts
  <2> QED
    BY <2>1, <2>2, Nearer
<1> QED
  BY <1>1, <1>2, <1>3
  DEF IInv, InOrderBetween, NothingLostWhileRoom, UnchangedWhileIdle, EndedAsked

\* A round begins: the nearest are asked.
LEMMA BeginRoundKeeps == IInv /\ BeginRound => IInv'
<1> SUFFICES ASSUME IInv, BeginRound PROVE IInv'
  OBVIOUS
<1>1. TypeOK /\ closest \in Seq(Node)
  BY DEF IInv, TypeOK
<1>2. /\ phase = "round" /\ round < MaxRounds
      /\ queried' = queried \cup {closest[i].node_id : i \in ToQuery}
      /\ handles' = Cardinality(ToQuery)
      /\ reply' = [i \in 1..Cardinality(ToQuery) |-> Pending]
      /\ improved' = FALSE /\ round' = round + 1 /\ phase' = "collect"
      /\ closest' = closest /\ heard' = heard
  BY DEF BeginRound
<1>3. /\ ToQuery \subseteq 1..Len(closest)
      /\ Cardinality(ToQuery) \in Nat /\ Cardinality(ToQuery) <= Alpha
  BY <1>1, ToQueryFacts
<1>4. TypeOK'
  <2>1. queried' \subseteq NodeId
    <3>1. \A i \in ToQuery : closest[i].node_id \in NodeId
      BY <1>1, <1>3, ListFacts
    <3> QED
      BY <1>1, <1>2, <3>1 DEF TypeOK
  <2>2. round' \in 0..MaxRounds
    BY <1>1, <1>2, LookupAssumption DEF TypeOK
  <2> DEFINE n == Cardinality(ToQuery)
             T == {Answered(a) : a \in Answer} \cup {Pending, Failed}
  <2>3. n \in Nat /\ n <= Alpha /\ reply' = [i \in 1..n |-> Pending] /\ handles' = n
    BY <1>2, <1>3
  <2>4. Pending \in T
    OBVIOUS
  <2> HIDE DEF n, T
  <2>5. reply' \in Seq(T) /\ Len(reply') = n
    <3>1. reply' \in [1..n -> T]
      BY <2>3, <2>4
    <3> QED
      BY <2>3, <3>1, SeqDef, LenProperties
  <2>6. Len(reply') <= Alpha /\ handles' \in 0..Len(reply')
    BY <2>3, <2>5
  <2>7. closest' \in Seq(Node) /\ improved' \in BOOLEAN /\ phase' \in {"round", "collect", "done"}
        /\ heard' \subseteq NodeId
    BY <1>1, <1>2 DEF TypeOK
  <2> QED
    BY <2>1, <2>2, <2>5, <2>6, <2>7 DEF TypeOK, T
<1>5. AskedNearest(closest', queried') /\ InOrder(closest)'
  BY <1>1, <1>2, AsksNearest DEF IInv, InOrderBetween, InOrder
<1> QED
  BY <1>2, <1>4, <1>5
  DEF IInv, InOrderBetween, Represented, NothingLostWhileRoom, UnchangedWhileIdle, EndedAsked

\* The lookup stops: every one of the nearest has been asked, or the rounds are
\* used up.
LEMMA StopKeeps == IInv /\ Stop => IInv'
<1> SUFFICES ASSUME IInv, Stop PROVE IInv'
  OBVIOUS
<1>1. /\ phase = "round" /\ phase' = "done" /\ (round >= MaxRounds \/ ToQuery = {})
      /\ UNCHANGED <<closest, queried, round, handles, reply, improved, heard>>
  BY DEF Stop
<1>2. TypeOK /\ closest \in Seq(Node) /\ round \in Nat /\ MaxRounds \in Nat
  BY LookupAssumption DEF IInv, TypeOK
<1>3. TypeOK'
  BY <1>1, <1>2 DEF TypeOK
<1>4. ASSUME round < MaxRounds PROVE AskedNearest(closest, queried)
  <2>1. ToQuery = {}
    BY <1>1, <1>2, <1>4
  <2>2. queried \cup {closest[i].node_id : i \in ToQuery} = queried
    BY <2>1
  <2> QED
    BY <1>2, <2>2, AsksNearest
<1> QED
  BY <1>1, <1>3, <1>4
  DEF IInv, InOrderBetween, InOrder, Represented, NothingLostWhileRoom, UnchangedWhileIdle, EndedAsked

\* An RPC finishes.
LEMMA ReplyKeeps == ASSUME NEW i \in DOMAIN reply PROVE IInv /\ Reply(i) => IInv'
<1> SUFFICES ASSUME IInv, Reply(i) PROVE IInv'
  OBVIOUS
<1> DEFINE T == {Answered(a) : a \in Answer} \cup {Pending, Failed}
<1>1. PICK r \in {Answered(a) : a \in Answer} \cup {Failed} : reply' = [reply EXCEPT ![i] = r]
  BY DEF Reply
<1>2. UNCHANGED <<closest, queried, round, handles, improved, phase, heard>>
  BY DEF Reply
<1>3. TypeOK'
  <2>1. reply \in Seq(T) /\ r \in T
    BY <1>1 DEF IInv, TypeOK
  <2> HIDE DEF T
  <2>2. reply' \in Seq(T) /\ Len(reply') = Len(reply)
    BY <1>1, <2>1
  <2> QED
    BY <1>2, <2>2 DEF IInv, TypeOK, T
<1> QED
  BY <1>2, <1>3
  DEF IInv, InOrderBetween, InOrder, Represented, NothingLostWhileRoom, UnchangedWhileIdle, EndedAsked
\* What Collect takes up is a list of nodes, added to the candidates.
LEMMA CollectStep ==
    ASSUME IInv, Collect
    PROVE  \E nodes \in Seq(Node) :
             /\ handles' \in 0..Len(reply) /\ closest' = Merge(closest, nodes)
             /\ heard' = heard \cup (IdsIn(nodes) \ {Self})
             /\ closest \in Seq(Node) /\ closest' \in Seq(Node) /\ Extends(closest, closest')
<1> DEFINE T == {Answered(a) : a \in Answer} \cup {Pending, Failed}
           nodes == reply[Awaited].nodes
<1>1. closest \in Seq(Node) /\ reply \in Seq(T) /\ handles \in 0..Len(reply) /\ handles > 0
  BY DEF IInv, TypeOK, Collect
<1>2. handles' \in 0..Len(reply)
  BY <1>1 DEF Collect
<1>3. ASSUME NEW r \in T PROVE r.nodes \in Seq(Node)
  <2>1. CASE r = Pending \/ r = Failed
    <3>1. r.nodes = <<>>
      BY <2>1 DEF Pending, Failed
    <3>2. <<>> \in Seq(Node)
      BY EmptySeq
    <3> QED
      BY <3>1, <3>2
  <2>2. CASE r \in {Answered(a) : a \in Answer}
    <3>1. PICK a \in Answer : r = Answered(a)
      BY <2>2
    <3> QED
      BY <3>1, LookupAssumption DEF Answered
  <2> QED
    BY <2>1, <2>2
<1> HIDE DEF T
<1>4. Awaited \in 1..Len(reply)
  BY <1>1 DEF Awaited
<1>5. nodes \in Seq(Node)
  BY <1>1, <1>3, <1>4
<1>6. closest' = Merge(closest, nodes) /\ heard' = heard \cup (IdsIn(nodes) \ {Self})
  BY DEF Collect
<1> HIDE DEF nodes
<1>7. Merge(closest, nodes) \in Seq(Node) /\ Extends(closest, Merge(closest, nodes))
  BY <1>1, <1>5, MergeFacts
<1> QED
  BY <1>1, <1>2, <1>5, <1>6, <1>7

\* An answer is taken up.
LEMMA CollectKeeps == IInv /\ Collect => IInv'
<1> SUFFICES ASSUME IInv, Collect PROVE IInv'
  OBVIOUS
<1>1. PICK nodes \in Seq(Node) :
             /\ handles' \in 0..Len(reply) /\ closest' = Merge(closest, nodes)
             /\ heard' = heard \cup (IdsIn(nodes) \ {Self})
             /\ closest \in Seq(Node) /\ closest' \in Seq(Node) /\ Extends(closest, closest')
  BY CollectStep
<1>2. /\ phase = "collect" /\ UNCHANGED <<queried, round, reply, phase>>
      /\ improved' = (improved \/ closest' # closest)
  BY DEF Collect
<1>3. TypeOK /\ heard \subseteq NodeId /\ Len(closest) \in Nat /\ Len(closest') \in Nat /\ Limit \in Nat
  BY <1>1, LookupAssumption DEF IInv, TypeOK
<1>4. /\ IdsIn(closest') \subseteq IdsIn(closest) \cup (IdsIn(nodes) \ {Self})
      /\ \A id \in IdsIn(nodes) : Judged(closest', id)
  BY <1>1, MergeFacts
<1>5. /\ \A i \in 1..Len(closest) : i \in 1..Len(closest') /\ closest'[i] = closest[i]
      /\ IdsIn(closest) \subseteq IdsIn(closest')
  BY <1>1, ExtendsFacts
<1>6. IdsIn(nodes) \subseteq NodeId
  BY ListFacts
<1>7. TypeOK'
  <2>1. heard' \subseteq NodeId /\ improved' \in BOOLEAN
    BY <1>1, <1>2, <1>3, <1>6
  <2> QED
    BY <1>1, <1>2, <1>3, <2>1 DEF TypeOK
<1>8. Represented'
  <2> SUFFICES ASSUME NEW id \in heard'
               PROVE  \E k \in 1..Len(closest') : ~Closer(Target, id, closest'[k].node_id)
    BY DEF Represented
  <2>1. CASE id \in heard
    <3>1. PICK k \in 1..Len(closest) : ~Closer(Target, id, closest[k].node_id)
      BY <2>1 DEF IInv, Represented
    <3> QED
      BY <1>5, <3>1
  <2>2. CASE id \in IdsIn(nodes) /\ id # Self
    <3>1. Judged(closest', id) /\ id \in NodeId
      BY <1>4, <1>6, <2>2
    <3>2. CASE id \in IdsIn(closest')
      <4>1. PICK k \in 1..Len(closest') : closest'[k].node_id = id
        BY <3>2, InIds
      <4> QED
        BY <3>1, <4>1, Nearer
    <3> QED
      BY <2>2, <3>1, <3>2 DEF Judged
  <2> QED
    BY <1>1, <2>1, <2>2
<1>9. NothingLostWhileRoom'
  <2> SUFFICES ASSUME ~(Len(closest') >= Limit) PROVE IdsIn(closest') = heard'
    BY DEF NothingLostWhileRoom
  <2>1. ~(Len(closest) >= Limit)
    BY <1>1, <1>3 DEF Extends
  <2>2. IdsIn(closest) = heard
    BY <2>1 DEF IInv, NothingLostWhileRoom
  <2>3. \A id \in IdsIn(nodes) : id = Self \/ id \in IdsIn(closest')
    BY <1>4 DEF Judged
  <2> QED
    BY <1>1, <1>4, <1>5, <2>2, <2>3
<1>10. ASSUME ~improved' PROVE closest' = closest /\ ~improved
  BY <1>2, <1>10
<1>11. UnchangedWhileIdle'
  BY <1>2, <1>10 DEF IInv, UnchangedWhileIdle, InOrder
<1> QED
  BY <1>2, <1>7, <1>8, <1>9, <1>11 DEF IInv, InOrderBetween, EndedAsked

\* What EndRound leaves.
LEMMA EndRoundStep ==
    ASSUME IInv, EndRound
    PROVE  /\ closest \in Seq(Node) /\ Sorted(closest) \in Seq(Node) /\ closest' \in Seq(Node)
           /\ InOrder(closest') /\ Extends(closest', Sorted(closest))
           /\ Len(closest') = (IF Len(closest) < Limit THEN Len(closest) ELSE Limit)
           /\ Len(closest) < Limit => closest' = Sorted(closest)
           /\ Sorted(closest') = closest'
<1>1. closest \in Seq(Node) /\ closest' = Truncated(Sorted(closest), Limit)
  BY DEF IInv, TypeOK, EndRound
<1> DEFINE s == Sorted(closest)
<1>2. s \in Seq(Node) /\ InOrder(s) /\ Len(s) = Len(closest)
  BY <1>1, SortedFacts
<1> HIDE DEF s
<1>3. /\ closest' \in Seq(Node)
      /\ Len(closest') = (IF Len(s) < Limit THEN Len(s) ELSE Limit)
      /\ \A i \in 1..Len(closest') : i \in 1..Len(s) /\ closest'[i] = s[i]
      /\ InOrder(closest')
      /\ Len(s) < Limit => closest' = s
  BY <1>1, <1>2, TruncatedFacts DEF s
<1>4. Extends(closest', s)
  <2>1. Len(closest') <= Len(s)
    BY <1>2, <1>3, LookupAssumption
  <2> QED
    BY <1>3, <2>1 DEF Extends
<1>5. Sorted(closest') = closest'
  BY <1>3, SortedAlready
<1> QED
  BY <1>1, <1>2, <1>3, <1>4, <1>5 DEF s

\* The round ends: the list is sorted and cut.
LEMMA EndRoundKeeps == IInv /\ EndRound => IInv'
<1> SUFFICES ASSUME IInv, EndRound PROVE IInv'
  OBVIOUS
<1> DEFINE s == Sorted(closest)
<1>1. /\ closest \in Seq(Node) /\ s \in Seq(Node) /\ closest' \in Seq(Node)
      /\ InOrder(closest') /\ Extends(closest', s)
      /\ Len(closest') = (IF Len(closest) < Limit THEN Len(closest) ELSE Limit)
      /\ Len(closest) < Limit => closest' = s
  BY EndRoundStep
<1>2. /\ Len(s) = Len(closest) /\ InOrder(s) /\ IdsIn(s) = IdsIn(closest)
      /\ InOrder(closest) => s = closest
  BY <1>1, SortedFacts, SortedAlready
<1> HIDE DEF s
<1>3. /\ phase = "collect" /\ handles = 0 /\ phase' = (IF improved THEN "round" ELSE "done")
      /\ reply' = <<>> /\ UNCHANGED <<queried, round, handles, improved, heard>>
  BY DEF EndRound
<1>4. /\ Len(closest) \in Nat /\ Limit \in Nat \ {0} /\ improved \in BOOLEAN /\ heard \subseteq NodeId
      /\ \A i \in 1..Len(s) : s[i].node_id \in NodeId /\ i \in Nat
  BY <1>1, ListFacts, LookupAssumption DEF IInv, TypeOK
<1>5. TypeOK'
  <2>1. reply' \in Seq({Answered(a) : a \in Answer} \cup {Pending, Failed}) /\ Len(reply') = 0
    BY <1>3, EmptySeq
  <2>2. Len(reply') <= Alpha /\ handles' \in 0..Len(reply')
    BY <1>3, <2>1, LookupAssumption
  <2>3. queried' \subseteq NodeId /\ round' \in 0..MaxRounds /\ improved' \in BOOLEAN
        /\ phase' \in {"round", "collect", "done"}' /\ heard' \subseteq NodeId
    BY <1>3, <1>4 DEF IInv, TypeOK
  <2> QED
    BY <1>1, <2>1, <2>2, <2>3 DEF TypeOK
<1>6. Represented'
  <2> SUFFICES ASSUME NEW id \in heard
               PROVE  \E k \in 1..Len(closest') : ~Closer(Target, id, closest'[k].node_id)
    BY <1>3 DEF Represented
  <2>1. PICK k \in 1..Len(closest) : ~Closer(Target, id, closest[k].node_id)
    BY DEF IInv, Represented
  <2>2. PICK j \in 1..Len(s) : s[j].node_id = closest[k].node_id
    <3>1. closest[k].node_id \in IdsIn(closest)
      BY InIds
    <3>2. closest[k].node_id \in IdsIn(s)
      BY <1>2, <3>1
    <3> QED
      BY <3>2, InIds
  <2>3. 1 \in 1..Len(s) /\ 1 \in 1..Len(closest') /\ (j = 1 \/ 1 < j)
    BY <1>1, <1>2, <1>4
  <2>4. closest'[1] = s[1]
    BY <1>1, <2>3 DEF Extends
  <2>5. ~Closer(Target, s[j].node_id, s[1].node_id)
    BY <1>2, <1>4, <2>3, Nearer DEF InOrder
  <2>6. ~Closer(Target, id, s[1].node_id)
    BY <1>4, <2>1, <2>2, <2>3, <2>5, Nearer
  <2> QED
    BY <2>3, <2>4, <2>6
<1>7. NothingLostWhileRoom'
  <2> SUFFICES ASSUME ~(Len(closest') >= Limit) PROVE IdsIn(closest') = heard
    BY <1>3 DEF NothingLostWhileRoom
  <2>1. Len(closest) < Limit /\ ~(Len(closest) >= Limit)
    BY <1>1, <1>4
  <2> QED
    BY <1>1, <1>2, <2>1 DEF IInv, NothingLostWhileRoom
<1>8. ASSUME ~improved PROVE AskedNearest(closest', queried')
  <2>1. s = closest /\ AskedNearest(closest, queried)
    BY <1>2, <1>3, <1>8 DEF IInv, UnchangedWhileIdle
  <2>2. Extends(closest', closest)
    BY <1>1, <2>1
  <2> QED
    BY <1>1, <1>3, <2>1, <2>2, AskedNearestCut
<1>9. phase' # "collect" /\ (phase' = "done" => ~improved)
  BY <1>3, <1>4
<1>10. InOrder(closest)'
  BY <1>1 DEF InOrder
<1> QED
  BY <1>5, <1>6, <1>7, <1>8, <1>9, <1>10 DEF IInv, InOrderBetween, UnchangedWhileIdle, EndedAsked

LEMMA StepIInv == IInv /\ [Next]_vars => IInv'
<1> SUFFICES ASSUME IInv, [Next]_vars PROVE IInv'
  OBVIOUS
<1>1. CASE BeginRound
  BY <1>1, BeginRoundKeeps
<1>2. CASE Stop
  BY <1>2, StopKeeps
<1>3. CASE \E i \in DOMAIN reply : Reply(i)
  BY <1>3, ReplyKeeps
<1>4. CASE Collect
  BY <1>4, CollectKeeps
<1>5. CASE EndRound
  BY <1>5, EndRoundKeeps
<1>6. CASE Done \/ UNCHANGED vars
  BY <1>6 DEF Done, vars, IInv, TypeOK, InOrderBetween, InOrder, Represented,
              NothingLostWhileRoom, UnchangedWhileIdle, EndedAsked
<1> QED
  BY <1>1, <1>2, <1>3, <1>4, <1>5, <1>6 DEF Next

\* No step brings a rank of the list farther from the target.
LEMMA StepAdvances ==
    ASSUME IInv, [Next]_vars
    PROVE  \A i \in 1..Min({Limit, Len(Sorted(closest))}) :
              i <= Len(Sorted(closest')) /\ ~Farther(Sorted(closest')[i], Sorted(closest)[i])
<1>0. closest \in Seq(Node) /\ Limit \in Nat \ {0}
  BY LookupAssumption DEF IInv, TypeOK
<1>1. Sorted(closest) \in Seq(Node) /\ Len(Sorted(closest)) = Len(closest) /\ Len(closest) \in Nat
  BY <1>0, SortedFacts
<1>2. SUFFICES ASSUME NEW i \in 1..Len(closest), i <= Limit
               PROVE  i <= Len(Sorted(closest')) /\ ~Farther(Sorted(closest')[i], Sorted(closest)[i])
  <2>1. Min({Limit, Len(closest)}) = IF Len(closest) < Limit THEN Len(closest) ELSE Limit
    BY <1>0, <1>1 DEF Min
  <2>2. \A i \in 1..Min({Limit, Len(closest)}) : i \in 1..Len(closest) /\ i <= Limit
    BY <1>0, <1>1, <2>1
  <2> QED
    BY <1>1, <1>2, <2>2
<1>3. ~Farther(Sorted(closest)[i], Sorted(closest)[i])
  BY <1>1, ListFacts, Nearer DEF Farther
<1>4. CASE UNCHANGED closest
  BY <1>1, <1>2, <1>3, <1>4
<1>5. CASE Collect
  <2>1. closest' \in Seq(Node) /\ Extends(closest, closest')
    BY <1>5, CollectStep
  <2>2. i <= Len(closest') /\ ~Farther(Sorted(closest')[i], Sorted(closest)[i])
    BY <1>0, <1>2, <2>1, RanksImprove
  <2>3. Len(Sorted(closest')) = Len(closest')
    BY <2>1, SortedFacts
  <2> QED
    BY <2>2, <2>3
<1>6. CASE EndRound
  <2>1. /\ Extends(closest', Sorted(closest)) /\ Sorted(closest') = closest'
        /\ Len(closest') = (IF Len(closest) < Limit THEN Len(closest) ELSE Limit)
    BY <1>6, EndRoundStep
  <2>2. i \in 1..Len(closest') /\ i <= Len(closest')
    BY <1>0, <1>1, <1>2, <2>1
  <2>3. Sorted(closest)[i] = closest'[i]
    BY <2>1, <2>2 DEF Extends
  <2> QED
    BY <1>3, <2>1, <2>2, <2>3
<1>7. UNCHANGED closest \/ Collect \/ EndRound
  BY DEF Next, vars, BeginRound, Stop, Reply, Done
<1> QED
  BY <1>4, <1>5, <1>6, <1>7

-----------------------------------------------------------------------------
(* The theorems *)

\* The invariant holds in every reachable state.
THEOREM LookupInvariance == Spec => []IInv
<1>1. Init => IInv
  BY InitIInv
<1>2. IInv /\ [Next]_vars => IInv'
  BY StepIInv
<1> QED
  BY <1>1, <1>2, PTL DEF Spec

\* Type correctness: no round has more than alpha RPCs under way.
THEOREM LookupTypeCorrect == Spec => []TypeOK
<1>1. IInv => TypeOK
  BY DEF IInv
<1> QED
  BY <1>1, LookupInvariance, PTL

\* The nearest node anyone mentioned heads the list after every round, however
\* the answers of the round were judged against a list out of order.
THEOREM NearestKept == Spec => []NearestHeardKept
<1>1. IInv => NearestHeardKept
  <2> SUFFICES ASSUME IInv, BetweenRounds, NEW id \in heard
               PROVE  ~Closer(Target, id, closest[1].node_id)
    BY DEF NearestHeardKept
  <2>1. closest \in Seq(Node) /\ id \in NodeId /\ InOrder(closest)
    BY DEF IInv, TypeOK, InOrderBetween, BetweenRounds
  <2>2. PICK k \in 1..Len(closest) : ~Closer(Target, id, closest[k].node_id)
    BY DEF IInv, Represented
  <2>3. /\ 1 \in 1..Len(closest) /\ (k = 1 \/ 1 < k)
        /\ closest[1].node_id \in NodeId /\ closest[k].node_id \in NodeId
    BY <2>1, ListFacts
  <2>4. ~Closer(Target, closest[k].node_id, closest[1].node_id)
    BY <2>1, <2>3, Nearer DEF InOrder
  <2> QED
    BY <2>1, <2>2, <2>3, <2>4, Nearer
<1> QED
  BY <1>1, LookupInvariance, PTL

\* A lookup that is not full has kept everything it heard of.
THEOREM NothingLost == Spec => []NothingLostWhileRoom
<1>1. IInv => NothingLostWhileRoom
  BY DEF IInv
<1> QED
  BY <1>1, LookupInvariance, PTL

\* A lookup that ends before its rounds run out has asked the alpha nearest.
THEOREM NearestAsked == Spec => []NearestWereAsked
<1>1. IInv => NearestWereAsked
  BY DEF IInv, EndedAsked, AskedNearest, NearestWereAsked
<1> QED
  BY <1>1, LookupInvariance, PTL

\* No answer, failure or truncation moves any of the first k ranks away from the
\* target.
THEOREM LookupAdvances == Spec => NeverRetreats
<1>1. IInv /\ [Next]_vars =>
        [LET old == Sorted(closest)
             new == Sorted(closest')
         IN  \A i \in 1..Min({Limit, Len(old)}) :
                i <= Len(new) /\ ~Farther(new[i], old[i])]_vars
  BY StepAdvances
<1> QED
  BY <1>1, LookupInvariance, PTL DEF Spec, NeverRetreats
=============================================================================
