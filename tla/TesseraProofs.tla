--------------------------- MODULE TesseraProofs ---------------------------
(***************************************************************************)
(* Storing and retrieving a tessera, for every number of nodes, every data,  *)
(* block size and erasure configuration:                                     *)
(*   - decode_blocks undoes encode_blocks, whichever shards are left, as far *)
(*     as d of each block are (the Reed-Solomon library is the external      *)
(*     model of Erasure);                                                    *)
(*   - ManifestLast: the chunks on the storer's disk grow with taken and     *)
(*     putting, and what the store has reached when it comes to the manifest *)
(*     follows from pc;                                                      *)
(*   - RetrieveSound and RetrieveSucceeds: what a reader has fetched so far  *)
(*     is a prefix of what the manifest names, with a gap only where nobody  *)
(*     has the chunk any more or an answer was missed.                       *)
(***************************************************************************)
EXTENDS Tessera, FoldLemmas
-----------------------------------------------------------------------------
(* Slices and concatenations *)

\* data[start..end]
LEMMA SliceFacts ==
  ASSUME NEW S, NEW D \in Seq(S), NEW a \in Nat, NEW b \in Nat
  PROVE  /\ Slice(D, a, b) \in Seq(S)
         /\ Len(Slice(D, a, b)) = IF AtMost(b, Len(D)) >= a THEN AtMost(b, Len(D)) - a ELSE 0
         /\ \A i \in 1 .. Len(Slice(D, a, b)) :
              a + i \in 1 .. Len(D) /\ Slice(D, a, b)[i] = D[a + i]
<1> DEFINE m == AtMost(b, Len(D))
<1>1. Len(D) \in Nat /\ m \in Nat /\ m <= Len(D)
  BY DEF AtMost
<1>2. Slice(D, a, b) = SubSeq(D, a + 1, m)
  BY DEF Slice
<1> HIDE DEF m
<1>3. /\ SubSeq(D, a + 1, m) \in Seq(S)
      /\ Len(SubSeq(D, a + 1, m)) = IF m >= a THEN m - a ELSE 0
  BY <1>1
<1>4. \A i \in 1 .. (m - a) : SubSeq(D, a + 1, m)[i] = D[a + i]
  BY <1>1
<1> QED
  BY <1>1, <1>2, <1>3, <1>4 DEF m

\* Cutting a slice in two.
LEMMA SliceConcat ==
  ASSUME NEW S, NEW D \in Seq(S), NEW a \in Nat, NEW b \in Nat, a <= b, a <= Len(D)
  PROVE  Slice(D, 0, a) \o Slice(D, a, b) = Slice(D, 0, b)
<1> DEFINE m == AtMost(b, Len(D))
           x == Slice(D, 0, a)
           y == Slice(D, a, b)
           z == Slice(D, 0, b)
<1>1. Len(D) \in Nat /\ m \in Nat /\ a <= m /\ m <= Len(D) /\ AtMost(a, Len(D)) = a
  BY DEF AtMost
<1>2. /\ x \in Seq(S) /\ Len(x) = a /\ \A j \in 1 .. a : x[j] = D[0 + j]
  BY <1>1, SliceFacts
<1>3. /\ y \in Seq(S) /\ Len(y) = m - a /\ \A j \in 1 .. m - a : y[j] = D[a + j]
  BY <1>1, SliceFacts
<1>4. /\ z \in Seq(S) /\ Len(z) = m /\ \A j \in 1 .. m : z[j] = D[0 + j]
  BY <1>1, SliceFacts
<1> HIDE DEF m, x, y, z
<1>5. /\ x \o y \in Seq(S) /\ Len(x \o y) = m
      /\ \A j \in 1 .. m : (x \o y)[j] = IF j <= a THEN x[j] ELSE y[j - a]
  <2>1. Len(x) + Len(y) = m
    BY <1>1, <1>2, <1>3
  <2> QED
    BY <1>2, <1>3, <2>1, ConcatProperties
<1>6. ASSUME NEW j \in 1 .. m PROVE (x \o y)[j] = z[j]
  <2>1. CASE j <= a
    <3>1. j \in 1 .. a
      BY <1>1, <2>1
    <3> QED
      BY <1>2, <1>4, <1>5, <2>1, <3>1
  <2>2. CASE ~(j <= a)
    <3>1. j - a \in 1 .. m - a /\ a + (j - a) = 0 + j
      BY <1>1, <2>2
    <3> QED
      BY <1>3, <1>4, <1>5, <2>2, <3>1
  <2> QED
    BY <2>1, <2>2
<1>7. x \o y = z
  BY <1>4, <1>5, <1>6, SeqEqual
<1> QED
  BY <1>7 DEF x, y, z

\* A slice that leaves nothing out.
LEMMA SliceAll ==
  ASSUME NEW S, NEW D \in Seq(S), NEW n \in Nat, Len(D) <= n
  PROVE  Slice(D, 0, n) = D
<1>1. AtMost(n, Len(D)) = Len(D) /\ Len(D) \in Nat
  BY DEF AtMost
<1>2. /\ Slice(D, 0, n) \in Seq(S) /\ Len(Slice(D, 0, n)) = Len(D)
      /\ \A i \in 1 .. Len(D) : Slice(D, 0, n)[i] = D[0 + i]
  BY <1>1, SliceFacts
<1>3. \A i \in 1 .. Len(D) : Slice(D, 0, n)[i] = D[i]
  BY <1>1, <1>2
<1> QED
  BY <1>2, <1>3, SeqEqual

\* Cut into pieces of size s, the last of which may be short, and put together
\* again, data is what it was.
LEMMA FlattenPieces ==
  ASSUME NEW S, NEW D \in Seq(S), NEW s \in Nat \ {0}, NEW n \in Nat \ {0},
         (n - 1) * s <= Len(D), Len(D) <= n * s,
         NEW seqs, Len(seqs) = n,
         \A i \in 1 .. n : seqs[i] = Slice(D, (i - 1) * s, i * s)
  PROVE  FlattenSeq(seqs) = D
<1> DEFINE F == [i \in 1 .. n |-> Slice(D, 0, i * s)]
<1>1. Len(D) \in Nat /\ n >= 1 /\ 1 \in 1 .. n /\ n \in 1 .. n
  OBVIOUS
<1>2. F \in [1 .. n -> Seq(S)]
  <2>1. ASSUME NEW i \in 1 .. n PROVE Slice(D, 0, i * s) \in Seq(S)
    <3>1. i * s \in Nat
      OBVIOUS
    <3> QED
      BY <3>1, SliceFacts
  <2> QED
    BY <2>1
<1>3. F[1] = seqs[1]
  <2>1. (1 - 1) * s = 0
    OBVIOUS
  <2> QED
    BY <1>1, <2>1
<1>4. ASSUME NEW i \in 1 .. n, i # 1
      PROVE  F[i] = F[i - 1] \o seqs[i]
  <2>1. /\ i * s \in Nat /\ (i - 1) * s \in Nat /\ (i - 1) * s <= i * s
    OBVIOUS
  <2>2. (i - 1) * s <= Len(D)
    <3>1. (i - 1) * s <= (n - 1) * s
      <4>1. \A j, k, t \in Nat : j <= k => j * t <= k * t
        OBVIOUS
      <4>2. i - 1 \in Nat /\ n - 1 \in Nat /\ i - 1 <= n - 1
        OBVIOUS
      <4> QED
        BY <4>1, <4>2
    <3>2. (n - 1) * s \in Int
      OBVIOUS
    <3> QED
      BY <1>1, <2>1, <3>1, <3>2
  <2>3. Slice(D, 0, (i - 1) * s) \o Slice(D, (i - 1) * s, i * s) = Slice(D, 0, i * s)
    BY <2>1, <2>2, SliceConcat
  <2>4. i - 1 \in 1 .. n
    BY <1>4
  <2> QED
    BY <2>3, <2>4
<1>5. F[n] = Slice(D, 0, n * s)
  BY <1>1
<1> HIDE DEF F
<1>6. FlattenSeq(seqs) = F[n]
  <2>1. Flattens(F, seqs, n)
    BY <1>3, <1>4 DEF Flattens
  <2> QED
    BY <1>2, <2>1, FlattenIs
<1>7. Slice(D, 0, n * s) = D
  <2>1. n * s \in Nat
    OBVIOUS
  <2> QED
    BY <2>1, SliceAll
<1> QED
  BY <1>5, <1>6, <1>7
-----------------------------------------------------------------------------
(* encode and decode *)

\* div_ceil.
LEMMA CeilFacts ==
  ASSUME NEW a \in Nat \ {0}, NEW s \in Nat \ {0}
  PROVE  /\ DivCeil(a, s) \in Nat \ {0}
         /\ (DivCeil(a, s) - 1) * s < a /\ a <= DivCeil(a, s) * s
  BY DEF DivCeil

\* Padding keeps what was there.
LEMMA ResizeFacts ==
  ASSUME NEW s \in Seq(Nat), NEW n \in Nat
  PROVE  /\ Resize(s, n) \in Seq(Nat) /\ Len(Resize(s, n)) = n
         /\ \A i \in 1 .. n : Resize(s, n)[i] = IF i <= Len(s) THEN s[i] ELSE 0
<1>1. \A i \in 1 .. n : (IF i <= Len(s) THEN s[i] ELSE 0) \in Nat
  OBVIOUS
<1>2. Resize(s, n) \in [1 .. n -> Nat]
  BY <1>1 DEF Resize
<1>3. \A i \in 1 .. n : Resize(s, n)[i] = IF i <= Len(s) THEN s[i] ELSE 0
  BY DEF Resize
<1> QED
  BY <1>2, <1>3

\* A data shard is a slice of the padded block.
LEMMA ShardIsSlice ==
  ASSUME NEW data \in Seq(Nat), NEW a \in Nat, NEW b \in Nat, NEW n \in Nat,
         a <= b, b <= n, Len(data) <= n
  PROVE  Resize(Slice(data, a, b), b - a) = Slice(Resize(data, n), a, b)
<1> DEFINE P == Resize(data, n)
           x == Slice(data, a, b)
           y == Resize(x, b - a)
           z == Slice(P, a, b)
<1>1. Len(data) \in Nat /\ b - a \in Nat
  OBVIOUS
<1>2. P \in Seq(Nat) /\ Len(P) = n /\ \A i \in 1 .. n : P[i] = IF i <= Len(data) THEN data[i] ELSE 0
  BY ResizeFacts
<1>3. /\ x \in Seq(Nat)
      /\ Len(x) = IF AtMost(b, Len(data)) >= a THEN AtMost(b, Len(data)) - a ELSE 0
      /\ \A i \in 1 .. Len(x) : x[i] = data[a + i]
  BY SliceFacts
<1> HIDE DEF x, P
<1>4. y \in Seq(Nat) /\ Len(y) = b - a
      /\ \A i \in 1 .. b - a : y[i] = IF i <= Len(x) THEN x[i] ELSE 0
  BY <1>1, <1>3, ResizeFacts
<1>5. z \in Seq(Nat) /\ Len(z) = b - a /\ \A i \in 1 .. b - a : z[i] = P[a + i]
  <2>1. AtMost(b, Len(P)) = b
    BY <1>2 DEF AtMost
  <2>2. P \in Seq(Nat)
    BY <1>2
  <2>3. /\ z \in Seq(Nat)
        /\ Len(z) = IF AtMost(b, Len(P)) >= a THEN AtMost(b, Len(P)) - a ELSE 0
        /\ \A i \in 1 .. Len(z) : z[i] = P[a + i]
    BY <2>2, SliceFacts
  <2>4. Len(z) = b - a
    BY <2>1, <2>3
  <2> QED
    BY <2>3, <2>4
<1> HIDE DEF y, z
<1>6. ASSUME NEW i \in 1 .. b - a PROVE y[i] = z[i]
  <2>1. i \in Nat /\ 1 <= i /\ i <= b - a /\ a + i \in 1 .. n
    BY <1>1
  <2>2. P[a + i] = IF a + i <= Len(data) THEN data[a + i] ELSE 0
    BY <1>2, <2>1
  <2>3. i <= Len(x) <=> a + i <= Len(data)
    BY <1>1, <1>3, <2>1 DEF AtMost
  <2>4. CASE a + i <= Len(data)
    <3>1. i \in 1 .. Len(x)
      BY <1>3, <2>1, <2>3, <2>4
    <3> QED
      BY <1>3, <1>4, <1>5, <2>1, <2>2, <2>3, <2>4, <3>1
  <2>5. CASE ~(a + i <= Len(data))
    BY <1>4, <1>5, <2>1, <2>2, <2>3, <2>5
  <2> QED
    BY <2>4, <2>5
<1>7. y = z
  BY <1>4, <1>5, <1>6, SeqEqual
<1> QED
  BY <1>7 DEF x, y, z, P

\* The padded block, which the data shards make up.
Padded(data, d) == Resize(data, d * DivCeil(Len(data), d))

\* encode: d data shards that make up the padded block, and parity shards of
\* each of which the same can be said.
LEMMA EncodeFacts ==
  ASSUME NEW data \in Seq(Nat), data # <<>>, NEW d \in Nat \ {0}, NEW p \in Nat \ {0}
  PROVE  /\ Len(Encode(data, d, p)) = d + p
         /\ \A seqs : /\ Len(seqs) = d
                      /\ \A i \in 1 .. d : seqs[i] = Encode(data, d, p)[i].bytes
                      => FlattenSeq(seqs) = Padded(data, d)
         /\ \A i \in d + 1 .. d + p : Encode(data, d, p)[i].bytes = Padded(data, d)
<1> DEFINE size == DivCeil(Len(data), d)
           P == Padded(data, d)
           shards == [i \in 1 .. d |-> [parity |-> 0,
                        bytes |-> Resize(Slice(data, (i - 1) * size, i * size), size)]]
           par == [j \in 1 .. p |-> Parity(shards, j)]
           e == Encode(data, d, p)
<1>1. Len(data) \in Nat \ {0}
  OBVIOUS
<1>2. size \in Nat \ {0} /\ (size - 1) * d < Len(data) /\ Len(data) <= size * d
  BY <1>1, CeilFacts
<1>3. e = shards \o par
  BY DEF Encode
<1> HIDE DEF size
<1>4. Len(data) <= d * size /\ d * size \in Nat /\ P = Resize(data, d * size)
  BY <1>1, <1>2 DEF Padded, size
<1>5. P \in Seq(Nat) /\ Len(P) = d * size
  BY <1>4, ResizeFacts
<1> HIDE DEF P, e
<1>6. ASSUME NEW i \in 1 .. d
      PROVE  shards[i].bytes = Slice(P, (i - 1) * size, i * size)
  <2>1. /\ (i - 1) * size \in Nat /\ i * size \in Nat /\ (i - 1) * size <= i * size
        /\ i * size - (i - 1) * size = size
    BY <1>2
  <2>2. i * size <= d * size
    <3>1. \A j, k, t \in Nat : j <= k => j * t <= k * t
      OBVIOUS
    <3> QED
      BY <1>2, <3>1
  <2>3. Resize(Slice(data, (i - 1) * size, i * size), i * size - (i - 1) * size)
            = Slice(Resize(data, d * size), (i - 1) * size, i * size)
    BY <1>4, <2>1, <2>2, ShardIsSlice
  <2>4. shards[i].bytes = Resize(Slice(data, (i - 1) * size, i * size), size)
    OBVIOUS
  <2> QED
    BY <1>4, <2>1, <2>3, <2>4
<1>7. Len(shards) = d /\ DOMAIN shards = 1 .. d /\ Len(par) = p
  OBVIOUS
<1>8. \A i \in 1 .. p : par[i] = Parity(shards, i)
  OBVIOUS
<1> DEFINE R == {shards[i] : i \in 1 .. d} \cup {par[j] : j \in 1 .. p}
<1>9. shards \in Seq(R) /\ par \in Seq(R)
  <2>1. shards = [i \in 1 .. d |-> shards[i]] /\ par = [j \in 1 .. p |-> par[j]]
    OBVIOUS
  <2> HIDE DEF shards, par
  <2>2. shards \in [1 .. d -> R] /\ par \in [1 .. p -> R]
    BY <2>1
  <2> HIDE DEF R
  <2> QED
    BY <2>2
<1> HIDE DEF shards, par, R
<1>10. /\ Len(e) = d + p /\ \A i \in 1 .. d : e[i] = shards[i]
       /\ \A i \in d + 1 .. d + p : e[i] = par[i - d]
  <2>1. /\ Len(shards \o par) = d + p
        /\ \A i \in 1 .. d + p : (shards \o par)[i] = IF i <= d THEN shards[i] ELSE par[i - d]
    BY <1>7, <1>9, ConcatProperties
  <2>2. \A i \in 1 .. d : i \in 1 .. d + p /\ i <= d
    OBVIOUS
  <2>3. \A i \in d + 1 .. d + p : i \in 1 .. d + p /\ ~(i <= d)
    OBVIOUS
  <2> QED
    BY <1>3, <2>1, <2>2, <2>3
<1>11. ASSUME NEW seqs, Len(seqs) = d, \A i \in 1 .. d : seqs[i] = shards[i].bytes
       PROVE  FlattenSeq(seqs) = P
  <2>1. (d - 1) * size <= Len(P) /\ Len(P) <= d * size
    <3>1. (d - 1) * size <= d * size /\ d * size <= d * size
      BY <1>2
    <3> QED
      BY <1>5, <3>1
  <2>2. \A i \in 1 .. d : seqs[i] = Slice(P, (i - 1) * size, i * size)
    BY <1>6, <1>11
  <2> QED
    BY <1>2, <1>5, <1>11, <2>1, <2>2, FlattenPieces
<1>12. ASSUME NEW j \in 1 .. p PROVE par[j].bytes = P
  <2>1. CASE d = 1
    <3>1. par[j] = shards[1]
      BY <1>7, <1>8, <2>1 DEF Parity
    <3>2. shards[1].bytes = Slice(P, 0, size)
      <4>1. (1 - 1) * size = 0 /\ 1 * size = size /\ 1 \in 1 .. d
        BY <1>2
      <4> QED
        BY <1>6, <4>1
    <3>3. Len(P) = size
      BY <1>2, <1>5, <2>1
    <3>4. Slice(P, 0, size) = P
      <4>1. Len(P) <= size /\ size \in Nat
        BY <1>2, <3>3
      <4> QED
        BY <1>5, <4>1, SliceAll
    <3> QED
      BY <3>1, <3>2, <3>4
  <2>2. CASE d # 1
    <3> DEFINE q == [i \in DOMAIN shards |-> shards[i].bytes]
    <3>1. par[j] = [parity |-> j, bytes |-> FlattenSeq(q)]
      BY <1>7, <1>8, <2>2 DEF Parity
    <3>2. Len(q) = d /\ \A i \in 1 .. d : q[i] = shards[i].bytes
      BY <1>7
    <3> HIDE DEF q
    <3> QED
      BY <1>11, <3>1, <3>2
  <2> QED
    BY <2>1, <2>2
<1>13. \A i \in d + 1 .. d + p : e[i].bytes = P
  <2>1. \A i \in d + 1 .. d + p : i - d \in 1 .. p
    OBVIOUS
  <2> QED
    BY <1>10, <1>12, <2>1
<1>14. ASSUME NEW seqs, Len(seqs) = d, \A i \in 1 .. d : seqs[i] = e[i].bytes
       PROVE  FlattenSeq(seqs) = P
  BY <1>10, <1>11, <1>14
<1> QED
  BY <1>10, <1>13, <1>14 DEF e, P
\* The shards that were fetched are those of data, some of them missing.
ShardsOf(shards, data, d, p) ==
  /\ Len(shards) = d + p
  /\ DOMAIN shards = 1 .. d + p
  /\ \A i \in 1 .. d + p : shards[i] \in {{}, {Encode(data, d, p)[i]}}

\* "Any data_shards out of the total can reconstruct the original data"
\* (decode): what is decoded is what was encoded, unless too few are left.
LEMMA DecodeIsExact ==
  ASSUME NEW data \in Seq(Nat), data # <<>>, NEW d \in Nat \ {0}, NEW p \in Nat \ {0},
         NEW shards, ShardsOf(shards, data, d, p), ~TooFew(shards, d)
  PROVE  Decode(shards, d, p, Len(data)) = [ok |-> TRUE, data |-> data]
<1> DEFINE P == Padded(data, d)
           e == Encode(data, d, p)
           S == Present(shards)
<1>0. /\ Len(e) = d + p
      /\ \A seqs : /\ Len(seqs) = d
                   /\ \A i \in 1 .. d : seqs[i] = e[i].bytes
                   => FlattenSeq(seqs) = P
      /\ \A i \in d + 1 .. d + p : e[i].bytes = P
  BY EncodeFacts
<1> HIDE DEF e
<1>1. /\ Len(shards) = d + p /\ S = {i \in 1 .. d + p : shards[i] # {}}
      /\ \A i \in 1 .. d + p : shards[i] \in {{}, {e[i]}}
  BY DEF ShardsOf, Present, e
<1>2. ASSUME NEW i \in S PROVE BytesOf(shards[i]) = e[i].bytes
  <2>1. shards[i] = {e[i]}
    BY <1>1
  <2>2. (CHOOSE x \in {e[i]} : TRUE) = e[i]
    OBVIOUS
  <2> QED
    BY <2>1, <2>2 DEF BytesOf
<1>3. IsFiniteSet(S) /\ Cardinality(S) \in Nat /\ Cardinality(S) >= d
  <2>1. IsFiniteSet(1 .. d + p)
    BY FS_Interval
  <2>2. IsFiniteSet(S) /\ Cardinality(S) \in Nat
    BY <1>1, <2>1, FS_Subset, FS_CardinalityType
  <2>3. ~(Cardinality(S) < d)
    BY DEF TooFew
  <2> HIDE DEF S
  <2> QED
    BY <2>2, <2>3
<1> HIDE DEF S, P
<1>4. Reconstruct(shards, d) = P
  <2>1. CASE 1 .. d \subseteq S
    <3> DEFINE q == [i \in 1 .. d |-> BytesOf(shards[i])]
    <3>1. Reconstruct(shards, d) = FlattenSeq(q)
      BY <2>1 DEF Reconstruct, S
    <3>2. Len(q) = d /\ \A i \in 1 .. d : q[i] = e[i].bytes
      BY <1>2, <2>1
    <3> HIDE DEF q
    <3> QED
      BY <1>0, <3>1, <3>2
  <2>2. CASE ~(1 .. d \subseteq S)
    <3>1. \E i \in S : i > d
      <4>1. SUFFICES ASSUME \A i \in S : ~(i > d) PROVE FALSE
        OBVIOUS
      <4>2. S \subseteq 1 .. d /\ S # 1 .. d
        BY <1>1, <2>2, <4>1
      <4>3. IsFiniteSet(1 .. d) /\ Cardinality(1 .. d) = d
        BY FS_Interval
      <4>4. Cardinality(S) < d
        <5>1. /\ Cardinality(S) <= Cardinality(1 .. d)
              /\ Cardinality(1 .. d) = Cardinality(S) => 1 .. d = S
          BY <4>2, <4>3, FS_Subset
        <5> QED
          BY <1>3, <4>2, <4>3, <5>1
      <4> QED
        BY <1>3, <4>4
    <3> DEFINE k == CHOOSE i \in S : i > d
    <3>2. k \in S /\ k > d
      BY <3>1
    <3>3. Reconstruct(shards, d) = BytesOf(shards[k])
      BY <2>2 DEF Reconstruct, S
    <3> HIDE DEF k
    <3>4. k \in d + 1 .. d + p
      BY <1>1, <3>2
    <3> QED
      BY <1>0, <1>2, <3>2, <3>3, <3>4
  <2> QED
    BY <2>1, <2>2
<1>5. Slice(P, 0, Len(data)) = data
  <2> DEFINE n == d * DivCeil(Len(data), d)
  <2>1. Len(data) \in Nat \ {0}
    OBVIOUS
  <2>2. n \in Nat /\ Len(data) <= n
    <3> DEFINE k == DivCeil(Len(data), d)
    <3>1. k \in Nat /\ Len(data) <= k * d
      BY <2>1, CeilFacts
    <3> HIDE DEF k
    <3>2. k * d = d * k /\ d * k \in Nat
      BY <3>1
    <3> QED
      BY <3>1, <3>2 DEF k
  <2>3. P = Resize(data, n)
    BY DEF P, Padded
  <2> HIDE DEF n
  <2>4. /\ P \in Seq(Nat) /\ Len(P) = n
        /\ \A i \in 1 .. n : P[i] = IF i <= Len(data) THEN data[i] ELSE 0
    BY <2>2, <2>3, ResizeFacts
  <2>5. P \in Seq(Nat) /\ AtMost(Len(data), Len(P)) = Len(data)
    BY <2>1, <2>2, <2>4 DEF AtMost
  <2> DEFINE z == Slice(P, 0, Len(data))
  <2>6. /\ z \in Seq(Nat)
        /\ Len(z) = IF AtMost(Len(data), Len(P)) >= 0 THEN AtMost(Len(data), Len(P)) - 0 ELSE 0
        /\ \A i \in 1 .. Len(z) : z[i] = P[0 + i]
    BY <2>1, <2>5, SliceFacts
  <2> HIDE DEF z
  <2>7. Len(z) = Len(data)
    BY <2>1, <2>5, <2>6
  <2>8. ASSUME NEW i \in 1 .. Len(data) PROVE z[i] = data[i]
    <3>1. 0 + i = i /\ i \in 1 .. n /\ i <= Len(data)
      BY <2>1, <2>2
    <3> QED
      BY <2>4, <2>6, <2>7, <3>1
  <2>9. z = data
    BY <2>6, <2>7, <2>8, SeqEqual
  <2> QED
    BY <2>9 DEF z
<1>6. Decode(shards, d, p, Len(data))
        = [ok |-> TRUE, data |-> Slice(Reconstruct(shards, d), 0, Len(data))]
  BY <1>1 DEF Decode
<1> QED
  BY <1>4, <1>5, <1>6
-----------------------------------------------------------------------------
(* The blocks *)

\* Block b of n is as long as decode_blocks takes it to be, and not empty.
LEMMA BlockFacts ==
  ASSUME NEW data \in Seq(Nat), data # <<>>, NEW size \in Nat \ {0},
         NEW b \in 1 .. NumBlocks(data, size)
  PROVE  /\ Block(data, size, b) \in Seq(Nat) /\ Block(data, size, b) # <<>>
         /\ Len(Block(data, size, b)) = BlockLen(b, NumBlocks(data, size), size, Len(data))
<1> DEFINE n == NumBlocks(data, size)
           x == (b - 1) * size
           y == b * size
           z == Block(data, size, b)
<1>1. Len(data) \in Nat \ {0}
  OBVIOUS
<1>2. n \in Nat \ {0} /\ (n - 1) * size < Len(data) /\ Len(data) <= n * size
  BY <1>1, CeilFacts DEF NumBlocks
<1>3. b \in 1 .. n
  OBVIOUS
<1> HIDE DEF n
<1>4. x \in Nat /\ y \in Nat /\ y = x + size /\ (b - 1) * size = x /\ b * size = y
  BY <1>2, <1>3
<1>5. (b = n => x = (n - 1) * size /\ y = n * size) /\ (b # n => y <= (n - 1) * size)
  <2>1. \A j, k, t \in Nat : j <= k => j * t <= k * t
    OBVIOUS
  <2>2. b # n => b <= n - 1 /\ n - 1 \in Nat
    BY <1>2, <1>3
  <2> QED
    BY <1>2, <1>3, <2>1, <2>2
<1>6. z = Slice(data, x, y)
  BY DEF Block
<1> HIDE DEF x, y
<1>7. /\ z \in Seq(Nat)
      /\ Len(z) = IF AtMost(y, Len(data)) >= x THEN AtMost(y, Len(data)) - x ELSE 0
  BY <1>4, <1>6, SliceFacts
<1> HIDE DEF z
<1>8. (n - 1) * size \in Int /\ n * size \in Int
  BY <1>2
<1>9. Len(z) = IF b = n THEN Len(data) - (n - 1) * size ELSE size
  BY <1>1, <1>2, <1>4, <1>5, <1>7, <1>8 DEF AtMost
<1>10. Len(z) > 0
  BY <1>1, <1>2, <1>8, <1>9
<1> QED
  BY <1>7, <1>9, <1>10 DEF z, n, BlockLen

\* The shards of all blocks that were fetched, some of them missing.
FetchedOf(shards, data, d, p, size) ==
  /\ Len(shards) = NumBlocks(data, size) * (d + p)
  /\ \A b \in 1 .. NumBlocks(data, size), i \in 1 .. d + p :
       shards[(b - 1) * (d + p) + i] \in {{}, {Encode(Block(data, size, b), d, p)[i]}}

\* Those of block b are there.
Left(shards, b, t) == {i \in 1 .. t : shards[(b - 1) * t + i] # {}}

\* decode_blocks gives back the data that went into encode_blocks, or an error,
\* and an error only when fewer than d shards of some block are left: for every
\* data, also when the last block is short and shards are padded.
THEOREM DecodeBlocksIsExact ==
  ASSUME NEW data \in Seq(Nat), data # <<>>, NEW d \in Nat \ {0}, NEW p \in Nat \ {0},
         NEW size \in Nat \ {0}, NEW V, NEW shards \in Seq(V),
         FetchedOf(shards, data, d, p, size)
  PROVE  LET r == DecodeBlocks(shards, d, p, size, Len(data)) IN
         /\ r.ok => r.data = data
         /\ ~r.ok => \E b \in 1 .. NumBlocks(data, size) :
                        Cardinality(Left(shards, b, d + p)) < d
<1> DEFINE n == NumBlocks(data, size)
           t == d + p
           len == Len(data)
           part(b) == Slice(shards, (b - 1) * t, b * t)
           decoded == [b \in 1 .. n |-> Decode(part(b), d, p, BlockLen(b, n, size, len))]
<1>1. len \in Nat \ {0} /\ t \in Nat \ {0}
  OBVIOUS
<1>2. n \in Nat \ {0} /\ (n - 1) * size < len /\ len <= n * size
  BY <1>1, CeilFacts DEF NumBlocks
<1>3. Len(shards) = n * t
  BY DEF FetchedOf
<1>4. \A b \in 1 .. n, i \in 1 .. t :
        shards[(b - 1) * t + i] \in {{}, {Encode(Block(data, size, b), d, p)[i]}}
  BY DEF FetchedOf
<1>5. ASSUME NEW b \in 1 .. n
      PROVE  /\ ShardsOf(part(b), Block(data, size, b), d, p)
             /\ Present(part(b)) = Left(shards, b, t)
  <2> DEFINE x == (b - 1) * t
             y == b * t
             z == Slice(shards, x, y)
  <2>1. x \in Nat /\ y \in Nat /\ y = x + t /\ y <= n * t
    <3>1. \A j, k, m \in Nat : j <= k => j * m <= k * m
      OBVIOUS
    <3> HIDE DEF n, t
    <3> QED
      BY <1>1, <1>2, <3>1
  <2>2. z = part(b) /\ x = (b - 1) * t
    OBVIOUS
  <2> HIDE DEF x, y, n, t
  <2>3. AtMost(y, Len(shards)) = y
    BY <1>3, <2>1 DEF AtMost
  <2>4. /\ z \in Seq(V)
        /\ Len(z) = IF AtMost(y, Len(shards)) >= x THEN AtMost(y, Len(shards)) - x ELSE 0
        /\ \A i \in 1 .. Len(z) : z[i] = shards[x + i]
    <3>1. shards \in Seq(V) /\ x \in Nat /\ y \in Nat
      BY <2>1
    <3> QED
      BY <3>1, SliceFacts
  <2> HIDE DEF z, part
  <2>5. Len(z) = t /\ DOMAIN z = 1 .. t /\ \A i \in 1 .. t : z[i] = shards[x + i]
    BY <1>1, <2>1, <2>3, <2>4
  <2>6. \A i \in 1 .. t : z[i] \in {{}, {Encode(Block(data, size, b), d, p)[i]}}
    BY <1>4, <2>2, <2>5
  <2>7. ShardsOf(z, Block(data, size, b), d, p)
    BY <2>5, <2>6 DEF ShardsOf, t
  <2>8. Present(z) = Left(shards, b, t)
    BY <2>2, <2>5 DEF Present, Left
  <2> QED
    BY <2>2, <2>7, <2>8
<1>6. DivCeil(Len(shards), t) = n
  <2> HIDE DEF n, t
  <2>1. (n * t + t - 1) \div t = n
    <3>1. \A a, s \in Nat \ {0} : (a * s + s - 1) \div s = a
      OBVIOUS
    <3> QED
      BY <1>1, <1>2, <3>1
  <2> QED
    BY <1>3, <2>1 DEF DivCeil
<1>7. ASSUME NEW b \in 1 .. n
      PROVE  \/ decoded[b] = Fail /\ Cardinality(Left(shards, b, t)) < d
             \/ decoded[b] = [ok |-> TRUE, data |-> Block(data, size, b)]
  <2>1. /\ Block(data, size, b) \in Seq(Nat) /\ Block(data, size, b) # <<>>
        /\ Len(Block(data, size, b)) = BlockLen(b, n, size, len)
    BY BlockFacts
  <2>2. decoded[b] = Decode(part(b), d, p, Len(Block(data, size, b)))
    BY <2>1
  <2>3. /\ ShardsOf(part(b), Block(data, size, b), d, p)
        /\ Present(part(b)) = Left(shards, b, t)
    BY <1>5
  <2> DEFINE x == Block(data, size, b)
             w == part(b)
  <2> HIDE DEF decoded, part, n, len, x, w
  <2>4. CASE TooFew(w, d)
    <3>1. decoded[b] = Fail
      BY <2>2, <2>4 DEF Decode, x, w
    <3> QED
      BY <2>3, <2>4, <3>1 DEF TooFew, w
  <2>5. CASE ~TooFew(w, d)
    <3>1. x \in Seq(Nat) /\ x # <<>> /\ ShardsOf(w, x, d, p)
      BY <2>1, <2>3 DEF x, w
    <3>2. Decode(w, d, p, Len(x)) = [ok |-> TRUE, data |-> x]
      BY <2>5, <3>1, DecodeIsExact
    <3> QED
      BY <2>2, <3>2 DEF x, w
  <2> QED
    BY <2>4, <2>5
<1> DEFINE r == DecodeBlocks(shards, d, p, size, len)
<1>8. r = IF \E b \in 1 .. n : ~decoded[b].ok THEN Fail
          ELSE [ok |-> TRUE, data |-> FlattenSeq([b \in 1 .. n |-> decoded[b].data])]
  BY <1>6 DEF DecodeBlocks
<1> HIDE DEF decoded, r, n, t, len
<1>9. CASE \E b \in 1 .. n : ~decoded[b].ok
  <2>1. r = Fail /\ ~r.ok
    BY <1>8, <1>9 DEF Fail
  <2>2. \E b \in 1 .. n : Cardinality(Left(shards, b, t)) < d
    <3>1. PICK b \in 1 .. n : ~decoded[b].ok
      BY <1>9
    <3>2. decoded[b] # [ok |-> TRUE, data |-> Block(data, size, b)]
      BY <3>1
    <3> QED
      BY <1>7, <3>2
  <2> QED
    BY <2>1, <2>2 DEF r, n, t, len
<1>10. CASE \A b \in 1 .. n : decoded[b].ok
  <2> DEFINE q == [b \in 1 .. n |-> decoded[b].data]
  <2>1. r = [ok |-> TRUE, data |-> FlattenSeq(q)]
    BY <1>8, <1>10
  <2>2. \A b \in 1 .. n : decoded[b] = [ok |-> TRUE, data |-> Block(data, size, b)]
    BY <1>7, <1>10 DEF Fail
  <2>3. Len(q) = n /\ \A b \in 1 .. n : q[b] = Slice(data, (b - 1) * size, b * size)
    <3>1. Len(q) = n
      BY <1>2
    <3>2. ASSUME NEW b \in 1 .. n PROVE q[b] = Slice(data, (b - 1) * size, b * size)
      <4>1. q[b] = decoded[b].data
        OBVIOUS
      <4>2. decoded[b].data = Block(data, size, b)
        <5>1. decoded[b] = [ok |-> TRUE, data |-> Block(data, size, b)]
          BY <2>2
        <5> QED
          BY <5>1
      <4> QED
        BY <4>1, <4>2 DEF Block
    <3> QED
      BY <3>1, <3>2
  <2> HIDE DEF q
  <2>4. (n - 1) * size <= Len(data) /\ Len(data) <= n * size
    <3>1. (n - 1) * size \in Int
      BY <1>2
    <3> QED
      BY <1>1, <1>2, <3>1 DEF len
  <2>5. FlattenSeq(q) = data
    BY <1>2, <2>3, <2>4, FlattenPieces
  <2>6. r.ok /\ r.data = data
    BY <2>1, <2>5
  <2> QED
    BY <2>6 DEF r, n, t, len
<1> QED
  BY <1>9, <1>10
-----------------------------------------------------------------------------
(* The store *)

Kept(b, i) == Shard(b, i) \in disk[Storer]

\* The manifest is on its way or has arrived only after the store has ended.
Inv ==
    /\ job \in Jobs
    /\ taken \in Nat /\ putting \in 0 .. Total + 1
    /\ DOMAIN disk = Node
    /\ \A b \in 1 .. taken, i \in 1 .. Total : Kept(b, i)
    /\ \A i \in 1 .. Total : i < putting => Kept(taken + 1, i)
    /\ pc \in {"join", "manifest", "ok"} => taken = Blocks
    /\ pc \in {"manifest", "ok"} => queued = {} /\ flying = {}
    /\ mani # {} \/ sending # {} => pc = "ok"

\* The parameters of a job are positive (ErasureConfig::new).
LEMMA TotalType == ASSUME job \in Jobs PROVE Total \in Nat \ {0}
  BY TesseraAssumption DEF Total

\* What a job consists of does not change while the job does not.
LEMMA SameJob ==
  ASSUME job' = job
  PROVE  Total' = Total /\ Blocks' = Blocks /\ \A b, i : Shard(b, i)' = Shard(b, i)
  BY DEF Total, Blocks, Shard

\* Nothing is stored yet.
LEMMA InitInv == Init => Inv
<1> SUFFICES ASSUME Init PROVE Inv
  OBVIOUS
<1>1. Total \in Nat \ {0}
  BY TotalType DEF Init
<1> QED
  BY <1>1 DEF Init, Inv

\* Chunks are only ever added to a disk.
LEMMA DiskGrows ==
  ASSUME Inv, [Next]_vars
  PROVE  DOMAIN disk' = Node /\ \A n \in Node : disk[n] \subseteq disk'[n]
<1>1. CASE UNCHANGED disk
  BY <1>1 DEF Inv
<1>2. CASE PutLocally
  BY <1>2 DEF PutLocally, Inv
<1>3. CASE \E ts : disk' = Stored(ts)
  BY <1>3 DEF Stored, Puts
<1>4. CASE Fetch
  BY <1>4 DEF Fetch, Inv
<1> QED
  BY <1>1, <1>2, <1>3, <1>4
  DEF Next, Store, Retrieve, vars, EncodeBlock, Receive, Distribute, AwaitEncoder, JoinAll,
      JoinTimeout, PutManifest, Send, TaskEnds, StrayArrives, SendManifest, ReadManifest,
      DecodeFetched, RetrieveTimeout, Crash

\* What a step that leaves taken and putting alone has to keep.
LEMMA KeptStays ==
  ASSUME Inv, [Next]_vars, job' = job, taken' = taken, putting' = putting
  PROVE  /\ job' \in Jobs /\ taken' \in Nat /\ (putting \in 0 .. Total + 1)'
         /\ DOMAIN disk' = Node
         /\ (\A b \in 1 .. taken, i \in 1 .. Total : Kept(b, i))'
         /\ (\A i \in 1 .. Total : i < putting => Kept(taken + 1, i))'
<1>1. Storer \in Node
  BY TesseraAssumption
<1>2. DOMAIN disk' = Node /\ disk[Storer] \subseteq disk'[Storer]
  BY <1>1, DiskGrows
<1>3. Total' = Total /\ \A b, i : Shard(b, i)' = Shard(b, i)
  BY SameJob
<1> QED
  BY <1>2, <1>3 DEF Inv, Kept

\* Every step of the store, of a reader and every crash keeps it.
LEMMA NextInv == Inv /\ [Next]_vars => Inv'
<1> SUFFICES ASSUME Inv, [Next]_vars PROVE Inv'
  OBVIOUS
<1> USE DEF Inv
<1>0. /\ Storer \in Node /\ Total \in Nat \ {0}
      /\ DOMAIN disk' = Node /\ disk[Storer] \subseteq disk'[Storer]
  BY TesseraAssumption, TotalType, DiskGrows
<1>1. CASE EncodeBlock
  BY <1>1, KeptStays, SameJob DEF EncodeBlock
<1>2. CASE Receive
  <2>1. Total' = Total /\ Blocks' = Blocks /\ \A b, i : Shard(b, i)' = Shard(b, i)
    BY <1>2, SameJob DEF Receive
  <2> QED
    BY <1>0, <1>2, <2>1 DEF Receive, Kept
<1>3. CASE PutLocally
  <2>1. Total' = Total /\ Blocks' = Blocks /\ \A b, i : Shard(b, i)' = Shard(b, i)
    BY <1>3, SameJob DEF PutLocally
  <2>2. CASE PutFails /\ UNCHANGED disk
    BY <1>0, <1>3, <2>1, <2>2 DEF PutLocally, PutFails, Kept
  <2>3. CASE /\ disk' = [disk EXCEPT ![Storer] = @ \cup {Shard(taken + 1, putting)}]
             /\ putting' = putting + 1
             /\ UNCHANGED pc
    <3>1. Shard(taken + 1, putting) \in disk'[Storer]
      BY <1>0, <2>3
    <3>2. \A i \in 1 .. Total : i < putting + 1 => i < putting \/ i = putting
      BY <1>0
    <3> QED
      BY <1>0, <1>3, <2>1, <2>3, <3>1, <3>2 DEF PutLocally, Kept
  <2> QED
    BY <1>3, <2>2, <2>3 DEF PutLocally
<1>4. CASE Distribute
  <2>1. Total' = Total /\ Blocks' = Blocks /\ \A b, i : Shard(b, i)' = Shard(b, i)
    BY <1>4, SameJob DEF Distribute
  <2>2. \A b \in 1 .. taken + 1 : b \in 1 .. taken \/ b = taken + 1
    OBVIOUS
  <2> QED
    BY <1>0, <1>4, <2>1, <2>2 DEF Distribute, Kept
<1>5. CASE AwaitEncoder
  BY <1>5, KeptStays, SameJob DEF AwaitEncoder
<1>6. CASE JoinAll
  BY <1>6, KeptStays, SameJob DEF JoinAll, JoinTimeout
<1>7. CASE PutManifest
  BY <1>7, KeptStays, SameJob DEF PutManifest
<1>8. CASE \E t \in queued : Send(t)
  BY <1>8, KeptStays, SameJob DEF Send
<1>9. CASE \E t \in flying : TaskEnds(t)
  BY <1>9, KeptStays, SameJob DEF TaskEnds
<1>10. CASE \E n \in Peer : SendManifest(n)
  BY <1>10, KeptStays, SameJob DEF SendManifest
<1>11. CASE Retrieve
  BY <1>11, KeptStays, SameJob
  DEF Retrieve, ReadManifest, Fetch, DecodeFetched, RetrieveTimeout, storeVars
<1>12. CASE \E n \in Node : Crash(n)
  BY <1>12, KeptStays, SameJob DEF Crash
<1>13. CASE UNCHANGED vars
  BY <1>13, KeptStays, SameJob DEF vars
<1>14. CASE \E t \in stray : StrayArrives(t)
  BY <1>14, KeptStays, SameJob DEF StrayArrives
<1> QED
  BY <1>1, <1>2, <1>3, <1>4, <1>5, <1>6, <1>7, <1>8, <1>9, <1>10, <1>11, <1>12, <1>13,
     <1>14
  DEF Next, Store

\* As soon as the manifest is anywhere, do_store_tessera has kept every chunk
\* it names and ended or aborted every call of the distribution.
THEOREM ManifestComesLast == Spec => []ManifestLast
<1>1. Inv => ManifestLast
  BY DEF Inv, ManifestLast, Kept
<1> QED
  BY <1>1, InitInv, NextInv, PTL DEF Spec
-----------------------------------------------------------------------------
(* The retrieval *)

\* Nobody who is asked has chunk c.
Unheard(c) ==
  /\ c \notin disk[Reader]
  /\ \A x \in Answers(c) : ~Accepts(c, x)

\* It cannot be had, or it came when the reader was already at work.
Gone(c) == Unheard(c) \/ c \in late

\* What the reader has fetched is what the manifest names, or nothing; and
\* nothing, unless an answer was missed, only when the chunk was gone.
FetchInv ==
  /\ read = [st |-> read.st, shards |-> read.shards, got |-> read.got, misses |-> read.misses]
  /\ read.misses \in Nat
  /\ read.shards \in Seq(SUBSET {Hashes[k] : k \in 1 .. Len(Hashes)})
  /\ Len(read.shards) <= Len(Hashes)
  /\ \A k \in 1 .. Len(read.shards) : read.shards[k] \in {{}, {Hashes[k]}}
  /\ read.misses = 0 =>
       \A k \in 1 .. Len(read.shards) : read.shards[k] = {} => Gone(Hashes[k])
  /\ read.st = "none" => read.shards = <<>>

\* The store has ended before anybody reads, its node is the first to have the
\* manifest, and without it the manifest spreads no further.
StoreEnded ==
  /\ read.st # "none" => pc = "ok"
  /\ pc = "ok" => Storer \in mani
  /\ pc \in {"join", "manifest", "ok"} => job.data # <<>>
  /\ enc \in Nat /\ (job.data = <<>> => enc = 0)
  /\ Storer \notin up => sending = {} /\ pc \notin {"run", "join", "manifest"}
  /\ up \subseteq Node

\* How a retrieval ends.
OutcomeInv ==
  /\ read.st = "ok" => read.got = job.data
  /\ read.st = "failed" /\ read.misses = 0 =>
       \/ mani \cap up = {}
       \/ /\ Len(read.shards) = Len(Hashes)
          /\ \E b \in 1 .. Blocks : Cardinality(Left(read.shards, b, Total)) < job.d

\* The inductive invariant.
ReadInv == Inv /\ FetchInv /\ StoreEnded /\ OutcomeInv

\* The chunks of a manifest, block after block.
LEMMA HashesFacts ==
  ASSUME job \in Jobs
  PROVE  /\ Blocks \in Nat \ {0} /\ Total \in Nat \ {0}
         /\ Len(Hashes) = Blocks * Total /\ Blocks * Total \in Nat
         /\ \A b \in 1 .. Blocks, i \in 1 .. Total :
              /\ (b - 1) * Total + i \in 1 .. Len(Hashes)
              /\ Hashes[(b - 1) * Total + i] = Shard(b, i)
<1>1. Total \in Nat \ {0}
  BY TotalType
<1>2. job.data \in Seq(Nat) /\ BlockSize \in Nat \ {0}
  BY TesseraAssumption
<1>3. Blocks \in Nat \ {0}
  <2>1. job.data # <<>> => Len(job.data) \in Nat \ {0}
    BY <1>2
  <2>2. CASE job.data = <<>>
    BY <2>2 DEF Blocks, NumBlocks
  <2>3. CASE job.data # <<>>
    <3> DEFINE l == Len(job.data)
    <3>1. l \in Nat \ {0}
      BY <2>1, <2>3
    <3>2. Blocks = DivCeil(l, BlockSize)
      BY <2>3 DEF Blocks, NumBlocks
    <3> HIDE DEF l
    <3>3. DivCeil(l, BlockSize) \in Nat \ {0}
      BY <1>2, <3>1, CeilFacts
    <3> QED
      BY <3>2, <3>3
  <2> QED
    BY <2>2, <2>3
<1>4. Blocks * Total \in Nat
  BY <1>1, <1>3
<1> DEFINE B == Blocks
           T == Total
<1> HIDE DEF B, T
<1>5. B \in Nat \ {0} /\ T \in Nat \ {0} /\ B * T \in Nat
  BY <1>1, <1>3, <1>4 DEF B, T
<1>6. Hashes = [n \in 1 .. B * T |-> Shard(((n - 1) \div T) + 1, ((n - 1) % T) + 1)]
  BY DEF Hashes, B, T
<1>7. Len(Hashes) = B * T
  BY <1>5, <1>6
<1>8. ASSUME NEW b \in 1 .. B, NEW i \in 1 .. T
      PROVE  /\ (b - 1) * T + i \in 1 .. B * T
             /\ Hashes[(b - 1) * T + i] = Shard(b, i)
  <2> DEFINE n == (b - 1) * T + i
  <2>1. n \in 1 .. B * T
    <3>1. \A j, k, t \in Nat : j <= k => j * t <= k * t
      OBVIOUS
    <3>2. (b - 1) * T + T = b * T /\ b * T <= B * T /\ (b - 1) * T \in Nat /\ b * T \in Nat
      BY <1>5, <3>1
    <3> QED
      BY <1>5, <3>2
  <2>2. (n - 1) \div T = b - 1 /\ (n - 1) % T = i - 1
    <3>1. \A q, s, t \in Nat : s < t => (q * t + s) \div t = q /\ (q * t + s) % t = s
      OBVIOUS
    <3>2. n - 1 = (b - 1) * T + (i - 1) /\ b - 1 \in Nat /\ i - 1 \in Nat /\ i - 1 < T
      BY <1>5
    <3> DEFINE q == b - 1
               s == i - 1
               m == n - 1
    <3>3. m = q * T + s /\ q \in Nat /\ s \in Nat /\ s < T
      BY <3>2
    <3>4. m \div T = q /\ m % T = s
      <4> HIDE DEF q, s, m, n
      <4>1. (q * T + s) \div T = q /\ (q * T + s) % T = s
        BY <1>5, <3>1, <3>3
      <4> QED
        BY <3>3, <4>1
    <3> QED
      BY <3>4
  <2> HIDE DEF n
  <2>3. Hashes[n] = Shard(((n - 1) \div T) + 1, ((n - 1) % T) + 1)
    BY <1>6, <2>1
  <2>4. ((n - 1) \div T) + 1 = b /\ ((n - 1) % T) + 1 = i
    BY <2>2
  <2>5. Hashes[n] = Shard(b, i)
    BY <2>3, <2>4
  <2> QED
    BY <2>1, <2>5 DEF n
<1> QED
  BY <1>5, <1>7, <1>8 DEF B, T
\* The manifest's chunks do not change while the job does not.
LEMMA SameHashes == ASSUME job' = job PROVE Hashes' = Hashes
  BY DEF Hashes, Total, Blocks, Shard

\* Nothing can be encoded of empty data.
LEMMA EmptyBlock ==
  ASSUME job.data = <<>>, NEW b \in Nat \ {0}, BlockSize \in Nat \ {0}
  PROVE  ~Encodable(Block(job.data, BlockSize, b))
<1> DEFINE x == (b - 1) * BlockSize
           y == b * BlockSize
           none == job.data
<1>1. x \in Nat /\ y \in Nat
  OBVIOUS
<1>2. none \in Seq(Nat) /\ Len(none) = 0
  OBVIOUS
<1>3. Block(job.data, BlockSize, b) = Slice(none, x, y)
  BY DEF Block
<1> HIDE DEF x, y, none
<1>4. AtMost(y, Len(none)) = 0
  BY <1>1, <1>2 DEF AtMost
<1>5. /\ Slice(none, x, y) \in Seq(Nat)
      /\ Len(Slice(none, x, y)) = IF AtMost(y, Len(none)) >= x
                                  THEN AtMost(y, Len(none)) - x ELSE 0
  BY <1>1, <1>2, SliceFacts
<1>6. Len(Slice(none, x, y)) = 0
  BY <1>1, <1>4, <1>5
<1> QED
  BY <1>3, <1>5, <1>6 DEF Encodable

\* Nothing is read yet.
LEMMA InitReadInv == Init => ReadInv
<1> SUFFICES ASSUME Init PROVE ReadInv
  OBVIOUS
<1>1. Inv
  BY InitInv
<1>2. job \in Jobs
  BY DEF Init
<1>3. Len(Hashes) = Blocks * Total /\ Blocks * Total \in Nat
  BY <1>2, HashesFacts
<1>4. FetchInv
  BY <1>3 DEF Init, FetchInv
<1>5. StoreEnded
  BY TesseraAssumption DEF Init, StoreEnded
<1>6. OutcomeInv
  BY DEF Init, OutcomeInv
<1> QED
  BY <1>1, <1>4, <1>5, <1>6 DEF ReadInv

\* Step by step: what is known of a store that has ended stays true.
LEMMA NextStoreEnded == ReadInv /\ [Next]_vars => StoreEnded'
<1> SUFFICES ASSUME ReadInv, [Next]_vars PROVE StoreEnded'
  OBVIOUS
<1> USE DEF StoreEnded
<1>0. /\ Inv /\ StoreEnded /\ FetchInv
      /\ BlockSize \in Nat \ {0} /\ job \in Jobs
      /\ Blocks \in Nat \ {0} /\ Storer \in Node
  BY TesseraAssumption, HashesFacts DEF ReadInv, Inv
<1>1. CASE EncodeBlock
  <2>1. enc + 1 \in Nat \ {0}
    BY <1>0
  <2>2. job.data # <<>>
    BY <1>0, <1>1, <2>1, EmptyBlock DEF EncodeBlock
  <2> QED
    BY <1>0, <1>1, <2>1, <2>2 DEF EncodeBlock
<1>2. CASE Receive
  BY <1>0, <1>2 DEF Receive
<1>3. CASE PutLocally
  BY <1>0, <1>3 DEF PutLocally, PutFails
<1>4. CASE Distribute
  BY <1>0, <1>4 DEF Distribute
<1>5. CASE AwaitEncoder
  BY <1>0, <1>5 DEF AwaitEncoder
<1>6. CASE JoinAll
  BY <1>0, <1>6 DEF JoinAll, JoinTimeout
<1>7. CASE PutManifest
  BY <1>0, <1>7 DEF PutManifest
<1>8. CASE \E t \in queued : Send(t)
  BY <1>0, <1>8 DEF Send
<1>9. CASE \E t \in flying : TaskEnds(t)
  BY <1>0, <1>9 DEF TaskEnds
<1>10. CASE \E n \in Peer : SendManifest(n)
  BY <1>0, <1>10 DEF SendManifest
<1>11. CASE ReadManifest
  BY <1>0, <1>11 DEF ReadManifest, storeVars
<1>12. CASE Fetch
  <2>1. read.st = "fetch" /\ UNCHANGED <<storeVars, mani, up>>
    BY <1>12 DEF Fetch
  <2> QED
    BY <1>0, <2>1 DEF storeVars
<1>13. CASE DecodeFetched
  <2>1. read.st = "fetch" /\ UNCHANGED <<storeVars, mani, up>>
    BY <1>13 DEF DecodeFetched
  <2> QED
    BY <1>0, <2>1 DEF storeVars
<1>14. CASE RetrieveTimeout
  BY <1>0, <1>14 DEF RetrieveTimeout, storeVars
<1>15. CASE \E n \in Node : Crash(n)
  BY <1>0, <1>15 DEF Crash
<1>16. CASE UNCHANGED vars
  BY <1>0, <1>16 DEF vars
<1>17. CASE \E t \in stray : StrayArrives(t)
  BY <1>0, <1>17 DEF StrayArrives
<1> QED
  BY <1>1, <1>2, <1>3, <1>4, <1>5, <1>6, <1>7, <1>8, <1>9, <1>10, <1>11, <1>12, <1>13,
     <1>14, <1>15, <1>16, <1>17
  DEF Next, Store, Retrieve
\* Whoever disappears has nothing more to answer.
LEMMA UnheardStays ==
  ASSUME disk' = disk, up' \subseteq up, NEW c, Unheard(c)
  PROVE  Unheard(c)'
  BY DEF Unheard, Answers, Accepts

\* A chunk that somebody has who answers is not unheard of.
LEMMA HeardIsNotUnheard == ASSUME NEW c, Heard(c) PROVE ~Unheard(c)
<1>1. PICK n \in (up \ Liar) \cup {Reader} : c \in disk[n]
  BY DEF Heard
<1>2. CASE n = Reader
  BY <1>1, <1>2 DEF Unheard
<1>3. CASE n # Reader
  <2>1. c \in Answers(c)
    BY <1>1, <1>3 DEF Answers
  <2> QED
    BY <2>1 DEF Unheard, Accepts
<1> QED
  BY <1>2, <1>3

\* A request that arrives after its call was aborted brings one chunk; if nobody
\* had that, the reader may have looked for it already.
LEMMA StrayKeepsGone ==
  ASSUME StoreEnded, read.st # "none", NEW t \in stray, StrayArrives(t), NEW c, Gone(c)
  PROVE  Gone(c)'
<1> DEFINE s == Shard(t.block, t.chunk)
<1>0. /\ up' = up /\ up \subseteq Node /\ Reader \in Node
      /\ late \subseteq late' /\ (Heard(s) \/ s \in late')
      /\ disk' = Stored({t})
  BY TesseraAssumption DEF StrayArrives, StoreEnded
<1>1. CASE c \in late
  BY <1>0, <1>1 DEF Gone
<1>2. CASE Unheard(c) /\ c = s
  BY <1>0, <1>2, HeardIsNotUnheard DEF Gone
<1>3. CASE Unheard(c) /\ c # s
  <2>1. \A n \in Node : c \in disk'[n] => c \in disk[n]
    BY <1>0, <1>3 DEF Stored, Puts
  <2> HIDE DEF s
  <2>2. c \notin disk'[Reader] /\ Answers(c)' \subseteq Answers(c)
    BY <1>0, <1>3, <2>1 DEF Unheard, Answers, Garbage
  <2> QED
    BY <1>3, <2>2 DEF Gone, Unheard, Accepts
<1> QED
  BY <1>1, <1>2, <1>3 DEF Gone

\* The steps of the store, and crashes, change nothing a reader relies on: what
\* was gone stays so, and so does a manifest that is out of reach.
Undisturbed ==
  /\ job' = job /\ read' = read
  /\ read.st # "none" => /\ \A c : Gone(c) => Gone(c)'
                         /\ mani \cap up = {} => mani' \cap up' = {}

\* A store whose token is out has only stray requests left.
LEMMA StoreUndisturbing ==
  ASSUME ReadInv, Store \/ (\E n \in Node : Crash(n)) \/ UNCHANGED vars
  PROVE  Undisturbed
<1>0. /\ read.st # "none" => pc = "ok" /\ queued = {} /\ flying = {} /\ Storer \in mani
      /\ Storer \notin up => sending = {}
      /\ StoreEnded
  BY DEF ReadInv, Inv, StoreEnded
<1>1. ASSUME job' = job, read' = read, up' \subseteq up,
             read.st # "none" => /\ disk' = disk /\ late' = late
                                 /\ mani \cap up = {} => mani' \cap up' = {}
      PROVE  Undisturbed
  BY <1>1, UnheardStays DEF Undisturbed, Gone
<1>2. CASE EncodeBlock \/ Receive \/ PutLocally \/ Distribute \/ AwaitEncoder \/ JoinAll
           \/ PutManifest
  BY <1>0, <1>1, <1>2
  DEF EncodeBlock, Receive, PutLocally, Distribute, AwaitEncoder, JoinAll, JoinTimeout,
      PutManifest
<1>3. CASE \E t \in queued : Send(t)
  BY <1>0, <1>1, <1>3 DEF Send
<1>4. CASE \E t \in flying : TaskEnds(t)
  BY <1>0, <1>1, <1>4 DEF TaskEnds
<1>5. CASE \E n \in Peer : SendManifest(n)
  BY <1>0, <1>1, <1>5 DEF SendManifest
<1>6. CASE \E n \in Node : Crash(n)
  BY <1>1, <1>6 DEF Crash
<1>7. CASE UNCHANGED vars
  BY <1>1, <1>7 DEF vars
<1>8. CASE \E t \in stray : StrayArrives(t)
  <2>1. read.st # "none" => \A c : Gone(c) => Gone(c)'
    BY <1>0, <1>8, StrayKeepsGone
  <2> QED
    BY <1>8, <2>1 DEF StrayArrives, Undisturbed
<1> QED
  BY <1>2, <1>3, <1>4, <1>5, <1>6, <1>7, <1>8 DEF Store

\* What the reader knows outlives the steps of the others.
LEMMA UndisturbedInv ==
  ASSUME ReadInv, Undisturbed PROVE FetchInv' /\ OutcomeInv'
<1>0. /\ job' = job /\ read' = read
      /\ Hashes' = Hashes /\ Total' = Total /\ Blocks' = Blocks
  BY SameHashes, SameJob DEF Undisturbed
<1>1. CASE read.st = "none"
  <2>1. read.shards = <<>>
    BY <1>1 DEF ReadInv, FetchInv
  <2>2. FetchInv'
    BY <1>0, <2>1 DEF ReadInv, FetchInv
  <2>3. OutcomeInv'
    BY <1>0, <1>1 DEF OutcomeInv
  <2> QED
    BY <2>2, <2>3
<1>2. CASE read.st # "none"
  <2>1. mani \cap up = {} => mani' \cap up' = {}
    BY <1>2 DEF Undisturbed
  <2>2. \A c : Gone(c) => Gone(c)'
    BY <1>2 DEF Undisturbed
  <2>3. FetchInv'
    BY <1>0, <2>2 DEF ReadInv, FetchInv
  <2>4. OutcomeInv'
    BY <1>0, <2>1 DEF ReadInv, OutcomeInv, Left
  <2> QED
    BY <2>3, <2>4
<1> QED
  BY <1>1, <1>2

\* A chunk that is there, or that somebody answers with, is not unheard of.
LEMMA HeardOf ==
  ASSUME NEW c, NEW x \in Answers(c), Accepts(c, x) PROVE x = c /\ ~Unheard(c)
  BY DEF Unheard, Accepts

\* One more entry: the chunk itself, or a gap for which there is a reason.
LEMMA FetchKeepsInv == ASSUME ReadInv, Fetch PROVE FetchInv' /\ OutcomeInv'
\* Names for the position and the chunk as they are before the step.
<1>k. PICK k : k = Len(read.shards) + 1
  OBVIOUS
<1>c. PICK c : c = Hashes[k]
  OBVIOUS
<1> DEFINE good == {x \in Answers(c) : Accepts(c, x)}
           Chunks == SUBSET {Hashes[j] : j \in 1 .. Len(Hashes)}
<1>0. /\ FetchInv /\ job \in Jobs /\ Reader \in Node /\ DOMAIN disk = Node
      /\ Len(Hashes) \in Nat
  <2>1. FetchInv /\ job \in Jobs /\ DOMAIN disk = Node
    BY DEF ReadInv, Inv
  <2>2. Len(Hashes) \in Nat
    BY <2>1, HashesFacts
  <2> QED
    BY <2>1, <2>2, TesseraAssumption
<1>1. /\ read.st = "fetch" /\ Len(read.shards) < Len(Hashes)
      /\ job' = job /\ mani' = mani /\ up' = up /\ late' = late
  BY DEF Fetch, storeVars
<1>2. Hashes' = Hashes
  BY <1>1, SameHashes
<1>3. /\ read.shards \in Seq(Chunks) /\ Len(read.shards) \in Nat
      /\ k \in 1 .. Len(Hashes)
      /\ read.misses \in Nat
      /\ read = [st |-> read.st, shards |-> read.shards, got |-> read.got,
                 misses |-> read.misses]
  BY <1>0, <1>1, <1>k DEF FetchInv
\* What one more entry, found or not, leaves to show.
<1>4. ASSUME NEW e \in {{}, {c}}, NEW m \in Nat,
             read' = [st |-> "fetch", shards |-> Append(read.shards, e), got |-> read.got,
                      misses |-> m],
             m = 0 => read.misses = 0 /\ (e = {} => Unheard(c)'),
             \A d : Unheard(d) => Unheard(d)'
      PROVE  FetchInv' /\ OutcomeInv'
  <2> DEFINE s == read.shards
             t == Append(s, e)
  <2>1. read'.shards = t /\ read'.misses = m /\ read'.st = "fetch"
    BY <1>4
  <2>2. e \in Chunks
    BY <1>3, <1>c
  <2>3. /\ t \in Seq(Chunks) /\ Len(t) = Len(s) + 1 /\ Len(t) = k
        /\ t[k] = e /\ \A j \in 1 .. Len(s) : t[j] = s[j]
    BY <1>3, <1>k, <2>2, AppendProperties
  <2>4. \A j \in 1 .. k : j = k \/ j \in 1 .. Len(s)
    BY <1>3, <1>k
  <2>5. \A j \in 1 .. k : t[j] \in {{}, {Hashes[j]}}
    BY <1>0, <1>c, <2>3, <2>4 DEF FetchInv
  <2>6. m = 0 => \A j \in 1 .. k : t[j] = {} => Gone(Hashes[j])'
    <3>0. \A d : Gone(d) => Gone(d)'
      BY <1>1, <1>4 DEF Gone
    <3> SUFFICES ASSUME m = 0, NEW j \in 1 .. k, t[j] = {} PROVE Gone(Hashes[j])'
      OBVIOUS
    <3>1. CASE j = k
      <4>1. e = {} /\ Hashes'[j] = c
        BY <1>2, <1>c, <2>3, <3>1
      <4>2. Unheard(c)'
        BY <1>4, <4>1
      <4>3. Unheard(Hashes[j])'
        BY <4>1, <4>2
      <4> QED
        BY <4>3 DEF Gone
    <3>2. CASE j \in 1 .. Len(s)
      <4>1. Gone(Hashes[j])
        BY <1>0, <1>4, <2>3, <3>2 DEF FetchInv
      <4> HIDE DEF t, s
      <4> QED
        BY <1>2, <3>0, <4>1
    <3> QED
      BY <2>4, <3>1, <3>2
  <2> HIDE DEF t
  <2>7. FetchInv'
    <3>1. (\A j \in 1 .. Len(read.shards) : read.shards[j] \in {{}, {Hashes[j]}})'
      BY <1>2, <2>1, <2>3, <2>5
    <3>2. (read.misses = 0 =>
             \A j \in 1 .. Len(read.shards) : read.shards[j] = {} => Gone(Hashes[j]))'
      BY <2>1, <2>3, <2>6
    <3>3. /\ (read.shards \in Seq(SUBSET {Hashes[j] : j \in 1 .. Len(Hashes)}))'
          /\ (Len(read.shards) <= Len(Hashes))'
      BY <1>2, <1>3, <2>1, <2>3
    <3> QED
      BY <1>4, <2>1, <3>1, <3>2, <3>3 DEF FetchInv
  <2>8. OutcomeInv'
    BY <2>1 DEF OutcomeInv
  <2> QED
    BY <2>7, <2>8
<1>5. CASE c \in disk[Reader] /\ read' = [read EXCEPT !.shards = Append(@, {c})]
           /\ UNCHANGED disk
  <2>1. \A d : Unheard(d) => Unheard(d)'
    BY <1>1, <1>5, UnheardStays
  <2>2. read' = [st |-> "fetch", shards |-> Append(read.shards, {c}), got |-> read.got,
                 misses |-> read.misses]
    BY <1>1, <1>3, <1>5
  <2> QED
    BY <1>3, <1>4, <2>1, <2>2
<1>6. ASSUME NEW x \in good, c \notin disk[Reader],
             read' = [read EXCEPT !.shards = Append(@, {x})],
             disk' = [disk EXCEPT ![Reader] = @ \cup {c}]
      PROVE  FetchInv' /\ OutcomeInv'
  <2>1. x = c /\ ~Unheard(c)
    BY HeardOf
  <2>2. \A d : Unheard(d) => Unheard(d)'
    <3> SUFFICES ASSUME NEW d, Unheard(d) PROVE Unheard(d)'
      OBVIOUS
    <3>1. d # c
      BY <2>1
    <3>2. d \notin disk'[Reader]
      BY <1>0, <1>6, <3>1 DEF Unheard
    <3>3. Answers(d)' = Answers(d)
      <4>1. \A n : n # Reader => disk'[n] = disk[n]
        BY <1>0, <1>6
      <4> QED
        BY <1>1, <4>1 DEF Answers, Garbage
    <3> QED
      BY <3>2, <3>3 DEF Unheard, Accepts
  <2>3. read' = [st |-> "fetch", shards |-> Append(read.shards, {c}), got |-> read.got,
                 misses |-> read.misses]
    BY <1>1, <1>3, <1>6, <2>1
  <2> QED
    BY <1>3, <1>4, <2>2, <2>3
<1>7. CASE /\ c \notin disk[Reader]
           /\ read' = [read EXCEPT !.shards = Append(@, {}),
                                   !.misses = IF good = {} THEN @ ELSE @ + 1]
           /\ UNCHANGED disk
  <2> DEFINE m == IF good = {} THEN read.misses ELSE read.misses + 1
  <2>1. \A d : Unheard(d) => Unheard(d)'
    BY <1>1, <1>7, UnheardStays
  <2>2. read' = [st |-> "fetch", shards |-> Append(read.shards, {}), got |-> read.got,
                 misses |-> m]
    BY <1>1, <1>3, <1>7
  <2>3. m \in Nat /\ (m = 0 => read.misses = 0 /\ good = {})
    BY <1>3
  <2>4. good = {} => Unheard(c)
    BY <1>7 DEF Unheard
  <2>5. m = 0 => read.misses = 0 /\ Unheard(c)'
    <3> HIDE DEF good, m
    <3> QED
      BY <2>1, <2>3, <2>4
  <2> HIDE DEF m
  <2> QED
    BY <1>4, <2>1, <2>2, <2>3, <2>5
<1> QED
  BY <1>5, <1>6, <1>7, <1>k, <1>c DEF Fetch

\* A reader that finds no manifest missed an answer, or nobody up has it.
LEMMA ReadManifestKeepsInv == ASSUME ReadInv, ReadManifest PROVE FetchInv' /\ OutcomeInv'
<1>0. /\ FetchInv /\ read.st = "none" /\ read.shards = <<>> /\ Len(Hashes) \in Nat
  BY HashesFacts DEF ReadInv, FetchInv, Inv, ReadManifest
<1>1. /\ job' = job /\ disk' = disk /\ mani' = mani /\ up' = up
      /\ Hashes' = Hashes
  BY SameHashes DEF ReadManifest, storeVars
<1>2. /\ read'.shards = <<>> /\ read'.misses \in Nat /\ read'.st \in {"fetch", "failed"}
      /\ read' = [st |-> read'.st, shards |-> read'.shards, got |-> read'.got,
                  misses |-> read'.misses]
      /\ read'.st = "failed" /\ read'.misses = 0 => mani \cap up = {}
  <2>1. /\ read = [st |-> read.st, shards |-> read.shards, got |-> read.got,
                   misses |-> read.misses]
        /\ read.misses \in Nat /\ read.shards = <<>>
    BY <1>0 DEF FetchInv
  <2>2. CASE read' = [read EXCEPT !.st = "fetch"]
    BY <2>1, <2>2
  <2>3. CASE mani \cap up = {} /\ read' = [read EXCEPT !.st = "failed"]
    BY <2>1, <2>3
  <2>4. CASE read' = [read EXCEPT !.st = "failed", !.misses = @ + 1]
    <3>1. read' = [st |-> "failed", shards |-> read.shards, got |-> read.got,
                   misses |-> read.misses + 1]
      BY <2>1, <2>4
    <3> QED
      BY <2>1, <3>1
  <2> QED
    BY <2>2, <2>3, <2>4 DEF ReadManifest
<1>3. FetchInv'
  BY <1>0, <1>1, <1>2 DEF FetchInv
<1>4. OutcomeInv'
  BY <1>1, <1>2 DEF OutcomeInv
<1> QED
  BY <1>3, <1>4

\* RETRIEVE_TIMEOUT counts as a missed answer.
LEMMA TimeoutKeepsInv == ASSUME ReadInv, RetrieveTimeout PROVE FetchInv' /\ OutcomeInv'
<1>0. FetchInv
  BY DEF ReadInv
<1>1. /\ job' = job /\ disk' = disk /\ mani' = mani /\ up' = up
      /\ Hashes' = Hashes
  BY SameHashes DEF RetrieveTimeout, storeVars
<1>2. /\ read'.shards = read.shards /\ read'.misses \in Nat \ {0} /\ read'.st = "timeout"
      /\ read' = [st |-> read'.st, shards |-> read'.shards, got |-> read'.got,
                  misses |-> read'.misses]
  <2>1. /\ read = [st |-> read.st, shards |-> read.shards, got |-> read.got,
                   misses |-> read.misses]
        /\ read.misses \in Nat
    BY <1>0 DEF FetchInv
  <2>2. read' = [st |-> "timeout", shards |-> read.shards, got |-> read.got,
                 misses |-> read.misses + 1]
    BY <2>1 DEF RetrieveTimeout
  <2> QED
    BY <2>1, <2>2
<1>3. FetchInv'
  BY <1>0, <1>1, <1>2 DEF FetchInv
<1>4. OutcomeInv'
  BY <1>2 DEF OutcomeInv
<1> QED
  BY <1>3, <1>4

\* When all is fetched, the list is what DecodeBlocksIsExact asks for.
LEMMA AllFetched ==
  ASSUME job \in Jobs, FetchInv, Len(read.shards) = Len(Hashes)
  PROVE  FetchedOf(read.shards, job.data, job.d, job.p, BlockSize)
<1>1. /\ Len(Hashes) = Blocks * Total
      /\ \A b \in 1 .. Blocks, i \in 1 .. Total :
           /\ (b - 1) * Total + i \in 1 .. Len(Hashes)
           /\ Hashes[(b - 1) * Total + i] = Shard(b, i)
  BY HashesFacts
<1>2. ASSUME NEW b \in 1 .. Blocks, NEW i \in 1 .. Total
      PROVE  read.shards[(b - 1) * Total + i] \in {{}, {Shard(b, i)}}
  <2> DEFINE k == (b - 1) * Total + i
  <2>1. k \in 1 .. Len(read.shards) /\ Hashes[k] = Shard(b, i)
    BY <1>1
  <2> HIDE DEF k
  <2>2. read.shards[k] \in {{}, {Hashes[k]}}
    BY <2>1 DEF FetchInv
  <2> QED
    BY <2>1, <2>2 DEF k
<1> QED
  BY <1>1, <1>2 DEF FetchedOf, Blocks, Total, Shard

\* decode_blocks gives the data back, or some block has too few shards.
LEMMA DecodeKeepsInv == ASSUME ReadInv, DecodeFetched PROVE FetchInv' /\ OutcomeInv'
<1> DEFINE r == DecodeBlocks(read.shards, job.d, job.p, BlockSize, Len(job.data))
<1>0. /\ FetchInv /\ job \in Jobs
      /\ read.st = "fetch" /\ Len(read.shards) = Len(Hashes)
      /\ job.data # <<>>
  BY DEF ReadInv, StoreEnded, Inv, DecodeFetched
<1>1. /\ job.data \in Seq(Nat) /\ job.d \in Nat \ {0} /\ job.p \in Nat \ {0}
      /\ BlockSize \in Nat \ {0}
  BY <1>0, TesseraAssumption
<1>2. /\ job' = job /\ disk' = disk /\ mani' = mani /\ up' = up /\ late' = late
      /\ Hashes' = Hashes /\ Total' = Total /\ Blocks' = Blocks
  BY SameHashes, SameJob DEF DecodeFetched, storeVars
<1>3. FetchedOf(read.shards, job.data, job.d, job.p, BlockSize)
  BY <1>0, AllFetched
<1>4. /\ r.ok => r.data = job.data
      /\ ~r.ok => \E b \in 1 .. Blocks : Cardinality(Left(read.shards, b, Total)) < job.d
  <2>1. \E V : read.shards \in Seq(V)
    BY <1>0 DEF FetchInv
  <2>2. PICK V : read.shards \in Seq(V)
    BY <2>1
  <2>3. /\ r.ok => r.data = job.data
        /\ ~r.ok => \E b \in 1 .. NumBlocks(job.data, BlockSize) :
                       Cardinality(Left(read.shards, b, job.d + job.p)) < job.d
    BY <1>0, <1>1, <1>3, <2>2, DecodeBlocksIsExact
  <2> QED
    BY <2>3 DEF Blocks, Total
<1>5. /\ read' = [st |-> IF r.ok THEN "ok" ELSE "failed", shards |-> read.shards,
                  got |-> r.data, misses |-> read.misses]
  BY <1>0 DEF DecodeFetched, FetchInv
<1> HIDE DEF r
<1>6. FetchInv'
  <2>1. \A c : Gone(c) => Gone(c)'
    BY <1>2, UnheardStays DEF Gone
  <2> QED
    BY <1>0, <1>2, <1>5, <2>1 DEF FetchInv
<1>7. OutcomeInv'
  BY <1>0, <1>2, <1>4, <1>5 DEF OutcomeInv, Left
<1> QED
  BY <1>6, <1>7

\* The inductive step.
LEMMA NextReadInv == ReadInv /\ [Next]_vars => ReadInv'
<1> SUFFICES ASSUME ReadInv, [Next]_vars PROVE ReadInv'
  OBVIOUS
<1>1. Inv'
  BY NextInv DEF ReadInv
<1>2. StoreEnded'
  BY NextStoreEnded
<1>3. FetchInv' /\ OutcomeInv'
  <2>1. CASE Store \/ (\E n \in Node : Crash(n)) \/ UNCHANGED vars
    BY <2>1, StoreUndisturbing, UndisturbedInv
  <2>2. CASE Retrieve
    BY <2>2, ReadManifestKeepsInv, FetchKeepsInv, DecodeKeepsInv, TimeoutKeepsInv
    DEF Retrieve
  <2> QED
    BY <2>1, <2>2 DEF Next
<1> QED
  BY <1>1, <1>2, <1>3 DEF ReadInv

\* do_retrieve_tessera returns the data that was stored, or an error: whatever
\* crashed, whatever liars answered, however many blocks and shards there are.
THEOREM RetrievalIsSound == Spec => []RetrieveSound
<1>1. ReadInv => RetrieveSound
  BY DEF ReadInv, OutcomeInv, RetrieveSound
<1> QED
  BY <1>1, InitReadInv, NextReadInv, PTL DEF Spec

\* What is available is left: a shard that some honest node up, or the reader,
\* has, and has not got too late, was fetched.
LEMMA AvailableIsLeft ==
  ASSUME ReadInv, read.misses = 0, Len(read.shards) = Len(Hashes),
         NEW b \in 1 .. Blocks, NEW i \in 1 .. Total,
         Heard(Shard(b, i)), Shard(b, i) \notin late
  PROVE  i \in Left(read.shards, b, Total)
<1> DEFINE k == (b - 1) * Total + i
           c == Shard(b, i)
<1>1. k \in 1 .. Len(read.shards) /\ Hashes[k] = c
  BY HashesFacts DEF ReadInv, Inv
<1> HIDE DEF k, c
<1>2. ~Gone(c)
  BY HeardIsNotUnheard DEF Gone, c
<1>3. read.shards[k] # {}
  BY <1>1, <1>2 DEF ReadInv, FetchInv
<1> QED
  BY <1>3 DEF Left, k

\* A retrieval that missed no answer fails only when the manifest, or d shards
\* of some block, can no longer be had from the nodes that are up, or came to
\* them too late.
THEOREM RetrievalSucceeds == Spec => []RetrieveSucceeds
<1>1. ReadInv => RetrieveSucceeds
  <2> SUFFICES ASSUME ReadInv, read.st = "failed", read.misses = 0, Available PROVE FALSE
    BY DEF RetrieveSucceeds
  <2>1. /\ Len(read.shards) = Len(Hashes)
        /\ \E b \in 1 .. Blocks : Cardinality(Left(read.shards, b, Total)) < job.d
    BY DEF ReadInv, OutcomeInv, Available
  <2>2. PICK b \in 1 .. Blocks : Cardinality(Left(read.shards, b, Total)) < job.d
    BY <2>1
  <2> DEFINE L == Left(read.shards, b, Total)
             A == {i \in 1 .. Total : Heard(Shard(b, i)) /\ Shard(b, i) \notin late}
  <2>3. Cardinality(A) >= job.d
    BY DEF Available
  <2>4. A \subseteq L
    BY <2>1, AvailableIsLeft
  <2>5. job \in Jobs
    BY DEF ReadInv, Inv
  <2>6. IsFiniteSet(L)
    <3>1. Total \in Nat
      BY <2>5, TotalType
    <3>2. IsFiniteSet(1 .. Total)
      BY <3>1, FS_Interval
    <3>3. L \subseteq 1 .. Total
      BY DEF Left
    <3> QED
      BY <3>2, <3>3, FS_Subset
  <2>7. job.d \in Nat
    BY <2>5, TesseraAssumption
  <2> HIDE DEF A, L
  <2>8. /\ Cardinality(A) <= Cardinality(L)
        /\ Cardinality(A) \in Nat /\ Cardinality(L) \in Nat
    BY <2>4, <2>6, FS_Subset, FS_CardinalityType
  <2>9. Cardinality(L) < job.d
    BY <2>2 DEF L
  <2> QED
    BY <2>3, <2>7, <2>8, <2>9
<1> QED
  BY <1>1, InitReadInv, NextReadInv, PTL DEF Spec
=============================================================================
