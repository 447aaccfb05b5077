----------------------------- MODULE FoldLemmas -----------------------------
(***************************************************************************)
(* What the proofs about the chunk store, the routing table, the lookup and *)
(* the erasure code share: induction over naturals and over the subsets of  *)
(* a finite set, the sums and folds that the community modules define by    *)
(* recursion over subsets, strict orders and stable sorting by counting     *)
(* what goes before, and lists embedded in lists.  The facts are about sets *)
(* and functions, not operators, so that the provers can use them.          *)
(***************************************************************************)
EXTENDS Integers, SequencesExt, FiniteSetTheorems, SequenceTheorems,
        WellFoundedInduction, TLAPS

\* A non-empty set of naturals has a least element.
LEMMA LeastNat ==
    ASSUME NEW S \in SUBSET Nat, S # {}
    PROVE  \E x \in S : \A y \in S : x <= y
<1> DEFINE R == OpToRel(<, Nat)
<1>1. PICK x \in S : \A y \in S : ~(<<y, x>> \in R)
  BY WFMin, NatLessThanWellFounded
<1>2. ASSUME NEW y \in S PROVE x <= y
  <2>1. x \in Nat /\ y \in Nat
    OBVIOUS
  <2>2. R = {ss \in Nat \X Nat : ss[1] < ss[2]}
    BY DEF OpToRel
  <2>3. ~(y < x)
    BY <1>1, <2>1, <2>2
  <2> HIDE DEF R
  <2> QED
    BY <2>1, <2>3
<1> QED
  BY <1>2

\* Induction over the naturals, for a set in place of a predicate: the library's
\* theorem takes an operator, which the provers cannot instantiate.
LEMMA NatSetInduction ==
    ASSUME NEW P, 0 \in P, \A n \in Nat : n \in P => n + 1 \in P
    PROVE  \A n \in Nat : n \in P
<1> DEFINE Bad == Nat \ P
<1> SUFFICES ASSUME Bad # {} PROVE FALSE
  OBVIOUS
<1>1. PICK x \in Bad : \A y \in Bad : x <= y
  BY LeastNat
<1>2. x # 0 /\ x \in Nat
  OBVIOUS
<1>3. x - 1 \in Nat /\ x - 1 \notin Bad
  BY <1>1, <1>2
<1> QED
  BY <1>2, <1>3

\* Induction over the subsets of a finite set, in the same form.
LEMMA SubsetInduction ==
    ASSUME NEW S, IsFiniteSet(S), NEW Q, {} \in Q,
           \A s \in SUBSET S : s # {} /\ (\A x \in s : s \ {x} \in Q) => s \in Q
    PROVE  \A s \in SUBSET S : s \in Q
<1> DEFINE P == {n \in Nat : \A s \in SUBSET S : Cardinality(s) = n => s \in Q}
<1>1. \A s \in SUBSET S : IsFiniteSet(s) /\ Cardinality(s) \in Nat
  BY FS_Subset, FS_CardinalityType
<1>2. 0 \in P
  BY <1>1, FS_EmptySet
<1>3. ASSUME NEW n \in Nat, n \in P PROVE n + 1 \in P
  <2>1. SUFFICES ASSUME NEW s \in SUBSET S, Cardinality(s) = n + 1 PROVE s \in Q
    OBVIOUS
  <2>2. s # {}
    <3>1. n + 1 # 0
      OBVIOUS
    <3> QED
      BY <2>1, <3>1, FS_EmptySet
  <2>3. ASSUME NEW x \in s PROVE s \ {x} \in Q
    <3>1. Cardinality(s \ {x}) = n
      BY <1>1, <2>1, FS_RemoveElement
    <3> QED
      BY <1>3, <3>1
  <2> QED
    BY <2>2, <2>3
<1> HIDE DEF P
<1>4. \A n \in Nat : n \in P
  BY <1>2, <1>3, NatSetInduction
<1> QED
  BY <1>1, <1>4 DEF P
-----------------------------------------------------------------------------
\* it is the solution of a recursion over the subsets of S that takes away the
\* element c[s] of s.
Recursion(it, S, base, c, G) ==
    it = [s \in SUBSET S |-> IF s = {} THEN base ELSE G[s][it[s \ {c[s]}]]]

\* A definition by recursion over the subsets of a finite set has a solution.
LEMMA SubsetRecursion ==
    ASSUME NEW S, IsFiniteSet(S), NEW base, NEW c, NEW G,
           \A s \in SUBSET S : s # {} => c[s] \in s
    PROVE  \E it : Recursion(it, S, base, c, G)
<1> DEFINE Upto(n) == {s \in SUBSET S : Cardinality(s) <= n}
           Solves(it, n) == it = [s \in Upto(n) |->
                             IF s = {} THEN base ELSE G[s][it[s \ {c[s]}]]]
           P == {n \in Nat : \E it : Solves(it, n)}
<1>1. \A s \in SUBSET S : IsFiniteSet(s) /\ Cardinality(s) \in Nat
  BY FS_Subset, FS_CardinalityType
<1>2. 0 \in P
  <2>1. \A s \in Upto(0) : s = {}
    BY <1>1, FS_EmptySet
  <2>2. Solves([s \in Upto(0) |-> base], 0)
    BY <2>1
  <2> QED
    BY <2>2
<1>3. ASSUME NEW n \in Nat, n \in P PROVE n + 1 \in P
  <2>1. PICK it : Solves(it, n)
    BY <1>3
  <2> DEFINE new == [s \in Upto(n + 1) |->
                        IF s = {} THEN base ELSE G[s][it[s \ {c[s]}]]]
  <2>2. ASSUME NEW s \in Upto(n + 1), s # {}
        PROVE  s \ {c[s]} \in Upto(n)
    <3>1. c[s] \in s /\ s \in SUBSET S
      BY <2>2
    <3>2. Cardinality(s \ {c[s]}) = Cardinality(s) - 1
      BY <1>1, <3>1, FS_RemoveElement
    <3> QED
      BY <1>1, <2>2, <3>1, <3>2
  <2>3. Upto(n) \subseteq Upto(n + 1)
    BY <1>1
  <2>4. ASSUME NEW s \in Upto(n) PROVE new[s] = it[s]
    BY <2>1, <2>3
  <2>5. Solves(new, n + 1)
    <3>1. ASSUME NEW s \in Upto(n + 1), s # {}
          PROVE  it[s \ {c[s]}] = new[s \ {c[s]}]
      BY <2>2, <2>4, <3>1
    <3> QED
      BY <3>1
  <2> HIDE DEF new, Solves
  <2> QED
    BY <2>5
<1> HIDE DEF P
<1>4. Cardinality(S) \in P
  BY <1>1, <1>2, <1>3, NatSetInduction
<1>5. SUBSET S = Upto(Cardinality(S))
  BY <1>1, FS_Subset
<1> QED
  BY <1>4, <1>5 DEF P, Recursion
-----------------------------------------------------------------------------
\* The element that MapThenFoldSet takes away from s.
Pick(s) == CHOOSE x \in s : TRUE

\* it tabulates the sums of f over the subsets of S.
SumTable(it, f, S) ==
    it = [s \in SUBSET S |-> IF s = {} THEN 0 ELSE f[Pick(s)] + it[s \ {Pick(s)}]]

\* The element that a sum takes first is one of the set.
LEMMA PickElement == \A s : s # {} => Pick(s) \in s
  BY DEF Pick

\* The table of sums of naturals holds naturals.
LEMMA SumTableType ==
    ASSUME NEW S, IsFiniteSet(S), NEW f, \A x \in S : f[x] \in Nat,
           NEW it, SumTable(it, f, S)
    PROVE  it \in [SUBSET S -> Nat]
<1>0. /\ it[{}] = 0
      /\ \A s \in SUBSET S : s # {} => it[s] = f[Pick(s)] + it[s \ {Pick(s)}]
  BY DEF SumTable
<1> DEFINE Q == {s \in SUBSET S : it[s] \in Nat}
<1>1. {} \in Q
  BY <1>0
<1>2. ASSUME NEW s \in SUBSET S, s # {}, \A x \in s : s \ {x} \in Q PROVE s \in Q
  <2>1. Pick(s) \in s /\ f[Pick(s)] \in Nat
    BY <1>2, PickElement
  <2>2. it[s \ {Pick(s)}] \in Nat
    BY <1>2, <2>1
  <2>3. it[s] = f[Pick(s)] + it[s \ {Pick(s)}]
    BY <1>0, <1>2
  <2> QED
    BY <2>1, <2>2, <2>3
<1> HIDE DEF Q
<1>3. \A s \in SUBSET S : s \in Q
  BY <1>1, <1>2, SubsetInduction
<1>4. \A s \in SUBSET S : it[s] \in Nat
  BY <1>3 DEF Q
<1> QED
  BY <1>4 DEF SumTable

\* SumFunctionOnSet is defined by choosing such a table: there is one.
LEMMA SumTableExists ==
    ASSUME NEW S, IsFiniteSet(S), NEW f, \A x \in S : f[x] \in Nat
    PROVE  \E it \in [SUBSET S -> Nat] :
              SumTable(it, f, S) /\ SumFunctionOnSet(f, S) = it[S]
<1> DEFINE c == [s \in SUBSET S |-> Pick(s)]
           G == [s \in SUBSET S |-> [v \in Nat |-> f[Pick(s)] + v]]
           h == CHOOSE it : SumTable(it, f, S)
<1>1. \A s \in SUBSET S : s # {} => c[s] \in s
  BY PickElement
<1>a. PICK g : Recursion(g, S, 0, c, G)
  <2> HIDE DEF G, c
  <2> QED
    BY <1>1, SubsetRecursion
<1>2. g = [s \in SUBSET S |-> IF s = {} THEN 0 ELSE G[s][g[s \ {c[s]}]]]
  <2> HIDE DEF G, c
  <2> QED
    BY <1>a DEF Recursion
<1>3. \A s \in SUBSET S : g[s] \in Nat
  <2> DEFINE Q == {s \in SUBSET S : g[s] \in Nat}
  <2>1. {} \in Q
    BY <1>2
  <2>2. ASSUME NEW s \in SUBSET S, s # {}, \A x \in s : s \ {x} \in Q PROVE s \in Q
    <3>1. c[s] \in s /\ c[s] = Pick(s)
      BY <1>1, <2>2
    <3>2. s \ {c[s]} \in Q
      BY <2>2, <3>1
    <3>3. g[s \ {c[s]}] \in Nat /\ f[Pick(s)] \in Nat
      BY <3>1, <3>2
    <3>4. g[s] = G[s][g[s \ {c[s]}]]
      <4> HIDE DEF G, c
      <4> QED
        BY <1>2, <2>2
    <3>5. g[s] = f[Pick(s)] + g[s \ {c[s]}]
      BY <3>3, <3>4
    <3> QED
      BY <3>3, <3>5
  <2> HIDE DEF Q
  <2>3. \A s \in SUBSET S : s \in Q
    BY <2>1, <2>2, SubsetInduction
  <2> QED
    BY <2>3 DEF Q
<1>4. SumTable(g, f, S)
  <2>1. ASSUME NEW s \in SUBSET S, s # {}
        PROVE  G[s][g[s \ {c[s]}]] = f[Pick(s)] + g[s \ {Pick(s)}]
    BY <1>3
  <2> HIDE DEF G, c
  <2> QED
    BY <1>2, <2>1 DEF SumTable
<1>5. SumTable(h, f, S)
  BY <1>4
<1>6. SumFunctionOnSet(f, S) = h[S]
  BY DEF SumFunctionOnSet, FoldFunctionOnSet, MapThenFoldSet, SumTable, Pick
<1> HIDE DEF h
<1>7. h \in [SUBSET S -> Nat]
  BY <1>5, SumTableType
<1> QED
  BY <1>5, <1>6, <1>7

\* A sum of naturals is a natural.
LEMMA SumType ==
    ASSUME NEW S, IsFiniteSet(S), NEW f, \A x \in S : f[x] \in Nat
    PROVE  SumFunctionOnSet(f, S) \in Nat
<1>1. PICK it \in [SUBSET S -> Nat] : SumTable(it, f, S) /\ SumFunctionOnSet(f, S) = it[S]
  BY SumTableExists
<1> QED
  BY <1>1

\* The empty sum.
LEMMA SumEmpty ==
    ASSUME NEW f
    PROVE  SumFunctionOnSet(f, {}) = 0
<1>1. PICK it \in [SUBSET {} -> Nat] : SumTable(it, f, {}) /\ SumFunctionOnSet(f, {}) = it[{}]
  BY SumTableExists, FS_EmptySet
<1> QED
  BY <1>1 DEF SumTable

\* Taking elements away in any order gives the same sum.
LEMMA SumTableRemove ==
    ASSUME NEW S, IsFiniteSet(S), NEW f, \A x \in S : f[x] \in Nat,
           NEW it, SumTable(it, f, S)
    PROVE  \A s \in SUBSET S : \A x \in s : it[s] = f[x] + it[s \ {x}]
<1>0. \A s \in SUBSET S : s # {} => it[s] = f[Pick(s)] + it[s \ {Pick(s)}]
  BY DEF SumTable
<1>1. it \in [SUBSET S -> Nat]
  BY SumTableType
<1> DEFINE Q == {s \in SUBSET S : \A x \in s : it[s] = f[x] + it[s \ {x}]}
<1>2. {} \in Q
  OBVIOUS
<1>3. ASSUME NEW s \in SUBSET S, s # {}, \A x \in s : s \ {x} \in Q PROVE s \in Q
  <2> SUFFICES ASSUME NEW x \in s PROVE it[s] = f[x] + it[s \ {x}]
    OBVIOUS
  <2>1. PICK c \in s : it[s] = f[c] + it[s \ {c}]
    BY <1>0, <1>3, PickElement
  <2>2. CASE x = c
    BY <2>1, <2>2
  <2>3. CASE x # c
    <3>1. it[s \ {c}] = f[x] + it[(s \ {c}) \ {x}]
      BY <1>3, <2>3
    <3>2. it[s \ {x}] = f[c] + it[(s \ {x}) \ {c}]
      BY <1>3, <2>3
    <3>3. (s \ {c}) \ {x} = (s \ {x}) \ {c}
      OBVIOUS
    <3>4. it[(s \ {x}) \ {c}] \in Nat /\ f[x] \in Nat /\ f[c] \in Nat
      BY <1>1
    <3>5. \A a, b, n \in Nat : a + (b + n) = b + (a + n)
      OBVIOUS
    <3>6. it[s] = f[c] + (f[x] + it[(s \ {x}) \ {c}])
      BY <2>1, <3>1, <3>3
    <3>7. it[s] = f[x] + (f[c] + it[(s \ {x}) \ {c}])
      BY <3>4, <3>5, <3>6
    <3> QED
      BY <3>2, <3>7
  <2> QED
    BY <2>2, <2>3
<1> HIDE DEF Q
<1>4. \A s \in SUBSET S : s \in Q
  BY <1>2, <1>3, SubsetInduction
<1> QED
  BY <1>4 DEF Q

\* One element can be split off a sum, whichever it is.
LEMMA SumRemove ==
    ASSUME NEW S, IsFiniteSet(S), NEW f, \A x \in S : f[x] \in Nat, NEW x \in S
    PROVE  SumFunctionOnSet(f, S) = f[x] + SumFunctionOnSet(f, S \ {x})
<1> DEFINE T == S \ {x}
<1>0. IsFiniteSet(T)
  BY FS_Subset
<1>1. PICK it \in [SUBSET S -> Nat] : SumTable(it, f, S) /\ SumFunctionOnSet(f, S) = it[S]
  BY SumTableExists
<1>2. PICK jt \in [SUBSET T -> Nat] : SumTable(jt, f, T) /\ SumFunctionOnSet(f, T) = jt[T]
  <2>1. \A y \in T : f[y] \in Nat
    OBVIOUS
  <2> HIDE DEF T
  <2> QED
    BY <1>0, <2>1, SumTableExists
<1>3. it[T] = jt[T]
  <2> DEFINE Q == {s \in SUBSET T : it[s] = jt[s]}
  <2>1. /\ it[{}] = 0 /\ jt[{}] = 0
        /\ \A s \in SUBSET T : s # {} =>
              /\ it[s] = f[Pick(s)] + it[s \ {Pick(s)}]
              /\ jt[s] = f[Pick(s)] + jt[s \ {Pick(s)}]
    BY <1>1, <1>2 DEF SumTable
  <2>2. {} \in Q
    BY <2>1
  <2>3. ASSUME NEW s \in SUBSET T, s # {}, \A y \in s : s \ {y} \in Q PROVE s \in Q
    <3>1. Pick(s) \in s
      BY <2>3, PickElement
    <3>2. it[s \ {Pick(s)}] = jt[s \ {Pick(s)}]
      BY <2>3, <3>1
    <3> QED
      BY <2>1, <2>3, <3>2
  <2> HIDE DEF Q, T
  <2>4. \A s \in SUBSET T : s \in Q
    BY <1>0, <2>2, <2>3, SubsetInduction
  <2> QED
    BY <2>4 DEF Q
<1>4. it[S] = f[x] + it[T]
  BY <1>1, SumTableRemove
<1> QED
  BY <1>1, <1>2, <1>3, <1>4

\* A change of one summand changes the sum by as much.
LEMMA SumUpdate ==
    ASSUME NEW S, IsFiniteSet(S), NEW f, NEW g,
           \A y \in S : f[y] \in Nat /\ g[y] \in Nat,
           NEW x \in S, \A y \in S \ {x} : f[y] = g[y]
    PROVE  SumFunctionOnSet(g, S) + f[x] = SumFunctionOnSet(f, S) + g[x]
<1> DEFINE T == S \ {x}
<1>0. IsFiniteSet(T)
  BY FS_Subset
<1>1. SumFunctionOnSet(f, T) \in Nat /\ SumFunctionOnSet(g, T) \in Nat
  <2>1. \A y \in T : f[y] \in Nat /\ g[y] \in Nat
    OBVIOUS
  <2> HIDE DEF T
  <2> QED
    BY <1>0, <2>1, SumType
<1>2. SumFunctionOnSet(f, T) = SumFunctionOnSet(g, T)
  <2> DEFINE Q == {s \in SUBSET T : SumFunctionOnSet(f, s) = SumFunctionOnSet(g, s)}
  <2>1. {} \in Q
    BY SumEmpty
  <2>2. ASSUME NEW s \in SUBSET T, s # {}, \A y \in s : s \ {y} \in Q PROVE s \in Q
    <3>1. PICK y \in s : TRUE
      BY <2>2
    <3>2. IsFiniteSet(s) /\ (\A z \in s : f[z] \in Nat /\ g[z] \in Nat) /\ f[y] = g[y]
      BY <1>0, FS_Subset
    <3>3. SumFunctionOnSet(f, s) = f[y] + SumFunctionOnSet(f, s \ {y})
      BY <3>2, SumRemove
    <3>4. SumFunctionOnSet(g, s) = g[y] + SumFunctionOnSet(g, s \ {y})
      BY <3>2, SumRemove
    <3>5. SumFunctionOnSet(f, s \ {y}) = SumFunctionOnSet(g, s \ {y})
      BY <2>2
    <3> QED
      BY <3>2, <3>3, <3>4, <3>5
  <2> HIDE DEF Q, T
  <2>3. \A s \in SUBSET T : s \in Q
    BY <1>0, <2>1, <2>2, SubsetInduction
  <2> QED
    BY <2>3 DEF Q
<1>3. SumFunctionOnSet(f, S) = f[x] + SumFunctionOnSet(f, T)
  BY SumRemove
<1>4. SumFunctionOnSet(g, S) = g[x] + SumFunctionOnSet(g, T)
  BY SumRemove
<1> HIDE DEF T
<1> QED
  BY <1>1, <1>2, <1>3, <1>4

\* Larger summands give a larger sum.
LEMMA SumMonotone ==
    ASSUME NEW S, IsFiniteSet(S), NEW f, NEW g,
           \A y \in S : f[y] \in Nat /\ g[y] \in Nat /\ f[y] <= g[y]
    PROVE  SumFunctionOnSet(f, S) <= SumFunctionOnSet(g, S)
<1> DEFINE Q == {s \in SUBSET S : SumFunctionOnSet(f, s) <= SumFunctionOnSet(g, s)}
<1>1. {} \in Q
  BY SumEmpty
<1>2. ASSUME NEW s \in SUBSET S, s # {}, \A y \in s : s \ {y} \in Q PROVE s \in Q
  <2>1. PICK y \in s : TRUE
    BY <1>2
  <2>2. IsFiniteSet(s) /\ IsFiniteSet(s \ {y})
    BY FS_Subset
  <2>3. SumFunctionOnSet(f, s) = f[y] + SumFunctionOnSet(f, s \ {y})
    BY <2>2, SumRemove
  <2>4. SumFunctionOnSet(g, s) = g[y] + SumFunctionOnSet(g, s \ {y})
    BY <2>2, SumRemove
  <2>5. SumFunctionOnSet(f, s \ {y}) \in Nat /\ SumFunctionOnSet(g, s \ {y}) \in Nat
    BY <2>2, SumType
  <2>6. SumFunctionOnSet(f, s \ {y}) <= SumFunctionOnSet(g, s \ {y})
    BY <1>2
  <2>7. f[y] \in Nat /\ g[y] \in Nat /\ f[y] <= g[y]
    OBVIOUS
  <2> QED
    BY <2>3, <2>4, <2>5, <2>6, <2>7
<1> HIDE DEF Q
<1>3. \A s \in SUBSET S : s \in Q
  BY <1>1, <1>2, SubsetInduction
<1> QED
  BY <1>3 DEF Q

\* A sum is bounded by two others when each summand is.
LEMMA SumSplit ==
    ASSUME NEW S, IsFiniteSet(S), NEW f, NEW g, NEW h,
           \A y \in S : /\ f[y] \in Nat /\ g[y] \in Nat /\ h[y] \in Nat
                        /\ f[y] <= g[y] + h[y]
    PROVE  SumFunctionOnSet(f, S) <= SumFunctionOnSet(g, S) + SumFunctionOnSet(h, S)
<1> DEFINE Q == {s \in SUBSET S : SumFunctionOnSet(f, s)
                                    <= SumFunctionOnSet(g, s) + SumFunctionOnSet(h, s)}
<1>1. {} \in Q
  BY SumEmpty
<1>2. ASSUME NEW s \in SUBSET S, s # {}, \A y \in s : s \ {y} \in Q PROVE s \in Q
  <2>1. PICK y \in s : TRUE
    BY <1>2
  <2>2. IsFiniteSet(s) /\ IsFiniteSet(s \ {y})
    BY FS_Subset
  <2>3. SumFunctionOnSet(f, s) = f[y] + SumFunctionOnSet(f, s \ {y})
    BY <2>2, SumRemove
  <2>4. SumFunctionOnSet(g, s) = g[y] + SumFunctionOnSet(g, s \ {y})
    BY <2>2, SumRemove
  <2>5. SumFunctionOnSet(h, s) = h[y] + SumFunctionOnSet(h, s \ {y})
    BY <2>2, SumRemove
  <2>6. /\ SumFunctionOnSet(f, s \ {y}) \in Nat /\ SumFunctionOnSet(g, s \ {y}) \in Nat
        /\ SumFunctionOnSet(h, s \ {y}) \in Nat
    BY <2>2, SumType
  <2>7. SumFunctionOnSet(f, s \ {y})
            <= SumFunctionOnSet(g, s \ {y}) + SumFunctionOnSet(h, s \ {y})
    BY <1>2
  <2>8. f[y] \in Nat /\ g[y] \in Nat /\ h[y] \in Nat /\ f[y] <= g[y] + h[y]
    OBVIOUS
  <2> QED
    BY <2>3, <2>4, <2>5, <2>6, <2>7, <2>8
<1> HIDE DEF Q
<1>3. \A s \in SUBSET S : s \in Q
  BY <1>1, <1>2, SubsetInduction
<1> QED
  BY <1>3 DEF Q

\* A sum is bounded by the largest summand and their number.
LEMMA SumBound ==
    ASSUME NEW S, IsFiniteSet(S), NEW f, NEW m \in Nat,
           \A y \in S : f[y] \in 0..m
    PROVE  SumFunctionOnSet(f, S) <= Cardinality(S) * m
<1> DEFINE Q == {s \in SUBSET S : SumFunctionOnSet(f, s) <= Cardinality(s) * m}
<1>1. {} \in Q
  BY SumEmpty, FS_EmptySet
<1>2. ASSUME NEW s \in SUBSET S, s # {}, \A y \in s : s \ {y} \in Q PROVE s \in Q
  <2>1. PICK y \in s : TRUE
    BY <1>2
  <2>2. IsFiniteSet(s) /\ IsFiniteSet(s \ {y}) /\ \A z \in s : f[z] \in Nat
    BY FS_Subset
  <2>3. SumFunctionOnSet(f, s) = f[y] + SumFunctionOnSet(f, s \ {y})
    BY <2>2, SumRemove
  <2>4. SumFunctionOnSet(f, s \ {y}) \in Nat
    BY <2>2, SumType
  <2>5. Cardinality(s) \in Nat /\ Cardinality(s \ {y}) = Cardinality(s) - 1
    BY <2>2, FS_RemoveElement, FS_CardinalityType
  <2>6. SumFunctionOnSet(f, s \ {y}) <= Cardinality(s \ {y}) * m
    BY <1>2
  <2>7. (Cardinality(s) - 1) * m = Cardinality(s) * m - m /\ Cardinality(s) * m \in Int
    BY <2>5
  <2>8. f[y] \in 0..m
    OBVIOUS
  <2> QED
    BY <2>3, <2>4, <2>5, <2>6, <2>7, <2>8
<1> HIDE DEF Q
<1>3. \A s \in SUBSET S : s \in Q
  BY <1>1, <1>2, SubsetInduction
<1> QED
  BY <1>3 DEF Q
-----------------------------------------------------------------------------
(* Orders and sorting *)

\* R is a strict total order on S.
StrictOrder(R, S) ==
    /\ \A i \in S : <<i, i>> \notin R
    /\ \A i, j, k \in S : <<i, j>> \in R /\ <<j, k>> \in R => <<i, k>> \in R
    /\ \A i, j \in S : i # j => <<i, j>> \in R \/ <<j, i>> \in R

\* The elements of S that are below i.
Below(R, S, i) == {j \in S : <<j, i>> \in R}

\* Counting what is below them numbers the elements of an ordered finite set.
LEMMA Ranks ==
    ASSUME NEW n \in Nat, NEW R, StrictOrder(R, 1..n)
    PROVE  /\ \A i \in 1..n : Cardinality(Below(R, 1..n, i)) \in 0..(n - 1)
           /\ \A i, j \in 1..n : <<i, j>> \in R =>
                Cardinality(Below(R, 1..n, i)) < Cardinality(Below(R, 1..n, j))
           /\ \A m \in 1..n : \E i \in 1..n : Cardinality(Below(R, 1..n, i)) = m - 1
<1> DEFINE D == 1..n
           B(i) == Below(R, D, i)
           f == [i \in D |-> Cardinality(B(i)) + 1]
<1>0. /\ \A i \in D : <<i, i>> \notin R
      /\ \A i, j, k \in D : <<i, j>> \in R /\ <<j, k>> \in R => <<i, k>> \in R
      /\ \A i, j \in D : i # j => <<i, j>> \in R \/ <<j, i>> \in R
  BY DEF StrictOrder
<1>1. IsFiniteSet(D) /\ Cardinality(D) = n
  BY FS_Interval
<1> HIDE DEF D
<1>2. \A i \in D : B(i) \subseteq D /\ i \notin B(i)
  BY <1>0 DEF Below
<1>3. ASSUME NEW i \in D
      PROVE  IsFiniteSet(B(i)) /\ Cardinality(B(i)) \in Nat /\ Cardinality(B(i)) <= n - 1
  <2>1. B(i) \in SUBSET (D \ {i})
    BY <1>2
  <2>2. IsFiniteSet(D \ {i}) /\ Cardinality(D \ {i}) = n - 1
    BY <1>1, FS_RemoveElement
  <2> HIDE DEF B
  <2>3. IsFiniteSet(B(i)) /\ Cardinality(B(i)) <= Cardinality(D \ {i})
    BY <2>1, <2>2, FS_Subset
  <2> QED
    BY <2>2, <2>3, FS_CardinalityType
<1>4. ASSUME NEW i \in D, NEW j \in D, <<i, j>> \in R
      PROVE  Cardinality(B(i)) < Cardinality(B(j))
  <2>1. B(i) \in SUBSET B(j) /\ i \in B(j)
    BY <1>0, <1>4 DEF Below
  <2>2. i \notin B(i)
    BY <1>2
  <2> HIDE DEF B
  <2>3. Cardinality(B(i)) <= Cardinality(B(j)) /\ Cardinality(B(j)) # Cardinality(B(i))
    BY <1>3, <2>1, <2>2, FS_Subset
  <2> QED
    BY <1>3, <2>3
<1> HIDE DEF B
<1>5. f \in Injection(D, D)
  <2>1. f \in [D -> D]
    BY <1>3 DEF D
  <2>2. ASSUME NEW i \in D, NEW j \in D, f[i] = f[j] PROVE i = j
    <3>1. ~(Cardinality(B(i)) < Cardinality(B(j))) /\ ~(Cardinality(B(j)) < Cardinality(B(i)))
      BY <1>3, <2>2
    <3> QED
      BY <1>0, <1>4, <3>1
  <2> HIDE DEF f
  <2> QED
    BY <2>1, <2>2 DEF Injection, IsInjective
<1>6. f \in Surjection(D, D)
  <2> HIDE DEF f
  <2> QED
    BY <1>1, <1>5, FS_Injection
<1>7. \A m \in D : \E i \in D : f[i] = m
  <2> HIDE DEF f
  <2> QED
    BY <1>6 DEF Surjection
<1>8. \A m \in D : \E i \in D : Cardinality(B(i)) = m - 1
  <2> SUFFICES ASSUME NEW m \in D PROVE \E i \in D : Cardinality(B(i)) = m - 1
    OBVIOUS
  <2>1. PICK i \in D : f[i] = m
    BY <1>7
  <2>2. Cardinality(B(i)) + 1 = m /\ Cardinality(B(i)) \in Nat
    BY <1>3, <2>1
  <2> QED
    BY <2>2
<1> QED
  BY <1>3, <1>4, <1>8 DEF D, B
\* Lexicographic order on vectors of n bits.
LexLess(n, d, e) ==
    \E i \in 1..n : d[i] < e[i] /\ \A j \in 1..(i - 1) : d[j] = e[j]

\* Vectors of bits are ordered by the first bit in which they differ.
LEMMA LexOrder ==
    ASSUME NEW n \in Nat, NEW d \in [1..n -> {0, 1}], NEW e \in [1..n -> {0, 1}]
    PROVE  /\ ~LexLess(n, d, d)
           /\ LexLess(n, d, e) => ~LexLess(n, e, d)
           /\ d # e => LexLess(n, d, e) \/ LexLess(n, e, d)
           /\ \A f \in [1..n -> {0, 1}] : LexLess(n, d, e) /\ LexLess(n, e, f) => LexLess(n, d, f)
<1>0. /\ \A i \in 1..n : d[i] \in {0, 1} /\ e[i] \in {0, 1}
      /\ 1..n \subseteq Nat /\ \A i \in 1..n : \A j \in 1..(i - 1) : j \in 1..n
      /\ \A i, j \in 1..n : j < i => j \in 1..(i - 1)
  OBVIOUS
<1>1. ~LexLess(n, d, d)
  BY <1>0 DEF LexLess
<1>2. ASSUME NEW f \in [1..n -> {0, 1}], LexLess(n, d, e), LexLess(n, e, f) PROVE LexLess(n, d, f)
  <2>0. \A i \in 1..n : f[i] \in {0, 1}
    OBVIOUS
  <2>1. PICK i \in 1..n : d[i] < e[i] /\ \A j \in 1..(i - 1) : d[j] = e[j]
    BY <1>2 DEF LexLess
  <2>2. PICK k \in 1..n : e[k] < f[k] /\ \A j \in 1..(k - 1) : e[j] = f[j]
    BY <1>2 DEF LexLess
  <2>3. CASE i < k
    <3>1. d[i] < f[i] /\ \A j \in 1..(i - 1) : d[j] = f[j]
      <4>1. i \in 1..(k - 1) /\ \A j \in 1..(i - 1) : j \in 1..(k - 1)
        BY <1>0, <2>3
      <4> QED
        BY <2>1, <2>2, <4>1
    <3> QED
      BY <3>1 DEF LexLess
  <2>4. CASE k < i
    <3>1. d[k] < f[k] /\ \A j \in 1..(k - 1) : d[j] = f[j]
      <4>1. k \in 1..(i - 1) /\ \A j \in 1..(k - 1) : j \in 1..(i - 1)
        BY <1>0, <2>4
      <4> QED
        BY <2>1, <2>2, <4>1
    <3> QED
      BY <3>1 DEF LexLess
  <2>5. CASE i = k
    BY <1>0, <2>0, <2>1, <2>2, <2>5
  <2> QED
    BY <1>0, <2>3, <2>4, <2>5
<1>3. ASSUME d # e PROVE LexLess(n, d, e) \/ LexLess(n, e, d)
  <2> DEFINE Df == {i \in 1..n : d[i] # e[i]}
  <2>1. Df # {}
    <3>1. ASSUME \A i \in 1..n : d[i] = e[i] PROVE FALSE
      BY <1>3, <3>1
    <3> QED
      BY <3>1
  <2>2. Df \in SUBSET Nat
    BY <1>0
  <2> HIDE DEF Df
  <2>3. PICK i \in Df : \A j \in Df : i <= j
    BY <2>1, <2>2, LeastNat
  <2>4. i \in 1..n /\ d[i] # e[i]
    BY DEF Df
  <2>5. \A j \in 1..(i - 1) : d[j] = e[j]
    <3> SUFFICES ASSUME NEW j \in 1..(i - 1), d[j] # e[j] PROVE FALSE
      OBVIOUS
    <3>1. j \in Df /\ j < i
      BY <1>0, <2>4 DEF Df
    <3> QED
      BY <1>0, <2>3, <2>4, <3>1
  <2>6. d[i] < e[i] \/ e[i] < d[i]
    BY <1>0, <2>4
  <2> QED
    BY <2>4, <2>5, <2>6 DEF LexLess
<1>4. LexLess(n, d, e) => ~LexLess(n, e, d)
  BY <1>1, <1>2
<1> QED
  BY <1>1, <1>2, <1>3, <1>4


\* The order of the positions 1..n by their keys k in the order L of keys; equal
\* keys keep their order.
StableOrder(L, k, n) ==
    {p \in (1..n) \X (1..n) : \/ <<k[p[1]], k[p[2]]>> \in L
                              \/ k[p[1]] = k[p[2]] /\ p[1] < p[2]}

LEMMA StableOrderFacts ==
    ASSUME NEW K, NEW L, StrictOrder(L, K), NEW n \in Nat, NEW k \in [1..n -> K]
    PROVE  StrictOrder(StableOrder(L, k, n), 1..n)
<1> DEFINE D == 1..n
           R == StableOrder(L, k, n)
<1>1. \A i, j \in D : <<i, j>> \in R <=> <<k[i], k[j]>> \in L \/ (k[i] = k[j] /\ i < j)
  BY DEF StableOrder
<1>2. D \subseteq Nat
  OBVIOUS
<1>3. \A i \in D : k[i] \in K
  OBVIOUS
<1>4. /\ \A x \in K : <<x, x>> \notin L
      /\ \A x, y, z \in K : <<x, y>> \in L /\ <<y, z>> \in L => <<x, z>> \in L
      /\ \A x, y \in K : x # y => <<x, y>> \in L \/ <<y, x>> \in L
  BY DEF StrictOrder
<1> HIDE DEF D, R
<1>5. ASSUME NEW i \in D PROVE <<i, i>> \notin R
  <2>1. ~(i < i)
    BY <1>2
  <2> QED
    BY <1>1, <1>3, <1>4, <2>1
<1>6. ASSUME NEW i \in D, NEW j \in D, NEW l \in D, <<i, j>> \in R, <<j, l>> \in R
      PROVE  <<i, l>> \in R
  <2>1. i < j /\ j < l => i < l
    BY <1>2
  <2> QED
    BY <1>1, <1>3, <1>4, <1>6, <2>1
<1>7. ASSUME NEW i \in D, NEW j \in D, i # j PROVE <<i, j>> \in R \/ <<j, i>> \in R
  <2>1. i < j \/ j < i
    BY <1>2, <1>7
  <2> QED
    BY <1>1, <1>3, <1>4, <2>1
<1> QED
  BY <1>5, <1>6, <1>7 DEF StrictOrder, D, R

\* How many of the positions 1..n go before position i.
Ahead(R, n, i) == Cardinality(Below(R, 1..n, i))

\* No two positions have as many before them.
LEMMA AheadInjective ==
    ASSUME NEW n \in Nat, NEW R, StrictOrder(R, 1..n),
           NEW i \in 1..n, NEW j \in 1..n, Ahead(R, n, i) = Ahead(R, n, j)
    PROVE  i = j
<1>1. \A l \in 1..n : Ahead(R, n, l) \in Nat
  BY Ranks DEF Ahead
<1>2. ~(Ahead(R, n, i) < Ahead(R, n, j)) /\ ~(Ahead(R, n, j) < Ahead(R, n, i))
  BY <1>1
<1>3. <<i, j>> \notin R /\ <<j, i>> \notin R
  BY <1>2, Ranks DEF Ahead
<1> QED
  BY <1>3 DEF StrictOrder

\* The first n elements of s in the order R of its positions.
Arranged(R, s, n) ==
    [m \in 1..n |-> s[CHOOSE i \in 1..Len(s) : Ahead(R, Len(s), i) = m - 1]]

\* The m-th is the element with m - 1 ahead of it.
LEMMA ArrangedAt ==
    ASSUME NEW N, NEW s \in Seq(N), NEW R, StrictOrder(R, 1..Len(s)),
           NEW n \in 0..Len(s), NEW m \in 1..n,
           NEW i \in 1..Len(s), Ahead(R, Len(s), i) = m - 1
    PROVE  Arranged(R, s, n)[m] = s[i]
<1> DEFINE c == CHOOSE j \in 1..Len(s) : Ahead(R, Len(s), j) = m - 1
<1>1. c \in 1..Len(s) /\ Ahead(R, Len(s), c) = m - 1
  OBVIOUS
<1>2. Arranged(R, s, n)[m] = s[c]
  BY DEF Arranged
<1> HIDE DEF c
<1>3. Len(s) \in Nat
  OBVIOUS
<1>4. c = i
  BY <1>1, <1>3, AheadInjective
<1> QED
  BY <1>2, <1>4

-----------------------------------------------------------------------------
(* One list embedded in another *)

\* s is t without some of the elements that are in Far.
Embeds(phi, s, t, Far) ==
    /\ phi \in [1..Len(s) -> 1..Len(t)]
    /\ \A i, j \in 1..Len(s) : i < j => phi[i] < phi[j]
    /\ \A i \in 1..Len(s) : t[phi[i]] = s[i]
    /\ \A j \in 1..Len(t) : (\E i \in 1..Len(s) : phi[i] = j) \/ t[j] \in Far

\* A list is not shorter than one embedded in it.
LEMMA EmbedLen ==
    ASSUME NEW N, NEW s \in Seq(N), NEW t \in Seq(N), NEW Far, NEW phi, Embeds(phi, s, t, Far)
    PROVE  Len(s) <= Len(t)
<1>1. Len(s) \in Nat /\ Len(t) \in Nat
  OBVIOUS
<1>2. phi \in Injection(1..Len(s), 1..Len(t))
  <2>1. phi \in [1..Len(s) -> 1..Len(t)]
    BY DEF Embeds
  <2>2. ASSUME NEW i \in 1..Len(s), NEW j \in 1..Len(s), phi[i] = phi[j] PROVE i = j
    <3>1. i < j \/ j < i \/ i = j
      OBVIOUS
    <3>2. ~(phi[i] < phi[j]) /\ ~(phi[j] < phi[i])
      BY <2>1, <2>2
    <3> QED
      BY <3>1, <3>2 DEF Embeds
  <2> QED
    BY <2>1, <2>2 DEF Injection, IsInjective
<1>3. /\ IsFiniteSet(1..Len(t)) /\ Cardinality(1..Len(t)) = Len(t)
      /\ Cardinality(1..Len(s)) = Len(s)
  <2>1. \A n \in Nat : IsFiniteSet(1..n) /\ Cardinality(1..n) = n
    BY FS_Interval
  <2> QED
    BY <1>1, <2>1
<1>4. Cardinality(1..Len(s)) <= Cardinality(1..Len(t))
  BY <1>2, <1>3, FS_Injection
<1> QED
  BY <1>3, <1>4

LEMMA EmbedSelf ==
    ASSUME NEW N, NEW s \in Seq(N), NEW Far
    PROVE  \E phi : Embeds(phi, s, s, Far)
<1> DEFINE phi == [i \in 1..Len(s) |-> i]
<1>1. Embeds(phi, s, s, Far)
  BY DEF Embeds
<1> QED
  BY <1>1

LEMMA EmbedNone ==
    ASSUME NEW N, NEW t \in Seq(N), NEW Far, \A j \in 1..Len(t) : t[j] \in Far
    PROVE  \E phi : Embeds(phi, <<>>, t, Far)
<1> DEFINE phi == [i \in 1..0 |-> i]
<1>1. Len(<<>>) = 0 /\ 1..0 = {}
  OBVIOUS
<1>2. Embeds(phi, <<>>, t, Far)
  BY <1>1 DEF Embeds
<1> QED
  BY <1>2

\* Embeddings are put one after the other.
LEMMA EmbedConcat ==
    ASSUME NEW N, NEW Far, NEW s \in Seq(N), NEW t \in Seq(N), NEW u \in Seq(N), NEW v \in Seq(N),
           \E phi : Embeds(phi, s, t, Far), \E phi : Embeds(phi, u, v, Far)
    PROVE  \E phi : Embeds(phi, s \o u, t \o v, Far)
<1>1. PICK p : Embeds(p, s, t, Far)
  OBVIOUS
<1>2. PICK q : Embeds(q, u, v, Far)
  OBVIOUS
<1> DEFINE a == s \o u
           b == t \o v
           phi == [i \in 1..(Len(s) + Len(u)) |->
                     IF i <= Len(s) THEN p[i] ELSE Len(t) + q[i - Len(s)]]
<1>3. /\ Len(s) \in Nat /\ Len(t) \in Nat /\ Len(u) \in Nat /\ Len(v) \in Nat
  OBVIOUS
<1>4. /\ Len(a) = Len(s) + Len(u)
      /\ \A i \in 1..(Len(s) + Len(u)) : a[i] = IF i <= Len(s) THEN s[i] ELSE u[i - Len(s)]
  BY ConcatProperties
<1>5. /\ Len(b) = Len(t) + Len(v)
      /\ \A i \in 1..(Len(t) + Len(v)) : b[i] = IF i <= Len(t) THEN t[i] ELSE v[i - Len(t)]
  BY ConcatProperties
<1> HIDE DEF a, b
<1>6. /\ p \in [1..Len(s) -> 1..Len(t)]
      /\ \A i, j \in 1..Len(s) : i < j => p[i] < p[j]
      /\ \A i \in 1..Len(s) : t[p[i]] = s[i]
      /\ \A j \in 1..Len(t) : (\E i \in 1..Len(s) : p[i] = j) \/ t[j] \in Far
  BY <1>1 DEF Embeds
<1>7. /\ q \in [1..Len(u) -> 1..Len(v)]
      /\ \A i, j \in 1..Len(u) : i < j => q[i] < q[j]
      /\ \A i \in 1..Len(u) : v[q[i]] = u[i]
      /\ \A j \in 1..Len(v) : (\E i \in 1..Len(u) : q[i] = j) \/ v[j] \in Far
  BY <1>2 DEF Embeds
\* The two halves of a position.
<1>8. ASSUME NEW i \in 1..(Len(s) + Len(u)), i <= Len(s)
      PROVE  i \in 1..Len(s) /\ phi[i] = p[i] /\ p[i] \in 1..Len(t)
  BY <1>3, <1>6, <1>8
<1>9. ASSUME NEW i \in 1..(Len(s) + Len(u)), ~(i <= Len(s))
      PROVE  /\ i - Len(s) \in 1..Len(u) /\ phi[i] = Len(t) + q[i - Len(s)]
             /\ q[i - Len(s)] \in 1..Len(v)
  <2>1. i - Len(s) \in 1..Len(u)
    BY <1>3, <1>9
  <2>2. q[i - Len(s)] \in 1..Len(v)
    <3> DEFINE k == i - Len(s)
    <3> HIDE DEF k, phi
    <3>1. k \in 1..Len(u)
      BY <2>1 DEF k
    <3>2. q[k] \in 1..Len(v)
      BY <1>7, <3>1
    <3> QED
      BY <3>2 DEF k
  <2>3. phi[i] = Len(t) + q[i - Len(s)]
    BY <1>9
  <2> QED
    BY <2>1, <2>2, <2>3
<1>10. phi \in [1..Len(a) -> 1..Len(b)]
  <2>1. \A i \in 1..(Len(s) + Len(u)) : phi[i] \in 1..(Len(t) + Len(v))
    BY <1>3, <1>8, <1>9
  <2> QED
    BY <1>4, <1>5, <2>1
<1> HIDE DEF phi
<1>11. ASSUME NEW i \in 1..Len(a), NEW j \in 1..Len(a), i < j PROVE phi[i] < phi[j]
  <2>1. CASE j <= Len(s)
    BY <1>3, <1>4, <1>6, <1>8, <1>11, <2>1
  <2>2. CASE ~(i <= Len(s))
    <3> DEFINE k == i - Len(s)
               l == j - Len(s)
    <3>1. ~(j <= Len(s)) /\ k < l
      BY <1>3, <1>4, <1>11, <2>2
    <3>2. k \in 1..Len(u) /\ phi[i] = Len(t) + q[k] /\ q[k] \in 1..Len(v)
      BY <1>4, <1>9, <2>2
    <3>3. l \in 1..Len(u) /\ phi[j] = Len(t) + q[l] /\ q[l] \in 1..Len(v)
      BY <1>4, <1>9, <3>1
    <3> HIDE DEF k, l
    <3>4. q[k] < q[l]
      BY <1>7, <3>1, <3>2, <3>3
    <3> QED
      BY <1>3, <3>2, <3>3, <3>4
  <2>3. CASE i <= Len(s) /\ ~(j <= Len(s))
    BY <1>3, <1>4, <1>8, <1>9, <2>3
  <2> QED
    BY <1>3, <1>11, <2>1, <2>2, <2>3
<1>12. ASSUME NEW i \in 1..Len(a) PROVE b[phi[i]] = a[i]
  <2>1. CASE i <= Len(s)
    <3>1. i \in 1..Len(s) /\ phi[i] = p[i] /\ p[i] \in 1..Len(t) /\ a[i] = s[i]
      BY <1>4, <1>8, <2>1
    <3>2. b[p[i]] = t[p[i]]
      BY <1>3, <1>5, <3>1
    <3> QED
      BY <1>6, <3>1, <3>2
  <2>2. CASE ~(i <= Len(s))
    <3> DEFINE k == i - Len(s)
    <3>1. k \in 1..Len(u) /\ phi[i] = Len(t) + q[k] /\ q[k] \in 1..Len(v) /\ a[i] = u[k]
      BY <1>4, <1>9, <2>2
    <3> HIDE DEF k
    <3>2. b[Len(t) + q[k]] = v[q[k]]
      <4>1. Len(t) + q[k] \in 1..(Len(t) + Len(v)) /\ ~(Len(t) + q[k] <= Len(t))
            /\ (Len(t) + q[k]) - Len(t) = q[k]
        BY <1>3, <3>1
      <4> QED
        BY <1>5, <4>1
    <3> QED
      BY <1>7, <3>1, <3>2
  <2> QED
    BY <2>1, <2>2
<1>13. ASSUME NEW j \in 1..Len(b) PROVE (\E i \in 1..Len(a) : phi[i] = j) \/ b[j] \in Far
  <2>1. CASE j <= Len(t)
    <3>1. j \in 1..Len(t) /\ b[j] = t[j]
      BY <1>3, <1>5, <2>1
    <3>2. ASSUME NEW i \in 1..Len(s), p[i] = j PROVE \E l \in 1..Len(a) : phi[l] = j
      <4>1. i \in 1..(Len(s) + Len(u)) /\ i <= Len(s)
        BY <1>3
      <4> QED
        BY <1>4, <1>8, <3>2, <4>1
    <3> QED
      BY <1>6, <3>1, <3>2
  <2>2. CASE ~(j <= Len(t))
    <3> DEFINE k == j - Len(t)
    <3>1. k \in 1..Len(v) /\ b[j] = v[k] /\ j = Len(t) + k
      BY <1>3, <1>5, <2>2
    <3> HIDE DEF k
    <3>2. ASSUME NEW i \in 1..Len(u), q[i] = k PROVE \E l \in 1..Len(a) : phi[l] = j
      <4> DEFINE l == Len(s) + i
      <4>1. l \in 1..(Len(s) + Len(u)) /\ ~(l <= Len(s)) /\ l - Len(s) = i
        BY <1>3
      <4>2. phi[l] = Len(t) + q[i]
        BY <1>9, <4>1
      <4> QED
        BY <1>4, <3>1, <3>2, <4>1, <4>2
    <3> QED
      BY <1>7, <3>1, <3>2
  <2> QED
    BY <2>1, <2>2
<1>14. Embeds(phi, a, b, Far)
  BY <1>10, <1>11, <1>12, <1>13 DEF Embeds
<1> QED
  BY <1>14 DEF a, b
\* When what was left out goes after everything that was not, the sorted list
\* begins as it would have begun without it.
LEMMA ArrangedEmbeds ==
    ASSUME NEW N, NEW s \in Seq(N), NEW t \in Seq(N), NEW Far, NEW phi, Embeds(phi, s, t, Far),
           NEW R, StrictOrder(R, 1..Len(s)), NEW Q, StrictOrder(Q, 1..Len(t)),
           \A i, j \in 1..Len(s) : <<i, j>> \in R <=> <<phi[i], phi[j]>> \in Q,
           \A i \in 1..Len(s), j \in 1..Len(t) : t[j] \in Far => <<j, phi[i]>> \notin Q,
           NEW n \in 0..Len(s)
    PROVE  Arranged(R, s, n) = Arranged(Q, t, n)
<1>0. Len(s) \in Nat /\ Len(t) \in Nat /\ Len(s) <= Len(t)
  BY EmbedLen
<1>1. /\ phi \in [1..Len(s) -> 1..Len(t)]
      /\ \A i, j \in 1..Len(s) : i < j => phi[i] < phi[j]
      /\ \A i \in 1..Len(s) : t[phi[i]] = s[i]
      /\ \A j \in 1..Len(t) : (\E i \in 1..Len(s) : phi[i] = j) \/ t[j] \in Far
  BY DEF Embeds
<1>3. ASSUME NEW i \in 1..Len(s), NEW j \in 1..Len(t), <<j, phi[i]>> \in Q
      PROVE  \E l \in 1..Len(s) : phi[l] = j
  BY <1>1, <1>3
<1>4. ASSUME NEW i \in 1..Len(s) PROVE Ahead(Q, Len(t), phi[i]) = Ahead(R, Len(s), i)
  <2> DEFINE A == {j \in 1..Len(s) : <<j, i>> \in R}
             B == {j \in 1..Len(t) : <<j, phi[i]>> \in Q}
             f == [j \in A |-> phi[j]]
  <2>1. f \in Bijection(A, B)
    <3>1. f \in [A -> B]
      BY <1>1
    <3>2. ASSUME NEW j \in A, NEW k \in A, f[j] = f[k] PROVE j = k
      <4>1. phi[j] = phi[k] /\ j \in 1..Len(s) /\ k \in 1..Len(s)
        BY <3>2
      <4>2. phi[j] \in Nat /\ j \in Nat /\ k \in Nat
        BY <1>1, <4>1
      <4>3. ~(j < k) /\ ~(k < j)
        <5>1. ~(phi[j] < phi[k]) /\ ~(phi[k] < phi[j])
          BY <4>1, <4>2
        <5> QED
          BY <1>1, <4>1, <5>1
      <4> QED
        BY <4>2, <4>3
    <3>3. ASSUME NEW k \in B PROVE \E j \in A : f[j] = k
      <4>1. PICK j \in 1..Len(s) : phi[j] = k
        BY <1>3
      <4>2. j \in A
        BY <4>1
      <4> QED
        BY <4>1, <4>2
    <3> HIDE DEF f, A, B
    <3>4. f \in Injection(A, B)
      BY <3>1, <3>2 DEF Injection, IsInjective
    <3>5. f \in Surjection(A, B)
      BY <3>1, <3>3 DEF Surjection
    <3> QED
      BY <3>4, <3>5 DEF Bijection
  <2>2. IsFiniteSet(A)
    <3>1. IsFiniteSet(1..Len(s)) /\ A \in SUBSET (1..Len(s))
      BY <1>0, FS_Interval
    <3> HIDE DEF A
    <3> QED
      BY <3>1, FS_Subset
  <2>3. Ahead(R, Len(s), i) = Cardinality(A) /\ Ahead(Q, Len(t), phi[i]) = Cardinality(B)
    BY DEF Ahead, Below
  <2> HIDE DEF f, A, B
  <2>4. Cardinality(B) = Cardinality(A)
    BY <2>1, <2>2, FS_Bijection DEF ExistsBijection
  <2> QED
    BY <2>3, <2>4
<1>5. ASSUME NEW m \in 1..n PROVE Arranged(R, s, n)[m] = Arranged(Q, t, n)[m]
  <2>1. m \in 1..Len(s) /\ n \in 0..Len(t)
    BY <1>0
  <2>2. PICK i \in 1..Len(s) : Ahead(R, Len(s), i) = m - 1
    BY <1>0, <2>1, Ranks DEF Ahead
  <2>3. Arranged(R, s, n)[m] = s[i]
    BY <2>2, ArrangedAt
  <2>4. phi[i] \in 1..Len(t) /\ Ahead(Q, Len(t), phi[i]) = m - 1 /\ t[phi[i]] = s[i]
    BY <1>1, <1>4, <2>2
  <2>5. Arranged(Q, t, n)[m] = t[phi[i]]
    BY <2>1, <2>4, ArrangedAt
  <2> QED
    BY <2>3, <2>4, <2>5
<1>6. /\ Arranged(R, s, n) = [m \in 1..n |-> Arranged(R, s, n)[m]]
      /\ Arranged(Q, t, n) = [m \in 1..n |-> Arranged(Q, t, n)[m]]
  BY DEF Arranged
<1> QED
  BY <1>5, <1>6

-----------------------------------------------------------------------------
(* FlattenSeq *)

\* F holds what FlattenSeq has put together after each of n sequences.
Flattens(F, seqs, n) ==
  /\ F[1] = seqs[1]
  /\ \A i \in 1 .. n : i # 1 => F[i] = F[i - 1] \o seqs[i]

\* What FlattenSeq computes is what its recursion says, whichever function
\* satisfies it.
LEMMA FlattenIs ==
  ASSUME NEW n \in Nat \ {0}, NEW seqs, Len(seqs) = n,
         NEW T, NEW F \in [1 .. n -> T], Flattens(F, seqs, n)
  PROVE  FlattenSeq(seqs) = F[n]
<1> DEFINE Solves(f) == f = [i \in 1 .. n |-> IF i = 1 THEN seqs[i] ELSE f[i - 1] \o seqs[i]]
           f == CHOOSE g : Solves(g)
<1>0. F[1] = seqs[1] /\ \A i \in 1 .. n : i # 1 => F[i] = F[i - 1] \o seqs[i]
  BY DEF Flattens
<1>1. Solves(F)
  <2>1. \A i \in 1 .. n : F[i] = IF i = 1 THEN seqs[i] ELSE F[i - 1] \o seqs[i]
    BY <1>0
  <2> QED
    BY <2>1
<1>2. Solves(f)
  BY <1>1
<1>3. FlattenSeq(seqs) = f[n]
  BY DEF FlattenSeq
<1>4. \A i \in 1 .. n : f[i] = IF i = 1 THEN seqs[i] ELSE f[i - 1] \o seqs[i]
  BY <1>2
<1> HIDE DEF f
<1> DEFINE P == {k \in Nat : k + 1 <= n => f[k + 1] = F[k + 1]}
<1>5. 0 \in P
  BY <1>0, <1>4
<1>6. ASSUME NEW k \in Nat, k \in P PROVE k + 1 \in P
  <2>1. SUFFICES ASSUME (k + 1) + 1 <= n PROVE f[(k + 1) + 1] = F[(k + 1) + 1]
    OBVIOUS
  <2> DEFINE i == (k + 1) + 1
  <2>2. i \in 1 .. n /\ i # 1 /\ i - 1 = k + 1 /\ k + 1 <= n
    BY <2>1
  <2>3. f[k + 1] = F[k + 1]
    BY <1>6, <2>2
  <2> HIDE DEF i
  <2>4. f[i] = f[i - 1] \o seqs[i] /\ f[i - 1] = F[i - 1]
    <3>1. f[i] = f[i - 1] \o seqs[i]
      BY <1>4, <2>2
    <3>2. f[i - 1] = F[i - 1]
      BY <2>2, <2>3
    <3> QED
      BY <3>1, <3>2
  <2>5. F[i] = F[i - 1] \o seqs[i]
    BY <1>0, <2>2
  <2>6. f[i] = F[i]
    BY <2>4, <2>5
  <2> QED
    BY <2>6 DEF i
<1> HIDE DEF P
<1>7. n - 1 \in P
  <2>1. \A k \in Nat : k \in P
    BY <1>5, <1>6, NatSetInduction
  <2> QED
    BY <2>1
<1>8. (n - 1) + 1 = n
  OBVIOUS
<1> QED
  BY <1>3, <1>7, <1>8 DEF P

\* ... and there is such a function.
LEMMA FlattenSteps ==
  ASSUME NEW S, NEW n \in Nat \ {0}, NEW seqs \in [1 .. n -> Seq(S)]
  PROVE  \E F \in [1 .. n -> Seq(S)] : Flattens(F, seqs, n) /\ FlattenSeq(seqs) = F[n]
<1> DEFINE P == {k \in Nat : k + 1 <= n =>
                   \E F \in [1 .. k + 1 -> Seq(S)] : Flattens(F, seqs, k + 1)}
<1>1. 0 \in P
  <2> DEFINE F == [i \in 1 .. 1 |-> seqs[1]]
  <2>1. F \in [1 .. 0 + 1 -> Seq(S)] /\ Flattens(F, seqs, 0 + 1)
    BY DEF Flattens
  <2> HIDE DEF F
  <2> QED
    BY <2>1
<1>2. ASSUME NEW k \in Nat, k \in P PROVE k + 1 \in P
  <2>1. SUFFICES ASSUME (k + 1) + 1 <= n
                 PROVE  \E F \in [1 .. (k + 1) + 1 -> Seq(S)] : Flattens(F, seqs, (k + 1) + 1)
    OBVIOUS
  <2>2. PICK F \in [1 .. k + 1 -> Seq(S)] : Flattens(F, seqs, k + 1)
    BY <1>2, <2>1
  <2> DEFINE m == (k + 1) + 1
             G == [i \in 1 .. m |-> IF i = m THEN F[i - 1] \o seqs[i] ELSE F[i]]
  <2>3. /\ m \in 1 .. n /\ m # 1 /\ m - 1 = k + 1 /\ m - 1 \in 1 .. k + 1 /\ 1 \in 1 .. k + 1
        /\ \A i \in 1 .. m : i = m \/ i \in 1 .. k + 1
        /\ m \in 1 .. m /\ \A i \in 1 .. k + 1 : i \in 1 .. m /\ i # m
    BY <2>1
  <2> HIDE DEF m
  <2>4. F[m - 1] \o seqs[m] \in Seq(S)
    <3>1. F[m - 1] \in Seq(S) /\ seqs[m] \in Seq(S)
      BY <2>3
    <3> QED
      BY <3>1, ConcatProperties
  <2>5. G \in [1 .. m -> Seq(S)]
    BY <2>3, <2>4
  <2>6. /\ F[1] = seqs[1] /\ \A i \in 1 .. k + 1 : i # 1 => F[i] = F[i - 1] \o seqs[i]
    BY <2>2 DEF Flattens
  <2>a. G[m] = F[m - 1] \o seqs[m]
    BY <2>3
  <2>7. ASSUME NEW i \in 1 .. k + 1 PROVE i \in 1 .. m /\ G[i] = F[i]
    <3>1. i \in 1 .. m /\ i # m
      BY <2>3
    <3> QED
      BY <3>1
  <2> HIDE DEF G
  <2>8. G[1] = seqs[1]
    BY <2>3, <2>6, <2>7
  <2>9. ASSUME NEW i \in 1 .. m, i # 1 PROVE G[i] = G[i - 1] \o seqs[i]
    <3>1. CASE i = m
      BY <2>3, <2>a, <2>7, <3>1
    <3>2. CASE i \in 1 .. k + 1
      <4>1. i - 1 \in 1 .. k + 1
        BY <2>9, <3>2
      <4>2. G[i] = F[i] /\ G[i - 1] = F[i - 1] /\ F[i] = F[i - 1] \o seqs[i]
        BY <2>6, <2>7, <2>9, <3>2, <4>1
      <4> QED
        BY <4>2
    <3> QED
      BY <2>3, <3>1, <3>2
  <2>10. Flattens(G, seqs, m)
    BY <2>8, <2>9 DEF Flattens
  <2> QED
    BY <2>5, <2>10 DEF m
<1> HIDE DEF P
<1>3. n - 1 \in P
  <2>1. \A k \in Nat : k \in P
    BY <1>1, <1>2, NatSetInduction
  <2> QED
    BY <2>1
<1>4. (n - 1) + 1 = n
  OBVIOUS
<1>5. PICK F \in [1 .. n -> Seq(S)] : Flattens(F, seqs, n)
  <2>1. \E F \in [1 .. (n - 1) + 1 -> Seq(S)] : Flattens(F, seqs, (n - 1) + 1)
    BY <1>3, <1>4 DEF P
  <2> QED
    BY <1>4, <2>1
<1>6. Len(seqs) = n
  OBVIOUS
<1>7. FlattenSeq(seqs) = F[n]
  BY <1>5, <1>6, FlattenIs
<1> QED
  BY <1>5, <1>7

\* Lists that are embedded piece by piece are embedded as a whole.
LEMMA FlattenEmbeds ==
  ASSUME NEW S, NEW n \in Nat \ {0}, NEW Far,
         NEW p \in [1 .. n -> Seq(S)], NEW q \in [1 .. n -> Seq(S)],
         \A i \in 1 .. n : \E phi : Embeds(phi, p[i], q[i], Far)
  PROVE  /\ FlattenSeq(p) \in Seq(S) /\ FlattenSeq(q) \in Seq(S)
         /\ \E phi : Embeds(phi, FlattenSeq(p), FlattenSeq(q), Far)
<1>1. PICK F \in [1 .. n -> Seq(S)] : Flattens(F, p, n) /\ FlattenSeq(p) = F[n]
  BY FlattenSteps
<1>2. PICK G \in [1 .. n -> Seq(S)] : Flattens(G, q, n) /\ FlattenSeq(q) = G[n]
  BY FlattenSteps
<1>3. F[1] = p[1] /\ \A i \in 1 .. n : i # 1 => F[i] = F[i - 1] \o p[i]
  BY <1>1 DEF Flattens
<1>4. G[1] = q[1] /\ \A i \in 1 .. n : i # 1 => G[i] = G[i - 1] \o q[i]
  BY <1>2 DEF Flattens
<1> DEFINE P == {k \in Nat : k + 1 <= n => \E phi : Embeds(phi, F[k + 1], G[k + 1], Far)}
<1>5. 0 \in P
  <2>1. 1 \in 1 .. n
    OBVIOUS
  <2>2. \E phi : Embeds(phi, F[1], G[1], Far)
    BY <1>3, <1>4, <2>1
  <2> QED
    BY <2>2
<1>6. ASSUME NEW k \in Nat, k \in P PROVE k + 1 \in P
  <2>1. SUFFICES ASSUME (k + 1) + 1 <= n
                 PROVE  \E phi : Embeds(phi, F[(k + 1) + 1], G[(k + 1) + 1], Far)
    OBVIOUS
  <2> DEFINE i == (k + 1) + 1
             j == k + 1
  <2>2. i \in 1 .. n /\ j \in 1 .. n /\ i # 1 /\ i - 1 = j
    BY <2>1
  <2>3. \E phi : Embeds(phi, F[j], G[j], Far)
    BY <1>6, <2>2
  <2> HIDE DEF i, j
  <2>4. /\ F[j] \in Seq(S) /\ G[j] \in Seq(S) /\ p[i] \in Seq(S) /\ q[i] \in Seq(S)
    BY <2>2
  <2>5. \E phi : Embeds(phi, p[i], q[i], Far)
    BY <2>2
  <2>6. F[i] = F[j] \o p[i] /\ G[i] = G[j] \o q[i]
    <3>1. F[i] = F[i - 1] \o p[i] /\ G[i] = G[i - 1] \o q[i]
      BY <1>3, <1>4, <2>2
    <3> QED
      BY <2>2, <3>1
  <2>7. \E phi : Embeds(phi, F[j] \o p[i], G[j] \o q[i], Far)
    BY <2>3, <2>4, <2>5, EmbedConcat
  <2> QED
    BY <2>6, <2>7 DEF i
<1> HIDE DEF P
<1>7. n - 1 \in P
  <2>1. \A k \in Nat : k \in P
    BY <1>5, <1>6, NatSetInduction
  <2> QED
    BY <2>1
<1>8. \E phi : Embeds(phi, F[n], G[n], Far)
  <2>1. (n - 1) + 1 = n
    OBVIOUS
  <2>2. \E phi : Embeds(phi, F[(n - 1) + 1], G[(n - 1) + 1], Far)
    BY <1>7, <2>1 DEF P
  <2> QED
    BY <2>1, <2>2
<1>9. F[n] \in Seq(S) /\ G[n] \in Seq(S)
  OBVIOUS
<1> QED
  BY <1>1, <1>2, <1>8, <1>9

\* None of the lists that are put together is longer than the whole.
LEMMA FlattenLen ==
  ASSUME NEW S, NEW n \in Nat \ {0}, NEW seqs \in [1 .. n -> Seq(S)], NEW i \in 1 .. n
  PROVE  Len(seqs[i]) <= Len(FlattenSeq(seqs))
<1>1. PICK F \in [1 .. n -> Seq(S)] : Flattens(F, seqs, n) /\ FlattenSeq(seqs) = F[n]
  BY FlattenSteps
<1>2. F[1] = seqs[1] /\ \A j \in 1 .. n : j # 1 => F[j] = F[j - 1] \o seqs[j]
  BY <1>1 DEF Flattens
<1> DEFINE P == {k \in Nat : k + 1 <= n => \A j \in 1 .. k + 1 : Len(seqs[j]) <= Len(F[k + 1])}
<1>3. 0 \in P
  <2>1. \A j \in 1 .. 0 + 1 : j = 1
    OBVIOUS
  <2>2. Len(seqs[1]) <= Len(F[1])
    <3>1. seqs[1] \in Seq(S)
      OBVIOUS
    <3>2. Len(seqs[1]) \in Nat
      BY <3>1
    <3> QED
      BY <1>2, <3>2
  <2> QED
    BY <2>1, <2>2
<1>4. ASSUME NEW k \in Nat, k \in P PROVE k + 1 \in P
  <2>1. SUFFICES ASSUME (k + 1) + 1 <= n, NEW j \in 1 .. (k + 1) + 1
                 PROVE  Len(seqs[j]) <= Len(F[(k + 1) + 1])
    OBVIOUS
  <2> DEFINE m == (k + 1) + 1
             l == k + 1
  <2>2. m \in 1 .. n /\ l \in 1 .. n /\ m # 1 /\ m - 1 = l /\ j \in 1 .. n
        /\ (j = m \/ j \in 1 .. l)
    BY <2>1
  <2>3. j \in 1 .. l => Len(seqs[j]) <= Len(F[l])
    BY <1>4, <2>2
  <2> HIDE DEF m, l
  <2>4. F[l] \in Seq(S) /\ seqs[m] \in Seq(S) /\ seqs[j] \in Seq(S)
    BY <2>2
  <2>5. F[m] = F[l] \o seqs[m]
    <3>1. F[m] = F[m - 1] \o seqs[m]
      BY <1>2, <2>2
    <3> QED
      BY <2>2, <3>1
  <2>6. Len(F[m]) = Len(F[l]) + Len(seqs[m])
    BY <2>4, <2>5, ConcatProperties
  <2>7. Len(F[l]) \in Nat /\ Len(seqs[m]) \in Nat /\ Len(seqs[j]) \in Nat
    BY <2>4
  <2>8. Len(seqs[j]) <= Len(F[m])
    BY <2>2, <2>3, <2>6, <2>7
  <2> QED
    BY <2>8 DEF m
<1> HIDE DEF P
<1>5. n - 1 \in P
  <2>1. \A k \in Nat : k \in P
    BY <1>3, <1>4, NatSetInduction
  <2> QED
    BY <2>1
<1>6. (n - 1) + 1 = n
  OBVIOUS
<1>7. \A j \in 1 .. (n - 1) + 1 : Len(seqs[j]) <= Len(F[(n - 1) + 1])
  BY <1>5, <1>6 DEF P
<1> QED
  BY <1>1, <1>6, <1>7
-----------------------------------------------------------------------------
(* Counting *)

\* A non-empty set of naturals with a bound has a greatest element.
LEMMA GreatestNat ==
    ASSUME NEW n \in Nat, NEW S \in SUBSET (1..n), S # {}
    PROVE  Max(S) \in S /\ \A y \in S : y <= Max(S)
<1> DEFINE T == {n - x : x \in S}
<1>1. \A x \in S : x \in 1..n /\ x \in Nat /\ n - x \in Nat
  OBVIOUS
<1>2. T \in SUBSET Nat /\ T # {}
  BY <1>1
<1> HIDE DEF T
<1>3. PICK z \in T : \A y \in T : z <= y
  BY <1>2, LeastNat
<1>4. PICK x \in S : z = n - x
  BY DEF T
<1>5. ASSUME NEW y \in S PROVE x >= y
  <2>1. n - x <= n - y
    BY <1>3, <1>4 DEF T
  <2> QED
    BY <1>1, <2>1
<1>6. Max(S) \in S /\ \A y \in S : Max(S) >= y
  BY <1>5 DEF Max
<1>7. \A y \in S : Max(S) \in Nat /\ y \in Nat
  BY <1>1, <1>6
<1> QED
  BY <1>6, <1>7

\* In a longer list that begins with a shorter one, as many go before a position
\* only if it is not after that of the shorter list.
LEMMA AheadExtends ==
    ASSUME NEW n \in Nat, NEW m \in Nat, n <= m,
           NEW R, StrictOrder(R, 1..n), NEW Q, StrictOrder(Q, 1..m),
           \A i, j \in 1..n : <<i, j>> \in R <=> <<i, j>> \in Q,
           NEW p \in 1..n, NEW q \in 1..m, Ahead(R, n, p) = Ahead(Q, m, q)
    PROVE  <<p, q>> \notin Q
<1> SUFFICES ASSUME <<p, q>> \in Q PROVE FALSE
  OBVIOUS
<1> DEFINE A == {j \in 1..n : <<j, p>> \in R}
           B == {j \in 1..m : <<j, q>> \in Q}
<1>0. \A i \in 1..n : i \in 1..m
  OBVIOUS
<1>1. Ahead(R, n, p) = Cardinality(A) /\ Ahead(Q, m, q) = Cardinality(B)
  BY DEF Ahead, Below
<1>2. p \notin A /\ p \in B
  BY <1>0 DEF StrictOrder
<1>3. ASSUME NEW j \in A PROVE j \in B
  <2>1. j \in 1..m /\ p \in 1..m /\ <<j, p>> \in Q
    BY <1>0
  <2> QED
    BY <2>1 DEF StrictOrder
<1>4. IsFiniteSet(B)
  <2>1. IsFiniteSet(1..m) /\ B \in SUBSET (1..m)
    BY FS_Interval
  <2> HIDE DEF B
  <2> QED
    BY <2>1, FS_Subset
<1> HIDE DEF A, B
<1>5. A \in SUBSET B
  BY <1>3
<1>6. A = B
  BY <1>1, <1>4, <1>5, FS_Subset
<1> QED
  BY <1>2, <1>6

\* The first of the positions in P: they are not more than asked for.
LEMMA FirstCount ==
    ASSUME NEW n \in Nat, NEW P \in SUBSET (1..n), NEW a \in Nat,
           NEW F, F = {i \in P : Cardinality({j \in P : j < i}) < a}
    PROVE  IsFiniteSet(F) /\ Cardinality(F) \in Nat /\ Cardinality(F) <= a
<1> DEFINE C(i) == {j \in P : j < i}
           f == [i \in F |-> Cardinality(C(i)) + 1]
<1>0. P \subseteq Nat /\ F \subseteq P
  OBVIOUS
<1>1. IsFiniteSet(P)
  <2>1. IsFiniteSet(1..n)
    BY FS_Interval
  <2> QED
    BY <2>1, FS_Subset
<1>2. ASSUME NEW i \in P PROVE IsFiniteSet(C(i)) /\ Cardinality(C(i)) \in Nat
  <2>1. C(i) \in SUBSET P
    OBVIOUS
  <2> HIDE DEF C
  <2> QED
    BY <1>1, <2>1, FS_Subset, FS_CardinalityType
<1>3. ASSUME NEW i \in P, NEW j \in P, i < j PROVE Cardinality(C(i)) # Cardinality(C(j))
  <2>1. C(i) \in SUBSET C(j) /\ i \in C(j) /\ i \notin C(i)
    <3>1. ~(i < i)
      BY <1>0
    <3>2. \A l \in P : l < i => l < j
      BY <1>0, <1>3
    <3> QED
      BY <1>3, <3>1, <3>2
  <2> HIDE DEF C
  <2>2. C(i) # C(j)
    BY <2>1
  <2> QED
    BY <1>2, <2>1, <2>2, FS_Subset
<1>4. \A i \in F : i \in P /\ Cardinality(C(i)) < a
  OBVIOUS
<1> HIDE DEF C
<1>5. f \in Injection(F, 1..a)
  <2>1. f \in [F -> 1..a]
    <3>1. \A i \in F : Cardinality(C(i)) + 1 \in 1..a
      BY <1>2, <1>4
    <3> QED
      BY <3>1
  <2>2. ASSUME NEW i \in F, NEW j \in F, f[i] = f[j] PROVE i = j
    <3>1. Cardinality(C(i)) = Cardinality(C(j))
      BY <1>2, <1>4, <2>2
    <3>2. ~(i < j) /\ ~(j < i)
      BY <1>3, <1>4, <3>1
    <3>3. i \in Nat /\ j \in Nat
      BY <1>0
    <3> QED
      BY <3>2, <3>3
  <2> HIDE DEF f
  <2> QED
    BY <2>1, <2>2 DEF Injection, IsInjective
<1>6. IsFiniteSet(1..a) /\ Cardinality(1..a) = a
  BY FS_Interval
<1> HIDE DEF f
<1>7. IsFiniteSet(F) /\ Cardinality(F) <= a
  BY <1>5, <1>6, FS_Injection
<1> QED
  BY <1>7, FS_CardinalityType
=============================================================================
