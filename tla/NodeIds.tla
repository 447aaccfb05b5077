------------------------------ MODULE NodeIds ------------------------------
(***************************************************************************)
(* Node identifiers and their XOR metric (identity/node_id.rs).  The code   *)
(* uses 256 bits; here an identifier is a vector of W bits, most            *)
(* significant first, so that everything the routing code asks of an        *)
(* identifier - the length of a common prefix, which of two identifiers is  *)
(* closer to a third - keeps its meaning for every W.                       *)
(***************************************************************************)
EXTENDS Integers, FiniteSets, FiniteSetsExt

CONSTANT W   \* bits of an identifier (256 in the code)

ASSUME WAssumption == W \in Nat \ {0}

Bits == 1..W
NodeId == [Bits -> {0, 1}]

\* XOR of two identifiers, bit by bit.
Distance(a, b) == [i \in Bits |-> IF a[i] = b[i] THEN 0 ELSE 1]

\* Number of leading zero bits of a distance; W when the distance is zero.
LeadingZeros(d) ==
    IF \E i \in Bits : d[i] # 0 THEN Min({i \in Bits : d[i] # 0}) - 1 ELSE W

CommonPrefixLength(a, b) == LeadingZeros(Distance(a, b))

\* Distances compare as big-endian byte strings, that is lexicographically.
DistanceLess(d, e) ==
    \E i \in Bits : d[i] < e[i] /\ \A j \in 1..(i - 1) : d[j] = e[j]

\* a is strictly closer to target than b.
Closer(target, a, b) == DistanceLess(Distance(target, a), Distance(target, b))

-----------------------------------------------------------------------------
(* Lists of peers sorted by their distance to target *)

\* sort_by is stable: an identifier that occurs twice keeps its order.
GoesBefore(target, s, i, j) ==
    \/ Closer(target, s[i].node_id, s[j].node_id)
    \/ s[i].node_id = s[j].node_id /\ i < j

\* The first n entries of s in the order of their distance to target: m - 1
\* entries go before the m-th.
SortedPrefix(target, s, n) ==
    [m \in 1..n |-> s[CHOOSE i \in DOMAIN s :
        Cardinality({j \in DOMAIN s : GoesBefore(target, s, j, i)}) = m - 1]]
=============================================================================
