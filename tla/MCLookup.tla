------------------------------ MODULE MCLookup ------------------------------
(* Constants for TLC.  The target is 000, so identifiers are ordered by     *)
(* distance as binary numbers; this node is 111.                            *)
EXTENDS Lookup

ZeroId == <<0, 0, 0>>
OnesId == <<1, 1, 1>>

Addressed(id) == [node_id |-> id, has_addr |-> TRUE]
N1 == Addressed(<<0, 0, 1>>)
N2 == Addressed(<<0, 1, 0>>)
N3 == [node_id |-> <<0, 1, 1>>, has_addr |-> FALSE]
N4 == Addressed(<<1, 0, 0>>)
N5 == Addressed(<<1, 0, 1>>)
Me == Addressed(OnesId)

\* What a routing table starts a lookup with: nothing, fewer peers than the
\* result holds, a full list, and a list with a peer the table holds twice.
MCSeeds == {<<>>, <<N5>>, <<N3, N5>>, <<N2, N4, N5>>, <<N4, N4, N5>>}

\* Any list of up to two of the nodes, sorted or not, with repetitions.
AnyAnswer == SeqOf({N1, N2, N3, N4, Me}, 2)

\* What closest_nodes returns: sorted, without repetition.
SortedAnswer == {s \in AnyAnswer : /\ Me \notin Range(s)
                                   /\ Len(s) = 2 => Farther(s[2], s[1])}
=============================================================================
