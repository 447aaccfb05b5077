--------------------------- MODULE MCRoutingTable ---------------------------
(* Constants for TLC.  This node is 0...0, so bucket 0 takes half of the    *)
(* identifiers, bucket 1 a quarter, and so on.                              *)
EXTENDS RoutingTable

CONSTANTS lan1, wan1

ZeroId == [i \in Bits |-> 0]

\* Five peers of bucket 0: enough to fill a bucket of two and to overflow its
\* replacement cache of two.  All messages come through one address, as from
\* behind a NAT.  This node itself is among the peers: others mention it.
FivePeers == {ZeroId, <<1, 0, 0, 0>>, <<1, 0, 0, 1>>, <<1, 0, 1, 0>>, <<1, 1, 0, 0>>,
              <<1, 1, 1, 0>>}
FiveSourceAddr == [p \in FivePeers |-> {wan1}]
FiveMention == [p \in FivePeers |-> {<<wan1>>}]

\* All address lists up to the bound.
ShortLists == SeqOf(Addr, MaxPeerAddrs)

\* Handlers run the same code.
HandlerSymmetry == Permutations(Handler)

\* Every identifier, this node's own included.
AllSourceAddr == [p \in NodeId |-> {wan1}]
AllMention ==
    [p \in NodeId |-> IF p = <<0, 0, 1>> THEN {<<lan1>>, <<wan1>>} ELSE {<<wan1>>}]
=============================================================================
