----------------------------- MODULE MCPutQuota -----------------------------
EXTENDS PutQuota

CONSTANTS p1, p2, nat

\* Two peers behind one NAT: the counts are per peer, the bucket is shared.
MCIpOf == [p \in Peer |-> nat]
=============================================================================
