----------------------------- MODULE MCTessera -----------------------------
EXTENDS Tessera

CONSTANTS s, p, q, x

\* Nothing; a block in two shards, the second of them padding; two blocks, the
\* second shorter, with one data shard, of which the parity shard is a copy.
MCJobs ==
    {[data |-> <<>>, d |-> 2, p |-> 1],
     [data |-> <<1>>, d |-> 2, p |-> 1],
     [data |-> <<1, 0, 1>>, d |-> 1, p |-> 1]}

\* Chunks that begin with 0 are close to p, the others to q.
MCTargetsOf(c) == IF c.bytes[1] = 0 THEN {p} ELSE {q}
=============================================================================
