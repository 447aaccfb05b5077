------------------------------ MODULE Tessera ------------------------------
(***************************************************************************)
(* do_store_tessera and do_retrieve_tessera of src/src/node.rs: the encoder  *)
(* on its thread, the distributor that keeps every chunk locally and sends   *)
(* it to the peers close to it, the manifest that is written when all that   *)
(* is over, and a node that reads everything back while peers disappear.     *)
(*                                                                           *)
(* closest_nodes is the constant TargetsOf (its first alpha peers); all      *)
(* nodes fit into the k closest that are asked for a chunk.  Peers that fail *)
(* are also reported to the routing table (PeerFailed of RoutingTable), and  *)
(* progress messages to the caller are left out.                             *)
(***************************************************************************)
EXTENDS Erasure

CONSTANTS
    Node, Storer, Reader,
    Liar,           \* nodes that answer GetChunk with something else
    Jobs,           \* what may be stored: data and ErasureConfig
    BlockSize,      \* DEFAULT_BLOCK_SIZE
    Alpha,          \* config.alpha
    TargetsOf(_),   \* the peers that a chunk is sent to
    MaxCrashes,     \* bound: nodes that disappear
    MaxMisses       \* bound: answers that do not arrive while reading

Peer == Node \ {Storer}

ASSUME TesseraAssumption ==
    /\ {Storer, Reader} \subseteq Node /\ Liar \subseteq Peer
    /\ {BlockSize, Alpha} \subseteq Nat \ {0} /\ {MaxCrashes, MaxMisses} \subseteq Nat
    /\ \A j \in Jobs : {j.d, j.p} \subseteq Nat \ {0} /\ j.d + j.p <= 256
                       /\ j.data \in Seq(Nat)

VARIABLES
    job,
    pc,       \* of the store: "run", "join", "manifest", then how it ended
    enc,      \* blocks the encoder has handed over
    taken,    \* blocks the distributor is done with
    putting,  \* the next chunk of the current block, 0: waiting for a block
    queued,   \* distribution tasks that wait for a permit
    flying,   \* those that have one
    stray,    \* puts whose task is gone, but whose request is on its way
    sending,  \* peers that the manifest is on its way to
    disk,     \* chunk stores
    mani,     \* nodes that have the manifest
    up,       \* nodes that answer
    read,     \* state of the reader, its shards, what it got, answers missed
    late      \* history: chunks that nobody had and that then came to a node by
              \* a stray request while the reader was at work

vars == <<job, pc, enc, taken, putting, queued, flying, stray, sending, disk, mani, up,
          read, late>>

storeVars == <<job, pc, enc, taken, putting, queued, flying, stray, sending>>
-----------------------------------------------------------------------------
Total == job.d + job.p
Blocks == NumBlocks(job.data, BlockSize)
Shard(b, i) == Encode(Block(job.data, BlockSize, b), job.d, job.p)[i]

\* TesseraManifest.h
Hashes == [n \in 1 .. Blocks * Total |-> Shard(((n - 1) \div Total) + 1, ((n - 1) % Total) + 1)]

\* PutChunk and AddProvider for every chunk of a block
Tasks(b) ==
    {[block |-> b, chunk |-> i, kind |-> k, to |-> t] :
        i \in 1 .. Total, k \in {"put", "announce"}, t \in Peer}

TasksOf(b) == {t \in Tasks(b) : t.to \in TargetsOf(Shard(b, t.chunk))}

\* Types; the semaphore caps the calls in flight, the channel holds one block.
TypeOK ==
    /\ job \in Jobs
    /\ pc \in {"run", "join", "manifest", "ok", "failed", "crashed"}
    /\ enc \in 0 .. Blocks /\ taken \in 0 .. enc /\ enc - taken <= 2
    /\ putting \in 0 .. Total + 1
    /\ queued \cup flying \cup stray \subseteq UNION {Tasks(b) : b \in 1 .. Blocks}
    /\ queued \cap flying = {} /\ Cardinality(flying) <= Alpha
    /\ sending \subseteq Peer /\ mani \subseteq Node /\ up \subseteq Node
    /\ DOMAIN disk = Node
    /\ read.st \in {"none", "fetch", "ok", "failed", "timeout"}
    /\ Len(read.shards) <= Blocks * Total /\ read.misses \in 0 .. MaxMisses

Init ==
    /\ job \in Jobs
    /\ pc = "run" /\ enc = 0 /\ taken = 0 /\ putting = 0
    /\ queued = {} /\ flying = {} /\ stray = {} /\ sending = {} /\ mani = {}
    /\ disk = [n \in Node |-> {}]
    /\ up = Node
    /\ read = [st |-> "none", shards |-> <<>>, got |-> <<>>, misses |-> 0]
    /\ late = {}
-----------------------------------------------------------------------------
(* The store *)

\* The encoder thread; blocking_send waits while the channel holds a block.
EncodeBlock ==
    /\ pc = "run" /\ enc < Blocks
    /\ Encodable(Block(job.data, BlockSize, enc + 1))
    /\ enc = IF putting = 0 THEN taken ELSE taken + 1
    /\ enc' = enc + 1
    /\ UNCHANGED <<job, pc, taken, putting, queued, flying, stray, sending, disk, mani, up,
                   read, late>>

Receive ==
    /\ pc = "run" /\ putting = 0 /\ taken < enc
    /\ putting' = 1
    /\ UNCHANGED <<job, pc, enc, taken, queued, flying, stray, sending, disk, mani, up,
                   read, late>>

\* "Store chunks locally first": an error ends the store at once.
\* (FaultPutFails goes on without the chunk.)
FaultPutFails == putting' = putting + 1 /\ UNCHANGED pc
PutFails == pc' = "failed" /\ UNCHANGED putting

PutLocally ==
    /\ pc = "run" /\ putting \in 1 .. Total
    /\ \/ /\ disk' = [disk EXCEPT ![Storer] = @ \cup {Shard(taken + 1, putting)}]
          /\ putting' = putting + 1
          /\ UNCHANGED pc
       \/ PutFails /\ UNCHANGED disk
    /\ UNCHANGED <<job, enc, taken, queued, flying, stray, sending, mani, up, read, late>>

Distribute ==
    /\ pc = "run" /\ putting = Total + 1
    /\ queued' = queued \cup TasksOf(taken + 1)
    /\ taken' = taken + 1
    /\ putting' = 0
    /\ UNCHANGED <<job, pc, enc, flying, stray, sending, disk, mani, up, read, late>>

\* The channel is closed and empty: the encoder's result decides.
AwaitEncoder ==
    /\ pc = "run" /\ putting = 0 /\ taken = enc
    /\ \/ enc = Blocks /\ pc' = "join"
       \/ /\ enc < Blocks /\ ~Encodable(Block(job.data, BlockSize, enc + 1))
          /\ pc' = "failed"
    /\ UNCHANGED <<job, enc, taken, putting, queued, flying, stray, sending, disk, mani, up,
                   read, late>>

\* acquire_owned
Permit == Cardinality(flying) < Alpha

Send(t) ==
    /\ t \in queued /\ Permit
    /\ queued' = queued \ {t}
    /\ flying' = flying \cup {t}
    /\ UNCHANGED <<job, pc, enc, taken, putting, stray, sending, disk, mani, up, read, late>>

Puts(ts) == {t \in ts : t.kind = "put"}

Stored(ts) ==
    [n \in Node |-> disk[n] \cup
        {Shard(t.block, t.chunk) : t \in {u \in Puts(ts) : u.to = n /\ n \in up}}]

\* Somebody who is up and honest has c, or the reader.
Heard(c) == \E n \in (up \ Liar) \cup {Reader} : c \in disk[n]

\* The call ends: the peer has the chunk or the record, refuses it, or the
\* call fails.
TaskEnds(t) ==
    /\ t \in flying
    /\ flying' = flying \ {t}
    /\ disk' = disk \/ disk' = Stored({t})
    /\ UNCHANGED <<job, pc, enc, taken, putting, queued, stray, sending, mani, up, read, late>>

\* Five seconds after the last block all tasks that remain are aborted,
\* those that never had a permit too; what they have sent may still arrive.
\* (FaultJoinTimeout waits for every task.)
FaultJoinTimeout ==
    /\ pc = "join" /\ queued \cup flying = {}
    /\ UNCHANGED <<queued, flying, stray>>
JoinTimeout ==
    /\ pc = "join"
    /\ queued' = {} /\ flying' = {}
    /\ stray' = Puts(flying)

JoinAll ==
    /\ \/ pc = "join" /\ queued \cup flying = {} /\ UNCHANGED <<queued, flying, stray>>
       \/ JoinTimeout
    /\ pc' = "manifest"
    /\ UNCHANGED <<job, enc, taken, putting, sending, disk, mani, up, read, late>>

\* The peer takes it, though nobody waits for the answer any more.
StrayArrives(t) ==
    LET c == Shard(t.block, t.chunk) IN
    /\ t \in stray /\ t.to \in up
    /\ stray' = stray \ {t}
    /\ disk' = Stored({t})
    /\ late' = IF read.st = "none" \/ Heard(c) THEN late ELSE late \cup {c}
    /\ UNCHANGED <<job, pc, enc, taken, putting, queued, flying, sending, mani, up, read>>

PutManifest ==
    /\ pc = "manifest"
    /\ \/ mani' = mani \cup {Storer} /\ sending' = Peer /\ pc' = "ok"
       \/ pc' = "failed" /\ UNCHANGED <<mani, sending>>
    /\ UNCHANGED <<job, enc, taken, putting, queued, flying, stray, disk, up, read, late>>

\* The tasks that carry the manifest are not awaited by anybody.
SendManifest(n) ==
    /\ n \in sending
    /\ sending' = sending \ {n}
    /\ mani' = mani \/ (n \in up /\ mani' = mani \cup {n})
    /\ UNCHANGED <<job, pc, enc, taken, putting, queued, flying, stray, disk, up, read, late>>
-----------------------------------------------------------------------------
(* The retrieval, with the token that the store has returned *)

\* The manifest is found locally or at a peer, or not.
ReadManifest ==
    /\ pc = "ok" /\ read.st = "none" /\ Reader \in up
    /\ \/ mani \cap up # {} /\ read' = [read EXCEPT !.st = "fetch"]
       \/ /\ Reader \notin mani
          /\ \/ mani \cap up = {} /\ read' = [read EXCEPT !.st = "failed"]
             \/ /\ read.misses < MaxMisses
                /\ read' = [read EXCEPT !.st = "failed", !.misses = @ + 1]
    /\ UNCHANGED <<storeVars, disk, mani, up, late>>

Garbage == [parity |-> 0, bytes |-> <<7>>]

\* What the nodes that are up answer when asked for c; most have nothing.
Answers(c) ==
    {c : n \in {m \in up \ ({Reader} \cup Liar) : c \in disk[m]}}
        \cup {Garbage : n \in Liar \cap up}

\* ChunkStore::hash(&data) == expected_hash.  (FaultAccepts does not look.)
FaultAccepts(c, x) == TRUE
Accepts(c, x) == x = c

\* One chunk: from the own store, or the first good answer, which is kept.
Fetch ==
    LET c == Hashes[Len(read.shards) + 1]
        good == {x \in Answers(c) : Accepts(c, x)}
    IN
    /\ read.st = "fetch" /\ Reader \in up
    /\ Len(read.shards) < Len(Hashes)
    /\ \/ /\ c \in disk[Reader]
          /\ read' = [read EXCEPT !.shards = Append(@, {c})]
          /\ UNCHANGED disk
       \/ /\ c \notin disk[Reader]
          /\ \E x \in good :
               /\ read' = [read EXCEPT !.shards = Append(@, {x})]
               /\ disk' = [disk EXCEPT ![Reader] = @ \cup {c}]
       \/ /\ c \notin disk[Reader]
          /\ good = {} \/ read.misses < MaxMisses
          /\ read' = [read EXCEPT !.shards = Append(@, {}),
                                  !.misses = IF good = {} THEN @ ELSE @ + 1]
          /\ UNCHANGED disk
    /\ UNCHANGED <<storeVars, mani, up, late>>

DecodeFetched ==
    LET r == DecodeBlocks(read.shards, job.d, job.p, BlockSize, Len(job.data)) IN
    /\ read.st = "fetch" /\ Reader \in up
    /\ Len(read.shards) = Len(Hashes)
    /\ read' = [read EXCEPT !.st = IF r.ok THEN "ok" ELSE "failed", !.got = r.data]
    /\ UNCHANGED <<storeVars, disk, mani, up, late>>

\* RETRIEVE_TIMEOUT
RetrieveTimeout ==
    /\ read.st = "fetch" /\ read.misses < MaxMisses
    /\ read' = [read EXCEPT !.st = "timeout", !.misses = @ + 1]
    /\ UNCHANGED <<storeVars, disk, mani, up, late>>

\* A node disappears, with everything it is doing.
Crash(n) ==
    /\ n \in up /\ Cardinality(Node \ up) < MaxCrashes
    /\ up' = up \ {n}
    /\ IF n = Storer
       THEN /\ pc' = IF pc \in {"ok", "failed"} THEN pc ELSE "crashed"
            /\ queued' = {} /\ flying' = {} /\ sending' = {}
            /\ stray' = stray \cup Puts(flying)
       ELSE UNCHANGED <<pc, queued, flying, stray, sending>>
    /\ UNCHANGED <<job, enc, taken, putting, disk, mani, read, late>>
-----------------------------------------------------------------------------
Store ==
    \/ EncodeBlock \/ Receive \/ PutLocally \/ Distribute \/ AwaitEncoder
    \/ JoinAll \/ PutManifest
    \/ \E t \in queued : Send(t)
    \/ \E t \in flying : TaskEnds(t)
    \/ \E t \in stray : StrayArrives(t)
    \/ \E n \in Peer : SendManifest(n)

Retrieve == ReadManifest \/ Fetch \/ DecodeFetched \/ RetrieveTimeout

Next == Store \/ Retrieve \/ \E n \in Node : Crash(n)

\* Threads, tasks and timers run.  Calls end only because of the timer: no
\* fairness is assumed of TaskEnds, a peer may never answer.
Spec ==
    /\ Init /\ [][Next]_vars
    /\ WF_vars(EncodeBlock) /\ WF_vars(Receive) /\ WF_vars(PutLocally)
    /\ WF_vars(Distribute) /\ WF_vars(AwaitEncoder) /\ WF_vars(JoinAll)
    /\ WF_vars(PutManifest)
    /\ WF_vars(ReadManifest) /\ WF_vars(Fetch) /\ WF_vars(DecodeFetched)
-----------------------------------------------------------------------------
\* The manifest comes last: as soon as any node has it, its chunks have all been
\* put on the disk of the node that stored them, and no task of the store is
\* left.  A token that do_store_tessera has returned can be read back there (if
\* no concurrent get makes a put's Ok void, see AckedChunkStored of ChunkStore).
ManifestLast ==
    mani # {} =>
        /\ \A b \in 1 .. Blocks, i \in 1 .. Total : Shard(b, i) \in disk[Storer]
        /\ queued \cup flying = {}

\* "Any data_shards out of the total can reconstruct the original data": what
\* comes out of decode_blocks is the data that went in, or an error.
RetrieveSound == read.st = "ok" => read.got = job.data

\* Nodes that are up, and the reader, have d chunks of every block (counted
\* with repetition, as decode counts them) and the manifest, and have not got
\* them too late.
Available ==
    /\ mani \cap up # {}
    /\ \A b \in 1 .. Blocks :
         Cardinality({i \in 1 .. Total :
             Heard(Shard(b, i)) /\ Shard(b, i) \notin late}) >= job.d

\* Whoever has a token reads the data back as long as enough is left, whatever
\* else has disappeared and whatever others answer; only answers that do not
\* come keep it from doing so.
RetrieveSucceeds == read.st = "failed" /\ read.misses = 0 => ~Available

\* Both commands end though no peer has to answer; the loop of the actor waits
\* for them.
StoreEnds == <>(pc \in {"ok", "failed", "crashed"})
RetrieveEnds == read.st = "fetch" ~> read.st # "fetch" \/ Reader \notin up
CommandsEnd == StoreEnds /\ RetrieveEnds
=============================================================================
