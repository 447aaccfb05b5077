# TLA+ models of tesseras-dht

Formal models of the Kademlia-style DHT in `src/`: TLA+ modules, TLC
configurations that check them on small instances, and TLAPS proofs of their
safety properties for every size. `PROJECT.json` lists components, runs,
findings, hazards and theorems, and maps every definition to source lines
(paths below are relative to the crate, `src/src/`).

## Inventory

| Part | State | Operations | Talks to |
|---|---|---|---|
| Identifiers (`identity/node_id.rs`) | none | XOR distance, its order, common prefix length | everything |
| K-buckets, routing table (`routing/`) | 256 buckets: peers (Vec), replacement cache, `last_updated` | insert, evict_and_insert, record_failure (by id, by address), closest_nodes, stale buckets, refresh targets | behind one async mutex; used by inbound handlers, lookups, bootstraps, stores |
| Iterative lookup (`lookup/mod.rs`) | candidate list, asked set, round | rounds of alpha parallel RPCs, merge, sort, cut | seeds from the table; RPC closure in `node.rs` writes the table |
| Chunk store (`storage/chunks.rs`) | files by hash, atomic `storage_used` | put, get, delete, recount at start | blocking threads, no lock; called by PutChunk/GetChunk handlers, store, retrieve, replication |
| Inbound handling (`node.rs` `handle_inbound_message`) | handler permits, rate limiters, per-peer chunk counts | verify, insert sender, LRS ping, dispatch, respond | table, chunk store, SQLite, transport |
| Actor loop (`node.rs` `run`) | command and event channels, timers | commands awaited inline, inbound as tasks, refresh, maintenance, save | everything |
| Transport (`transport/`) | connection pool, pending responses | request with timeout, response, in-memory router | peers |
| Providers, peers (`storage/sqlite.rs`) | rows with TTL | add, get, cleanup, save and load peers | maintenance, handlers |
| Store and retrieve (`node.rs`, `erasure/`) | manifest, blocks | encode, place, publish, fetch, decode | lookup, transport, chunk store |
| NAT and relay (`transport/nat.rs`, `node.rs`) | external address, relay candidates | reversal, relay | table, transport |
| Discovery, metrics, codec, keys, binaries | — | I/O, cryptography, serialisation | — |

What is hard: state read under a lock and used after an await (the LRS
eviction waits five seconds between the two, a connection is opened between
two looks at the pool); nodes whose handlers wait for each other while commands
block their loops; lock-free file operations on concurrent threads; answers
merged while others are outstanding; reservations that are rolled back after
somebody has dropped the count; records that expire while announcements are
lost or the node is down; write errors and crashes between steps; early stops
and clamped indices at the ends of the table. `PROJECT.json` has the full list
under `hazards`, each at its line.

What makes each part correct: a bucket stays within its capacity, files every
peer under its prefix, never has a peer and its candidate at once and hands on
every free slot; `closest_nodes` and the lookup return near peers, lose
nothing they should keep and end; the chunk store never exceeds its quota, its
counter covers what is stored and what it confirmed is there; a call over the
transport ends once, is answered only after its message was handled, and leaves
nothing behind at the node; whoever waits for a node is released; a peer stores
no more than its share and is not charged for puts that failed; records
outlive the gaps between announcements; a manifest is published only when its
chunks are safe at the storer, and what is read back is what was stored.

## Modules

| Module | Models | Remarks |
|---|---|---|
| `NodeIds` | `identity/node_id.rs` | identifiers are vectors of `W` bits (256 in the code) |
| `KBucket` | `routing/bucket.rs` | a bucket as a record, one operator per method |
| `RoutingTable` | `routing/table.rs`, and the tasks in `node.rs` that change the table | extends `KBucket` |
| `MCRoutingTable` | constants for TLC | |
| `RoutingTableProofs` | theorems | buckets first, then the table, then `closest_nodes` |
| `Lookup`, `MCLookup`, `LookupProofs` | `lookup/mod.rs` | extends `NodeIds` |
| `ChunkStore`, `MCChunkStore` | `storage/chunks.rs` | theorems in `StorageProofs` |
| `Rpc` | what `Transport::send_request` promises | abstract |
| `QuicRpc`, `MCQuicRpc` | `transport/quic.rs`, `send_request_any` and the inbound branch of `NodeActor::run` | implements `Rpc` |
| `ConnPool`, `MCConnPool` | the connection pool of `transport/quic.rs` | below `QuicRpc`, which takes connections as given |
| `QuicTransportProofs` | theorems about `QuicRpc` and `ConnPool` | extends both, so some names of `ConnPool` begin with `Pool` |
| `PutQuota`, `MCPutQuota` | `transport/rate_limit.rs`, the PutChunk branch of `handle_inbound_message`, the cleanup timer | |
| `StorageProofs` | theorems about `ChunkStore` and `PutQuota` | extends both, so some names of `PutQuota` begin with `Quota` |
| `Actors`, `MCActors`, `ActorsProofs` | `NodeActor::run`, `handle_command`, the handlers that call other nodes, `send_with_nat_traversal` | several nodes at once; composes what `QuicRpc` and `RoutingTable` show for one |
| `Erasure` | `erasure/mod.rs` | operators only |
| `Tessera`, `MCTessera`, `TesseraProofs` | `do_store_tessera`, `do_retrieve_tessera` | extends `Erasure` |
| `Providers`, `MCProviders`, `ProvidersProofs` | `storage/sqlite.rs`, `do_provider_maintenance`, `replicate_chunks_to_node`, saving and loading the table | |
| `FoldLemmas` | lemmas that several proofs share | induction, sums and folds, sorting, embedded lists |

Definitions marked "Fault" are plausible mistakes in the definition they
precede. No specification uses them; substituting one shows that the property
listed with it under `mutants` notices the mistake.

### RoutingTable

`buckets` is `RoutingTable::buckets`; an entry has the identifier, the address
list, `last_seen` and the failure count of `NodeInfo` (the public key is a
function of the identifier). `task[h]` is what inbound handler `h` holds across
its awaits: nothing; the newcomer and the LRS peer after `BucketFull`
("resolve", the lock is dropped); the same while the ping is out ("ping").
`clock` stands for `Instant::now()`.

* `Inbound` - a verified message, up to the insertion of its sender;
  `ResolveLrs` - the lookup of the LRS peer's address under a second lock;
  `PingAnswered`, `PingFailed` - the two ends of the ping, the second with the
  eviction.
* `Learn` - any other insertion (a lookup's responder or a node it mentions, a
  bootstrap peer, a peer loaded from disk); its result is ignored in the code.
* `PeerFailed`, `AddrFailed` - `record_failure` and `record_failure_by_addr`.
* `ClosestNodes` is written as the loop is: the buckets visited in the first m
  rounds (`Visited`), the loop condition (`WalkStops`), then sort and take.

`RoutingTable::remove` and `mark_seen` have no caller in the crate outside
tests; they are not actions. A message in client mode inserts nobody and is no
step of the table.

### Lookup

`handles` and `reply` are the tasks spawned in a round: RPCs finish in any
order (`Reply`), results are taken up in spawn order (`Collect`), `EndRound`
sorts and cuts. Answers are arbitrary lists, so a property that passes holds
whatever peers send. `heard` is a history variable. Seeds are sorted
(`SeedsAssumption`), because they come from `closest_nodes`, which sorts; they may
hold a peer twice, since the table may (see "Known disagreements"). The stable
sort is `SortedPrefix` of `NodeIds`, which counts what goes before an element.
What the RPC closure does to the routing table is `Learn` and `PeerFailed` of
`RoutingTable`.

### ChunkStore

A file is a sequence of right or wrong blocks. Each file-system call and each
counter update is one step; `std::fs::write` is an open with truncation and
one step per block; a writer whose file was unlinked writes unseen
(`attached`). A read is one step. `storage_used` wraps modulo `WordSize`,
which `WordAssumption` takes to have room for the quota, for what failed writes
leave behind and for one chunk of `MaxChunk` (`MAX_CHUNK_SIZE`) per thread. `acked` is
a history variable: chunks for which a put answered Ok and that were neither
deleted nor damaged since. Data with the wrong hash or size is refused before
any state changes and is not an input.

### QuicRpc

Calls to one node. `call` and `path` are the caller's side: `send_request_any`
over the addresses of the node, and per address the two tries of
`send_request`. Each try is a stream; `stream` is its task in the acceptor,
from arrival over registration, forwarding and waiting to its end. `senders`
is `inbound_response_senders`, `answered` the oneshot channels that hold an
answer, `queue` the request channel, `handlers` the spawned handlers with their
permits. The timeout of a task and its removal of the entry are two steps,
because the lock is taken in between. What a handler does to the routing table
and the chunk store is in those modules; here it answers or, for calls in
`Silent` (messages that fail verification or are no request), drops the
message. Shutting down the transport, which ends all tasks, is left out.

`Rpc` is what a caller can rely on: one outcome per call, answered only after
the message was handled, each attempt handled at most once. A failed call may
have been handled, or may be handled later.

### ConnPool

`pool` is `connection_pool`: under each address a connection and how long it has
been idle, counted up to the threshold at which it is not used any more. A
connection is "lost" when the other side has dropped it and "closed" when this
side knows (`close_reason`). A call looks the connection up under the lock
(`Lookup`), opens one without it (`Connect`) and inserts it under a second lock
(`Insert`); the acceptor inserts too (`Accept`). `EvictConnection` removes
whatever the address has by then, which may be a newer connection of somebody
else. `CallerLeaves` is a caller with a timeout of its own (five seconds for
pings and stores), which drops the call where it is; nothing is evicted then.

A wait over an open connection is the peer's doing, a wait over a lost one the
pool's: `AnswerTimeout` is not tried again in either case. `clean` and `lent` are
history variables: calls whose peer and caller did nothing wrong and that lost
no connection while they used it, and calls that got another task's connection
for their second attempt. `StaleHarmContained` says what such a call can suffer
all the same. Its first attempt can be handed a connection that is already dead
and wait in vain; the connection then leaves the pool and cannot come back. Or
it finds a dead connection and evicts it, another task inserts a connection that
has been lost meanwhile, and the "fresh" connection of the retry
(`transport/quic.rs:552`) is that one. That a stale connection leads to a retry,
as the comment there says, is refuted (known disagreements). The code also retries
after a first attempt over a connection it has just opened, which the comment at
line 553 excludes.

### PutQuota

The write limiter is one token bucket per IP; time is counted in tokens. A put
is reserved (`PutChunkReserved`) or refused, and ends after the chunk store has
answered (`PutConfirmed`, `PutFailed`). The store answers Ok for a chunk that it
has already, and the put stays charged: `accepted` counts confirmed puts, `stored`
the chunks they really wrote. Writes under way are counted by whether
their reservation is in the present count (`fresh`) or in one that `Cleanup` has
dropped because the peer had left the table (`late`). A late write that fails
takes back a reservation that is not its own, hence the exception in
`QuotaBound`; it is as large as the number of such writes and no larger.

### Actors

Every node has a loop, which is ready, executes a command or has stopped, and
handlers, which answer a request or call another node first: the LRS ping of
`handle_inbound_message`, the forwarding of `RelayRequest`, the ping of
`ConnectRequest`. `req` holds every call with the state of its caller (`want`)
and of its handler (`serve`). `link` are the connections; a node behind a NAT is
reached only over one. A connection is taken as recently used: the pool drops
connections idle for ten seconds (`ConnPool`), so a relay reaches a silent peer
only within that time, whatever the comment at `transport/quic.rs:188` says.
`lrs[n][m]` is the peer that `n` pings when `m` finds its bucket full; a bucket
(`BucketOf`) holds one peer here, which every other peer of the bucket finds
(`OneEach`), and `RoutingTable` has the general case. `absent` is a history
variable: who was not in whose table at some time. A relay candidate that is
the target, or the node itself, is passed over as by the `continue` of the code
(`Skipped`). `RelayReaches` is about a call that nothing disturbs (no loss, no
stop, no other command that blocks another node's loop) to a peer that is up,
with a candidate that is public, up, connected to the peer and never without it
in its table: that is what `Helps` and `Undisturbed` say. A request can be lost
or not verify (`Lose`), and so can an answer after all was done for it
(`Unanswered`): a peer whose answer to the LRS ping is lost is evicted like one
that is dead. Timeouts happen only
when nobody can go on, shorter ones before longer ones. Commands other than Bootstrap and GetProviders appear as one call made inline.

### Tessera and Erasure

A byte is a number and a shard its own hash. The encoder is one block ahead of
the distributor at most; chunks are put locally first, then tasks wait for one
of `Alpha` permits, and five seconds after the last block the rest are aborted
(`JoinTimeout`). What they had sent may still arrive, also when the manifest is
out and somebody reads (`stray`, `StrayArrives`; likewise after a crash of the
storer); chunks that nobody had before are then in the history `late`, and a
reader may rightly have missed them. `Reader` fetches chunk after chunk, checks hashes and decodes
block after block. Peers crash, refuse or answer with something else. Booking
failures in the routing table is `PeerFailed` of `RoutingTable`. In the code
`failed_peers` is written only after all tasks have ended, so the checks that
skip failed peers (`node.rs:2438`, 2468, 2527, 2548) never fire, and answers to
AddProvider are booked as rejected puts (2620); neither has an effect the model
would show.

### Providers

A record is the time it has left. `own` are the node's rows about itself,
`remote` its rows at the peers, `ann` announcements under way, which nobody
confirms. `Maintain` is the first part of `do_provider_maintenance`, with its
early return when the node provides nothing; its timer may be late by
`MaxDelay`, because commands block the loop. Step 4 then goes from key to key
(`ReplicateKey`), and `EndMaintenance` sets `last_maintenance_time`; handlers and
lookups go on in between. A store sends to `Alpha` of the peers, some of which
(`Others`) the model does not follow any further; otherwise all
peers of the table are among the `k` closest to every key. Storing a chunk again
while its record is alive only sends it and renews the record again, and is no
step.

A peer gets into the table by its message (`Seen`, the only way that starts
`replicate_chunks_to_node`), by a lookup or bootstrap (`Learned`), or out of a
replacement cache or after the eviction of another (`TurnedAway`, later
`Admitted`), with the `last_seen` of its message. `fresh` is what the filter
`last_seen > last_maint` lets through. With `Proactive` false nothing is
replicated, as `test_proactive_replication_disabled` expects (`node.rs:4319`).

`Crash` loses memory, `Shutdown` saves first, `Restart` loads. `outage`, `cut`,
`missed`, `met`, `overlooked` and `snap` are history variables that say which
records and peers a property can be about: a record that an outage has let
expire is deleted by the next maintenance and never announced again, and a peer
loaded from disk is sent nothing until it is heard of. `offered` is what was
sent; whether it arrived nobody knows. The manifest has no record at the node:
it is announced and distributed once and never again.

## Runs

| Run | Question | Result |
|---|---|---|
| `routing_table` | Does a bucket stay well formed across delayed evictions? | holds |
| `closest_nodes` | When is the early stop of `closest_nodes` harmless? | always enough peers; exact for the node's own identifier and when the target's bucket suffices |
| `lookup` | What does a lookup keep, whom does it ask, does it end? | holds |
| `chunk_store` | Do the counter and the quota hold under races, write errors, damage, restarts? | holds |
| `get_races_put` | Is a confirmed chunk stored, without any fault? | violated by a get during the put |
| `quic_rpc` | Does the RPC layer keep its promise to callers and its table of response channels in order? | holds; it implements `Rpc`, calls end and the table drains |
| `conn_pool` | How far can dead or foreign connections in the pool harm a call, and do they stay? | one wait at most, but for the race described above; they leave |
| `put_quota` | Do rate and quota hold when buckets are forgotten and counts pruned in the middle of writes? | holds |
| `actors` | Is everybody released who waits for a node, and does a relay reach a hidden peer? | holds; a live peer can be evicted, one that has answered too, but only if it could not be heard: its answer was lost, or it was kept from answering |
| `reversal` | Is a relay used only where a reversed connection is impossible? | violated: reversal never succeeds |
| `tessera` | Is a manifest published after its chunks, and can the data be read back? | holds |
| `providers` | Do records, announcements and saved peers survive delays, losses and crashes, and is a peer that comes while chunks are provided sent them? | holds; the latter at the next maintenance at the latest, except for peers whose `last_seen` is too old for its filter |

### Known disagreements

Two have a run of their own (the violated ones above); `findings` quotes what the code
or its documentation says. The following properties state other promises of the
documentation. TLC refutes each within seconds when it is added as an INVARIANT
to a copy of the configuration named:

* `NoDuplicatePeers` (`RoutingTable.cfg`): "If the node is already present, update
  it" (`routing/bucket.rs:138`). `evict_and_insert` pushes the newcomer without
  looking for it; while the ping is out it may have got a slot by promotion.
* `OrderedByLastSeen` (`RoutingTable.cfg`, `MaxClock = 2`): "ordered by last_seen
  (oldest first)" (`routing/bucket.rs:70`). A refresh does not move the entry, so
  the peer that is pinged need not be the least recently seen.
* `ClosestIsExact` (`ClosestNodes.cfg`): "Find the k closest nodes to a target ID"
  (`routing/table.rs:102`). The walk stops with peers of one upper bucket, or of a
  lower one, while closer ones are in an upper bucket it has not reached.
* `KeepsNearestHeard` (`Lookup.cfg`, `Answer <- SortedAnswer`): "converges on the
  `k` closest nodes" (`lookup/mod.rs:4`). A returned node is compared with the node
  pushed last, not with the farthest.
* `AckedChunkStored` (`GetRacesPut.cfg`, `FailingWrites = {big}`, `Readable = {}`):
  "already stored" (`storage/chunks.rs:151`). A failed write leaves its file, and
  the next put answers Ok.
* `ChargedForChunks` (`PutQuota.cfg`): "Per-peer chunk count quota" (`node.rs:3302`),
  with puts that are "idempotent" (`storage/chunks.rs:151`). Every confirmed put is
  charged, also when the chunk was there: retries and the replication at each
  maintenance (`node.rs:1996`) use up the quota of a peer that adds nothing.
* `WaiterRegistered` (`QuicRpc.cfg`, `Call = {c1}`, `Silent = {}`, `Addrs <- TwoAddrs`): "routing
  responses back to the correct inbound stream" (`transport/quic.rs:50`). A task
  that timed out removes the entry of another attempt of the same message.
* `StaleConnectionRetried` (`ConnPool.cfg`): "Evict stale connection and retry once
  with a fresh one" (`transport/quic.rs:552`). A silently dead connection gives no
  error but a timeout (unless QUIC's idle timeout comes first), and after
  `Timeout` the code returns (559).
* `JoinersOffered` (`Providers.cfg`): "replicate chunks to nodes that joined since the
  last maintenance cycle" (`node.rs:1961`). A peer that a lookup inserts (1540, 1557)
  after step 4 has read the table for a key, and before `last_maintenance_time` is
  set (2029), is not later than that time in the next cycle: unless it is heard of
  again it never gets the chunk.

### Bounds

* `routing_table`: `W = 4`, `K = 2`, `MaxFailures = 2`, two handlers (symmetric),
  five peers of bucket 0 and the node itself. Five fill the bucket and its
  cache and push one candidate out; two handlers can hold evictions of the same
  peer at once. Buckets do not interact, so one busy bucket is enough, and the
  proofs cover the rest. Time stands still (`MaxClock = 0`) because these
  properties do not read it.
* `closest_nodes`: `W = 3`, `K = 2`, every identifier a peer, every target, counts
  from 1 to `K + 1`: all shapes of a three-bucket table, including an exhausted
  side of the walk. `MaxClock = 1` makes buckets stale.
* `lookup`: result of three, two RPCs at once, three rounds, answers of up to
  two nodes out of five including the node itself and one without an address:
  lists overflow, repeat, arrive unsorted, and the round limit is reached.
* `chunk_store`: three threads, chunks of 2, 2 and 1 blocks against a quota of
  4, so that all three do not fit and one can be reserved twice. `small` has
  failing writes and `big` is deleted. A chunk with both is left out on
  purpose: the file of a failed write is not counted, so deleting it would take
  the counter below zero (see the hazard at `storage/chunks.rs:217`; the node
  never calls delete).

* `quic_rpc`: two calls with one address each, so four streams of two messages,
  against one entry, one place in the queue and one permit: every limit is
  reached, a retry meets the registered, the expired and the freed entry of the
  first try, and the second message is dropped by its handler. The proofs cover
  any number of calls and addresses. Every call is made once, so the system
  stops (`CHECK_DEADLOCK FALSE`).
* `conn_pool`: two calls to one address and inbound connections from two, a pool
  of one, three connections: every insertion can displace another's connection,
  and three are what a call, its retry and a second task need. The proofs cover
  any number.
* `put_quota`: two peers behind one IP, a burst and a quota of two, two writes
  under way for each, five moments: buckets are forgotten at the earliest moment
  that is sound, and counts are pruned with writes of both kinds under way.
* `actors`: a public caller, a public relay, a peer behind a NAT and a dead node
  that is first among the relay candidates and still in a bucket; one command of
  each kind; two permits; one request or answer lost, or one relay that refuses. Two starting tables:
  the hidden peer has room, or must itself ping the dead node before it answers.
  `reversal` is the same with GetProviders alone and nothing going wrong.
  Nobody has to call again, so both may stop.
* `tessera`: nothing, one byte in two shards with padding, and two blocks of
  which the second is short; four nodes, of which one lies, two crashes, one
  answer that does not come. One permit makes tasks queue. Both commands are
  executed once, so the system stops.
* `providers`: one key, one peer (peers keep their rows independently) and one
  that is not followed, so that a store may pass the first by; a TTL of six ticks
  against an interval of two with one of delay: just enough for one lost
  announcement, which is what `ProvidersAssumption` demands. (The defaults, 48 h
  and 1 h, leave far more room.) Two losses, two stops.

### Fairness

The loop of a lookup is one async task that the runtime polls whenever it can go
on (weak fairness of its next step), and every RPC task ends because requests
time out (weak fairness of each `Reply`). In `QuicRpc` timers fire and spawned
tasks go on (weak fairness of each step of a stream's task), an attempt ends by
its timeout, handlers end because whatever they wait for has a timeout, and the
actor returns to its queue. No attempt need arrive and no response need be read.

In `Actors` somebody who can go on does, and a timeout runs out when all wait;
that is all, and no request need be answered. In `Tessera` the encoder, the
distributor, the timer of the join and the reader go on, while no fairness is
assumed of the tasks that send chunks. In `Providers` time passes, the loop comes
to its maintenance and ends it, and announcements go through unless the bounded number of
losses takes them. In `ConnPool` the cleanup task's timer fires.

Opening a stream and writing a request have no timeout in `send_on_connection`
(`transport/quic.rs:499`): that an attempt ends there too rests on QUIC's idle
timeout and on a peer that goes on granting streams. The retrieve half of
`CommandsEnd` likewise rests on every fetch ending, and begins after the
manifest has been found, which `RETRIEVE_TIMEOUT` does not cover.

## Proofs

`RoutingTableProofs` proves, for every identifier width, bucket capacity,
failure limit, set of peers and addresses and number of handlers:
`TypeOK`, `BucketsBounded`, `CandidatesWaitOnlyForRoom`, `CacheDisjoint`,
`FailuresBelowLimit`, `FiledByPrefix` as invariants and the action property
`NoSlotLost`.

The inductive invariant `IInv` is the conjunction of the type invariant,
`BucketOK` of every bucket for the identifiers that belong in it, and
`PendingEvictionOK`. The parts need each other: a bucket stays within `K` on an
insert because candidates wait only beside a full bucket; the cache stays
disjoint from the bucket on a promotion because its candidates are distinct;
an eviction files the newcomer correctly only because the waiting handler's two
peers belong to one bucket, which is fixed when `insert` reports `BucketFull`.

The first part of the module is about single buckets: what removing, appending
and cutting do to a sequence of entries and its identifiers; that each method of
a bucket keeps `BucketOK` and loses no slot.

The last part is about `closest_nodes`: `ClosestReturnsEnough`,
`ClosestToSelfIsExact`, `ClosestInOwnBucketIsExact` and
`RefreshTargetsStaleBucket`. They hold of every well-formed table (`TableOK`,
part of `IInv`), however it came about. The walk visits some buckets, so what it
collects is the full scan with entries left out, in the same order; when all
that is left out is farther than what is asked for, a stable sort gives both
lists the same beginning. For the node's own identifier the buckets are ordered
by distance; when the target's bucket suffices, everything outside it is farther,
because it differs from the target at a higher bit. `RefreshTargetsStaleBucket`
follows the bits that `random_id_for_bucket` sets.

Assumed: `W`, `K` and `MaxPeerAddrs` positive, `MaxFailures` in 1..255 (it
is a `u8`; 0 would drop a peer at its first failure just as 1 does), the set of
address lists closed under the merge, `Self` and the peers identifiers.

`LookupProofs` proves `NearestHeardKept`, `NothingLostWhileRoom`,
`NearestWereAsked` and the action property `NeverRetreats` for every width,
result length, `Alpha`, number of rounds, sorted seeds and answers. In a round
the list is out of order and `Wanted` compares with its last element, so
`IInv` says of every node heard of that it is in the list or somebody no farther
is (`Represented`), and that the list is in order between rounds
(`InOrderBetween`); a round that added nobody has left it as it was
(`UnchangedWhileIdle`), which is why nobody near is left unasked when a lookup
stops early (`EndedAsked`). Merging is a fold; what it keeps is proved for every
prefix of the answer. `NeverRetreats` counts: adding candidates can only put more
of them before a given distance (`AheadExtends`), and the cut is behind `Limit`.
Assumed: `SeedsAssumption`.

`StorageProofs` proves of the chunk store `UsedCoversDisk` and `QuotaHolds`, and
that the counter never wraps around, for any threads, chunks, sizes and quota.
`IInv` is a balance (`Balanced`): the counter covers the files, the reservations
of puts, what puts that found no room will take back and what deletes will
release; files and reservations are within the quota; and the counter exceeds
it only by leftovers and by what is about to be taken back. Two more parts carry
it through races on one file: a writer that is still attached sees its file
(`WritersSeeTheirFile`), and a delete has measured no more than the file's part
of the counter (`DeletersReleaseLess`). Assumed besides `WordAssumption`:
`DeletesWhatWritesWell`, no chunk is deleted whose write may fail. The node
never calls delete, so this holds of it; without it the property is false,
because deleting what a failed write left gives back room that the failed put
gave back already (the hazard at `storage/chunks.rs:217`).

Of `PutQuota` the module proves `RateBound`, `QuotaBound` and `NoChargeForFailures`
for any peers, addresses, burst, quota and number of writes. `RateInv` bounds what was
granted by the tokens gone since the window began, counting the refill due by
now, and says that a forgotten bucket would be full again; this is where
`MaxIdle >= Burst` is needed. `QuotaInv` relates the count to the writes that
stand behind it.

`QuicTransportProofs` proves, for any set of calls, number of addresses and limits,
`PendingBounded`, `NoOrphanSender` and the refinement `Spec => RefinesRpc`. The
inductive invariant `Inv` adds where a request can be (`Placed`: with its task,
in the queue, with a handler or handled, which is why an attempt is handled at
most once), that every answer in a channel or on a stream stands for a handled
request of the same message (`Earned`) and that no stream is opened twice
(`Fresh`). Assumed: at least one address per call, a queue and a handler. Of the
pool it proves `PoolBounded` and `StaleHarmContained` for any number of calls and
connections. The second rests on `SecondIsFresh` (the connection of a second
attempt is lent, or the call has opened it itself and it is open as long as
nothing goes wrong) and on `InPlace`: a connection is in the pool at most once,
under the address of everybody who uses it, and is inserted once.

`ActorsProofs` proves `BootstrapsDoNotBlock`, `OnlyUnheardPeersEvicted` and
`RelayReaches` for any nodes, NATs, commands, tables, relay candidates and
limits. The first needs little more than `Basic`: a call's name says who made
it, a handler that waits has made the call it waits for, a loop awaits the
command it has taken, a bucket has one place.

Between the timeout of a ping and the eviction it causes, other steps are taken.
That the evicted peer still cannot be heard needs `Frozen`: time passes only when
everybody waits, so whoever kept the peer from answering was itself stuck at the
timeout, and of those that are stuck on each other none is freed by a step of
somebody else. `RelayReaches` needs `RelayInv`: the call is with the relay, or
the relay has passed it on and the peer handles it, or the answer is on its way
back. No timeout can strike in between, because pings run out before calls do
and a ping is all that the relay or the peer may wait for first. Assumed: `ActorsAssumption`
and `CrowdedAssumption`, the form of the tables at the start.

`TesseraProofs` proves `ManifestLast`, `RetrieveSound` and `RetrieveSucceeds` for any
data, code, block size, peers and lies, and `DecodeBlocksIsExact`:
`decode_blocks` of what `encode_blocks` made, with any shards missing, is the
data, or an error, and an error only if fewer than `d` shards of some block are
left. That includes the padding of a block and a short last block; the
Reed-Solomon library is modelled by its contract (`Erasure`, external). `Inv` says
which shards are on the storer's disk at each stage (all of the blocks that are
done and the first `putting - 1` of the current one); disks only grow. `ReadInv`
adds that what the reader has fetched is a prefix of what the manifest names,
each entry the right chunk or a gap, and that a gap means that nobody who is up
and honest has the chunk, or it came late by an aborted put, or an answer was
missed.

`ProvidersProofs` proves `OwnRecordKept`, `PeersKeepRecord`, `NewcomersOffered` and
`RestoresLastSave` for every TTL, interval, delay and number of tolerated losses
with `(Tolerated + 1) * Republish + MaxDelay < TTL`. `Inv` says that a record has at
least as much time left as the timer needs to come round; `PeerInv` says the same
of the peers' rows, less an interval for each announcement missed since the last
that arrived. `Owed`, a part of `Inv`, is behind `NewcomersOffered`: whoever is to be
sent a chunk has been, has a task of its own, or is fresh and step 4 has yet to
come to the chunk.

`FoldLemmas` has what several of these share. Induction is stated about sets
instead of predicates: a set of naturals has a least element (`LeastNat`), a set
of naturals with 0 and successors is everything (`NatSetInduction`), likewise
for the subsets of a finite set (`SubsetInduction`), and a recursion over
subsets has a solution (`SubsetRecursion`). From it follow the sums and folds of
the community modules: how a sum changes with one summand (`SumUpdate`), bounds
and splits of sums, what `FlattenSeq` yields; and, by counting what goes before
an element, that a stable sort arranges a list (`ArrangedAt`) and that leaving
out what is farther does not change its beginning (`ArrangedEmbeds`).

`TypeOK`, `FailuresBelowLimit` (routing table) and `PendingBounded` (RPC) are proved
and not repeated in a run.

Every invariant and every safety action property of the passing runs is proved.
Only model-checked is liveness, since fairness is outside the prover:
`Termination` (lookup), `CallsEnd` and `TableDrains` (RPC), `DeadConnectionsLeave`
(pool), `CallersReleased` and `PermitsReturned` (actors), `CommandsEnd` (tessera),
`Reannounced` (providers).

## Not modelled

Cryptography, proof of work and serialisation: what a verified message is, is
taken as given, and a message that does not verify is one that is dropped.
Metrics, errors and the command-line programs have no logic of the protocol.
STUN, UPnP, mDNS and DNS discovery are network I/O whose results are handed to
Bootstrap or kept as the external address. The in-memory transport is a test
double. Of `do_get_providers` only the call to one candidate is modelled, not its
loop over candidates (up to ten rounds of `alpha` calls, one after the other, until
a round names nobody new), which resembles `Lookup` without its parallel calls.
Progress channels depend on the caller draining them
(hazard at `node.rs:2390`).

## Plan

Done: the routing table, lookup, chunk store, RPC layer, connection pool, quota,
actor loops with relaying, store and retrieve, providers and persistence.

Proved: all safety properties of the passing runs.

Left: the loop of `do_get_providers`; relayed messages record their sender under
the relay's address (`node.rs:3106`), which a composition of `Actors` with
addresses would show; the refinement of the chunk store by an abstract store
with a quota.
