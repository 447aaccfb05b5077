------------------------------ MODULE PutQuota ------------------------------
(***************************************************************************)
(* What limits the chunks a peer can make this node store: the token bucket *)
(* of the peer's IP (transport/rate_limit.rs, here as the write limiter) and *)
(* the count of chunks per peer, reserved before the write and rolled back   *)
(* after a failed one, while a timer drops the counts of peers that have     *)
(* left the routing table (node.rs).                                         *)
(*                                                                           *)
(* Time is counted in the time one token takes to come back, so that         *)
(* tokens, an f64 in the code, are whole numbers.  Handlers that wait for    *)
(* the chunk store differ only in the peer and in whether their reservation  *)
(* is part of the present count: they are counted, not named.                *)
(***************************************************************************)
EXTENDS Integers, FiniteSets

CONSTANTS Peer,        \* senders of PutChunk requests
          Ip,          \* their IP addresses
          IpOf,        \* the address of each sender; several may share one
          Burst,       \* write_rate_burst
          MaxIdle,     \* age at which cleanup forgets a bucket (300 s)
          MaxChunks,   \* max_chunks_per_peer
          MaxNow,      \* bound: the model's last moment
          MaxPuts      \* bound: writes under way for one peer

ASSUME IpAssumption == IpOf \in [Peer -> Ip]
ASSUME BurstAssumption == Burst \in Nat /\ MaxChunks \in Nat

\* 300 s at the rates of NodeConfig bring back far more than a burst.
ASSUME IdleAssumption == MaxIdle \in Nat /\ MaxIdle >= Burst
ASSUME BoundAssumption == MaxNow \in Nat /\ MaxPuts \in Nat

VARIABLES
    now,
    seen,      \* the IPs that have a bucket
    tokens,    \* tokens left at the last check
    last,      \* time of the last check (last_refill and last_used)
    counted,   \* the peers that have a count in peer_chunk_counts
    count,
    fresh,     \* writes under way whose reservation is in the present count
    late,      \* writes under way from before the count was dropped
    \* history
    accepted,  \* puts of the peer confirmed since its count was dropped
    stored,    \* how many of them wrote a chunk that was not there
    left,      \* writes that were under way when the count was dropped
    granted,   \* checks passed since start
    start      \* the beginning of the window that is looked at

limiter == <<now, seen, tokens, last, granted, start>>
quota == <<counted, count, fresh, late, accepted, stored, left>>
quotaVars == <<limiter, quota>>

QuotaTypeOK ==
    /\ now \in Nat
    /\ seen \subseteq Ip
    /\ tokens \in [Ip -> 0 .. Burst]
    /\ last \in [Ip -> Nat]
    /\ counted \subseteq Peer
    /\ count \in [Peer -> Nat]
    /\ fresh \in [Peer -> Nat]
    /\ late \in [Peer -> Nat]
    /\ accepted \in [Peer -> Nat]
    /\ stored \in [Peer -> Nat]
    /\ left \in [Peer -> Nat]
    /\ granted \in [Ip -> Nat]
    /\ start \in Nat

QuotaInit ==
    /\ now = 0
    /\ seen = {}
    /\ tokens = [i \in Ip |-> Burst]
    /\ last = [i \in Ip |-> 0]
    /\ counted = {}
    /\ count = [p \in Peer |-> 0]
    /\ fresh = [p \in Peer |-> 0]
    /\ late = [p \in Peer |-> 0]
    /\ accepted = [p \in Peer |-> 0]
    /\ stored = [p \in Peer |-> 0]
    /\ left = [p \in Peer |-> 0]
    /\ granted = [i \in Ip |-> 0]
    /\ start = 0
-----------------------------------------------------------------------------
\* What check() finds in the bucket of i: entry or a full bucket, refilled.
Refilled(i) ==
    IF i \in seen /\ tokens[i] + (now - last[i]) < Burst
    THEN tokens[i] + (now - last[i])
    ELSE Burst

\* RateLimiter::check; allowed says whether a token was there.
Check(i, allowed) ==
    /\ allowed = (Refilled(i) >= 1)
    /\ seen' = seen \cup {i}
    /\ tokens' = [tokens EXCEPT ![i] =
                    IF allowed THEN Refilled(i) - 1 ELSE Refilled(i)]
    /\ last' = [last EXCEPT ![i] = now]
    /\ granted' = [granted EXCEPT ![i] = IF allowed THEN @ + 1 ELSE @]
    /\ UNCHANGED <<now, start>>

\* RateLimiter::cleanup, retain: buckets used less than MaxIdle ago stay.
\* (FaultForgotten drops them all.)
FaultForgotten == seen
Forgotten == {i \in seen : now - last[i] >= MaxIdle}
-----------------------------------------------------------------------------
\* entry(sender_id).or_insert(n) on peer_chunk_counts.
CountOr(p, n) == IF p \in counted THEN count[p] ELSE n

\* There is room in the quota.  (FaultRoom lets one chunk too many in.)
FaultRoom(p) == CountOr(p, 0) <= MaxChunks
Room(p) == CountOr(p, 0) < MaxChunks

\* The handler of a PutChunk request up to the write: rate limit, then quota
\* and reservation.  Each guard has its own lock; nothing reads both.
PutChunkRejected(p) ==
    /\ \/ /\ Check(IpOf[p], FALSE)
          /\ UNCHANGED <<counted, count>>
       \/ /\ Check(IpOf[p], TRUE)
          /\ ~Room(p)
          /\ counted' = counted \cup {p}
          /\ count' = [count EXCEPT ![p] = CountOr(p, 0)]
    /\ UNCHANGED <<fresh, late, accepted, stored, left>>

PutChunkReserved(p) ==
    /\ fresh[p] + late[p] < MaxPuts
    /\ Check(IpOf[p], TRUE)
    /\ Room(p)
    /\ counted' = counted \cup {p}
    /\ count' = [count EXCEPT ![p] = CountOr(p, 0) + 1]
    /\ fresh' = [fresh EXCEPT ![p] = @ + 1]
    /\ UNCHANGED <<late, accepted, stored, left>>

\* The write of one of p's handlers has ended.
PutEnded(p, wasFresh) ==
    IF wasFresh
    THEN /\ fresh[p] > 0
         /\ fresh' = [fresh EXCEPT ![p] = @ - 1]
         /\ UNCHANGED late
    ELSE /\ late[p] > 0
         /\ late' = [late EXCEPT ![p] = @ - 1]
         /\ UNCHANGED fresh

\* The chunk store has answered Ok.  It does so too for a chunk that it has
\* already, whoever sent it and whenever: new says whether it wrote one.
PutConfirmed(p, wasFresh, new) ==
    /\ PutEnded(p, wasFresh)
    /\ accepted' = [accepted EXCEPT ![p] = IF wasFresh THEN @ + 1 ELSE @]
    /\ stored' = [stored EXCEPT ![p] = IF wasFresh /\ new THEN @ + 1 ELSE @]
    /\ UNCHANGED <<limiter, counted, count, left>>

\* The write failed: entry(sender_id).or_insert(1), then saturating_sub(1).
\* (FaultDecremented forgets the decrement.)
FaultDecremented(n) == n
Decremented(n) == IF n > 0 THEN n - 1 ELSE 0

PutFailed(p, wasFresh) ==
    /\ PutEnded(p, wasFresh)
    /\ counted' = counted \cup {p}
    /\ count' = [count EXCEPT ![p] = Decremented(CountOr(p, 1))]
    /\ UNCHANGED <<limiter, accepted, stored, left>>

\* limiter_cleanup_tick: forget idle buckets and the counts of the peers that
\* are not in the routing table, whichever those are at the time.
Cleanup(known) ==
    /\ seen' = seen \ Forgotten
    /\ tokens' = [i \in Ip |-> IF i \in Forgotten THEN Burst ELSE tokens[i]]
    /\ last' = [i \in Ip |-> IF i \in Forgotten THEN 0 ELSE last[i]]
    /\ counted' = counted \cap known
    /\ count' = [p \in Peer |-> IF p \in known THEN count[p] ELSE 0]
    /\ fresh' = [p \in Peer |-> IF p \in known THEN fresh[p] ELSE 0]
    /\ late' = [p \in Peer |->
                  IF p \in known THEN late[p] ELSE late[p] + fresh[p]]
    /\ accepted' = [p \in Peer |-> IF p \in known THEN accepted[p] ELSE 0]
    /\ stored' = [p \in Peer |-> IF p \in known THEN stored[p] ELSE 0]
    /\ left' = [p \in Peer |->
                  IF p \in known THEN left[p] ELSE late[p] + fresh[p]]
    /\ UNCHANGED <<now, granted, start>>

Tick ==
    /\ now < MaxNow
    /\ now' = now + 1
    /\ UNCHANGED <<seen, tokens, last, granted, start, quota>>

\* History only: look at the window that begins now.
OpenWindow ==
    /\ start' = now
    /\ granted' = [i \in Ip |-> 0]
    /\ UNCHANGED <<now, seen, tokens, last, quota>>

QuotaNext ==
    \/ \E p \in Peer : PutChunkRejected(p) \/ PutChunkReserved(p)
    \/ \E p \in Peer, f \in BOOLEAN :
         PutFailed(p, f) \/ \E new \in BOOLEAN : PutConfirmed(p, f, new)
    \/ \E known \in SUBSET Peer : Cleanup(known)
    \/ Tick
    \/ OpenWindow

QuotaSpec == QuotaInit /\ [][QuotaNext]_quotaVars
-----------------------------------------------------------------------------
\* Over any window of time the requests let through from one IP are at most
\* a burst and the tokens that came back, also when cleanup forgets the
\* bucket in between and the next request starts with a full one.
RateBound == \A i \in Ip : granted[i] <= Burst + (now - start)

\* Since its count was last dropped a peer has at most max_chunks_per_peer
\* puts confirmed or under way, and so at most that many chunks stored, but for those writes that were already
\* under way when the count was dropped and have ended since: each of them
\* may have taken back a reservation that was not its own.
QuotaBound ==
    \A p \in Peer : accepted[p] + fresh[p] <= MaxChunks + (left[p] - late[p])

\* The rollbacks lose no reservation the other way: a peer is charged only for
\* puts that were confirmed or are under way, never for one that failed, so that
\* failures alone do not use up its quota.  Confirmed puts of one chunk are
\* charged each time.
NoChargeForFailures == \A p \in Peer : CountOr(p, 0) <= accepted[p] + fresh[p]

\* The "per-peer chunk count quota" counts chunks: a peer is charged only for
\* chunks that it made the node store, or that are being written.
ChargedForChunks == \A p \in Peer : CountOr(p, 0) <= stored[p] + fresh[p]
=============================================================================
