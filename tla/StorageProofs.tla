--------------------------- MODULE StorageProofs ----------------------------
(***************************************************************************)
(* What this node stores for others stays within its limits: what a peer    *)
(* may make it store (PutQuota), and what the chunk store holds             *)
(* (ChunkStore).                                                            *)
(***************************************************************************)
EXTENDS ChunkStore, PutQuota, FoldLemmas
-----------------------------------------------------------------------------
(***************************************************************************)
(* The rate and the quota bounds of PutQuota for any number of peers, any   *)
(* burst and any quota.  Both are sums that every step keeps: what a window *)
(* has been granted and what the bucket still holds, and what is stored or  *)
(* being written against what is counted.                                   *)
(***************************************************************************)

\* The tokens of an address: those granted in the window and those that a
\* check would find now come from the first burst and from the time passed.
RateInv ==
    /\ start <= now
    /\ \A i \in Ip : /\ last[i] <= now
                     /\ granted[i] + Refilled(i) <= Burst + (now - start)

\* The puts of a peer: the count covers what is confirmed or being written,
\* but for the ended writes of before the count was dropped, and no more.
QuotaInv ==
    \A p \in Peer :
        /\ count[p] <= MaxChunks
        /\ late[p] <= left[p]
        /\ accepted[p] + fresh[p] <= CountOr(p, 0) + (left[p] - late[p])
        /\ CountOr(p, 0) <= accepted[p] + fresh[p]

QuotaIInv == QuotaTypeOK /\ RateInv /\ QuotaInv

LEMMA InitQuota == QuotaInit => QuotaIInv
BY IpAssumption, BurstAssumption
DEF QuotaInit, QuotaIInv, QuotaTypeOK, RateInv, QuotaInv, Refilled, CountOr

\* What a bucket would give lies between nothing and a burst.
LEMMA RefilledType ==
    ASSUME QuotaTypeOK, \A i \in Ip : last[i] <= now
    PROVE  \A i \in Ip : Refilled(i) \in 0 .. Burst
BY BurstAssumption DEF QuotaTypeOK, Refilled

\* A check takes the token it grants out of the bucket.
LEMMA CheckKeeps ==
    ASSUME QuotaTypeOK, RateInv, NEW j \in Ip, NEW ok \in BOOLEAN, Check(j, ok)
    PROVE  /\ seen' \subseteq Ip
           /\ tokens' \in [Ip -> 0 .. Burst]
           /\ last' \in [Ip -> Nat]
           /\ granted' \in [Ip -> Nat]
           /\ now' = now
           /\ start' = start
           /\ RateInv'
<1>1. \A i \in Ip : Refilled(i) \in 0 .. Burst
  BY RefilledType DEF RateInv
<1>2. ok = (Refilled(j) >= 1) /\ Refilled(j) \in 0 .. Burst
  BY <1>1 DEF Check
<1>3. /\ seen' \subseteq Ip /\ last' \in [Ip -> Nat] /\ granted' \in [Ip -> Nat]
      /\ now' = now /\ start' = start
  BY DEF Check, QuotaTypeOK
<1>4. tokens' \in [Ip -> 0 .. Burst]
  <2>1. CASE ok
    <3>0. Refilled(j) >= 1
      BY <1>2, <2>1, Zenon
    <3>1. Refilled(j) - 1 \in 0 .. Burst
      BY <1>2, <3>0, BurstAssumption
    <3>2. tokens' = [tokens EXCEPT ![j] = Refilled(j) - 1]
      BY <2>1 DEF Check
    <3> QED BY <3>1, <3>2 DEF QuotaTypeOK
  <2>2. CASE ~ok
    <3>1. tokens' = [tokens EXCEPT ![j] = Refilled(j)]
      BY <2>2 DEF Check
    <3> QED BY <1>2, <3>1 DEF QuotaTypeOK
  <2> QED BY <2>1, <2>2
<1>5. ASSUME NEW i \in Ip
      PROVE  /\ last'[i] <= now'
             /\ granted'[i] + Refilled(i)' <= Burst + (now' - start')
  <2>1. CASE i = j
    <3>1. Refilled(j)' = IF ok THEN Refilled(j) - 1 ELSE Refilled(j)
      BY <1>2, BurstAssumption DEF Check, QuotaTypeOK, Refilled
    <3>2. granted'[j] = IF ok THEN granted[j] + 1 ELSE granted[j]
      BY DEF Check, QuotaTypeOK
    <3>3. last'[j] = now
      BY DEF Check, QuotaTypeOK
    <3> QED BY <2>1, <1>2, <1>3, <3>1, <3>2, <3>3, BurstAssumption DEF QuotaTypeOK, RateInv
  <2>2. CASE i # j
    <3>1. Refilled(i)' = Refilled(i) /\ granted'[i] = granted[i] /\ last'[i] = last[i]
      BY <2>2 DEF Check, QuotaTypeOK, Refilled
    <3> QED BY <3>1, <1>3 DEF RateInv
  <2> QED BY <2>1, <2>2
<1> QED BY <1>3, <1>4, <1>5 DEF RateInv

\* The quota is kept where the count of one peer changes.
LEMMA QuotaStep ==
    ASSUME QuotaTypeOK, QuotaInv, NEW p \in Peer,
           PutChunkRejected(p) \/ PutChunkReserved(p)
             \/ \E f \in BOOLEAN :
                  PutFailed(p, f) \/ \E new \in BOOLEAN : PutConfirmed(p, f, new)
    PROVE  /\ counted' \subseteq Peer
           /\ count' \in [Peer -> Nat] /\ fresh' \in [Peer -> Nat]
           /\ late' \in [Peer -> Nat] /\ accepted' \in [Peer -> Nat]
           /\ left' \in [Peer -> Nat] /\ stored' \in [Peer -> Nat]
           /\ QuotaInv'
<1> USE BurstAssumption
<1>1. CASE PutChunkRejected(p)
  <2>1. /\ fresh' = fresh /\ late' = late /\ accepted' = accepted /\ left' = left
        /\ stored' = stored
        /\ \/ counted' = counted /\ count' = count
           \/ counted' = counted \cup {p} /\ count' = [count EXCEPT ![p] = CountOr(p, 0)]
    BY <1>1 DEF PutChunkRejected
  <2>2. CASE counted' = counted /\ count' = count
    BY <2>1, <2>2 DEF QuotaTypeOK, QuotaInv, CountOr
  <2>3. CASE counted' = counted \cup {p} /\ count' = [count EXCEPT ![p] = CountOr(p, 0)]
    <3>1. /\ fresh' = fresh /\ late' = late /\ accepted' = accepted /\ left' = left
          /\ stored' = stored
      BY <2>1
    <3>2. \A q \in Peer : CountOr(q, 0)' = CountOr(q, 0) /\ count'[q] <= MaxChunks
      BY <2>3 DEF QuotaTypeOK, QuotaInv, CountOr
    <3>3. counted' \subseteq Peer /\ count' \in [Peer -> Nat]
      BY <2>3 DEF QuotaTypeOK, CountOr
    <3> QED BY <3>1, <3>2, <3>3 DEF QuotaTypeOK, QuotaInv
  <2> QED BY <2>1, <2>2, <2>3
<1>2. CASE PutChunkReserved(p)
  BY <1>2 DEF PutChunkReserved, Room, QuotaTypeOK, QuotaInv, CountOr
<1>3. ASSUME NEW f \in BOOLEAN, NEW new \in BOOLEAN, PutConfirmed(p, f, new)
      PROVE  /\ counted' \subseteq Peer
             /\ count' \in [Peer -> Nat] /\ fresh' \in [Peer -> Nat]
             /\ late' \in [Peer -> Nat] /\ accepted' \in [Peer -> Nat]
             /\ left' \in [Peer -> Nat] /\ stored' \in [Peer -> Nat]
             /\ QuotaInv'
  <2>1. CASE f = TRUE
    BY <1>3, <2>1 DEF PutConfirmed, PutEnded, QuotaTypeOK, QuotaInv, CountOr
  <2>2. CASE f = FALSE
    BY <1>3, <2>2 DEF PutConfirmed, PutEnded, QuotaTypeOK, QuotaInv, CountOr
  <2> QED BY <2>1, <2>2
<1>4. ASSUME NEW f \in BOOLEAN, PutFailed(p, f)
      PROVE  /\ counted' \subseteq Peer
             /\ count' \in [Peer -> Nat] /\ fresh' \in [Peer -> Nat]
             /\ late' \in [Peer -> Nat] /\ accepted' \in [Peer -> Nat]
             /\ left' \in [Peer -> Nat] /\ stored' \in [Peer -> Nat]
             /\ QuotaInv'
  <2>1. CASE f = TRUE
    BY <1>4, <2>1 DEF PutFailed, PutEnded, Decremented, QuotaTypeOK, QuotaInv, CountOr
  <2>2. CASE f = FALSE
    BY <1>4, <2>2 DEF PutFailed, PutEnded, Decremented, QuotaTypeOK, QuotaInv, CountOr
  <2> QED BY <2>1, <2>2
<1> QED
  <2>1. CASE \E f \in BOOLEAN : PutFailed(p, f) \/ \E new \in BOOLEAN : PutConfirmed(p, f, new)
    <3>1. PICK f \in BOOLEAN : PutFailed(p, f) \/ \E new \in BOOLEAN : PutConfirmed(p, f, new)
      BY <2>1
    <3> QED BY <3>1, <1>3, <1>4, Zenon
  <2> QED BY <1>1, <1>2, <2>1, Zenon

\* A bucket that cleanup forgets is full again by then, so that forgetting it
\* gives nothing away.
LEMMA CleanupKeeps ==
    ASSUME QuotaIInv, NEW known \in SUBSET Peer, Cleanup(known)
    PROVE  QuotaIInv'
<1> USE BurstAssumption, IdleAssumption DEF QuotaIInv
<1>1. QuotaTypeOK'
  BY DEF Cleanup, QuotaTypeOK
<1>2. ASSUME NEW i \in Ip
      PROVE  /\ last'[i] <= now'
             /\ granted'[i] + Refilled(i)' <= Burst + (now' - start')
  <2>1. Refilled(i)' = Refilled(i)
    <3>1. CASE i \in Forgotten
      <4>1. Refilled(i) = Burst
        BY <3>1 DEF Forgotten, Refilled, QuotaTypeOK, RateInv
      <4>2. Refilled(i)' = Burst
        BY <3>1 DEF Cleanup, Refilled
      <4> QED BY <4>1, <4>2
    <3>2. CASE i \notin Forgotten
      BY <3>2 DEF Cleanup, Refilled, QuotaTypeOK
    <3> QED BY <3>1, <3>2
  <2>2. last'[i] <= now' /\ granted' = granted /\ now' = now /\ start' = start
    BY DEF Cleanup, QuotaTypeOK, RateInv
  <2> QED BY <2>1, <2>2 DEF RateInv
<1>3. QuotaInv'
  BY DEF Cleanup, QuotaTypeOK, QuotaInv, CountOr
<1> QED BY <1>1, <1>2, <1>3 DEF RateInv, Cleanup

LEMMA QuotaKept == QuotaIInv /\ [QuotaNext]_quotaVars => QuotaIInv'
<1> SUFFICES ASSUME QuotaIInv, [QuotaNext]_quotaVars PROVE QuotaIInv'
  OBVIOUS
<1> USE BurstAssumption DEF QuotaIInv
<1>1. ASSUME NEW p \in Peer, PutChunkRejected(p) \/ PutChunkReserved(p)
      PROVE  QuotaIInv'
  <2>1. PICK ok \in BOOLEAN : Check(IpOf[p], ok)
    BY <1>1 DEF PutChunkRejected, PutChunkReserved
  <2>2. IpOf[p] \in Ip
    BY IpAssumption
  <2> QED BY <1>1, <2>1, <2>2, CheckKeeps, QuotaStep DEF QuotaTypeOK
<1>2. ASSUME NEW p \in Peer, NEW f \in BOOLEAN,
             PutFailed(p, f) \/ \E new \in BOOLEAN : PutConfirmed(p, f, new)
      PROVE  QuotaIInv'
  <2>1. UNCHANGED limiter
    BY <1>2 DEF PutConfirmed, PutFailed
  <2>2. RateInv'
    BY <2>1 DEF limiter, RateInv, Refilled
  <2> QED BY <1>2, <2>1, <2>2, QuotaStep DEF limiter, QuotaTypeOK
<1>3. ASSUME NEW known \in SUBSET Peer, Cleanup(known)
      PROVE  QuotaIInv'
  BY <1>3, CleanupKeeps
<1>4. CASE Tick
  <2>1. QuotaTypeOK' /\ QuotaInv'
    BY <1>4 DEF Tick, QuotaTypeOK, quota, QuotaInv, CountOr
  <2>2. ASSUME NEW i \in Ip
        PROVE  /\ last'[i] <= now'
               /\ granted'[i] + Refilled(i)' <= Burst + (now' - start')
    <3>1. Refilled(i)' <= Refilled(i) + 1 /\ Refilled(i)' \in Int /\ Refilled(i) \in Int
      BY <1>4 DEF Tick, QuotaTypeOK, Refilled, RateInv
    <3>2. granted'[i] = granted[i] /\ now' = now + 1 /\ start' = start /\ last'[i] = last[i]
      BY <1>4 DEF Tick
    <3> QED BY <3>1, <3>2 DEF RateInv, QuotaTypeOK
  <2> QED BY <2>1, <2>2, <1>4 DEF RateInv, Tick, QuotaTypeOK
<1>5. CASE OpenWindow
  <2>1. QuotaTypeOK' /\ QuotaInv'
    BY <1>5 DEF OpenWindow, QuotaTypeOK, quota, QuotaInv, CountOr
  <2>2. \A i \in Ip : Refilled(i)' = Refilled(i) /\ Refilled(i) \in 0 .. Burst
    BY <1>5, RefilledType DEF OpenWindow, Refilled, RateInv
  <2> QED BY <1>5, <2>1, <2>2 DEF RateInv, OpenWindow, QuotaTypeOK
<1>6. CASE UNCHANGED quotaVars
  BY <1>6 DEF quotaVars, limiter, quota, QuotaTypeOK, RateInv, QuotaInv, Refilled, CountOr
<1> QED BY <1>1, <1>2, <1>3, <1>4, <1>5, <1>6 DEF QuotaNext

\* The sums are kept by check and cleanup of RateLimiter and by the handler
\* of PutChunk (handle_inbound_message) with its rollbacks.
THEOREM QuotaInvariance == QuotaSpec => []QuotaIInv
BY InitQuota, QuotaKept, PTL DEF QuotaSpec

\* RateLimiter::check and cleanup: no window of time lets more requests of
\* one address through than the burst and the tokens that came back.
THEOREM RateIsBounded == QuotaSpec => []RateBound
<1>1. QuotaIInv => RateBound
  <2> SUFFICES ASSUME QuotaIInv, NEW i \in Ip
               PROVE  granted[i] <= Burst + (now - start)
    BY DEF RateBound
  <2>1. Refilled(i) \in 0 .. Burst
    BY RefilledType DEF QuotaIInv, RateInv
  <2> QED BY <2>1, BurstAssumption DEF QuotaIInv, QuotaTypeOK, RateInv
<1> QED BY <1>1, QuotaInvariance, PTL

\* The per-peer quota of handle_inbound_message under concurrent writes,
\* rollbacks and dropped counts.
THEOREM PeerQuotaIsKept == QuotaSpec => []QuotaBound
<1>1. QuotaIInv => QuotaBound
  BY BurstAssumption DEF QuotaIInv, QuotaTypeOK, QuotaInv, QuotaBound, CountOr
<1> QED BY <1>1, QuotaInvariance, PTL

\* The rollback of handle_inbound_message leaves no put charged that failed.
THEOREM FailuresAreFree == QuotaSpec => []NoChargeForFailures
<1>1. QuotaIInv => NoChargeForFailures
  BY DEF QuotaIInv, QuotaInv, NoChargeForFailures
<1> QED BY <1>1, QuotaInvariance, PTL

\* Types of the limiter and of the counters.
THEOREM QuotaTypeCorrect == QuotaSpec => []QuotaTypeOK
BY QuotaInvariance, PTL DEF QuotaIInv
-----------------------------------------------------------------------------
(***************************************************************************)
(* storage_used covers what is stored and reserved, and what is stored      *)
(* stays within max_storage, for every set of chunks, of threads, quota and *)
(* chunk size.                                                              *)
(*                                                                          *)
(* Neither is inductive.  IInv splits the counter into parts: one that      *)
(* belongs to each file (Claim), and those that belong to the threads that  *)
(* have reserved room, are about to give it back, or have deleted a file    *)
(* and not yet said so.  A put moves room from one part to another, step by *)
(* step.  The file of a chunk whose writes cannot fail is charged in full   *)
(* as soon as somebody has it open: a second put, which truncates it, must  *)
(* not make the counter look too high, nor a third one that deletes it too  *)
(* low.  A chunk whose writes may fail is charged to the threads until a    *)
(* put has written its last block.                                          *)
(*                                                                          *)
(* The theorems are about stores that delete only chunks whose writes       *)
(* cannot fail (DeletesWhatWritesWell); the node itself deletes none.       *)
(* Deleting what a failed write has left gives back room that the failed    *)
(* put gives back too.                                                      *)
(***************************************************************************)


(* The parts of the state, as functions of the files and of the table of    *)
(* threads, so that one lemma speaks of a state and of its successor.       *)

FileTable(f) ==
    /\ f \in [Hash -> {NoFile} \cup Seq(Block)]
    /\ \A h \in Hash : f[h] # NoFile => Len(f[h]) <= Blocks[h]

ThreadTable(th) ==
    /\ th \in [Thread -> {Idle} \cup Call]
    /\ \A t \in Thread : th[t] # Idle =>
        th[t].next <= Blocks[th[t].hash] /\ th[t].len <= Blocks[th[t].hash]

\* Length, of any files.
Size(f, h) == IF f[h] # NoFile THEN Len(f[h]) ELSE 0

\* Somebody has the file of h open for writing.
Writing(th, h) ==
    \E t \in Thread : th[t].pc = "put_write" /\ th[t].hash = h /\ th[t].attached

\* Some put of h got to its end since the file was last truncated.
LastWritten(f, h) ==
    f[h] # NoFile /\ Len(f[h]) = Blocks[h] /\ f[h][Blocks[h]] = "ok"

\* The part of the counter that belongs to the file of h.
Claim(f, th, h) ==
    IF h \in FailingWrites THEN IF LastWritten(f, h) THEN Blocks[h] ELSE 0
    ELSE IF Writing(th, h) THEN Blocks[h] ELSE Size(f, h)

\* The parts that belong to a thread: the room it will fill, or may have to
\* give back; the room it is about to give back; what it has deleted.
Reserved(r) ==
    IF r.pc = "put_create" \/ (r.pc = "put_write" /\ r.hash \in FailingWrites)
    THEN Blocks[r.hash] ELSE 0
Rolling(r) == IF r.pc = "put_rollback" THEN Blocks[r.hash] ELSE 0
Releasing(r) == IF r.pc = "delete_release" THEN r.len ELSE 0

Claims(f, th) == SumFunctionOnSet([h \in Hash |-> Claim(f, th, h)], Hash)
Reservations(th) == SumFunctionOnSet([t \in Thread |-> Reserved(th[t])], Thread)
Rollbacks(th) == SumFunctionOnSet([t \in Thread |-> Rolling(th[t])], Thread)
Releases(th) == SumFunctionOnSet([t \in Thread |-> Releasing(th[t])], Thread)
Leftovers == SumFunctionOnSet([h \in Hash |-> Leftover(h)], Hash)

\* Whoever has a file open that still has its name finds it there.
WritersSeeTheirFile(f, th) ==
    \A t \in Thread :
        th[t].pc = "put_write" /\ th[t].attached => f[th[t].hash] # NoFile

\* Whoever is about to delete a file has not measured more than the file's
\* part of the counter.
DeletersReleaseLess(f, th) ==
    \A t \in Thread :
        /\ th[t].pc \in {"delete_stat", "delete_remove"} => th[t].hash \in Deletable
        /\ th[t].pc = "delete_remove" /\ f[th[t].hash] # NoFile =>
             th[t].len <= Claim(f, th, th[t].hash)

\* The counter covers all parts, the files and reservations stay within the
\* quota, and the counter overshoots only by what is about to be given back.
Balanced(n, f, th) ==
    /\ n \in Nat
    /\ n >= Claims(f, th) + Reservations(th) + Rollbacks(th) + Releases(th)
    /\ Claims(f, th) + Reservations(th) <= MaxStorage
    /\ n <= MaxStorage + Leftovers + Rollbacks(th)

\* The inductive invariant.
IInv ==
    /\ FileTable(file) /\ ThreadTable(thread) /\ acked \subseteq Hash
    /\ WritersSeeTheirFile(file, thread)
    /\ DeletersReleaseLess(file, thread)
    /\ Balanced(used, file, thread)

-----------------------------------------------------------------------------
\* The larger of two numbers, as WriteBlock takes it.
LEMMA MaxPair ==
    ASSUME NEW a \in Nat, NEW b \in Nat
    PROVE  Max({a, b}) = IF a >= b THEN a ELSE b
<1>1. \E x \in {a, b} : \A y \in {a, b} : x >= y
  OBVIOUS
<1>2. Max({a, b}) \in {a, b} /\ \A y \in {a, b} : Max({a, b}) >= y
  BY <1>1 DEF Max
<1> QED
  BY <1>2

\* What writing block i leaves: a file at least as long as before and up to the
\* block, with that block right and the others as they were.
LEMMA WriteBlockFacts ==
    ASSUME NEW f \in Seq(Block), NEW i \in Nat \ {0}
    PROVE  /\ WriteBlock(f, i) \in Seq(Block)
           /\ Len(WriteBlock(f, i)) = IF i >= Len(f) THEN i ELSE Len(f)
           /\ WriteBlock(f, i)[i] = "ok"
           /\ \A j \in 1..Len(f) : j # i => WriteBlock(f, i)[j] = f[j]
<1> DEFINE m == IF i >= Len(f) THEN i ELSE Len(f)
<1>1. Len(f) \in Nat /\ m \in Nat /\ i \in 1..m /\ Max({i, Len(f)}) = m
  BY MaxPair
<1>2. WriteBlock(f, i) = [j \in 1..m |->
        IF j = i THEN "ok" ELSE IF j <= Len(f) THEN f[j] ELSE "bad"]
  BY <1>1 DEF WriteBlock
<1>3. \A j \in 1..m : (IF j = i THEN "ok" ELSE IF j <= Len(f) THEN f[j] ELSE "bad") \in Block
  BY <1>1 DEF Block
<1>4. WriteBlock(f, i) \in [1..m -> Block]
  BY <1>2, <1>3
<1>5. WriteBlock(f, i) \in Seq(Block) /\ Len(WriteBlock(f, i)) = m
  BY <1>1, <1>4
<1> HIDE DEF m
<1>6. \A j \in 1..Len(f) : j \in 1..m
  BY <1>1 DEF m
<1> QED
  BY <1>1, <1>2, <1>5, <1>6 DEF m

\* A file that does not exist is told from every file, the empty one too.
LEMMA NoFileFacts == NoFile \notin Seq(Block)
  BY DEF NoFile, Block

\* The constants as the proofs use them.
LEMMA Sizes ==
    /\ \A h \in Hash : Blocks[h] \in Nat /\ 1 <= Blocks[h] /\ Blocks[h] <= MaxChunk
    /\ MaxChunk \in Nat /\ MaxStorage \in Nat /\ WordSize \in Nat
    /\ IsFiniteSet(Hash) /\ IsFiniteSet(Thread)
  BY StoreAssumption

\* What the type invariant says of a thread that is in a call.
LEMMA CallFacts ==
    ASSUME NEW th, ThreadTable(th), NEW t \in Thread, th[t].pc # "idle"
    PROVE  /\ th[t] \in Call /\ th[t].hash \in Hash /\ th[t].pc \in PC
           /\ th[t].next \in Nat /\ 1 <= th[t].next /\ th[t].next <= Blocks[th[t].hash]
           /\ th[t].len \in Nat /\ th[t].len <= Blocks[th[t].hash]
           /\ th[t].attached \in BOOLEAN
<1>1. th[t] # Idle
  BY DEF Idle
<1> QED
  BY <1>1 DEF ThreadTable, Call

\* A file is never longer than its chunk.
LEMMA SizeFacts ==
    ASSUME NEW f, FileTable(f), NEW h \in Hash
    PROVE  /\ Size(f, h) \in Nat /\ Size(f, h) <= Blocks[h]
           /\ f[h] # NoFile => f[h] \in Seq(Block)
  BY Sizes DEF FileTable, Size

\* What the record of a thread may be.
CallOrIdle(r) ==
    r = Idle \/ (r \in Call /\ r.next <= Blocks[r.hash] /\ r.len <= Blocks[r.hash])

\* One entry of the table of threads changes.
LEMMA OneThread ==
    ASSUME NEW th, ThreadTable(th), NEW t \in Thread, NEW r,
           CallOrIdle(r)
    PROVE  ThreadTable([th EXCEPT ![t] = r])
  BY DEF ThreadTable, CallOrIdle

\* What each thread may hold is bounded by the size of a chunk.
LEMMA Parts ==
    ASSUME NEW th, ThreadTable(th), NEW t \in Thread
    PROVE  /\ Reserved(th[t]) \in 0..MaxChunk
           /\ Rolling(th[t]) \in 0..MaxChunk
           /\ Releasing(th[t]) \in 0..MaxChunk
<1>1. CASE th[t].pc = "idle"
  BY <1>1, Sizes DEF Reserved, Rolling, Releasing
<1>2. CASE th[t].pc # "idle"
  BY <1>2, CallFacts, Sizes DEF Reserved, Rolling, Releasing
<1> QED
  BY <1>1, <1>2

\* The part of the counter that belongs to a file is at most its chunk's size.
LEMMA ClaimFacts ==
    ASSUME NEW f, FileTable(f), NEW th, NEW h \in Hash
    PROVE  Claim(f, th, h) \in Nat /\ Claim(f, th, h) <= Blocks[h]
  BY SizeFacts, Sizes DEF Claim

\* The parts are naturals.
SumsNat(f, th) ==
    /\ Claims(f, th) \in Nat /\ Reservations(th) \in Nat
    /\ Rollbacks(th) \in Nat /\ Releases(th) \in Nat /\ Leftovers \in Nat

\* All parts of the counter are naturals.
LEMMA SumTypes ==
    ASSUME NEW f, FileTable(f), NEW th, ThreadTable(th)
    PROVE  SumsNat(f, th)
<1>1. Claims(f, th) \in Nat
  BY ClaimFacts, SumType, Sizes DEF Claims
<1>2. Reservations(th) \in Nat
  BY Parts, SumType, Sizes DEF Reservations
<1>3. Rollbacks(th) \in Nat
  BY Parts, SumType, Sizes DEF Rollbacks
<1>4. Releases(th) \in Nat
  BY Parts, SumType, Sizes DEF Releases
<1>5. Leftovers \in Nat
  BY SumType, Sizes DEF Leftovers, Leftover
<1> QED
  BY <1>1, <1>2, <1>3, <1>4, <1>5 DEF SumsNat
-----------------------------------------------------------------------------
\* A step that touches one file changes the files' parts by what it changes there.
LEMMA ClaimChange ==
    ASSUME NEW f, FileTable(f), NEW f2, FileTable(f2), NEW th, NEW th2, NEW h \in Hash,
           \A g \in Hash \ {h} : Claim(f2, th2, g) = Claim(f, th, g)
    PROVE  Claims(f2, th2) + Claim(f, th, h) = Claims(f, th) + Claim(f2, th2, h)
<1> DEFINE a == [g \in Hash |-> Claim(f, th, g)]
           b == [g \in Hash |-> Claim(f2, th2, g)]
<1>1. \A g \in Hash : a[g] \in Nat /\ b[g] \in Nat
  BY ClaimFacts
<1>2. \A g \in Hash \ {h} : a[g] = b[g]
  OBVIOUS
<1>3. a[h] = Claim(f, th, h) /\ b[h] = Claim(f2, th2, h)
  OBVIOUS
<1>4. Claims(f, th) = SumFunctionOnSet(a, Hash) /\ Claims(f2, th2) = SumFunctionOnSet(b, Hash)
  BY DEF Claims
<1> HIDE DEF a, b
<1>5. SumFunctionOnSet(b, Hash) + a[h] = SumFunctionOnSet(a, Hash) + b[h]
  BY <1>1, <1>2, Sizes, SumUpdate
<1> QED
  BY <1>3, <1>4, <1>5

\* When no file's part grows, neither does their sum.
LEMMA ClaimsShrink ==
    ASSUME NEW f, FileTable(f), NEW f2, FileTable(f2), NEW th, NEW th2,
           \A g \in Hash : Claim(f2, th2, g) <= Claim(f, th, g)
    PROVE  Claims(f2, th2) <= Claims(f, th)
<1> DEFINE a == [g \in Hash |-> Claim(f, th, g)]
           b == [g \in Hash |-> Claim(f2, th2, g)]
<1>1. \A g \in Hash : a[g] \in Nat /\ b[g] \in Nat /\ b[g] <= a[g]
  BY ClaimFacts
<1>2. Claims(f, th) = SumFunctionOnSet(a, Hash) /\ Claims(f2, th2) = SumFunctionOnSet(b, Hash)
  BY DEF Claims
<1> HIDE DEF a, b
<1> QED
  BY <1>1, <1>2, Sizes, SumMonotone

\* Thread u goes on with its call, though its file may have lost its name.
SameButAttached(th, th2, u) ==
    /\ th2[u].pc = th[u].pc
    /\ th[u].pc # "idle" => th2[u].hash = th[u].hash /\ th2[u].len = th[u].len

\* The threads' parts change by what changes of thread t.
Moves(th, th2, t) ==
    /\ Reservations(th2) + Reserved(th[t]) = Reservations(th) + Reserved(th2[t])
    /\ Rollbacks(th2) + Rolling(th[t]) = Rollbacks(th) + Rolling(th2[t])
    /\ Releases(th2) + Releasing(th[t]) = Releases(th) + Releasing(th2[t])

\* A step of thread t changes the threads' parts by what it changes of t's own:
\* whether other threads still see their file is of no account.
LEMMA ThreadChange ==
    ASSUME NEW th, ThreadTable(th), NEW th2, ThreadTable(th2), NEW t \in Thread,
           \A u \in Thread \ {t} : SameButAttached(th, th2, u)
    PROVE  Moves(th, th2, t)
<1>0. ASSUME NEW u \in Thread \ {t}
      PROVE  /\ Reserved(th[u]) = Reserved(th2[u])
             /\ Rolling(th[u]) = Rolling(th2[u])
             /\ Releasing(th[u]) = Releasing(th2[u])
  BY DEF SameButAttached, Reserved, Rolling, Releasing
<1>1. Reservations(th2) + Reserved(th[t]) = Reservations(th) + Reserved(th2[t])
  <2> DEFINE a == [u \in Thread |-> Reserved(th[u])]
             b == [u \in Thread |-> Reserved(th2[u])]
  <2>1. \A u \in Thread : a[u] \in Nat /\ b[u] \in Nat
    BY Parts
  <2>2. \A u \in Thread \ {t} : a[u] = b[u]
    BY <1>0
  <2>3. a[t] = Reserved(th[t]) /\ b[t] = Reserved(th2[t])
    OBVIOUS
  <2>4. Reservations(th) = SumFunctionOnSet(a, Thread)
        /\ Reservations(th2) = SumFunctionOnSet(b, Thread)
    BY DEF Reservations
  <2> HIDE DEF a, b
  <2>5. SumFunctionOnSet(b, Thread) + a[t] = SumFunctionOnSet(a, Thread) + b[t]
    BY <2>1, <2>2, Sizes, SumUpdate
  <2> QED
    BY <2>3, <2>4, <2>5
<1>2. Rollbacks(th2) + Rolling(th[t]) = Rollbacks(th) + Rolling(th2[t])
  <2> DEFINE a == [u \in Thread |-> Rolling(th[u])]
             b == [u \in Thread |-> Rolling(th2[u])]
  <2>1. \A u \in Thread : a[u] \in Nat /\ b[u] \in Nat
    BY Parts
  <2>2. \A u \in Thread \ {t} : a[u] = b[u]
    BY <1>0
  <2>3. a[t] = Rolling(th[t]) /\ b[t] = Rolling(th2[t])
    OBVIOUS
  <2>4. Rollbacks(th) = SumFunctionOnSet(a, Thread)
        /\ Rollbacks(th2) = SumFunctionOnSet(b, Thread)
    BY DEF Rollbacks
  <2> HIDE DEF a, b
  <2>5. SumFunctionOnSet(b, Thread) + a[t] = SumFunctionOnSet(a, Thread) + b[t]
    BY <2>1, <2>2, Sizes, SumUpdate
  <2> QED
    BY <2>3, <2>4, <2>5
<1>3. Releases(th2) + Releasing(th[t]) = Releases(th) + Releasing(th2[t])
  <2> DEFINE a == [u \in Thread |-> Releasing(th[u])]
             b == [u \in Thread |-> Releasing(th2[u])]
  <2>1. \A u \in Thread : a[u] \in Nat /\ b[u] \in Nat
    BY Parts
  <2>2. \A u \in Thread \ {t} : a[u] = b[u]
    BY <1>0
  <2>3. a[t] = Releasing(th[t]) /\ b[t] = Releasing(th2[t])
    OBVIOUS
  <2>4. Releases(th) = SumFunctionOnSet(a, Thread)
        /\ Releases(th2) = SumFunctionOnSet(b, Thread)
    BY DEF Releases
  <2> HIDE DEF a, b
  <2>5. SumFunctionOnSet(b, Thread) + a[t] = SumFunctionOnSet(a, Thread) + b[t]
    BY <2>1, <2>2, Sizes, SumUpdate
  <2> QED
    BY <2>3, <2>4, <2>5
<1> QED
  BY <1>1, <1>2, <1>3 DEF Moves

\* However many threads are about to roll back, one more reservation fits into
\* the word.
LEMMA RoomInWord ==
    ASSUME NEW th, ThreadTable(th), NEW t \in Thread, Rolling(th[t]) = 0
    PROVE  MaxStorage + Leftovers + Rollbacks(th) + MaxChunk < WordSize
<1> DEFINE T == Thread \ {t}
           a == [u \in Thread |-> Rolling(th[u])]
<1>1. \A u \in Thread : a[u] \in 0..MaxChunk
  BY Parts
<1>2. a[t] = 0 /\ Rollbacks(th) = SumFunctionOnSet(a, Thread)
  BY DEF Rollbacks
<1>3. Leftovers \in Nat /\ Leftovers = Total(Leftover)
  BY SumType, Sizes DEF Leftovers, Leftover, Total, SumFunction
<1> HIDE DEF a
<1>4. SumFunctionOnSet(a, Thread) = a[t] + SumFunctionOnSet(a, T)
  BY <1>1, Sizes, SumRemove
<1>5. IsFiniteSet(T) /\ Cardinality(T) = Cardinality(Thread) - 1 /\ Cardinality(Thread) \in Nat
  BY Sizes, FS_RemoveElement, FS_CardinalityType
<1>6. \A u \in T : a[u] \in 0..MaxChunk /\ a[u] \in Nat
  BY <1>1
<1> HIDE DEF T
<1>7. SumFunctionOnSet(a, T) <= Cardinality(T) * MaxChunk /\ SumFunctionOnSet(a, T) \in Nat
  BY <1>5, <1>6, Sizes, SumBound, SumType
<1>8. (Cardinality(Thread) - 1) * MaxChunk = Cardinality(Thread) * MaxChunk - MaxChunk
      /\ Cardinality(Thread) * MaxChunk \in Int
  <2>1. \A n, m \in Int : (n - 1) * m = n * m - m /\ n * m \in Int
    OBVIOUS
  <2>2. Cardinality(Thread) \in Int /\ MaxChunk \in Int
    BY <1>5, Sizes
  <2> QED
    BY <2>1, <2>2
<1> QED
  BY <1>2, <1>3, <1>4, <1>5, <1>7, <1>8, Sizes, WordAssumption
-----------------------------------------------------------------------------
\* The files' parts depend on the threads only through who is writing.
LEMMA SameClaims ==
    ASSUME NEW f, NEW th, NEW th2,
           \A h \in Hash \ FailingWrites : Writing(th2, h) <=> Writing(th, h)
    PROVE  /\ \A h \in Hash : Claim(f, th2, h) = Claim(f, th, h)
           /\ Claims(f, th2) = Claims(f, th)
<1>1. ASSUME NEW h \in Hash PROVE Claim(f, th2, h) = Claim(f, th, h)
  BY DEF Claim
<1>2. [h \in Hash |-> Claim(f, th2, h)] = [h \in Hash |-> Claim(f, th, h)]
  BY <1>1
<1> QED
  BY <1>1, <1>2 DEF Claims

\* A step of one thread that leaves the files alone and does not begin or end
\* the writing of a chunk whose writes cannot fail.
LEMMA FilesKept ==
    ASSUME IInv, NEW t \in Thread, NEW r,
           CallOrIdle(r),
           r.pc # "put_write",
           thread[t].pc = "put_write" => thread[t].hash \in FailingWrites,
           r.pc \in {"delete_stat", "delete_remove"} => r.hash \in Deletable,
           r.pc = "delete_remove" /\ file[r.hash] # NoFile =>
                r.len <= Claim(file, thread, r.hash),
           NEW th, th = [thread EXCEPT ![t] = r]
    PROVE  /\ ThreadTable(th) /\ th[t] = r
           /\ WritersSeeTheirFile(file, th) /\ DeletersReleaseLess(file, th)
           /\ Claims(file, th) = Claims(file, thread)
           /\ Moves(thread, th, t) /\ SumsNat(file, th) /\ SumsNat(file, thread)
<1>1. FileTable(file) /\ ThreadTable(thread)
  BY DEF IInv
<1>2. th[t] = r /\ \A u \in Thread \ {t} : th[u] = thread[u]
  BY <1>1 DEF ThreadTable
<1>3. ThreadTable(th)
  BY <1>1, OneThread
<1>4. \A h \in Hash \ FailingWrites : Writing(th, h) <=> Writing(thread, h)
  BY <1>2 DEF Writing
<1>5. /\ \A h \in Hash : Claim(file, th, h) = Claim(file, thread, h)
      /\ Claims(file, th) = Claims(file, thread)
  BY <1>4, SameClaims
<1>6. WritersSeeTheirFile(file, th)
  BY <1>2 DEF IInv, WritersSeeTheirFile
<1>7. DeletersReleaseLess(file, th)
  <2>1. \A u \in Thread : th[u].pc = "delete_remove" => th[u].hash \in Hash
    BY <1>3, CallFacts
  <2>2. ASSUME NEW u \in Thread
        PROVE  /\ th[u].pc \in {"delete_stat", "delete_remove"} => th[u].hash \in Deletable
               /\ th[u].pc = "delete_remove" /\ file[th[u].hash] # NoFile =>
                    th[u].len <= Claim(file, thread, th[u].hash)
    <3>1. CASE u = t
      BY <1>2, <3>1
    <3>2. CASE u # t
      BY <1>2, <3>2 DEF IInv, DeletersReleaseLess
    <3> QED
      BY <3>1, <3>2
  <2> QED
    BY <1>5, <2>1, <2>2 DEF DeletersReleaseLess
<1>8. \A u \in Thread \ {t} : SameButAttached(thread, th, u)
  BY <1>2 DEF SameButAttached
<1>9. Moves(thread, th, t)
  BY <1>1, <1>3, <1>8, ThreadChange
<1>10. SumsNat(file, th) /\ SumsNat(file, thread)
  BY <1>1, <1>3, SumTypes
<1> QED
  BY <1>2, <1>3, <1>5, <1>6, <1>7, <1>9, <1>10

\* The counter changes from m to n while a thread's record changes from p to r:
\* it keeps covering what the thread holds, the thread gets more room only
\* within the quota, and the counter grows past it only by what the thread is
\* about to give back.
Follows(m, n, p, r) ==
    /\ n \in Nat
    /\ n + Reserved(p) + Rolling(p) + Releasing(p)
            >= m + Reserved(r) + Rolling(r) + Releasing(r)
    /\ Reserved(r) <= Reserved(p) \/ n <= MaxStorage
    /\ n + Rolling(p) <= m + Rolling(r) \/ n <= MaxStorage

\* Such a step keeps the balance if the counter follows what the thread holds.
LEMMA QuietStep ==
    ASSUME IInv, NEW t \in Thread, NEW r, CallOrIdle(r),
           r.pc # "put_write",
           thread[t].pc = "put_write" => thread[t].hash \in FailingWrites,
           r.pc \in {"delete_stat", "delete_remove"} => r.hash \in Deletable,
           r.pc = "delete_remove" /\ file[r.hash] # NoFile =>
                r.len <= Claim(file, thread, r.hash),
           Follows(used, used', thread[t], r),
           thread' = [thread EXCEPT ![t] = r], file' = file, acked' \subseteq Hash
    PROVE  IInv'
<1> DEFINE th == [thread EXCEPT ![t] = r]
<1> HIDE DEF th
<1> DEFINE n == used'
<1>0. /\ n \in Nat
      /\ n + Reserved(thread[t]) + Rolling(thread[t]) + Releasing(thread[t])
            >= used + Reserved(r) + Rolling(r) + Releasing(r)
      /\ Reserved(r) <= Reserved(thread[t]) \/ n <= MaxStorage
      /\ n + Rolling(thread[t]) <= used + Rolling(r) \/ n <= MaxStorage
  BY DEF Follows
<1> HIDE DEF n
<1>1. /\ ThreadTable(th) /\ th[t] = r
      /\ WritersSeeTheirFile(file, th) /\ DeletersReleaseLess(file, th)
      /\ Claims(file, th) = Claims(file, thread)
      /\ Moves(thread, th, t) /\ SumsNat(file, th) /\ SumsNat(file, thread)
  BY FilesKept DEF CallOrIdle, th
<1>2. ThreadTable(thread) /\ FileTable(file) /\ Balanced(used, file, thread)
  BY DEF IInv
<1>3. /\ Reserved(thread[t]) \in Nat /\ Rolling(thread[t]) \in Nat
      /\ Releasing(thread[t]) \in Nat /\ Reserved(r) \in Nat /\ Rolling(r) \in Nat
      /\ Releasing(r) \in Nat
  BY <1>1, <1>2, Parts
<1>4. n >= Claims(file, th) + Reservations(th) + Rollbacks(th) + Releases(th)
  BY <1>0, <1>1, <1>2, <1>3 DEF Balanced, Moves, SumsNat
<1>5. Claims(file, th) + Reservations(th) <= MaxStorage
  BY <1>0, <1>1, <1>2, <1>3, <1>4, Sizes DEF Balanced, Moves, SumsNat
<1>6. n <= MaxStorage + Leftovers + Rollbacks(th)
  BY <1>0, <1>1, <1>2, <1>3, Sizes DEF Balanced, Moves, SumsNat
<1>7. /\ FileTable(file) /\ ThreadTable(th)
      /\ WritersSeeTheirFile(file, th)
      /\ DeletersReleaseLess(file, th)
      /\ Balanced(n, file, th)
  BY <1>0, <1>1, <1>2, <1>4, <1>5, <1>6 DEF Balanced
<1>8. thread' = th
  BY DEF th
<1> QED
  BY <1>7, <1>8 DEF IInv, n
-----------------------------------------------------------------------------
(* The steps that leave the files alone. *)

\* A call begins: the thread holds nothing yet.
LEMMA BeginStep ==
    ASSUME IInv, NEW t \in Thread, At(t, "idle"), NEW h \in Hash,
           NEW pc \in {"put_reserve", "get_read", "delete_stat"},
           pc = "delete_stat" => h \in Deletable,
           Begin(t, pc, h), UNCHANGED <<file, used, acked>>
    PROVE  IInv'
<1> DEFINE r == [pc |-> pc, hash |-> h, next |-> 1, attached |-> FALSE, len |-> 0]
<1>1. CallOrIdle(r) /\ thread' = [thread EXCEPT ![t] = r]
  BY Sizes DEF Call, PC, CallOrIdle, Begin
<1>2. /\ r.pc \notin {"put_create", "put_write", "put_rollback", "delete_remove", "delete_release"}
      /\ r.pc \in {"delete_stat", "delete_remove"} => r.hash \in Deletable
      /\ thread[t].pc = "idle"
  BY DEF At
<1> HIDE DEF r
<1>3. /\ Reserved(thread[t]) = 0 /\ Rolling(thread[t]) = 0 /\ Releasing(thread[t]) = 0
      /\ Reserved(r) = 0 /\ Rolling(r) = 0 /\ Releasing(r) = 0
  BY <1>2 DEF Reserved, Rolling, Releasing
<1>4. used \in Nat /\ acked \subseteq Hash
  BY DEF IInv, Balanced
<1>5. Follows(used, used', thread[t], r)
  BY <1>3, <1>4 DEF Follows
<1> QED
  BY <1>1, <1>2, <1>4, <1>5, QuietStep

\* A thread goes on to pc without a change of anything else in its record.
LEMMA GotoFacts ==
    ASSUME IInv, NEW t \in Thread, thread[t].pc # "idle", NEW pc \in PC, Goto(t, pc)
    PROVE  \E r : /\ CallOrIdle(r) /\ thread' = [thread EXCEPT ![t] = r]
                  /\ r.pc = pc /\ r.hash = thread[t].hash /\ r.len = thread[t].len
<1>1. ThreadTable(thread) /\ thread \in [Thread -> {Idle} \cup Call]
  BY DEF IInv, ThreadTable
<1>2. thread[t] \in Call /\ CallOrIdle(thread[t])
  BY <1>1, CallFacts DEF CallOrIdle
<1> DEFINE r == [thread[t] EXCEPT !.pc = pc]
<1>3. /\ r \in Call /\ r.pc = pc /\ r.hash = thread[t].hash /\ r.len = thread[t].len
      /\ r.next = thread[t].next
  BY <1>2 DEF Call
<1>4. CallOrIdle(r)
  BY <1>1, <1>3, CallFacts DEF CallOrIdle
<1>5. thread' = [thread EXCEPT ![t] = r]
  BY DEF Goto
<1> HIDE DEF r
<1> QED
  BY <1>3, <1>4, <1>5

\* fetch_add does not wrap around, and the room is granted only within the quota.
LEMMA PutReserveStep ==
    ASSUME IInv, NEW t \in Thread, PutReserve(t)
    PROVE  IInv'
<1> DEFINE n == Blocks[thread[t].hash]
<1>1. /\ thread[t].pc = "put_reserve" /\ UNCHANGED <<file, acked>>
      /\ used' = (used + n) % WordSize
      /\ Goto(t, IF used' > MaxStorage THEN "put_rollback" ELSE "put_create")
  BY DEF PutReserve, At, Add, Chunk
<1>2. /\ ThreadTable(thread) /\ FileTable(file) /\ used \in Nat /\ acked \subseteq Hash
      /\ used <= MaxStorage + Leftovers + Rollbacks(thread)
  BY DEF IInv, Balanced
<1>3. /\ thread[t].hash \in Hash /\ n \in Nat /\ 1 <= n /\ n <= MaxChunk
  BY <1>1, <1>2, CallFacts, Sizes
<1>4. Reserved(thread[t]) = 0 /\ Rolling(thread[t]) = 0 /\ Releasing(thread[t]) = 0
  BY <1>1 DEF Reserved, Rolling, Releasing
<1>5. MaxStorage + Leftovers + Rollbacks(thread) + MaxChunk < WordSize
  BY <1>2, <1>4, RoomInWord
<1> HIDE DEF n
<1>6. used' = used + n
  <2>1. SumsNat(file, thread)
    BY <1>2, SumTypes
  <2>2. used + n \in Nat /\ used + n < WordSize
    BY <1>2, <1>3, <1>5, <2>1, Sizes DEF SumsNat
  <2>3. \A a, b \in Nat : a < b => a % b = a
    OBVIOUS
  <2> QED
    BY <1>1, <2>2, <2>3, Sizes
<1> DEFINE pc == IF used' > MaxStorage THEN "put_rollback" ELSE "put_create"
<1>7. PICK r : /\ CallOrIdle(r) /\ thread' = [thread EXCEPT ![t] = r]
               /\ r.pc = pc /\ r.hash = thread[t].hash
  BY <1>1, GotoFacts DEF PC
<1>8. Releasing(r) = 0
  BY <1>7 DEF Releasing
<1>9. CASE used' > MaxStorage
  <2>1. r.pc = "put_rollback"
    BY <1>7, <1>9
  <2>2. Reserved(r) = 0 /\ Rolling(r) = n
    BY <1>7, <2>1 DEF Reserved, Rolling, n
  <2>3. Follows(used, used', thread[t], r)
    BY <1>2, <1>3, <1>4, <1>6, <1>8, <2>2 DEF Follows
  <2> QED
    BY <1>1, <1>2, <1>7, <2>1, <2>3, QuietStep
<1>10. CASE ~(used' > MaxStorage)
  <2>1. r.pc = "put_create"
    BY <1>7, <1>10
  <2>2. Reserved(r) = n /\ Rolling(r) = 0
    BY <1>7, <2>1 DEF Reserved, Rolling, n
  <2>3. used' <= MaxStorage /\ used' \in Nat
    BY <1>2, <1>3, <1>6, <1>10, Sizes
  <2>4. Follows(used, used', thread[t], r)
    BY <1>2, <1>3, <1>4, <1>6, <1>8, <2>2, <2>3 DEF Follows
  <2> QED
    BY <1>1, <1>2, <1>7, <2>1, <2>4, QuietStep
<1> QED
  BY <1>9, <1>10
\* The counter never reaches the end of the word.
LEMMA UsedInWord ==
    ASSUME IInv
    PROVE  used \in Nat /\ used < WordSize
<1> DEFINE a == [u \in Thread |-> Rolling(thread[u])]
<1>1. /\ ThreadTable(thread) /\ FileTable(file) /\ used \in Nat
      /\ used <= MaxStorage + Leftovers + Rollbacks(thread)
  BY DEF IInv, Balanced
<1>2. SumsNat(file, thread)
  BY <1>1, SumTypes
<1>3. \A u \in Thread : a[u] \in 0..MaxChunk /\ a[u] \in Nat
  BY <1>1, Parts
<1>4. Rollbacks(thread) = SumFunctionOnSet(a, Thread)
  BY DEF Rollbacks
<1>5. Leftovers = Total(Leftover)
  BY DEF Leftovers, Total, SumFunction
<1> HIDE DEF a
<1>6. SumFunctionOnSet(a, Thread) <= Cardinality(Thread) * MaxChunk
  BY <1>3, Sizes, SumBound
<1>7. Cardinality(Thread) * MaxChunk \in Int
  <2>1. \A n, m \in Int : n * m \in Int
    OBVIOUS
  <2>2. Cardinality(Thread) \in Int /\ MaxChunk \in Int
    BY Sizes, FS_CardinalityType
  <2> QED
    BY <2>1, <2>2
<1> QED
  BY <1>1, <1>2, <1>4, <1>5, <1>6, <1>7, Sizes, WordAssumption DEF SumsNat

\* What one thread holds is part of the counter.
LEMMA HeldIsCovered ==
    ASSUME IInv, NEW t \in Thread
    PROVE  /\ Reserved(thread[t]) \in Nat /\ Rolling(thread[t]) \in Nat
           /\ Releasing(thread[t]) \in Nat
           /\ used >= Reserved(thread[t]) + Rolling(thread[t]) + Releasing(thread[t])
<1> DEFINE th == [thread EXCEPT ![t] = Idle]
<1>1. ThreadTable(thread) /\ FileTable(file) /\ Balanced(used, file, thread)
  BY DEF IInv
<1>2. ThreadTable(th)
  BY <1>1, OneThread DEF CallOrIdle
<1>3. th[t] = Idle /\ \A u \in Thread \ {t} : th[u] = thread[u]
  BY <1>1 DEF ThreadTable
<1> HIDE DEF th
<1>4. Moves(thread, th, t)
  BY <1>1, <1>2, <1>3, ThreadChange DEF SameButAttached
<1>5. Reserved(th[t]) = 0 /\ Rolling(th[t]) = 0 /\ Releasing(th[t]) = 0
  BY <1>3 DEF Idle, Reserved, Rolling, Releasing
<1>6. SumsNat(file, th) /\ SumsNat(file, thread)
  BY <1>1, <1>2, SumTypes
<1>7. /\ Reserved(thread[t]) \in Nat /\ Rolling(thread[t]) \in Nat
      /\ Releasing(thread[t]) \in Nat
  BY <1>1, Parts
<1> QED
  BY <1>1, <1>4, <1>5, <1>6, <1>7 DEF Balanced, Moves, SumsNat

\* A call returns: the thread holds nothing any more.
LEMMA ReturnStep ==
    ASSUME IInv, NEW t \in Thread, Return(t), file' = file, acked' \subseteq Hash,
           thread[t].pc # "put_write", Reserved(thread[t]) = 0,
           used' = (used - (Rolling(thread[t]) + Releasing(thread[t]))) % WordSize
    PROVE  IInv'
<1> DEFINE n == Rolling(thread[t]) + Releasing(thread[t])
<1>1. /\ Rolling(thread[t]) \in Nat /\ Releasing(thread[t]) \in Nat
      /\ used \in Nat /\ used < WordSize /\ used >= n
  BY HeldIsCovered, UsedInWord
<1>2. used' = used - n
  <2>1. \A a, b \in Nat : a < b => a % b = a
    OBVIOUS
  <2>2. used - n \in Nat /\ used - n < WordSize
    BY <1>1, Sizes
  <2> HIDE DEF n
  <2> QED
    BY <2>1, <2>2, Sizes DEF n
<1>3. Reserved(Idle) = 0 /\ Rolling(Idle) = 0 /\ Releasing(Idle) = 0 /\ Idle.pc = "idle"
  BY DEF Idle, Reserved, Rolling, Releasing
<1>4. Follows(used, used', thread[t], Idle)
  BY <1>1, <1>2, <1>3 DEF Follows
<1>5. CallOrIdle(Idle) /\ thread' = [thread EXCEPT ![t] = Idle]
  BY DEF CallOrIdle, Return
<1> QED
  BY <1>3, <1>4, <1>5, QuietStep

\* fetch_sub takes away what the thread had added: it does not wrap around.
LEMMA PutRollbackStep ==
    ASSUME IInv, NEW t \in Thread, PutRollback(t)
    PROVE  IInv'
<1>1. /\ thread[t].pc = "put_rollback" /\ Return(t) /\ file' = file /\ acked' = acked
      /\ used' = (used - Blocks[thread[t].hash]) % WordSize
  BY DEF PutRollback, At, Sub, Chunk
<1>2. Reserved(thread[t]) = 0 /\ Rolling(thread[t]) = Blocks[thread[t].hash]
      /\ Releasing(thread[t]) = 0
  BY <1>1 DEF Reserved, Rolling, Releasing
<1>3. Rolling(thread[t]) \in Nat /\ acked \subseteq Hash
  BY HeldIsCovered DEF IInv
<1>4. Rolling(thread[t]) + Releasing(thread[t]) = Blocks[thread[t].hash]
  BY <1>2, <1>3
<1> QED
  BY <1>1, <1>2, <1>3, <1>4, ReturnStep

\* A delete gives back what it measured, which the counter still holds.
LEMMA DeleteReleaseStep ==
    ASSUME IInv, NEW t \in Thread, DeleteRelease(t)
    PROVE  IInv'
<1>1. /\ thread[t].pc = "delete_release" /\ Return(t) /\ file' = file /\ acked' = acked
      /\ used' = (used - thread[t].len) % WordSize
  BY DEF DeleteRelease, At, Sub
<1>2. Reserved(thread[t]) = 0 /\ Rolling(thread[t]) = 0
      /\ Releasing(thread[t]) = thread[t].len
  BY <1>1 DEF Reserved, Rolling, Releasing
<1>3. Releasing(thread[t]) \in Nat /\ acked \subseteq Hash
  BY HeldIsCovered DEF IInv
<1>4. Rolling(thread[t]) + Releasing(thread[t]) = thread[t].len
  BY <1>2, <1>3
<1> QED
  BY <1>1, <1>2, <1>3, <1>4, ReturnStep

\* A step that changes nothing of the counter and only moves a thread that
\* holds nothing, or turns its reservation into a rollback.
LEMMA GotoStep ==
    ASSUME IInv, NEW t \in Thread, NEW pc \in {"put_rollback", "get_remove"},
           Goto(t, pc), UNCHANGED <<file, used, acked>>,
           pc = "get_remove" => thread[t].pc = "get_read",
           pc = "put_rollback" => /\ thread[t].pc \in {"put_create", "put_write"}
                                  /\ thread[t].hash \in FailingWrites
    PROVE  IInv'
<1>1. thread[t].pc # "idle"
  OBVIOUS
<1>2. PICK r : /\ CallOrIdle(r) /\ thread' = [thread EXCEPT ![t] = r]
               /\ r.pc = pc /\ r.hash = thread[t].hash
  BY <1>1, GotoFacts DEF PC
<1>3. /\ Reserved(r) = 0 /\ Releasing(r) = 0 /\ Releasing(thread[t]) = 0
      /\ Rolling(thread[t]) = 0 /\ Rolling(r) = Reserved(thread[t])
  BY <1>2 DEF Reserved, Rolling, Releasing
<1>4. used \in Nat /\ Reserved(thread[t]) \in Nat /\ acked \subseteq Hash
  BY HeldIsCovered DEF IInv, Balanced
<1>5. Follows(used, used', thread[t], r)
  BY <1>3, <1>4 DEF Follows
<1>6. r.pc # "put_write" /\ r.pc \notin {"delete_stat", "delete_remove"}
  BY <1>2
<1> QED
  BY <1>2, <1>4, <1>5, <1>6, QuietStep

\* A put that fails turns its reservation into a rollback.
LEMMA PutFailsStep ==
    ASSUME IInv, NEW t \in Thread, PutFails(t)
    PROVE  IInv'
  BY GotoStep DEF PutFails, At, Chunk

\* A get holds nothing, whether it finds the chunk or goes on to remove the file.
LEMMA GetReadStep ==
    ASSUME IInv, NEW t \in Thread, GetRead(t)
    PROVE  IInv'
<1>1. thread[t].pc = "get_read" /\ UNCHANGED <<file, used, acked>>
  BY DEF GetRead, At
<1>2. CASE Goto(t, "get_remove")
  BY <1>1, <1>2, GotoStep
<1>3. CASE Return(t)
  <2>1. Reserved(thread[t]) = 0 /\ Rolling(thread[t]) = 0 /\ Releasing(thread[t]) = 0
    BY <1>1 DEF Reserved, Rolling, Releasing
  <2>2. used' = (used - (Rolling(thread[t]) + Releasing(thread[t]))) % WordSize
    <3>1. \A a, b \in Nat : a < b => (a - (0 + 0)) % b = a
      OBVIOUS
    <3> QED
      BY <1>1, <2>1, <3>1, UsedInWord, Sizes
  <2>3. acked' \subseteq Hash
    BY <1>1 DEF IInv
  <2> QED
    BY <1>1, <1>3, <2>1, <2>2, <2>3, ReturnStep
<1> QED
  BY <1>2, <1>3 DEF GetRead
\* Nothing but the history changes.
LEMMA AckStep ==
    ASSUME IInv, UNCHANGED <<file, used, thread>>, acked' \subseteq Hash
    PROVE  IInv'
  BY DEF IInv

\* A call that holds nothing returns.
LEMMA QuietReturnStep ==
    ASSUME IInv, NEW t \in Thread, Return(t), UNCHANGED <<file, used, acked>>,
           thread[t].pc \in {"get_read", "delete_remove"}
    PROVE  IInv'
<1>1. Reserved(thread[t]) = 0 /\ Rolling(thread[t]) = 0 /\ Releasing(thread[t]) = 0
  BY DEF Reserved, Rolling, Releasing
<1>2. used' = (used - (Rolling(thread[t]) + Releasing(thread[t]))) % WordSize
  <2>1. \A a, b \in Nat : a < b => (a - (0 + 0)) % b = a
    OBVIOUS
  <2> QED
    BY <1>1, <2>1, UsedInWord, Sizes
<1>3. acked' \subseteq Hash
  BY DEF IInv
<1> QED
  BY <1>1, <1>2, <1>3, ReturnStep

\* A delete only concerns chunks whose writes cannot fail.
DeletesWhatWritesWell == Deletable \cap FailingWrites = {}

\* A delete measures no more than the file's part of the counter.
LEMMA DeleteStatStep ==
    ASSUME IInv, DeletesWhatWritesWell, NEW t \in Thread, DeleteStat(t)
    PROVE  IInv'
<1> DEFINE h == thread[t].hash
           r == [thread[t] EXCEPT !.pc = "delete_remove", !.len = Size(file, h)]
<1>1. /\ thread[t].pc = "delete_stat" /\ UNCHANGED <<file, used, acked>>
      /\ thread' = [thread EXCEPT ![t].pc = "delete_remove", ![t].len = Size(file, h)]
  BY DEF DeleteStat, At, Chunk, Length, Exists, Size
<1>2. /\ ThreadTable(thread) /\ FileTable(file) /\ used \in Nat /\ acked \subseteq Hash
      /\ thread \in [Thread -> {Idle} \cup Call]
  BY DEF IInv, Balanced, ThreadTable
<1>3. /\ thread[t] \in Call /\ h \in Hash /\ thread[t].next <= Blocks[h]
  BY <1>1, <1>2, CallFacts
<1>4. h \in Deletable /\ h \notin FailingWrites
  BY <1>1 DEF IInv, DeletersReleaseLess, DeletesWhatWritesWell
<1>5. Size(file, h) \in Nat /\ Size(file, h) <= Blocks[h]
  BY <1>2, <1>3, SizeFacts
<1>6. thread' = [thread EXCEPT ![t] = r]
  BY <1>1, <1>2
<1>7. /\ r \in Call /\ r.hash = h /\ r.next = thread[t].next /\ r.len = Size(file, h)
      /\ r.pc = "delete_remove"
  BY <1>3, <1>5 DEF Call, PC
<1> HIDE DEF r
<1>8. CallOrIdle(r)
  BY <1>3, <1>5, <1>7 DEF CallOrIdle
<1>9. r.len <= Claim(file, thread, r.hash)
  BY <1>3, <1>4, <1>5, <1>7, Sizes DEF Claim
<1>10. /\ Reserved(thread[t]) = 0 /\ Rolling(thread[t]) = 0 /\ Releasing(thread[t]) = 0
       /\ Reserved(r) = 0 /\ Rolling(r) = 0 /\ Releasing(r) = 0
  BY <1>1, <1>7 DEF Reserved, Rolling, Releasing
<1>11. Follows(used, used', thread[t], r)
  BY <1>1, <1>2, <1>10 DEF Follows
<1> HIDE DEF h
<1>12. r.hash \in Deletable /\ acked' \subseteq Hash /\ file' = file
  BY <1>1, <1>2, <1>4, <1>7
<1> QED
  BY <1>1, <1>6, <1>7, <1>8, <1>9, <1>11, <1>12, QuietStep
-----------------------------------------------------------------------------
(* The steps that change a file. *)

\* A step of a put on the file of its chunk: what the file gains is what the
\* thread had reserved.
LEMMA WriteStep ==
    ASSUME IInv, DeletesWhatWritesWell, NEW t \in Thread, NEW r, CallOrIdle(r),
           NEW h \in Hash, thread[t].pc \in {"put_create", "put_write"},
           thread[t].hash = h,
           r = Idle \/ (r.pc = "put_write" /\ r.hash = h),
           r.pc = "put_write" /\ r.attached => file'[h] # NoFile,
           file[h] # NoFile => file'[h] # NoFile,
           thread' = [thread EXCEPT ![t] = r],
           FileTable(file'), \A g \in Hash \ {h} : file'[g] = file[g],
           Claim(file', thread', h) + Reserved(r)
                <= Claim(file, thread, h) + Reserved(thread[t]),
           h \notin FailingWrites =>
                \/ Claim(file', thread', h) = Blocks[h]
                \/ /\ file'[h] = file[h]
                   /\ Claim(file', thread', h) = Claim(file, thread, h),
           used' = used, acked' \subseteq Hash
    PROVE  IInv'
<1> DEFINE f == file'
           th == thread'
<1>1. /\ FileTable(file) /\ ThreadTable(thread) /\ FileTable(f)
      /\ Balanced(used, file, thread) /\ thread \in [Thread -> {Idle} \cup Call]
  BY DEF IInv, ThreadTable
<1>2. th[t] = r /\ \A u \in Thread \ {t} : th[u] = thread[u]
  BY <1>1
<1>3. ThreadTable(th)
  BY <1>1, OneThread
<1>4. \A g \in Hash \ {h} : Writing(th, g) <=> Writing(thread, g)
  BY <1>2 DEF Writing, Idle
<1>5. \A g \in Hash \ {h} : Claim(f, th, g) = Claim(file, thread, g)
  BY <1>4 DEF Claim, LastWritten, Size
<1> HIDE DEF f, th
<1>6. WritersSeeTheirFile(f, th)
  <2>1. \A u \in Thread : th[u].pc = "put_write" => th[u].hash \in Hash
    BY <1>3, CallFacts
  <2>2. ASSUME NEW u \in Thread, th[u].pc = "put_write", th[u].attached
        PROVE  f[th[u].hash] # NoFile
    <3>1. CASE u = t
      BY <1>2, <2>2, <3>1 DEF f, Idle
    <3>2. CASE u # t
      BY <1>2, <2>1, <2>2, <3>2 DEF f, IInv, WritersSeeTheirFile
    <3> QED
      BY <3>1, <3>2
  <2> QED
    BY <2>2 DEF WritersSeeTheirFile
<1>7. DeletersReleaseLess(f, th)
  <2> SUFFICES ASSUME NEW u \in Thread, th[u].pc \in {"delete_stat", "delete_remove"}
               PROVE  /\ th[u].hash \in Deletable
                      /\ th[u].pc = "delete_remove" /\ f[th[u].hash] # NoFile =>
                            th[u].len <= Claim(f, th, th[u].hash)
    BY DEF DeletersReleaseLess
  <2>1. u # t
    BY <1>2 DEF Idle
  <2>2. th[u] = thread[u] /\ th[u].hash \in Deletable
    BY <1>2, <2>1 DEF IInv, DeletersReleaseLess
  <2>3. th[u].hash \in Hash /\ th[u].len \in Nat /\ th[u].len <= Blocks[th[u].hash]
    BY <1>3, CallFacts
  <2>4. th[u].pc = "delete_remove" /\ file[th[u].hash] # NoFile =>
            th[u].len <= Claim(file, thread, th[u].hash)
    BY <2>2 DEF IInv, DeletersReleaseLess
  <2>5. CASE th[u].hash = h
    <3>1. h \notin FailingWrites
      BY <2>2, <2>5 DEF DeletesWhatWritesWell
    <3> QED
      BY <2>2, <2>3, <2>4, <2>5, <3>1 DEF f, th
  <2>6. CASE th[u].hash # h
    BY <1>5, <2>2, <2>3, <2>4, <2>6 DEF f
  <2> QED
    BY <2>5, <2>6
<1>8. Claims(f, th) + Claim(file, thread, h) = Claims(file, thread) + Claim(f, th, h)
  BY <1>1, <1>5, ClaimChange
<1>9. Moves(thread, th, t)
  BY <1>1, <1>2, <1>3, ThreadChange DEF SameButAttached
<1>10. SumsNat(f, th) /\ SumsNat(file, thread)
  BY <1>1, <1>3, SumTypes
<1>11. /\ Rolling(thread[t]) = 0 /\ Releasing(thread[t]) = 0
       /\ Rolling(r) = 0 /\ Releasing(r) = 0
  BY DEF Rolling, Releasing, Idle
<1>12. /\ Claim(file, thread, h) \in Nat /\ Claim(f, th, h) \in Nat
       /\ Reserved(thread[t]) \in Nat /\ Reserved(r) \in Nat
  BY <1>1, <1>2, <1>3, ClaimFacts, Parts
<1>13. Claim(f, th, h) + Reserved(r) <= Claim(file, thread, h) + Reserved(thread[t])
  BY DEF f, th
<1>14. /\ Claims(f, th) + Reservations(th) <= Claims(file, thread) + Reservations(thread)
       /\ Rollbacks(th) = Rollbacks(thread) /\ Releases(th) = Releases(thread)
  BY <1>2, <1>8, <1>9, <1>10, <1>11, <1>12, <1>13 DEF Moves, SumsNat
<1>15. Balanced(used, f, th)
  BY <1>1, <1>10, <1>14, Sizes DEF Balanced, SumsNat
<1> QED
  BY <1>1, <1>3, <1>6, <1>7, <1>15 DEF IInv, f, th
\* Opening the file turns the reservation into the file's part, or keeps it when
\* the write may still fail.
LEMMA PutCreateStep ==
    ASSUME IInv, DeletesWhatWritesWell, NEW t \in Thread, PutCreate(t)
    PROVE  IInv'
<1> DEFINE h == thread[t].hash
           r == [thread[t] EXCEPT !.pc = "put_write", !.attached = TRUE]
<1>1. /\ thread[t].pc = "put_create" /\ used' = used /\ acked' = acked
      /\ file' = [file EXCEPT ![h] = <<>>]
      /\ thread' = [thread EXCEPT ![t].pc = "put_write", ![t].attached = TRUE]
  BY DEF PutCreate, At, Chunk
<1>2. /\ ThreadTable(thread) /\ FileTable(file) /\ acked \subseteq Hash
      /\ thread \in [Thread -> {Idle} \cup Call]
      /\ file \in [Hash -> {NoFile} \cup Seq(Block)]
  BY DEF IInv, ThreadTable, FileTable
<1>3. /\ thread[t] \in Call /\ h \in Hash /\ thread[t].next <= Blocks[h]
      /\ thread[t].len <= Blocks[h]
  BY <1>1, <1>2, CallFacts
<1>4. thread' = [thread EXCEPT ![t] = r]
  BY <1>1, <1>2
<1>5. /\ r \in Call /\ r.hash = h /\ r.next = thread[t].next /\ r.len = thread[t].len
      /\ r.pc = "put_write" /\ r.attached = TRUE
  BY <1>3 DEF Call, PC
<1> HIDE DEF r, h
<1>6. CallOrIdle(r)
  BY <1>3, <1>5 DEF CallOrIdle, h
<1>7. <<>> \in Seq(Block) /\ Len(<<>>) = 0 /\ <<>> # NoFile
  <2>1. <<>> \in Seq(Block)
    OBVIOUS
  <2>2. Len(<<>>) = 0
    OBVIOUS
  <2> QED
    BY <2>1, <2>2, NoFileFacts
<1>8. file'[h] = <<>> /\ \A g \in Hash \ {h} : file'[g] = file[g]
  BY <1>1, <1>2, <1>3
<1>9. FileTable(file')
  <2>1. file' \in [Hash -> {NoFile} \cup Seq(Block)]
    BY <1>1, <1>2, <1>3, <1>7
  <2>2. ASSUME NEW g \in Hash, file'[g] # NoFile PROVE Len(file'[g]) <= Blocks[g]
    BY <1>2, <1>7, <1>8, <2>2, Sizes DEF FileTable
  <2> QED
    BY <2>1, <2>2 DEF FileTable
<1>10. thread'[t] = r
  BY <1>2, <1>4
<1>11. /\ thread[t].pc \in {"put_create", "put_write"} /\ thread[t].hash = h
       /\ r = Idle \/ (r.pc = "put_write" /\ r.hash = h)
       /\ file'[h] # NoFile /\ acked' \subseteq Hash /\ used' = used
  BY <1>1, <1>2, <1>5, <1>7, <1>8 DEF h
<1>12. Blocks[h] \in Nat /\ 1 <= Blocks[h]
  BY <1>3, Sizes
<1>13. Claim(file, thread, h) \in Nat
  BY <1>2, <1>3, ClaimFacts
<1>14. CASE h \in FailingWrites
  <2>1. Claim(file', thread', h) = 0
    BY <1>7, <1>8, <1>12, <1>14 DEF Claim, LastWritten
  <2>2. Reserved(r) = Blocks[h] /\ Reserved(thread[t]) = Blocks[h]
    BY <1>1, <1>5, <1>14 DEF Reserved, h
  <2> HIDE DEF Claim, Reserved
  <2>3. Claim(file', thread', h) + Reserved(r)
            <= Claim(file, thread, h) + Reserved(thread[t])
    BY <1>12, <1>13, <2>1, <2>2
  <2> QED
    BY <1>3, <1>4, <1>6, <1>8, <1>9, <1>14, <1>11, <2>3, WriteStep
<1>15. CASE h \notin FailingWrites
  <2>1. Writing(thread', h)
    BY <1>5, <1>10 DEF Writing
  <2>2. Claim(file', thread', h) = Blocks[h]
    BY <1>15, <2>1 DEF Claim
  <2>3. Reserved(r) = 0 /\ Reserved(thread[t]) = Blocks[h]
    BY <1>1, <1>5, <1>15 DEF Reserved, h
  <2>4. Claim(file', thread', h) + Reserved(r)
            <= Claim(file, thread, h) + Reserved(thread[t])
    BY <1>12, <1>13, <2>2, <2>3
  <2> QED
    BY <1>3, <1>4, <1>6, <1>8, <1>9, <1>11, <2>2, <2>4, WriteStep
<1> QED
  BY <1>14, <1>15

\* What a put leaves of the file when it writes block i through an open file.
LEMMA WrittenFile ==
    ASSUME NEW f, FileTable(f), NEW h \in Hash, f[h] # NoFile,
           NEW i \in Nat \ {0}, i <= Blocks[h],
           NEW f2, f2[h] = WriteBlock(f[h], i), f2 = [f EXCEPT ![h] = f2[h]]
    PROVE  /\ FileTable(f2) /\ f2[h] # NoFile
           /\ \A g \in Hash \ {h} : f2[g] = f[g]
           /\ i = Blocks[h] => LastWritten(f2, h) /\ Size(f2, h) = Blocks[h]
           /\ i # Blocks[h] => (LastWritten(f2, h) <=> LastWritten(f, h))
<1>1. /\ f \in [Hash -> {NoFile} \cup Seq(Block)] /\ f[h] \in Seq(Block)
      /\ Len(f[h]) <= Blocks[h] /\ Len(f[h]) \in Nat
  BY DEF FileTable
<1> DEFINE w == f2[h]
<1>2. /\ w \in Seq(Block) /\ Len(w) = IF i >= Len(f[h]) THEN i ELSE Len(f[h])
      /\ w[i] = "ok" /\ \A j \in 1..Len(f[h]) : j # i => w[j] = f[h][j]
  BY <1>1, WriteBlockFacts
<1> HIDE DEF w
<1>3. f2 = [f EXCEPT ![h] = w] /\ f2[h] = w
  BY DEF w
<1>4. f2[h] = w /\ \A g \in Hash \ {h} : f2[g] = f[g]
  BY <1>1, <1>3
<1>5. Len(w) <= Blocks[h] /\ w # NoFile /\ Blocks[h] \in Nat /\ 1 <= Blocks[h]
  BY <1>1, <1>2, NoFileFacts, Sizes
<1>6. FileTable(f2)
  <2>1. f2 \in [Hash -> {NoFile} \cup Seq(Block)]
    BY <1>1, <1>2, <1>3
  <2>2. ASSUME NEW g \in Hash, f2[g] # NoFile PROVE Len(f2[g]) <= Blocks[g]
    BY <1>4, <1>5, <2>2 DEF FileTable
  <2> QED
    BY <2>1, <2>2 DEF FileTable
<1>7. i = Blocks[h] => LastWritten(f2, h) /\ Size(f2, h) = Blocks[h]
  BY <1>1, <1>2, <1>4, <1>5 DEF LastWritten, Size
<1>8. i # Blocks[h] => (LastWritten(f2, h) <=> LastWritten(f, h))
  BY <1>1, <1>2, <1>4, <1>5 DEF LastWritten
<1> QED
  BY <1>4, <1>5, <1>6, <1>7, <1>8

\* Writing a block keeps the file's part; with the last block the reservation of a
\* put that might have failed becomes the file's part.
LEMMA PutWriteStep ==
    ASSUME IInv, DeletesWhatWritesWell, NEW t \in Thread, PutWrite(t)
    PROVE  IInv'
<1> DEFINE h == thread[t].hash
           i == thread[t].next
           r == IF i = Blocks[h] THEN Idle ELSE [thread[t] EXCEPT !.next = i + 1]
<1>1. /\ thread[t].pc = "put_write" /\ used' = used
      /\ file' = IF thread[t].attached
                 THEN [file EXCEPT ![h] = WriteBlock(@, i)] ELSE file
  BY DEF PutWrite, At, Chunk
<1>2. /\ ThreadTable(thread) /\ FileTable(file) /\ acked \subseteq Hash
      /\ thread \in [Thread -> {Idle} \cup Call]
      /\ file \in [Hash -> {NoFile} \cup Seq(Block)]
  BY DEF IInv, ThreadTable, FileTable
<1>3. /\ thread[t] \in Call /\ h \in Hash /\ i \in Nat \ {0} /\ i <= Blocks[h]
      /\ thread[t].len <= Blocks[h] /\ Blocks[h] \in Nat /\ thread[t].attached \in BOOLEAN
  BY <1>1, <1>2, CallFacts, Sizes
<1>4. thread' = [thread EXCEPT ![t] = r] /\ acked' \subseteq Hash
  BY <1>2, <1>3 DEF PutWrite, Return, Chunk
<1>5. /\ i = Blocks[h] => r = Idle
      /\ i # Blocks[h] => /\ r \in Call /\ r.hash = h /\ r.next <= Blocks[h]
                          /\ r.len = thread[t].len /\ r.pc = "put_write"
                          /\ r.attached = thread[t].attached
  BY <1>1, <1>3 DEF Call
<1> HIDE DEF r, h, i
<1>6. CallOrIdle(r)
  BY <1>3, <1>5 DEF CallOrIdle, h
<1>7. thread'[t] = r /\ \A u \in Thread \ {t} : thread'[u] = thread[u]
  BY <1>2, <1>4
<1>8. /\ Claim(file, thread, h) \in Nat /\ 1 <= Blocks[h]
  BY <1>2, <1>3, ClaimFacts, Sizes
<1>9. Idle.pc = "idle"
  BY DEF Idle
<1>10. h \in FailingWrites =>
        /\ Reserved(thread[t]) = Blocks[h]
        /\ Reserved(r) = IF i = Blocks[h] THEN 0 ELSE Blocks[h]
  BY <1>1, <1>5, <1>9 DEF Reserved, h
<1>11. h \notin FailingWrites => Reserved(thread[t]) = 0 /\ Reserved(r) = 0
  BY <1>1, <1>5, <1>9 DEF Reserved, h
<1>12. r = Idle \/ (r.pc = "put_write" /\ r.hash = h)
  BY <1>5
<1>13. CASE thread[t].attached
  <2>1. file[h] # NoFile
    BY <1>1, <1>13 DEF IInv, WritersSeeTheirFile, h
  <2> DEFINE w == WriteBlock(file[h], i)
  <2>2. file' = [file EXCEPT ![h] = w]
    BY <1>1, <1>13
  <2>3. file'[h] = WriteBlock(file[h], i) /\ file' = [file EXCEPT ![h] = file'[h]]
    BY <1>2, <1>3, <2>2
  <2>4. FileTable(file) /\ h \in Hash /\ i \in Nat \ {0} /\ i <= Blocks[h]
    BY <1>2, <1>3
  <2> HIDE DEF w
  <2>5. /\ FileTable(file') /\ file'[h] # NoFile
        /\ \A g \in Hash \ {h} : file'[g] = file[g]
        /\ i = Blocks[h] => LastWritten(file', h) /\ Size(file', h) = Blocks[h]
        /\ i # Blocks[h] => (LastWritten(file', h) <=> LastWritten(file, h))
    BY <2>1, <2>4, <2>3, WrittenFile
  <2>6. CASE h \in FailingWrites
    <3>1. Claim(file', thread', h) + Reserved(r)
            <= Claim(file, thread, h) + Reserved(thread[t])
      BY <1>3, <1>8, <1>10, <2>5, <2>6 DEF Claim
    <3> QED
      BY <1>1, <1>3, <1>4, <1>6, <1>12, <2>5, <2>6, <3>1, WriteStep DEF h
  <2>7. CASE h \notin FailingWrites
    <3>1. Claim(file, thread, h) = Blocks[h]
      BY <1>1, <1>13, <2>7 DEF Claim, Writing, h
    <3>2. Claim(file', thread', h) = Blocks[h]
      <4>1. CASE i = Blocks[h]
        BY <2>5, <2>7, <4>1 DEF Claim
      <4>2. CASE i # Blocks[h]
        <5>1. Writing(thread', h)
          BY <1>5, <1>7, <1>13, <4>2 DEF Writing
        <5> QED
          BY <2>7, <5>1 DEF Claim
      <4> QED
        BY <4>1, <4>2
    <3>3. Claim(file', thread', h) + Reserved(r)
            <= Claim(file, thread, h) + Reserved(thread[t])
      BY <1>3, <1>11, <2>7, <3>1, <3>2
    <3> QED
      BY <1>1, <1>3, <1>4, <1>6, <1>12, <2>5, <3>2, <3>3, WriteStep DEF h
  <2> QED
    BY <2>6, <2>7
<1>14. CASE ~thread[t].attached
  <2>1. file' = file
    BY <1>1, <1>14
  <2>2. ~(r.pc = "put_write" /\ r.attached)
    BY <1>5, <1>9, <1>14
  <2>3. Writing(thread', h) <=> Writing(thread, h)
    <3>1. ~(thread[t].pc = "put_write" /\ thread[t].hash = h /\ thread[t].attached)
      BY <1>14
    <3>2. ~(thread'[t].pc = "put_write" /\ thread'[t].hash = h /\ thread'[t].attached)
      BY <1>7, <2>2
    <3> HIDE DEF r
    <3> QED
      BY <1>7, <3>1, <3>2 DEF Writing
  <2>4. Claim(file', thread', h) = Claim(file, thread, h)
    BY <2>1, <2>3 DEF Claim
  <2>5. Reserved(r) \in Nat /\ Reserved(thread[t]) \in Nat
        /\ Reserved(r) <= Reserved(thread[t])
    BY <1>3, <1>10, <1>11
  <2>6. Claim(file', thread', h) + Reserved(r)
            <= Claim(file, thread, h) + Reserved(thread[t])
    BY <1>8, <2>4, <2>5
  <2> QED
    BY <1>1, <1>2, <1>3, <1>4, <1>6, <1>12, <2>1, <2>2, <2>4, <2>6, WriteStep DEF h
<1> QED
  BY <1>13, <1>14
\* The threads after the file of h has lost its name, and thread t went on to r.
LEMMA DetachedTable ==
    ASSUME IInv, NEW h \in Hash, NEW t \in Thread, NEW r, CallOrIdle(r),
           r.pc # "put_write", thread' = [Detached(h) EXCEPT ![t] = r]
    PROVE  /\ ThreadTable(thread') /\ thread'[t] = r
           /\ \A u \in Thread \ {t} : SameButAttached(thread, thread', u)
           /\ \A u \in Thread \ {t} : thread[u].pc # "idle" =>
                (thread'[u].attached <=> thread[u].attached /\ thread[u].hash # h)
<1> DEFINE d == Detached(h)
<1>1. thread \in [Thread -> {Idle} \cup Call] /\ ThreadTable(thread)
  BY DEF IInv, ThreadTable
<1>2. ASSUME NEW u \in Thread
      PROVE  /\ d[u] \in {Idle} \cup Call
             /\ d[u].pc = thread[u].pc
             /\ d[u] = Idle <=> thread[u] = Idle
             /\ thread[u].pc # "idle" =>
                  /\ d[u].hash = thread[u].hash /\ d[u].len = thread[u].len
                  /\ d[u].next = thread[u].next
                  /\ (d[u].attached <=> thread[u].attached /\ thread[u].hash # h)
  <2>1. CASE thread[u] = Idle
    BY <2>1 DEF Detached, Idle
  <2>2. CASE thread[u] # Idle
    <3>1. thread[u] \in Call
      BY <1>1, <2>2
    <3>2. CASE thread[u].hash = h
      <4>1. d[u] = [thread[u] EXCEPT !.attached = FALSE]
        BY <2>2, <3>2 DEF Detached
      <4>2. /\ d[u] \in Call /\ d[u].pc = thread[u].pc /\ d[u].hash = thread[u].hash
            /\ d[u].len = thread[u].len /\ d[u].next = thread[u].next
            /\ d[u].attached = FALSE
        BY <3>1, <4>1 DEF Call
      <4>3. d[u] # Idle
        BY <4>2 DEF Call, PC, Idle
      <4> QED
        BY <2>2, <3>2, <4>2, <4>3
    <3>3. CASE thread[u].hash # h
      <4>1. d[u] = thread[u]
        BY <3>3 DEF Detached
      <4>2. thread[u].attached \in BOOLEAN
        BY <3>1 DEF Call
      <4> QED
        BY <2>2, <3>1, <3>3, <4>1, <4>2
    <3> QED
      BY <3>2, <3>3
  <2> QED
    BY <2>1, <2>2
<1>3. d \in [Thread -> {Idle} \cup Call]
  <2>1. DOMAIN d = Thread /\ d = [u \in Thread |-> d[u]]
    BY DEF Detached
  <2> HIDE DEF d
  <2> QED
    BY <1>2, <2>1
<1> HIDE DEF d
<1>4. ThreadTable(d)
  <2>1. \A u \in Thread : thread[u] # Idle => thread[u].pc # "idle"
    BY <1>1 DEF Call, PC
  <2> QED
    BY <1>1, <1>2, <1>3, <2>1 DEF ThreadTable
<1>5. thread' = [d EXCEPT ![t] = r]
  BY DEF d
<1>6. ThreadTable(thread')
  <2>1. ThreadTable([d EXCEPT ![t] = r])
    BY <1>4, OneThread
  <2> QED
    BY <1>5, <2>1
<1>7. thread'[t] = r /\ \A u \in Thread \ {t} : thread'[u] = d[u]
  BY <1>3, <1>5
<1> QED
  BY <1>2, <1>6, <1>7 DEF SameButAttached

\* A file is removed: its part of the counter is at least what the thread now
\* has to give back.
LEMMA RemoveStep ==
    ASSUME IInv, NEW h \in Hash, NEW t \in Thread, NEW r, CallOrIdle(r),
           r.pc \in {"idle", "delete_release"},
           thread[t].pc \in {"get_remove", "delete_remove"},
           Releasing(r) <= Claim(file, thread, h),
           file' = [file EXCEPT ![h] = NoFile],
           thread' = [Detached(h) EXCEPT ![t] = r],
           used' = used, acked' \subseteq Hash
    PROVE  IInv'
<1> DEFINE f == file'
           th == thread'
<1>1. /\ FileTable(file) /\ ThreadTable(thread) /\ Balanced(used, file, thread)
      /\ file \in [Hash -> {NoFile} \cup Seq(Block)]
  BY DEF IInv, FileTable
<1>2. /\ ThreadTable(th) /\ th[t] = r
      /\ \A u \in Thread \ {t} : SameButAttached(thread, th, u)
      /\ \A u \in Thread \ {t} : thread[u].pc # "idle" =>
            (th[u].attached <=> thread[u].attached /\ thread[u].hash # h)
  BY DetachedTable
<1>3. f[h] = NoFile /\ \A g \in Hash \ {h} : f[g] = file[g]
  BY <1>1
<1>4. FileTable(f)
  <2>1. f \in [Hash -> {NoFile} \cup Seq(Block)]
    BY <1>1
  <2> HIDE DEF f
  <2> QED
    BY <1>1, <1>3, <2>1 DEF FileTable
<1> HIDE DEF f, th
<1>5. ASSUME NEW g \in Hash \ {h} PROVE Writing(th, g) <=> Writing(thread, g)
  <2>1. th[t].pc # "put_write" /\ thread[t].pc # "put_write"
    BY <1>2
  <2>2. ASSUME NEW u \in Thread \ {t}
        PROVE  (th[u].pc = "put_write" /\ th[u].hash = g /\ th[u].attached) <=>
               (thread[u].pc = "put_write" /\ thread[u].hash = g /\ thread[u].attached)
    BY <1>2 DEF SameButAttached
  <2> QED
    BY <2>1, <2>2 DEF Writing
<1>6. \A g \in Hash \ {h} : Claim(f, th, g) = Claim(file, thread, g)
  BY <1>3, <1>5 DEF Claim, LastWritten, Size
<1>7. ~Writing(th, h)
  BY <1>2 DEF Writing, SameButAttached
<1>8. Claim(f, th, h) = 0
  BY <1>3, <1>7 DEF Claim, LastWritten, Size
<1>9. WritersSeeTheirFile(f, th)
  <2> SUFFICES ASSUME NEW u \in Thread, th[u].pc = "put_write", th[u].attached
               PROVE  f[th[u].hash] # NoFile
    BY DEF WritersSeeTheirFile
  <2>1. u # t
    BY <1>2
  <2>2. /\ thread[u].pc = "put_write" /\ thread[u].attached /\ thread[u].hash # h
        /\ th[u].hash = thread[u].hash
    BY <1>2, <2>1 DEF SameButAttached
  <2>3. thread[u].hash \in Hash
    BY <1>1, <2>2, CallFacts
  <2> QED
    BY <1>3, <2>2, <2>3 DEF IInv, WritersSeeTheirFile
<1>10. DeletersReleaseLess(f, th)
  <2> SUFFICES ASSUME NEW u \in Thread, th[u].pc \in {"delete_stat", "delete_remove"}
               PROVE  /\ th[u].hash \in Deletable
                      /\ th[u].pc = "delete_remove" /\ f[th[u].hash] # NoFile =>
                            th[u].len <= Claim(f, th, th[u].hash)
    BY DEF DeletersReleaseLess
  <2>1. u # t
    BY <1>2
  <2>2. /\ thread[u].pc = th[u].pc /\ thread[u].len = th[u].len
        /\ th[u].hash = thread[u].hash
    BY <1>2, <2>1 DEF SameButAttached
  <2>3. thread[u].hash \in Hash
    BY <1>1, <2>2, CallFacts
  <2> QED
    BY <1>3, <1>6, <2>2, <2>3 DEF IInv, DeletersReleaseLess
<1>11. Claims(f, th) + Claim(file, thread, h) = Claims(file, thread) + Claim(f, th, h)
  BY <1>1, <1>4, <1>6, ClaimChange
<1>12. Moves(thread, th, t)
  BY <1>1, <1>2, ThreadChange
<1>13. SumsNat(f, th) /\ SumsNat(file, thread)
  BY <1>1, <1>2, <1>4, SumTypes
<1>14. /\ Reserved(thread[t]) = 0 /\ Rolling(thread[t]) = 0 /\ Releasing(thread[t]) = 0
       /\ Reserved(r) = 0 /\ Rolling(r) = 0
  BY DEF Reserved, Rolling, Releasing
<1>15. Releasing(r) \in Nat /\ Claim(file, thread, h) \in Nat
  BY <1>1, <1>2, Parts, ClaimFacts
<1>16. /\ Claims(f, th) + Releases(th) <= Claims(file, thread) + Releases(thread)
       /\ Claims(f, th) <= Claims(file, thread)
       /\ Reservations(th) = Reservations(thread) /\ Rollbacks(th) = Rollbacks(thread)
  BY <1>2, <1>8, <1>11, <1>12, <1>13, <1>14, <1>15 DEF Moves, SumsNat
<1>17. Balanced(used, f, th)
  BY <1>1, <1>13, <1>16, Sizes DEF Balanced, SumsNat
<1> QED
  BY <1>2, <1>4, <1>9, <1>10, <1>17 DEF IInv, f, th

\* Removing a damaged file frees its part and leaves the counter high.
LEMMA GetRemoveStep ==
    ASSUME IInv, NEW t \in Thread, GetRemove(t)
    PROVE  IInv'
<1> DEFINE h == thread[t].hash
<1>1. /\ thread[t].pc = "get_remove" /\ file' = [file EXCEPT ![h] = NoFile]
      /\ thread' = [Detached(h) EXCEPT ![t] = Idle] /\ used' = used /\ acked' = acked
  BY DEF GetRemove, At, Chunk
<1>2. h \in Hash /\ FileTable(file) /\ acked \subseteq Hash
  BY <1>1, CallFacts DEF IInv
<1>3. Idle.pc = "idle" /\ CallOrIdle(Idle) /\ Releasing(Idle) = 0
  BY DEF Idle, CallOrIdle, Releasing
<1>4. Claim(file, thread, h) \in Nat
  BY <1>2, ClaimFacts
<1> HIDE DEF h
<1>5. Releasing(Idle) <= Claim(file, thread, h)
  BY <1>3, <1>4
<1> QED
  BY <1>1, <1>2, <1>3, <1>5, RemoveStep

\* Deleting a file turns its part into what the thread is to give back.
LEMMA DeleteRemoveStep ==
    ASSUME IInv, NEW t \in Thread, DeleteRemove(t)
    PROVE  IInv'
<1> DEFINE h == thread[t].hash
<1>1. thread[t].pc = "delete_remove" /\ used' = used
  BY DEF DeleteRemove, At
<1>2. CASE Exists(h)
  <2> DEFINE d == Detached(h)
             r == [d[t] EXCEPT !.pc = "delete_release"]
  <2>1. /\ file' = [file EXCEPT ![h] = NoFile] /\ acked' = acked \ {h}
        /\ thread' = [d EXCEPT ![t].pc = "delete_release"]
    BY <1>2 DEF DeleteRemove, Chunk
  <2>2. h \in Hash /\ FileTable(file) /\ ThreadTable(thread) /\ acked \subseteq Hash
    BY <1>1, CallFacts DEF IInv
  <2>3. /\ thread[t] \in Call /\ thread[t].len \in Nat /\ thread[t].len <= Blocks[h]
        /\ thread[t].next <= Blocks[h] /\ thread[t] # Idle
    BY <1>1, <2>2, CallFacts DEF Idle
  <2>4. d[t] = [thread[t] EXCEPT !.attached = FALSE]
    BY <2>3 DEF Detached
  <2>5. thread' = [d EXCEPT ![t] = r]
    <3>1. DOMAIN d = Thread
      BY DEF Detached
    <3> HIDE DEF d
    <3> QED
      BY <2>1, <3>1
  <2>6. /\ r \in Call /\ r.hash = h /\ r.next = thread[t].next /\ r.len = thread[t].len
        /\ r.pc = "delete_release"
    <3>1. /\ d[t] \in Call /\ d[t].hash = h /\ d[t].next = thread[t].next
          /\ d[t].len = thread[t].len
      BY <2>3, <2>4 DEF Call
    <3> HIDE DEF d
    <3> QED
      BY <3>1 DEF Call, PC
  <2>7. thread[t].len <= Claim(file, thread, h)
    BY <1>1, <1>2 DEF IInv, DeletersReleaseLess, Exists
  <2> HIDE DEF r, h
  <2>8. CallOrIdle(r) /\ Releasing(r) <= Claim(file, thread, h)
    BY <2>3, <2>6, <2>7 DEF CallOrIdle, Releasing
  <2>9. thread' = [Detached(h) EXCEPT ![t] = r] /\ acked' \subseteq Hash
    BY <2>1, <2>2, <2>5
  <2> QED
    BY <1>1, <2>1, <2>2, <2>6, <2>8, <2>9, RemoveStep
<1>3. CASE ~Exists(h)
  <2>1. Return(t) /\ UNCHANGED <<file, used, acked>>
    BY <1>1, <1>3 DEF DeleteRemove, Chunk
  <2> QED
    BY <1>1, <2>1, QuietReturnStep
<1> QED
  BY <1>2, <1>3
-----------------------------------------------------------------------------
(* The environment *)

\* Damage on disk does not make a file longer or shorter.
LEMMA CorruptStep ==
    ASSUME IInv, DeletesWhatWritesWell, NEW h \in Hash, Corrupt(h)
    PROVE  IInv'
<1>1. PICK i \in 1..Len(file[h]) : file' = [file EXCEPT ![h][i] = "bad"]
  BY DEF Corrupt
<1>2. /\ file[h] # NoFile /\ used' = used /\ thread' = thread /\ acked' \subseteq Hash
  BY DEF Corrupt, Exists, IInv
<1>3. /\ FileTable(file) /\ ThreadTable(thread) /\ Balanced(used, file, thread)
      /\ file \in [Hash -> {NoFile} \cup Seq(Block)]
      /\ WritersSeeTheirFile(file, thread) /\ DeletersReleaseLess(file, thread)
  BY DEF IInv, FileTable
<1>4. file[h] \in Seq(Block) /\ Len(file[h]) <= Blocks[h] /\ Len(file[h]) \in Nat
  BY <1>2, <1>3 DEF FileTable
<1> DEFINE f == file'
           w == [file[h] EXCEPT ![i] = "bad"]
<1>5. /\ w \in Seq(Block) /\ Len(w) = Len(file[h]) /\ w[i] = "bad"
      /\ \A j \in 1..Len(w) : j # i => w[j] = file[h][j]
  <2>1. w \in [1..Len(file[h]) -> Block]
    BY <1>4 DEF Block
  <2> QED
    BY <1>4, <2>1
<1>6. file' = [file EXCEPT ![h] = w]
  BY <1>1, <1>3
<1> HIDE DEF w
<1>7. f[h] = w /\ \A g \in Hash \ {h} : f[g] = file[g]
  BY <1>3, <1>6
<1>8. w # NoFile
  BY <1>5, NoFileFacts
<1>9. FileTable(f)
  <2>1. f \in [Hash -> {NoFile} \cup Seq(Block)]
    BY <1>3, <1>5, <1>6
  <2> HIDE DEF f
  <2>2. ASSUME NEW g \in Hash, f[g] # NoFile PROVE Len(f[g]) <= Blocks[g]
    BY <1>3, <1>4, <1>5, <1>7, <2>2 DEF FileTable
  <2> QED
    BY <2>1, <2>2 DEF FileTable
<1> HIDE DEF f
<1>10. \A g \in Hash : (f[g] = NoFile <=> file[g] = NoFile) /\ Size(f, g) = Size(file, g)
  BY <1>2, <1>5, <1>7, <1>8 DEF Size
<1>11. LastWritten(f, h) => LastWritten(file, h)
  <2>1. Blocks[h] \in Nat /\ 1 <= Blocks[h]
    BY Sizes
  <2> QED
    BY <1>2, <1>4, <1>5, <1>7, <2>1 DEF LastWritten
<1>12. \A g \in Hash \ {h} : LastWritten(f, g) <=> LastWritten(file, g)
  BY <1>7 DEF LastWritten
<1>13. \A g \in Hash : Claim(f, thread, g) <= Claim(file, thread, g)
  <2> SUFFICES ASSUME NEW g \in Hash
               PROVE  Claim(f, thread, g) <= Claim(file, thread, g)
    OBVIOUS
  <2>1. Claim(f, thread, g) \in Nat /\ Claim(file, thread, g) \in Nat /\ Blocks[g] \in Nat
    BY <1>3, <1>9, ClaimFacts, Sizes
  <2>2. CASE g \in FailingWrites
    BY <1>11, <1>12, <2>1, <2>2 DEF Claim
  <2>3. CASE g \notin FailingWrites
    <3>1. Claim(f, thread, g) = Claim(file, thread, g)
      BY <1>10, <2>3 DEF Claim
    <3> QED
      BY <2>1, <3>1
  <2> QED
    BY <2>2, <2>3
<1>14. \A g \in Hash \ FailingWrites : Claim(f, thread, g) = Claim(file, thread, g)
  BY <1>10 DEF Claim
<1>15. Claims(f, thread) <= Claims(file, thread)
  BY <1>3, <1>9, <1>13, ClaimsShrink
<1>16. SumsNat(f, thread) /\ SumsNat(file, thread)
  BY <1>3, <1>9, SumTypes
<1>17. Balanced(used, f, thread)
  BY <1>3, <1>15, <1>16, Sizes DEF Balanced, SumsNat
<1>18. WritersSeeTheirFile(f, thread)
  <2>1. \A u \in Thread : thread[u].pc = "put_write" => thread[u].hash \in Hash
    BY <1>3, CallFacts
  <2> QED
    BY <1>3, <1>10, <2>1 DEF WritersSeeTheirFile
<1>19. DeletersReleaseLess(f, thread)
  <2>1. \A u \in Thread : thread[u].pc = "delete_remove" => thread[u].hash \in Hash
    BY <1>3, CallFacts
  <2>2. \A u \in Thread : thread[u].pc = "delete_remove" => thread[u].hash \notin FailingWrites
    BY <1>3 DEF DeletersReleaseLess, DeletesWhatWritesWell
  <2> QED
    BY <1>3, <1>10, <1>14, <2>1, <2>2 DEF DeletersReleaseLess
<1> QED
  BY <1>2, <1>3, <1>9, <1>17, <1>18, <1>19 DEF IInv, f

\* When no call is under way, nobody holds anything and no file is open.
LEMMA NobodyHolds ==
    ASSUME NEW th, th = [t \in Thread |-> Idle], NEW f
    PROVE  /\ ThreadTable(th)
           /\ Reservations(th) = 0 /\ Rollbacks(th) = 0 /\ Releases(th) = 0
           /\ WritersSeeTheirFile(f, th) /\ DeletersReleaseLess(f, th)
           /\ \A h \in Hash : ~Writing(th, h)
<1>1. ThreadTable(th)
  BY DEF ThreadTable
<1>2. \A t \in Thread : th[t] = Idle /\ th[t].pc = "idle"
  BY DEF Idle
<1>3. \A t \in Thread : Reserved(th[t]) = 0 /\ Rolling(th[t]) = 0 /\ Releasing(th[t]) = 0
  BY <1>2 DEF Reserved, Rolling, Releasing
<1> DEFINE zero == [t \in Thread |-> 0]
<1>4. /\ Reservations(th) = SumFunctionOnSet(zero, Thread)
      /\ Rollbacks(th) = SumFunctionOnSet(zero, Thread)
      /\ Releases(th) = SumFunctionOnSet(zero, Thread)
  <2>1. /\ [t \in Thread |-> Reserved(th[t])] = zero
        /\ [t \in Thread |-> Rolling(th[t])] = zero
        /\ [t \in Thread |-> Releasing(th[t])] = zero
    BY <1>3
  <2> HIDE DEF zero
  <2> QED
    BY <2>1 DEF Reservations, Rollbacks, Releases
<1>5. \A t \in Thread : zero[t] \in 0..0 /\ zero[t] \in Nat
  OBVIOUS
<1> HIDE DEF zero
<1>6. SumFunctionOnSet(zero, Thread) = 0
  <2>1. SumFunctionOnSet(zero, Thread) \in Nat
    BY <1>5, Sizes, SumType
  <2>2. SumFunctionOnSet(zero, Thread) <= Cardinality(Thread) * 0
    BY <1>5, Sizes, SumBound
  <2>3. Cardinality(Thread) * 0 = 0
    BY Sizes, FS_CardinalityType
  <2> QED
    BY <2>1, <2>2, <2>3
<1>7. WritersSeeTheirFile(f, th) /\ DeletersReleaseLess(f, th)
  BY <1>2 DEF WritersSeeTheirFile, DeletersReleaseLess
<1>8. \A h \in Hash : ~Writing(th, h)
  BY <1>2 DEF Writing
<1> QED
  BY <1>1, <1>4, <1>6, <1>7, <1>8

\* The inductive invariant holds in an empty store.
LEMMA InitIInv ==
    ASSUME Init
    PROVE  IInv
<1>1. /\ file = [h \in Hash |-> NoFile] /\ used = 0 /\ acked = {}
      /\ thread = [t \in Thread |-> Idle]
  BY DEF Init
<1>2. FileTable(file)
  BY <1>1 DEF FileTable
<1>3. /\ ThreadTable(thread)
      /\ Reservations(thread) = 0 /\ Rollbacks(thread) = 0 /\ Releases(thread) = 0
      /\ WritersSeeTheirFile(file, thread) /\ DeletersReleaseLess(file, thread)
      /\ \A h \in Hash : ~Writing(thread, h)
  BY <1>1, NobodyHolds
<1>4. \A h \in Hash : Claim(file, thread, h) = 0
  BY <1>1, <1>3 DEF Claim, LastWritten, Size
<1>5. Claims(file, thread) = 0
  <2> DEFINE a == [h \in Hash |-> Claim(file, thread, h)]
  <2>1. \A h \in Hash : a[h] \in 0..0 /\ a[h] \in Nat
    BY <1>4
  <2>2. Claims(file, thread) = SumFunctionOnSet(a, Hash)
    BY DEF Claims
  <2> HIDE DEF a
  <2>3. SumFunctionOnSet(a, Hash) \in Nat
    BY <2>1, Sizes, SumType
  <2>4. SumFunctionOnSet(a, Hash) <= Cardinality(Hash) * 0
    BY <2>1, Sizes, SumBound
  <2>5. Cardinality(Hash) * 0 = 0
    BY Sizes, FS_CardinalityType
  <2> QED
    BY <2>2, <2>3, <2>4, <2>5
<1>6. SumsNat(file, thread)
  BY <1>2, <1>3, SumTypes
<1>7. Balanced(used, file, thread)
  BY <1>1, <1>3, <1>5, <1>6, Sizes DEF Balanced, SumsNat
<1> QED
  BY <1>1, <1>2, <1>3, <1>7 DEF IInv

\* A restart counts the files: what is found covers every part, and exceeds the
\* parts only by what failed writes have left.
LEMMA RestartStep ==
    ASSUME IInv, Restart
    PROVE  IInv'
<1> DEFINE th == [t \in Thread |-> Idle]
           c == [h \in Hash |-> Claim(file, th, h)]
           s == [h \in Hash |-> Size(file, h)]
           l == [h \in Hash |-> Leftover(h)]
<1>1. /\ FileTable(file) /\ ThreadTable(thread) /\ Balanced(used, file, thread)
      /\ acked \subseteq Hash
  BY DEF IInv
<1>2. thread' = th /\ file' = file /\ acked' = acked
  BY DEF Restart
<1>3. used' = SumFunctionOnSet(s, Hash)
  <2>1. [h \in Hash |-> Length(h)] = s
    BY DEF Length, Exists, Size
  <2>2. DOMAIN s = Hash
    OBVIOUS
  <2> HIDE DEF s
  <2> QED
    BY <2>1, <2>2 DEF Restart, DiskUsed, Total, SumFunction
<1> HIDE DEF th
<1>4. /\ ThreadTable(th)
      /\ Reservations(th) = 0 /\ Rollbacks(th) = 0 /\ Releases(th) = 0
      /\ WritersSeeTheirFile(file, th) /\ DeletersReleaseLess(file, th)
      /\ \A h \in Hash : ~Writing(th, h)
  BY NobodyHolds DEF th
<1>5. SumsNat(file, th) /\ SumsNat(file, thread)
  BY <1>1, <1>4, SumTypes
<1>6. ASSUME NEW h \in Hash
      PROVE  /\ c[h] \in Nat /\ s[h] \in Nat /\ l[h] \in Nat
             /\ c[h] <= s[h] /\ s[h] <= c[h] + l[h]
             /\ Claim(file, th, h) <= Claim(file, thread, h)
  <2>1. /\ Size(file, h) \in Nat /\ Size(file, h) <= Blocks[h]
        /\ Claim(file, th, h) \in Nat /\ Claim(file, thread, h) \in Nat /\ Blocks[h] \in Nat
    BY <1>1, SizeFacts, ClaimFacts, Sizes
  <2>2. CASE h \in FailingWrites
    <3>1. LastWritten(file, h) => Size(file, h) = Blocks[h]
      BY DEF LastWritten, Size
    <3>2. Leftover(h) = Blocks[h]
      BY <2>2 DEF Leftover
    <3>3. /\ Claim(file, th, h) = IF LastWritten(file, h) THEN Blocks[h] ELSE 0
          /\ Claim(file, thread, h) = Claim(file, th, h)
      BY <2>2 DEF Claim
    <3> QED
      BY <2>1, <3>1, <3>2, <3>3
  <2>3. CASE h \notin FailingWrites
    <3>1. Claim(file, th, h) = Size(file, h) /\ Leftover(h) = 0
      BY <1>4, <2>3 DEF Claim, Leftover
    <3>2. Claim(file, thread, h) = Size(file, h) \/ Claim(file, thread, h) = Blocks[h]
      BY <2>3 DEF Claim
    <3> QED
      BY <2>1, <3>1, <3>2
  <2> QED
    BY <2>2, <2>3
<1>7. Claims(file, th) <= Claims(file, thread)
  BY <1>1, <1>6, ClaimsShrink
<1>8. Claims(file, th) = SumFunctionOnSet(c, Hash) /\ Leftovers = SumFunctionOnSet(l, Hash)
  BY DEF Claims, Leftovers
<1> HIDE DEF c, s, l
<1>9. SumFunctionOnSet(s, Hash) \in Nat
  BY <1>6, Sizes, SumType
<1>10. SumFunctionOnSet(c, Hash) <= SumFunctionOnSet(s, Hash)
  BY <1>6, Sizes, SumMonotone
<1>11. SumFunctionOnSet(s, Hash) <= SumFunctionOnSet(c, Hash) + SumFunctionOnSet(l, Hash)
  BY <1>6, Sizes, SumSplit
<1> DEFINE n == used'
<1>12. n = SumFunctionOnSet(s, Hash)
  BY <1>3
<1> HIDE DEF n
<1>13. Balanced(n, file, th)
  BY <1>1, <1>4, <1>5, <1>7, <1>8, <1>9, <1>10, <1>11, <1>12, Sizes DEF Balanced, SumsNat
<1> QED
  BY <1>1, <1>2, <1>4, <1>13 DEF IInv, n
-----------------------------------------------------------------------------
(* Theorems *)

\* Every step of the store keeps the inductive invariant.
LEMMA NextIInv ==
    ASSUME DeletesWhatWritesWell, IInv, [Next]_vars
    PROVE  IInv'
<1>1. CASE UNCHANGED vars
  BY <1>1 DEF vars, IInv
<1>2. ASSUME NEW t \in Thread, NEW h \in Hash, PutBegin(t, h)
      PROVE  IInv'
  <2>1. CASE Exists(h)
    <3>1. UNCHANGED <<file, used, thread>> /\ acked' \subseteq Hash
      BY <1>2, <2>1 DEF PutBegin, IInv
    <3> QED
      BY <3>1, AckStep
  <2>2. CASE ~Exists(h)
    BY <1>2, <2>2, BeginStep DEF PutBegin
  <2> QED
    BY <2>1, <2>2
<1>3. ASSUME NEW t \in Thread, NEW h \in Readable, GetBegin(t, h)
      PROVE  IInv'
  <2>1. h \in Hash
    BY StoreAssumption
  <2> QED
    BY <1>3, <2>1, BeginStep DEF GetBegin
<1>4. ASSUME NEW t \in Thread, NEW h \in Deletable, DeleteBegin(t, h)
      PROVE  IInv'
  <2>1. h \in Hash
    BY StoreAssumption
  <2> QED
    BY <1>4, <2>1, BeginStep DEF DeleteBegin
<1>5. ASSUME NEW t \in Thread,
             \/ PutReserve(t) \/ PutRollback(t) \/ PutCreate(t) \/ PutWrite(t)
             \/ PutFails(t) \/ GetRead(t) \/ GetRemove(t) \/ DeleteStat(t)
             \/ DeleteRemove(t) \/ DeleteRelease(t)
      PROVE  IInv'
  BY <1>5, PutReserveStep, PutRollbackStep, PutCreateStep, PutWriteStep,
     PutFailsStep, GetReadStep, GetRemoveStep, DeleteStatStep, DeleteRemoveStep,
     DeleteReleaseStep
<1>6. ASSUME NEW h \in Hash, Corrupt(h)
      PROVE  IInv'
  BY <1>6, CorruptStep
<1>7. ASSUME Restart
      PROVE  IInv'
  BY <1>7, RestartStep
<1> QED
  BY <1>1, <1>2, <1>3, <1>4, <1>5, <1>6, <1>7 DEF Next

\* The inductive invariant implies the type invariant.
LEMMA IInvTypeOK ==
    ASSUME IInv
    PROVE  TypeOK
<1>1. used \in 0..(WordSize - 1)
  BY UsedInWord, Sizes
<1>2. \A h \in Hash : Length(h) <= Blocks[h]
  BY Sizes DEF IInv, FileTable, Length, Exists
<1> QED
  BY <1>1, <1>2 DEF IInv, FileTable, ThreadTable, TypeOK, Chunk

\* What a file is charged for is at most its part of the counter; what a thread
\* holds for writing or for giving back is in the other parts.
LEMMA IInvCovers ==
    ASSUME IInv
    PROVE  UsedCoversDisk /\ QuotaHolds
<1> DEFINE g == [h \in Hash |-> Charge(h)]
           c == [h \in Hash |-> Claim(file, thread, h)]
           o == [t \in Thread |-> IF thread[t].pc \in {"put_create", "put_rollback"}
                                  THEN Blocks[thread[t].hash] ELSE 0]
           a == [t \in Thread |-> Reserved(thread[t])]
           b == [t \in Thread |-> Rolling(thread[t])]
<1>1. FileTable(file) /\ ThreadTable(thread) /\ Balanced(used, file, thread)
  BY DEF IInv
<1>2. ASSUME NEW h \in Hash
      PROVE  Charge(h) \in Nat /\ Charge(h) <= Claim(file, thread, h)
  <2>1. /\ Size(file, h) \in Nat /\ Size(file, h) <= Blocks[h]
        /\ Claim(file, thread, h) \in Nat /\ Blocks[h] \in Nat /\ 1 <= Blocks[h]
    BY <1>1, SizeFacts, ClaimFacts, Sizes
  <2>2. CASE h \in FailingWrites
    <3>1. ASSUME Complete(h) PROVE LastWritten(file, h)
      <4> DEFINE w == Whole(h)
      <4>1. w \in [1..Blocks[h] -> {"ok"}]
        BY DEF Whole
      <4>2. w \in Seq(Block) /\ Len(w) = Blocks[h] /\ w[Blocks[h]] = "ok"
        <5> HIDE DEF w
        <5>1. w \in [1..Blocks[h] -> Block]
          BY <4>1 DEF Block
        <5> QED
          BY <2>1, <4>1, <5>1
      <4>3. file[h] = w
        BY <3>1 DEF Complete
      <4> HIDE DEF w
      <4> QED
        BY <4>2, <4>3, NoFileFacts DEF LastWritten
    <3>2. Charge(h) = IF Complete(h) THEN Blocks[h] ELSE 0
      BY <2>2 DEF Charge
    <3>3. Claim(file, thread, h) = IF LastWritten(file, h) THEN Blocks[h] ELSE 0
      BY <2>2 DEF Claim
    <3> QED
      BY <2>1, <3>1, <3>2, <3>3
  <2>3. CASE h \notin FailingWrites
    <3>1. Charge(h) = Size(file, h)
      BY <2>3 DEF Charge, Length, Exists, Size
    <3>2. Claim(file, thread, h) \in {Size(file, h), Blocks[h]}
      BY <2>3 DEF Claim
    <3> QED
      BY <2>1, <3>1, <3>2
  <2> QED
    BY <2>2, <2>3
<1>3. \A h \in Hash : g[h] \in Nat /\ c[h] \in Nat /\ g[h] <= c[h]
  BY <1>1, <1>2, ClaimFacts
<1>4. Total(Charge) = SumFunctionOnSet(g, Hash)
  BY DEF Total, SumFunction
<1>5. ASSUME NEW t \in Thread
      PROVE  o[t] \in Nat /\ a[t] \in Nat /\ b[t] \in Nat /\ o[t] <= a[t] + b[t]
  <2>1. Reserved(thread[t]) \in Nat /\ Rolling(thread[t]) \in Nat
    BY <1>1, Parts
  <2>2. CASE thread[t].pc \in {"put_create", "put_rollback"}
    <3>1. o[t] = Blocks[thread[t].hash]
      BY <2>2
    <3>2. o[t] = Reserved(thread[t]) \/ o[t] = Rolling(thread[t])
      BY <2>2, <3>1 DEF Reserved, Rolling
    <3> HIDE DEF o
    <3> QED
      BY <2>1, <3>2
  <2>3. CASE thread[t].pc \notin {"put_create", "put_rollback"}
    <3>1. o[t] = 0
      BY <2>3
    <3> HIDE DEF o
    <3> QED
      BY <2>1, <3>1
  <2> QED
    BY <2>2, <2>3
<1>6. Outstanding = SumFunctionOnSet(o, Thread)
  BY DEF Outstanding, SumFunction
<1>7. /\ Claims(file, thread) = SumFunctionOnSet(c, Hash)
      /\ Reservations(thread) = SumFunctionOnSet(a, Thread)
      /\ Rollbacks(thread) = SumFunctionOnSet(b, Thread)
  BY DEF Claims, Reservations, Rollbacks
<1>8. SumsNat(file, thread)
  BY <1>1, SumTypes
<1> HIDE DEF g, c, o, a, b
<1>9. SumFunctionOnSet(g, Hash) <= SumFunctionOnSet(c, Hash)
      /\ SumFunctionOnSet(g, Hash) \in Nat
  BY <1>3, Sizes, SumMonotone, SumType
<1>10. SumFunctionOnSet(o, Thread) <= SumFunctionOnSet(a, Thread) + SumFunctionOnSet(b, Thread)
       /\ SumFunctionOnSet(o, Thread) \in Nat
  BY <1>5, Sizes, SumSplit, SumType
<1>11. used >= SumFunctionOnSet(g, Hash) + SumFunctionOnSet(o, Thread)
  BY <1>1, <1>7, <1>8, <1>9, <1>10 DEF Balanced, SumsNat
<1>12. SumFunctionOnSet(g, Hash) <= MaxStorage
  BY <1>1, <1>7, <1>8, <1>9, Sizes DEF Balanced, SumsNat
<1> QED
  BY <1>4, <1>6, <1>11, <1>12 DEF UsedCoversDisk, QuotaHolds

\* IInv is an invariant of the store.
THEOREM Invariance ==
    ASSUME DeletesWhatWritesWell
    PROVE  Spec => []IInv
<1>1. Init => IInv
  BY InitIInv
<1>2. IInv /\ [Next]_vars => IInv'
  BY NextIInv
<1> QED
  BY <1>1, <1>2, PTL DEF Spec

\* Type correctness: in particular the counter is a word and never wraps around.
THEOREM ChunkStoreTypeCorrect ==
    ASSUME DeletesWhatWritesWell
    PROVE  Spec => []TypeOK
<1>1. IInv => TypeOK
  BY IInvTypeOK
<1> QED
  BY <1>1, Invariance, PTL

\* storage_used never falls below what is stored plus what is reserved
\* (put_sync, get_sync, delete_sync, new), for any number of chunks and threads.
THEOREM CounterCoversDisk ==
    ASSUME DeletesWhatWritesWell
    PROVE  Spec => []UsedCoversDisk
<1>1. IInv => UsedCoversDisk
  BY IInvCovers
<1> QED
  BY <1>1, Invariance, PTL

\* What is stored never exceeds max_storage (put_sync), for any number of chunks
\* and threads.
THEOREM QuotaIsKept ==
    ASSUME DeletesWhatWritesWell
    PROVE  Spec => []QuotaHolds
<1>1. IInv => QuotaHolds
  BY IInvCovers
<1> QED
  BY <1>1, Invariance, PTL
=============================================================================
