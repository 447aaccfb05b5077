----------------------------- MODULE ChunkStore -----------------------------
(***************************************************************************)
(* The chunk store (storage/chunks.rs): files named by the hash of their    *)
(* content, and one atomic counter, storage_used, that puts use to reserve  *)
(* room.  put, get and delete run on threads of the blocking pool and take  *)
(* no lock: between any two file-system calls or counter updates of one     *)
(* thread, other threads may run.                                           *)
(*                                                                          *)
(* A file is the sequence of its blocks, each "ok" or "bad": the content of *)
(* a chunk is known from its name, so all that matters of a block is        *)
(* whether it is the right one.  std::fs::write opens the file truncating   *)
(* it and then writes block after block; a write past the end leaves bad    *)
(* (zero) blocks before it.  A writer goes on writing to a file whose name  *)
(* has been removed, and nobody sees what it writes.                        *)
(***************************************************************************)
EXTENDS Integers, Sequences, FiniteSets, FiniteSetsExt, Functions

CONSTANTS
    Hash,            \* chunks, by their hash
    Blocks,          \* size of each chunk, in blocks
    MaxChunk,        \* MAX_CHUNK_SIZE, in blocks
    MaxStorage,      \* max_storage
    WordSize,        \* 2^64: storage_used is an AtomicU64
    Thread,          \* threads of the blocking pool
    Readable,        \* chunks that are asked for
    Deletable,       \* chunks that are deleted
    FailingWrites,   \* chunks whose directory or file may fail to be written
    Faults           \* subset of {"corrupt", "crash"}: what else may happen

ASSUME StoreAssumption ==
    /\ IsFiniteSet(Hash) /\ IsFiniteSet(Thread)
    /\ MaxChunk \in Nat /\ Blocks \in [Hash -> 1..MaxChunk]
    /\ MaxStorage \in Nat /\ WordSize \in Nat /\ MaxStorage < WordSize
    /\ Readable \subseteq Hash /\ Deletable \subseteq Hash
    /\ FailingWrites \subseteq Hash
    /\ Faults \subseteq {"corrupt", "crash"}

VARIABLES
    file,    \* the file of each chunk: its blocks, or NoFile
    used,    \* storage_used
    thread,  \* what each thread is doing
    acked    \* history: chunks a put has answered Ok for, and that were
             \* neither deleted nor damaged since

vars == <<file, used, thread, acked>>

-----------------------------------------------------------------------------
(* Files *)

NoFile == <<"none">>
Block == {"ok", "bad"}
Exists(h) == file[h] # NoFile
Length(h) == IF Exists(h) THEN Len(file[h]) ELSE 0
Whole(h) == [i \in 1..Blocks[h] |-> "ok"]
Complete(h) == file[h] = Whole(h)

\* Write block i: the file grows with bad blocks as far as needed.
WriteBlock(f, i) ==
    [j \in 1..Max({i, Len(f)}) |->
        IF j = i THEN "ok" ELSE IF j <= Len(f) THEN f[j] ELSE "bad"]

\* What compute_storage_used_sync adds up.
Total(size(_)) == SumFunction([h \in Hash |-> size(h)])
DiskUsed == Total(Length)

\* What failed writes may leave on disk without anybody counting it.
Leftover(h) == IF h \in FailingWrites THEN Blocks[h] ELSE 0

\* The counter has room for the quota, for such leftovers and for what every
\* thread may have added before it looks at the result.
ASSUME WordAssumption ==
    MaxStorage + Total(Leftover) + Cardinality(Thread) * MaxChunk < WordSize

\* fetch_add and fetch_sub wrap around.
Add(n) == (used + n) % WordSize
Sub(n) == (used - n) % WordSize

-----------------------------------------------------------------------------
(* Threads *)

Idle == [pc |-> "idle"]
At(t, pc) == thread[t].pc = pc
Chunk(t) == thread[t].hash
Goto(t, pc) == thread' = [thread EXCEPT ![t].pc = pc]
Return(t) == thread' = [thread EXCEPT ![t] = Idle]
Begin(t, pc, h) ==
    thread' = [thread EXCEPT ![t] = [pc |-> pc, hash |-> h, next |-> 1,
                                     attached |-> FALSE, len |-> 0]]

\* The threads that have the file of h open for writing lose sight of it.
Detached(h) ==
    [t \in Thread |-> IF thread[t] # Idle /\ thread[t].hash = h
                      THEN [thread[t] EXCEPT !.attached = FALSE]
                      ELSE thread[t]]

Init ==
    /\ file = [h \in Hash |-> NoFile]
    /\ used = 0
    /\ thread = [t \in Thread |-> Idle]
    /\ acked = {}

\* put_sync, of data that has the right hash and size: other data is refused
\* before anything happens.  A file that exists is taken for the chunk.
PutBegin(t, h) ==
    /\ At(t, "idle")
    /\ IF Exists(h)
       THEN acked' = acked \cup {h} /\ UNCHANGED thread
       ELSE Begin(t, "put_reserve", h) /\ UNCHANGED acked
    /\ UNCHANGED <<file, used>>

\* Fault: the size of the chunk itself is left out of the check.
PutReserveBlindly(t) ==
    /\ At(t, "put_reserve")
    /\ used' = Add(Blocks[Chunk(t)])
    /\ Goto(t, IF used > MaxStorage THEN "put_rollback" ELSE "put_create")
    /\ UNCHANGED <<file, acked>>

\* fetch_add; the room is checked against the value it returned.
PutReserve(t) ==
    /\ At(t, "put_reserve")
    /\ used' = Add(Blocks[Chunk(t)])
    /\ Goto(t, IF used' > MaxStorage THEN "put_rollback" ELSE "put_create")
    /\ UNCHANGED <<file, acked>>

\* fetch_sub, after StorageFull or after an I/O error; the file, if it was
\* opened, stays as it is.
PutRollback(t) ==
    /\ At(t, "put_rollback")
    /\ used' = Sub(Blocks[Chunk(t)])
    /\ Return(t)
    /\ UNCHANGED <<file, acked>>

\* The directories are there; the file is opened, created or truncated.
PutCreate(t) ==
    /\ At(t, "put_create")
    /\ file' = [file EXCEPT ![Chunk(t)] = <<>>]
    /\ thread' = [thread EXCEPT ![t].pc = "put_write", ![t].attached = TRUE]
    /\ UNCHANGED <<used, acked>>

\* The next block is written; after the last one put_sync returns Ok.
PutWrite(t) ==
    /\ At(t, "put_write")
    /\ LET h == Chunk(t)
           i == thread[t].next
       IN  /\ file' = IF thread[t].attached
                      THEN [file EXCEPT ![h] = WriteBlock(@, i)]
                      ELSE file
           /\ IF i = Blocks[h]
              THEN Return(t) /\ acked' = acked \cup {h}
              ELSE /\ thread' = [thread EXCEPT ![t].next = i + 1]
                   /\ UNCHANGED acked
    /\ UNCHANGED used

\* Creating the directory, the file, or writing a block fails.
PutFails(t) ==
    /\ At(t, "put_create") \/ At(t, "put_write")
    /\ Chunk(t) \in FailingWrites
    /\ Goto(t, "put_rollback")
    /\ UNCHANGED <<file, used, acked>>

\* get_sync.
GetBegin(t, h) ==
    /\ At(t, "idle")
    /\ Exists(h)
    /\ Begin(t, "get_read", h)
    /\ UNCHANGED <<file, used, acked>>

\* The file is read and hashed; when it is gone the read fails.
GetRead(t) ==
    /\ At(t, "get_read")
    /\ IF Exists(Chunk(t)) /\ ~Complete(Chunk(t))
       THEN Goto(t, "get_remove")
       ELSE Return(t)
    /\ UNCHANGED <<file, used, acked>>

\* Fault: the room is given back, whoever removed the file.
GetRemoveReleasing(t) ==
    /\ At(t, "get_remove")
    /\ file' = [file EXCEPT ![Chunk(t)] = NoFile]
    /\ used' = Sub(Blocks[Chunk(t)])
    /\ thread' = [Detached(Chunk(t)) EXCEPT ![t] = Idle]
    /\ UNCHANGED acked

\* What had the wrong hash when it was read is removed.  storage_used is left
\* alone.
GetRemove(t) ==
    /\ At(t, "get_remove")
    /\ file' = [file EXCEPT ![Chunk(t)] = NoFile]
    /\ thread' = [Detached(Chunk(t)) EXCEPT ![t] = Idle]
    /\ UNCHANGED <<used, acked>>

\* delete_sync.
DeleteBegin(t, h) ==
    /\ At(t, "idle")
    /\ Exists(h)
    /\ Begin(t, "delete_stat", h)
    /\ UNCHANGED <<file, used, acked>>

DeleteStat(t) ==
    /\ At(t, "delete_stat")
    /\ thread' = [thread EXCEPT ![t].pc = "delete_remove",
                                ![t].len = Length(Chunk(t))]
    /\ UNCHANGED <<file, used, acked>>

\* When another thread has removed the file, remove_file fails.
DeleteRemove(t) ==
    /\ At(t, "delete_remove")
    /\ IF Exists(Chunk(t))
       THEN /\ file' = [file EXCEPT ![Chunk(t)] = NoFile]
            /\ thread' = [Detached(Chunk(t)) EXCEPT ![t].pc = "delete_release"]
            /\ acked' = acked \ {Chunk(t)}
       ELSE /\ Return(t)
            /\ UNCHANGED <<file, acked>>
    /\ UNCHANGED used

DeleteRelease(t) ==
    /\ At(t, "delete_release")
    /\ used' = Sub(thread[t].len)
    /\ Return(t)
    /\ UNCHANGED <<file, acked>>

-----------------------------------------------------------------------------
(* The environment *)

\* A block on disk goes bad.
Corrupt(h) ==
    /\ "corrupt" \in Faults
    /\ Exists(h)
    /\ \E i \in 1..Len(file[h]) : file' = [file EXCEPT ![h][i] = "bad"]
    /\ acked' = acked \ {h}
    /\ UNCHANGED <<used, thread>>

\* The process dies and starts again: ChunkStore::new counts what is on disk.
Restart ==
    /\ "crash" \in Faults
    /\ thread' = [t \in Thread |-> Idle]
    /\ used' = DiskUsed
    /\ UNCHANGED <<file, acked>>

Next ==
    \/ \E t \in Thread :
        \/ \E h \in Hash : PutBegin(t, h)
        \/ PutReserve(t)
        \/ PutRollback(t)
        \/ PutCreate(t)
        \/ PutWrite(t)
        \/ PutFails(t)
        \/ \E h \in Readable : GetBegin(t, h)
        \/ GetRead(t)
        \/ GetRemove(t)
        \/ \E h \in Deletable : DeleteBegin(t, h)
        \/ DeleteStat(t)
        \/ DeleteRemove(t)
        \/ DeleteRelease(t)
    \/ \E h \in Hash : Corrupt(h)
    \/ Restart

Spec == Init /\ [][Next]_vars
-----------------------------------------------------------------------------
(* Properties *)

PC == {"put_reserve", "put_rollback", "put_create", "put_write", "get_read",
       "get_remove", "delete_stat", "delete_remove", "delete_release"}

Call == [pc : PC, hash : Hash, next : Nat \ {0}, attached : BOOLEAN, len : Nat]

\* Type invariant.
TypeOK ==
    /\ file \in [Hash -> {NoFile} \cup Seq(Block)]
    /\ \A h \in Hash : Length(h) <= Blocks[h]
    /\ used \in 0..(WordSize - 1)
    /\ thread \in [Thread -> {Idle} \cup Call]
    /\ \A t \in Thread : thread[t] # Idle =>
        thread[t].next <= Blocks[Chunk(t)] /\ thread[t].len <= Blocks[Chunk(t)]
    /\ acked \subseteq Hash

\* What the counter has to cover: the files, except what a failed write may
\* have left of a chunk, which nobody counts.
Charge(h) ==
    IF h \notin FailingWrites THEN Length(h)
    ELSE IF Complete(h) THEN Blocks[h] ELSE 0

\* Room reserved by puts that have yet to write, or to give it back.
Outstanding ==
    SumFunction([t \in Thread |-> IF thread[t].pc \in {"put_create", "put_rollback"}
                                  THEN Blocks[thread[t].hash] ELSE 0])

\* The counter never falls below what is stored plus what is reserved, however
\* reservations, rollbacks, removals of damaged files, deletions and restarts
\* interleave (put_sync, get_sync, delete_sync, new).
UsedCoversDisk == used >= Total(Charge) + Outstanding

\* The quota: what is stored never exceeds max_storage, although the room is
\* reserved long before the file is written and the counter itself overshoots.
QuotaHolds == Total(Charge) <= MaxStorage

AllIdle == \A t \in Thread : thread[t] = Idle

\* "already stored (content-addressable = idempotent)" (put_sync): a chunk for
\* which put answered Ok is stored when every call has returned.
AckedChunkStored == AllIdle => \A h \in acked : Complete(h)
=============================================================================
