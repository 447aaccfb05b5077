------------------------------ MODULE Erasure ------------------------------
(***************************************************************************)
(* src/src/erasure/mod.rs: data is cut into blocks and every block into d    *)
(* data shards, to which p parity shards are added.  Bytes are numbers.  A   *)
(* shard stands for its own hash, so equal shards are one chunk.             *)
(*                                                                           *)
(* The Reed-Solomon library is external: parity[j] is a function of all the  *)
(* data shards that tells them apart (with one data shard, a copy of it),    *)
(* and any d shards of a block determine the others.                         *)
(***************************************************************************)
EXTENDS Naturals, FiniteSets, SequencesExt

DivCeil(a, b) == (a + b - 1) \div b

AtMost(a, b) == IF a <= b THEN a ELSE b

\* data[start..end], empty past the end of data
Slice(data, start, end) == SubSeq(data, start + 1, AtMost(end, Len(data)))

Resize(s, n) == [i \in 1 .. n |-> IF i <= Len(s) THEN s[i] ELSE 0]

Parity(shards, j) ==
    IF Len(shards) = 1 THEN shards[1]
    ELSE [parity |-> j, bytes |-> FlattenSeq([i \in DOMAIN shards |-> shards[i].bytes])]

\* encode; the library rejects the empty shards of an empty block.
Encodable(data) == data # <<>>

Encode(data, d, p) ==
    LET size == DivCeil(Len(data), d)
        shards == [i \in 1 .. d |->
                     [parity |-> 0,
                      bytes |-> Resize(Slice(data, (i - 1) * size, i * size), size)]]
    IN shards \o [j \in 1 .. p |-> Parity(shards, j)]

NumBlocks(data, size) == IF data = <<>> THEN 1 ELSE DivCeil(Len(data), size)

Block(data, size, b) == Slice(data, (b - 1) * size, b * size)

-----------------------------------------------------------------------------
(* A fetched shard is a set: that shard, or nothing. *)

Fail == [ok |-> FALSE, data |-> <<>>]

Present(shards) == {i \in DOMAIN shards : shards[i] # {}}

BytesOf(shard) == (CHOOSE s \in shard : TRUE).bytes

\* reconstruct, and the data shards one after the other
Reconstruct(shards, d) ==
    IF 1 .. d \subseteq Present(shards)
    THEN FlattenSeq([i \in 1 .. d |-> BytesOf(shards[i])])
    ELSE BytesOf(shards[CHOOSE i \in Present(shards) : i > d])

\* InsufficientChunks.  (FaultTooFew asks for one shard too many.)
FaultTooFew(shards, d) == Cardinality(Present(shards)) <= d
TooFew(shards, d) == Cardinality(Present(shards)) < d

Decode(shards, d, p, len) ==
    IF Len(shards) # d + p \/ TooFew(shards, d) THEN Fail
    ELSE [ok |-> TRUE, data |-> Slice(Reconstruct(shards, d), 0, len)]

\* The length to which block b of n is cut.  (FaultBlockLen forgets that the
\* last block may be short.)
FaultBlockLen(b, n, size, len) == size
BlockLen(b, n, size, len) == IF b = n THEN len - (n - 1) * size ELSE size

\* decode_blocks on the shards of all blocks, shards.chunks(d + p)
DecodeBlocks(shards, d, p, size, len) ==
    LET n == DivCeil(Len(shards), d + p)
        decoded == [b \in 1 .. n |->
                      Decode(Slice(shards, (b - 1) * (d + p), b * (d + p)), d, p,
                             BlockLen(b, n, size, len))]
    IN IF \E b \in 1 .. n : ~decoded[b].ok THEN Fail
       ELSE [ok |-> TRUE, data |-> FlattenSeq([b \in 1 .. n |-> decoded[b].data])]
=============================================================================
