---------------------------- MODULE MCChunkStore ----------------------------
(* Constants for TLC. *)
EXTENDS ChunkStore, TLC

CONSTANTS big, small, other

\* big takes two blocks, so that it can be seen half written.
MCBlocks == [h \in Hash |-> IF h = small THEN 1 ELSE 2]

\* Threads run the same code.
ThreadSymmetry == Permutations(Thread)
=============================================================================
