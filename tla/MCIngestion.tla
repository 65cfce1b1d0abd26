---------------------------- MODULE MCIngestion ----------------------------
(* Small instances of Ingestion for TLC, with the functions it is made of. *)
EXTENDS Ingestion, Chunking, Embedder, TLC

CONSTANTS u1, pdf, video, v1, v2, vEmpty

\* One account for every source.
MCOwner == [s \in Sources |-> u1]

\* A version of two chunks, one of a single chunk, and an empty transcript.
MCNChunks == [v \in Versions |-> IF v = vEmpty THEN 0 ELSE IF v = v2 THEN 1 ELSE 2]

JobSymmetry == Permutations(Jobs)
=============================================================================
