--------------------------- MODULE MCChunkWriter ---------------------------
(***************************************************************************)
(* Instances of ChunkWriter for TLC: a MAC of one byte, contents of up to  *)
(* four bytes, so that a message of four bytes already needs two chunks.   *)
(***************************************************************************)
EXTENDS ChunkWriter

\* Every option drawn either way.
AnyOptions == [flip_bits |-> BOOLEAN, split_chunks |-> BOOLEAN,
               split_bytes |-> BOOLEAN, incomplete_send |-> BOOLEAN]
=============================================================================
