--------------------------- MODULE MCChunkStream ---------------------------
(***************************************************************************)
(* Instances of ChunkStream for TLC: binary digits, so the buffer holds    *)
(* four bytes and a content at most three.                                 *)
(***************************************************************************)
EXTENDS ChunkStream
=============================================================================
