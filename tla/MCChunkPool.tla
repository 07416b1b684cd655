----------------------------- MODULE MCChunkPool -----------------------------
(* ChunkPool on a small instance: two resources of up to three chunks, one *)
(* chunk of each of which does not get smaller.                            *)
EXTENDS ChunkPool

MCDeclined == {<<1, 1>>, <<2, 0>>}
=============================================================================
