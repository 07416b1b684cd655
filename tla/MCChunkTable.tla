---------------------------- MODULE MCChunkTable ----------------------------
(* Chunks of two bytes, entries of one byte up to five bytes of data and   *)
(* of two above: three chunks at most, with every stored length, and every  *)
(* table that anybody else may have written.                               *)
EXTENDS ChunkTable
=============================================================================
