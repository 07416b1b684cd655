---------------------------- MODULE MCChunkReader ----------------------------
(* A file of four chunks, the last of them short: decodable, raw, damaged  *)
(* and decodable.  Two goroutines share a handle of the compressed file, a *)
(* third reads the stored one.                                             *)
EXTENDS ChunkReader

CONSTANTS g1, g2, g3, hc, hs

MCHandleOf == [g \in {g1, g2, g3} |-> IF g = g3 THEN hs ELSE hc]
MCKind == [k \in 0 .. 3 |-> CASE k = 1 -> "raw" [] k = 2 -> "bad" [] OTHER -> "lzx"]
MCSound == [k \in 0 .. 3 |-> IF k = 1 THEN "raw" ELSE "lzx"]
Ask(o, n) == [off |-> o, len |-> n]
MCRequests == {Ask(-1, 1), Ask(0, 0), Ask(1, 4), Ask(6, 2), Ask(7, 1)}
=============================================================================
