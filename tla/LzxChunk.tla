------------------------------ MODULE LzxChunk ------------------------------
(***************************************************************************)
(* A chunk through Compress and Decompress, up to its tokens: encodeE8     *)
(* (LzxE8), findMatches (LzxMatchFinder, LzxTokens), the decoder's loop    *)
(* over the tokens, and decodeE8 on what it makes.  A Compressor does      *)
(* several chunks, a decoder begins anew with each.                        *)
(*                                                                         *)
(* The decoder takes also what another encoder makes of the same format,   *)
(* with any matches, and meets what is damaged.                            *)
(***************************************************************************)
EXTENDS LzxE8, LzxMatchFinder

CONSTANTS
  OtherChunks,    \* what another encoder has to code
  DamagedChunks,  \* those that a damaged one stands in for
  Pairs,          \* a bound: the chunks that come one after the other,
  MaxChunks       \* and how many of them

streamVars == <<by, data, nth, aligned, pos, recent, emitted, window, recentOf, corrupt>>
chains == <<head, prev>>
vars == <<e8Vars, streamVars, chains>>

ASSUME ChunkAssumption ==
  /\ Byte = 0 .. Literals - 1
  /\ OtherChunks \cup DamagedChunks \subseteq Seq(Byte)
  /\ \A c \in Chunks \cup OtherChunks \cup DamagedChunks : Len(c) \in 1 .. WindowSize
  /\ Pairs \subseteq Chunks /\ MaxChunks \in Nat

Translated == plain = <<>> /\ buf = <<>> /\ i = 0 /\ phase = "done"

Init ==
  /\ \/ /\ by = "own" /\ E8Init
        /\ data = <<>> /\ aligned = FALSE /\ window = <<>> /\ recentOf = NoOffsets
     \/ /\ by = "other" /\ Translated
        /\ data \in OtherChunks /\ aligned \in BOOLEAN
        /\ window = <<>> /\ recentOf = NoOffsets
     \/ \* Behind a stored block, the recent offsets are any.
        /\ by = "damaged" /\ Translated
        /\ data \in DamagedChunks /\ aligned \in BOOLEAN
        /\ \E m \in 0 .. Len(data) - 1 : window = SubSeq(data, 1, m)
        /\ recentOf \in {NoOffsets, <<0, 2, WindowSize>>}
  /\ nth = 1 /\ pos = 0 /\ recent = NoOffsets /\ emitted = <<>> /\ corrupt = FALSE
  /\ head = Cleared /\ prev = [p \in Positions |-> 0]

-----------------------------------------------------------------------------
(* Compress.                                                               *)

Translate == (Pass \/ EncodeCall) /\ phase = "encode" /\ UNCHANGED <<streamVars, chains>>

(* findMatches: head is cleared, prev is not.                              *)
BeginTokens ==
  /\ EncodeEnds
  /\ data' = buf /\ aligned' \in BOOLEAN /\ pos' = 0 /\ recent' = NoOffsets
  /\ window' = <<>> /\ recentOf' = NoOffsets
  /\ head' = Cleared
  /\ UNCHANGED <<by, nth, emitted, corrupt, prev>>

Compress == phase = "decode" /\ Find /\ UNCHANGED e8Vars

OtherCompresses == (Literal \/ Match \/ Damage) /\ UNCHANGED <<e8Vars, chains>>

-----------------------------------------------------------------------------
(* Decompress.                                                             *)

Decompress ==
  /\ Follow
  /\ buf' = IF by = "own" /\ Len(window') = Len(data) THEN window' ELSE buf
  /\ UNCHANGED <<plain, i, phase>>

DecompressFails == Refuse /\ UNCHANGED <<e8Vars, chains>>

(* The translation is undone when the whole chunk is there.                *)
Restore ==
  /\ phase = "decode" /\ data # <<>> /\ Len(window) = Len(data)
  /\ Pass \/ DecodeCall \/ DecodeEnds
  /\ UNCHANGED <<streamVars, chains>>

(* The Compressor's next chunk.                                            *)
NextChunk ==
  /\ by = "own" /\ phase = "done" /\ nth < MaxChunks /\ plain \in Pairs
  /\ plain' \in Pairs /\ buf' = plain' /\ i' = 0 /\ phase' = "encode" /\ nth' = nth + 1
  /\ UNCHANGED <<by, data, aligned, pos, recent, emitted, window, recentOf, corrupt, chains>>

Next ==
  \/ Translate \/ BeginTokens \/ Compress \/ OtherCompresses
  \/ Decompress \/ DecompressFails \/ Restore \/ NextChunk

Spec == Init /\ [][Next]_vars

-----------------------------------------------------------------------------
(* Properties: TranslationInverts (LzxE8), DecoderInStep and WindowIsKept  *)
(* (LzxTokens), FindsLongest (LzxMatchFinder).                             *)

=============================================================================
