------------------------------ MODULE LzxBlocks ------------------------------
(***************************************************************************)
(* The bits of a chunk and the blocks in them: bitWriter and the header    *)
(* that emitBlock writes (lzx/encode.go); bitReader, readBlockHeader,      *)
(* readBlock and Decompress (lzx/decode.go).                               *)
(*                                                                         *)
(* A reader that is one bit beside the stream decodes nonsense, so what is *)
(* modelled is where in the stream each of them is.  What the bits say is  *)
(* told by LzxTree, LzxHuffman and LzxTokens: here, a block has as many    *)
(* bits of trees and tokens as it has.  This package writes one block to a *)
(* chunk; others write several, and stored ones among them.                *)
(***************************************************************************)
EXTENDS Integers, Sequences

CONSTANTS
  WindowSize,
  CodeBits         \* a bound: bits that a block of it seems to have

WordBits == 16
Stored == "uncompressed"
BlockTypes == {"verbatim", "aligned", Stored}

HeaderBits(block) == IF block.size = WindowSize THEN 4 ELSE 20

(* The next word boundary behind p, or a word further if p is on one.      *)
Realigned(p) == WordBits * (p \div WordBits + 1)
WordsFor(bits) == (bits + WordBits - 1) \div WordBits

(* Where a block ends that begins at p: stored bytes are padded to words.  *)
Behind(p, block) ==
  IF block.type = Stored
  THEN Realigned(p + HeaderBits(block)) + 8 * (12 + block.size + (block.size % 2))
  ELSE p + HeaderBits(block) + block.codes

IsBlock(block) ==
  /\ block.type \in BlockTypes /\ block.size \in 1 .. WindowSize
  /\ block.codes \in Nat

(* at: the bit where each block begins, and where the last one ends; made: *)
(* the bytes produced before each block, and by all.                       *)
Laid(s) ==
  LET n == Len(s.blocks) IN
  /\ n \in Nat \ {0} /\ \A k \in 1 .. n : IsBlock(s.blocks[k])
  /\ s.at \in [1 .. n + 1 -> Nat] /\ s.at[1] = 0
  /\ s.made \in [1 .. n + 1 -> Nat] /\ s.made[1] = 0
  /\ \A k \in 1 .. n : /\ s.at[k + 1] = Behind(s.at[k], s.blocks[k])
                       /\ s.made[k + 1] = s.made[k] + s.blocks[k].size

(* The padding of stored bytes at the end of all may be there or not.      *)
Ends(s, bytes) ==
  LET n == Len(s.blocks) IN
  \/ bytes = 2 * WordsFor(s.at[n + 1])
  \/ /\ s.blocks[n].type = Stored /\ s.blocks[n].size % 2 = 1
     /\ bytes = 2 * WordsFor(s.at[n + 1]) - 1

IsStream(s) == Laid(s) /\ Ends(s, s.length)

BlocksAssumption == WindowSize \in Nat \ {0} /\ CodeBits \in Nat

VARIABLES
  by,      \* who writes: "own", "other", or "damaged"
  stream,
  length,  \* len(in), the bytes there are
  out,     \* of bitWriter: the bytes,
  held,    \* and the bits that are no word yet
  unput,   \* bits it has still to write
  pos,     \* of bitReader: the next word,
  nbits,   \* the bits that are buffered,
  unaligned, \* whether a stored block had an odd size
  size,    \* len(dst)
  n,       \* the bytes produced, with those of the block at hand
  k,       \* the block at hand; damage has none
  left,    \* bits of its codes that are not read
  pc       \* "idle" before, "write", "block", "codes", "done", "corrupt"

writer == <<by, stream, length, out, held, unput>>
reader == <<pos, nbits, unaligned>>
vars == <<writer, reader, size, n, k, left, pc>>

OwnStream(block) ==
  [blocks |-> <<block>>, at |-> <<0, Behind(0, block)>>, made |-> <<0, block.size>>, length |-> 0]

NoStream == [blocks |-> <<>>, at |-> <<0>>, made |-> <<0>>, length |-> 0]

-----------------------------------------------------------------------------
(* bitWriter.                                                              *)

(* write: a word leaves when there is one.                                 *)
Write ==
  /\ pc = "write" /\ unput > 0
  /\ \E m \in 1 .. WordBits :
       /\ m <= unput /\ unput' = unput - m
       /\ out' = out + 2 * ((held + m) \div WordBits) /\ held' = (held + m) % WordBits
  /\ UNCHANGED <<by, stream, length, reader, size, n, k, left, pc>>

(* Bug: the last bits are no word and stay behind.                         *)
FlushWhole ==
  /\ pc = "write" /\ unput = 0
  /\ pc' = "block" /\ length' = out
  /\ UNCHANGED <<by, stream, out, held, unput, reader, size, n, k, left>>

Flush ==
  /\ pc = "write" /\ unput = 0
  /\ out' = IF held > 0 THEN out + 2 ELSE out
  /\ held' = 0 /\ pc' = "block" /\ length' = out'
  /\ UNCHANGED <<by, stream, unput, reader, size, n, k, left>>

-----------------------------------------------------------------------------
(* bitReader, as a function of where it is.                                *)

At(p, bits) == [pos |-> p, nbits |-> bits]

(* feed: a word, what is left of one, or zeros.                            *)
Feed(b) == At(IF b.pos + 2 <= length THEN b.pos + 2 ELSE length, b.nbits + WordBits)

(* Bug: a word is fed when the last bits are taken, not when none is left. *)
BitsEager(b, m) == LET f == IF b.nbits <= m THEN Feed(b) ELSE b IN At(f.pos, f.nbits - m)

Bits(b, m) == LET f == IF b.nbits < m THEN Feed(b) ELSE b IN At(f.pos, f.nbits - m)

(* Bug: nothing is dropped if no partial word is left.                     *)
RealignPartial(b) == Bits(b, b.nbits)

(* A partial word is dropped, or a full one if there is none.              *)
Realign(b) == Bits(b, IF b.nbits = 0 THEN WordBits ELSE b.nbits)

(* Bug: the byte behind an odd block is taken for the next word's.         *)
BeginUnskipped == At(pos, nbits)

(* The byte that pads an odd block.                                        *)
Begin == IF unaligned /\ pos < length THEN At(pos + 1, nbits) ELSE At(pos, nbits)

AfterHeader(full) ==
  LET b == Bits(Bits(Begin, 3), 1) IN IF full THEN b ELSE Bits(b, 16)

Set(b) == pos' = b.pos /\ nbits' = b.nbits

Corrupt == pc' = "corrupt" /\ UNCHANGED <<writer, reader, size, n, k, left>>

(* What a header may say, in a stream or in damage.                        *)
Headers ==
  IF by = "damaged"
  THEN [type : BlockTypes \cup {"none"}, size : 0 .. WindowSize + 1, codes : 0 .. CodeBits]
  ELSE {stream.blocks[k]}

(* Bug: a stored block is taken from what is behind the input.             *)
RefusedUnchecked(block, b) ==
  \/ block.type = "none" \/ block.size = 0 \/ n + block.size > size

(* Bug: a block need not produce anything.                                 *)
RefusedEmpty(block, b) ==
  \/ block.type = "none" \/ n + block.size > size
  \/ block.type = Stored /\ b.pos + 12 + block.size > length

(* An unknown type, a size that is too large or that is nothing, or stored *)
(* bytes that are not there; b is the reader behind the header.            *)
Refused(block, b) ==
  \/ block.type = "none" \/ block.size = 0 \/ n + block.size > size
  \/ block.type = Stored /\ b.pos + 12 + block.size > length

(* Decompress: on to the next block, if the chunk has still bytes to come. *)
Produced(block) == n' = n + block.size /\ k' = IF by = "damaged" THEN k ELSE k + 1

ReadHeader ==
  /\ pc = "block"
  /\ \E block \in Headers :
       LET b == AfterHeader(block.size = WindowSize) IN
       /\ block.type # Stored
       /\ IF Refused(block, b) THEN Corrupt
          ELSE /\ Set(b) /\ unaligned' = FALSE
               /\ left' = block.codes /\ pc' = "codes" /\ Produced(block)
               /\ UNCHANGED <<writer, size>>

ReadStored ==
  /\ pc = "block"
  /\ \E block \in Headers :
       LET b == Realign(AfterHeader(block.size = WindowSize)) IN
       /\ block.type = Stored
       /\ IF Refused(block, b) THEN Corrupt
          ELSE /\ Set(At(b.pos + 12 + block.size, b.nbits)) /\ unaligned' = (block.size % 2 = 1)
               /\ Produced(block) /\ pc' = IF n' = size THEN "done" ELSE "block"
               /\ UNCHANGED <<writer, size, left>>

(* Trees and tokens: single bits of a code, or up to a word of extra bits. *)
ReadCodes ==
  /\ pc = "codes" /\ left > 0
  /\ \E m \in 1 .. WordBits : m <= left /\ left' = left - m /\ Set(Bits(At(pos, nbits), m))
  /\ UNCHANGED <<writer, unaligned, size, n, k, pc>>

CodesEnd ==
  /\ pc = "codes" /\ left = 0
  /\ pc' = IF n = size THEN "done" ELSE "block"
  /\ UNCHANGED <<writer, reader, size, n, k, left>>

(* What is damaged may be no code.                                         *)
CodesFail == pc = "codes" /\ by = "damaged" /\ Corrupt

Next == Write \/ Flush \/ ReadHeader \/ ReadStored \/ ReadCodes \/ CodesEnd \/ CodesFail

-----------------------------------------------------------------------------
(* Properties.                                                             *)

(* What a write leaves in the accumulator is less than a word, and so is   *)
(* what a read leaves: a word that is fed always fits above.  No bit gets  *)
(* lost on the way out.                                                    *)
AccumulatorsHold ==
  /\ held < WordBits /\ nbits < WordBits
  /\ by = "own" /\ pc # "idle" => 8 * out + held + unput
                     \in stream.at[2] .. stream.at[2] + (IF pc = "write" THEN 0 ELSE WordBits - 1)

(* The bits that are read are those that were written: the reader is where *)
(* the block begins, or as many bits in front of its end as it has still   *)
(* to read; it is never fed what is not in the stream, and reads it to the *)
(* end.                                                                    *)
Consumed == 8 * pos - nbits

BitsInStep ==
  /\ AccumulatorsHold
  /\ by # "damaged" =>
       /\ pc # "corrupt"
       /\ pc = "block" => Consumed + (IF unaligned THEN 8 ELSE 0) = stream.at[k]
       /\ pc = "codes" => Consumed + left = stream.at[k]
       /\ pc = "done" => k = Len(stream.blocks) + 1

(* Whatever is read, no byte is taken from behind the input, and none is   *)
(* put behind the chunk.                                                   *)
InputIsKept == pos <= length /\ n <= size
=============================================================================
