-------------------------------- MODULE LzxE8 --------------------------------
(***************************************************************************)
(* The E8 translation of a chunk: encodeE8 (lzx/encode.go) makes the       *)
(* operands of x86 calls absolute before a chunk is compressed, decodeE8   *)
(* (lzx/decode.go) makes them relative again.  Each scans the buffer that  *)
(* it rewrites: the decoder must find the calls where the encoder did,     *)
(* though operands may have come to look like calls, and tell a rewritten  *)
(* operand from one that was left alone.                                   *)
(***************************************************************************)
EXTENDS Integers, Sequences

CONSTANTS
  Byte,        \* the bytes
  Call,        \* 0xe8
  Chunks,      \* the chunks that are translated
  HalfWord,    \* an operand is in -HalfWord .. HalfWord - 1
  Word(_),     \* the operand that four bytes are
  Bytes(_),    \* the four bytes that an operand is
  e8FileSize,
  e8MinLength

Operand == -HalfWord .. HalfWord - 1
FourBytes == [1 .. 4 -> Byte]

ASSUME E8Assumption ==
  /\ Call \in Byte /\ Chunks \subseteq Seq(Byte)
  /\ HalfWord \in Nat /\ e8FileSize \in 1 .. HalfWord - 1
  /\ \A c \in Chunks : Len(c) <= HalfWord
  /\ e8MinLength \in Nat /\ e8MinLength >= 5

(* Little endian, two's complement: one word for every four bytes.         *)
ASSUME WordAssumption ==
  /\ \A q \in FourBytes : Word(q) \in Operand /\ Bytes(Word(q)) = q
  /\ \A x \in Operand : Bytes(x) \in FourBytes /\ Word(Bytes(x)) = x

VARIABLES
  plain,   \* src, the chunk as it was
  buf,     \* the copy that is translated
  i,       \* the loop variable, counted from 0
  phase    \* "encode", "decode", "done"

e8Vars == <<plain, buf, i, phase>>

E8Init == plain \in Chunks /\ buf = plain /\ i = 0 /\ phase = "encode"

-----------------------------------------------------------------------------
(* A buffer shorter than e8MinLength has no such i at all.                 *)
Scans == i + e8MinLength < Len(buf)

At(b, n) == Word([j \in 1 .. 4 |-> b[n + 1 + j]])
With(b, n, x) == [j \in DOMAIN b |-> IF j \in n + 2 .. n + 5 THEN Bytes(x)[j - n - 1] ELSE b[j]]

(* Bug: the upper bound does not leave room for the position.              *)
EncodedUnbounded(x, pos) ==
  IF x >= -pos /\ x < e8FileSize THEN x + pos ELSE x

(* x + pos does not wrap: it is below e8FileSize.                          *)
Encoded(x, pos) ==
  IF x >= -pos /\ x < e8FileSize - pos THEN x + pos
  ELSE IF x >= e8FileSize - pos /\ x < e8FileSize THEN x - e8FileSize
  ELSE x

Decoded(v, pos) ==
  IF v >= -pos /\ v < e8FileSize
  THEN IF v >= 0 THEN v - pos ELSE v + e8FileSize
  ELSE v

Pass ==
  /\ phase \in {"encode", "decode"} /\ Scans /\ buf[i + 1] # Call
  /\ i' = i + 1
  /\ UNCHANGED <<plain, buf, phase>>

(* Bug: the encoder looks for calls inside of an operand, too.             *)
EncodeCallStep ==
  /\ phase = "encode" /\ Scans /\ buf[i + 1] = Call
  /\ buf' = With(buf, i, Encoded(At(buf, i), i))
  /\ i' = i + 1
  /\ UNCHANGED <<plain, phase>>

(* The loop goes on behind the operand.                                    *)
EncodeCall ==
  /\ phase = "encode" /\ Scans /\ buf[i + 1] = Call
  /\ buf' = With(buf, i, Encoded(At(buf, i), i))
  /\ i' = i + 5
  /\ UNCHANGED <<plain, phase>>

DecodeCall ==
  /\ phase = "decode" /\ Scans /\ buf[i + 1] = Call
  /\ buf' = With(buf, i, Decoded(At(buf, i), i))
  /\ i' = i + 5
  /\ UNCHANGED <<plain, phase>>

(* What the decompressor produces is what went into the compressor.        *)
EncodeEnds ==
  /\ phase = "encode" /\ ~Scans
  /\ phase' = "decode" /\ i' = 0
  /\ UNCHANGED <<plain, buf>>

DecodeEnds ==
  /\ phase = "decode" /\ ~Scans
  /\ phase' = "done"
  /\ UNCHANGED <<plain, buf, i>>

-----------------------------------------------------------------------------
(* Properties.                                                             *)

E8TypeInv ==
  /\ plain \in Seq(Byte) /\ buf \in Seq(Byte) /\ Len(buf) = Len(plain)
  /\ i \in Nat /\ phase \in {"encode", "decode", "done"}

(* A chunk is what it was after it has been compressed and decompressed,   *)
(* whatever calls, operands and things that look like calls are in it.     *)
TranslationInverts == phase = "done" => buf = plain
=============================================================================
