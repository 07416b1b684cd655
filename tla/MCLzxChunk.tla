----------------------------- MODULE MCLzxChunk -----------------------------
(* Chunks of two or three kinds of bytes that are long enough for two      *)
(* calls and for an operand that looks like a call; pairs of short ones    *)
(* that go one after the other through one Compressor; long ones in which  *)
(* buckets are shared, chains are longer than is looked at, matches reach  *)
(* the greatest length, and one that begins later is longer.  Of another   *)
(* encoder, short chunks, one whose ends alone are alike, so that the last *)
(* match has the farthest offset there is, and one with a period of more   *)
(* than the smallest slots.                                                *)
EXTENDS LzxChunk

CONSTANTS Base, Few, Many

MCByte == 0 .. Base - 1
MCCall == Base - 1
Values == Base * Base * Base * Base
MCHalfWord == Values \div 2

Unsigned(q) == q[1] + Base * (q[2] + Base * (q[3] + Base * q[4]))
MCWord(q) == IF Unsigned(q) >= Values - MCHalfWord THEN Unsigned(q) - Values ELSE Unsigned(q)
Digit(x, d) == (x \div d) % Base
MCBytes(x) ==
  LET u == IF x < 0 THEN x + Values ELSE x IN
  <<Digit(u, 1), Digit(u, Base), Digit(u, Base * Base), Digit(u, Base * Base * Base)>>

MCFooterBits == <<0, 0, 0, 0, 1, 1, 2, 2, 3>>
MCBasePosition == <<0, 1, 2, 3, 4, 6, 8, 12, 16>>
MCFar == <<1, 1, 1, 0, 0, 0, 0, 0, 0, 0, 0, 0, 0, 1, 1, 1>>
MCPeriodic == [p \in 1 .. 16 |-> IF p % 6 \in {1, 2, 4} THEN 1 ELSE 0]
MCHash(b) == (b[1] + 2 * b[2] + b[3]) % 3
MCBuckets == 0 .. 2

MCPairs == [1 .. 5 -> {0, 1}]
MCChunks ==
  MCPairs \cup [1 .. Few -> {0, 1, MCCall}] \cup [1 .. Many -> {0, MCCall}]
    \cup {MCFar, MCPeriodic}
    \cup {c \o c \o <<b>> \o c : c \in [1 .. 4 -> {0, 1}], b \in {0, 1}}

MCOtherChunks == UNION {[1 .. m -> {0, 1}] : m \in {1, 5, 8}} \cup {MCFar, MCPeriodic}
MCDamagedChunks == {<<1, 0, 0, 1, 0>>}
=============================================================================
