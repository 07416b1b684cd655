------------------------------- MODULE LzxTree -------------------------------
(***************************************************************************)
(* Code lengths in the stream: writeTree (lzx/encode.go) and readTree      *)
(* (lzx/decode.go).  A length is coded as the difference from the length   *)
(* that the symbol had in the block before; runs of zeros, and of lengths  *)
(* that are the same, are coded as runs.  This package writes one block,   *)
(* so there is nothing before it; the reader takes what any encoder makes  *)
(* of the format, and must survive what is no tree at all.  The pre-tree,  *)
(* which codes the items, is a code like others (LzxHuffman).              *)
(***************************************************************************)
EXTENDS Integers, Sequences

CONSTANTS
  maxTreePath,        \* the longest code
  ShortMin, ShortMax, \* zeros in a pretreeZeroShort: 4 .. 19
  LongMin, LongMax,   \* zeros in a pretreeZeroLong: 20 .. 51
  SameMin, SameMax    \* lengths in a pretreeSame: 4 .. 5

TreeAssumption ==
  /\ maxTreePath \in Nat \ {0}
  /\ {ShortMin, ShortMax, LongMin, LongMax, SameMin, SameMax} \subseteq Nat
  /\ 1 <= ShortMin /\ ShortMin <= ShortMax /\ LongMin = ShortMax + 1 /\ LongMin <= LongMax
  /\ 1 <= SameMin /\ SameMax = SameMin + 1

VARIABLES
  by,     \* who writes: "own", "other", or "damaged": what is read is no tree
  before, \* the lengths of the block before, as the writer has them
  lens,   \* what is written
  i,      \* how many of them are
  item,   \* <<what is between writer and reader>>, or <<>>
  got,    \* lens of the reader: what readTree has left of the block before
  j,      \* how many it has read
  corrupt \* readTree has returned ErrCorrupt

vars == <<by, before, lens, i, item, got, j, corrupt>>

Zeros(n) == [s \in 1 .. n |-> 0]

-----------------------------------------------------------------------------
(* Items: a symbol of the pre-tree, the extra bits behind it, and the      *)
(* delta that follows a pretreeSame.                                       *)

Item(sym, extra, c) == <<[sym |-> sym, extra |-> extra, c |-> c]>>

Delta(from, l) == (from + maxTreePath + 1 - l) % (maxTreePath + 1)

Put(e, n) == item' = e /\ i' = i + n /\ UNCHANGED <<by, before, lens, got, j, corrupt>>

Smaller(a, b) == IF a <= b THEN a ELSE b

(* The lengths from the next on that are the same as it.                   *)
Run ==
  CHOOSE n \in 1 .. Len(lens) - i :
    /\ \A m \in 1 .. n : lens[i + m] = lens[i + 1]
    /\ i + n < Len(lens) => lens[i + n + 1] # lens[i + 1]

Writes(who) == by = who /\ item = <<>> /\ j < Len(got) /\ i < Len(lens) /\ ~corrupt

(* Bug: a long run is not cut at what its extra bits can say.              *)
PutLongUncut ==
  /\ Writes("own") /\ lens[i + 1] = 0 /\ Run >= LongMin
  /\ Put(Item("zeroLong", Run - LongMin, 0), Run)

PutLong ==
  /\ Writes("own") /\ lens[i + 1] = 0 /\ Run >= LongMin
  /\ LET n == Smaller(Run, LongMax) IN Put(Item("zeroLong", n - LongMin, 0), n)

PutShort ==
  /\ Writes("own") /\ lens[i + 1] = 0 /\ Run \in ShortMin .. ShortMax
  /\ Put(Item("zeroShort", Run - ShortMin, 0), Run)

(* Nothing is before the one block, so a delta is from zero.               *)
PutSame ==
  /\ Writes("own") /\ lens[i + 1] # 0 /\ Run >= SameMin
  /\ LET n == Smaller(Run, SameMax) IN
     Put(Item("same", n - SameMin, Delta(0, lens[i + 1])), n)

PutOne ==
  /\ Writes("own") /\ Run < IF lens[i + 1] = 0 THEN ShortMin ELSE SameMin
  /\ Put(Item("delta", 0, Delta(0, lens[i + 1])), 1)

(* Another encoder, which has a block before, may write whatever says the  *)
(* same.                                                                   *)
OtherPuts ==
  /\ Writes("other")
  /\ LET from == before[i + 1]
         alike(n, l) == i + n <= Len(lens) /\ \A m \in 1 .. n : lens[i + m] = l IN
     \/ Put(Item("delta", 0, Delta(from, lens[i + 1])), 1)
     \/ \E n \in ShortMin .. ShortMax : alike(n, 0) /\ Put(Item("zeroShort", n - ShortMin, 0), n)
     \/ \E n \in LongMin .. LongMax : alike(n, 0) /\ Put(Item("zeroLong", n - LongMin, 0), n)
     \/ \E n \in SameMin .. SameMax :
          alike(n, lens[i + 1]) /\ Put(Item("same", n - SameMin, Delta(from, lens[i + 1])), n)

(* Damage: any symbol of the pre-tree, in the place of a delta as well.    *)
DamagePuts ==
  /\ Writes("damaged")
  /\ \E sym \in {"delta", "zeroShort", "zeroLong", "same"},
        extra \in 0 .. LongMax - LongMin, c \in 0 .. maxTreePath + 1 :
       Put(Item(sym, extra, c), 0)

-----------------------------------------------------------------------------
(* readTree.                                                               *)

(* Bug: what cannot be is passed over.                                     *)
PassedOver == item' = <<>> /\ UNCHANGED <<by, before, lens, i, got, j, corrupt>>

Refused == item' = <<>> /\ corrupt' = TRUE /\ UNCHANGED <<by, before, lens, i, got, j>>

(* Bug: a run may reach past the lengths.                                  *)
FillUnbounded(n, l) ==
  /\ item' = <<>> /\ j' = j + n
  /\ got' = [s \in 1 .. Smaller(Len(got), j + n) |-> IF s > j THEN l ELSE got[s]]
               \o SubSeq(got, j + n + 1, Len(got))
  /\ UNCHANGED <<by, before, lens, i, corrupt>>

Fill(n, l) ==
  IF j + n > Len(got) THEN Refused
  ELSE /\ item' = <<>> /\ j' = j + n
       /\ got' = [s \in DOMAIN got |-> IF s \in j + 1 .. j + n THEN l ELSE got[s]]
       /\ UNCHANGED <<by, before, lens, i, corrupt>>

(* A length from the delta and the length before, of the symbol at hand.   *)
Length(c) == (got[j + 1] + maxTreePath + 1 - c) % (maxTreePath + 1)

Reads == item # <<>> /\ j < Len(got) /\ ~corrupt

(* The extra bits say no more than there are of them.                      *)
Bits(from, to) == from + (item[1].extra % (to - from + 1))

ReadDelta == Reads /\ item[1].sym = "delta" /\ item[1].c <= maxTreePath /\ Fill(1, Length(item[1].c))

ReadZeros ==
  /\ Reads
  /\ \/ item[1].sym = "zeroShort" /\ Fill(Bits(ShortMin, ShortMax), 0)
     \/ item[1].sym = "zeroLong" /\ Fill(Bits(LongMin, LongMax), 0)

(* Bug: each length of the run is told by the one it replaces.             *)
ReadSameEach ==
  /\ Reads /\ item[1].sym = "same" /\ item[1].c <= maxTreePath
  /\ LET n == Bits(SameMin, SameMax) IN
     IF j + n > Len(got) THEN Refused
     ELSE /\ item' = <<>> /\ j' = j + n
          /\ got' = [s \in DOMAIN got |->
                       IF s \in j + 1 .. j + n
                       THEN (got[s] + maxTreePath + 1 - item[1].c) % (maxTreePath + 1) ELSE got[s]]
          /\ UNCHANGED <<by, before, lens, i, corrupt>>

ReadSame ==
  /\ Reads /\ item[1].sym = "same"
  /\ IF item[1].c > maxTreePath THEN Refused ELSE Fill(Bits(SameMin, SameMax), Length(item[1].c))

(* A pre-tree symbol that is none of these there is not: sym ends in       *)
(* corruption, like bits that are no code.                                 *)
ReadNone == Reads /\ item[1].sym = "delta" /\ item[1].c > maxTreePath /\ Refused

Next ==
  \/ PutLong \/ PutShort \/ PutSame \/ PutOne \/ OtherPuts \/ DamagePuts
  \/ ReadDelta \/ ReadZeros \/ ReadSame \/ ReadNone

-----------------------------------------------------------------------------
(* Properties.                                                             *)

(* A tree that an encoder wrote is never refused and is read as written:   *)
(* whenever nothing is under way, both are at the same symbol, the lengths *)
(* up to it are those written, and those behind it are still those of the  *)
(* block before, from which the deltas are to be taken.                    *)
TreeInStep ==
  by # "damaged" =>
    /\ ~corrupt
    /\ item = <<>> => i = j /\ SubSeq(got, 1, j) = SubSeq(lens, 1, j)
    /\ \A s \in j + 1 .. Len(got) : got[s] = before[s]

(* Whatever is read, the reader stays within its lengths, each of them one *)
(* that a code may have: readTree indexes lens, and build counts by it,    *)
(* unchecked.                                                              *)
TreeStaysWithin ==
  /\ j <= Len(got) /\ Len(got) = Len(lens)
  /\ \A s \in DOMAIN got : got[s] \in 0 .. maxTreePath
=============================================================================
