------------------------------ MODULE LzxTokens ------------------------------
(***************************************************************************)
(* Tokens: what a chunk is coded as (matchToken, countFrequencies and the  *)
(* loop of emitBlock, lzx/encode.go), and what a decoder makes of them     *)
(* (readCompressed, lzx/decode.go).  Both keep three recent offsets, and   *)
(* never tell each other.                                                  *)
(*                                                                         *)
(* Another encoder may take any match there is and need not take one;      *)
(* LzxMatchFinder says which this one takes.  The symbols themselves go    *)
(* through codes that LzxHuffman models; here they arrive as they were     *)
(* written.                                                                *)
(***************************************************************************)
EXTENDS Integers, Sequences

CONSTANTS
  Literals,      \* how many bytes there are: 256
  MainSlots,     \* position slots of the main tree: 30
  WindowSize,
  minMatch,      \* what a length is biased by
  minLength,     \* the shortest match that this package's encoder takes
  Short,         \* the first length the main symbol cannot say: 7
  lenCodeCount,
  AlignedBits,   \* offset bits that the aligned tree codes: 3
  footerBits,    \* by slot, from 1 on
  basePosition

mainCodeCount == Literals + MainSlots * (Short + 1)
maxMatch == minMatch + Short + lenCodeCount - 1

(* The first three slots are those of the recent offsets, and a biased     *)
(* offset is none of these.                                                *)
ASSUME TokenAssumption ==
  /\ Literals \in Nat \ {0} /\ WindowSize \in Nat /\ MainSlots \in Nat /\ MainSlots >= 3
  /\ Short \in Nat /\ lenCodeCount \in Nat /\ AlignedBits \in Nat
  /\ minMatch \in Nat /\ minMatch >= 2
  /\ minLength \in Nat /\ minMatch < minLength /\ minLength <= maxMatch
  /\ footerBits \in [1 .. MainSlots + 1 -> Nat] /\ basePosition \in [1 .. MainSlots + 1 -> Nat]
  /\ basePosition[1] = 0 /\ basePosition[MainSlots + 1] = WindowSize
  /\ \A s \in 1 .. MainSlots : basePosition[s + 1] = basePosition[s] + 2 ^ footerBits[s]
  /\ \A s \in 1 .. 3 : footerBits[s] = 0

VARIABLES
  by,        \* who encodes: "own", "other", or "damaged": what is decoded is no chunk
  data,      \* the chunk; of a damaged one, its length
  nth,       \* which chunk of its Compressor it is
  aligned,   \* whether the block is an aligned one (alignedPays)
  pos,       \* of the encoder
  recent,
  emitted,   \* the elements of the token under way, or <<>>
  window,    \* what the decoder has
  recentOf,  \* and its recent offsets
  corrupt    \* ErrCorrupt

encoder == <<by, data, nth, aligned, pos, recent>>
decoder == <<window, recentOf, corrupt>>

NoOffsets == <<1, 1, 1>>

-----------------------------------------------------------------------------
(* Recent offsets.                                                         *)

Swapped(r, s) == [r EXCEPT ![s] = r[1], ![1] = r[s]]
Pushed(r, offset) == <<offset, r[1], r[2]>>

SlotsOf(r, offset) == {s \in 1 .. 3 : r[s] = offset}
Least(S) == CHOOSE x \in S : \A y \in S : x <= y
Greatest(S) == CHOOSE x \in S : \A y \in S : x >= y

(* Bug: an offset that is used again stays where it is.                    *)
RecentAfterKept(r, offset) == IF SlotsOf(r, offset) # {} THEN r ELSE Pushed(r, offset)

RecentAfter(r, offset) ==
  IF SlotsOf(r, offset) # {} THEN Swapped(r, Least(SlotsOf(r, offset))) ELSE Pushed(r, offset)

positionSlot(adjusted) == Greatest({s \in DOMAIN basePosition : basePosition[s] <= adjusted}) - 1

(* matchToken: the symbol, the symbol of the length tree if there is one,  *)
(* the slot and what is below its base.                                    *)
MatchToken(r, length, offset) ==
  LET slot == IF SlotsOf(r, offset) # {} THEN Least(SlotsOf(r, offset)) - 1
              ELSE positionSlot(offset + minMatch)
      short == IF length - minMatch < Short THEN length - minMatch ELSE Short IN
  [sym |-> Literals + slot * (Short + 1) + short,
   lenSym |-> IF short = Short THEN length - minMatch - Short ELSE -1,
   slot |-> slot,
   extra |-> IF SlotsOf(r, offset) # {} THEN 0 ELSE offset + minMatch - basePosition[slot + 1]]

(* What a token may be.                                                    *)
SlotOf(sym) == IF sym < Literals THEN -1 ELSE (sym - Literals) \div (Short + 1)
FooterOf(slot) == IF slot < 0 THEN 0 ELSE footerBits[slot + 1]

IsToken(t) ==
  /\ t.sym \in 0 .. mainCodeCount - 1 /\ t.slot = SlotOf(t.sym)
  /\ t.lenSym \in -1 .. lenCodeCount - 1
  /\ t.lenSym >= 0 <=> t.sym >= Literals /\ (t.sym - Literals) % (Short + 1) = Short
  /\ t.extra \in 0 .. 2 ^ FooterOf(t.slot) - 1

LiteralToken(byte) == [sym |-> byte, lenSym |-> -1, slot |-> -1, extra |-> 0]

-----------------------------------------------------------------------------
(* Elements: <<tree, symbol>>, or <<"bits", value, how many>>.             *)

Elements(t) ==
  LET bits == FooterOf(t.slot) IN
  <<<<"main", t.sym>>>>
    \o (IF t.lenSym >= 0 THEN <<<<"length", t.lenSym>>>> ELSE <<>>)
    \o (IF bits = 0 THEN <<>>
        ELSE IF aligned /\ bits >= AlignedBits
        THEN <<<<"bits", t.extra \div 2 ^ AlignedBits, bits - AlignedBits>>,
               <<"aligned", t.extra % 2 ^ AlignedBits>>>>
        ELSE <<<<"bits", t.extra, bits>>>>)

(* Bug: counted only where more bits are left than the aligned tree codes. *)
CountedLess(t) ==
  {<<"main", t.sym>>}
    \cup {<<"length", l>> : l \in {t.lenSym} \ {-1}}
    \cup {<<"aligned", t.extra % 2 ^ AlignedBits>> :
            s \in {s \in {t.slot} : s >= 3 /\ FooterOf(s) > AlignedBits}}

(* countFrequencies: the symbols of a token that get a code.               *)
Counted(t) ==
  {<<"main", t.sym>>}
    \cup {<<"length", l>> : l \in {t.lenSym} \ {-1}}
    \cup {<<"aligned", t.extra % 2 ^ AlignedBits>> :
            s \in {s \in {t.slot} : s >= 3 /\ FooterOf(s) >= AlignedBits}}

Uncounted(t) ==
  {n \in DOMAIN Elements(t) : Elements(t)[n][1] # "bits" /\ Elements(t)[n] \notin Counted(t)}

(* A symbol that was not counted has no code, and writes no bit.           *)
Coded(t) ==
  LET e == Elements(t) IN
  IF Uncounted(t) = {} THEN e ELSE [n \in DOMAIN e |-> IF n \in Uncounted(t) THEN <<"none">> ELSE e[n]]

-----------------------------------------------------------------------------
(* The encoder.                                                            *)

Encodes(who) == by = who /\ emitted = <<>> /\ pos < Len(data) /\ ~corrupt

EmitLiteral ==
  /\ emitted' = Coded(LiteralToken(data[pos + 1]))
  /\ pos' = pos + 1
  /\ UNCHANGED <<by, data, nth, aligned, recent, decoder>>

EmitMatch(length, offset) ==
  /\ emitted' = Coded(MatchToken(recent, length, offset))
  /\ recent' = RecentAfter(recent, offset)
  /\ pos' = pos + length
  /\ UNCHANGED <<by, data, nth, aligned, decoder>>

(* The bytes at p are those offset before, as far as length.               *)
Matches(p, length, offset) == \A m \in 1 .. length : data[p + m] = data[p + m - offset]

LongestLength == LET left == Len(data) - pos IN IF left < maxMatch THEN left ELSE maxMatch

Literal == Encodes("other") /\ EmitLiteral

(* Bug: two bytes are taken from further back than any slot says.          *)
MatchTooFar ==
  /\ Encodes("other")
  /\ \E length \in minMatch .. LongestLength, offset \in 1 .. pos :
       Matches(pos, length, offset) /\ EmitMatch(length, offset)

(* Every match that the format can say, those shorter than minLength too.  *)
Match ==
  /\ Encodes("other")
  /\ \E length \in minMatch .. LongestLength, offset \in 1 .. pos :
       /\ Matches(pos, length, offset) /\ offset + minMatch < WindowSize
       /\ EmitMatch(length, offset)

-----------------------------------------------------------------------------
(* The decoder.                                                            *)

Symbol == emitted[1][2]

SlotOfSymbol == (Symbol - Literals) \div (Short + 1)
ShortOfSymbol == (Symbol - Literals) % (Short + 1)

(* What the decoder reads behind the symbol: whether it asks for a length  *)
(* and for how many bits, from the symbol alone.                           *)
Asked ==
  LET bits == IF SlotOfSymbol < 3 THEN 0 ELSE FooterOf(SlotOfSymbol) IN
  <<<<"main">>>>
    \o (IF ShortOfSymbol = Short THEN <<<<"length">>>> ELSE <<>>)
    \o (IF bits = 0 THEN <<>>
        ELSE IF aligned /\ bits >= AlignedBits THEN <<<<"bits", bits - AlignedBits>>, <<"aligned">>>>
        ELSE <<<<"bits", bits>>>>)

Shape(e) == [n \in DOMAIN e |-> IF e[n][1] = "bits" THEN <<"bits", e[n][3]>> ELSE <<e[n][1]>>]

(* The value of an element that is there, or 0.                            *)
ValueOf(tree) ==
  LET at == {n \in DOMAIN emitted : emitted[n][1] = tree} IN
  IF at = {} THEN 0 ELSE emitted[Least(at)][2]

LengthRead == minMatch + ShortOfSymbol + ValueOf("length")

OffsetRead ==
  IF SlotOfSymbol < 3 THEN recentOf[SlotOfSymbol + 1]
  ELSE basePosition[SlotOfSymbol + 1] - minMatch + ValueOf("aligned")
       + ValueOf("bits") * (IF ValueOf("bits") # 0 /\ \E n \in DOMAIN emitted : emitted[n][1] = "aligned"
                            THEN 2 ^ AlignedBits ELSE 1)

(* Bug: what is copied is there before.                                    *)
CopiedAtOnce(length, offset) ==
  window \o [n \in 1 .. length |->
               LET from == Len(window) + n - offset IN IF from <= Len(window) THEN window[from] ELSE 0]

(* Byte by byte, from what may just have been written.                     *)
Copied(length, offset) ==
  LET w[n \in Nat] == IF n <= Len(window) THEN window[n] ELSE w[n - offset] IN
  [n \in 1 .. Len(window) + length |-> w[n]]

(* Bug: a match may reach past the end of the block.                       *)
ReadableUnbounded ==
  /\ emitted[1][1] = "main"
  /\ Symbol >= Literals =>
       SlotOfSymbol <= MainSlots /\ Shape(emitted) = Asked /\ OffsetRead \in 1 .. Len(window)

(* The decoder asks for what was written, and it says bytes that are there. *)
Readable ==
  /\ emitted[1][1] = "main"
  /\ Symbol >= Literals =>
       /\ SlotOfSymbol <= MainSlots  \* len(footerBits), which is one more than there are slots
       /\ Shape(emitted) = Asked
       /\ OffsetRead \in 1 .. Len(window) /\ LengthRead <= Len(data) - Len(window)

Decode ==
  /\ emitted # <<>> /\ Readable
  /\ IF Symbol < Literals THEN window' = Append(window, Symbol) /\ UNCHANGED recentOf
     ELSE /\ window' = Copied(LengthRead, OffsetRead)
          /\ recentOf' = IF SlotOfSymbol < 3 THEN Swapped(recentOf, SlotOfSymbol + 1)
                         ELSE Pushed(recentOf, OffsetRead)
  /\ emitted' = <<>>
  /\ UNCHANGED <<encoder, corrupt>>

(* Out of step with the stream, if it is not corrupt by itself.            *)
Refuse ==
  /\ emitted # <<>> /\ ~Readable
  /\ corrupt' = TRUE /\ emitted' = <<>>
  /\ UNCHANGED <<encoder, window, recentOf>>

(* Damage: any symbol, and behind it whatever bits are asked for.          *)
Damage ==
  /\ by = "damaged" /\ emitted = <<>> /\ Len(window) < Len(data) /\ ~corrupt
  /\ \E sym \in 0 .. mainCodeCount - 1, lenSym \in -1 .. lenCodeCount - 1 :
       \E extra \in 0 .. 2 ^ FooterOf(SlotOf(sym)) - 1 :
         LET t == [sym |-> sym, lenSym |-> lenSym, slot |-> SlotOf(sym), extra |-> extra] IN
         IsToken(t) /\ emitted' = Elements(t)
  /\ UNCHANGED <<encoder, decoder>>

-----------------------------------------------------------------------------
(* Properties.                                                             *)

(* What is written is what the format can say: a symbol of its tree, and   *)
(* no more bits than the slot has.                                         *)
ElementsFit ==
  \A n \in DOMAIN emitted :
    LET e == emitted[n] IN
    \/ e[1] = "main" /\ e[2] \in 0 .. mainCodeCount - 1
    \/ e[1] = "length" /\ e[2] \in 0 .. lenCodeCount - 1
    \/ e[1] = "aligned" /\ e[2] \in 0 .. 2 ^ AlignedBits - 1
    \/ e[1] = "bits" /\ e[2] \in 0 .. 2 ^ e[3] - 1

(* Whatever matches the encoder takes, the decoder makes the same data of  *)
(* them, keeps the same recent offsets, and never refuses one.             *)
DecoderInStep ==
  by # "damaged" =>
    /\ ~corrupt /\ ElementsFit
    /\ emitted = <<>> => window = SubSeq(data, 1, pos) /\ recentOf = recent

(* Whatever is decoded, the window is never left: bytes are neither copied *)
(* from before it nor to behind its end.                                   *)
WindowIsKept == Len(window) <= Len(data) /\ \A p \in DOMAIN window : window[p] \in 0 .. Literals - 1

=============================================================================
