-------------------------- MODULE MetaParserProofs ---------------------------
(***************************************************************************)
(* parseMetadata reads nothing outside of the metadata and calls itself no *)
(* deeper than maxTreeDepth, whatever is written in it: for every length,  *)
(* offset and count that a field can hold, and every graph of offsets.     *)
(*                                                                         *)
(* What makes it inductive is the shape of the stack: the offset of every  *)
(* call is a number, its depth is its place, and between a dentry and the  *)
(* next the topmost call has that dentry open.                             *)
(***************************************************************************)
EXTENDS MetaParser, SequenceTheorems, TLAPS

Word == 0 .. WordSize - 1

(* Metadata as it comes: a cell says what its fields can say.              *)
IsCell(c) ==
  /\ c.kind \in {"dentry", "stream"}
  /\ c.length \in Word /\ c.nameLen \in Nat
  /\ c.kind = "dentry" => c.sub \in Word /\ c.shortLen \in Nat

IsResource(r) ==
  /\ r.len \in Nat /\ r.total \in Word
  /\ \A o \in DOMAIN r.cells : IsCell(r.cells[o])

ParseSpec == IsResource(md) /\ ParseInit /\ [][Parsing]_pvars

IsOpen(o) == o \in [d: {o.d}, sub: Nat, i: {o.i}, streams: {o.streams}]

IsCall(c) ==
  /\ c \in [at: Nat, depth: Nat, out: {c.out}, open: {c.open}]
  /\ c.open = <<>> \/ \E o : c.open = <<o>> /\ IsOpen(o)

Calls(s) ==
  /\ \E C : s \in Seq(C)
  /\ \A j \in 1 .. Len(s) : IsCall(s[j]) /\ s[j].depth = j - 1
  /\ Len(s) <= MaxTreeDepth + 1

ParseInv ==
  /\ IsResource(md)
  /\ reach \in Nat /\ reach <= md.len
  /\ Calls(stack)
  /\ state \in {"lists", "streams"} => stack # <<>>
  /\ state = "streams" => Top.open # <<>>

-----------------------------------------------------------------------------
(* Stacks.                                                                 *)

(* The topmost call, and the stack under it.                               *)
LEMMA TopOfCalls ==
  ASSUME Calls(stack), stack # <<>>
  PROVE  /\ Len(stack) \in Nat \ {0} /\ IsCall(Top) /\ Top.depth = Len(stack) - 1
         /\ Top.at \in Nat
<1>1. PICK C : stack \in Seq(C)  BY DEF Calls
<1>2. Len(stack) \in Nat \ {0}  BY <1>1
<1>. QED  BY <1>2 DEF Calls, Top, IsCall

LEMMA LastReplaced ==
  ASSUME NEW C, NEW s \in Seq(C), s # <<>>, NEW c
  PROVE  LET t == [s EXCEPT ![Len(s)] = c] IN
         /\ t \in Seq(C \union {c}) /\ Len(t) = Len(s) /\ t # <<>>
         /\ \A j \in 1 .. Len(s) : t[j] = IF j = Len(s) THEN c ELSE s[j]
<1>. DEFINE t == [s EXCEPT ![Len(s)] = c]
<1>1. Len(s) \in Nat \ {0}  OBVIOUS
<1>2. t = [j \in 1 .. Len(s) |-> IF j = Len(s) THEN c ELSE s[j]]  BY <1>1
<1>. HIDE DEF t
<1>3. t \in [1 .. Len(s) -> C \union {c}]  BY <1>2
<1>4. t \in Seq(C \union {c}) /\ Len(t) = Len(s)  BY <1>1, <1>3, SeqDef, LenProperties
<1>5. \A j \in 1 .. Len(s) : t[j] = IF j = Len(s) THEN c ELSE s[j]  BY <1>2
<1>6. t # <<>>  BY <1>1, <1>4
<1>. QED  BY <1>4, <1>5, <1>6 DEF t

(* The topmost call goes on.                                               *)
LEMMA TopReplaced ==
  ASSUME NEW s, Calls(s), s # <<>>, NEW c, IsCall(c), c.depth = Len(s) - 1
  PROVE  LET t == [s EXCEPT ![Len(s)] = c] IN
         Calls(t) /\ t # <<>> /\ Len(t) = Len(s) /\ t[Len(s)] = c
<1>. DEFINE t == [s EXCEPT ![Len(s)] = c]
<1>1. PICK C : s \in Seq(C)  BY DEF Calls
<1>2. Len(s) \in Nat \ {0}  BY <1>1
<1>3. /\ t \in Seq(C \union {c}) /\ Len(t) = Len(s) /\ t # <<>>
      /\ \A j \in 1 .. Len(s) : t[j] = IF j = Len(s) THEN c ELSE s[j]
  BY <1>1, LastReplaced
<1>. HIDE DEF t
<1>4. \A j \in 1 .. Len(t) : IsCall(t[j]) /\ t[j].depth = j - 1
  BY <1>2, <1>3 DEF Calls
<1>5. Calls(t)  BY <1>3, <1>4 DEF Calls
<1>. QED  BY <1>2, <1>3, <1>5 DEF t

(* A call that returns leaves the calls under it.                          *)
LEMMA FrontIsCalls ==
  ASSUME NEW s, Calls(s), s # <<>>
  PROVE  Calls(Front(s)) /\ Len(Front(s)) = Len(s) - 1
<1>1. PICK C : s \in Seq(C)  BY DEF Calls
<1>2. Len(s) \in Nat \ {0} /\ Len(s) <= MaxTreeDepth + 1  BY <1>1 DEF Calls
<1>. DEFINE t == Front(s)
<1>3. /\ t \in Seq(C) /\ Len(t) = Len(s) - 1
      /\ \A j \in 1 .. Len(s) - 1 : t[j] = s[j]
  <2>1. t = SubSeq(s, 1, Len(s) - 1)  BY DEF Front
  <2>2. t = [j \in 1 .. Len(s) - 1 |-> s[j]]  BY <1>1, <1>2, <2>1
  <2>3. t \in [1 .. Len(s) - 1 -> C]  BY <1>1, <1>2, <2>2
  <2>4. Len(s) - 1 \in Nat  BY <1>2
  <2>. QED  BY <2>2, <2>3, <2>4, SeqDef, LenProperties
<1>. HIDE DEF t
<1>4. \A j \in 1 .. Len(t) : IsCall(t[j]) /\ t[j].depth = j - 1
  BY <1>2, <1>3 DEF Calls
<1>5. Calls(t)  BY <1>2, <1>3, <1>4, ParserAssumption DEF Calls
<1>. QED  BY <1>3, <1>5 DEF t

(* A call whose dentry is complete.                                        *)
LEMMA ClosedIsCall ==
  ASSUME NEW c, IsCall(c), NEW o
  PROVE  LET e == [c EXCEPT !.out = o, !.open = <<>>] IN IsCall(e) /\ e.depth = c.depth
<1>. DEFINE V == {c.out, c.open, o, <<>>}
            e == [c EXCEPT !.out = o, !.open = <<>>]
<1>1. c \in [at: Nat, depth: Nat, out: V, open: V]  BY DEF IsCall
<1>2. o \in V /\ <<>> \in V  OBVIOUS
<1>. HIDE DEF V
<1>3. /\ e \in [at: Nat, depth: Nat, out: V, open: V]
      /\ e.depth = c.depth /\ e.open = <<>>
  BY <1>1, <1>2
<1>. HIDE DEF e
<1>4. e \in [at: Nat, depth: Nat, out: {e.out}, open: {e.open}]  BY <1>3
<1>5. IsCall(e) /\ e.depth = c.depth  BY <1>3, <1>4 DEF IsCall
<1>. QED  BY <1>5 DEF e

(* One that has read a dentry, or an entry behind it.                      *)
LEMMA OpenedIsCall ==
  ASSUME NEW c, IsCall(c), NEW a \in Nat, NEW o, IsOpen(o)
  PROVE  LET e == [c EXCEPT !.at = a, !.open = <<o>>] IN
         IsCall(e) /\ e.depth = c.depth /\ e.open = <<o>>
<1>. DEFINE V == {c.out, c.open, <<o>>}
            e == [c EXCEPT !.at = a, !.open = <<o>>]
<1>1. c \in [at: Nat, depth: Nat, out: V, open: V]  BY DEF IsCall
<1>2. <<o>> \in V  OBVIOUS
<1>. HIDE DEF V
<1>3. /\ e \in [at: Nat, depth: Nat, out: V, open: V]
      /\ e.depth = c.depth /\ e.open = <<o>>
  BY <1>1, <1>2
<1>. HIDE DEF e
<1>4. e \in [at: Nat, depth: Nat, out: {e.out}, open: {e.open}]  BY <1>3
<1>5. IsCall(e) /\ e.depth = c.depth /\ e.open = <<o>>  BY <1>3, <1>4 DEF IsCall
<1>. QED  BY <1>5 DEF e

(* A call more, within the limit.                                          *)
LEMMA PushIsCalls ==
  ASSUME NEW s, Calls(s), NEW c, IsCall(c), c.depth = Len(s), Len(s) <= MaxTreeDepth
  PROVE  Calls(Append(s, c)) /\ Append(s, c) # <<>>
<1>1. PICK C : s \in Seq(C)  BY DEF Calls
<1>. DEFINE t == Append(s, c)
<1>2. s \in Seq(C \union {c})  BY <1>1
<1>3. /\ t \in Seq(C \union {c}) /\ Len(t) = Len(s) + 1 /\ Len(s) \in Nat
      /\ t[Len(s) + 1] = c /\ \A j \in 1 .. Len(s) : t[j] = s[j]
  BY <1>2, AppendProperties
<1>. HIDE DEF t
<1>4. \A j \in 1 .. Len(t) : IsCall(t[j]) /\ t[j].depth = j - 1
  <2>. SUFFICES ASSUME NEW j \in 1 .. Len(t) PROVE IsCall(t[j]) /\ t[j].depth = j - 1
    OBVIOUS
  <2>1. CASE j = Len(s) + 1  BY <2>1, <1>3
  <2>2. CASE j \in 1 .. Len(s)  BY <2>2, <1>3 DEF Calls
  <2>. QED  BY <2>1, <2>2, <1>3
<1>5. Len(t) <= MaxTreeDepth + 1  BY <1>3, ParserAssumption
<1>6. Calls(t) /\ t # <<>>  BY <1>3, <1>4, <1>5 DEF Calls
<1>. QED  BY <1>6 DEF t

-----------------------------------------------------------------------------
(* Numbers.                                                                *)

(* Rounding up loses no byte and stays a word.                             *)
LEMMA AlignUpBounds ==
  ASSUME NEW n \in Word PROVE AlignUp8(n) \in Nat /\ AlignUp8(n) >= n
<1>1. CASE n > WordSize - 8  BY <1>1, ParserAssumption DEF AlignUp8, Word
<1>2. CASE n <= WordSize - 8
  <2>1. n \in Nat  BY ParserAssumption DEF Word
  <2>2. AlignUp8(n) = ((n + 7) \div 8) * 8  BY <1>2, <2>1, ParserAssumption DEF AlignUp8
  <2>3. ((n + 7) \div 8) * 8 \in Nat /\ ((n + 7) \div 8) * 8 >= n  BY <2>1
  <2>. QED  BY <2>2, <2>3
<1>. QED  BY <1>1, <1>2, ParserAssumption DEF Word

(* What fits may be reached.                                               *)
LEMMA FurtherFits ==
  ASSUME ParseInv, NEW at \in Nat, NEW n \in Nat, Fits(at, n)
  PROVE  Further(at + n) \in Nat /\ Further(at + n) <= md.len
BY DEF Fits, Further, ParseInv, IsResource

-----------------------------------------------------------------------------
(* The steps.                                                              *)

LEMMA ParseInvInit == IsResource(md) /\ ParseInit => ParseInv
<1>. SUFFICES ASSUME IsResource(md), ParseInit PROVE ParseInv  OBVIOUS
<1>1. Calls(<<>>)
  <2>1. <<>> \in Seq({}) /\ Len(<<>>) = 0  OBVIOUS
  <2>. QED  BY <2>1, ParserAssumption DEF Calls
<1>. QED  BY <1>1 DEF ParseInit, ParseInv, IsResource

(* A refusal leaves the stack as it is.                                    *)
LEMMA RefusedKeeps ==
  ASSUME ParseInv, Refused, reach' \in Nat, reach' <= md.len PROVE ParseInv'
BY DEF ParseInv, Refused, Top

LEMMA BeginKeeps == ASSUME ParseInv, Begin PROVE ParseInv'
<1>1. reach' \in Nat /\ reach' <= md.len
  BY DEF Begin, Further, ParseInv, IsResource
<1>2. CASE ~TableIsPossible  BY <1>1, <1>2, RefusedKeeps DEF Begin
<1>3. CASE TableIsPossible
  <2>. DEFINE c == Call(TreeAt, 0)
  <2>1. IsCall(c) /\ c.depth = 0
    BY AlignUpBounds DEF Call, IsCall, TreeAt, ParseInv, IsResource
  <2>2. Calls(<<>>) /\ Len(<<>>) = 0
    <3>1. <<>> \in Seq({}) /\ Len(<<>>) = 0  OBVIOUS
    <3>. QED  BY <3>1, ParserAssumption DEF Calls
  <2>. HIDE DEF c
  <2>3. Calls(Append(<<>>, c)) /\ Append(<<>>, c) # <<>>
    <3>1. c.depth = Len(<<>>) /\ Len(<<>>) <= MaxTreeDepth  BY <2>1, ParserAssumption
    <3>. QED  BY <3>1, <2>1, <2>2, PushIsCalls, Zenon
  <2>4. Append(<<>>, c) = <<c>>  OBVIOUS
  <2>5. stack' = <<c>> /\ state' = "lists" /\ md' = md  BY <1>3 DEF Begin, c
  <2>. QED  BY <1>1, <2>3, <2>4, <2>5 DEF ParseInv
<1>. QED  BY <1>2, <1>3

LEMMA RunsPastKeeps == ASSUME ParseInv, RunsPast PROVE ParseInv'
BY RefusedKeeps DEF RunsPast, ParseInv

(* A call returns: the one under it goes on, with its dentry complete.     *)
LEMMA ListEndsKeeps == ASSUME ParseInv, ListEnds PROVE ParseInv'
<1>1. Calls(stack) /\ stack # <<>> /\ Fits(Top.at, 8)  BY DEF ParseInv, ListEnds
<1>2. Top.at \in Nat /\ Len(stack) \in Nat \ {0}  BY <1>1, TopOfCalls
<1>3. reach' \in Nat /\ reach' <= md.len  BY <1>1, <1>2, FurtherFits DEF ListEnds
<1>. DEFINE s == SortSeq(Top.out, ByName)
            rest == Front(stack)
<1>4. CASE Refused  BY <1>3, <1>4, RefusedKeeps
<1>5. CASE Returned(s)
  <2>. HIDE DEF s
  <2>1. CASE rest = <<>>
    <3>1. CASE Refused  BY <1>3, <3>1, RefusedKeeps
    <3>2. CASE state' = "read" /\ stack' = <<>> /\ UNCHANGED md
      <4>1. Calls(<<>>)
        <5>1. <<>> \in Seq({}) /\ Len(<<>>) = 0  OBVIOUS
        <5>. QED  BY <5>1, ParserAssumption DEF Calls
      <4>. QED  BY <1>3, <3>2, <4>1 DEF ParseInv
    <3>. QED  BY <2>1, <3>1, <3>2, <1>5 DEF Returned
  <2>2. CASE rest # <<>>
    <3>. DEFINE up == rest[Len(rest)]
                d == [up.open[1].d EXCEPT !.children = s]
                c == [up EXCEPT !.out = Append(up.out, d), !.open = <<>>]
    <3>1. Calls(rest)  BY <1>1, FrontIsCalls
    <3>2. IsCall(up) /\ up.depth = Len(rest) - 1
      <4>1. PICK C : rest \in Seq(C)  BY <3>1 DEF Calls
      <4>2. Len(rest) \in Nat \ {0}  BY <2>2, <4>1
      <4>. QED  BY <3>1, <4>2 DEF Calls
    <3>3. IsCall(c) /\ c.depth = Len(rest) - 1  BY <3>2, ClosedIsCall
    <3>4. stack' = [rest EXCEPT ![Len(rest)] = c] /\ md' = md /\ state' = state
      BY <1>5, <2>2 DEF Returned
    <3>. HIDE DEF c, rest
    <3>5. Calls(stack') /\ stack' # <<>>  BY <2>2, <3>1, <3>3, <3>4, TopReplaced
    <3>. QED  BY <1>3, <3>4, <3>5 DEF ParseInv, ListEnds
  <2>. QED  BY <2>1, <2>2
<1>. QED  BY <1>4, <1>5 DEF ListEnds

(* The topmost call has read a dentry or an entry that lies inside.        *)
LEMMA TopReads ==
  ASSUME ParseInv, stack # <<>>, NEW a \in Nat, NEW o, IsOpen(o),
         stack' = WithTop([Top EXCEPT !.at = a, !.open = <<o>>]), state' = "streams",
         md' = md, reach' \in Nat, reach' <= md.len
  PROVE  ParseInv'
<1>. DEFINE c == [Top EXCEPT !.at = a, !.open = <<o>>]
<1>1. Calls(stack) /\ IsCall(Top) /\ Top.depth = Len(stack) - 1
  BY TopOfCalls DEF ParseInv
<1>2. IsCall(c) /\ c.depth = Len(stack) - 1 /\ c.open = <<o>>
  <2>1. IsOpen(o) /\ a \in Nat  OBVIOUS
  <2>. DEFINE t == Top
  <2>2. IsCall(t)  BY <1>1
  <2>. HIDE DEF t
  <2>3. LET e == [t EXCEPT !.at = a, !.open = <<o>>] IN
        IsCall(e) /\ e.depth = t.depth /\ e.open = <<o>>
    BY <2>1, <2>2, OpenedIsCall, Zenon
  <2>4. IsCall(c) /\ c.depth = Top.depth /\ c.open = <<o>>  BY <2>3 DEF t
  <2>. QED  BY <1>1, <2>4
<1>3. stack' = [stack EXCEPT ![Len(stack)] = c]  BY DEF WithTop
<1>. HIDE DEF c
<1>4. Calls(stack') /\ stack' # <<>> /\ Len(stack') = Len(stack) /\ stack'[Len(stack)] = c
  BY <1>1, <1>2, <1>3, TopReplaced
<1>5. Top' = c  BY <1>4 DEF Top
<1>. QED  BY <1>2, <1>4, <1>5 DEF ParseInv

(* An entry that lies inside ends inside, and where the next one is looked *)
(* for is a number.                                                        *)
LEMMA InsideFits ==
  ASSUME ParseInv, stack # <<>>, NEW c, IsCell(c), Inside(c)
  PROVE  /\ AlignUp8(c.length) \in Nat /\ Top.at + AlignUp8(c.length) \in Nat
         /\ Top.at \in Nat /\ Top.at + c.length <= md.len
<1>1. Top.at \in Nat  BY TopOfCalls DEF ParseInv
<1>2. AlignUp8(c.length) \in Nat /\ AlignUp8(c.length) >= c.length /\ c.length \in Nat
  BY AlignUpBounds, ParserAssumption DEF IsCell, Word
<1>. QED  BY <1>1, <1>2 DEF Inside, Fits, ParseInv, IsResource

LEMMA ReadDentryKeeps == ASSUME ParseInv, ReadDentry PROVE ParseInv'
<1>. DEFINE c == md.cells[Top.at]
            fine == Room /\ NameFits(c) /\ NameIsUsable(c)
            read == fixedSize + IF NameFits(c) THEN c.nameLen ELSE 0
            o == [d |-> DentryOf(c), sub |-> IF c.link THEN 0 ELSE c.sub,
                  i |-> 0, streams |-> c.streams]
<1>1. stack # <<>> /\ Fits(Top.at, 8) /\ IsDentry(Top.at)  BY DEF ParseInv, ReadDentry
<1>2. IsCell(c) /\ c.kind = "dentry"  BY <1>1 DEF ParseInv, IsResource, IsDentry
<1>3. Top.at \in Nat  BY <1>1, TopOfCalls DEF ParseInv
<1>4. IsOpen(o)
  <2>1. c.sub \in Nat  BY <1>2, ParserAssumption DEF IsCell, Word
  <2>2. (IF c.link THEN 0 ELSE c.sub) \in Nat  BY <2>1
  <2>. QED  BY <2>2 DEF IsOpen
<1>5. reach' = Further(Top.at + IF ~Inside(c) THEN 8 ELSE read)  BY DEF ReadDentry
<1>6. CASE ~Inside(c)
  <2>1. reach' \in Nat /\ reach' <= md.len  BY <1>1, <1>3, <1>5, <1>6, FurtherFits
  <2>2. Refused  BY <1>6 DEF ReadDentry
  <2>. QED  BY <2>1, <2>2, RefusedKeeps
<1>7. CASE Inside(c)
  <2>1. read \in Nat /\ read <= c.length /\ c.length \in Nat
    BY <1>2, <1>7, ParserAssumption DEF Inside, NameFits, IsCell, Word, fixedSize
  <2>2. AlignUp8(c.length) \in Nat /\ Top.at + AlignUp8(c.length) \in Nat
        /\ Top.at + c.length <= md.len
    BY <1>1, <1>2, <1>7, InsideFits
  <2>. HIDE DEF c, read
  <2>3. Fits(Top.at, read)
    BY <1>3, <2>1, <2>2 DEF Fits, ParseInv, IsResource
  <2>4. reach' \in Nat /\ reach' <= md.len  BY <1>3, <1>5, <1>7, <2>1, <2>3, FurtherFits
  <2>5. CASE ~fine
    <3>1. Refused  BY <2>5 DEF ReadDentry, c
    <3>. QED  BY <2>4, <3>1, RefusedKeeps
  <2>6. CASE fine
    <3>1. /\ stack' = WithTop([Top EXCEPT !.at = Top.at + AlignUp8(c.length), !.open = <<o>>])
          /\ state' = "streams" /\ md' = md
      BY <1>7, <2>6 DEF ReadDentry, c
    <3>. HIDE DEF o
    <3>. QED  BY <1>1, <1>4, <2>2, <2>4, <3>1, TopReads
  <2>. QED  BY <2>5, <2>6
<1>. QED  BY <1>6, <1>7

(* The dentry that is open.                                                *)
LEMMA OpenIsOpen ==
  ASSUME ParseInv, state = "streams"
  PROVE  stack # <<>> /\ IsOpen(Open) /\ Top.open = <<Open>>
<1>1. stack # <<>> /\ Top.open # <<>> /\ IsCall(Top)  BY TopOfCalls DEF ParseInv
<1>2. PICK o : Top.open = <<o>> /\ IsOpen(o)  BY <1>1 DEF IsCall
<1>3. Open = o  BY <1>2 DEF Open
<1>. QED  BY <1>1, <1>2, <1>3

LEMMA ReadStreamKeeps == ASSUME ParseInv, ReadStream PROVE ParseInv'
<1>. DEFINE c == md.cells[Top.at]
            o == [Open EXCEPT !.i = @ + 1, !.d.hash = HashAfter(c)]
<1>1. state = "streams" /\ Fits(Top.at, streamEntryHeader) /\ IsStream(Top.at)
  BY DEF ReadStream
<1>2. stack # <<>> /\ IsOpen(Open)  BY <1>1, OpenIsOpen
<1>3. IsCell(c)  BY <1>1 DEF ParseInv, IsResource, IsStream
<1>4. Top.at \in Nat  BY <1>2, TopOfCalls DEF ParseInv
<1>5. reach' \in Nat /\ reach' <= md.len
  BY <1>1, <1>4, FurtherFits DEF ReadStream, streamEntryHeader
<1>6. CASE ~Inside(c)
  <2>1. Refused  BY <1>6 DEF ReadStream
  <2>. QED  BY <1>5, <2>1, RefusedKeeps
<1>7. CASE Inside(c)
  <2>1. Top.at + AlignUp8(c.length) \in Nat  BY <1>2, <1>3, <1>7, InsideFits
  <2>2. IsOpen(o)
    <3>. DEFINE h == [Open.d EXCEPT !.hash = HashAfter(c)]
                k == Open.i + 1
                D == {Open.d, h}
                K == {Open.i, k}
    <3>1. Open \in [d: D, sub: Nat, i: K, streams: {Open.streams}]  BY <1>2 DEF IsOpen
    <3>2. o = [Open EXCEPT !.i = k, !.d = h]  OBVIOUS
    <3>3. h \in D /\ k \in K  OBVIOUS
    <3>. HIDE DEF h, k, D, K
    <3>. DEFINE e == [Open EXCEPT !.i = k, !.d = h]
    <3>4. e \in [d: D, sub: Nat, i: K, streams: {Open.streams}]  BY <3>1, <3>3
    <3>. HIDE DEF e
    <3>5. IsOpen(e)  BY <3>4 DEF IsOpen
    <3>. QED  BY <3>2, <3>5 DEF e
  <2>3. /\ stack' = WithTop([Top EXCEPT !.at = Top.at + AlignUp8(c.length), !.open = <<o>>])
        /\ state' = state /\ md' = md
    BY <1>7 DEF ReadStream, StreamStep
  <2>. HIDE DEF o, c
  <2>. QED  BY <1>1, <1>2, <1>5, <2>1, <2>2, <2>3, TopReads
<1>. QED  BY <1>6, <1>7

(* The stack grows, but not beyond the limit.                              *)
LEMMA AttachKeeps == ASSUME ParseInv, Attach PROVE ParseInv'
<1>. DEFINE d == Resolved(Open.d)
<1>1. state = "streams" /\ reach' = reach  BY DEF Attach
<1>2. /\ stack # <<>> /\ IsOpen(Open) /\ Top.open = <<Open>>
      /\ Calls(stack) /\ IsCall(Top) /\ Top.depth = Len(stack) - 1 /\ Len(stack) \in Nat \ {0}
  BY <1>1, OpenIsOpen, TopOfCalls DEF ParseInv
<1>3. CASE Refused  BY <1>1, <1>3, RefusedKeeps DEF ParseInv
<1>4. CASE /\ ~TooDeep(Top.depth + 1)
           /\ stack' = Append(WithTop([Top EXCEPT !.open[1].d = d]),
                              Call(Open.sub, Top.depth + 1))
           /\ state' = "lists" /\ md' = md
  <2>. DEFINE c == [Top EXCEPT !.open[1].d = d]
              e == Call(Open.sub, Top.depth + 1)
  <2>1. IsCall(c) /\ c.depth = Len(stack) - 1
    <3>. DEFINE o == [Open EXCEPT !.d = d]
                V == {Top.out, Top.open, <<o>>}
    <3>1. IsOpen(o)
      <4>. DEFINE D == {Open.d, d}
      <4>1. Open \in [d: D, sub: Nat, i: {Open.i}, streams: {Open.streams}]
        BY <1>2 DEF IsOpen
      <4>2. d \in D  OBVIOUS
      <4>. HIDE DEF d, D
      <4>3. o \in [d: D, sub: Nat, i: {Open.i}, streams: {Open.streams}]  BY <4>1, <4>2
      <4>. HIDE DEF o
      <4>. QED  BY <4>3 DEF IsOpen
    <3>2. [Top.open EXCEPT ![1].d = d] = <<o>>  BY <1>2
    <3>3. c = [Top EXCEPT !.open = <<o>>]  BY <3>2
    <3>. HIDE DEF o
    <3>4. Top \in [at: Nat, depth: Nat, out: V, open: V] /\ <<o>> \in V  BY <1>2 DEF IsCall
    <3>. HIDE DEF V
    <3>. DEFINE f == [Top EXCEPT !.open = <<o>>]
    <3>5. f \in [at: Nat, depth: Nat, out: V, open: V] /\ f.depth = Top.depth
          /\ f.open = <<o>>
      BY <3>4
    <3>. HIDE DEF f
    <3>6. IsCall(f) /\ f.depth = Top.depth  BY <3>1, <3>5 DEF IsCall
    <3>. QED  BY <1>2, <3>3, <3>6 DEF f
  <2>. HIDE DEF c
  <2>2. IsCall(e) /\ e.depth = Len(stack)
    BY <1>2 DEF Call, IsCall, IsOpen
  <2>3. Len(stack) <= MaxTreeDepth  BY <1>2, <1>4, ParserAssumption DEF TooDeep
  <2>. HIDE DEF e
  <2>. DEFINE t == [stack EXCEPT ![Len(stack)] = c]
  <2>4. Calls(t) /\ Len(t) = Len(stack)  BY <1>2, <2>1, TopReplaced
  <2>5. stack' = Append(t, e)  BY <1>4 DEF WithTop, c, e
  <2>. HIDE DEF t
  <2>6. Calls(stack') /\ stack' # <<>>  BY <2>2, <2>3, <2>4, <2>5, PushIsCalls
  <2>. QED  BY <1>1, <1>4, <2>6 DEF ParseInv
<1>5. CASE /\ stack' = WithTop([Top EXCEPT !.out = Append(@, d), !.open = <<>>])
           /\ state' = "lists" /\ md' = md
  <2>. DEFINE c == [Top EXCEPT !.out = Append(Top.out, d), !.open = <<>>]
  <2>1. IsCall(c) /\ c.depth = Len(stack) - 1  BY <1>2, ClosedIsCall
  <2>2. stack' = [stack EXCEPT ![Len(stack)] = c]  BY <1>5 DEF WithTop
  <2>. HIDE DEF c
  <2>3. Calls(stack') /\ stack' # <<>>  BY <1>2, <2>1, <2>2, TopReplaced
  <2>. QED  BY <1>1, <1>5, <2>3 DEF ParseInv
<1>. QED  BY <1>3, <1>4, <1>5 DEF Attach

LEMMA GoAstrayKeeps == ASSUME ParseInv, GoAstray PROVE ParseInv'
<1>1. stack # <<>> /\ Fits(Top.at, 8)
  BY TopOfCalls DEF ParseInv, GoAstray, Fits, streamEntryHeader, IsResource
<1>2. Top.at \in Nat  BY <1>1, TopOfCalls DEF ParseInv
<1>3. reach' \in Nat /\ reach' <= md.len  BY <1>1, <1>2, FurtherFits DEF GoAstray
<1>. QED  BY <1>3 DEF ParseInv, GoAstray

LEMMA ParseInvariance == ParseSpec => []ParseInv
<1>1. ParseInv /\ UNCHANGED pvars => ParseInv'
  BY DEF ParseInv, pvars, Top
<1>2. ParseInv /\ NoStream => ParseInv'
  BY RefusedKeeps DEF NoStream, ParseInv
<1>3. ParseInv /\ [Parsing]_pvars => ParseInv'
  BY <1>1, <1>2, BeginKeeps, RunsPastKeeps, ListEndsKeeps, ReadDentryKeeps,
     ReadStreamKeeps, AttachKeeps, GoAstrayKeeps
  DEF Parsing
<1>. QED  BY ParseInvInit, <1>3, PTL DEF ParseSpec

-----------------------------------------------------------------------------
(* Whatever bytes parseMetadata is given, it returns a tree or an error    *)
(* and does not panic: neither on a slice nor on the end of the stack.     *)
THEOREM ParserDoesNotPanic == ParseSpec => []NoPanic
<1>1. ParseInv => NoPanic  BY DEF ParseInv, NoPanic, Calls
<1>. QED  BY <1>1, ParseInvariance, PTL
=============================================================================
