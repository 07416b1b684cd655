--------------------------- MODULE LzxMatchFinder ---------------------------
(***************************************************************************)
(* Which matches the encoder takes: findMatches, insert, longestMatch and  *)
(* matchLen (lzx/encode.go).  Positions that begin alike are chained from  *)
(* a bucket of head through prev; of these only head is cleared before a   *)
(* chunk.                                                                  *)
(***************************************************************************)
EXTENDS LzxTokens, FiniteSets

CONSTANTS
  Hash(_),    \* hash3, of the first bytes of a match
  Buckets,    \* what it makes of them
  maxChain,   \* how many of a chain are looked at
  goodMatch   \* the length that ends the search

VARIABLES head, prev   \* positions are stored biased by one, 0 is the end

ASSUME FinderAssumption ==
  /\ maxChain \in Nat /\ goodMatch \in Nat
  /\ \A bytes \in [1 .. minLength -> 0 .. Literals - 1] : Hash(bytes) \in Buckets

Positions == 0 .. WindowSize - 1
Cleared == [b \in Buckets |-> 0]

-----------------------------------------------------------------------------
HasBytes(p) == p + minLength <= Len(data)
Bucket(p) == Hash(SubSeq(data, p + 1, p + minLength))

Insert(chains, p) ==
  IF HasBytes(p)
  THEN [head |-> [chains.head EXCEPT ![Bucket(p)] = p + 1],
        prev |-> [chains.prev EXCEPT ![p] = chains.head[Bucket(p)]]]
  ELSE chains

(* Bug: only the first position of a match is recorded.                    *)
InsertFirst(n) ==
  LET chains == Insert([head |-> head, prev |-> prev], pos) IN
  head' = chains.head /\ prev' = chains.prev

(* The n positions from pos on.                                            *)
Inserted(n) ==
  LET chains[m \in 0 .. n] ==
        IF m = 0 THEN [head |-> head, prev |-> prev] ELSE Insert(chains[m - 1], pos + m - 1)
  IN chains[n]

InsertNext(n) == LET chains == Inserted(n) IN head' = chains.head /\ prev' = chains.prev

(* Bug: what is in one bucket is taken to begin alike.                     *)
MatchLenTrusting(a, b, limit) ==
  Greatest({n \in 0 .. limit : \A m \in minLength + 1 .. n : data[a + m] = data[b + m]})

MatchLen(a, b, limit) ==
  Greatest({n \in 0 .. limit : \A m \in 1 .. n : data[a + m] = data[b + m]})

(* Bug: what is found later is taken if it is as long.                     *)
LongerOrAlike(best, p, offset, limit) ==
  LET l == MatchLen(p, p - offset, limit) IN
  IF l >= best.length THEN [length |-> l, offset |-> offset] ELSE best

Longer(best, p, offset, limit) ==
  LET l == MatchLen(p, p - offset, limit) IN
  IF l > best.length THEN [length |-> l, offset |-> offset] ELSE best

NoMatch == [length |-> 0, offset |-> 0]

LimitAt(p) == LET left == Len(data) - p IN IF left < maxMatch THEN left ELSE maxMatch

AfterRecent(best, p, r) == IF r \in 1 .. p THEN Longer(best, p, r, LimitAt(p)) ELSE best

OfRecent(p) ==
  AfterRecent(AfterRecent(AfterRecent(NoMatch, p, recent[1]), p, recent[2]), p, recent[3])

(* A step along the chain of p: cur is biased by one, and 0 when the       *)
(* search has ended.                                                       *)
Along(s, p) ==
  LET offset == p + 1 - s.cur
      best == Longer(s.best, p, offset, LimitAt(p)) IN
  IF s.cur = 0 \/ offset \notin 1 .. WindowSize THEN [s EXCEPT !.cur = 0]
  ELSE [best |-> best,
        cur |-> IF best # s.best /\ (best.length >= goodMatch \/ best.length = LimitAt(p))
                THEN 0 ELSE prev[s.cur - 1]]

Searched(p) ==
  LET search[n \in 0 .. maxChain] ==
        IF n = 0 THEN [best |-> OfRecent(p), cur |-> head[Bucket(p)]] ELSE Along(search[n - 1], p)
  IN search[maxChain]

LongestMatch(p) == IF HasBytes(p) THEN Searched(p).best ELSE NoMatch

(* Lazy matching: if the next position starts a longer match, this byte is *)
(* a literal.                                                              *)
Found ==
  LET here == LongestMatch(pos) IN
  IF here.length >= minLength /\ pos + 1 < Len(data) /\ LongestMatch(pos + 1).length > here.length
  THEN NoMatch ELSE here

-----------------------------------------------------------------------------
Find ==
  /\ Encodes("own")
  /\ LET m == Found IN
     \/ m.length < minLength /\ EmitLiteral /\ InsertNext(1)
     \/ m.length >= minLength /\ EmitMatch(m.length, m.offset) /\ InsertNext(m.length)

Follow == Decode /\ UNCHANGED <<head, prev>>

-----------------------------------------------------------------------------
(* Properties.                                                             *)

Alike(p) == {q \in 0 .. p - 1 : Bucket(q) = Bucket(p)}

(* Unless the bounds of the search cut it short, no match is longer than   *)
(* the one that is found, and one at a recent offset is taken if it is as  *)
(* long: it costs three bits.                                              *)
FindsLongest ==
  (by = "own" /\ emitted = <<>> /\ pos < Len(data) /\ HasBytes(pos)) =>
    LET m == LongestMatch(pos)
        length(offset) == MatchLen(pos, pos - offset, LimitAt(pos)) IN
    (Cardinality(Alike(pos)) <= maxChain /\ m.length < goodMatch) =>
      \A offset \in 1 .. pos :
        /\ length(offset) >= minLength => length(offset) <= m.length
        /\ offset \in {recent[s] : s \in 1 .. 3} /\ length(offset) = m.length /\ m.length > 0
             => m.offset \in {recent[s] : s \in 1 .. 3}
=============================================================================
