---------------------------- MODULE LzxBitsProofs ----------------------------
(***************************************************************************)
(* The codes, the trees and the blocks of a chunk, for all tallies, every  *)
(* stream that another encoder writes and any damage: a code is a cheapest *)
(* one before it is clamped, is complete after that, and leads back to its *)
(* symbols; what is written is read, bit by bit and length by length, and  *)
(* whatever is read stays within its buffers.                              *)
(*                                                                         *)
(* Codes rest on one number: how much of all words of m bits they take     *)
(* (Kraft).  The encoder's first code of a length and the decoder's count  *)
(* of what is left are this number too.                                    *)
(*                                                                         *)
(* A reader takes a word when it has too few bits, so that it stays in the *)
(* stream rests on where the stream ends: behind the last block, at a word *)
(* boundary, from which only the padding of stored bytes may be missing.   *)
(***************************************************************************)
EXTENDS LzxBits, SequenceTheorems, FiniteSetTheorems, WellFoundedInduction, TLAPS

(* A set of numbers has a least one.                                       *)
LEMMA LeastOf ==
  ASSUME NEW T, T \subseteq Nat, T # {}
  PROVE  \E x \in T : \A y \in T : x <= y
<1>. DEFINE R == OpToRel(<, Nat)
<1>1. \A x, y \in Nat : y < x => <<y, x>> \in R  BY DEF OpToRel
<1>2. IsWellFoundedOn(R, Nat)  BY NatLessThanWellFounded
<1>. HIDE DEF R
<1>3. PICK x \in T : \A y \in T : ~ (<<y, x>> \in R)  BY <1>2, WFMin
<1>4. \A y \in T : ~ (y < x)  BY <1>1, <1>3, Zenon
<1>5. T \subseteq Nat /\ x \in Nat  OBVIOUS
<1>. QED  BY <1>4, <1>5

(* What holds at first, and of each number if of the one before, holds of  *)
(* all of them.                                                            *)
LEMMA StepByStep ==
  ASSUME NEW m \in Nat, NEW S, 0 \in S,
         \A q \in 1 .. m : q - 1 \in S => q \in S
  PROVE  0 .. m \subseteq S
<1>. DEFINE T == {q \in 0 .. m : q \notin S}
<1>1. SUFFICES ASSUME T # {} PROVE FALSE  OBVIOUS
<1>2. T \subseteq Nat  OBVIOUS
<1>3. PICK x \in T : \A y \in T : x <= y  BY <1>1, <1>2, LeastOf
<1>4. x \in 1 .. m /\ x - 1 \in 0 .. m /\ x - 1 \notin T  BY <1>3
<1>. QED  BY <1>4

(* Powers of two: the subsets of a set are pairs of subsets of two parts.  *)
LEMMA PowerIs ==
  ASSUME NEW a \in Nat
  PROVE  2 ^ a \in Nat \ {0}
<1>1. IsFiniteSet(1 .. a) /\ Cardinality(1 .. a) = a  BY FS_Interval
<1>2. IsFiniteSet(SUBSET (1 .. a)) /\ Cardinality(SUBSET (1 .. a)) = 2 ^ a  BY <1>1, FS_SUBSET
<1>3. Cardinality(SUBSET (1 .. a)) \in Nat  BY <1>2, FS_CardinalityType
<1>4. SUBSET (1 .. a) # {}  OBVIOUS
<1>5. Cardinality(SUBSET (1 .. a)) # 0  BY <1>2, <1>4, FS_EmptySet
<1>. QED  BY <1>2, <1>3, <1>5

LEMMA PowerOfZero == 2 ^ 0 = 1
<1>1. IsFiniteSet({}) /\ Cardinality({}) = 0  BY FS_EmptySet
<1>2. Cardinality(SUBSET {}) = 2 ^ 0  BY <1>1, FS_SUBSET
<1>3. SUBSET {} = {{}}  OBVIOUS
<1>4. Cardinality({{}}) = 1  BY FS_Singleton
<1>. QED  BY <1>2, <1>3, <1>4

(* A subset of a + b things is one of the a and one of the b.              *)
LEMMA PowerOfSum ==
  ASSUME NEW a \in Nat, NEW b \in Nat
  PROVE  2 ^ (a + b) = 2 ^ a * 2 ^ b
<1>. DEFINE A == 1 .. a
            B == a + 1 .. a + b
            C == 1 .. a + b
            Pieces == (SUBSET A) \X (SUBSET B)
            f == [p \in Pieces |-> p[1] \cup p[2]]
<1>1. IsFiniteSet(A) /\ Cardinality(A) = a  BY FS_Interval
<1>2. IsFiniteSet(B) /\ Cardinality(B) = b  BY FS_Interval
<1>3. IsFiniteSet(C) /\ Cardinality(C) = a + b
  <2>1. 1 \in Int /\ a + b \in Int /\ (a + b) - 1 + 1 = a + b /\ (1 > a + b => a + b = 0)
    OBVIOUS
  <2>2. IsFiniteSet(1 .. a + b)
        /\ Cardinality(1 .. a + b) = IF 1 > a + b THEN 0 ELSE (a + b) - 1 + 1
    BY <2>1, FS_Interval
  <2>. QED  BY <2>1, <2>2
<1>4. C = A \cup B /\ A \cap B = {}  OBVIOUS
<1>. HIDE DEF A, B, C
<1>5. IsFiniteSet(SUBSET A) /\ Cardinality(SUBSET A) = 2 ^ a  BY <1>1, FS_SUBSET
<1>6. IsFiniteSet(SUBSET B) /\ Cardinality(SUBSET B) = 2 ^ b  BY <1>2, FS_SUBSET
<1>7. IsFiniteSet(SUBSET C) /\ Cardinality(SUBSET C) = 2 ^ (a + b)  BY <1>3, FS_SUBSET
<1>8. IsFiniteSet(Pieces) /\ Cardinality(Pieces) = 2 ^ a * 2 ^ b
  <2>1. IsFiniteSet((SUBSET A) \X (SUBSET B))
        /\ Cardinality((SUBSET A) \X (SUBSET B)) = Cardinality(SUBSET A) * Cardinality(SUBSET B)
    BY <1>5, <1>6, FS_Product
  <2>. QED  BY <1>5, <1>6, <2>1
<1>9. f \in [Pieces -> SUBSET C]  BY <1>4
<1>10. ASSUME NEW p \in Pieces, NEW q \in Pieces, f[p] = f[q] PROVE p = q
  <2>1. p = <<p[1], p[2]>> /\ q = <<q[1], q[2]>>  OBVIOUS
  <2>2. p[1] \subseteq A /\ p[2] \subseteq B /\ q[1] \subseteq A /\ q[2] \subseteq B  OBVIOUS
  <2>3. p[1] \cup p[2] = q[1] \cup q[2]  BY <1>10
  <2>4. p[1] = q[1]  BY <2>2, <2>3, <1>4
  <2>5. p[2] = q[2]  BY <2>2, <2>3, <1>4
  <2>. QED  BY <2>1, <2>4, <2>5
<1>11. ASSUME NEW s \in SUBSET C PROVE \E p \in Pieces : f[p] = s
  <2>1. <<s \cap A, s \cap B>> \in Pieces  OBVIOUS
  <2>2. (s \cap A) \cup (s \cap B) = s  BY <1>4
  <2>3. f[<<s \cap A, s \cap B>>] = (s \cap A) \cup (s \cap B)  BY <2>1
  <2>. QED  BY <2>1, <2>2, <2>3
<1>. HIDE DEF f, Pieces
<1>12. f \in Bijection(Pieces, SUBSET C)
  BY <1>9, <1>10, <1>11 DEF Bijection, Injection, Surjection, IsInjective
<1>13. ExistsBijection(Pieces, SUBSET C)  BY <1>12 DEF ExistsBijection
<1>14. Cardinality(SUBSET C) = Cardinality(Pieces)  BY <1>8, <1>13, FS_Bijection
<1>. QED  BY <1>7, <1>8, <1>14

(* A loop has a run.                                                       *)
IsLoop(D, m, first, F) == m \in Nat /\ first \in D /\ F \in [1 .. m -> [D -> D]]

IsRun(f, D, m, first, F) ==
  /\ f \in [0 .. m -> D]
  /\ f[0] = first /\ \A q \in 1 .. m : f[q] = F[q][f[q - 1]]

LEMMA LoopRuns ==
  ASSUME NEW D, NEW m, NEW first, NEW F, IsLoop(D, m, first, F)
  PROVE  \E f : IsRun(f, D, m, first, F)
<1>0. m \in Nat /\ first \in D /\ F \in [1 .. m -> [D -> D]]  BY DEF IsLoop
<1>. DEFINE Runs(c, f) == f[0] = first /\ \A q \in 1 .. c : f[q] = F[q][f[q - 1]]
            S == {c \in Nat : c <= m => \E f \in [0 .. c -> D] : Runs(c, f)}
<1>1. 0 \in S
  <2>0. first \in D  BY <1>0
  <2>1. [c \in 0 .. 0 |-> first] \in [0 .. 0 -> D]  BY <2>0
  <2>2. Runs(0, [c \in 0 .. 0 |-> first])  OBVIOUS
  <2>. QED  BY <2>1, <2>2
<1>2. ASSUME NEW c \in 1 .. m, c - 1 \in S PROVE c \in S
  <2>1. PICK f \in [0 .. c - 1 -> D] : Runs(c - 1, f)  BY <1>0, <1>2
  <2>. DEFINE g == [q \in 0 .. c |-> IF q = c THEN F[c][f[c - 1]] ELSE f[q]]
  <2>2. f[c - 1] \in D /\ F[c] \in [D -> D]  BY <1>0
  <2>3. F[c][f[c - 1]] \in D  BY <2>2
  <2>4. \A q \in 0 .. c : q # c => q \in 0 .. c - 1  BY <1>0
  <2>5. g \in [0 .. c -> D]  BY <2>3, <2>4
  <2>6. g[0] = first  BY <2>1
  <2>7. \A q \in 1 .. c : g[q] = F[q][g[q - 1]]
    <3>. TAKE q \in 1 .. c
    <3>1. q \in 0 .. c /\ q - 1 \in 0 .. c /\ q - 1 # c  BY <1>0
    <3>2. g[q - 1] = f[q - 1]  BY <3>1
    <3>3. CASE q = c  BY <3>2, <3>3
    <3>4. CASE q # c
      <4>1. q \in 1 .. c - 1  BY <1>0, <3>4
      <4>2. g[q] = f[q]  BY <3>1, <3>4
      <4>. QED  BY <2>1, <3>2, <4>1, <4>2
    <3>. QED  BY <3>3, <3>4
  <2>. HIDE DEF g
  <2>8. Runs(c, g)  BY <2>6, <2>7
  <2>9. c \in Nat  BY <1>0
  <2>. QED  BY <2>5, <2>8, <2>9
<1>. HIDE DEF S
<1>3. 0 .. m \subseteq S  BY <1>0, <1>1, <1>2, StepByStep
<1>4. m \in S  BY <1>0, <1>3
<1>. QED  BY <1>0, <1>4 DEF S, IsRun

-----------------------------------------------------------------------------
(* Sums.                                                                   *)

Numbers(m) == [0 .. m - 1 -> Int]

LEMMA SumIs ==
  ASSUME NEW m \in Nat, NEW f \in Numbers(m), NEW g \in [0 .. m -> Int],
         g[0] = 0, \A q \in 1 .. m : g[q] = g[q - 1] + f[q - 1]
  PROVE  Huffman!Sum(f, m) = g[m]
<1>. DEFINE w == CHOOSE w : w = [n1 \in 0 .. m |-> IF n1 = 0 THEN 0 ELSE w[n1 - 1] + f[n1 - 1]]
<1>1. g = [n1 \in 0 .. m |-> IF n1 = 0 THEN 0 ELSE g[n1 - 1] + f[n1 - 1]]
  <2>1. \A n1 \in 0 .. m : g[n1] = IF n1 = 0 THEN 0 ELSE g[n1 - 1] + f[n1 - 1]  OBVIOUS
  <2>2. g = [n1 \in 0 .. m |-> g[n1]]  OBVIOUS
  <2>. QED  BY <2>1, <2>2
<1>2. w = [n1 \in 0 .. m |-> IF n1 = 0 THEN 0 ELSE w[n1 - 1] + f[n1 - 1]]  BY <1>1
<1>3. Huffman!Sum(f, m) = w[m]  BY DEF Huffman!Sum
<1>. HIDE DEF w
<1>. DEFINE S == {q \in Nat : q <= m => w[q] = g[q]}
<1>4. 0 \in S  BY <1>2
<1>5. ASSUME NEW q \in 1 .. m, q - 1 \in S PROVE q \in S
  <2>1. w[q - 1] = g[q - 1] /\ q \in Nat  BY <1>5
  <2>2. w[q] = w[q - 1] + f[q - 1]  BY <1>2
  <2>. QED  BY <2>1, <2>2
<1>. HIDE DEF S
<1>6. 0 .. m \subseteq S  BY <1>4, <1>5, StepByStep
<1>7. m \in S  BY <1>6
<1>. QED  BY <1>3, <1>7 DEF S

LEMMA SumRuns ==
  ASSUME NEW m \in Nat, NEW f \in Numbers(m)
  PROVE  \E g \in [0 .. m -> Int] :
           /\ g[0] = 0 /\ \A q \in 1 .. m : g[q] = g[q - 1] + f[q - 1]
           /\ \A q \in 0 .. m : Huffman!Sum(f, q) = g[q]
<1>. DEFINE F == [q \in 1 .. m |-> [d \in Int |-> d + f[q - 1]]]
<1>0. \A q \in 1 .. m : f[q - 1] \in Int  BY DEF Numbers
<1>1. F \in [1 .. m -> [Int -> Int]]  BY <1>0
<1>2. IsLoop(Int, m, 0, F)  BY <1>1 DEF IsLoop
<1>3. PICK g : IsRun(g, Int, m, 0, F)
  <2>. HIDE DEF F
  <2>. QED  BY <1>2, LoopRuns
<1>4. g \in [0 .. m -> Int] /\ g[0] = 0 /\ \A q \in 1 .. m : g[q] = F[q][g[q - 1]]
  BY <1>3 DEF IsRun
<1>5. \A q \in 1 .. m : g[q] = g[q - 1] + f[q - 1]
  <2>. TAKE q \in 1 .. m
  <2>1. g[q - 1] \in Int  BY <1>4
  <2>. QED  BY <1>4, <2>1
<1>6. ASSUME NEW q \in 0 .. m PROVE Huffman!Sum(f, q) = g[q]
  <2>. DEFINE f1 == [x \in 0 .. q - 1 |-> f[x]]
              g1 == [x \in 0 .. q |-> g[x]]
  <2>0. \A x \in 0 .. q - 1 : x \in 0 .. m - 1  OBVIOUS
  <2>1. f1 \in Numbers(q)  BY <2>0 DEF Numbers
  <2>2. g1 \in [0 .. q -> Int] /\ g1[0] = 0  BY <1>4
  <2>3. \A x \in 1 .. q : g1[x] = g1[x - 1] + f1[x - 1]  BY <1>5
  <2>4. q \in Nat /\ g1[q] = g[q]  OBVIOUS
  <2>5. Huffman!Sum(f1, q) = Huffman!Sum(f, q)
    <3>1. \A n1 \in 0 .. q : n1 # 0 => f1[n1 - 1] = f[n1 - 1]  OBVIOUS
    <3>. HIDE DEF f1
    <3>2. \A w : [n1 \in 0 .. q |-> IF n1 = 0 THEN 0 ELSE w[n1 - 1] + f1[n1 - 1]]
                = [n1 \in 0 .. q |-> IF n1 = 0 THEN 0 ELSE w[n1 - 1] + f[n1 - 1]]
      BY <3>1
    <3>. DEFINE A1(w) == w = [n1 \in 0 .. q |-> IF n1 = 0 THEN 0 ELSE w[n1 - 1] + f1[n1 - 1]]
                A2(w) == w = [n1 \in 0 .. q |-> IF n1 = 0 THEN 0 ELSE w[n1 - 1] + f[n1 - 1]]
    <3>3. \A w : A1(w) <=> A2(w)  BY <3>2
    <3>4. (CHOOSE w : A1(w)) = (CHOOSE w : A2(w))
      <4>. HIDE DEF A1, A2
      <4>. QED  BY <3>3
    <3>. QED  BY <3>4 DEF Huffman!Sum
  <2>. HIDE DEF f1, g1
  <2>6. Huffman!Sum(f1, q) = g1[q]  BY <2>1, <2>2, <2>3, <2>4, SumIs
  <2>. QED  BY <2>4, <2>5, <2>6
<1>. QED  BY <1>4, <1>5, <1>6

LEMMA SumStep ==
  ASSUME NEW m \in Nat, NEW f \in Numbers(m)
  PROVE  /\ Huffman!Sum(f, 0) = 0
         /\ \A q \in 0 .. m : Huffman!Sum(f, q) \in Int
         /\ \A q \in 1 .. m : /\ f[q - 1] \in Int
                            /\ Huffman!Sum(f, q) = Huffman!Sum(f, q - 1) + f[q - 1]
<1>1. PICK g \in [0 .. m -> Int] :
        /\ g[0] = 0 /\ \A q \in 1 .. m : g[q] = g[q - 1] + f[q - 1]
        /\ \A q \in 0 .. m : Huffman!Sum(f, q) = g[q]
  BY SumRuns
<1>2. \A q \in 1 .. m : f[q - 1] \in Int  BY DEF Numbers
<1>3. \A q \in 1 .. m : q - 1 \in 0 .. m /\ q \in 0 .. m  OBVIOUS
<1>. QED  BY <1>1, <1>2, <1>3

(* What is at most as large each is so in sum.                             *)
LEMMA SumAtMost ==
  ASSUME NEW m \in Nat, NEW f \in Numbers(m), NEW g \in Numbers(m),
         \A x \in 0 .. m - 1 : f[x] <= g[x]
  PROVE  Huffman!Sum(f, m) <= Huffman!Sum(g, m)
<1>. DEFINE S == {q \in Nat : q <= m => Huffman!Sum(f, q) <= Huffman!Sum(g, q)}
<1>1. 0 \in S  BY SumStep
<1>2. ASSUME NEW q \in 1 .. m, q - 1 \in S PROVE q \in S
  <2>1. q \in Nat /\ q - 1 \in 0 .. m - 1 /\ q - 1 <= m  OBVIOUS
  <2>2. /\ Huffman!Sum(f, q) \in Int /\ Huffman!Sum(f, q - 1) \in Int /\ f[q - 1] \in Int
        /\ Huffman!Sum(f, q) = Huffman!Sum(f, q - 1) + f[q - 1]
    BY SumStep
  <2>3. /\ Huffman!Sum(g, q) \in Int /\ Huffman!Sum(g, q - 1) \in Int /\ g[q - 1] \in Int
        /\ Huffman!Sum(g, q) = Huffman!Sum(g, q - 1) + g[q - 1]
    BY SumStep
  <2>4. f[q - 1] <= g[q - 1]  BY <2>1
  <2>5. Huffman!Sum(f, q - 1) <= Huffman!Sum(g, q - 1)  BY <1>2, <2>1
  <2>6. Huffman!Sum(f, q) <= Huffman!Sum(g, q)  BY <2>2, <2>3, <2>4, <2>5
  <2>. QED  BY <2>1, <2>6
<1>. HIDE DEF S
<1>3. 0 .. m \subseteq S  BY <1>1, <1>2, StepByStep
<1>4. m \in S  BY <1>3
<1>. QED  BY <1>4 DEF S

LEMMA SumAlike ==
  ASSUME NEW m \in Nat, NEW f \in Numbers(m), NEW g \in Numbers(m),
         \A x \in 0 .. m - 1 : f[x] = g[x]
  PROVE  Huffman!Sum(f, m) = Huffman!Sum(g, m)
<1>1. \A x \in 0 .. m - 1 : f[x] \in Int /\ g[x] \in Int  BY DEF Numbers
<1>2. (\A x \in 0 .. m - 1 : f[x] <= g[x]) /\ \A x \in 0 .. m - 1 : g[x] <= f[x]  BY <1>1
<1>3. Huffman!Sum(f, m) <= Huffman!Sum(g, m) /\ Huffman!Sum(g, m) <= Huffman!Sum(f, m)  BY <1>2, SumAtMost
<1>4. Huffman!Sum(f, m) \in Int /\ Huffman!Sum(g, m) \in Int  BY SumStep
<1>. QED  BY <1>3, <1>4

LEMMA SumOfTwo ==
  ASSUME NEW m \in Nat, NEW f \in Numbers(m), NEW g \in Numbers(m), NEW h \in Numbers(m),
         \A x \in 0 .. m - 1 : h[x] = f[x] + g[x]
  PROVE  Huffman!Sum(h, m) = Huffman!Sum(f, m) + Huffman!Sum(g, m)
<1>. DEFINE S == {q \in Nat : q <= m => Huffman!Sum(h, q) = Huffman!Sum(f, q) + Huffman!Sum(g, q)}
<1>1. 0 \in S  BY SumStep
<1>2. ASSUME NEW q \in 1 .. m, q - 1 \in S PROVE q \in S
  <2>1. q \in Nat /\ q - 1 \in 0 .. m - 1 /\ q - 1 <= m  OBVIOUS
  <2>2. /\ Huffman!Sum(f, q) \in Int /\ Huffman!Sum(f, q - 1) \in Int /\ f[q - 1] \in Int
        /\ Huffman!Sum(f, q) = Huffman!Sum(f, q - 1) + f[q - 1]
    BY SumStep
  <2>3. /\ Huffman!Sum(g, q) \in Int /\ Huffman!Sum(g, q - 1) \in Int /\ g[q - 1] \in Int
        /\ Huffman!Sum(g, q) = Huffman!Sum(g, q - 1) + g[q - 1]
    BY SumStep
  <2>4. /\ Huffman!Sum(h, q) \in Int /\ Huffman!Sum(h, q - 1) \in Int /\ h[q - 1] \in Int
        /\ Huffman!Sum(h, q) = Huffman!Sum(h, q - 1) + h[q - 1]
    BY SumStep
  <2>5. h[q - 1] = f[q - 1] + g[q - 1]  BY <2>1
  <2>6. Huffman!Sum(h, q - 1) = Huffman!Sum(f, q - 1) + Huffman!Sum(g, q - 1)  BY <1>2, <2>1
  <2>7. Huffman!Sum(h, q) = Huffman!Sum(f, q) + Huffman!Sum(g, q)  BY <2>2, <2>3, <2>4, <2>5, <2>6
  <2>. QED  BY <2>1, <2>7
<1>. HIDE DEF S
<1>3. 0 .. m \subseteq S  BY <1>1, <1>2, StepByStep
<1>4. m \in S  BY <1>3
<1>. QED  BY <1>4 DEF S

LEMMA SumTimes ==
  ASSUME NEW m \in Nat, NEW c \in Int, NEW f \in Numbers(m), NEW h \in Numbers(m),
         \A x \in 0 .. m - 1 : h[x] = c * f[x]
  PROVE  Huffman!Sum(h, m) = c * Huffman!Sum(f, m)
<1>. DEFINE S == {q \in Nat : q <= m => Huffman!Sum(h, q) = c * Huffman!Sum(f, q)}
<1>1. 0 \in S  BY SumStep
<1>2. ASSUME NEW q \in 1 .. m, q - 1 \in S PROVE q \in S
  <2>1. q \in Nat /\ q - 1 \in 0 .. m - 1 /\ q - 1 <= m  OBVIOUS
  <2>2. /\ Huffman!Sum(f, q) \in Int /\ Huffman!Sum(f, q - 1) \in Int /\ f[q - 1] \in Int
        /\ Huffman!Sum(f, q) = Huffman!Sum(f, q - 1) + f[q - 1]
    BY SumStep
  <2>3. /\ Huffman!Sum(h, q) \in Int /\ Huffman!Sum(h, q - 1) \in Int /\ h[q - 1] \in Int
        /\ Huffman!Sum(h, q) = Huffman!Sum(h, q - 1) + h[q - 1]
    BY SumStep
  <2>4. h[q - 1] = c * f[q - 1]  BY <2>1
  <2>5. Huffman!Sum(h, q - 1) = c * Huffman!Sum(f, q - 1)  BY <1>2, <2>1
  <2>6. c * (Huffman!Sum(f, q - 1) + f[q - 1]) = c * Huffman!Sum(f, q - 1) + c * f[q - 1]  BY <2>2
  <2>7. Huffman!Sum(h, q) = c * Huffman!Sum(f, q)  BY <2>2, <2>3, <2>4, <2>5, <2>6
  <2>. QED  BY <2>1, <2>7
<1>. HIDE DEF S
<1>3. 0 .. m \subseteq S  BY <1>1, <1>2, StepByStep
<1>4. m \in S  BY <1>3
<1>. QED  BY <1>4 DEF S

LEMMA SumOfNothing ==
  ASSUME NEW m \in Nat, NEW f \in Numbers(m), \A x \in 0 .. m - 1 : f[x] = 0
  PROVE  Huffman!Sum(f, m) = 0
<1>. DEFINE S == {q \in Nat : q <= m => Huffman!Sum(f, q) = 0}
<1>1. 0 \in S  BY SumStep
<1>2. ASSUME NEW q \in 1 .. m, q - 1 \in S PROVE q \in S
  <2>1. q \in Nat /\ q - 1 \in 0 .. m - 1 /\ q - 1 <= m  OBVIOUS
  <2>2. /\ Huffman!Sum(f, q) \in Int /\ Huffman!Sum(f, q - 1) \in Int /\ f[q - 1] \in Int
        /\ Huffman!Sum(f, q) = Huffman!Sum(f, q - 1) + f[q - 1]
    BY SumStep
  <2>4. Huffman!Sum(f, q) = 0  BY <1>2, <2>1, <2>2
  <2>. QED  BY <2>1, <2>4
<1>. HIDE DEF S
<1>3. 0 .. m \subseteq S  BY <1>1, <1>2, StepByStep
<1>4. m \in S  BY <1>3
<1>. QED  BY <1>4 DEF S

(* One that counts.                                                        *)
LEMMA SumOfOne ==
  ASSUME NEW m \in Nat, NEW a \in 0 .. m - 1, NEW c \in Int, NEW f \in Numbers(m),
         \A x \in 0 .. m - 1 : f[x] = IF x = a THEN c ELSE 0
  PROVE  Huffman!Sum(f, m) = c
<1>. DEFINE S == {q \in Nat : q <= m => Huffman!Sum(f, q) = IF q <= a THEN 0 ELSE c}
<1>1. 0 \in S  BY SumStep
<1>2. ASSUME NEW q \in 1 .. m, q - 1 \in S PROVE q \in S
  <2>1. q \in Nat /\ q - 1 \in 0 .. m - 1 /\ q - 1 <= m  OBVIOUS
  <2>2. /\ Huffman!Sum(f, q) \in Int /\ Huffman!Sum(f, q - 1) \in Int /\ f[q - 1] \in Int
        /\ Huffman!Sum(f, q) = Huffman!Sum(f, q - 1) + f[q - 1]
    BY SumStep
  <2>3. f[q - 1] = IF q - 1 = a THEN c ELSE 0  BY <2>1
  <2>4. Huffman!Sum(f, q - 1) = IF q - 1 <= a THEN 0 ELSE c  BY <1>2, <2>1
  <2>5. Huffman!Sum(f, q) = IF q <= a THEN 0 ELSE c  BY <2>2, <2>3, <2>4
  <2>. QED  BY <2>1, <2>5
<1>. HIDE DEF S
<1>3. 0 .. m \subseteq S  BY <1>1, <1>2, StepByStep
<1>4. m \in S  BY <1>3
<1>. QED  BY <1>4 DEF S

LEMMA SumIsNat ==
  ASSUME NEW m \in Nat, NEW f \in Numbers(m), \A x \in 0 .. m - 1 : f[x] >= 0
  PROVE  Huffman!Sum(f, m) \in Nat
<1>. DEFINE g == [x \in 0 .. m - 1 |-> 0]
<1>1. g \in Numbers(m) /\ \A x \in 0 .. m - 1 : g[x] = 0  BY DEF Numbers
<1>. HIDE DEF g
<1>2. Huffman!Sum(g, m) = 0  BY <1>1, SumOfNothing
<1>3. \A x \in 0 .. m - 1 : g[x] <= f[x]  BY <1>1 DEF Numbers
<1>4. Huffman!Sum(g, m) <= Huffman!Sum(f, m)  BY <1>1, <1>3, SumAtMost
<1>5. Huffman!Sum(f, m) \in Int  BY SumStep
<1>. QED  BY <1>2, <1>4, <1>5

(* How many there are is a sum of ones.                                    *)
LEMMA SumCounts ==
  ASSUME NEW m \in Nat, NEW T, T \subseteq 0 .. m - 1, NEW f \in Numbers(m),
         \A x \in 0 .. m - 1 : f[x] = IF x \in T THEN 1 ELSE 0
  PROVE  Huffman!Sum(f, m) = Cardinality(T)
<1>0. T \cap 0 .. -1 = {} /\ IsFiniteSet({}) /\ Cardinality({}) = 0  BY FS_EmptySet
<1>. DEFINE S == {q \in Nat : q <= m => /\ IsFiniteSet(T \cap 0 .. q - 1)
                                /\ Huffman!Sum(f, q) = Cardinality(T \cap 0 .. q - 1)}
<1>1. 0 \in S  BY SumStep, <1>0
<1>2. ASSUME NEW q \in 1 .. m, q - 1 \in S PROVE q \in S
  <2>1. q \in Nat /\ q - 1 \in 0 .. m - 1 /\ q - 1 <= m  OBVIOUS
  <2>2. /\ Huffman!Sum(f, q) \in Int /\ Huffman!Sum(f, q - 1) \in Int /\ f[q - 1] \in Int
        /\ Huffman!Sum(f, q) = Huffman!Sum(f, q - 1) + f[q - 1]
    BY SumStep
  <2>3. IsFiniteSet(T \cap 0 .. q - 2) /\ Huffman!Sum(f, q - 1) = Cardinality(T \cap 0 .. q - 2)
    BY <1>2, <2>1
  <2>4. CASE q - 1 \in T
    <3>1. T \cap 0 .. q - 1 = (T \cap 0 .. q - 2) \cup {q - 1} /\ q - 1 \notin T \cap 0 .. q - 2
      BY <2>4
    <3>2. IsFiniteSet(T \cap 0 .. q - 1)
          /\ Cardinality(T \cap 0 .. q - 1) = Cardinality(T \cap 0 .. q - 2) + 1
      BY <2>3, <3>1, FS_AddElement
    <3>. QED  BY <2>1, <2>2, <2>3, <2>4, <3>2
  <2>5. CASE q - 1 \notin T
    <3>1. T \cap 0 .. q - 1 = T \cap 0 .. q - 2  BY <2>5
    <3>. QED  BY <2>1, <2>2, <2>3, <2>5, <3>1
  <2>. QED  BY <2>4, <2>5
<1>. HIDE DEF S
<1>3. 0 .. m \subseteq S  BY <1>1, <1>2, StepByStep
<1>4. m \in S  BY <1>3
<1>5. T \cap 0 .. m - 1 = T  OBVIOUS
<1>. QED  BY <1>4, <1>5 DEF S

LEMMA HuffmanConstants ==
  /\ Huffman!Size \in Nat \ {0, 1} /\ Alphabet = 0 .. Huffman!Size - 1
  /\ maxTreePath \in Nat /\ Limit \in 1 .. maxTreePath
BY BitsAssumption DEF Huffman!HuffmanAssumption

LEMMA SameCardinality == \A S : Huffman!Cardinality(S) = Cardinality(S)
BY DEF Huffman!Cardinality, Cardinality, Huffman!IsFiniteSet, IsFiniteSet

LEMMA MostOf ==
  ASSUME NEW T, T \subseteq Nat, T # {}, NEW b \in Nat, \A y \in T : y <= b
  PROVE  \E x \in T : \A y \in T : y <= x
<1>. DEFINE U == {b - y : y \in T}
<1>1. U \subseteq Nat /\ U # {}
  <2>1. \A y \in T : b - y \in Nat  OBVIOUS
  <2>. QED  BY <2>1
<1>. HIDE DEF U
<1>2. PICK x \in U : \A y \in U : x <= y  BY <1>1, LeastOf
<1>3. PICK z \in T : x = b - z  BY DEF U
<1>4. \A y \in T : b - y \in U  BY DEF U
<1>5. \A y \in T : b - z <= b - y  BY <1>2, <1>3, <1>4
<1>6. \A y \in T : y <= z  BY <1>5
<1>. QED  BY <1>6

LEMMA PowerOfOne == 2 ^ 1 = 2
<1>1. IsFiniteSet({0}) /\ Cardinality({0}) = 1  BY FS_Singleton
<1>2. IsFiniteSet(SUBSET {0}) /\ Cardinality(SUBSET {0}) = 2 ^ 1  BY <1>1, FS_SUBSET
<1>3. SUBSET {0} = {{}} \cup {{0}}
  <2>1. ASSUME NEW s \in SUBSET {0} PROVE s = {} \/ s = {0}  OBVIOUS
  <2>. QED  BY <2>1
<1>4. IsFiniteSet({{}}) /\ Cardinality({{}}) = 1 /\ {0} \notin {{}}  BY FS_Singleton
<1>5. Cardinality({{}} \cup {{0}}) = Cardinality({{}}) + 1  BY <1>4, FS_AddElement
<1>. QED  BY <1>2, <1>3, <1>4, <1>5

(* Twice a power is the next.                                              *)
LEMMA PowerOfNext ==
  ASSUME NEW a \in Nat
  PROVE  2 ^ (a + 1) = 2 * 2 ^ a
<1>1. 2 ^ (a + 1) = 2 ^ a * 2 ^ 1  BY PowerOfSum
<1>2. 2 ^ a \in Nat  BY PowerIs
<1>. QED  BY <1>1, <1>2, PowerOfOne

(* The power of a difference: how the shares of codes compare.             *)
LEMMA PowerOfLess ==
  ASSUME NEW a \in Nat, NEW b \in Nat, a >= b
  PROVE  /\ 2 ^ a = 2 ^ (a - b) * 2 ^ b /\ 2 ^ (a - b) \in Nat \ {0} /\ 2 ^ b \in Nat \ {0}
         /\ 2 ^ b <= 2 ^ a
<1>1. a - b \in Nat /\ (a - b) + b = a  OBVIOUS
<1>2. PICK d \in Nat : d = a - b  BY <1>1
<1>3. 2 ^ (d + b) = 2 ^ d * 2 ^ b  BY PowerOfSum
<1>4. 2 ^ d \in Nat \ {0} /\ 2 ^ b \in Nat \ {0}  BY PowerIs
<1>5. PICK x \in Nat \ {0}, y \in Nat \ {0} : x = 2 ^ d /\ y = 2 ^ b  BY <1>4
<1>6. y <= x * y
  <2>1. PICK z \in Nat : x = z + 1
    <3>1. x - 1 \in Nat /\ x = (x - 1) + 1  OBVIOUS
    <3>. QED  BY <3>1
  <2>2. x * y = z * y + y /\ z * y \in Nat  BY <2>1
  <2>. QED  BY <2>2
<1>. QED  BY <1>1, <1>2, <1>3, <1>4, <1>5, <1>6

LEMMA PowerDivided ==
  ASSUME NEW a \in Nat, NEW b \in Nat, a >= b
  PROVE  2 ^ a \div 2 ^ b = 2 ^ (a - b)
<1>1. PICK x \in Nat, y \in Nat \ {0} : x = 2 ^ (a - b) /\ y = 2 ^ b /\ 2 ^ a = x * y
  BY PowerOfLess
<1>2. (x * y + 0) \div y = x  OBVIOUS
<1>3. x * y + 0 = x * y  OBVIOUS
<1>. QED  BY <1>1, <1>2, <1>3

-----------------------------------------------------------------------------
(* Codes, by how much of all words of m bits they take.                    *)

Kraft(l, m) ==
  Huffman!Sum([s \in Alphabet |-> IF l[s] \in 1 .. m THEN 2 ^ (m - l[s]) ELSE 0], Huffman!Size)

Terms(l, m) == [s \in Alphabet |-> IF l[s] \in 1 .. m THEN 2 ^ (m - l[s]) ELSE 0]

LEMMA TermsAre ==
  ASSUME NEW m \in Nat, NEW l \in [Alphabet -> Nat]
  PROVE  /\ Terms(l, m) \in Numbers(Huffman!Size) /\ Kraft(l, m) = Huffman!Sum(Terms(l, m), Huffman!Size)
         /\ \A s \in Alphabet : l[s] \in 1 .. m => 2 ^ (m - l[s]) \in Nat \ {0}
         /\ \A s \in Alphabet : Terms(l, m)[s] \in Nat
         /\ Kraft(l, m) \in Nat
<1>1. PICK z \in Nat : z = Huffman!Size /\ Alphabet = 0 .. z - 1  BY HuffmanConstants
<1>2. ASSUME NEW s \in Alphabet, l[s] \in 1 .. m PROVE 2 ^ (m - l[s]) \in Nat \ {0}
  <2>1. m - l[s] \in Nat  BY <1>2
  <2>. QED  BY <2>1, PowerIs
<1>3. \A s \in Alphabet : Terms(l, m)[s] \in Nat
  <2>. TAKE s \in Alphabet
  <2>1. CASE l[s] \in 1 .. m  BY <2>1, <1>2 DEF Terms
  <2>2. CASE l[s] \notin 1 .. m  BY <2>2 DEF Terms
  <2>. QED  BY <2>1, <2>2
<1>4. Terms(l, m) \in Numbers(z)
  <2>1. Terms(l, m) = [s \in Alphabet |-> Terms(l, m)[s]]  BY DEF Terms
  <2>. QED  BY <1>1, <1>3, <2>1 DEF Numbers
<1>5. Kraft(l, m) = Huffman!Sum(Terms(l, m), z)  BY <1>1 DEF Kraft, Terms
<1>6. \A x \in 0 .. z - 1 : Terms(l, m)[x] >= 0  BY <1>1, <1>3
<1>7. Huffman!Sum(Terms(l, m), z) \in Nat  BY <1>4, <1>6, SumIsNat
<1>. QED  BY <1>1, <1>2, <1>3, <1>4, <1>5, <1>7

(* The used symbols, and those with a code, are the same.                  *)
Coded(l) == l \in [Alphabet -> Nat] /\ \A s \in Alphabet : l[s] > 0 <=> s \in Huffman!Used

LEMMA ShareIs ==
  ASSUME NEW s \in Alphabet, lens \in [Alphabet -> Nat], lens[s] <= Limit
  PROVE  Huffman!Share(s) = 2 ^ (Limit - lens[s])
BY PowerDivided, HuffmanConstants DEF Huffman!Share, Huffman!One

LEMMA TotalIs ==
  ASSUME Coded(lens), \A s \in Alphabet : lens[s] <= Limit
  PROVE  Huffman!Total = Kraft(lens, Limit)
<1>1. \A s \in Alphabet : Huffman!Share(s) = 2 ^ (Limit - lens[s])  BY ShareIs DEF Coded
<1>2. \A s \in Alphabet : s \in Huffman!Used <=> lens[s] \in 1 .. Limit
  BY HuffmanConstants DEF Coded
<1>3. [s \in Alphabet |-> IF s \in Huffman!Used THEN [t \in Huffman!Used |-> Huffman!Share(t)][s] ELSE 0]
      = [s \in Alphabet |-> IF lens[s] \in 1 .. Limit THEN 2 ^ (Limit - lens[s]) ELSE 0]
  BY <1>1, <1>2
<1>. QED  BY <1>3 DEF Huffman!Total, Huffman!OverUsed, Kraft

LEMMA KraftOfShorter ==
  ASSUME NEW m \in Nat, NEW l \in [Alphabet -> Nat], NEW s \in Alphabet, l[s] \in 2 .. m
  PROVE  Kraft([l EXCEPT ![s] = @ - 1], m) = Kraft(l, m) + 2 ^ (m - l[s])
<1>. DEFINE u == [l EXCEPT ![s] = @ - 1]
            c == 2 ^ (m - l[s])
            h == [x \in Alphabet |-> IF x = s THEN c ELSE 0]
<1>1. PICK z \in Nat : z = Huffman!Size /\ Alphabet = 0 .. z - 1  BY HuffmanConstants
<1>2. m - l[s] \in Nat /\ l[s] - 1 \in Nat  OBVIOUS
<1>3. c \in Nat  BY <1>2, PowerIs
<1>4. u \in [Alphabet -> Nat] /\ u[s] = l[s] - 1 /\ \A x \in Alphabet : x # s => u[x] = l[x]
  BY <1>2
<1>5. Terms(u, m)[s] = c + c /\ Terms(l, m)[s] = c
  <2>1. u[s] \in 1 .. m  BY <1>4
  <2>2. m - u[s] = (m - l[s]) + 1  BY <1>4
  <2>3. 2 ^ (m - u[s]) = 2 * c  BY <1>2, <2>2, PowerOfNext
  <2>4. 2 * c = c + c  BY <1>3
  <2>. QED  BY <2>1, <2>3, <2>4 DEF Terms
<1>. HIDE DEF u, c
<1>6. h \in Numbers(z) /\ \A x \in 0 .. z - 1 : h[x] = IF x = s THEN c ELSE 0
  BY <1>1, <1>3 DEF Numbers
<1>. HIDE DEF h
<1>7. Huffman!Sum(h, z) = c
  <2>1. s \in 0 .. z - 1 /\ c \in Int  BY <1>1, <1>3
  <2>. QED  BY <2>1, <1>6, SumOfOne
<1>8. \A x \in 0 .. z - 1 : Terms(u, m)[x] = Terms(l, m)[x] + h[x]
  <2>. TAKE x \in 0 .. z - 1
  <2>1. CASE x = s  BY <2>1, <1>5, <1>6
  <2>2. CASE x # s
    <3>1. Terms(u, m)[x] = Terms(l, m)[x]  BY <2>2, <1>1, <1>4 DEF Terms
    <3>2. Terms(l, m)[x] \in Nat  BY <1>1, TermsAre
    <3>. QED  BY <2>2, <3>1, <3>2, <1>6
  <2>. QED  BY <2>1, <2>2
<1>9. Terms(u, m) \in Numbers(z) /\ Terms(l, m) \in Numbers(z)  BY <1>1, <1>4, TermsAre
<1>10. Huffman!Sum(Terms(u, m), z) = Huffman!Sum(Terms(l, m), z) + Huffman!Sum(h, z)
  BY <1>6, <1>8, <1>9, SumOfTwo
<1>11. Kraft(u, m) = Huffman!Sum(Terms(u, m), z) /\ Kraft(l, m) = Huffman!Sum(Terms(l, m), z)
  BY <1>1, <1>4, TermsAre
<1>. QED  BY <1>7, <1>10, <1>11 DEF u, c

(* When all codes are as long as they may be, they fit.                    *)
LEMMA LongestFit ==
  ASSUME NEW l \in [Alphabet -> Nat], \A s \in Alphabet : l[s] > 0 => l[s] = Limit
  PROVE  Kraft(l, Limit) <= 2 ^ Limit
<1>1. PICK z \in Nat : z = Huffman!Size /\ Alphabet = 0 .. z - 1 /\ z <= 2 ^ Limit
  BY HuffmanConstants, BitsAssumption DEF Huffman!HuffmanAssumption
<1>2. Limit \in Nat  BY HuffmanConstants
<1>. DEFINE g == [x \in 0 .. z - 1 |-> 1]
<1>3. g \in Numbers(z) /\ \A x \in 0 .. z - 1 : g[x] = IF x \in 0 .. z - 1 THEN 1 ELSE 0
  BY DEF Numbers
<1>. HIDE DEF g
<1>4. Huffman!Sum(g, z) = Cardinality(0 .. z - 1)
  <2>1. 0 .. z - 1 \subseteq 0 .. z - 1  OBVIOUS
  <2>2. PICK T : T = 0 .. z - 1  OBVIOUS
  <2>. QED  BY <2>1, <2>2, <1>3, SumCounts
<1>5. Cardinality(0 .. z - 1) = z
  <2>1. 0 \in Int /\ z - 1 \in Int /\ (0 > z - 1 => z = 0) /\ z - 1 - 0 + 1 = z  OBVIOUS
  <2>2. Cardinality(0 .. z - 1) = IF 0 > z - 1 THEN 0 ELSE z - 1 - 0 + 1  BY <2>1, FS_Interval
  <2>. QED  BY <2>1, <2>2
<1>6. \A x \in 0 .. z - 1 : Terms(l, Limit)[x] <= g[x]
  <2>. TAKE x \in 0 .. z - 1
  <2>1. CASE l[x] \in 1 .. Limit
    <3>1. l[x] = Limit /\ Limit - Limit = 0  BY <2>1, <1>1, <1>2
    <3>2. Limit - l[x] = 0  BY <3>1
    <3>3. Terms(l, Limit)[x] = 2 ^ (Limit - l[x])  BY <2>1, <1>1 DEF Terms
    <3>4. 2 ^ (Limit - l[x]) = 1  BY <3>2, PowerOfZero
    <3>. QED  BY <3>3, <3>4, <1>3
  <2>2. CASE l[x] \notin 1 .. Limit  BY <2>2, <1>1, <1>3 DEF Terms
  <2>. QED  BY <2>1, <2>2
<1>7. Terms(l, Limit) \in Numbers(z) /\ Kraft(l, Limit) = Huffman!Sum(Terms(l, Limit), z)
      /\ Kraft(l, Limit) \in Nat
  BY <1>1, <1>2, TermsAre
<1>8. Huffman!Sum(Terms(l, Limit), z) <= Huffman!Sum(g, z)  BY <1>3, <1>6, <1>7, SumAtMost
<1>9. 2 ^ Limit \in Nat  BY <1>2, PowerIs
<1>. QED  BY <1>1, <1>4, <1>5, <1>7, <1>8, <1>9

-----------------------------------------------------------------------------
(* Order: of a finite set, every place is taken by one element.            *)

Orders(S, R) ==
  /\ \A a, b \in S : a # b => <<a, b>> \in R \/ <<b, a>> \in R
  /\ \A a, b, c \in S : <<a, b>> \in R /\ <<b, c>> \in R => <<a, c>> \in R
  /\ \A a \in S : <<a, a>> \notin R

RankOf(S, R, s) == Cardinality({t \in S : <<t, s>> \in R})

LEMMA RanksAre ==
  ASSUME NEW S, IsFiniteSet(S), NEW R, Orders(S, R)
  PROVE  /\ \A s \in S : RankOf(S, R, s) \in 0 .. Cardinality(S) - 1
         /\ \A a, b \in S : <<a, b>> \in R => RankOf(S, R, a) < RankOf(S, R, b)
         /\ \A a, b \in S : RankOf(S, R, a) = RankOf(S, R, b) => a = b
         /\ \A m \in 0 .. Cardinality(S) - 1 : \E s \in S : RankOf(S, R, s) = m
<1>. DEFINE B(s) == {t \in S : <<t, s>> \in R}
            c == Cardinality(S)
            f == [s \in S |-> RankOf(S, R, s)]
<1>1. c \in Nat  BY FS_CardinalityType
<1>2. ASSUME NEW s \in S
      PROVE  IsFiniteSet(B(s)) /\ Cardinality(B(s)) \in Nat /\ Cardinality(B(s)) < c
  <2>1. B(s) \in SUBSET S /\ s \notin B(s)  BY DEF Orders
  <2>. HIDE DEF B
  <2>2. IsFiniteSet(B(s)) /\ Cardinality(B(s)) <= Cardinality(S)
        /\ (Cardinality(S) = Cardinality(B(s)) => S = B(s))
    BY <2>1, FS_Subset
  <2>3. Cardinality(B(s)) \in Nat  BY <2>2, FS_CardinalityType
  <2>. QED  BY <2>1, <2>2, <2>3, <1>1
<1>3. ASSUME NEW a \in S, NEW b \in S, <<a, b>> \in R
      PROVE  Cardinality(B(a)) < Cardinality(B(b))
  <2>1. B(a) \in SUBSET B(b) /\ a \in B(b) /\ a \notin B(a)  BY <1>3 DEF Orders
  <2>2. IsFiniteSet(B(b)) /\ Cardinality(B(b)) \in Nat /\ Cardinality(B(a)) \in Nat  BY <1>2
  <2>. HIDE DEF B
  <2>3. Cardinality(B(a)) <= Cardinality(B(b)) /\ (Cardinality(B(b)) = Cardinality(B(a)) => B(b) = B(a))
    BY <2>1, <2>2, FS_Subset
  <2>. QED  BY <2>1, <2>2, <2>3
<1>4. \A s \in S : RankOf(S, R, s) = Cardinality(B(s))  BY DEF RankOf
<1>5. \A s \in S : RankOf(S, R, s) \in 0 .. c - 1
  <2>. TAKE s \in S
  <2>1. Cardinality(B(s)) \in Nat /\ Cardinality(B(s)) < c  BY <1>2
  <2>. QED  BY <2>1, <1>1, <1>4
<1>6. \A a, b \in S : <<a, b>> \in R => RankOf(S, R, a) < RankOf(S, R, b)  BY <1>3, <1>4
<1>. HIDE DEF B
<1>7. \A a, b \in S : RankOf(S, R, a) = RankOf(S, R, b) => a = b
  <2>. SUFFICES ASSUME NEW a \in S, NEW b \in S, a # b PROVE RankOf(S, R, a) # RankOf(S, R, b)
    OBVIOUS
  <2>1. <<a, b>> \in R \/ <<b, a>> \in R  BY DEF Orders
  <2>2. RankOf(S, R, a) \in Int /\ RankOf(S, R, b) \in Int  BY <1>5
  <2>. QED  BY <2>1, <2>2, <1>6
<1>8. f \in Injection(S, 0 .. c - 1)
  <2>1. f \in [S -> 0 .. c - 1]  BY <1>5
  <2>2. \A a, b \in S : f[a] = f[b] => a = b  BY <1>7
  <2>. QED  BY <2>1, <2>2 DEF Injection, IsInjective
<1>9. IsFiniteSet(0 .. c - 1) /\ Cardinality(0 .. c - 1) = c
  <2>1. 0 \in Int /\ c - 1 \in Int /\ (0 > c - 1 => c = 0) /\ c - 1 - 0 + 1 = c  BY <1>1
  <2>2. IsFiniteSet(0 .. c - 1)
        /\ Cardinality(0 .. c - 1) = IF 0 > c - 1 THEN 0 ELSE c - 1 - 0 + 1
    BY <2>1, FS_Interval
  <2>. QED  BY <2>1, <2>2
<1>10. f \in Surjection(S, 0 .. c - 1)  BY <1>8, <1>9, FS_Injection
<1>11. \A m \in 0 .. c - 1 : \E s \in S : f[s] = m  BY <1>10 DEF Surjection
<1>. QED  BY <1>5, <1>6, <1>7, <1>11

(* A sequence that has the element of each rank at its place.              *)
IsInOrder(q, S, R) ==
  /\ q \in Seq(S) /\ Len(q) = Cardinality(S)
  /\ \A m \in 1 .. Len(q) : q[m] \in S /\ RankOf(S, R, q[m]) = m - 1
  /\ \A s \in S : RankOf(S, R, s) + 1 \in 1 .. Len(q) /\ q[RankOf(S, R, s) + 1] = s

LEMMA InOrderIs ==
  ASSUME NEW S, IsFiniteSet(S), NEW R, Orders(S, R), NEW q,
         q = [m \in 1 .. Cardinality(S) |-> CHOOSE s \in S : RankOf(S, R, s) = m - 1]
  PROVE  IsInOrder(q, S, R)
<1>. DEFINE c == Cardinality(S)
<1>1. c \in Nat  BY FS_CardinalityType
<1>2. \A m \in 1 .. c : q[m] \in S /\ RankOf(S, R, q[m]) = m - 1
  <2>. TAKE m \in 1 .. c
  <2>1. m - 1 \in 0 .. c - 1  BY <1>1
  <2>2. \E s \in S : RankOf(S, R, s) = m - 1  BY <2>1, RanksAre
  <2>. QED  BY <2>2
<1>3. q \in [1 .. c -> S]  BY <1>2
<1>4. q \in Seq(S) /\ Len(q) = c
  <2>1. ASSUME NEW z \in Nat, NEW g \in [1 .. z -> S] PROVE g \in Seq(S) /\ Len(g) = z
    BY SeqDef, LenProperties
  <2>. HIDE DEF c
  <2>. QED  BY <1>1, <1>3, <2>1
<1>5. \A s \in S : RankOf(S, R, s) + 1 \in 1 .. c /\ q[RankOf(S, R, s) + 1] = s
  <2>. TAKE s \in S
  <2>1. RankOf(S, R, s) \in 0 .. c - 1  BY RanksAre
  <2>2. PICK m : m = RankOf(S, R, s) + 1  OBVIOUS
  <2>3. m \in 1 .. c /\ m - 1 = RankOf(S, R, s)  BY <1>1, <2>1, <2>2
  <2>4. q[m] \in S /\ RankOf(S, R, q[m]) = RankOf(S, R, s)  BY <1>2, <2>3
  <2>5. q[m] = s  BY <2>4, RanksAre
  <2>. QED  BY <2>2, <2>3, <2>5
<1>. QED  BY <1>2, <1>4, <1>5 DEF IsInOrder

(* What codes take of longer words.                                        *)
LEMMA KraftOfLonger ==
  ASSUME NEW m \in Nat, NEW d \in 0 .. m, NEW l \in [Alphabet -> Nat]
  PROVE  /\ 2 ^ (m - d) * Kraft(l, d) <= Kraft(l, m)
         /\ (\A s \in Alphabet : l[s] <= d) => Kraft(l, m) = 2 ^ (m - d) * Kraft(l, d)
<1>. DEFINE c == 2 ^ (m - d)
            h == [s \in Alphabet |-> c * Terms(l, d)[s]]
<1>1. PICK z \in Nat : z = Huffman!Size /\ Alphabet = 0 .. z - 1  BY HuffmanConstants
<1>2. c \in Nat \ {0} /\ m - d \in Nat /\ d \in Nat  BY PowerIs
<1>3. ASSUME NEW s \in Alphabet, l[s] \in 1 .. d PROVE Terms(l, m)[s] = c * Terms(l, d)[s]
  <2>1. m - l[s] = (m - d) + (d - l[s]) /\ d - l[s] \in Nat /\ l[s] \in 1 .. m  BY <1>3
  <2>2. 2 ^ (m - l[s]) = c * 2 ^ (d - l[s])  BY <1>2, <2>1, PowerOfSum
  <2>. QED  BY <1>3, <2>1, <2>2 DEF Terms
<1>4. \A s \in Alphabet : Terms(l, d)[s] \in Nat /\ Terms(l, m)[s] \in Nat  BY <1>2, TermsAre
<1>. HIDE DEF c
<1>5. \A s \in Alphabet : l[s] \notin 1 .. d => c * Terms(l, d)[s] = 0
  BY <1>2 DEF Terms
<1>6. h \in Numbers(z) /\ \A x \in 0 .. z - 1 : h[x] = c * Terms(l, d)[x]
  <2>1. \A x \in Nat : c * x \in Int  BY <1>2
  <2>3. \A s \in Alphabet : c * Terms(l, d)[s] \in Int  BY <2>1, <1>4
  <2>. QED  BY <1>1, <2>3 DEF Numbers
<1>. HIDE DEF h
<1>7. /\ Terms(l, m) \in Numbers(z) /\ Terms(l, d) \in Numbers(z)
      /\ Kraft(l, m) = Huffman!Sum(Terms(l, m), z) /\ Kraft(l, d) = Huffman!Sum(Terms(l, d), z)
  BY <1>1, <1>2, TermsAre
<1>8. Huffman!Sum(h, z) = c * Huffman!Sum(Terms(l, d), z)
  <2>1. c \in Int  BY <1>2
  <2>. QED  BY <2>1, <1>6, <1>7, SumTimes
<1>9. \A x \in 0 .. z - 1 : h[x] <= Terms(l, m)[x]
  <2>. TAKE x \in 0 .. z - 1
  <2>1. x \in Alphabet /\ h[x] = c * Terms(l, d)[x]  BY <1>1, <1>6
  <2>2. CASE l[x] \in 1 .. d  BY <2>1, <2>2, <1>3, <1>4
  <2>3. CASE l[x] \notin 1 .. d  BY <2>1, <2>3, <1>4, <1>5
  <2>. QED  BY <2>2, <2>3
<1>10. Huffman!Sum(h, z) <= Huffman!Sum(Terms(l, m), z)  BY <1>6, <1>7, <1>9, SumAtMost
<1>11. ASSUME \A s \in Alphabet : l[s] <= d
       PROVE  Huffman!Sum(h, z) = Huffman!Sum(Terms(l, m), z)
  <2>1. \A x \in 0 .. z - 1 : h[x] = Terms(l, m)[x]
    <3>. TAKE x \in 0 .. z - 1
    <3>1. x \in Alphabet /\ h[x] = c * Terms(l, d)[x]  BY <1>1, <1>6
    <3>2. CASE l[x] \in 1 .. d  BY <3>1, <3>2, <1>3
    <3>3. CASE l[x] \notin 1 .. d
      <4>1. l[x] = 0  BY <3>1, <3>3, <1>11, <1>2
      <4>2. Terms(l, m)[x] = 0  BY <3>1, <4>1 DEF Terms
      <4>. QED  BY <3>1, <3>3, <4>2, <1>5
    <3>. QED  BY <3>2, <3>3
  <2>. QED  BY <2>1, <1>6, <1>7, SumAlike
<1>. QED  BY <1>7, <1>8, <1>10, <1>11 DEF c

(* Codes of one bit, counted.                                              *)
LEMMA KraftOfOne ==
  ASSUME NEW l \in [Alphabet -> Nat], NEW T, T \subseteq Alphabet,
         \A s \in Alphabet : l[s] = 1 <=> s \in T
  PROVE  Kraft(l, 1) = Cardinality(T)
<1>1. PICK z \in Nat : z = Huffman!Size /\ Alphabet = 0 .. z - 1  BY HuffmanConstants
<1>2. \A x \in 0 .. z - 1 : Terms(l, 1)[x] = IF x \in T THEN 1 ELSE 0
  <2>. TAKE x \in 0 .. z - 1
  <2>1. CASE x \in T
    <3>1. l[x] = 1 /\ 1 - l[x] = 0 /\ l[x] \in 1 .. 1  BY <2>1, <1>1
    <3>. QED  BY <2>1, <3>1, <1>1, PowerOfZero DEF Terms
  <2>2. CASE x \notin T
    <3>1. l[x] \notin 1 .. 1  BY <2>2, <1>1
    <3>. QED  BY <2>2, <3>1, <1>1 DEF Terms
  <2>. QED  BY <2>1, <2>2
<1>3. Terms(l, 1) \in Numbers(z) /\ Kraft(l, 1) = Huffman!Sum(Terms(l, 1), z)
  BY <1>1, TermsAre
<1>. QED  BY <1>1, <1>2, <1>3, SumCounts

LEMMA TwoOf ==
  ASSUME NEW a, NEW b, a # b
  PROVE  IsFiniteSet({a, b}) /\ Cardinality({a, b}) = 2
<1>1. {a, b} = {a} \cup {b} /\ b \notin {a}  OBVIOUS
<1>2. IsFiniteSet({a}) /\ Cardinality({a}) = 1  BY FS_Singleton
<1>. QED  BY <1>1, <1>2, FS_AddElement

Two == \E a, b \in Huffman!Used : a # b

(* Codes that leave something of the words free, let one symbol more up.   *)
LEMMA SomeFit ==
  ASSUME Coded(lens), \A s \in Alphabet : lens[s] <= Limit, Two,
         Kraft(lens, Limit) < 2 ^ Limit
  PROVE  Huffman!Fit # {}
<1>. DEFINE T == {lens[s] : s \in Huffman!Used}
<1>1. Huffman!Used \subseteq Alphabet /\ lens \in [Alphabet -> Nat] /\ Limit \in Nat
  BY HuffmanConstants DEF Huffman!Used, Coded
<1>2. T \subseteq Nat /\ T # {} /\ \A y \in T : y <= Limit  BY <1>1 DEF Two
<1>3. PICK d \in T : \A y \in T : y <= d  BY <1>1, <1>2, MostOf
<1>4. PICK s \in Huffman!Used : lens[s] = d  BY <1>3
<1>5. d \in 1 .. Limit /\ \A t \in Alphabet : lens[t] <= d
  <2>1. d \in 1 .. Limit  BY <1>1, <1>2, <1>3, <1>4 DEF Coded
  <2>2. ASSUME NEW t \in Alphabet PROVE lens[t] <= d
    <3>1. CASE t \in Huffman!Used  BY <3>1, <1>3
    <3>2. CASE t \notin Huffman!Used
      <4>1. lens[t] \in Nat /\ ~(lens[t] > 0)  BY <3>2 DEF Coded
      <4>. QED  BY <2>1, <4>1
    <3>. QED  BY <3>1, <3>2
  <2>. QED  BY <2>1, <2>2
<1>. HIDE DEF T
<1>6. PICK c, w, p, q, r :
        /\ c = 2 ^ (Limit - d) /\ w = 2 ^ d /\ p = 2 ^ Limit
        /\ q = Kraft(lens, Limit) /\ r = Kraft(lens, d)
  OBVIOUS
<1>7. /\ c \in Nat \ {0} /\ w \in Nat /\ p = c * w /\ q = c * r /\ r \in Nat /\ p \in Nat /\ q < p
      /\ q \in Nat
  <2>1. d \in Nat /\ Limit >= d /\ Limit - d \in Nat /\ d \in 0 .. Limit  BY <1>1, <1>5
  <2>2. p = c * w /\ c \in Nat \ {0} /\ w \in Nat  BY <1>1, <1>6, <2>1, PowerOfLess
  <2>3. q = c * r  BY <1>1, <1>5, <1>6, <2>1, KraftOfLonger
  <2>4. r \in Nat /\ q \in Nat  BY <1>1, <1>6, <2>1, TermsAre
  <2>. QED  BY <1>1, <1>6, <2>2, <2>3, <2>4, PowerIs
<1>8. r < w  BY <1>7
<1>9. q + c <= p
  <2>1. r + 1 <= w  BY <1>7, <1>8
  <2>2. c * (r + 1) <= c * w  BY <1>7, <2>1
  <2>3. c * (r + 1) = c * r + c  BY <1>7
  <2>. QED  BY <1>7, <2>2, <2>3
<1>10. d # 1
  <2>. SUFFICES ASSUME d = 1 PROVE FALSE  OBVIOUS
  <2>1. \A t \in Alphabet : lens[t] = 1 <=> t \in Huffman!Used
    <3>. TAKE t \in Alphabet
    <3>1. lens[t] \in Nat /\ lens[t] <= 1  BY <1>1, <1>5
    <3>. QED  BY <3>1 DEF Coded
  <2>2. r = Cardinality(Huffman!Used)  BY <1>1, <1>6, <2>1, KraftOfOne
  <2>3. PICK a \in Huffman!Used, b \in Huffman!Used : a # b  BY DEF Two
  <2>4. IsFiniteSet(Huffman!Used)
    <3>1. IsFiniteSet(Alphabet)
      <4>1. PICK z \in Nat : Alphabet = 0 .. z - 1  BY HuffmanConstants
      <4>2. 0 \in Int /\ z - 1 \in Int  OBVIOUS
      <4>. QED  BY <4>1, <4>2, FS_Interval
    <3>. QED  BY <1>1, <3>1, FS_Subset
  <2>5. Cardinality({a, b}) <= Cardinality(Huffman!Used)
    <3>1. {a, b} \in SUBSET Huffman!Used  OBVIOUS
    <3>. QED  BY <2>4, <3>1, FS_Subset
  <2>6. r >= 2  BY <1>7, <2>2, <2>3, <2>5, TwoOf
  <2>7. w = 2  BY <1>6, PowerOfOne
  <2>. QED  BY <1>8, <2>6, <2>7, <1>7
<1>11. Huffman!Share(s) = c /\ Huffman!Total = q /\ Huffman!One = p
  <2>1. s \in Alphabet /\ lens[s] <= Limit  BY <1>1
  <2>2. Huffman!Share(s) = 2 ^ (Limit - lens[s])  BY <1>1, <2>1, ShareIs
  <2>3. Huffman!Total = Kraft(lens, Limit)  BY TotalIs
  <2>. QED  BY <1>4, <1>6, <2>2, <2>3 DEF Huffman!One
<1>12. s \in Huffman!Fit  BY <1>4, <1>5, <1>9, <1>10, <1>11 DEF Huffman!Fit
<1>. QED  BY <1>12

-----------------------------------------------------------------------------
(* assignLengths and huffmanLengths, step by step.                         *)

Nodes == [weight : Nat, below : SUBSET Huffman!Used]

(* The used symbols are those of the leaves and those below the nodes, and *)
(* the last node is a root.                                                *)
MergeInv ==
  /\ leaves \in Seq(Huffman!Used) /\ nodes \in Seq(Nodes) /\ ni \in 1 .. Len(nodes) + 1
  /\ \A s \in Huffman!Used :
       \/ \E m \in 1 .. Len(leaves) : leaves[m] = s
       \/ \E m \in 1 .. Len(nodes) : s \in nodes[m].below
  /\ \/ ni <= Len(nodes)
     \/ Len(nodes) = 0 /\ Len(leaves) >= 2

LengthsInv ==
  /\ freq \in [Alphabet -> Nat] /\ lens \in [Alphabet -> Nat]
  /\ phase \in {"start", "merge", "clamp", "deepen", "shorten", "done", "over"}
  /\ phase = "start" => nodes = <<>> /\ ni = 1
  /\ phase \in {"merge", "clamp", "deepen", "shorten"} => Two
  /\ phase = "merge" => MergeInv
  /\ phase \in {"clamp", "deepen", "shorten"} => Coded(lens)
  /\ phase \in {"deepen", "shorten", "done"} => \A s \in Alphabet : lens[s] <= Limit
  /\ phase = "shorten" => Kraft(lens, Limit) <= 2 ^ Limit
  /\ phase = "done" =>
       /\ \A s \in Huffman!Used : lens[s] > 0
       /\ (\A s \in Alphabet : lens[s] = 0) \/ Kraft(lens, Limit) = 2 ^ Limit

LEMMA UsedIs ==
  /\ IsFiniteSet(Alphabet) /\ Huffman!Used \subseteq Alphabet /\ Alphabet \subseteq Nat
  /\ IsFiniteSet(Huffman!Used) /\ Cardinality(Huffman!Used) \in Nat
<1>1. IsFiniteSet(Alphabet) /\ Alphabet \subseteq Nat
  <2>1. PICK z \in Nat : Alphabet = 0 .. z - 1  BY HuffmanConstants
  <2>2. 0 \in Int /\ z - 1 \in Int  OBVIOUS
  <2>. QED  BY <2>1, <2>2, FS_Interval
<1>2. Huffman!Used \subseteq Alphabet  BY DEF Huffman!Used
<1>3. IsFiniteSet(Huffman!Used)  BY <1>1, <1>2, FS_Subset
<1>. QED  BY <1>1, <1>2, <1>3, FS_CardinalityType

(* No symbol, or one and another that is never written.                    *)
LEMMA FewAreFull ==
  ASSUME Cardinality(Huffman!Used) < 2, NEW l,
         l = [s \in Alphabet |->
                IF Huffman!Used # {} /\ (s \in Huffman!Used \/ s = IF 0 \in Huffman!Used THEN 1 ELSE 0)
                THEN 1 ELSE 0]
  PROVE  /\ l \in [Alphabet -> Nat] /\ \A s \in Alphabet : l[s] <= Limit
         /\ \A s \in Huffman!Used : l[s] > 0
         /\ (\A s \in Alphabet : l[s] = 0) \/ Kraft(l, Limit) = 2 ^ Limit
<1>1. l \in [Alphabet -> Nat] /\ \A s \in Alphabet : l[s] <= 1  OBVIOUS
<1>2. Limit \in Nat /\ 1 <= Limit  BY HuffmanConstants
<1>3. \A s \in Alphabet : l[s] \in Nat  BY <1>1
<1>4. \A s \in Huffman!Used : l[s] > 0
  <2>. TAKE s \in Huffman!Used
  <2>1. s \in Alphabet /\ Huffman!Used # {}  BY UsedIs
  <2>2. l[s] = 1  BY <2>1
  <2>. QED  BY <2>2
<1>5. CASE Huffman!Used = {}  BY <1>1, <1>2, <1>3, <1>4, <1>5
<1>6. CASE Huffman!Used # {}
  <2>1. PICK a : Huffman!Used = {a}
    <3>1. Cardinality(Huffman!Used) # 0  BY <1>6, UsedIs, FS_EmptySet
    <3>2. Cardinality(Huffman!Used) = 1  BY <3>1, UsedIs
    <3>. QED  BY <3>2, UsedIs, FS_Singleton
  <2>2. PICK b : b = IF 0 \in Huffman!Used THEN 1 ELSE 0  OBVIOUS
  <2>3. a # b /\ a \in Alphabet /\ b \in Alphabet
    <3>1. 0 \in Alphabet /\ 1 \in Alphabet  BY HuffmanConstants
    <3>. QED  BY <2>1, <2>2, <3>1, UsedIs
  <2>4. \A s \in Alphabet : l[s] = 1 <=> s \in {a, b}
    <3>. TAKE s \in Alphabet
    <3>1. l[s] = IF s \in {a} \/ s = b THEN 1 ELSE 0  BY <1>6, <2>1, <2>2
    <3>. QED  BY <3>1
  <2>5. Kraft(l, 1) = Cardinality({a, b})
    <3>1. PICK T : T = {a, b}  OBVIOUS
    <3>2. T \subseteq Alphabet /\ \A s \in Alphabet : l[s] = 1 <=> s \in T  BY <2>3, <2>4, <3>1
    <3>3. Kraft(l, 1) = Cardinality(T)  BY <1>1, <3>2, KraftOfOne
    <3>. QED  BY <3>1, <3>3
  <2>6. Kraft(l, 1) = 2  BY <2>3, <2>5, TwoOf
  <2>7. 1 \in 0 .. Limit  BY <1>2
  <2>8. Kraft(l, Limit) = 2 ^ (Limit - 1) * Kraft(l, 1)  BY <1>1, <1>2, <2>7, KraftOfLonger
  <2>9. 2 ^ Limit = 2 ^ (Limit - 1) * 2 ^ 1  BY <1>2, PowerOfLess
  <2>10. Kraft(l, Limit) = 2 ^ Limit  BY <2>6, <2>8, <2>9, PowerOfOne
  <2>11. \A s \in Alphabet : l[s] <= Limit
    <3>. TAKE s \in Alphabet
    <3>1. l[s] \in Nat /\ l[s] <= 1  BY <1>1, <1>3
    <3>. QED  BY <3>1, <1>2
  <2>. QED  BY <1>1, <1>4, <2>10, <2>11
<1>. QED  BY <1>5, <1>6

LEMMA FewInv ==
  ASSUME LengthsInv, Huffman!Few
  PROVE  LengthsInv' /\ phase # "done" /\ phase # "over"
<1>1. /\ phase = "start" /\ phase' = "done" /\ Cardinality(Huffman!Used) < 2
      /\ UNCHANGED <<freq, leaves, nodes, ni, order>>
      /\ lens' = [s \in Alphabet |->
                IF Huffman!Used # {} /\ (s \in Huffman!Used \/ s = IF 0 \in Huffman!Used THEN 1 ELSE 0)
                THEN 1 ELSE 0]
  BY SameCardinality DEF Huffman!Few
<1>2. PICK l : l = lens'  OBVIOUS
<1>3. /\ l \in [Alphabet -> Nat] /\ \A s \in Alphabet : l[s] <= Limit
      /\ \A s \in Huffman!Used : l[s] > 0
      /\ (\A s \in Alphabet : l[s] = 0) \/ Kraft(l, Limit) = 2 ^ Limit
  BY <1>1, <1>2, FewAreFull
<1>4. Kraft(l, Limit) = Kraft(lens, Limit)'  BY <1>2 DEF Kraft, Huffman!Sum, Huffman!Size
<1>5. Huffman!Used' = Huffman!Used  BY <1>1 DEF Huffman!Used
<1>. QED  BY <1>1, <1>2, <1>3, <1>4, <1>5 DEF LengthsInv

(* The used symbols by a number and by themselves: by f[s], then s.        *)
ByNumber(f) ==
  {p \in Huffman!Used \X Huffman!Used :
     f[p[1]] < f[p[2]] \/ (f[p[1]] = f[p[2]] /\ p[1] < p[2])}

LEMMA NumbersOrder ==
  ASSUME NEW f \in [Alphabet -> Nat]
  PROVE  /\ Orders(Huffman!Used, ByNumber(f))
         /\ IsInOrder(Huffman!InOrder(Huffman!Used, f), Huffman!Used, ByNumber(f))
<1>. DEFINE U == Huffman!Used
            R == ByNumber(f)
            less(a, b) == f[a] < f[b] \/ (f[a] = f[b] /\ a < b)
<1>1. \A s \in U : f[s] \in Nat /\ s \in Nat  BY UsedIs
<1>2. \A a, b \in U : <<a, b>> \in R <=> less(a, b)  BY DEF ByNumber
<1>3. Orders(U, R)
  <2>1. \A a, b \in U : a # b => less(a, b) \/ less(b, a)  BY <1>1
  <2>2. \A a, b, c \in U : less(a, b) /\ less(b, c) => less(a, c)  BY <1>1
  <2>3. \A a \in U : ~less(a, a)  BY <1>1
  <2>. HIDE DEF less, R, U
  <2>. QED  BY <1>2, <2>1, <2>2, <2>3 DEF Orders
<1>4. \A s \in U : {t \in U : less(t, s)} = {t \in U : <<t, s>> \in R}  BY <1>2
<1>5. \A s \in U : Cardinality({t \in U : less(t, s)}) = RankOf(U, R, s)
  <2>. HIDE DEF less, R, U
  <2>. QED  BY <1>4 DEF RankOf
<1>6. Huffman!InOrder(Huffman!Used, f)
      = [m \in 1 .. Huffman!Cardinality(U) |->
           CHOOSE s \in U : Huffman!Cardinality({t \in U : less(t, s)}) = m - 1]
  BY DEF Huffman!InOrder
<1>7. Huffman!InOrder(Huffman!Used, f) = [m \in 1 .. Cardinality(U) |-> CHOOSE s \in U : RankOf(U, R, s) = m - 1]
  <2>1. \A s \in U : Huffman!Cardinality({t \in U : less(t, s)}) = RankOf(U, R, s)
    BY <1>5, SameCardinality
  <2>2. Huffman!Cardinality(U) = Cardinality(U)  BY SameCardinality
  <2>. HIDE DEF less, R, U
  <2>. QED  BY <1>6, <2>1, <2>2
<1>8. IsFiniteSet(U)  BY UsedIs
<1>. QED  BY <1>3, <1>7, <1>8, InOrderIs

LEMMA SortInv ==
  ASSUME LengthsInv, Huffman!Sort
  PROVE  LengthsInv' /\ phase # "done" /\ phase # "over"
<1>1. /\ phase = "start" /\ phase' = "merge" /\ Cardinality(Huffman!Used) >= 2
      /\ leaves' = Huffman!InOrder(Huffman!Used, freq) /\ UNCHANGED <<freq, lens, nodes, ni, order>>
  BY SameCardinality DEF Huffman!Sort
<1>2. freq \in [Alphabet -> Nat] /\ nodes = <<>> /\ ni = 1 /\ lens \in [Alphabet -> Nat]
  BY <1>1 DEF LengthsInv
<1>3. Huffman!Used' = Huffman!Used  BY <1>1 DEF Huffman!Used
<1>4. PICK q, R, U : q = leaves' /\ R = ByNumber(freq) /\ U = Huffman!Used  OBVIOUS
<1>5. IsInOrder(q, U, R)  BY <1>1, <1>2, <1>4, NumbersOrder
<1>6. q \in Seq(U) /\ Len(q) >= 2 /\ \A s \in U : \E m \in 1 .. Len(q) : q[m] = s
  BY <1>1, <1>4, <1>5 DEF IsInOrder
<1>7. Two
  <2>1. Huffman!Used # {}  BY <1>1, FS_EmptySet
  <2>2. PICK a : a \in Huffman!Used  BY <2>1
  <2>3. Huffman!Used # {a}
    <3>1. Cardinality({a}) = 1  BY FS_Singleton
    <3>. QED  BY <1>1, <3>1
  <2>. QED  BY <2>2, <2>3 DEF Two
<1>8. Len(nodes') = 0 /\ nodes' \in Seq(Nodes)' /\ ni' = 1
  BY <1>1, <1>2, EmptySeq
<1>9. MergeInv'
  <2>1. leaves' \in Seq(Huffman!Used') /\ Len(leaves') >= 2  BY <1>3, <1>4, <1>6
  <2>2. \A s \in Huffman!Used' : \E m \in 1 .. Len(leaves') : leaves'[m] = s
    BY <1>3, <1>4, <1>6
  <2>. QED  BY <1>8, <2>1, <2>2 DEF MergeInv
<1>10. Two'  BY <1>3, <1>7 DEF Two
<1>. QED  BY <1>1, <1>2, <1>9, <1>10 DEF LengthsInv

(* What the next of the roots leaves.                                      *)
Gives(r, ls, m) ==
  /\ r.weight \in Nat /\ r.below \subseteq Huffman!Used
  /\ r.leaves \in Seq(Huffman!Used) /\ r.ni \in 1 .. Len(nodes) + 1
  /\ Len(r.leaves) - r.ni = Len(ls) - m - 1
  /\ \A q \in 1 .. Len(ls) : ls[q] \in r.below \/ \E p \in 1 .. Len(r.leaves) : r.leaves[p] = ls[q]

(* It is a leaf or a node.                                                 *)
LEMMA NextIs ==
  ASSUME freq \in [Alphabet -> Nat], nodes \in Seq(Nodes),
         NEW ls \in Seq(Huffman!Used), NEW m \in 1 .. Len(nodes) + 1,
         Len(ls) + Len(nodes) - m + 1 > 0,
         NEW r, r = Huffman!NextOf(ls, m)
  PROVE  /\ \/ /\ ls # <<>> /\ r = [weight |-> freq[ls[1]], below |-> {ls[1]}, leaves |-> Tail(ls), ni |-> m]
               /\ m <= Len(nodes) => freq[ls[1]] <= nodes[m].weight
            \/ /\ m <= Len(nodes)
               /\ r = [weight |-> nodes[m].weight, below |-> nodes[m].below, leaves |-> ls, ni |-> m + 1]
               /\ ls # <<>> => nodes[m].weight < freq[ls[1]]
         /\ Gives(r, ls, m)
<1>. DEFINE U == Huffman!Used
<1>1. Len(nodes) \in Nat /\ Len(ls) \in Nat  BY LenProperties
<1>2. \A s \in U : freq[s] \in Nat  BY UsedIs
<1>3. CASE ls # <<>> /\ (m > Len(nodes) \/ freq[Head(ls)] <= nodes[m].weight)
  <2>1. Len(ls) > 0 /\ Head(ls) = ls[1] /\ ls[1] \in U
    <3>1. Len(ls) # 0  BY <1>3, EmptySeq
    <3>2. Len(ls) > 0  BY <1>1, <3>1
    <3>3. 1 \in 1 .. Len(ls)  BY <1>1, <3>2
    <3>. QED  BY <3>2, <3>3, <1>3, HeadTailProperties, ElementOfSeq
  <2>2. PICK t : t = Tail(ls)  OBVIOUS
  <2>3. t \in Seq(U) /\ Len(t) = Len(ls) - 1 /\ \A q \in 1 .. Len(t) : t[q] = ls[q + 1]
    BY <1>3, <2>2, HeadTailProperties
  <2>4. r = [weight |-> freq[ls[1]], below |-> {ls[1]}, leaves |-> t, ni |-> m]
    BY <1>3, <2>1, <2>2 DEF Huffman!NextOf
  <2>5. ASSUME NEW q \in 1 .. Len(ls)
        PROVE  ls[q] \in r.below \/ \E p \in 1 .. Len(r.leaves) : r.leaves[p] = ls[q]
    <3>1. CASE q = 1  BY <3>1, <2>4
    <3>2. CASE q # 1
      <4>1. q - 1 \in 1 .. Len(t) /\ (q - 1) + 1 = q  BY <1>1, <2>3, <3>2
      <4>2. t[q - 1] = ls[q]  BY <2>3, <4>1
      <4>. QED  BY <2>4, <4>1, <4>2
    <3>. QED  BY <3>1, <3>2
  <2>6. freq[ls[1]] \in Nat /\ {ls[1]} \subseteq U  BY <1>2, <2>1
  <2>7. m <= Len(nodes) => freq[ls[1]] <= nodes[m].weight  BY <1>1, <1>3, <2>1
  <2>8. Len(t) - m = Len(ls) - m - 1  BY <1>1, <2>3
  <2>. QED  BY <1>3, <2>2, <2>3, <2>4, <2>5, <2>6, <2>7, <2>8 DEF Gives
<1>4. CASE ~(ls # <<>> /\ (m > Len(nodes) \/ freq[Head(ls)] <= nodes[m].weight))
  <2>1. m <= Len(nodes)
    <3>1. CASE ls = <<>>
      <4>1. Len(ls) = 0  BY <3>1, EmptySeq
      <4>. QED  BY <1>1, <4>1
    <3>2. CASE ls # <<>>  BY <1>1, <1>4, <3>2
    <3>. QED  BY <3>1, <3>2
  <2>2. r = [weight |-> nodes[m].weight, below |-> nodes[m].below, leaves |-> ls, ni |-> m + 1]
    BY <1>4 DEF Huffman!NextOf
  <2>3. nodes[m] \in Nodes  BY <1>1, <2>1, ElementOfSeq
  <2>4. nodes[m].weight \in Nat /\ nodes[m].below \subseteq U  BY <2>3 DEF Nodes
  <2>5. ls # <<>> => nodes[m].weight < freq[ls[1]]
    <3>. SUFFICES ASSUME ls # <<>> PROVE nodes[m].weight < freq[ls[1]]  OBVIOUS
    <3>1. Len(ls) # 0  BY EmptySeq
    <3>2. 1 \in 1 .. Len(ls)  BY <1>1, <3>1
    <3>3. Head(ls) = ls[1] /\ ls[1] \in U  BY <3>2, HeadTailProperties, ElementOfSeq
    <3>4. freq[ls[1]] \in Nat  BY <1>2, <3>3
    <3>. QED  BY <1>4, <2>4, <3>3, <3>4
  <2>6. \A q \in 1 .. Len(ls) : \E p \in 1 .. Len(ls) : ls[p] = ls[q]  OBVIOUS
  <2>7. Len(ls) - (m + 1) = Len(ls) - m - 1 /\ m + 1 \in 1 .. Len(nodes) + 1  BY <1>1, <2>1
  <2>. QED  BY <2>1, <2>2, <2>4, <2>5, <2>6, <2>7 DEF Gives
<1>. QED  BY <1>3, <1>4

LEMMA MergeStepInv ==
  ASSUME LengthsInv, Huffman!Merge
  PROVE  LengthsInv' /\ phase # "done" /\ phase # "over"
<1>1. PICK a, b :
        /\ a = Huffman!NextOf(leaves, ni) /\ b = Huffman!NextOf(a.leaves, a.ni)
        /\ nodes' = Append(nodes, [weight |-> a.weight + b.weight, below |-> a.below \cup b.below])
        /\ leaves' = b.leaves /\ ni' = b.ni
        /\ phase = "merge" /\ Len(leaves) + Len(nodes) - ni + 1 > 1
        /\ UNCHANGED <<freq, lens, order, phase>>
  BY DEF Huffman!Merge, Huffman!Remaining
<1>2. MergeInv /\ freq \in [Alphabet -> Nat] /\ Two  BY <1>1 DEF LengthsInv
<1>3. /\ leaves \in Seq(Huffman!Used) /\ nodes \in Seq(Nodes) /\ ni \in 1 .. Len(nodes) + 1
      /\ Len(leaves) \in Nat /\ Len(nodes) \in Nat
  BY <1>2, LenProperties DEF MergeInv
<1>4. Gives(a, leaves, ni)
  <2>1. Len(leaves) + Len(nodes) - ni + 1 > 0  BY <1>1, <1>3
  <2>2. a = Huffman!NextOf(leaves, ni)  BY <1>1
  <2>. QED  BY <1>2, <1>3, <2>1, <2>2, NextIs
<1>5. Len(a.leaves) + Len(nodes) - a.ni + 1 > 0
  <2>1. PICK x, y : x = Len(a.leaves) /\ y = a.ni  OBVIOUS
  <2>2. x \in Nat /\ y \in Nat  BY <1>3, <1>4, <2>1, LenProperties DEF Gives
  <2>3. x - y = Len(leaves) - ni - 1  BY <1>4, <2>1 DEF Gives
  <2>4. PICK g, h \in Nat : g = Len(leaves) /\ h = Len(nodes)  BY <1>3
  <2>5. g + h - ni + 1 > 1 /\ x - y = g - ni - 1 /\ ni \in 1 .. h + 1  BY <1>1, <1>3, <2>3, <2>4
  <2>6. x + h - y + 1 > 0  BY <2>2, <2>5
  <2>. QED  BY <2>1, <2>4, <2>6
<1>6. Gives(b, a.leaves, a.ni)
  <2>1. b = Huffman!NextOf(a.leaves, a.ni)  BY <1>1
  <2>2. a.leaves \in Seq(Huffman!Used) /\ a.ni \in 1 .. Len(nodes) + 1  BY <1>4 DEF Gives
  <2>. QED  BY <1>2, <1>3, <1>5, <2>1, <2>2, NextIs
<1>7. PICK e : e = [weight |-> a.weight + b.weight, below |-> a.below \cup b.below]  OBVIOUS
<1>8. e \in Nodes /\ e.below = a.below \cup b.below  BY <1>4, <1>6, <1>7 DEF Nodes, Gives
<1>9. /\ nodes' \in Seq(Nodes) /\ Len(nodes') = Len(nodes) + 1 /\ nodes'[Len(nodes) + 1] = e
      /\ \A m \in 1 .. Len(nodes) : nodes'[m] = nodes[m]
  <2>1. nodes' = Append(nodes, e)  BY <1>1, <1>7
  <2>2. PICK f : f = nodes  OBVIOUS
  <2>3. ASSUME NEW m \in 1 .. Len(nodes) PROVE Append(f, e)[m] = f[m]
    BY <1>3, <2>2, AppendProperties
  <2>. QED  BY <1>3, <1>8, <2>1, <2>2, <2>3, AppendProperties
<1>10. Huffman!Used' = Huffman!Used /\ Nodes' = Nodes  BY <1>1 DEF Huffman!Used, Nodes
<1>11. ASSUME NEW s \in Huffman!Used
       PROVE  \/ \E m \in 1 .. Len(b.leaves) : b.leaves[m] = s
              \/ \E m \in 1 .. Len(nodes') : s \in nodes'[m].below
  <2>1. CASE \E m \in 1 .. Len(nodes) : s \in nodes[m].below
    <3>1. PICK m \in 1 .. Len(nodes) : s \in nodes[m].below  BY <2>1
    <3>2. m \in 1 .. Len(nodes') /\ s \in nodes'[m].below  BY <1>3, <1>9, <3>1
    <3>. QED  BY <3>2
  <2>2. CASE s \in a.below \/ s \in b.below
    <3>1. Len(nodes) + 1 \in 1 .. Len(nodes') /\ s \in nodes'[Len(nodes) + 1].below
      BY <1>3, <1>8, <1>9, <2>2
    <3>. QED  BY <3>1
  <2>3. CASE \E m \in 1 .. Len(leaves) : leaves[m] = s
    <3>1. s \in a.below \/ \E p \in 1 .. Len(a.leaves) : a.leaves[p] = s  BY <1>4, <2>3 DEF Gives
    <3>2. s \in a.below \/ s \in b.below \/ \E p \in 1 .. Len(b.leaves) : b.leaves[p] = s
      BY <1>6, <3>1 DEF Gives
    <3>. QED  BY <2>2, <3>2
  <2>. QED  BY <1>2, <2>1, <2>3 DEF MergeInv
<1>12. b.ni <= Len(nodes') /\ b.ni \in 1 .. Len(nodes') + 1  BY <1>3, <1>6, <1>9 DEF Gives
<1>13. MergeInv'  BY <1>1, <1>6, <1>9, <1>10, <1>11, <1>12 DEF MergeInv, Gives
<1>14. Two'  BY <1>2, <1>10 DEF Two
<1>. QED  BY <1>1, <1>2, <1>13, <1>14 DEF LengthsInv

(* One root is left, which every used symbol is below.                     *)
LEMMA MergedInv ==
  ASSUME LengthsInv, Huffman!Merged
  PROVE  LengthsInv' /\ phase # "done" /\ phase # "over"
<1>1. /\ phase = "merge" /\ phase' = "clamp" /\ Len(leaves) + Len(nodes) - ni + 1 = 1
      /\ lens' = Huffman!Depth /\ UNCHANGED <<freq, leaves, nodes, ni, order>>
  BY DEF Huffman!Merged, Huffman!Remaining
<1>2. MergeInv /\ freq \in [Alphabet -> Nat] /\ Two  BY <1>1 DEF LengthsInv
<1>3. /\ nodes \in Seq(Nodes) /\ Len(leaves) = 0 /\ Len(nodes) \in Nat
  <2>1. /\ leaves \in Seq(Huffman!Used) /\ nodes \in Seq(Nodes) /\ ni \in 1 .. Len(nodes) + 1
        /\ Len(leaves) \in Nat /\ Len(nodes) \in Nat
    BY <1>2, LenProperties DEF MergeInv
  <2>2. ni <= Len(nodes) \/ (Len(nodes) = 0 /\ Len(leaves) >= 2)  BY <1>2 DEF MergeInv
  <2>. QED  BY <1>1, <2>1, <2>2
<1>4. ASSUME NEW s \in Alphabet
      PROVE  Huffman!Depth[s] \in Nat /\ (Huffman!Depth[s] > 0 <=> s \in Huffman!Used)
  <2>1. PICK T : T = {m \in DOMAIN nodes : s \in nodes[m].below}  OBVIOUS
  <2>2. Huffman!Depth[s] = Cardinality(T)  BY <2>1, SameCardinality DEF Huffman!Depth
  <2>3. DOMAIN nodes = 1 .. Len(nodes)  BY <1>3, LenProperties
  <2>4. IsFiniteSet(T)
    <3>1. T \in SUBSET (1 .. Len(nodes))  BY <2>1, <2>3
    <3>2. IsFiniteSet(1 .. Len(nodes))  BY <1>3, FS_Interval
    <3>. QED  BY <3>1, <3>2, FS_Subset
  <2>5. Cardinality(T) \in Nat /\ (Cardinality(T) = 0 <=> T = {})
    BY <2>4, FS_CardinalityType, FS_EmptySet
  <2>6. s \in Huffman!Used => T # {}
    <3>. SUFFICES ASSUME s \in Huffman!Used PROVE T # {}  OBVIOUS
    <3>1. \E m \in 1 .. Len(nodes) : s \in nodes[m].below  BY <1>2, <1>3 DEF MergeInv
    <3>. QED  BY <2>1, <2>3, <3>1
  <2>7. T # {} => s \in Huffman!Used
    <3>. SUFFICES ASSUME NEW m \in T PROVE s \in Huffman!Used  OBVIOUS
    <3>1. m \in 1 .. Len(nodes) /\ s \in nodes[m].below  BY <2>1, <2>3
    <3>2. nodes[m] \in Nodes  BY <1>3, <3>1, ElementOfSeq
    <3>. QED  BY <3>1, <3>2 DEF Nodes
  <2>. QED  BY <2>2, <2>5, <2>6, <2>7
<1>5. PICK l : l = Huffman!Depth  OBVIOUS
<1>6. l \in [Alphabet -> Nat]
  <2>1. l = [s \in Alphabet |-> l[s]]  BY <1>5 DEF Huffman!Depth
  <2>. QED  BY <1>4, <1>5, <2>1
<1>7. Huffman!Used' = Huffman!Used  BY <1>1 DEF Huffman!Used
<1>8. Coded(lens)'  BY <1>1, <1>4, <1>5, <1>6, <1>7 DEF Coded
<1>9. Two'  BY <1>2, <1>7 DEF Two
<1>. QED  BY <1>1, <1>2, <1>8, <1>9 DEF LengthsInv, Coded

LEMMA KraftOfNext ==
  \A l, m : l = lens' => Kraft(lens, m)' = Kraft(l, m')
BY DEF Kraft, Huffman!Sum, Huffman!Size

LEMMA ClampInv ==
  ASSUME LengthsInv, Huffman!Clamp
  PROVE  LengthsInv' /\ phase # "done" /\ phase # "over"
<1>1. /\ phase = "clamp" /\ phase' = "deepen" /\ UNCHANGED <<freq, leaves, nodes, ni>>
      /\ lens' = [s \in Alphabet |-> Huffman!Smaller(lens[s], Limit)]
  BY DEF Huffman!Clamp
<1>2. freq \in [Alphabet -> Nat] /\ Two /\ Coded(lens)  BY <1>1 DEF LengthsInv
<1>3. ASSUME NEW s \in Alphabet
      PROVE  /\ Huffman!Smaller(lens[s], Limit) \in Nat /\ Huffman!Smaller(lens[s], Limit) <= Limit
             /\ Huffman!Smaller(lens[s], Limit) > 0 <=> s \in Huffman!Used
  <2>1. lens[s] \in Nat /\ (lens[s] > 0 <=> s \in Huffman!Used)  BY <1>2 DEF Coded
  <2>. QED  BY <2>1, HuffmanConstants DEF Huffman!Smaller
<1>4. Huffman!Used' = Huffman!Used  BY <1>1 DEF Huffman!Used
<1>5. lens' \in [Alphabet -> Nat] /\ \A s \in Alphabet : lens'[s] <= Limit  BY <1>1, <1>3
<1>6. Coded(lens)'  BY <1>1, <1>3, <1>4, <1>5 DEF Coded
<1>7. Two'  BY <1>2, <1>4 DEF Two
<1>. QED  BY <1>1, <1>2, <1>5, <1>6, <1>7 DEF LengthsInv

(* There are never more symbols than codes of the greatest length, so that *)
(* the lengths do not stay over-subscribed.                                *)
LEMMA DeepenInv ==
  ASSUME LengthsInv, Huffman!Deepen
  PROVE  LengthsInv' /\ phase # "done" /\ phase # "over"
<1>1. phase = "deepen" /\ UNCHANGED <<freq, leaves, nodes, ni, order>>  BY DEF Huffman!Deepen
<1>2. /\ freq \in [Alphabet -> Nat] /\ Two /\ Coded(lens) /\ lens \in [Alphabet -> Nat]
      /\ \A s \in Alphabet : lens[s] <= Limit
  BY <1>1 DEF LengthsInv
<1>3. Huffman!Used' = Huffman!Used  BY <1>1 DEF Huffman!Used
<1>4. Two'  BY <1>2, <1>3 DEF Two
<1>5. Huffman!Total = Kraft(lens, Limit) /\ Huffman!One = 2 ^ Limit
  BY <1>2, TotalIs DEF Huffman!One
<1>6. Kraft(lens, Limit) \in Nat /\ 2 ^ Limit \in Nat /\ Limit \in Nat
  <2>1. Limit \in Nat  BY HuffmanConstants
  <2>2. Kraft(lens, Limit) \in Nat  BY <1>2, <2>1, TermsAre
  <2>. QED  BY <2>1, <2>2, PowerIs
<1>7. CASE Huffman!Total <= Huffman!One /\ phase' = "shorten" /\ UNCHANGED lens
  <2>1. Kraft(lens, Limit)' = Kraft(lens, Limit)  BY <1>7, KraftOfNext
  <2>2. Kraft(lens, Limit)' <= 2 ^ Limit  BY <1>5, <1>7, <2>1
  <2>3. Coded(lens)'  BY <1>2, <1>3, <1>7 DEF Coded
  <2>. QED  BY <1>1, <1>2, <1>4, <1>7, <2>2, <2>3 DEF LengthsInv
<1>8. CASE Huffman!Total > Huffman!One /\ Huffman!Movable = {}
  <2>1. ASSUME NEW s \in Alphabet, lens[s] > 0 PROVE lens[s] = Limit
    <3>1. s \in Huffman!Used /\ s \notin Huffman!Movable  BY <1>2, <1>8, <2>1 DEF Coded
    <3>2. ~(lens[s] < Limit)  BY <3>1 DEF Huffman!Movable
    <3>. QED  BY <1>2, <1>6, <3>2
  <2>2. Kraft(lens, Limit) <= 2 ^ Limit  BY <1>2, <2>1, LongestFit
  <2>. QED  BY <1>5, <1>6, <1>8, <2>2
<1>9. ASSUME NEW s \in Huffman!Movable, lens' = [lens EXCEPT ![s] = @ + 1], UNCHANGED phase
      PROVE  LengthsInv'
  <2>1. s \in Huffman!Used /\ s \in Alphabet /\ lens[s] < Limit  BY UsedIs DEF Huffman!Movable
  <2>2. lens' \in [Alphabet -> Nat] /\ \A t \in Alphabet : lens'[t] <= Limit
    BY <1>2, <1>6, <1>9, <2>1
  <2>3. \A t \in Alphabet : lens'[t] > 0 <=> lens[t] > 0 \/ t = s
    BY <1>2, <1>9, <2>1
  <2>4. Coded(lens)'  BY <1>2, <1>3, <2>1, <2>2, <2>3 DEF Coded
  <2>. QED  BY <1>1, <1>2, <1>4, <1>9, <2>2, <2>4 DEF LengthsInv
<1>. QED  BY <1>1, <1>7, <1>8, <1>9 DEF Huffman!Deepen

LEMMA ShortenInv ==
  ASSUME LengthsInv, Huffman!Shorten
  PROVE  LengthsInv' /\ phase # "done" /\ phase # "over"
<1>1. phase = "shorten" /\ UNCHANGED <<freq, leaves, nodes, ni, order>>  BY DEF Huffman!Shorten
<1>2. /\ freq \in [Alphabet -> Nat] /\ Two /\ Coded(lens) /\ lens \in [Alphabet -> Nat]
      /\ \A s \in Alphabet : lens[s] <= Limit
      /\ Kraft(lens, Limit) <= 2 ^ Limit
  BY <1>1 DEF LengthsInv
<1>3. Huffman!Used' = Huffman!Used  BY <1>1 DEF Huffman!Used
<1>4. Two'  BY <1>2, <1>3 DEF Two
<1>5. Huffman!Total = Kraft(lens, Limit) /\ Huffman!One = 2 ^ Limit
  BY <1>2, TotalIs DEF Huffman!One
<1>6. Kraft(lens, Limit) \in Nat /\ 2 ^ Limit \in Nat /\ Limit \in Nat
  <2>1. Limit \in Nat  BY HuffmanConstants
  <2>2. Kraft(lens, Limit) \in Nat  BY <1>2, <2>1, TermsAre
  <2>. QED  BY <2>1, <2>2, PowerIs
<1>7. ASSUME NEW s \in Huffman!Fit, lens' = [lens EXCEPT ![s] = @ - 1], UNCHANGED phase
      PROVE  LengthsInv'
  <2>1. s \in Huffman!Used /\ s \in Alphabet /\ lens[s] \in 2 .. Limit
    BY <1>2, UsedIs DEF Huffman!Fit
  <2>2. lens' \in [Alphabet -> Nat] /\ \A t \in Alphabet : lens'[t] <= Limit
    <3>1. lens[s] - 1 \in Nat /\ lens[s] - 1 <= Limit  BY <1>6, <2>1
    <3>2. \A t \in Alphabet : lens'[t] = IF t = s THEN lens[s] - 1 ELSE lens[t]  BY <1>2, <1>7
    <3>. QED  BY <1>2, <1>7, <3>1, <3>2
  <2>3. \A t \in Alphabet : lens'[t] > 0 <=> lens[t] > 0
    <3>1. lens[s] > 0 /\ lens[s] - 1 > 0  BY <2>1
    <3>2. \A t \in Alphabet : lens'[t] = IF t = s THEN lens[s] - 1 ELSE lens[t]  BY <1>2, <1>7
    <3>. QED  BY <3>1, <3>2
  <2>4. Coded(lens)'  BY <1>2, <1>3, <2>2, <2>3 DEF Coded
  <2>5. Kraft([lens EXCEPT ![s] = @ - 1], Limit) = Kraft(lens, Limit) + 2 ^ (Limit - lens[s])
    BY <1>2, <1>6, <2>1, KraftOfShorter
  <2>6. Huffman!Share(s) = 2 ^ (Limit - lens[s])  BY <1>2, <2>1, ShareIs
  <2>7. Kraft(lens, Limit)' <= 2 ^ Limit
    <3>1. Huffman!Total + Huffman!Share(s) <= Huffman!One  BY DEF Huffman!Fit
    <3>2. Kraft(lens, Limit)' = Kraft([lens EXCEPT ![s] = @ - 1], Limit)  BY <1>7, KraftOfNext
    <3>. QED  BY <1>5, <2>5, <2>6, <3>1, <3>2
  <2>. QED  BY <1>1, <1>2, <1>4, <1>7, <2>2, <2>4, <2>7 DEF LengthsInv
<1>8. ASSUME Huffman!Total >= Huffman!One \/ Huffman!Fit = {}, phase' = "done", UNCHANGED lens
      PROVE  LengthsInv'
  <2>1. Kraft(lens, Limit) = 2 ^ Limit
    <3>1. CASE Huffman!Total >= Huffman!One  BY <1>2, <1>5, <1>6, <3>1
    <3>2. CASE Huffman!Fit = {}
      <4>1. ~(Kraft(lens, Limit) < 2 ^ Limit)  BY <1>2, <3>2, SomeFit
      <4>. QED  BY <1>2, <1>6, <4>1
    <3>. QED  BY <1>8, <3>1, <3>2
  <2>2. Kraft(lens, Limit)' = 2 ^ Limit  BY <1>8, <2>1, KraftOfNext
  <2>3. \A s \in Huffman!Used : lens[s] > 0  BY <1>2, UsedIs DEF Coded
  <2>. QED  BY <1>1, <1>2, <1>3, <1>8, <2>2, <2>3 DEF LengthsInv
<1>. QED  BY <1>1, <1>7, <1>8 DEF Huffman!Shorten

LEMMA HuffmanInv ==
  ASSUME LengthsInv, Huffman!Next
  PROVE  LengthsInv' /\ phase # "done" /\ phase # "over"
BY FewInv, SortInv, MergeStepInv, MergedInv, ClampInv, DeepenInv, ShortenInv DEF Huffman!Next

-----------------------------------------------------------------------------
(* What a decoder makes of the lengths.                                    *)

(* The lengths that it has read.                                           *)
Heard == [s \in Alphabet |-> IF s + 1 \in DOMAIN got THEN got[s + 1] ELSE 0]

HavingOf(l, m) == {s \in Alphabet : l[s] = m}
CountOf(l, m) == IF m = 0 THEN 0 ELSE Cardinality(HavingOf(l, m))

LEMMA CountsAre ==
  ASSUME NEW m
  PROVE  Huffman!Count(m) = CountOf(lens, m) /\ Decoder!Count(m) = CountOf(Heard, m)
<1>1. Huffman!Having(m) = HavingOf(lens, m)  BY DEF Huffman!Having, HavingOf
<1>2. Decoder!Having(m) = HavingOf(Heard, m)  BY DEF Decoder!Having, HavingOf, Heard
<1>3. \A S : Decoder!Cardinality(S) = Cardinality(S)
  BY DEF Decoder!Cardinality, Cardinality, Decoder!IsFiniteSet, IsFiniteSet
<1>. QED  BY <1>1, <1>2, <1>3, SameCardinality DEF Huffman!Count, Decoder!Count, CountOf

LEMMA CountIs ==
  ASSUME NEW l, NEW m
  PROVE  CountOf(l, m) \in Nat /\ IsFiniteSet(HavingOf(l, m))
<1>1. HavingOf(l, m) \in SUBSET Alphabet  BY DEF HavingOf
<1>2. IsFiniteSet(HavingOf(l, m))  BY <1>1, UsedIs, FS_Subset
<1>. QED  BY <1>2, FS_CardinalityType DEF CountOf

(* One bit more: twice as many words, and the codes that end there.        *)
LEMMA KraftStep ==
  ASSUME NEW l \in [Alphabet -> Nat], NEW m \in Nat \ {0}
  PROVE  /\ Kraft(l, m) = 2 * Kraft(l, m - 1) + CountOf(l, m)
         /\ Kraft(l, 0) = 0
<1>. DEFINE H == HavingOf(l, m)
            f == [s \in Alphabet |-> 2 * Terms(l, m - 1)[s]]
            h == [s \in Alphabet |-> IF s \in H THEN 1 ELSE 0]
<1>1. PICK z \in Nat : z = Huffman!Size /\ Alphabet = 0 .. z - 1  BY HuffmanConstants
<1>2. m - 1 \in Nat  OBVIOUS
<1>3. /\ \A s \in Alphabet : Terms(l, m - 1)[s] \in Nat /\ Terms(l, m)[s] \in Nat
      /\ Terms(l, m) \in Numbers(z) /\ Terms(l, m - 1) \in Numbers(z)
      /\ Kraft(l, m) = Huffman!Sum(Terms(l, m), z)
      /\ Kraft(l, m - 1) = Huffman!Sum(Terms(l, m - 1), z)
  BY <1>1, <1>2, TermsAre
<1>4. f \in Numbers(z) /\ \A x \in 0 .. z - 1 : f[x] = 2 * Terms(l, m - 1)[x]
  <2>1. \A x \in Nat : 2 * x \in Int  OBVIOUS
  <2>2. \A s \in Alphabet : 2 * Terms(l, m - 1)[s] \in Int  BY <1>3, <2>1
  <2>. QED  BY <1>1, <2>2 DEF Numbers
<1>5. /\ h \in Numbers(z) /\ H \subseteq 0 .. z - 1
      /\ \A x \in 0 .. z - 1 : h[x] = IF x \in H THEN 1 ELSE 0
  BY <1>1 DEF Numbers, HavingOf
<1>. HIDE DEF f, h, H
<1>6. \A x \in 0 .. z - 1 : Terms(l, m)[x] = f[x] + h[x]
  <2>. TAKE x \in 0 .. z - 1
  <2>1. x \in Alphabet /\ l[x] \in Nat  BY <1>1
  <2>2. CASE l[x] \in 1 .. m - 1
    <3>1. l[x] \in 1 .. m /\ m - l[x] = (m - 1 - l[x]) + 1 /\ m - 1 - l[x] \in Nat  BY <2>2
    <3>2. 2 ^ (m - l[x]) = 2 * 2 ^ (m - 1 - l[x])  BY <3>1, PowerOfNext
    <3>3. x \notin H  BY <2>2 DEF HavingOf, H
    <3>4. Terms(l, m)[x] = 2 * Terms(l, m - 1)[x]  BY <2>1, <2>2, <3>1, <3>2 DEF Terms
    <3>. QED  BY <1>3, <1>4, <1>5, <2>1, <3>3, <3>4
  <2>3. CASE l[x] = m
    <3>1. l[x] \in 1 .. m /\ l[x] \notin 1 .. m - 1 /\ m - l[x] = 0 /\ x \in H
      BY <2>1, <2>3 DEF HavingOf, H
    <3>2. Terms(l, m)[x] = 1 /\ Terms(l, m - 1)[x] = 0  BY <2>1, <3>1, PowerOfZero DEF Terms
    <3>. QED  BY <1>4, <1>5, <3>1, <3>2
  <2>4. CASE l[x] \notin 1 .. m
    <3>1. l[x] \notin 1 .. m - 1 /\ x \notin H  BY <2>1, <2>4 DEF HavingOf, H
    <3>2. Terms(l, m)[x] = 0 /\ Terms(l, m - 1)[x] = 0  BY <2>1, <2>4, <3>1 DEF Terms
    <3>. QED  BY <1>4, <1>5, <3>1, <3>2
  <2>5. l[x] \in 1 .. m - 1 \/ l[x] = m \/ l[x] \notin 1 .. m  BY <2>1
  <2>. QED  BY <2>2, <2>3, <2>4, <2>5
<1>7. Huffman!Sum(f, z) = 2 * Huffman!Sum(Terms(l, m - 1), z)
  <2>1. 2 \in Int  OBVIOUS
  <2>. QED  BY <2>1, <1>3, <1>4, SumTimes
<1>8. Huffman!Sum(h, z) = Cardinality(H)  BY <1>5, SumCounts
<1>9. Huffman!Sum(Terms(l, m), z) = Huffman!Sum(f, z) + Huffman!Sum(h, z)
  BY <1>3, <1>4, <1>5, <1>6, SumOfTwo
<1>10. Kraft(l, 0) = 0
  <2>1. \A x \in 0 .. z - 1 : Terms(l, 0)[x] = 0
    <3>1. 1 .. 0 = {}  OBVIOUS
    <3>. QED  BY <1>1, <3>1 DEF Terms
  <2>2. Terms(l, 0) \in Numbers(z) /\ Kraft(l, 0) = Huffman!Sum(Terms(l, 0), z)
    <3>1. 0 \in Nat  OBVIOUS
    <3>. QED  BY <1>1, <3>1, TermsAre
  <2>. QED  BY <2>1, <2>2, SumOfNothing
<1>. QED  BY <1>3, <1>7, <1>8, <1>9, <1>10 DEF CountOf, H

(* Two runs of the same recursion are the same.                            *)
LEMMA SameRun ==
  ASSUME NEW m \in Nat, NEW w, NEW g, w[0] = g[0],
         \A q \in 1 .. m : w[q - 1] = g[q - 1] => w[q] = g[q]
  PROVE  \A q \in 0 .. m : w[q] = g[q]
<1>. DEFINE S == {q \in Nat : w[q] = g[q]}
<1>1. 0 \in S  OBVIOUS
<1>2. \A q \in 1 .. m : q - 1 \in S => q \in S  OBVIOUS
<1>. HIDE DEF S
<1>3. 0 .. m \subseteq S  BY <1>1, <1>2, StepByStep
<1>. QED  BY <1>3 DEF S

(* The first code of a length is behind all shorter ones.                  *)
FirstOf(l, m) == IF m = 0 THEN 0 ELSE 2 * Kraft(l, m - 1)

LEMMA FirstStep ==
  ASSUME NEW l \in [Alphabet -> Nat], NEW m \in Nat \ {0}
  PROVE  /\ FirstOf(l, m) = 2 * (FirstOf(l, m - 1) + CountOf(l, m - 1))
         /\ FirstOf(l, m) \in Nat /\ FirstOf(l, m) + CountOf(l, m) = Kraft(l, m)
<1>1. m - 1 \in Nat /\ Kraft(l, m - 1) \in Nat  BY TermsAre
<1>2. FirstOf(l, m) = 2 * Kraft(l, m - 1)  BY DEF FirstOf
<1>3. FirstOf(l, m) + CountOf(l, m) = Kraft(l, m)  BY <1>2, KraftStep
<1>4. Kraft(l, m - 1) = FirstOf(l, m - 1) + CountOf(l, m - 1)
  <2>1. CASE m = 1
    <3>1. m - 1 = 0  BY <2>1
    <3>2. FirstOf(l, 0) = 0 /\ CountOf(l, 0) = 0 /\ Kraft(l, 0) = 0  BY KraftStep DEF FirstOf, CountOf
    <3>. QED  BY <3>1, <3>2
  <2>2. CASE m # 1
    <3>1. PICK m1 : m1 = m - 1  OBVIOUS
    <3>2. m1 \in Nat \ {0}  BY <2>2, <3>1
    <3>3. Kraft(l, m1) = 2 * Kraft(l, m1 - 1) + CountOf(l, m1)  BY <3>2, KraftStep
    <3>4. FirstOf(l, m1) = 2 * Kraft(l, m1 - 1)  BY <3>2 DEF FirstOf
    <3>. QED  BY <3>1, <3>3, <3>4
  <2>. QED  BY <2>1, <2>2
<1>. QED  BY <1>1, <1>2, <1>3, <1>4

LEMMA FirstCodeIs ==
  ASSUME lens \in [Alphabet -> Nat]
  PROVE  \A m \in 0 .. maxTreePath : Huffman!FirstCode[m] = FirstOf(lens, m)
<1>1. PICK t \in Nat : t = maxTreePath  BY HuffmanConstants
<1>. DEFINE w == CHOOSE w : w = [q \in 0 .. t |-> IF q = 0 THEN 0 ELSE 2 * (w[q - 1] + Huffman!Count(q - 1))]
            g == [q \in 0 .. t |-> FirstOf(lens, q)]
<1>2. Huffman!FirstCode = w  BY <1>1 DEF Huffman!FirstCode
<1>3. \A q \in 0 .. t : g[q] = IF q = 0 THEN 0 ELSE 2 * (g[q - 1] + Huffman!Count(q - 1))
  <2>. TAKE q \in 0 .. t
  <2>1. CASE q = 0  BY <2>1 DEF FirstOf
  <2>2. CASE q # 0
    <3>1. q \in Nat \ {0} /\ q - 1 \in 0 .. t  BY <2>2
    <3>2. g[q - 1] = FirstOf(lens, q - 1) /\ g[q] = FirstOf(lens, q)  BY <3>1
    <3>3. FirstOf(lens, q) = 2 * (FirstOf(lens, q - 1) + CountOf(lens, q - 1))  BY <3>1, FirstStep
    <3>4. Huffman!Count(q - 1) = CountOf(lens, q - 1)  BY CountsAre
    <3>. QED  BY <2>2, <3>2, <3>3, <3>4
  <2>. QED  BY <2>1, <2>2
<1>4. g = [q \in 0 .. t |-> g[q]]  OBVIOUS
<1>. HIDE DEF g
<1>5. g = [q \in 0 .. t |-> IF q = 0 THEN 0 ELSE 2 * (g[q - 1] + Huffman!Count(q - 1))]
  BY <1>3, <1>4
<1>6. w = [q \in 0 .. t |-> IF q = 0 THEN 0 ELSE 2 * (w[q - 1] + Huffman!Count(q - 1))]
  BY <1>5
<1>. HIDE DEF w
<1>7. \A q \in 0 .. t : w[q] = g[q]
  <2>1. w[0] = g[0]  BY <1>3, <1>6
  <2>2. ASSUME NEW q \in 1 .. t, w[q - 1] = g[q - 1] PROVE w[q] = g[q]
    BY <1>3, <1>6, <2>2
  <2>. QED  BY <2>1, <2>2, SameRun
<1>. QED  BY <1>1, <1>2, <1>7 DEF g

LEMMA LeftIs ==
  ASSUME Heard \in [Alphabet -> Nat]
  PROVE  \A m \in 0 .. maxTreePath : Decoder!Left[m] = 2 ^ m - Kraft(Heard, m)
<1>1. PICK t \in Nat : t = maxTreePath  BY HuffmanConstants
<1>. DEFINE w == CHOOSE w : w = [q \in 0 .. t |-> IF q = 0 THEN 1 ELSE 2 * w[q - 1] - Decoder!Count(q)]
            g == [q \in 0 .. t |-> 2 ^ q - Kraft(Heard, q)]
<1>2. Decoder!Left = w  BY <1>1 DEF Decoder!Left
<1>3. \A q \in 0 .. t : g[q] = IF q = 0 THEN 1 ELSE 2 * g[q - 1] - Decoder!Count(q)
  <2>. TAKE q \in 0 .. t
  <2>1. CASE q = 0
    <3>1. 1 \in Nat \ {0}  OBVIOUS
    <3>2. Kraft(Heard, 0) = 0  BY <3>1, KraftStep
    <3>. QED  BY <2>1, <3>2, PowerOfZero
  <2>2. CASE q # 0
    <3>1. q \in Nat \ {0} /\ q - 1 \in 0 .. t /\ q - 1 \in Nat /\ (q - 1) + 1 = q  BY <2>2
    <3>2. g[q - 1] = 2 ^ (q - 1) - Kraft(Heard, q - 1) /\ g[q] = 2 ^ q - Kraft(Heard, q)  BY <3>1
    <3>3. Kraft(Heard, q) = 2 * Kraft(Heard, q - 1) + CountOf(Heard, q)  BY <3>1, KraftStep
    <3>4. 2 ^ q = 2 * 2 ^ (q - 1)  BY <3>1, PowerOfNext
    <3>5. Decoder!Count(q) = CountOf(Heard, q)  BY CountsAre
    <3>6. CountOf(Heard, q) \in Nat /\ Kraft(Heard, q - 1) \in Nat /\ 2 ^ (q - 1) \in Nat
      BY <3>1, CountIs, TermsAre, PowerIs
    <3>7. PICK a, b, c : a = 2 ^ (q - 1) /\ b = Kraft(Heard, q - 1) /\ c = CountOf(Heard, q)
      OBVIOUS
    <3>. HIDE DEF g
    <3>8. g[q] = 2 * a - (2 * b + c) /\ g[q - 1] = a - b  BY <3>2, <3>3, <3>4, <3>7
    <3>9. a \in Nat /\ b \in Nat /\ c \in Nat  BY <3>6, <3>7
    <3>10. g[q] = 2 * g[q - 1] - c  BY <3>8, <3>9
    <3>. QED  BY <2>2, <3>5, <3>7, <3>10
  <2>. QED  BY <2>1, <2>2
<1>4. g = [q \in 0 .. t |-> g[q]]  OBVIOUS
<1>. HIDE DEF g
<1>5. g = [q \in 0 .. t |-> IF q = 0 THEN 1 ELSE 2 * g[q - 1] - Decoder!Count(q)]
  BY <1>3, <1>4
<1>6. w = [q \in 0 .. t |-> IF q = 0 THEN 1 ELSE 2 * w[q - 1] - Decoder!Count(q)]
  BY <1>5
<1>. HIDE DEF w
<1>7. \A q \in 0 .. t : w[q] = g[q]
  <2>1. w[0] = g[0]  BY <1>3, <1>6
  <2>2. ASSUME NEW q \in 1 .. t, w[q - 1] = g[q - 1] PROVE w[q] = g[q]
    BY <1>3, <1>6, <2>2
  <2>. QED  BY <2>1, <2>2, SameRun
<1>. QED  BY <1>1, <1>2, <1>7 DEF g

(* Full: the codes take all words of Limit bits, and of every longer one.  *)
Full(l) ==
  /\ l \in [Alphabet -> Nat] /\ \A s \in Alphabet : l[s] <= Limit
  /\ Kraft(l, Limit) = 2 ^ Limit

LEMMA FullIs ==
  ASSUME NEW l, Full(l), NEW m \in Nat
  PROVE  Kraft(l, m) <= 2 ^ m /\ (m >= Limit => Kraft(l, m) = 2 ^ m)
<1>1. l \in [Alphabet -> Nat] /\ (\A s \in Alphabet : l[s] <= Limit) /\ Limit \in Nat
  BY HuffmanConstants DEF Full
<1>2. Kraft(l, m) \in Nat /\ 2 ^ m \in Nat /\ Kraft(l, Limit) = 2 ^ Limit
  BY <1>1, TermsAre, PowerIs DEF Full
<1>3. CASE m >= Limit
  <2>1. Limit \in 0 .. m  BY <1>1, <1>3
  <2>2. Kraft(l, m) = 2 ^ (m - Limit) * Kraft(l, Limit)  BY <1>1, <2>1, KraftOfLonger
  <2>3. 2 ^ m = 2 ^ (m - Limit) * 2 ^ Limit  BY <1>1, <1>3, PowerOfLess
  <2>. QED  BY <1>2, <2>2, <2>3
<1>4. CASE m < Limit
  <2>1. m \in 0 .. Limit /\ Limit >= m  BY <1>1, <1>4
  <2>2. PICK c, x, y : c = 2 ^ (Limit - m) /\ x = Kraft(l, m) /\ y = 2 ^ m  OBVIOUS
  <2>3. c * x <= Kraft(l, Limit)  BY <1>1, <2>1, <2>2, KraftOfLonger
  <2>4. 2 ^ Limit = c * y /\ c \in Nat \ {0}  BY <1>1, <2>1, <2>2, PowerOfLess
  <2>5. c * x <= c * y /\ x \in Nat /\ y \in Nat  BY <1>2, <2>2, <2>3, <2>4
  <2>6. x <= y  BY <2>4, <2>5
  <2>. QED  BY <1>4, <2>2, <2>6, <1>1
<1>. QED  BY <1>1, <1>3, <1>4

LEMMA DecoderBuilds ==
  ASSUME Full(Heard) \/ \A s \in Alphabet : Heard[s] = 0
  PROVE  Decoder!Builds
<1>1. maxTreePath \in Nat /\ Limit \in Nat /\ Limit <= maxTreePath  BY HuffmanConstants
<1>2. CASE \A s \in Alphabet : Heard[s] = 0
  BY <1>1, <1>2 DEF Decoder!Builds, Heard
<1>3. CASE Full(Heard)
  <2>1. Heard \in [Alphabet -> Nat] /\ \A s \in Alphabet : Heard[s] <= Limit  BY <1>3 DEF Full
  <2>2. \A s \in Alphabet : Heard[s] <= maxTreePath
    <3>. TAKE s \in Alphabet
    <3>1. Heard[s] \in Nat /\ Heard[s] <= Limit  BY <2>1
    <3>. QED  BY <1>1, <3>1
  <2>3. \A m \in 1 .. maxTreePath : Decoder!Left[m] >= 0
    <3>. TAKE m \in 1 .. maxTreePath
    <3>1. m \in Nat /\ m \in 0 .. maxTreePath  OBVIOUS
    <3>2. Decoder!Left[m] = 2 ^ m - Kraft(Heard, m)  BY <2>1, <3>1, LeftIs
    <3>3. Kraft(Heard, m) \in Nat /\ 2 ^ m \in Nat /\ Kraft(Heard, m) <= 2 ^ m
      BY <1>3, <2>1, <3>1, FullIs, TermsAre, PowerIs
    <3>. QED  BY <3>2, <3>3
  <2>4. Decoder!Left[maxTreePath] = 0
    <3>1. Decoder!Left[maxTreePath] = 2 ^ maxTreePath - Kraft(Heard, maxTreePath)
      BY <1>1, <2>1, LeftIs
    <3>2. Kraft(Heard, maxTreePath) = 2 ^ maxTreePath /\ 2 ^ maxTreePath \in Nat
      BY <1>1, <1>3, FullIs, PowerIs
    <3>. QED  BY <3>1, <3>2
  <2>. QED  BY <2>2, <2>3, <2>4 DEF Decoder!Builds, Heard
<1>. QED  BY <1>2, <1>3

LEMMA QuotientIs ==
  ASSUME NEW a \in Nat, NEW p \in Nat \ {0}, NEW q \in Nat, q * p <= a, a < q * p + p
  PROVE  a \div p = q
<1>1. PICK r \in Nat : r = a - q * p /\ r < p
  <2>1. q * p \in Nat  OBVIOUS
  <2>2. a - q * p \in Nat /\ a - q * p < p  BY <2>1
  <2>. QED  BY <2>2
<1>2. a = q * p + r  BY <1>1
<1>3. (q * p + r) \div p = q  BY <1>1
<1>. QED  BY <1>2, <1>3

LEMMA HalfQuotient ==
  ASSUME NEW a \in Nat, NEW p \in Nat \ {0}
  PROVE  a \div p = 2 * (a \div (2 * p)) + ((a \div p) % 2) /\ a \div p \in Nat
<1>1. PICK u \in Nat, r \in 0 .. p - 1 : u = a \div p /\ a = u * p + r
  <2>1. a \div p \in Nat /\ a % p \in 0 .. p - 1 /\ a = (a \div p) * p + (a % p)  OBVIOUS
  <2>. QED  BY <2>1
<1>2. PICK h \in Nat, e \in {0, 1} : u = 2 * h + e /\ e = u % 2
  <2>1. u \div 2 \in Nat /\ u % 2 \in {0, 1} /\ u = 2 * (u \div 2) + (u % 2)  OBVIOUS
  <2>. QED  BY <2>1
<1>3. u * p = h * (2 * p) + e * p
  <2>1. u * p = (2 * h + e) * p  BY <1>2
  <2>. QED  BY <2>1
<1>4. e * p \in {0, p} /\ h * (2 * p) \in Nat /\ 2 * p \in Nat \ {0}  BY <1>2
<1>5. h * (2 * p) <= a /\ a < h * (2 * p) + 2 * p
  <2>1. PICK x \in Nat, y \in {0, p} : x = h * (2 * p) /\ y = e * p  BY <1>4
  <2>2. a = x + y + r  BY <1>1, <1>3, <2>1
  <2>. QED  BY <2>1, <2>2
<1>6. a \div (2 * p) = h  BY <1>4, <1>5, QuotientIs
<1>. QED  BY <1>1, <1>2, <1>6

(* The first bits of a word of m bits are the word without the others.     *)
LEMMA WordIs ==
  ASSUME NEW m \in Nat, NEW c \in Nat, NEW q \in 1 .. m
  PROVE  /\ c \div 2 ^ (m - q) = 2 * (c \div 2 ^ (m - (q - 1))) + ((c \div 2 ^ (m - q)) % 2)
         /\ c \div 2 ^ (m - q) \in Nat
<1>1. m - q \in Nat /\ m - (q - 1) = (m - q) + 1  OBVIOUS
<1>2. 2 ^ (m - (q - 1)) = 2 * 2 ^ (m - q) /\ 2 ^ (m - q) \in Nat \ {0}
  BY <1>1, PowerOfNext, PowerIs
<1>. QED  BY <1>2, HalfQuotient

(* How many symbols have a shorter code.                                   *)
Shorter(l, m) == Cardinality({s \in Alphabet : l[s] \in 1 .. m - 1})

LEMMA ShorterStep ==
  ASSUME NEW l \in [Alphabet -> Nat], NEW m \in Nat \ {0}
  PROVE  /\ Shorter(l, m) = Shorter(l, m - 1) + CountOf(l, m - 1)
         /\ Shorter(l, 0) = 0 /\ Shorter(l, m) \in Nat /\ Shorter(l, m - 1) \in Nat
<1>. DEFINE S(x) == {s \in Alphabet : l[s] \in 1 .. x - 1}
            H == HavingOf(l, m - 1)
<1>1. \A x : IsFiniteSet(S(x)) /\ Cardinality(S(x)) \in Nat
  <2>. TAKE x
  <2>1. S(x) \in SUBSET Alphabet  OBVIOUS
  <2>2. IsFiniteSet(S(x))
    <3>. HIDE DEF S
    <3>. QED  BY <2>1, UsedIs, FS_Subset
  <2>. QED  BY <2>2, FS_CardinalityType
<1>2. S(0) = {} /\ S(1) = {}
  <2>1. 1 .. 0 - 1 = {} /\ 1 .. 1 - 1 = {}  OBVIOUS
  <2>. QED  BY <2>1
<1>3. \A x : Shorter(l, x) = Cardinality(S(x))  BY DEF Shorter
<1>4. Shorter(l, 0) = 0 /\ Shorter(l, 1) = 0
  <2>. HIDE DEF S
  <2>. QED  BY <1>2, <1>3, FS_EmptySet
<1>5. CASE m = 1
  <2>1. m - 1 = 0 /\ CountOf(l, 0) = 0  BY <1>5 DEF CountOf
  <2>. QED  BY <1>4, <1>5, <2>1
<1>6. CASE m # 1
  <2>1. m - 1 # 0 /\ m - 1 \in Nat  BY <1>6
  <2>2. S(m) = S(m - 1) \cup H
    <3>1. ASSUME NEW s \in Alphabet
          PROVE  l[s] \in 1 .. m - 1 <=> (l[s] \in 1 .. (m - 1) - 1 \/ l[s] = m - 1)
      BY <2>1
    <3>. QED  BY <3>1 DEF HavingOf
  <2>3. S(m - 1) \cap H = {}
    <3>1. \A s \in Alphabet : ~(l[s] \in 1 .. (m - 1) - 1 /\ l[s] = m - 1)  BY <2>1
    <3>. QED  BY <3>1 DEF HavingOf
  <2>4. IsFiniteSet(H) /\ CountOf(l, m - 1) = Cardinality(H) /\ Cardinality(H) \in Nat
    BY <2>1, CountIs, FS_CardinalityType DEF CountOf
  <2>. HIDE DEF S, H
  <2>5. Cardinality(S(m)) = Cardinality(S(m - 1)) + Cardinality(H) - Cardinality({})
    BY <1>1, <2>2, <2>3, <2>4, FS_Union
  <2>. QED  BY <1>1, <1>3, <1>4, <2>4, <2>5, FS_EmptySet
<1>. QED  BY <1>5, <1>6

(* A symbol's code is the first of its length, and as many further as      *)
(* there are symbols before it.                                            *)
Ahead(l, s) == Cardinality({u \in HavingOf(l, l[s]) : u < s})

LEMMA AheadIs ==
  ASSUME NEW l \in [Alphabet -> Nat], NEW s \in Alphabet, l[s] > 0
  PROVE  Ahead(l, s) \in Nat /\ Ahead(l, s) < CountOf(l, l[s])
<1>. DEFINE H == HavingOf(l, l[s])
            B == {u \in H : u < s}
<1>1. IsFiniteSet(H) /\ CountOf(l, l[s]) = Cardinality(H) /\ Cardinality(H) \in Nat
  BY CountIs, FS_CardinalityType DEF CountOf
<1>2. B \in SUBSET H /\ s \in H /\ s \notin B  BY UsedIs DEF HavingOf
<1>. HIDE DEF H, B
<1>3. IsFiniteSet(B) /\ Cardinality(B) <= Cardinality(H)
      /\ (Cardinality(H) = Cardinality(B) => H = B)
  BY <1>1, <1>2, FS_Subset
<1>4. Cardinality(B) \in Nat  BY <1>3, FS_CardinalityType
<1>5. Ahead(l, s) = Cardinality(B)  BY DEF Ahead, H, B
<1>. QED  BY <1>1, <1>2, <1>3, <1>4, <1>5

LEMMA CodeIs ==
  ASSUME Full(lens), NEW s \in Alphabet, lens[s] > 0
  PROVE  /\ Huffman!Code(s) = FirstOf(lens, lens[s]) + Ahead(lens, s)
         /\ Huffman!Code(s) \in Nat /\ Huffman!Code(s) < 2 ^ lens[s]
         /\ \A m \in 1 .. lens[s] - 1 : Kraft(lens, m) <= Huffman!Code(s) \div 2 ^ (lens[s] - m)
<1>. DEFINE d == lens[s]
            c == Huffman!Code(s)
<1>1. lens \in [Alphabet -> Nat] /\ d \in Nat \ {0} /\ d \in 0 .. maxTreePath
  BY HuffmanConstants DEF Full
<1>2. c = FirstOf(lens, d) + Ahead(lens, s)
  <2>1. Huffman!FirstCode[d] = FirstOf(lens, d)  BY <1>1, FirstCodeIs
  <2>2. Huffman!Having(d) = HavingOf(lens, d)  BY DEF Huffman!Having, HavingOf
  <2>. QED  BY <2>1, <2>2, SameCardinality DEF Huffman!Code, Ahead
<1>. HIDE DEF d
<1>3. d = lens[s]  BY DEF d
<1>4. FirstOf(lens, d) \in Nat /\ FirstOf(lens, d) + CountOf(lens, d) = Kraft(lens, d)
  BY <1>1, FirstStep
<1>5. Ahead(lens, s) \in Nat /\ Ahead(lens, s) < CountOf(lens, d) /\ CountOf(lens, d) \in Nat
  BY <1>1, <1>3, AheadIs, CountIs
<1>. HIDE DEF c
<1>6. c \in Nat /\ c < Kraft(lens, d) /\ FirstOf(lens, d) <= c  BY <1>2, <1>4, <1>5
<1>7. Kraft(lens, d) <= 2 ^ d /\ Kraft(lens, d) \in Nat /\ 2 ^ d \in Nat
  BY <1>1, FullIs, TermsAre, PowerIs
<1>8. ASSUME NEW m \in 1 .. d - 1 PROVE Kraft(lens, m) <= c \div 2 ^ (d - m)
  <2>1. m \in 0 .. d - 1 /\ d - 1 \in Nat /\ (d - 1) - m \in Nat /\ d - m = ((d - 1) - m) + 1 /\ m \in Nat
    BY <1>1
  <2>2. PICK x, y, p : x = 2 ^ ((d - 1) - m) /\ y = Kraft(lens, m) /\ p = 2 ^ (d - m)  OBVIOUS
  <2>3. x \in Nat \ {0} /\ y \in Nat /\ p = 2 * x  BY <1>1, <2>1, <2>2, TermsAre, PowerIs, PowerOfNext
  <2>4. x * y <= Kraft(lens, d - 1) /\ Kraft(lens, d - 1) \in Nat
    BY <1>1, <2>1, <2>2, KraftOfLonger, TermsAre
  <2>5. FirstOf(lens, d) = 2 * Kraft(lens, d - 1)  BY <1>1 DEF FirstOf
  <2>6. 2 * (x * y) <= c
    <3>1. x * y \in Nat  BY <2>3
    <3>. QED  BY <1>6, <2>4, <2>5, <3>1
  <2>7. 2 * (x * y) = p * y /\ p \in Nat \ {0}  BY <2>3
  <2>8. PICK u \in Nat, r \in 0 .. p - 1 : u = c \div p /\ c = u * p + r
    <3>1. c \div p \in Nat /\ c % p \in 0 .. p - 1 /\ c = (c \div p) * p + (c % p)  BY <1>6, <2>7
    <3>. QED  BY <3>1
  <2>9. y <= u
    <3>. SUFFICES ASSUME y > u PROVE FALSE  BY <2>3, <2>8
    <3>1. y >= u + 1  BY <2>3, <2>8
    <3>2. p * y >= p * (u + 1)  BY <2>3, <2>7, <2>8, <3>1
    <3>3. p * (u + 1) = u * p + p  BY <2>7, <2>8
    <3>4. PICK v \in Nat : v = u * p  BY <2>7, <2>8
    <3>5. p * y >= v + p /\ c < v + p  BY <2>7, <2>8, <3>2, <3>3, <3>4
    <3>6. p * y <= c /\ p * y \in Nat  BY <2>3, <2>6, <2>7
    <3>. QED  BY <1>6, <2>7, <3>4, <3>5, <3>6
  <2>. QED  BY <2>2, <2>8, <2>9
<1>. QED  BY <1>2, <1>3, <1>6, <1>7, <1>8 DEF c

(* The words of the first bits of b.                                       *)
Words(c, b, t) ==
  /\ c \in [0 .. t -> Nat] /\ c[0] = 0
  /\ \A q \in 1 .. t : c[q] = 2 * c[q - 1] + b[q]

(* sym, when the code that it has read is in range first at d bits.        *)
LEMMA SymIs ==
  ASSUME Heard \in [Alphabet -> Nat], NEW t \in Nat, t = maxTreePath, NEW b, Len(b) = t,
         NEW c, Words(c, b, t),
         NEW d \in 1 .. t, c[d] - FirstOf(Heard, d) < CountOf(Heard, d),
         \A q \in 1 .. d - 1 : ~(c[q] - FirstOf(Heard, q) < CountOf(Heard, q))
  PROVE  Decoder!Sym(b)
           = <<Decoder!Symbols[Shorter(Heard, d) + c[d] - FirstOf(Heard, d) + 1], d>>
<1>. DEFINE w == CHOOSE w : w =
              [q \in 0 .. t |->
                 IF q = 0 THEN [code |-> 0, first |-> 0, index |-> 0]
                 ELSE LET p == w[q - 1] IN
                      [code |-> 2 * p.code + b[q], first |-> 2 * (p.first + Decoder!Count(q - 1)),
                       index |-> p.index + Decoder!Count(q - 1)]]
            g == [q \in 0 .. t |->
                    [code |-> c[q], first |-> FirstOf(Heard, q), index |-> Shorter(Heard, q)]]
            N(q, p) == [code |-> 2 * p.code + b[q], first |-> 2 * (p.first + Decoder!Count(q - 1)),
                        index |-> p.index + Decoder!Count(q - 1)]
            Z == [code |-> 0, first |-> 0, index |-> 0]
            ends == {q \in 1 .. t : w[q].code - w[q].first < Decoder!Count(q)}
<1>1. Decoder!Sym(b)
      = IF ends = {} THEN <<>>
        ELSE <<Decoder!Symbols[w[Decoder!Min(ends)].index + w[Decoder!Min(ends)].code
                                 - w[Decoder!Min(ends)].first + 1], Decoder!Min(ends)>>
  BY DEF Decoder!Sym
<1>2. \A q \in 0 .. t : g[q] = IF q = 0 THEN Z ELSE N(q, g[q - 1])
  <2>. TAKE q \in 0 .. t
  <2>1. CASE q = 0
    <3>1. 1 \in Nat \ {0}  OBVIOUS
    <3>2. FirstOf(Heard, 0) = 0 /\ Shorter(Heard, 0) = 0  BY <3>1, ShorterStep DEF FirstOf
    <3>3. c[0] = 0  BY DEF Words
    <3>. QED  BY <2>1, <3>2, <3>3
  <2>2. CASE q # 0
    <3>1. q \in Nat \ {0} /\ q - 1 \in 0 .. t /\ q \in 1 .. t  BY <2>2
    <3>2. FirstOf(Heard, q) = 2 * (FirstOf(Heard, q - 1) + CountOf(Heard, q - 1))
      BY <3>1, FirstStep
    <3>3. Shorter(Heard, q) = Shorter(Heard, q - 1) + CountOf(Heard, q - 1)  BY <3>1, ShorterStep
    <3>4. Decoder!Count(q - 1) = CountOf(Heard, q - 1)  BY CountsAre
    <3>5. c[q] = 2 * c[q - 1] + b[q]  BY <3>1 DEF Words
    <3>6. g[q - 1] = [code |-> c[q - 1], first |-> FirstOf(Heard, q - 1), index |-> Shorter(Heard, q - 1)]
      BY <3>1
    <3>7. g[q] = [code |-> c[q], first |-> FirstOf(Heard, q), index |-> Shorter(Heard, q)]
      OBVIOUS
    <3>. HIDE DEF g
    <3>. QED  BY <2>2, <3>2, <3>3, <3>4, <3>5, <3>6, <3>7
  <2>. QED  BY <2>1, <2>2
<1>3. g = [q \in 0 .. t |-> g[q]]  OBVIOUS
<1>4. \A q \in 0 .. t : /\ g[q].code = c[q] /\ g[q].first = FirstOf(Heard, q)
                        /\ g[q].index = Shorter(Heard, q)
  OBVIOUS
<1>. HIDE DEF g
<1>5. w = [q \in 0 .. t |-> IF q = 0 THEN Z ELSE N(q, w[q - 1])]
  <2>. DEFINE A(x) == x = [q \in 0 .. t |-> IF q = 0 THEN Z ELSE N(q, x[q - 1])]
  <2>1. A(g)
    <3>. HIDE DEF N, Z
    <3>. QED  BY <1>2, <1>3
  <2>2. w = CHOOSE x : A(x)  OBVIOUS
  <2>. HIDE DEF A, w, N, Z
  <2>3. A(w)  BY <2>1, <2>2
  <2>. QED  BY <2>3 DEF A
<1>. HIDE DEF w, N, Z
<1>6. \A q \in 0 .. t : w[q] = g[q]
  <2>1. w[0] = g[0]  BY <1>2, <1>5
  <2>2. ASSUME NEW q \in 1 .. t, w[q - 1] = g[q - 1] PROVE w[q] = g[q]
    <3>1. q \in 0 .. t /\ q # 0 /\ q - 1 \in 0 .. t  OBVIOUS
    <3>2. w[q] = N(q, w[q - 1])  BY <1>5, <3>1
    <3>3. g[q] = N(q, g[q - 1])  BY <1>2, <3>1
    <3>. QED  BY <2>2, <3>2, <3>3
  <2>. DEFINE S == {q \in Nat : w[q] = g[q]}
  <2>3. 0 \in S /\ \A q \in 1 .. t : q - 1 \in S => q \in S  BY <2>1, <2>2
  <2>. HIDE DEF S
  <2>4. 0 .. t \subseteq S  BY <2>3, StepByStep
  <2>. QED  BY <2>4 DEF S
<1>7. ends = {q \in 1 .. t : c[q] - FirstOf(Heard, q) < CountOf(Heard, q)}
  <2>1. ASSUME NEW q \in 1 .. t
        PROVE  /\ w[q].code = c[q] /\ w[q].first = FirstOf(Heard, q)
               /\ Decoder!Count(q) = CountOf(Heard, q)
    <3>1. q \in 0 .. t  OBVIOUS
    <3>. QED  BY <3>1, <1>4, <1>6, CountsAre
  <2>. QED  BY <2>1
<1>. HIDE DEF ends
<1>8. Decoder!Min(ends) = d
  <2>1. d \in ends /\ ends \subseteq Int  BY <1>7
  <2>2. \A y \in ends : d <= y
    <3>. TAKE y \in ends
    <3>1. y \in 1 .. t /\ ~(y \in 1 .. d - 1)  BY <1>7
    <3>. QED  BY <3>1
  <2>3. \A x \in ends : (\A y \in ends : x <= y) => x = d  BY <2>1, <2>2
  <2>. QED  BY <2>1, <2>2, <2>3 DEF Decoder!Min
<1>9. ends # {}  BY <1>7
<1>10. d \in 0 .. t  OBVIOUS
<1>. QED  BY <1>1, <1>4, <1>6, <1>8, <1>9, <1>10

-----------------------------------------------------------------------------
(* The symbols with a code, by its length and by themselves.               *)
Voiced(l) == {s \in Alphabet : l[s] # 0}

ByLength(l) ==
  {p \in Voiced(l) \X Voiced(l) : l[p[1]] < l[p[2]] \/ (l[p[1]] = l[p[2]] /\ p[1] < p[2])}

LEMMA SymbolsAre ==
  ASSUME Heard \in [Alphabet -> Nat]
  PROVE  IsInOrder(Decoder!Symbols, Voiced(Heard), ByLength(Heard))
<1>. DEFINE V == Voiced(Heard)
            R == ByLength(Heard)
            less(a, b) == Heard[a] < Heard[b] \/ (Heard[a] = Heard[b] /\ a < b)
<1>1. \A s \in V : Heard[s] \in Nat /\ s \in Nat  BY UsedIs DEF Voiced
<1>2. \A a, b \in V : <<a, b>> \in R <=> less(a, b)  BY DEF ByLength
<1>3. Orders(V, R)
  <2>1. \A a, b \in V : a # b => less(a, b) \/ less(b, a)  BY <1>1
  <2>2. \A a, b, c \in V : less(a, b) /\ less(b, c) => less(a, c)  BY <1>1
  <2>3. \A a \in V : ~less(a, a)  BY <1>1
  <2>. HIDE DEF less, R, V
  <2>. QED  BY <1>2, <2>1, <2>2, <2>3 DEF Orders
<1>4. \A s \in V : {u \in V : less(u, s)} = {u \in V : <<u, s>> \in R}  BY <1>2
<1>5. \A s \in V : Cardinality({u \in V : less(u, s)}) = RankOf(V, R, s)
  <2>. HIDE DEF less, R, V
  <2>. QED  BY <1>4 DEF RankOf
<1>6. Decoder!Symbols
      = [m \in 1 .. Decoder!Cardinality(V) |->
           CHOOSE s \in V : Decoder!Cardinality({u \in V : less(u, s)}) = m - 1]
  BY DEF Decoder!Symbols, Decoder!InOrder, Voiced, Heard
<1>7. Decoder!Symbols = [m \in 1 .. Cardinality(V) |-> CHOOSE s \in V : RankOf(V, R, s) = m - 1]
  <2>0. \A S : Decoder!Cardinality(S) = Cardinality(S)
    BY DEF Decoder!Cardinality, Cardinality, Decoder!IsFiniteSet, IsFiniteSet
  <2>1. \A s \in V : Decoder!Cardinality({u \in V : less(u, s)}) = RankOf(V, R, s)
    BY <1>5, <2>0
  <2>2. Decoder!Cardinality(V) = Cardinality(V)  BY <2>0
  <2>. HIDE DEF less, R, V
  <2>. QED  BY <1>6, <2>1, <2>2
<1>8. IsFiniteSet(V)
  <2>1. V \in SUBSET Alphabet  BY DEF Voiced
  <2>. HIDE DEF V
  <2>. QED  BY <2>1, UsedIs, FS_Subset
<1>. QED  BY <1>3, <1>7, <1>8, InOrderIs

(* A symbol's place: behind those of shorter codes, and those of the same  *)
(* length that are ahead.                                                  *)
LEMMA RankIs ==
  ASSUME NEW l \in [Alphabet -> Nat], NEW s \in Alphabet, l[s] > 0
  PROVE  s \in Voiced(l) /\ RankOf(Voiced(l), ByLength(l), s) = Shorter(l, l[s]) + Ahead(l, s)
<1>. DEFINE B == {u \in Voiced(l) : <<u, s>> \in ByLength(l)}
            X == {u \in Alphabet : l[u] \in 1 .. l[s] - 1}
            Y == {u \in HavingOf(l, l[s]) : u < s}
<1>1. s \in Voiced(l)  BY DEF Voiced
<1>2. B = X \cup Y
  <2>1. ASSUME NEW u \in Alphabet
        PROVE  u \in B <=> u \in X \/ u \in Y
    <3>1. l[u] \in Nat /\ l[s] \in Nat /\ u \in Nat /\ s \in Nat  BY UsedIs
    <3>2. u \in B <=> l[u] # 0 /\ (l[u] < l[s] \/ (l[u] = l[s] /\ u < s))
      BY <1>1 DEF ByLength, Voiced
    <3>3. u \in X <=> l[u] # 0 /\ l[u] < l[s]  BY <3>1
    <3>4. u \in Y <=> l[u] = l[s] /\ u < s  BY DEF HavingOf
    <3>. QED  BY <3>1, <3>2, <3>3, <3>4
  <2>2. B \subseteq Alphabet /\ X \subseteq Alphabet /\ Y \subseteq Alphabet
    BY DEF Voiced, HavingOf
  <2>. HIDE DEF B, X, Y
  <2>. QED  BY <2>1, <2>2
<1>3. X \cap Y = {}
  <2>1. l[s] \in Nat  OBVIOUS
  <2>2. ~(l[s] \in 1 .. l[s] - 1)  BY <2>1
  <2>. QED  BY <2>2 DEF HavingOf
<1>4. IsFiniteSet(X) /\ IsFiniteSet(Y)
  <2>1. X \in SUBSET Alphabet /\ Y \in SUBSET Alphabet  BY DEF HavingOf
  <2>. HIDE DEF X, Y
  <2>. QED  BY <2>1, UsedIs, FS_Subset
<1>5. RankOf(Voiced(l), ByLength(l), s) = Cardinality(B)  BY DEF RankOf
<1>6. Shorter(l, l[s]) = Cardinality(X) /\ Ahead(l, s) = Cardinality(Y)  BY DEF Shorter, Ahead
<1>. HIDE DEF B, X, Y
<1>7. Cardinality(B) = Cardinality(X) + Cardinality(Y) - Cardinality({})
  BY <1>2, <1>3, <1>4, FS_Union
<1>8. Cardinality({}) = 0 /\ Cardinality(X) \in Nat /\ Cardinality(Y) \in Nat
  BY <1>4, FS_EmptySet, FS_CardinalityType
<1>. QED  BY <1>1, <1>5, <1>6, <1>7, <1>8

-----------------------------------------------------------------------------
(* The decoder that has read the lengths finds a symbol by its bits.       *)
LEMMA SymbolIsFound ==
  ASSUME Full(lens), Heard = lens, NEW s \in Alphabet, lens[s] > 0, NEW next \in {0, 1}
  PROVE  Decoder!Sym(Huffman!Bits(s) \o [b \in 1 .. maxTreePath - lens[s] |-> next])
           = <<s, lens[s]>>
<1>1. PICK t \in Nat : t = maxTreePath  BY HuffmanConstants
<1>2. PICK d : d = lens[s]  OBVIOUS
<1>3. lens \in [Alphabet -> Nat] /\ d \in 1 .. t /\ d \in Nat \ {0} /\ t - d \in Nat
  <2>1. lens \in [Alphabet -> Nat] /\ lens[s] <= Limit /\ Limit <= t /\ Limit \in Nat
    BY <1>1, HuffmanConstants DEF Full
  <2>. QED  BY <1>2, <2>1
<1>4. PICK k1 : k1 = Huffman!Code(s)  OBVIOUS
<1>5. /\ k1 = FirstOf(lens, d) + Ahead(lens, s) /\ k1 \in Nat /\ k1 < 2 ^ d
      /\ \A m \in 1 .. d - 1 : Kraft(lens, m) <= k1 \div 2 ^ (d - m)
  BY <1>2, <1>4, CodeIs
<1>6. PICK p, r, b :
        /\ p = Huffman!Bits(s) /\ r = [e \in 1 .. t - d |-> next] /\ b = p \o r
  OBVIOUS
<1>7. p = [q \in 1 .. d |-> (k1 \div 2 ^ (d - q)) % 2]  BY <1>2, <1>4, <1>6 DEF Huffman!Bits
<1>8. \A q \in 1 .. d : /\ (k1 \div 2 ^ (d - q)) % 2 \in Nat
                        /\ k1 \div 2 ^ (d - q) \in Nat
                        /\ k1 \div 2 ^ (d - q) = 2 * (k1 \div 2 ^ (d - (q - 1))) + ((k1 \div 2 ^ (d - q)) % 2)
  <2>. TAKE q \in 1 .. d
  <2>1. /\ k1 \div 2 ^ (d - q) = 2 * (k1 \div 2 ^ (d - (q - 1))) + ((k1 \div 2 ^ (d - q)) % 2)
        /\ k1 \div 2 ^ (d - q) \in Nat
    BY <1>3, <1>5, WordIs
  <2>2. \A x \in Nat : x % 2 \in Nat  OBVIOUS
  <2>. QED  BY <2>1, <2>2
<1>9. p \in [1 .. d -> Nat] /\ r \in [1 .. t - d -> Nat]  BY <1>6, <1>7, <1>8
<1>10. p \in Seq(Nat) /\ Len(p) = d /\ r \in Seq(Nat) /\ Len(r) = t - d
  <2>1. ASSUME NEW z \in Nat, NEW g \in [1 .. z -> Nat] PROVE g \in Seq(Nat) /\ Len(g) = z
    BY SeqDef, LenProperties
  <2>. QED  BY <1>3, <1>9, <2>1
<1>11. /\ b \in Seq(Nat) /\ Len(b) = t
       /\ \A q \in 1 .. t : b[q] = IF q <= d THEN p[q] ELSE r[q - d]
  <2>1. d + (t - d) = t  BY <1>3
  <2>2. /\ p \o r \in Seq(Nat) /\ Len(p \o r) = Len(p) + Len(r)
        /\ \A q \in 1 .. Len(p) + Len(r) : (p \o r)[q] = IF q <= Len(p) THEN p[q] ELSE r[q - Len(p)]
    <3>1. p \in Seq(Nat) /\ r \in Seq(Nat)  BY <1>10
    <3>. QED  BY <3>1, ConcatProperties
  <2>. QED  BY <1>6, <1>10, <2>1, <2>2
<1>12. \A q \in 1 .. t : b[q] \in Nat
  <2>. TAKE q \in 1 .. t
  <2>1. q \in 1 .. Len(b)  BY <1>11
  <2>. QED  BY <1>11, <2>1, ElementOfSeq
<1>13. PICK c \in [0 .. t -> Nat] : c[0] = 0 /\ \A q \in 1 .. t : c[q] = 2 * c[q - 1] + b[q]
  <2>. DEFINE F == [q \in 1 .. t |-> [x \in Nat |-> 2 * x + b[q]]]
  <2>1. F \in [1 .. t -> [Nat -> Nat]]  BY <1>12
  <2>2. IsLoop(Nat, t, 0, F)  BY <2>1 DEF IsLoop
  <2>3. \A q \in 1 .. t : \A x \in Nat : F[q][x] = 2 * x + b[q]  OBVIOUS
  <2>. HIDE DEF F
  <2>4. PICK c : IsRun(c, Nat, t, 0, F)  BY <2>2, LoopRuns
  <2>5. c \in [0 .. t -> Nat] /\ c[0] = 0 /\ \A q \in 1 .. t : c[q] = F[q][c[q - 1]]
    BY <2>4 DEF IsRun
  <2>6. \A q \in 1 .. t : c[q] = 2 * c[q - 1] + b[q]
    <3>. TAKE q \in 1 .. t
    <3>1. c[q - 1] \in Nat  BY <2>5
    <3>. QED  BY <2>3, <2>5, <3>1
  <2>. QED  BY <2>5, <2>6
<1>14. \A q \in 0 .. d : c[q] = k1 \div 2 ^ (d - q)
  <2>. DEFINE g == [q \in 0 .. d |-> k1 \div 2 ^ (d - q)]
  <2>1. c[0] = g[0]
    <3>1. d - 0 = d /\ 0 \in 0 .. d  BY <1>3
    <3>2. g[0] = k1 \div 2 ^ d  BY <3>1
    <3>3. k1 \div 2 ^ d = 0
      <4>1. PICK x \in Nat \ {0} : x = 2 ^ d  BY <1>3, PowerIs
      <4>2. 0 * x <= k1 /\ k1 < 0 * x + x  BY <1>5, <4>1
      <4>3. 0 \in Nat  OBVIOUS
      <4>. QED  BY <1>5, <4>1, <4>2, <4>3, QuotientIs
    <3>. QED  BY <1>13, <3>2, <3>3
  <2>2. ASSUME NEW q \in 1 .. d, c[q - 1] = g[q - 1] PROVE c[q] = g[q]
    <3>1. q \in 1 .. t /\ q - 1 \in 0 .. d /\ q \in 0 .. d /\ q <= d  BY <1>3
    <3>2. b[q] = (k1 \div 2 ^ (d - q)) % 2  BY <1>7, <1>11, <3>1
    <3>3. c[q] = 2 * c[q - 1] + b[q]  BY <1>13, <3>1
    <3>4. g[q] = k1 \div 2 ^ (d - q) /\ g[q - 1] = k1 \div 2 ^ (d - (q - 1))  BY <3>1
    <3>. HIDE DEF g
    <3>. QED  BY <1>8, <2>2, <3>2, <3>3, <3>4
  <2>3. d \in Nat  BY <1>3
  <2>4. \A q \in 0 .. d : g[q] = k1 \div 2 ^ (d - q)  OBVIOUS
  <2>. HIDE DEF g
  <2>. DEFINE S == {q \in Nat : c[q] = g[q]}
  <2>5. 0 \in S /\ \A q \in 1 .. d : q - 1 \in S => q \in S  BY <2>1, <2>2
  <2>. HIDE DEF S
  <2>6. 0 .. d \subseteq S  BY <2>3, <2>5, StepByStep
  <2>. QED  BY <2>4, <2>6 DEF S
<1>15. c[d] = k1
  <2>1. d \in 0 .. d /\ d - d = 0  BY <1>3
  <2>2. k1 \div 1 = k1  BY <1>5
  <2>. QED  BY <1>14, <2>1, <2>2, PowerOfZero
<1>16. /\ Ahead(lens, s) \in Nat /\ Ahead(lens, s) < CountOf(lens, d)
       /\ FirstOf(lens, d) \in Nat /\ Shorter(lens, d) \in Nat
  BY <1>2, <1>3, AheadIs, FirstStep, ShorterStep
<1>17. c[d] - FirstOf(lens, d) = Ahead(lens, s)  BY <1>5, <1>15, <1>16
<1>18. \A q \in 1 .. d - 1 : ~(c[q] - FirstOf(lens, q) < CountOf(lens, q))
  <2>. TAKE q \in 1 .. d - 1
  <2>1. q \in 0 .. d /\ q \in Nat \ {0} /\ q \in 0 .. t  BY <1>3
  <2>2. c[q] = k1 \div 2 ^ (d - q)  BY <1>14, <2>1
  <2>3. Kraft(lens, q) <= c[q]  BY <1>5, <2>2
  <2>4. FirstOf(lens, q) + CountOf(lens, q) = Kraft(lens, q) /\ FirstOf(lens, q) \in Nat
    BY <1>3, <2>1, FirstStep
  <2>5. CountOf(lens, q) \in Nat /\ c[q] \in Nat  BY <1>13, <2>1, CountIs
  <2>. QED  BY <2>3, <2>4, <2>5
<1>19. Decoder!Sym(b)
       = <<Decoder!Symbols[Shorter(lens, d) + c[d] - FirstOf(lens, d) + 1], d>>
  <2>1. c[d] - FirstOf(Heard, d) < CountOf(Heard, d)  BY <1>16, <1>17
  <2>2. Heard \in [Alphabet -> Nat]  BY <1>3
  <2>3. \A q \in 1 .. d - 1 : ~(c[q] - FirstOf(Heard, q) < CountOf(Heard, q))  BY <1>18
  <2>4. Decoder!Sym(b)
        = <<Decoder!Symbols[Shorter(Heard, d) + c[d] - FirstOf(Heard, d) + 1], d>>
    <3>1. Words(c, b, t)  BY <1>13 DEF Words
    <3>2. d \in 1 .. t /\ Len(b) = t /\ t \in Nat /\ t = maxTreePath  BY <1>1, <1>3, <1>11
    <3>. QED  BY <2>1, <2>2, <2>3, <3>1, <3>2, SymIs
  <2>. QED  BY <2>4
<1>20. Decoder!Symbols[Shorter(lens, d) + Ahead(lens, s) + 1] = s
  <2>1. IsInOrder(Decoder!Symbols, Voiced(lens), ByLength(lens))  BY <1>3, SymbolsAre
  <2>2. s \in Voiced(lens)
        /\ RankOf(Voiced(lens), ByLength(lens), s) = Shorter(lens, d) + Ahead(lens, s)
    BY <1>2, <1>3, RankIs
  <2>. QED  BY <2>1, <2>2 DEF IsInOrder
<1>21. Shorter(lens, d) + c[d] - FirstOf(lens, d) = Shorter(lens, d) + Ahead(lens, s)
  <2>1. PICK x, y, z : x = Shorter(lens, d) /\ y = FirstOf(lens, d) /\ z = Ahead(lens, s)  OBVIOUS
  <2>2. x \in Nat /\ y \in Nat /\ z \in Nat /\ c[d] = y + z  BY <1>5, <1>15, <1>16, <2>1
  <2>3. x + c[d] - y = x + z  BY <2>2
  <2>. QED  BY <2>1, <2>3
<1>22. Decoder!Sym(b) = <<s, d>>  BY <1>19, <1>20, <1>21
<1>. QED  BY <1>1, <1>2, <1>6, <1>22

-----------------------------------------------------------------------------
(* Sums that differ in few places.                                         *)

(* In one place, in two, in three.                                         *)
LEMMA SumChanges ==
  ASSUME NEW m \in Nat, NEW f \in Numbers(m), NEW g \in Numbers(m), NEW p \in 0 .. m - 1,
         \A x \in 0 .. m - 1 : x # p => g[x] = f[x]
  PROVE  Huffman!Sum(g, m) = Huffman!Sum(f, m) + (g[p] - f[p])
<1>. DEFINE c == g[p] - f[p]
            h == [x \in 0 .. m - 1 |-> IF x = p THEN c ELSE 0]
<1>1. \A x \in 0 .. m - 1 : f[x] \in Int /\ g[x] \in Int  BY DEF Numbers
<1>2. c \in Int  BY <1>1
<1>3. h \in Numbers(m) /\ \A x \in 0 .. m - 1 : h[x] = IF x = p THEN c ELSE 0
  BY <1>2 DEF Numbers
<1>4. \A x \in 0 .. m - 1 : g[x] = f[x] + h[x]
  <2>. TAKE x \in 0 .. m - 1
  <2>1. f[x] \in Int /\ g[x] \in Int  BY <1>1
  <2>2. CASE x = p  BY <2>1, <2>2, <1>3
  <2>3. CASE x # p  BY <2>1, <2>3, <1>3
  <2>. QED  BY <2>2, <2>3
<1>. HIDE DEF h, c
<1>5. Huffman!Sum(h, m) = c  BY <1>2, <1>3, SumOfOne
<1>6. Huffman!Sum(g, m) = Huffman!Sum(f, m) + Huffman!Sum(h, m)  BY <1>3, <1>4, SumOfTwo
<1>. QED  BY <1>5, <1>6 DEF c

LEMMA SumChangesTwice ==
  ASSUME NEW m \in Nat, NEW f \in Numbers(m), NEW g \in Numbers(m),
         NEW p \in 0 .. m - 1, NEW q \in 0 .. m - 1, p # q,
         \A x \in 0 .. m - 1 : x # p /\ x # q => g[x] = f[x]
  PROVE  Huffman!Sum(g, m) = Huffman!Sum(f, m) + (g[p] - f[p]) + (g[q] - f[q])
<1>. DEFINE h == [x \in 0 .. m - 1 |-> IF x = p THEN g[p] ELSE f[x]]
<1>1. \A x \in 0 .. m - 1 : f[x] \in Int /\ g[x] \in Int  BY DEF Numbers
<1>2. h \in Numbers(m) /\ \A x \in 0 .. m - 1 : h[x] = IF x = p THEN g[p] ELSE f[x]
  BY <1>1 DEF Numbers
<1>. HIDE DEF h
<1>3. \A x \in 0 .. m - 1 : x # p => h[x] = f[x]  BY <1>2
<1>4. \A x \in 0 .. m - 1 : x # q => g[x] = h[x]
  <2>. TAKE x \in 0 .. m - 1
  <2>1. CASE x = p  BY <2>1, <1>2
  <2>2. CASE x # p  BY <2>2, <1>2
  <2>. QED  BY <2>1, <2>2
<1>5. Huffman!Sum(h, m) = Huffman!Sum(f, m) + (h[p] - f[p])  BY <1>2, <1>3, SumChanges
<1>6. Huffman!Sum(g, m) = Huffman!Sum(h, m) + (g[q] - h[q])  BY <1>2, <1>4, SumChanges
<1>7. h[p] = g[p] /\ h[q] = f[q]  BY <1>2
<1>. QED  BY <1>5, <1>6, <1>7

LEMMA SumChangesThrice ==
  ASSUME NEW m \in Nat, NEW f \in Numbers(m), NEW g \in Numbers(m),
         NEW p \in 0 .. m - 1, NEW q \in 0 .. m - 1, NEW t \in 0 .. m - 1, p # q, p # t, q # t,
         \A x \in 0 .. m - 1 : x # p /\ x # q /\ x # t => g[x] = f[x]
  PROVE  Huffman!Sum(g, m)
           = Huffman!Sum(f, m) + (g[p] - f[p]) + (g[q] - f[q]) + (g[t] - f[t])
<1>. DEFINE h == [x \in 0 .. m - 1 |-> IF x = t THEN g[t] ELSE f[x]]
<1>1. \A x \in 0 .. m - 1 : f[x] \in Int /\ g[x] \in Int  BY DEF Numbers
<1>2. h \in Numbers(m) /\ \A x \in 0 .. m - 1 : h[x] = IF x = t THEN g[t] ELSE f[x]
  BY <1>1 DEF Numbers
<1>. HIDE DEF h
<1>3. \A x \in 0 .. m - 1 : x # t => h[x] = f[x]  BY <1>2
<1>4. \A x \in 0 .. m - 1 : x # p /\ x # q => g[x] = h[x]
  <2>. TAKE x \in 0 .. m - 1
  <2>1. CASE x = t  BY <2>1, <1>2
  <2>2. CASE x # t  BY <2>2, <1>2
  <2>. QED  BY <2>1, <2>2
<1>5. Huffman!Sum(h, m) = Huffman!Sum(f, m) + (h[t] - f[t])  BY <1>2, <1>3, SumChanges
<1>6. Huffman!Sum(g, m) = Huffman!Sum(h, m) + (g[p] - h[p]) + (g[q] - h[q])
  BY <1>2, <1>4, SumChangesTwice
<1>7. h[t] = g[t] /\ h[p] = f[p] /\ h[q] = f[q]  BY <1>2
<1>8. /\ f[p] \in Int /\ f[q] \in Int /\ f[t] \in Int /\ g[p] \in Int /\ g[q] \in Int /\ g[t] \in Int
      /\ Huffman!Sum(f, m) \in Int
  BY <1>1, SumStep
<1>. QED  BY <1>5, <1>6, <1>7, <1>8

(* Zeros behind.                                                           *)
LEMMA SumPadded ==
  ASSUME NEW z \in Nat, NEW m \in Nat, z <= m, NEW f \in Numbers(z), NEW g \in Numbers(m),
         \A x \in 0 .. m - 1 : g[x] = IF x < z THEN f[x] ELSE 0
  PROVE  Huffman!Sum(g, m) = Huffman!Sum(f, z)
<1>. DEFINE c == Huffman!Sum(f, z)
            S == {q \in Nat : q <= m => Huffman!Sum(g, q) = IF q <= z THEN Huffman!Sum(f, q) ELSE c}
<1>1. 0 \in S  BY SumStep
<1>2. ASSUME NEW q \in 1 .. m, q - 1 \in S PROVE q \in S
  <2>1. q \in Nat /\ q - 1 \in 0 .. m - 1 /\ q - 1 <= m  OBVIOUS
  <2>2. /\ Huffman!Sum(g, q) \in Int /\ Huffman!Sum(g, q - 1) \in Int /\ g[q - 1] \in Int
        /\ Huffman!Sum(g, q) = Huffman!Sum(g, q - 1) + g[q - 1]
    BY SumStep
  <2>3. CASE q <= z
    <3>1. q \in 1 .. z  BY <2>3
    <3>2. Huffman!Sum(f, q) = Huffman!Sum(f, q - 1) + f[q - 1]  BY <3>1, SumStep
    <3>3. g[q - 1] = f[q - 1]  BY <2>1, <2>3
    <3>4. Huffman!Sum(g, q - 1) = Huffman!Sum(f, q - 1)  BY <1>2, <2>1, <2>3
    <3>. QED  BY <2>1, <2>2, <2>3, <3>2, <3>3, <3>4
  <2>4. CASE q > z
    <3>1. g[q - 1] = 0  BY <2>1, <2>4
    <3>2. Huffman!Sum(g, q - 1) = c
      <4>1. CASE q - 1 = z  BY <1>2, <2>1, <4>1
      <4>2. CASE q - 1 # z  BY <1>2, <2>1, <2>4, <4>2
      <4>. QED  BY <4>1, <4>2
    <3>. QED  BY <2>1, <2>2, <2>4, <3>1, <3>2
  <2>. QED  BY <2>3, <2>4
<1>. HIDE DEF S
<1>3. 0 .. m \subseteq S  BY <1>1, <1>2, StepByStep
<1>4. m \in S  BY <1>3
<1>5. m = z \/ m > z  OBVIOUS
<1>. QED  BY <1>4, <1>5 DEF S

-----------------------------------------------------------------------------
(* Roots A with weights w at depths d: how much of all words of b bits     *)
(* they take, and what they cost.                                          *)

Shares(A, d, b, m) == [x \in 0 .. m - 1 |-> IF x \in A THEN 2 ^ (b - d[x]) ELSE 0]
Prices(A, w, d, m) == [x \in 0 .. m - 1 |-> IF x \in A THEN w[x] * d[x] ELSE 0]

Room(A, d, b, m) == Huffman!Sum(Shares(A, d, b, m), m)
Price(A, w, d, m) == Huffman!Sum(Prices(A, w, d, m), m)

Forest(A, w, b, m) ==
  /\ m \in Nat /\ b \in Nat /\ A \subseteq 0 .. m - 1
  /\ w \in [0 .. m - 1 -> Nat] /\ \A x \in A : w[x] > 0

Depths(b, m) == [0 .. m - 1 -> 0 .. b]

LEMMA TimesIs == \A x, y \in Nat : x * y \in Nat
OBVIOUS

(* Both are sums of natural numbers.                                       *)
LEMMA RoomIs ==
  ASSUME NEW A, NEW w, NEW b, NEW m, Forest(A, w, b, m), NEW d \in Depths(b, m)
  PROVE  /\ Shares(A, d, b, m) \in Numbers(m) /\ Prices(A, w, d, m) \in Numbers(m)
         /\ \A x \in 0 .. m - 1 :
              /\ x \in A => /\ Shares(A, d, b, m)[x] = 2 ^ (b - d[x])
                            /\ Prices(A, w, d, m)[x] = w[x] * d[x]
              /\ x \notin A => Shares(A, d, b, m)[x] = 0 /\ Prices(A, w, d, m)[x] = 0
              /\ 2 ^ (b - d[x]) \in Nat \ {0} /\ w[x] * d[x] \in Nat
         /\ Room(A, d, b, m) \in Nat /\ Price(A, w, d, m) \in Nat
<1>. DEFINE f == Shares(A, d, b, m)
            g == Prices(A, w, d, m)
<1>1. m \in Nat /\ b \in Nat /\ w \in [0 .. m - 1 -> Nat]  BY DEF Forest
<1>2. \A x \in 0 .. m - 1 : d[x] \in 0 .. b  BY DEF Depths
<1>3. \A x \in 0 .. m - 1 : 2 ^ (b - d[x]) \in Nat \ {0}
  <2>. TAKE x \in 0 .. m - 1
  <2>1. b - d[x] \in Nat  BY <1>1, <1>2
  <2>. QED  BY <2>1, PowerIs
<1>4. \A x \in 0 .. m - 1 : w[x] * d[x] \in Nat
  <2>. TAKE x \in 0 .. m - 1
  <2>1. w[x] \in Nat /\ d[x] \in Nat  BY <1>1, <1>2
  <2>. QED  BY <2>1, TimesIs
<1>5. \A x \in 0 .. m - 1 : f[x] \in Nat /\ g[x] \in Nat
  BY <1>3, <1>4 DEF Shares, Prices
<1>6. f = [x \in 0 .. m - 1 |-> f[x]] /\ g = [x \in 0 .. m - 1 |-> g[x]]
  BY DEF Shares, Prices
<1>7. \A x \in 0 .. m - 1 :
        /\ x \in A => f[x] = 2 ^ (b - d[x]) /\ g[x] = w[x] * d[x]
        /\ x \notin A => f[x] = 0 /\ g[x] = 0
  BY DEF Shares, Prices
<1>. HIDE DEF f, g
<1>8. f \in Numbers(m) /\ g \in Numbers(m)  BY <1>5, <1>6 DEF Numbers
<1>9. \A x \in 0 .. m - 1 : f[x] >= 0 /\ g[x] >= 0  BY <1>5
<1>10. Huffman!Sum(f, m) \in Nat /\ Huffman!Sum(g, m) \in Nat  BY <1>1, <1>8, <1>9, SumIsNat
<1>. QED  BY <1>3, <1>4, <1>7, <1>8, <1>10 DEF f, g, Room, Price

(* The heavier of two roots is better off with the lesser depth.           *)
LEMMA TakeTurns ==
  ASSUME NEW u \in Nat, NEW v \in Nat, NEW d \in Nat, NEW e \in Nat, u <= v, d <= e
  PROVE  u * e + v * d <= u * d + v * e
<1>1. PICK p \in Nat : v = u + p
  <2>1. v - u \in Nat /\ v = u + (v - u)  OBVIOUS
  <2>. QED  BY <2>1
<1>2. PICK q \in Nat : e = d + q
  <2>1. e - d \in Nat /\ e = d + (e - d)  OBVIOUS
  <2>. QED  BY <2>1
<1>3. /\ u * d \in Nat /\ u * q \in Nat /\ p * d \in Nat /\ p * q \in Nat
  BY TimesIs
<1>4. /\ u * e = u * d + u * q
      /\ v * d = u * d + p * d
  BY <1>1, <1>2
<1>5. v * e = u * d + u * q + p * d + p * q
  <2>1. v * e = v * d + v * q  BY <1>2
  <2>2. v * q = u * q + p * q  BY <1>1
  <2>. QED  BY <1>4, <2>1, <2>2, <1>3
<1>. QED  BY <1>3, <1>4, <1>5

(* Two roots swap their depths: the room they take is the same.            *)
LEMMA Exchange ==
  ASSUME NEW A, NEW w, NEW b, NEW m, Forest(A, w, b, m), NEW d \in Depths(b, m),
         NEW r \in A, NEW s \in A, w[r] <= w[s], d[r] <= d[s]
  PROVE  \E e \in Depths(b, m) :
           /\ Room(A, e, b, m) = Room(A, d, b, m) /\ Price(A, w, e, m) <= Price(A, w, d, m)
           /\ e[r] = d[s] /\ e[s] = d[r] /\ \A x \in A : x # r /\ x # s => e[x] = d[x]
<1>0. CASE r = s
  <2>1. Price(A, w, d, m) <= Price(A, w, d, m)  BY RoomIs
  <2>. QED  BY <1>0, <2>1
<1>. SUFFICES ASSUME r # s
     PROVE  \E e \in Depths(b, m) :
           /\ Room(A, e, b, m) = Room(A, d, b, m) /\ Price(A, w, e, m) <= Price(A, w, d, m)
           /\ e[r] = d[s] /\ e[s] = d[r] /\ \A x \in A : x # r /\ x # s => e[x] = d[x]
  BY <1>0
<1>. DEFINE e == [x \in 0 .. m - 1 |-> IF x = r THEN d[s] ELSE IF x = s THEN d[r] ELSE d[x]]
<1>1. m \in Nat /\ b \in Nat /\ r \in 0 .. m - 1 /\ s \in 0 .. m - 1 /\ A \subseteq 0 .. m - 1
  BY DEF Forest
<1>2. \A x \in 0 .. m - 1 : d[x] \in 0 .. b  BY DEF Depths
<1>3. e \in Depths(b, m)  BY <1>1, <1>2 DEF Depths
<1>4. e[r] = d[s] /\ e[s] = d[r] /\ \A x \in 0 .. m - 1 : x # r /\ x # s => e[x] = d[x]
  BY <1>1
<1>. HIDE DEF e
<1>. DEFINE f == Shares(A, d, b, m)
            g == Shares(A, e, b, m)
            h == Prices(A, w, d, m)
            t == Prices(A, w, e, m)
<1>5. /\ f \in Numbers(m) /\ h \in Numbers(m)
      /\ f[r] = 2 ^ (b - d[r]) /\ f[s] = 2 ^ (b - d[s]) /\ h[r] = w[r] * d[r] /\ h[s] = w[s] * d[s]
      /\ f[r] \in Nat /\ f[s] \in Nat /\ h[r] \in Nat /\ h[s] \in Nat
  BY <1>1, RoomIs
<1>6. /\ g \in Numbers(m) /\ t \in Numbers(m)
      /\ g[r] = 2 ^ (b - e[r]) /\ g[s] = 2 ^ (b - e[s]) /\ t[r] = w[r] * e[r] /\ t[s] = w[s] * e[s]
      /\ t[r] \in Nat /\ t[s] \in Nat
  BY <1>1, <1>3, RoomIs
<1>7. \A x \in 0 .. m - 1 : x # r /\ x # s => g[x] = f[x] /\ t[x] = h[x]
  BY <1>4 DEF Shares, Prices
<1>. HIDE DEF f, g, h, t
<1>8. Huffman!Sum(g, m) = Huffman!Sum(f, m) + (g[r] - f[r]) + (g[s] - f[s])
  BY <1>1, <1>5, <1>6, <1>7, SumChangesTwice
<1>9. Huffman!Sum(t, m) = Huffman!Sum(h, m) + (t[r] - h[r]) + (t[s] - h[s])
  BY <1>1, <1>5, <1>6, <1>7, SumChangesTwice
<1>10. Huffman!Sum(f, m) \in Int /\ Huffman!Sum(h, m) \in Int  BY <1>1, <1>5, SumStep
<1>11. g[r] = f[s] /\ g[s] = f[r]  BY <1>4, <1>5, <1>6
<1>12. t[r] + t[s] <= h[r] + h[s]
  <2>1. w[r] \in Nat /\ w[s] \in Nat /\ d[r] \in Nat /\ d[s] \in Nat  BY <1>1, <1>2 DEF Forest
  <2>2. w[r] * d[s] + w[s] * d[r] <= w[r] * d[r] + w[s] * d[s]  BY <2>1, TakeTurns
  <2>. QED  BY <2>2, <1>4, <1>5, <1>6
<1>13. Huffman!Sum(g, m) = Huffman!Sum(f, m)  BY <1>5, <1>8, <1>10, <1>11
<1>14. Huffman!Sum(t, m) <= Huffman!Sum(h, m)  BY <1>5, <1>6, <1>9, <1>10, <1>12
<1>15. Room(A, e, b, m) = Room(A, d, b, m) /\ Price(A, w, e, m) <= Price(A, w, d, m)
  BY <1>13, <1>14 DEF f, g, h, t, Room, Price
<1>. QED  BY <1>1, <1>3, <1>4, <1>15

(* A root that alone is deepest can go up: the others take a multiple of   *)
(* twice its share, so that its share is also free.                        *)
LEMMA DeepestGoesUp ==
  ASSUME NEW A, NEW w, NEW b, NEW m, Forest(A, w, b, m), NEW d \in Depths(b, m),
         NEW r \in A, d[r] >= 1, \A x \in A : x # r => d[x] < d[r],
         Room(A, d, b, m) <= 2 ^ b
  PROVE  \E e \in Depths(b, m) :
           Room(A, e, b, m) <= 2 ^ b /\ Price(A, w, e, m) < Price(A, w, d, m)
<1>. DEFINE D == d[r]
            e == [x \in 0 .. m - 1 |-> IF x = r THEN D - 1 ELSE d[x]]
            g == [x \in 0 .. m - 1 |-> IF x \in A /\ x # r THEN 2 ^ (D - 1 - d[x]) ELSE 0]
            c == 2 ^ (b - D)
            h == [x \in 0 .. m - 1 |-> IF x \in A /\ x # r THEN 2 ^ (b - d[x]) ELSE 0]
            f == Shares(A, d, b, m)
            t == Shares(A, e, b, m)
            u == Prices(A, w, d, m)
            v == Prices(A, w, e, m)
<1>1. m \in Nat /\ b \in Nat /\ r \in 0 .. m - 1 /\ A \subseteq 0 .. m - 1 /\ w[r] \in Nat \ {0}
  BY DEF Forest
<1>2. \A x \in 0 .. m - 1 : d[x] \in 0 .. b  BY DEF Depths
<1>3. D \in 1 .. b /\ D - 1 \in 0 .. b /\ D - 1 \in Nat  BY <1>1, <1>2
<1>. HIDE DEF D
<1>4. e \in Depths(b, m) /\ e[r] = D - 1 /\ \A x \in 0 .. m - 1 : x # r => e[x] = d[x]
  BY <1>1, <1>2, <1>3 DEF Depths
<1>. HIDE DEF e
<1>5. \A x \in A : x # r => D - 1 - d[x] \in Nat /\ 2 ^ (D - 1 - d[x]) \in Nat
  <2>. TAKE x \in A
  <2>1. HAVE x # r
  <2>2. d[x] < D /\ d[x] \in Nat /\ D \in Nat  BY <1>1, <1>2, <1>3, <2>1 DEF D
  <2>3. D - 1 - d[x] \in Nat  BY <2>2
  <2>. QED  BY <2>3, PowerIs
<1>6. c \in Nat \ {0} /\ b - D \in Nat
  <2>1. b - D \in Nat  BY <1>1, <1>3
  <2>. QED  BY <2>1, PowerIs
<1>7. /\ f \in Numbers(m) /\ u \in Numbers(m) /\ f[r] = c /\ u[r] = w[r] * D
      /\ \A x \in 0 .. m - 1 : x # r => f[x] = h[x]
      /\ \A x \in 0 .. m - 1 : f[x] \in Nat
  <2>1. \A x \in 0 .. m - 1 : x # r => f[x] = h[x]  BY DEF Shares
  <2>2. f[r] = c /\ u[r] = w[r] * D  BY <1>1, RoomIs DEF D
  <2>3. f \in Numbers(m) /\ u \in Numbers(m) /\ \A x \in 0 .. m - 1 : f[x] \in Nat
    BY RoomIs
  <2>. QED  BY <2>1, <2>2, <2>3
<1>8. /\ t \in Numbers(m) /\ v \in Numbers(m) /\ t[r] = 2 ^ (b - (D - 1)) /\ v[r] = w[r] * (D - 1)
      /\ \A x \in 0 .. m - 1 : x # r => t[x] = f[x] /\ v[x] = u[x]
  <2>1. \A x \in 0 .. m - 1 : x # r => t[x] = f[x] /\ v[x] = u[x]  BY <1>4 DEF Shares, Prices
  <2>2. t[r] = 2 ^ (b - e[r]) /\ v[r] = w[r] * e[r]  BY <1>1, <1>4, RoomIs
  <2>3. t \in Numbers(m) /\ v \in Numbers(m)  BY <1>4, RoomIs
  <2>. QED  BY <1>4, <2>1, <2>2, <2>3
<1>9. t[r] = 2 * c
  <2>1. b - (D - 1) = (b - D) + 1  BY <1>1, <1>3
  <2>. QED  BY <1>6, <1>8, <2>1, PowerOfNext
<1>10. g \in Numbers(m) /\ \A x \in 0 .. m - 1 : g[x] \in Nat
  <2>1. \A x \in 0 .. m - 1 : g[x] \in Nat  BY <1>5
  <2>. QED  BY <2>1 DEF Numbers
<1>11. \A x \in 0 .. m - 1 : h[x] = (2 * c) * g[x]
  <2>. TAKE x \in 0 .. m - 1
  <2>1. CASE x \in A /\ x # r
    <3>1. /\ d[x] \in Nat /\ D \in Nat /\ b - d[x] = ((b - D) + 1) + (D - 1 - d[x])
          /\ (b - D) + 1 \in Nat /\ D - 1 - d[x] \in Nat
      BY <2>1, <1>1, <1>2, <1>3, <1>5, <1>6
    <3>2. 2 ^ (b - d[x]) = 2 ^ ((b - D) + 1) * 2 ^ (D - 1 - d[x])  BY <3>1, PowerOfSum
    <3>3. 2 ^ ((b - D) + 1) = 2 * c  BY <1>6, PowerOfNext
    <3>. QED  BY <2>1, <3>2, <3>3
  <2>2. CASE ~(x \in A /\ x # r)
    <3>1. h[x] = 0 /\ g[x] = 0  BY <2>2
    <3>. QED  BY <3>1, <1>6
  <2>. QED  BY <2>1, <2>2
<1>12. h \in Numbers(m) /\ h[r] = 0
  <2>1. \A x \in 0 .. m - 1 : (2 * c) * g[x] \in Int
    <3>1. \A x \in Nat : (2 * c) * x \in Int  BY <1>6
    <3>. QED  BY <3>1, <1>10
  <2>2. h = [x \in 0 .. m - 1 |-> h[x]]  OBVIOUS
  <2>. QED  BY <1>1, <1>11, <2>1, <2>2 DEF Numbers
<1>. HIDE DEF g, c, h, f, t, u, v
<1>13. Huffman!Sum(h, m) = (2 * c) * Huffman!Sum(g, m)
  <2>1. 2 * c \in Int  BY <1>6
  <2>. QED  BY <1>1, <1>10, <1>11, <1>12, <2>1, SumTimes
<1>14. Huffman!Sum(f, m) = Huffman!Sum(h, m) + (f[r] - h[r])
  BY <1>1, <1>7, <1>12, SumChanges
<1>15. Huffman!Sum(t, m) = Huffman!Sum(f, m) + (t[r] - f[r])
  BY <1>1, <1>7, <1>8, SumChanges
<1>16. Huffman!Sum(v, m) = Huffman!Sum(u, m) + (v[r] - u[r])
  BY <1>1, <1>7, <1>8, SumChanges
<1>17. PICK y \in Nat : y = Huffman!Sum(g, m)
  <2>1. \A x \in 0 .. m - 1 : g[x] >= 0  BY <1>10
  <2>2. Huffman!Sum(g, m) \in Nat  BY <1>1, <1>10, <2>1, SumIsNat
  <2>. QED  BY <2>2
<1>18. PICK p \in Nat : p = 2 ^ (D - 1) /\ 2 ^ b = (2 * c) * p
  <2>1. b = ((b - D) + 1) + (D - 1) /\ (b - D) + 1 \in Nat /\ D - 1 \in Nat  BY <1>1, <1>3, <1>6
  <2>2. 2 ^ b = 2 ^ ((b - D) + 1) * 2 ^ (D - 1)  BY <2>1, PowerOfSum
  <2>3. 2 ^ ((b - D) + 1) = 2 * c  BY <1>6, PowerOfNext DEF c
  <2>4. 2 ^ (D - 1) \in Nat  BY <1>3, PowerIs
  <2>. QED  BY <2>2, <2>3, <2>4
<1>19. (2 * c) * y + c <= (2 * c) * p
  <2>1. Room(A, d, b, m) = Huffman!Sum(f, m)  BY DEF f, Room
  <2>2. Huffman!Sum(f, m) = (2 * c) * y + c
    <3>1. (2 * c) * y \in Nat  BY <1>6
    <3>. QED  BY <3>1, <1>6, <1>7, <1>12, <1>13, <1>14, <1>17
  <2>. QED  BY <2>1, <2>2, <1>18
<1>20. (2 * c) * (y + 1) <= (2 * c) * p
  <2>1. y < p
    <3>. SUFFICES ASSUME p <= y PROVE FALSE  OBVIOUS
    <3>1. (2 * c) * p <= (2 * c) * y /\ (2 * c) * p \in Nat /\ (2 * c) * y \in Nat  BY <1>6
    <3>. QED  BY <3>1, <1>6, <1>19
  <2>2. y + 1 <= p  BY <2>1
  <2>. QED  BY <2>2, <1>6
<1>21. Huffman!Sum(t, m) <= 2 ^ b
  <2>1. (2 * c) * y \in Nat /\ (2 * c) * (y + 1) = (2 * c) * y + 2 * c  BY <1>6
  <2>2. Huffman!Sum(t, m) = (2 * c) * y + 2 * c
    BY <2>1, <1>6, <1>7, <1>9, <1>12, <1>13, <1>14, <1>15, <1>17
  <2>. QED  BY <2>1, <2>2, <1>18, <1>20
<1>22. Huffman!Sum(v, m) < Huffman!Sum(u, m)
  <2>1. w[r] * (D - 1) = w[r] * D - w[r]  BY <1>1, <1>3
  <2>2. w[r] * D \in Nat  BY <1>1, <1>3, TimesIs
  <2>3. Huffman!Sum(u, m) \in Int  BY <1>1, <1>7, SumStep
  <2>. QED  BY <2>1, <2>2, <2>3, <1>1, <1>7, <1>8, <1>16
<1>23. Room(A, e, b, m) <= 2 ^ b  BY <1>21 DEF Room, t
<1>24. Price(A, w, e, m) < Price(A, w, d, m)  BY <1>22 DEF Price, u, v
<1>. QED  BY <1>4, <1>23, <1>24

LEMMA TwoOfSum ==
  ASSUME NEW m \in Nat, NEW f \in Numbers(m), \A x \in 0 .. m - 1 : f[x] >= 0,
         NEW p \in 0 .. m - 1, NEW q \in 0 .. m - 1, p # q
  PROVE  f[p] + f[q] <= Huffman!Sum(f, m)
<1>. DEFINE g == [x \in 0 .. m - 1 |-> IF x = p \/ x = q THEN 0 ELSE f[x]]
<1>1. \A x \in 0 .. m - 1 : f[x] \in Int  BY DEF Numbers
<1>2. /\ g \in Numbers(m) /\ g[p] = 0 /\ g[q] = 0
      /\ \A x \in 0 .. m - 1 : g[x] >= 0 /\ (x # p /\ x # q => g[x] = f[x])
  BY <1>1 DEF Numbers
<1>. HIDE DEF g
<1>3. Huffman!Sum(g, m) = Huffman!Sum(f, m) + (g[p] - f[p]) + (g[q] - f[q])
  BY <1>2, SumChangesTwice
<1>4. Huffman!Sum(g, m) \in Nat  BY <1>2, SumIsNat
<1>5. Huffman!Sum(f, m) \in Int  BY SumStep
<1>. QED  BY <1>1, <1>2, <1>3, <1>4, <1>5

(* Of all depths that fit, some are cheapest.                              *)
LEMMA CheapestDepths ==
  ASSUME NEW A, NEW w, NEW b, NEW m, Forest(A, w, b, m), NEW d \in Depths(b, m),
         Room(A, d, b, m) <= 2 ^ b
  PROVE  \E e \in Depths(b, m) :
           /\ Room(A, e, b, m) <= 2 ^ b /\ Price(A, w, e, m) <= Price(A, w, d, m)
           /\ \A f \in Depths(b, m) :
                Room(A, f, b, m) <= 2 ^ b => Price(A, w, e, m) <= Price(A, w, f, m)
<1>. DEFINE F == {e \in Depths(b, m) : Room(A, e, b, m) <= 2 ^ b}
            P == {Price(A, w, e, m) : e \in F}
<1>1. P \subseteq Nat /\ P # {}
  <2>1. \A e \in F : Price(A, w, e, m) \in Nat  BY RoomIs
  <2>2. d \in F  OBVIOUS
  <2>. QED  BY <2>1, <2>2
<1>2. \A e \in F : Price(A, w, e, m) \in P  OBVIOUS
<1>. HIDE DEF P
<1>3. PICK x \in P : \A y \in P : x <= y  BY <1>1, LeastOf
<1>4. PICK e \in F : x = Price(A, w, e, m)  BY DEF P
<1>5. d \in F  OBVIOUS
<1>. QED  BY <1>2, <1>3, <1>4, <1>5

(* A cheapest way has the two lightest roots deepest, side by side: they   *)
(* can as well be one root above, of their weight together.                *)
LEMMA LightestTwins ==
  ASSUME NEW A, NEW w, NEW b, NEW m, Forest(A, w, b, m), NEW d \in Depths(b, m),
         Room(A, d, b, m) <= 2 ^ b,
         NEW p \in A, NEW q \in A, p # q,
         \A x \in A : w[p] <= w[x], \A x \in A : x # p => w[q] <= w[x]
  PROVE  \E e \in Depths(b, m) :
           /\ Room(A, e, b, m) <= 2 ^ b /\ Price(A, w, e, m) <= Price(A, w, d, m)
           /\ e[p] = e[q] /\ e[p] >= 1
<1>0. /\ m \in Nat /\ b \in Nat /\ A \subseteq 0 .. m - 1 /\ p \in 0 .. m - 1 /\ q \in 0 .. m - 1
  BY DEF Forest
<1>1. PICK d1 \in Depths(b, m) :
        /\ Room(A, d1, b, m) <= 2 ^ b /\ Price(A, w, d1, m) <= Price(A, w, d, m)
        /\ \A f \in Depths(b, m) :
             Room(A, f, b, m) <= 2 ^ b => Price(A, w, d1, m) <= Price(A, w, f, m)
  BY CheapestDepths
<1>2. PICK s \in A : \A x \in A : d1[x] <= d1[s]
  <2>. DEFINE T == {d1[x] : x \in A}
  <2>1. \A x \in A : d1[x] \in 0 .. b  BY <1>0 DEF Depths
  <2>2. T \subseteq Nat /\ T # {} /\ \A y \in T : y <= b  BY <2>1, <1>0
  <2>3. \A x \in A : d1[x] \in T  OBVIOUS
  <2>4. \A y \in T : \E x \in A : y = d1[x]  OBVIOUS
  <2>. HIDE DEF T
  <2>5. PICK y \in T : \A x \in T : x <= y  BY <1>0, <2>2, MostOf
  <2>. QED  BY <2>3, <2>4, <2>5
<1>3. PICK d2 \in Depths(b, m) :
        /\ Room(A, d2, b, m) = Room(A, d1, b, m) /\ Price(A, w, d2, m) <= Price(A, w, d1, m)
        /\ d2[p] = d1[s] /\ d2[s] = d1[p] /\ \A x \in A : x # p /\ x # s => d2[x] = d1[x]
  <2>1. w[p] <= w[s] /\ d1[p] <= d1[s]  BY <1>2
  <2>. QED  BY <2>1, Exchange
<1>4. \A x \in A : d2[x] <= d2[p] /\ d2[x] \in 0 .. b
  <2>1. \A x \in A : d2[x] <= d2[p]
    <3>. TAKE x \in A
    <3>1. CASE x = p  BY <3>1, <1>2, <1>3
    <3>2. CASE x = s  BY <3>2, <1>2, <1>3
    <3>3. CASE x # p /\ x # s  BY <3>3, <1>2, <1>3
    <3>. QED  BY <3>1, <3>2, <3>3
  <2>2. \A x \in A : d2[x] \in 0 .. b  BY <1>0 DEF Depths
  <2>. QED  BY <2>1, <2>2
<1>5. Room(A, d2, b, m) <= 2 ^ b  BY <1>1, <1>3
<1>6. d2[p] >= 1
  <2>. SUFFICES ASSUME d2[p] = 0 PROVE FALSE  BY <1>4
  <2>1. d2[q] = 0  BY <1>4
  <2>. DEFINE f == Shares(A, d2, b, m)
  <2>2. f \in Numbers(m) /\ f[p] = 2 ^ b /\ f[q] = 2 ^ b /\ 2 ^ b \in Nat \ {0}
    <3>1. b - 0 = b  BY <1>0
    <3>2. f \in Numbers(m) /\ f[p] = 2 ^ (b - d2[p]) /\ f[q] = 2 ^ (b - d2[q])  BY <1>0, RoomIs
    <3>. QED  BY <2>1, <3>1, <3>2, <1>0, PowerIs
  <2>3. \A x \in 0 .. m - 1 : f[x] >= 0
    <3>. TAKE x \in 0 .. m - 1
    <3>1. 2 ^ (b - d2[x]) \in Nat  BY RoomIs
    <3>2. x \in A => f[x] = 2 ^ (b - d2[x])  BY RoomIs
    <3>3. x \notin A => f[x] = 0  BY RoomIs
    <3>. QED  BY <3>1, <3>2, <3>3
  <2>. HIDE DEF f
  <2>4. f[p] + f[q] <= Huffman!Sum(f, m)  BY <1>0, <2>2, <2>3, TwoOfSum
  <2>5. Huffman!Sum(f, m) <= 2 ^ b  BY <1>5 DEF f, Room
  <2>6. Huffman!Sum(f, m) \in Int  BY <1>0, <2>2, SumStep
  <2>. QED  BY <2>2, <2>4, <2>5, <2>6
<1>7. PICK y \in A : y # p /\ d2[y] = d2[p]
  <2>. SUFFICES ASSUME \A y \in A : y # p => d2[y] # d2[p] PROVE FALSE  OBVIOUS
  <2>1. \A x \in A : x # p => d2[x] < d2[p]  BY <1>4
  <2>2. PICK f \in Depths(b, m) :
          Room(A, f, b, m) <= 2 ^ b /\ Price(A, w, f, m) < Price(A, w, d2, m)
    BY <1>5, <1>6, <2>1, DeepestGoesUp
  <2>3. Price(A, w, f, m) \in Nat /\ Price(A, w, d2, m) \in Nat /\ Price(A, w, d1, m) \in Nat
    BY RoomIs
  <2>. QED  BY <1>1, <1>3, <2>2, <2>3
<1>8. PICK d3 \in Depths(b, m) :
        /\ Room(A, d3, b, m) = Room(A, d2, b, m) /\ Price(A, w, d3, m) <= Price(A, w, d2, m)
        /\ d3[q] = d2[y] /\ d3[y] = d2[q] /\ \A x \in A : x # q /\ x # y => d3[x] = d2[x]
  <2>1. w[q] <= w[y] /\ d2[q] <= d2[y]  BY <1>4, <1>7
  <2>. QED  BY <2>1, Exchange
<1>9. d3[p] = d2[p] /\ d3[q] = d2[p]  BY <1>7, <1>8
<1>10. Price(A, w, d3, m) <= Price(A, w, d, m)
  <2>1. /\ Price(A, w, d3, m) \in Nat /\ Price(A, w, d2, m) \in Nat /\ Price(A, w, d1, m) \in Nat
        /\ Price(A, w, d, m) \in Nat
    BY RoomIs
  <2>. QED  BY <2>1, <1>1, <1>3, <1>8
<1>. QED  BY <1>5, <1>6, <1>8, <1>9, <1>10

LEMMA TwinsAreOne ==
  ASSUME NEW A, NEW w, NEW b, NEW m, Forest(A, w, b, m), NEW d \in Depths(b, m),
         Room(A, d, b, m) <= 2 ^ b,
         NEW p \in A, NEW q \in A, p # q, d[p] = d[q], d[p] >= 1,
         NEW c \in 0 .. m - 1, c \notin A,
         NEW S, S = (A \ {p, q}) \cup {c}, NEW v, Forest(S, v, b, m),
         \A x \in A : x # p /\ x # q => v[x] = w[x], v[c] = w[p] + w[q]
  PROVE  \E e \in Depths(b, m) :
           Room(S, e, b, m) <= 2 ^ b /\ Price(S, v, e, m) + v[c] = Price(A, w, d, m)
<1>. DEFINE D == d[p]
            e == [x \in 0 .. m - 1 |-> IF x = c THEN D - 1 ELSE d[x]]
            f == Shares(A, d, b, m)
            g == Shares(S, e, b, m)
            h == Prices(A, w, d, m)
            t == Prices(S, v, e, m)
<1>0. /\ m \in Nat /\ b \in Nat /\ A \subseteq 0 .. m - 1 /\ p \in 0 .. m - 1 /\ q \in 0 .. m - 1
      /\ w[p] \in Nat /\ w[q] \in Nat /\ c # p /\ c # q
  <2>1. /\ m \in Nat /\ b \in Nat /\ A \subseteq 0 .. m - 1 /\ w \in [0 .. m - 1 -> Nat]
    BY DEF Forest
  <2>2. p \in A /\ q \in A /\ c # p /\ c # q  OBVIOUS
  <2>. QED  BY <2>1, <2>2
<1>1. D \in 1 .. b /\ D - 1 \in 0 .. b /\ \A x \in 0 .. m - 1 : d[x] \in 0 .. b
  BY <1>0 DEF Depths
<1>2. e \in Depths(b, m) /\ e[c] = D - 1 /\ \A x \in 0 .. m - 1 : x # c => e[x] = d[x]
  BY <1>1 DEF Depths
<1>3. d[p] = D /\ d[q] = D  OBVIOUS
<1>. HIDE DEF D, e
<1>4. /\ f \in Numbers(m) /\ h \in Numbers(m)
      /\ f[p] = 2 ^ (b - D) /\ f[q] = 2 ^ (b - D) /\ f[c] = 0
      /\ h[p] = w[p] * D /\ h[q] = w[q] * D /\ h[c] = 0
  BY <1>0, <1>3, RoomIs
<1>5. p \notin S /\ q \notin S /\ c \in S  BY <1>0
<1>6. /\ g \in Numbers(m) /\ t \in Numbers(m)
      /\ g[p] = 0 /\ g[q] = 0 /\ g[c] = 2 ^ (b - (D - 1))
      /\ t[p] = 0 /\ t[q] = 0 /\ t[c] = (w[p] + w[q]) * (D - 1)
  BY <1>0, <1>2, <1>5, RoomIs
<1>7. \A x \in 0 .. m - 1 : x # p /\ x # q /\ x # c => g[x] = f[x] /\ t[x] = h[x]
  <2>. TAKE x \in 0 .. m - 1
  <2>1. HAVE x # p /\ x # q /\ x # c
  <2>2. e[x] = d[x]  BY <1>2, <2>1
  <2>3. CASE x \in A
    <3>1. x \in S /\ v[x] = w[x]  BY <2>1, <2>3
    <3>. QED  BY <2>2, <2>3, <3>1 DEF Shares, Prices
  <2>4. CASE x \notin A
    <3>1. x \notin S  BY <2>1, <2>4
    <3>. QED  BY <2>4, <3>1 DEF Shares, Prices
  <2>. QED  BY <2>3, <2>4
<1>. HIDE DEF f, g, h, t
<1>8. Huffman!Sum(g, m)
        = Huffman!Sum(f, m) + (g[p] - f[p]) + (g[q] - f[q]) + (g[c] - f[c])
  BY <1>0, <1>4, <1>6, <1>7, SumChangesThrice
<1>9. Huffman!Sum(t, m)
        = Huffman!Sum(h, m) + (t[p] - h[p]) + (t[q] - h[q]) + (t[c] - h[c])
  BY <1>0, <1>4, <1>6, <1>7, SumChangesThrice
<1>10. Huffman!Sum(f, m) \in Int /\ Huffman!Sum(h, m) \in Int  BY <1>0, <1>4, <1>6, SumStep
<1>11. Huffman!Sum(g, m) = Huffman!Sum(f, m)
  <2>1. b - (D - 1) = (b - D) + 1 /\ b - D \in Nat  BY <1>0, <1>1
  <2>2. PICK y \in Nat : y = 2 ^ (b - D)  BY <2>1, PowerIs
  <2>3. g[c] = 2 * y  BY <1>6, <2>1, <2>2, PowerOfNext
  <2>4. f[p] = y /\ f[q] = y  BY <1>4, <2>2
  <2>. QED  BY <1>4, <1>6, <1>8, <1>10, <2>3, <2>4
<1>12. Huffman!Sum(t, m) + v[c] = Huffman!Sum(h, m)
  <2>1. (w[p] + w[q]) * (D - 1) = w[p] * D + w[q] * D - (w[p] + w[q])
    <3>1. \A x, y, z \in Nat : (x + y) * (z - 1) = x * z + y * z - (x + y)  OBVIOUS
    <3>2. D \in Nat  BY <1>1
    <3>. QED  BY <1>0, <3>1, <3>2
  <2>2. w[p] * D \in Nat /\ w[q] * D \in Nat
    <3>1. D \in Nat  BY <1>1
    <3>. QED  BY <1>0, <3>1, TimesIs
  <2>. QED  BY <1>0, <1>4, <1>6, <1>9, <1>10, <2>1, <2>2
<1>. QED  BY <1>2, <1>11, <1>12 DEF f, g, h, t, Room, Price

(* The step of Huffman's argument.                                         *)
LEMMA LightestMerge ==
  ASSUME NEW A, NEW w, NEW b, NEW m, Forest(A, w, b, m), NEW d \in Depths(b, m),
         Room(A, d, b, m) <= 2 ^ b,
         NEW p \in A, NEW q \in A, p # q,
         \A x \in A : w[p] <= w[x], \A x \in A : x # p => w[q] <= w[x],
         NEW c \in 0 .. m - 1, c \notin A,
         NEW S, S = (A \ {p, q}) \cup {c}, NEW v, Forest(S, v, b, m),
         \A x \in A : x # p /\ x # q => v[x] = w[x], v[c] = w[p] + w[q]
  PROVE  \E e \in Depths(b, m) :
           Room(S, e, b, m) <= 2 ^ b /\ Price(S, v, e, m) + v[c] <= Price(A, w, d, m)
<1>1. PICK d1 \in Depths(b, m) :
        /\ Room(A, d1, b, m) <= 2 ^ b /\ Price(A, w, d1, m) <= Price(A, w, d, m)
        /\ d1[p] = d1[q] /\ d1[p] >= 1
  BY LightestTwins
<1>2. PICK e \in Depths(b, m) :
        Room(S, e, b, m) <= 2 ^ b /\ Price(S, v, e, m) + v[c] = Price(A, w, d1, m)
  BY <1>1, TwinsAreOne
<1>. QED  BY <1>1, <1>2

-----------------------------------------------------------------------------
(* The two queues.  A root is a number: that of its symbol, below z, or    *)
(* that of its node, from z on.                                            *)

WeightOf(f, ns, z) ==
  [x \in 0 .. 2 * z - 1 |->
     IF x < z THEN f[x] ELSE IF x - z + 1 \in 1 .. Len(ns) THEN ns[x - z + 1].weight ELSE 0]
BelowOf(ns, z, x) == IF x < z THEN {x} ELSE ns[x - z + 1].below
Roots(ls, ns, m, z) ==
  {ls[q] : q \in 1 .. Len(ls)} \cup {z + q - 1 : q \in m .. Len(ns)}

Sorted(f, ls) ==
  \A q \in 1 .. Len(ls), t \in 1 .. Len(ls) : q < t => f[ls[q]] <= f[ls[t]] /\ ls[q] # ls[t]
Ascending(ns) ==
  \A q \in 1 .. Len(ns), t \in 1 .. Len(ns) : q <= t => ns[q].weight <= ns[t].weight

Weighed(f, ns, z) ==
  /\ \A x \in 0 .. z - 1 : WeightOf(f, ns, z)[x] = f[x] /\ BelowOf(ns, z, x) = {x}
  /\ \A q \in 1 .. Len(ns) : /\ z + q - 1 \in 0 .. 2 * z - 1 /\ z + q - 1 >= z
                          /\ WeightOf(f, ns, z)[z + q - 1] = ns[q].weight
                          /\ BelowOf(ns, z, z + q - 1) = ns[q].below

LEMMA WeightIs ==
  ASSUME NEW z \in Nat, NEW f, NEW ns, Len(ns) \in 0 .. z
  PROVE  Weighed(f, ns, z)
<1>1. \A x \in 0 .. z - 1 : x \in 0 .. 2 * z - 1 /\ x < z  OBVIOUS
<1>2. ASSUME NEW q \in 1 .. Len(ns)
      PROVE  z + q - 1 \in 0 .. 2 * z - 1 /\ ~(z + q - 1 < z) /\ (z + q - 1) - z + 1 = q
  OBVIOUS
<1>. QED  BY <1>1, <1>2 DEF Weighed, WeightOf, BelowOf

(* next: the lightest of all roots, although it looks at two of them only. *)
LEMMA NextLightest ==
  ASSUME freq \in [Alphabet -> Nat], nodes \in Seq(Nodes),
         NEW ls \in Seq(Huffman!Used), NEW m \in 1 .. Len(nodes) + 1,
         Len(ls) + Len(nodes) - m + 1 > 0,
         NEW z, z = Huffman!Size, Len(nodes) <= z,
         Sorted(freq, ls), Ascending(nodes),
         NEW w, w = WeightOf(freq, nodes, z),
         NEW r, r = Huffman!NextOf(ls, m)
  PROVE  \E p \in Roots(ls, nodes, m, z) :
           /\ r.weight = w[p] /\ r.below = BelowOf(nodes, z, p)
           /\ Roots(r.leaves, nodes, r.ni, z) = Roots(ls, nodes, m, z) \ {p}
           /\ \A x \in Roots(ls, nodes, m, z) : w[p] <= w[x]
           /\ Sorted(freq, r.leaves)
<1>1. Len(nodes) \in Nat /\ Len(ls) \in Nat /\ z \in Nat /\ Alphabet = 0 .. z - 1 /\ Len(nodes) \in 0 .. z
  BY LenProperties, HuffmanConstants
<1>2. /\ \A x \in 0 .. z - 1 : w[x] = freq[x] /\ BelowOf(nodes, z, x) = {x}
      /\ \A q \in 1 .. Len(nodes) :
           z + q - 1 >= z /\ w[z + q - 1] = nodes[q].weight /\ BelowOf(nodes, z, z + q - 1) = nodes[q].below
  <2>1. Weighed(freq, nodes, z)  BY <1>1, WeightIs
  <2>. QED  BY <2>1 DEF Weighed
<1>3. \A q \in 1 .. Len(ls) : ls[q] \in 0 .. z - 1 /\ freq[ls[q]] \in Nat
  <2>. TAKE q \in 1 .. Len(ls)
  <2>1. ls[q] \in Huffman!Used  BY ElementOfSeq
  <2>. QED  BY <2>1, <1>1, UsedIs
<1>4. \A q \in 1 .. Len(nodes) : nodes[q].weight \in Nat
  <2>. TAKE q \in 1 .. Len(nodes)
  <2>1. nodes[q] \in Nodes  BY ElementOfSeq
  <2>. QED  BY <2>1 DEF Nodes
<1>5. CASE /\ ls # <<>> /\ r = [weight |-> freq[ls[1]], below |-> {ls[1]}, leaves |-> Tail(ls), ni |-> m]
           /\ m <= Len(nodes) => freq[ls[1]] <= nodes[m].weight
  <2>1. Len(ls) > 0
    <3>1. Len(ls) # 0  BY <1>5, EmptySeq
    <3>. QED  BY <1>1, <3>1
  <2>2. PICK t, p : t = Tail(ls) /\ p = ls[1]  OBVIOUS
  <2>3. t \in Seq(Huffman!Used) /\ Len(t) = Len(ls) - 1 /\ \A q \in 1 .. Len(t) : t[q] = ls[q + 1]
    BY <1>5, <2>2, HeadTailProperties
  <2>4. 1 \in 1 .. Len(ls) /\ p \in 0 .. z - 1 /\ p \in Roots(ls, nodes, m, z)
    <3>1. 1 \in 1 .. Len(ls)  BY <1>1, <2>1
    <3>. QED  BY <3>1, <1>3, <2>2 DEF Roots
  <2>5. r.weight = w[p] /\ r.below = BelowOf(nodes, z, p) /\ r.leaves = t /\ r.ni = m
    BY <1>2, <1>5, <2>2, <2>4
  <2>6. \A q \in 1 .. Len(t) : q + 1 \in 1 .. Len(ls) /\ 1 < q + 1  BY <1>1, <2>3
  <2>7. Sorted(freq, t)
    <3>. SUFFICES ASSUME NEW q1 \in 1 .. Len(t), NEW q2 \in 1 .. Len(t), q1 < q2
         PROVE  freq[t[q1]] <= freq[t[q2]] /\ t[q1] # t[q2]
      BY DEF Sorted
    <3>1. q1 + 1 < q2 + 1  BY <1>1, <2>3
    <3>. QED  BY <2>3, <2>6, <3>1 DEF Sorted
  <2>8. Roots(t, nodes, m, z) = Roots(ls, nodes, m, z) \ {p}
    <3>1. ASSUME NEW x \in Roots(t, nodes, m, z) PROVE x \in Roots(ls, nodes, m, z) /\ x # p
      <4>1. CASE \E q \in 1 .. Len(t) : x = t[q]
        <5>1. PICK q \in 1 .. Len(t) : x = t[q]  BY <4>1
        <5>2. x = ls[q + 1] /\ q + 1 \in 1 .. Len(ls) /\ 1 < q + 1  BY <2>3, <2>6, <5>1
        <5>3. ls[1] # ls[q + 1]  BY <2>4, <5>2 DEF Sorted
        <5>. QED  BY <2>2, <5>2, <5>3 DEF Roots
      <4>2. CASE \E q \in m .. Len(nodes) : x = z + q - 1
        <5>1. PICK q \in m .. Len(nodes) : x = z + q - 1  BY <4>2
        <5>2. q \in 1 .. Len(nodes)  BY <1>1
        <5>3. x >= z  BY <1>2, <5>1, <5>2
        <5>. QED  BY <1>1, <2>4, <5>1, <5>3 DEF Roots
      <4>. QED  BY <4>1, <4>2 DEF Roots
    <3>2. ASSUME NEW x \in Roots(ls, nodes, m, z), x # p PROVE x \in Roots(t, nodes, m, z)
      <4>1. CASE \E q \in 1 .. Len(ls) : x = ls[q]
        <5>1. PICK q \in 1 .. Len(ls) : x = ls[q]  BY <4>1
        <5>2. q - 1 \in 1 .. Len(t) /\ (q - 1) + 1 = q
          <6>1. q # 1  BY <2>2, <3>2, <5>1
          <6>. QED  BY <1>1, <2>3, <6>1
        <5>3. t[q - 1] = x  BY <2>3, <5>1, <5>2
        <5>. QED  BY <5>2, <5>3 DEF Roots
      <4>2. CASE \E q \in m .. Len(nodes) : x = z + q - 1  BY <4>2 DEF Roots
      <4>. QED  BY <4>1, <4>2, <3>2 DEF Roots
    <3>. QED  BY <3>1, <3>2
  <2>9. ASSUME NEW x \in Roots(ls, nodes, m, z) PROVE w[p] <= w[x]
    <3>0. w[p] = freq[ls[1]] /\ freq[ls[1]] \in Nat  BY <1>2, <1>3, <2>2, <2>4
    <3>1. CASE \E q \in 1 .. Len(ls) : x = ls[q]
      <4>1. PICK q \in 1 .. Len(ls) : x = ls[q]  BY <3>1
      <4>2. w[x] = freq[ls[q]]  BY <1>2, <1>3, <4>1
      <4>3. freq[ls[1]] <= freq[ls[q]]
        <5>1. CASE q = 1  BY <5>1, <3>0
        <5>2. CASE q # 1
          <6>1. 1 < q  BY <1>1, <5>2
          <6>. QED  BY <2>4, <6>1 DEF Sorted
        <5>. QED  BY <5>1, <5>2
      <4>. QED  BY <3>0, <4>2, <4>3
    <3>2. CASE \E q \in m .. Len(nodes) : x = z + q - 1
      <4>1. PICK q \in m .. Len(nodes) : x = z + q - 1  BY <3>2
      <4>2. q \in 1 .. Len(nodes) /\ m \in 1 .. Len(nodes) /\ m <= q  BY <1>1
      <4>3. nodes[m].weight <= nodes[q].weight /\ freq[ls[1]] <= nodes[m].weight
        BY <1>5, <4>2 DEF Ascending
      <4>4. w[x] = nodes[q].weight  BY <1>2, <4>1, <4>2
      <4>. QED  BY <1>4, <3>0, <4>2, <4>3, <4>4
    <3>. QED  BY <3>1, <3>2 DEF Roots
  <2>. QED  BY <2>4, <2>5, <2>7, <2>8, <2>9
<1>6. CASE /\ m <= Len(nodes)
           /\ r = [weight |-> nodes[m].weight, below |-> nodes[m].below, leaves |-> ls, ni |-> m + 1]
           /\ ls # <<>> => nodes[m].weight < freq[ls[1]]
  <2>1. m \in 1 .. Len(nodes) /\ m + 1 \in 1 .. Len(nodes) + 1  BY <1>1, <1>6
  <2>2. PICK p : p = z + m - 1  OBVIOUS
  <2>3. p \in Roots(ls, nodes, m, z)
    <3>1. m \in m .. Len(nodes)  BY <1>1, <1>6
    <3>. QED  BY <2>2, <3>1 DEF Roots
  <2>4. r.weight = w[p] /\ r.below = BelowOf(nodes, z, p) /\ r.leaves = ls /\ r.ni = m + 1
    BY <1>2, <1>6, <2>1, <2>2
  <2>5. Roots(ls, nodes, m + 1, z) = Roots(ls, nodes, m, z) \ {p}
    <3>1. ASSUME NEW x \in Roots(ls, nodes, m + 1, z) PROVE x \in Roots(ls, nodes, m, z) /\ x # p
      <4>1. CASE \E q \in 1 .. Len(ls) : x = ls[q]
        <5>1. PICK q \in 1 .. Len(ls) : x = ls[q]  BY <4>1
        <5>2. x \in 0 .. z - 1  BY <1>3, <5>1
        <5>3. x # p  BY <1>1, <2>1, <2>2, <5>2
        <5>. QED  BY <5>1, <5>3 DEF Roots
      <4>2. CASE \E q \in m + 1 .. Len(nodes) : x = z + q - 1
        <5>1. PICK q \in m + 1 .. Len(nodes) : x = z + q - 1  BY <4>2
        <5>2. q \in m .. Len(nodes) /\ x # p  BY <1>1, <2>2, <5>1
        <5>. QED  BY <5>1, <5>2 DEF Roots
      <4>. QED  BY <4>1, <4>2 DEF Roots
    <3>2. ASSUME NEW x \in Roots(ls, nodes, m, z), x # p PROVE x \in Roots(ls, nodes, m + 1, z)
      <4>1. CASE \E q \in 1 .. Len(ls) : x = ls[q]  BY <4>1 DEF Roots
      <4>2. CASE \E q \in m .. Len(nodes) : x = z + q - 1
        <5>1. PICK q \in m .. Len(nodes) : x = z + q - 1  BY <4>2
        <5>2. q # m  BY <2>2, <3>2, <5>1
        <5>3. q \in m + 1 .. Len(nodes)  BY <1>1, <5>2
        <5>. QED  BY <5>1, <5>3 DEF Roots
      <4>. QED  BY <4>1, <4>2 DEF Roots
    <3>. QED  BY <3>1, <3>2
  <2>6. ASSUME NEW x \in Roots(ls, nodes, m, z) PROVE w[p] <= w[x]
    <3>0. w[p] = nodes[m].weight /\ nodes[m].weight \in Nat  BY <1>2, <1>4, <2>1, <2>2
    <3>1. CASE \E q \in 1 .. Len(ls) : x = ls[q]
      <4>1. PICK q \in 1 .. Len(ls) : x = ls[q]  BY <3>1
      <4>2. w[x] = freq[ls[q]] /\ freq[ls[q]] \in Nat  BY <1>2, <1>3, <4>1
      <4>3. ls # <<>> /\ 1 \in 1 .. Len(ls)
        <5>1. Len(ls) # 0  BY <1>1, <4>1
        <5>. QED  BY <1>1, <5>1, EmptySeq
      <4>4. freq[ls[1]] <= freq[ls[q]]
        <5>1. CASE q = 1  BY <5>1, <4>2
        <5>2. CASE q # 1
          <6>1. 1 < q  BY <1>1, <5>2
          <6>. QED  BY <4>3, <6>1 DEF Sorted
        <5>. QED  BY <5>1, <5>2
      <4>5. freq[ls[1]] \in Nat  BY <1>3, <4>3
      <4>6. nodes[m].weight < freq[ls[1]]  BY <1>6, <4>3
      <4>7. PICK u, v, y, t : u = nodes[m].weight /\ v = freq[ls[1]] /\ y = w[x] /\ t = w[p]  OBVIOUS
      <4>8. t = u /\ u \in Nat /\ v \in Nat /\ y \in Nat  BY <3>0, <4>2, <4>5, <4>7
      <4>9. u < v /\ v <= y  BY <4>2, <4>4, <4>6, <4>7
      <4>10. t <= y  BY <4>8, <4>9
      <4>. QED  BY <4>7, <4>10
    <3>2. CASE \E q \in m .. Len(nodes) : x = z + q - 1
      <4>1. PICK q \in m .. Len(nodes) : x = z + q - 1  BY <3>2
      <4>2. q \in 1 .. Len(nodes) /\ m <= q  BY <1>1
      <4>3. nodes[m].weight <= nodes[q].weight  BY <2>1, <4>2 DEF Ascending
      <4>4. w[x] = nodes[q].weight  BY <1>2, <4>1, <4>2
      <4>. QED  BY <3>0, <4>3, <4>4
    <3>. QED  BY <3>1, <3>2 DEF Roots
  <2>. QED  BY <2>3, <2>4, <2>5, <2>6
<1>7. \/ /\ ls # <<>> /\ r = [weight |-> freq[ls[1]], below |-> {ls[1]}, leaves |-> Tail(ls), ni |-> m]
         /\ m <= Len(nodes) => freq[ls[1]] <= nodes[m].weight
      \/ /\ m <= Len(nodes)
         /\ r = [weight |-> nodes[m].weight, below |-> nodes[m].below, leaves |-> ls, ni |-> m + 1]
         /\ ls # <<>> => nodes[m].weight < freq[ls[1]]
  BY NextIs
<1>. QED  BY <1>5, <1>6, <1>7

-----------------------------------------------------------------------------
(* What is below a root, weighs what it weighs; what all is merged under   *)
(* it costs, is counted by depths.                                         *)

Numbered(f, T, z) == [s \in 0 .. z - 1 |-> IF s \in T THEN f[s] ELSE 0]
SumOver(f, T, z) == Huffman!Sum(Numbered(f, T, z), z)

DepthOf(ns, z) == [s \in 0 .. z - 1 |-> Cardinality({q \in 1 .. Len(ns) : s \in ns[q].below})]

Costs(f, U, l, z) == [s \in 0 .. z - 1 |-> IF s \in U THEN f[s] * l[s] ELSE 0]
CostOf(f, U, l, z) == Huffman!Sum(Costs(f, U, l, z), z)

LEMMA NumberedIs ==
  ASSUME NEW z \in Nat, NEW f \in [0 .. z - 1 -> Nat], NEW T
  PROVE  /\ Numbered(f, T, z) \in Numbers(z) /\ SumOver(f, T, z) \in Int
         /\ \A s \in 0 .. z - 1 : Numbered(f, T, z)[s] = IF s \in T THEN f[s] ELSE 0
<1>1. Numbered(f, T, z) \in Numbers(z)  BY DEF Numbers, Numbered
<1>2. Huffman!Sum(Numbered(f, T, z), z) \in Int
  <2>1. z \in 0 .. z  OBVIOUS
  <2>. QED  BY <1>1, <2>1, SumStep
<1>. QED  BY <1>1, <1>2 DEF SumOver, Numbered

(* Of two sets with nothing in common, and of one symbol.                  *)
LEMMA SumOverUnion ==
  ASSUME NEW z \in Nat, NEW f \in [0 .. z - 1 -> Nat], NEW S, NEW T, S \cap T = {}
  PROVE  SumOver(f, S \cup T, z) = SumOver(f, S, z) + SumOver(f, T, z)
<1>. DEFINE g == Numbered(f, S, z)
            h == Numbered(f, T, z)
            u == Numbered(f, S \cup T, z)
<1>1. g \in Numbers(z) /\ h \in Numbers(z) /\ u \in Numbers(z)  BY NumberedIs
<1>2. \A x \in 0 .. z - 1 : u[x] = g[x] + h[x]
  <2>. TAKE x \in 0 .. z - 1
  <2>1. /\ g[x] = IF x \in S THEN f[x] ELSE 0
        /\ h[x] = IF x \in T THEN f[x] ELSE 0
        /\ u[x] = IF x \in S \cup T THEN f[x] ELSE 0
        /\ f[x] \in Nat
    BY DEF Numbered
  <2>. HIDE DEF g, h, u
  <2>2. CASE x \in S  BY <2>1, <2>2
  <2>3. CASE x \notin S  BY <2>1, <2>3
  <2>. QED  BY <2>2, <2>3
<1>. HIDE DEF g, h, u
<1>3. Huffman!Sum(u, z) = Huffman!Sum(g, z) + Huffman!Sum(h, z)  BY <1>1, <1>2, SumOfTwo
<1>. QED  BY <1>3 DEF g, h, u, SumOver

LEMMA SumOverOne ==
  ASSUME NEW z \in Nat, NEW f \in [0 .. z - 1 -> Nat], NEW a \in 0 .. z - 1
  PROVE  SumOver(f, {a}, z) = f[a]
<1>. DEFINE g == Numbered(f, {a}, z)
<1>1. g \in Numbers(z) /\ \A x \in 0 .. z - 1 : g[x] = IF x = a THEN f[a] ELSE 0
  BY NumberedIs
<1>. HIDE DEF g
<1>2. f[a] \in Int  OBVIOUS
<1>3. Huffman!Sum(g, z) = f[a]  BY <1>1, <1>2, SumOfOne
<1>. QED  BY <1>3 DEF g, SumOver

LEMMA CostsAre ==
  ASSUME NEW z \in Nat, NEW f \in [0 .. z - 1 -> Nat], NEW U, NEW l,
         \A s \in 0 .. z - 1 : s \in U => l[s] \in Nat
  PROVE  /\ Costs(f, U, l, z) \in Numbers(z) /\ CostOf(f, U, l, z) \in Nat
         /\ \A s \in 0 .. z - 1 :
              /\ Costs(f, U, l, z)[s] = IF s \in U THEN f[s] * l[s] ELSE 0
              /\ Costs(f, U, l, z)[s] \in Nat
<1>. DEFINE g == Costs(f, U, l, z)
<1>1. \A s \in 0 .. z - 1 : g[s] = IF s \in U THEN f[s] * l[s] ELSE 0  BY DEF Costs
<1>2. \A s \in 0 .. z - 1 : g[s] \in Nat
  <2>. TAKE s \in 0 .. z - 1
  <2>1. f[s] \in Nat  OBVIOUS
  <2>2. CASE s \in U
    <3>1. f[s] * l[s] \in Nat  BY <2>1, <2>2, TimesIs
    <3>. QED  BY <1>1, <2>2, <3>1
  <2>3. CASE s \notin U  BY <1>1, <2>3
  <2>. QED  BY <2>2, <2>3
<1>3. g = [s \in 0 .. z - 1 |-> g[s]]  BY DEF Costs
<1>. HIDE DEF g
<1>4. g \in Numbers(z)  BY <1>2, <1>3 DEF Numbers
<1>5. \A s \in 0 .. z - 1 : g[s] >= 0  BY <1>2
<1>6. Huffman!Sum(g, z) \in Nat  BY <1>4, <1>5, SumIsNat
<1>. QED  BY <1>1, <1>2, <1>4, <1>6 DEF g, CostOf

(* One node more, and place for it.                                        *)
Grown(ns, ms, z) ==
  /\ Len(ns) \in Nat /\ Len(ns) + 1 <= z /\ Len(ms) = Len(ns) + 1
  /\ \A q \in 1 .. Len(ns) : ms[q] = ns[q]

(* One node more: all below it are one deeper, which costs its weight.     *)
LEMMA DepthOfMore ==
  ASSUME NEW z \in Nat, NEW ns, NEW ms, Grown(ns, ms, z), NEW T, T = ms[Len(ms)].below
  PROVE  \A s \in 0 .. z - 1 :
           /\ DepthOf(ns, z)[s] \in Nat
           /\ DepthOf(ms, z)[s] = DepthOf(ns, z)[s] + IF s \in T THEN 1 ELSE 0
<1>. TAKE s \in 0 .. z - 1
<1>1. PICK c \in Nat : c = Len(ns) /\ Len(ms) = c + 1 /\ \A q \in 1 .. c : ms[q] = ns[q]
  BY DEF Grown
<1>2. PICK S, R : S = {q \in 1 .. Len(ns) : s \in ns[q].below} /\ R = {q \in 1 .. Len(ms) : s \in ms[q].below}
  OBVIOUS
<1>3. DepthOf(ns, z)[s] = Cardinality(S) /\ DepthOf(ms, z)[s] = Cardinality(R)
  BY <1>2 DEF DepthOf
<1>4. IsFiniteSet(S) /\ c + 1 \notin S
  <2>1. S \in SUBSET (1 .. c)  BY <1>1, <1>2
  <2>2. IsFiniteSet(1 .. c)  BY FS_Interval
  <2>3. IsFiniteSet(S)  BY <2>1, <2>2, FS_Subset
  <2>. QED  BY <2>1, <2>3
<1>5. Cardinality(S) \in Nat  BY <1>4, FS_CardinalityType
<1>6. \A q \in 1 .. c + 1 : q = c + 1 \/ q \in 1 .. c  OBVIOUS
<1>7. CASE s \in T
  <2>1. R = S \cup {c + 1}  BY <1>1, <1>2, <1>6, <1>7
  <2>2. Cardinality(R) = Cardinality(S) + 1  BY <2>1, <1>4, FS_AddElement
  <2>. QED  BY <1>1, <1>3, <1>5, <1>7, <2>2
<1>8. CASE s \notin T
  <2>1. R = S  BY <1>1, <1>2, <1>6, <1>8
  <2>. QED  BY <1>1, <1>3, <1>5, <1>8, <2>1
<1>. QED  BY <1>7, <1>8

LEMMA CostOfMore ==
  ASSUME NEW z \in Nat, NEW f \in [0 .. z - 1 -> Nat], NEW U, NEW ns, NEW ms, Grown(ns, ms, z),
         NEW S, S = ms[Len(ms)].below, S \subseteq U
  PROVE  CostOf(f, U, DepthOf(ms, z), z) = CostOf(f, U, DepthOf(ns, z), z) + SumOver(f, S, z)
<1>. DEFINE g == Costs(f, U, DepthOf(ns, z), z)
            h == Numbered(f, S, z)
            u == Costs(f, U, DepthOf(ms, z), z)
<1>1. \A s \in 0 .. z - 1 :
        /\ DepthOf(ns, z)[s] \in Nat
        /\ DepthOf(ms, z)[s] = DepthOf(ns, z)[s] + IF s \in S THEN 1 ELSE 0
  BY DepthOfMore
<1>2. \A s \in 0 .. z - 1 : DepthOf(ms, z)[s] \in Nat
  <2>. TAKE s \in 0 .. z - 1
  <2>1. PICK e \in Nat : e = DepthOf(ns, z)[s]  BY <1>1
  <2>2. DepthOf(ms, z)[s] = e + IF s \in S THEN 1 ELSE 0  BY <1>1, <2>1
  <2>. QED  BY <2>2
<1>3. /\ g \in Numbers(z)
      /\ \A s \in 0 .. z - 1 : g[s] = (IF s \in U THEN f[s] * DepthOf(ns, z)[s] ELSE 0) /\ g[s] \in Nat
  <2>1. \A s \in 0 .. z - 1 : s \in U => DepthOf(ns, z)[s] \in Nat  BY <1>1
  <2>2. PICK e : e = DepthOf(ns, z)  OBVIOUS
  <2>. QED  BY <2>1, <2>2, CostsAre
<1>4. /\ u \in Numbers(z)
      /\ \A s \in 0 .. z - 1 : u[s] = (IF s \in U THEN f[s] * DepthOf(ms, z)[s] ELSE 0) /\ u[s] \in Nat
  <2>1. \A s \in 0 .. z - 1 : s \in U => DepthOf(ms, z)[s] \in Nat  BY <1>2
  <2>2. PICK e : e = DepthOf(ms, z)  OBVIOUS
  <2>. QED  BY <2>1, <2>2, CostsAre
<1>5. h \in Numbers(z) /\ \A s \in 0 .. z - 1 : h[s] = IF s \in S THEN f[s] ELSE 0
  <2>1. h \in Numbers(z)  BY NumberedIs
  <2>2. \A s \in 0 .. z - 1 : h[s] = IF s \in S THEN f[s] ELSE 0  BY DEF Numbered
  <2>. QED  BY <2>1, <2>2
<1>6. g \in Numbers(z) /\ h \in Numbers(z) /\ u \in Numbers(z)  BY <1>3, <1>4, <1>5
<1>7. \A x \in 0 .. z - 1 : u[x] = g[x] + h[x]
  <2>. TAKE x \in 0 .. z - 1
  <2>1. PICK e \in Nat : e = DepthOf(ns, z)[x]  BY <1>1
  <2>2. DepthOf(ms, z)[x] = e + IF x \in S THEN 1 ELSE 0  BY <1>1, <2>1
  <2>3. h[x] = IF x \in S THEN f[x] ELSE 0  BY <1>5
  <2>4. g[x] = (IF x \in U THEN f[x] * e ELSE 0) /\ g[x] \in Nat  BY <1>3, <2>1
  <2>5. u[x] = IF x \in U THEN f[x] * (e + IF x \in S THEN 1 ELSE 0) ELSE 0
    BY <1>4, <2>2
  <2>6. f[x] \in Nat  OBVIOUS
  <2>. HIDE DEF g, h, u
  <2>7. CASE x \in S
    <3>1. x \in U  BY <2>7
    <3>2. u[x] = f[x] * (e + 1) /\ g[x] = f[x] * e /\ h[x] = f[x]  BY <2>3, <2>4, <2>5, <2>7, <3>1
    <3>3. f[x] * (e + 1) = f[x] * e + f[x]  BY <2>6
    <3>. QED  BY <3>2, <3>3
  <2>8. CASE x \notin S
    <3>1. h[x] = 0 /\ e + 0 = e  BY <2>3, <2>8
    <3>2. u[x] = g[x]  BY <2>4, <2>5, <2>8, <3>1
    <3>. QED  BY <2>4, <3>1, <3>2
  <2>. QED  BY <2>7, <2>8
<1>. HIDE DEF g, h, u
<1>8. Huffman!Sum(u, z) = Huffman!Sum(g, z) + Huffman!Sum(h, z)  BY <1>6, <1>7, SumOfTwo
<1>. QED  BY <1>8 DEF g, h, u, CostOf, SumOver

-----------------------------------------------------------------------------
(* The invariant of the merging: the queues are in order, every root weighs *)
(* what is below it, no two have a symbol in common, and none weighs less  *)
(* than half of any node that was made.                                    *)
Heap(f, U, ls, ns, m, z) ==
  /\ Sorted(f, ls) /\ Ascending(ns) /\ Len(ls) + 2 * Len(ns) - m + 1 = Cardinality(U)
  /\ \A x \in Roots(ls, ns, m, z) :
       /\ WeightOf(f, ns, z)[x] > 0
       /\ BelowOf(ns, z, x) \subseteq U
       /\ WeightOf(f, ns, z)[x] = SumOver(f, BelowOf(ns, z, x), z)
       /\ \A q \in 1 .. Len(ns) : ns[q].weight <= 2 * WeightOf(f, ns, z)[x]
       /\ \A y \in Roots(ls, ns, m, z) : y # x => BelowOf(ns, z, x) \cap BelowOf(ns, z, y) = {}

(* For every code, the roots have depths that fit, and what they cost and  *)
(* what has been merged, together are no more than the code costs.         *)
NoneCheaper(f, U, ls, ns, m, z, L) ==
  \A l \in L : \E d \in Depths(Cardinality(U) - 1, 2 * z) :
    /\ Room(Roots(ls, ns, m, z), d, Cardinality(U) - 1, 2 * z) <= 2 ^ (Cardinality(U) - 1)
    /\ Price(Roots(ls, ns, m, z), WeightOf(f, ns, z), d, 2 * z) + CostOf(f, U, DepthOf(ns, z), z)
         <= CostOf(f, U, l, z)

(* The two lightest become one: what a merge finds, and what it leaves.    *)
Merging(ls, ns, m, z, p, q, ls2, ns2, m2) ==
  /\ p \in Roots(ls, ns, m, z) /\ q \in Roots(ls, ns, m, z) /\ p # q
  /\ Grown(ns, ns2, z)
  /\ Roots(ls2, ns2, m2, z) = (Roots(ls, ns, m, z) \ {p, q}) \cup {z + Len(ns)}
  /\ z + Len(ns) \notin Roots(ls, ns, m, z)
  /\ Roots(ls, ns, m, z) \subseteq 0 .. z + Len(ns) - 1

Lightest(A, w, p, q) ==
  (\A x \in A : w[p] <= w[x]) /\ \A x \in A : x # p => w[q] <= w[x]

WeightsKept(f, ns, ms, z) ==
  /\ \A x \in 0 .. z + Len(ns) - 1 :
       /\ x \in 0 .. 2 * z - 1
       /\ WeightOf(f, ms, z)[x] = WeightOf(f, ns, z)[x]
       /\ BelowOf(ms, z, x) = BelowOf(ns, z, x)
  /\ z + Len(ns) \in 0 .. 2 * z - 1
  /\ WeightOf(f, ms, z)[z + Len(ns)] = ms[Len(ms)].weight
  /\ BelowOf(ms, z, z + Len(ns)) = ms[Len(ms)].below

(* A node that is appended changes no other.                               *)
LEMMA GrownKeeps ==
  ASSUME NEW z \in Nat, NEW f, NEW ns, NEW ms, Grown(ns, ms, z)
  PROVE  WeightsKept(f, ns, ms, z)
<1>1. PICK c \in Nat : c = Len(ns) /\ c + 1 <= z /\ Len(ms) = c + 1  BY DEF Grown
<1>2. \A q \in 1 .. c : ms[q] = ns[q]  BY <1>1 DEF Grown
<1>3. /\ \A x \in 0 .. z - 1 : WeightOf(f, ns, z)[x] = f[x] /\ BelowOf(ns, z, x) = {x}
      /\ \A q \in 1 .. c : /\ WeightOf(f, ns, z)[z + q - 1] = ns[q].weight
                          /\ BelowOf(ns, z, z + q - 1) = ns[q].below
  <2>1. Len(ns) \in 0 .. z  BY <1>1
  <2>2. Weighed(f, ns, z)  BY <2>1, WeightIs
  <2>. QED  BY <1>1, <2>2 DEF Weighed
<1>4. /\ \A x \in 0 .. z - 1 : WeightOf(f, ms, z)[x] = f[x] /\ BelowOf(ms, z, x) = {x}
      /\ \A q \in 1 .. c + 1 : /\ z + q - 1 \in 0 .. 2 * z - 1
                              /\ WeightOf(f, ms, z)[z + q - 1] = ms[q].weight
                              /\ BelowOf(ms, z, z + q - 1) = ms[q].below
  <2>1. Len(ms) \in 0 .. z  BY <1>1
  <2>2. Weighed(f, ms, z)  BY <2>1, WeightIs
  <2>. QED  BY <1>1, <2>2 DEF Weighed
<1>5. ASSUME NEW x \in 0 .. z + c - 1
      PROVE  /\ x \in 0 .. 2 * z - 1
             /\ WeightOf(f, ms, z)[x] = WeightOf(f, ns, z)[x]
             /\ BelowOf(ms, z, x) = BelowOf(ns, z, x)
  <2>1. x \in 0 .. 2 * z - 1  BY <1>1
  <2>2. CASE x < z
    <3>1. x \in 0 .. z - 1  BY <2>2
    <3>. QED  BY <3>1, <2>1, <1>3, <1>4
  <2>3. CASE x >= z
    <3>1. PICK q \in 1 .. c : x = z + q - 1
      <4>1. x - z + 1 \in 1 .. c /\ x = z + (x - z + 1) - 1  BY <2>3
      <4>. QED  BY <4>1
    <3>2. q \in 1 .. c + 1 /\ ms[q] = ns[q]  BY <1>2
    <3>. QED  BY <3>1, <3>2, <2>1, <1>3, <1>4
  <2>. QED  BY <2>2, <2>3
<1>6. z + (c + 1) - 1 = z + c /\ c + 1 \in 1 .. c + 1  OBVIOUS
<1>7. /\ z + c \in 0 .. 2 * z - 1 /\ WeightOf(f, ms, z)[z + c] = ms[c + 1].weight
      /\ BelowOf(ms, z, z + c) = ms[c + 1].below
  BY <1>4, <1>6
<1>. QED  BY <1>1, <1>5, <1>7 DEF WeightsKept

(* What the exchange of depths needs of the queues.                        *)
LEMMA HeapIsForest ==
  ASSUME NEW z \in Nat, NEW f \in [0 .. z - 1 -> Nat], NEW U, Cardinality(U) - 1 \in Nat,
         NEW ls, NEW ns, NEW m, Heap(f, U, ls, ns, m, z),
         Roots(ls, ns, m, z) \subseteq 0 .. 2 * z - 1,
         \A q \in 1 .. Len(ns) : ns[q].weight \in Nat
  PROVE  Forest(Roots(ls, ns, m, z), WeightOf(f, ns, z), Cardinality(U) - 1, 2 * z)
<1>1. \A x \in 0 .. 2 * z - 1 :
        (IF x < z THEN f[x] ELSE IF x - z + 1 \in 1 .. Len(ns) THEN ns[x - z + 1].weight ELSE 0) \in Nat
  <2>. TAKE x \in 0 .. 2 * z - 1
  <2>1. CASE x < z
    <3>1. x \in 0 .. z - 1  BY <2>1
    <3>. QED  BY <2>1, <3>1
  <2>2. CASE ~(x < z)  BY <2>2
  <2>. QED  BY <2>1, <2>2
<1>2. WeightOf(f, ns, z) \in [0 .. 2 * z - 1 -> Nat]  BY <1>1 DEF WeightOf
<1>3. 2 * z \in Nat  OBVIOUS
<1>. QED  BY <1>2, <1>3 DEF Heap, Forest

(* The new node weighs at least half of every one before, as the lighter   *)
(* of its two did, and at least as much as the last.                       *)
LEMMA MergeHeap ==
  ASSUME NEW z \in Nat, NEW f \in [0 .. z - 1 -> Nat], NEW U,
         NEW ls, NEW ns, NEW m, Heap(f, U, ls, ns, m, z),
         NEW p, NEW q, NEW ls2, NEW ns2, NEW m2, Merging(ls, ns, m, z, p, q, ls2, ns2, m2),
         Lightest(Roots(ls, ns, m, z), WeightOf(f, ns, z), p, q),
         \A y \in 1 .. Len(ns2) : ns2[y].weight \in Nat,
         ns2[Len(ns2)].weight = WeightOf(f, ns, z)[p] + WeightOf(f, ns, z)[q],
         ns2[Len(ns2)].below = BelowOf(ns, z, p) \cup BelowOf(ns, z, q),
         Sorted(f, ls2), Len(ls2) + 2 * Len(ns2) - m2 + 1 = Cardinality(U)
  PROVE  Heap(f, U, ls2, ns2, m2, z)
<1>. DEFINE A == Roots(ls, ns, m, z)
            S == Roots(ls2, ns2, m2, z)
            w == WeightOf(f, ns, z)
            v == WeightOf(f, ns2, z)
            c == z + Len(ns)
            B(x) == BelowOf(ns, z, x)
            C(x) == BelowOf(ns2, z, x)
<1>1. /\ p \in A /\ q \in A /\ p # q /\ S = (A \ {p, q}) \cup {c} /\ c \notin A
      /\ A \subseteq 0 .. z + Len(ns) - 1
      /\ Len(ns) \in Nat /\ Len(ns) + 1 <= z /\ Len(ns2) = Len(ns) + 1
      /\ \A y \in 1 .. Len(ns) : ns2[y] = ns[y]
      /\ Grown(ns, ns2, z)
  BY DEF Merging, Grown
<1>2. /\ \A x \in A : x \in 0 .. 2 * z - 1 /\ v[x] = w[x] /\ C(x) = B(x)
      /\ c \in 0 .. 2 * z - 1 /\ v[c] = ns2[Len(ns2)].weight /\ C(c) = ns2[Len(ns2)].below
  <2>1. \A x \in A : x \in 0 .. z + Len(ns) - 1  BY <1>1
  <2>2. WeightsKept(f, ns, ns2, z)
    <3>1. Grown(ns, ns2, z)  BY DEF Merging
    <3>. QED  BY <3>1, GrownKeeps
  <2>3. /\ \A x \in 0 .. z + Len(ns) - 1 : x \in 0 .. 2 * z - 1 /\ v[x] = w[x] /\ C(x) = B(x)
        /\ c \in 0 .. 2 * z - 1 /\ v[c] = ns2[Len(ns2)].weight /\ C(c) = ns2[Len(ns2)].below
    BY <2>2 DEF WeightsKept
  <2>. HIDE DEF A, S, w, v, B, C, c
  <2>. QED  BY <2>1, <2>3
<1>3. /\ \A x \in A : /\ w[x] > 0 /\ B(x) \subseteq U /\ w[x] = SumOver(f, B(x), z)
                      /\ \A y \in 1 .. Len(ns) : ns[y].weight <= 2 * w[x]
                      /\ \A y \in A : y # x => B(x) \cap B(y) = {}
      /\ Ascending(ns)
  BY DEF Heap
<1>4. v[c] = w[p] + w[q] /\ C(c) = B(p) \cup B(q)  BY <1>2
<1>5. \A x \in A : w[p] <= w[x] /\ (x # p => w[q] <= w[x])  BY DEF Lightest
<1>6. \A x \in A : w[x] \in Nat
  <2>. TAKE x \in A
  <2>1. x \in 0 .. 2 * z - 1  BY <1>2
  <2>2. w[x] = IF x < z THEN f[x] ELSE IF x - z + 1 \in 1 .. Len(ns) THEN ns[x - z + 1].weight ELSE 0
    BY <2>1 DEF WeightOf
  <2>3. CASE x < z
    <3>1. x \in 0 .. z - 1  BY <2>1, <2>3
    <3>. QED  BY <2>2, <2>3, <3>1
  <2>4. CASE ~(x < z) /\ x - z + 1 \in 1 .. Len(ns)
    <3>1. PICK y : y = x - z + 1  OBVIOUS
    <3>2. y \in 1 .. Len(ns) /\ y \in 1 .. Len(ns2)  BY <1>1, <2>4, <3>1
    <3>3. ns2[y].weight \in Nat /\ ns2[y] = ns[y]  BY <1>1, <3>2
    <3>. QED  BY <2>2, <2>4, <3>1, <3>3
  <2>5. CASE ~(x < z) /\ x - z + 1 \notin 1 .. Len(ns)  BY <2>2, <2>5
  <2>. QED  BY <2>3, <2>4, <2>5
<1>. HIDE DEF A, S, w, v, B, C, c
<1>7. w[p] \in Nat /\ w[q] \in Nat /\ w[p] > 0 /\ w[p] <= w[q]  BY <1>1, <1>3, <1>5, <1>6
<1>8. ASSUME NEW y \in 1 .. Len(ns) PROVE ns2[y].weight <= v[c] /\ ns2[y].weight \in Nat
  <2>1. ns[y].weight <= 2 * w[p]  BY <1>1, <1>3
  <2>2. ns2[y] = ns[y] /\ y \in 1 .. Len(ns2)  BY <1>1
  <2>3. ns2[y].weight \in Nat  BY <2>2
  <2>4. PICK e \in Nat, t \in Nat : e = w[p] /\ t = w[q]  BY <1>7
  <2>5. ns2[y].weight <= 2 * e  BY <2>1, <2>2, <2>4
  <2>6. e <= t /\ v[c] = e + t  BY <1>4, <1>7, <2>4
  <2>7. PICK r \in Nat : r = ns2[y].weight  BY <2>3
  <2>8. r <= e + t  BY <2>5, <2>6, <2>7
  <2>. QED  BY <2>3, <2>6, <2>7, <2>8
<1>9. \A y \in 1 .. Len(ns2) : y \in 1 .. Len(ns) \/ y = Len(ns2)
  <2>1. Len(ns) \in Nat /\ Len(ns2) = Len(ns) + 1  BY DEF Merging, Grown
  <2>2. PICK a, b \in Nat : a = Len(ns) /\ b = Len(ns2)  BY <2>1
  <2>3. \A y \in 1 .. b : y \in 1 .. a \/ y = b  BY <2>1, <2>2
  <2>. QED  BY <2>2, <2>3
<1>10. Ascending(ns2)
  <2>. SUFFICES ASSUME NEW y \in 1 .. Len(ns2), NEW t \in 1 .. Len(ns2), y <= t
       PROVE  ns2[y].weight <= ns2[t].weight
    BY DEF Ascending
  <2>1. CASE t = Len(ns2)
    <3>1. ns2[t].weight = v[c]  BY <2>1, <1>2
    <3>2. CASE y = t
      <4>1. ns2[y].weight \in Nat  OBVIOUS
      <4>. QED  BY <3>2, <4>1
    <3>3. CASE y # t
      <4>1. y \in 1 .. Len(ns)  BY <1>9, <2>1, <3>3
      <4>. QED  BY <1>8, <3>1, <4>1
    <3>. QED  BY <3>2, <3>3
  <2>2. CASE t # Len(ns2)
    <3>1. t \in 1 .. Len(ns) /\ y \in 1 .. Len(ns)  BY <1>1, <1>9, <2>2
    <3>2. ns2[t] = ns[t] /\ ns2[y] = ns[y]  BY <1>1, <3>1
    <3>. QED  BY <1>3, <3>1, <3>2 DEF Ascending
  <2>. QED  BY <2>1, <2>2
<1>11. ASSUME NEW x \in S
       PROVE  /\ v[x] > 0 /\ C(x) \subseteq U /\ v[x] = SumOver(f, C(x), z)
              /\ \A y \in 1 .. Len(ns2) : ns2[y].weight <= 2 * v[x]
              /\ \A y \in S : y # x => C(x) \cap C(y) = {}
  <2>1. CASE x = c
    <3>1. v[c] > 0 /\ v[c] \in Nat  BY <1>4, <1>7
    <3>2. C(c) \subseteq U  BY <1>1, <1>3, <1>4
    <3>3. v[c] = SumOver(f, C(c), z)
      <4>1. B(p) \cap B(q) = {}  BY <1>1, <1>3
      <4>2. SumOver(f, B(p) \cup B(q), z) = SumOver(f, B(p), z) + SumOver(f, B(q), z)
        BY <4>1, SumOverUnion
      <4>. QED  BY <4>2, <1>1, <1>3, <1>4
    <3>4. \A y \in 1 .. Len(ns2) : ns2[y].weight <= 2 * v[c]
      <4>. TAKE y \in 1 .. Len(ns2)
      <4>1. CASE y \in 1 .. Len(ns)
        <5>1. ns2[y].weight <= v[c] /\ ns2[y].weight \in Nat  BY <1>8, <4>1
        <5>. QED  BY <3>1, <5>1
      <4>2. CASE y = Len(ns2)  BY <1>2, <3>1, <4>2
      <4>. QED  BY <1>9, <4>1, <4>2
    <3>5. ASSUME NEW y \in S, y # c PROVE C(c) \cap C(y) = {}
      <4>1. y \in A /\ y # p /\ y # q  BY <1>1, <3>5
      <4>2. B(p) \cap B(y) = {} /\ B(q) \cap B(y) = {} /\ C(y) = B(y)  BY <1>1, <1>2, <1>3, <4>1
      <4>. QED  BY <1>4, <4>2
    <3>. QED  BY <2>1, <3>1, <3>2, <3>3, <3>4, <3>5
  <2>2. CASE x # c
    <3>1. x \in A /\ x # p /\ x # q  BY <1>1, <2>2
    <3>2. v[x] = w[x] /\ C(x) = B(x) /\ w[x] \in Nat  BY <1>2, <1>6, <3>1
    <3>3. v[x] > 0 /\ C(x) \subseteq U /\ v[x] = SumOver(f, C(x), z)  BY <1>3, <3>1, <3>2
    <3>4. \A y \in 1 .. Len(ns2) : ns2[y].weight <= 2 * v[x]
      <4>. TAKE y \in 1 .. Len(ns2)
      <4>1. CASE y \in 1 .. Len(ns)
        <5>1. ns2[y] = ns[y] /\ ns[y].weight <= 2 * w[x]  BY <1>1, <1>3, <3>1, <4>1
        <5>. QED  BY <3>2, <5>1
      <4>2. CASE y = Len(ns2)
        <5>1. ns2[y].weight = w[p] + w[q]  BY <1>2, <1>4, <4>2
        <5>2. w[p] <= w[x] /\ w[q] <= w[x]  BY <1>5, <3>1
        <5>3. PICK g, h, r \in Nat : g = w[p] /\ h = w[q] /\ r = w[x]  BY <1>7, <3>2
        <5>4. g <= r /\ h <= r  BY <5>2, <5>3
        <5>5. ASSUME NEW g1 \in Nat, NEW h1 \in Nat, NEW r1 \in Nat, g1 <= r1, h1 <= r1
              PROVE  g1 + h1 <= 2 * r1
          BY <5>5
        <5>6. g + h <= 2 * r  BY <5>4, <5>5
        <5>. QED  BY <3>2, <5>1, <5>3, <5>6
      <4>. QED  BY <1>9, <4>1, <4>2
    <3>5. ASSUME NEW y \in S, y # x PROVE C(x) \cap C(y) = {}
      <4>1. CASE y = c
        <5>1. B(p) \cap B(x) = {} /\ B(q) \cap B(x) = {}  BY <1>1, <1>3, <3>1
        <5>. QED  BY <4>1, <1>4, <3>2, <5>1
      <4>2. CASE y # c
        <5>1. y \in A  BY <1>1, <4>2
        <5>2. B(x) \cap B(y) = {} /\ C(y) = B(y)  BY <1>2, <1>3, <3>1, <3>5, <5>1
        <5>. QED  BY <3>2, <5>2
      <4>. QED  BY <4>1, <4>2
    <3>. QED  BY <3>3, <3>4, <3>5
  <2>. QED  BY <2>1, <2>2
<1>. QED  BY <1>10, <1>11 DEF Heap, S, v, C

LEMMA DepthIsNat ==
  ASSUME NEW z, NEW ns, Len(ns) \in Nat
  PROVE  \A s \in 0 .. z - 1 : DepthOf(ns, z)[s] \in Nat
<1>. TAKE s \in 0 .. z - 1
<1>1. PICK S : S = {q \in 1 .. Len(ns) : s \in ns[q].below}  OBVIOUS
<1>2. S \in SUBSET (1 .. Len(ns))  BY <1>1
<1>3. IsFiniteSet(1 .. Len(ns))  BY FS_Interval
<1>4. Cardinality(S) \in Nat  BY <1>2, <1>3, FS_Subset, FS_CardinalityType
<1>. QED  BY <1>1, <1>4 DEF DepthOf

(* The two lightest merged, some depths still cost no more than any code.  *)
LEMMA MergeIsCheap ==
  ASSUME NEW z \in Nat, NEW f \in [0 .. z - 1 -> Nat], NEW U, Cardinality(U) - 1 \in Nat, NEW L,
         \A l \in L : CostOf(f, U, l, z) \in Nat,
         NEW ls, NEW ns, NEW m, Heap(f, U, ls, ns, m, z),
         NEW p, NEW q, NEW ls2, NEW ns2, NEW m2, Merging(ls, ns, m, z, p, q, ls2, ns2, m2),
         Heap(f, U, ls2, ns2, m2, z),
         Lightest(Roots(ls, ns, m, z), WeightOf(f, ns, z), p, q),
         \A y \in 1 .. Len(ns2) : ns2[y].weight \in Nat,
         ns2[Len(ns2)].weight = WeightOf(f, ns, z)[p] + WeightOf(f, ns, z)[q],
         NoneCheaper(f, U, ls, ns, m, z, L)
  PROVE  NoneCheaper(f, U, ls2, ns2, m2, z, L)
<1>. DEFINE A == Roots(ls, ns, m, z)
            S == Roots(ls2, ns2, m2, z)
            w == WeightOf(f, ns, z)
            v == WeightOf(f, ns2, z)
            c == z + Len(ns)
            b == Cardinality(U) - 1
            C1 == CostOf(f, U, DepthOf(ns, z), z)
            C2 == CostOf(f, U, DepthOf(ns2, z), z)
<1>0. Grown(ns, ns2, z)  BY DEF Merging
<1>1. /\ p \in A /\ q \in A /\ p # q /\ S = (A \ {p, q}) \cup {c} /\ c \notin A
      /\ A \subseteq 0 .. z + Len(ns) - 1
      /\ Len(ns) \in Nat /\ Len(ns) + 1 <= z /\ Len(ns2) = Len(ns) + 1
      /\ \A y \in 1 .. Len(ns) : ns2[y] = ns[y]
  BY DEF Merging, Grown
<1>2. /\ \A x \in A : x \in 0 .. 2 * z - 1 /\ v[x] = w[x]
      /\ c \in 0 .. 2 * z - 1 /\ v[c] = w[p] + w[q]
      /\ BelowOf(ns2, z, c) = ns2[Len(ns2)].below
  <2>1. \A x \in A : x \in 0 .. z + Len(ns) - 1  BY <1>1
  <2>2. WeightsKept(f, ns, ns2, z)  BY <1>0, GrownKeeps
  <2>3. /\ \A x \in 0 .. z + Len(ns) - 1 : x \in 0 .. 2 * z - 1 /\ v[x] = w[x]
        /\ c \in 0 .. 2 * z - 1 /\ v[c] = ns2[Len(ns2)].weight
        /\ BelowOf(ns2, z, c) = ns2[Len(ns2)].below
    BY <2>2 DEF WeightsKept
  <2>. HIDE DEF A, S, v, c
  <2>. QED  BY <2>1, <2>3
<1>3. Forest(A, w, b, 2 * z)
  <2>1. A \subseteq 0 .. 2 * z - 1  BY <1>2
  <2>2. \A y \in 1 .. Len(ns) : ns[y].weight \in Nat
    <3>. TAKE y \in 1 .. Len(ns)
    <3>1. y \in 1 .. Len(ns2) /\ ns2[y] = ns[y]  BY <1>1
    <3>2. ns2[y].weight \in Nat  BY <3>1
    <3>. QED  BY <3>1, <3>2
  <2>. QED  BY <2>1, <2>2, HeapIsForest
<1>4. Forest(S, v, b, 2 * z)
  <2>1. S \subseteq 0 .. 2 * z - 1
    <3>. HIDE DEF A, S, c
    <3>. QED  BY <1>1, <1>2
  <2>. QED  BY <2>1, HeapIsForest
<1>5. C2 = C1 + v[c] /\ v[c] \in Nat /\ C1 \in Nat
  <2>1. PICK T : T = ns2[Len(ns2)].below  OBVIOUS
  <2>2. c \in S  BY <1>1
  <2>3. T \subseteq U /\ v[c] = SumOver(f, T, z)
    <3>1. BelowOf(ns2, z, c) \subseteq U /\ v[c] = SumOver(f, BelowOf(ns2, z, c), z)
      BY <2>2 DEF Heap
    <3>. QED  BY <2>1, <3>1, <1>2
  <2>4. C2 = C1 + SumOver(f, T, z)
    <3>1. T \subseteq U  BY <2>3
    <3>2. CostOf(f, U, DepthOf(ns2, z), z) = CostOf(f, U, DepthOf(ns, z), z) + SumOver(f, T, z)
      BY <3>1, <2>1, <1>0, CostOfMore
    <3>. QED  BY <3>2
  <2>5. C1 \in Nat
    <3>1. \A s \in 0 .. z - 1 : s \in U => DepthOf(ns, z)[s] \in Nat  BY <1>1, DepthIsNat
    <3>2. PICK l : l = DepthOf(ns, z)  OBVIOUS
    <3>3. \A s \in 0 .. z - 1 : s \in U => l[s] \in Nat  BY <3>1, <3>2
    <3>4. CostOf(f, U, l, z) \in Nat  BY <3>3, CostsAre
    <3>. QED  BY <3>2, <3>4
  <2>6. v[c] \in Nat  BY <1>2, <1>4 DEF Forest
  <2>. QED  BY <2>3, <2>4, <2>5, <2>6
<1>6. (\A x \in A : w[p] <= w[x]) /\ \A x \in A : x # p => w[q] <= w[x]  BY DEF Lightest
<1>7. \A x \in A : x # p /\ x # q => v[x] = w[x]  BY <1>2
<1>8. \A l \in L : \E d \in Depths(b, 2 * z) :
        Room(A, d, b, 2 * z) <= 2 ^ b /\ Price(A, w, d, 2 * z) + C1 <= CostOf(f, U, l, z)
  BY DEF NoneCheaper
<1>. HIDE DEF A, S, w, v, c, b, C1, C2
<1>9. ASSUME NEW l \in L
      PROVE  \E d \in Depths(b, 2 * z) :
               Room(S, d, b, 2 * z) <= 2 ^ b /\ Price(S, v, d, 2 * z) + C2 <= CostOf(f, U, l, z)
  <2>1. PICK d \in Depths(b, 2 * z) :
          Room(A, d, b, 2 * z) <= 2 ^ b /\ Price(A, w, d, 2 * z) + C1 <= CostOf(f, U, l, z)
    BY <1>8
  <2>2. PICK e \in Depths(b, 2 * z) :
          Room(S, e, b, 2 * z) <= 2 ^ b /\ Price(S, v, e, 2 * z) + v[c] <= Price(A, w, d, 2 * z)
    <3>1. PICK t : t = 2 * z  OBVIOUS
    <3>2. Forest(A, w, b, t) /\ Forest(S, v, b, t)  BY <3>1, <1>3, <1>4
    <3>3. d \in Depths(b, t) /\ Room(A, d, b, t) <= 2 ^ b  BY <3>1, <2>1
    <3>4. /\ p \in A /\ q \in A /\ p # q
          /\ c \in 0 .. t - 1 /\ c \notin A /\ S = (A \ {p, q}) \cup {c}
      BY <3>1, <1>1, <1>2
    <3>5. v[c] = w[p] + w[q]  BY <1>2
    <3>6. \E e \in Depths(b, t) :
            Room(S, e, b, t) <= 2 ^ b /\ Price(S, v, e, t) + v[c] <= Price(A, w, d, t)
      BY <3>2, <3>3, <3>4, <3>5, <1>6, <1>7, LightestMerge
    <3>. QED  BY <3>1, <3>6
  <2>3. Price(S, v, e, 2 * z) \in Nat /\ Price(A, w, d, 2 * z) \in Nat
    BY <1>3, <1>4, RoomIs
  <2>4. CostOf(f, U, l, z) \in Nat  OBVIOUS
  <2>5. Price(S, v, e, 2 * z) + C2 <= CostOf(f, U, l, z)
    <3>1. PICK g, h, r \in Nat :
            g = Price(S, v, e, 2 * z) /\ h = Price(A, w, d, 2 * z) /\ r = CostOf(f, U, l, z)
      BY <2>3, <2>4
    <3>2. PICK x, y \in Nat : x = C1 /\ y = v[c]  BY <1>5
    <3>3. h + x <= r /\ g + y <= h /\ C2 = x + y  BY <1>5, <2>1, <2>2, <3>1, <3>2
    <3>4. g + (x + y) <= r  BY <3>3
    <3>. QED  BY <3>1, <3>3, <3>4
  <2>. QED  BY <2>2, <2>5
<1>. QED  BY <1>9 DEF NoneCheaper, S, v, b, C2

-----------------------------------------------------------------------------
(* All codes, by the symbols used and what they take of all words.         *)

WordsOf(U, l, z, c) == [s \in 0 .. z - 1 |-> IF s \in U THEN 2 ^ (c - l[s]) ELSE 0]
CodesOf(U, z, c) == {l \in [U -> 1 .. c] : Huffman!Sum(WordsOf(U, l, z, c), z) <= 2 ^ c}

(* As the property has them.                                               *)
LEMMA CodesAre ==
  ASSUME NEW z, z = Huffman!Size, NEW U, U = Huffman!Used, NEW c
  PROVE  Huffman!CodesUpTo(c) = CodesOf(U, z, c)
<1>1. Alphabet = 0 .. z - 1  BY HuffmanConstants
<1>2. \A l : Huffman!OverUsed([s \in U |-> 2 ^ (c - l[s])]) = Huffman!Sum(WordsOf(U, l, z, c), z)
  <2>. TAKE l
  <2>1. [s \in Alphabet |-> IF s \in U THEN [t \in U |-> 2 ^ (c - l[t])][s] ELSE 0] = WordsOf(U, l, z, c)
    BY <1>1 DEF WordsOf
  <2>. QED  BY <2>1 DEF Huffman!OverUsed
<1>. QED  BY <1>2 DEF Huffman!CodesUpTo, CodesOf

LEMMA CostIs ==
  ASSUME NEW z, z = Huffman!Size, NEW U, U = Huffman!Used, NEW l
  PROVE  Huffman!Cost(l) = CostOf(freq, U, l, z)
<1>1. Alphabet = 0 .. z - 1  BY HuffmanConstants
<1>2. [s \in Alphabet |-> IF s \in U THEN [t \in U |-> freq[t] * l[t]][s] ELSE 0] = Costs(freq, U, l, z)
  BY <1>1 DEF Costs
<1>. QED  BY <1>2 DEF Huffman!Cost, Huffman!OverUsed, CostOf

(* What a code costs is a number.                                          *)
LEMMA CodeCosts ==
  ASSUME NEW z \in Nat, NEW f \in [0 .. z - 1 -> Nat], NEW U, NEW c, NEW l \in CodesOf(U, z, c)
  PROVE  CostOf(f, U, l, z) \in Nat
<1>1. \A s \in 0 .. z - 1 : s \in U => l[s] \in Nat  BY DEF CodesOf
<1>. QED  BY <1>1, CostsAre

(* At first the leaves are all the roots, and a code is depths of them.    *)
LEMMA BeginHeap ==
  ASSUME NEW z \in Nat, NEW f \in [0 .. z - 1 -> Nat],
         NEW U, U \subseteq 0 .. z - 1, \A s \in U : f[s] > 0,
         NEW ls, Len(ls) = Cardinality(U), Cardinality(U) \in Nat, Sorted(f, ls),
         \A q \in 1 .. Len(ls) : ls[q] \in U, \A s \in U : \E q \in 1 .. Len(ls) : ls[q] = s,
         NEW ns, Len(ns) = 0
  PROVE  Roots(ls, ns, 1, z) = U /\ Heap(f, U, ls, ns, 1, z)
<1>1. Roots(ls, ns, 1, z) = U
  <2>1. {z + q - 1 : q \in 1 .. Len(ns)} = {}  OBVIOUS
  <2>2. {ls[q] : q \in 1 .. Len(ls)} = U  OBVIOUS
  <2>. QED  BY <2>1, <2>2 DEF Roots
<1>2. Ascending(ns)  BY DEF Ascending
<1>3. Len(ls) + 2 * Len(ns) - 1 + 1 = Cardinality(U)  OBVIOUS
<1>4. ASSUME NEW x \in U
      PROVE  /\ WeightOf(f, ns, z)[x] > 0
             /\ BelowOf(ns, z, x) \subseteq U
             /\ WeightOf(f, ns, z)[x] = SumOver(f, BelowOf(ns, z, x), z)
             /\ \A y \in U : y # x => BelowOf(ns, z, x) \cap BelowOf(ns, z, y) = {}
  <2>1. Weighed(f, ns, z)
    <3>1. Len(ns) \in 0 .. z  OBVIOUS
    <3>. QED  BY <3>1, WeightIs
  <2>2. \A y \in U : BelowOf(ns, z, y) = {y} /\ WeightOf(f, ns, z)[y] = f[y]  BY <2>1 DEF Weighed
  <2>3. x \in 0 .. z - 1 /\ f[x] > 0  OBVIOUS
  <2>4. SumOver(f, {x}, z) = f[x]  BY <2>3, SumOverOne
  <2>5. ASSUME NEW y \in U, y # x PROVE BelowOf(ns, z, x) \cap BelowOf(ns, z, y) = {}
    <3>1. BelowOf(ns, z, x) = {x} /\ BelowOf(ns, z, y) = {y}  BY <2>2
    <3>. QED  BY <2>5, <3>1
  <2>6. WeightOf(f, ns, z)[x] > 0 /\ WeightOf(f, ns, z)[x] = SumOver(f, BelowOf(ns, z, x), z)
    BY <2>2, <2>3, <2>4
  <2>7. BelowOf(ns, z, x) \subseteq U  BY <2>2
  <2>. QED  BY <2>5, <2>6, <2>7
<1>5. \A q \in 1 .. Len(ns) : FALSE  OBVIOUS
<1>. QED  BY <1>1, <1>2, <1>3, <1>4, <1>5 DEF Heap

LEMMA BeginCheap ==
  ASSUME NEW z \in Nat, NEW f \in [0 .. z - 1 -> Nat],
         NEW U, U \subseteq 0 .. z - 1, Cardinality(U) - 1 \in Nat,
         NEW ls, NEW ns, Len(ns) = 0, Roots(ls, ns, 1, z) = U
  PROVE  NoneCheaper(f, U, ls, ns, 1, z, CodesOf(U, z, Cardinality(U) - 1))
<1>1. PICK c \in Nat : c = Cardinality(U) - 1  OBVIOUS
<1>2. PICK w : w = WeightOf(f, ns, z)  OBVIOUS
<1>3. \A x \in U : x \in 0 .. z - 1 /\ w[x] = f[x] /\ f[x] \in Nat
  <2>1. Len(ns) \in 0 .. z  OBVIOUS
  <2>2. Weighed(f, ns, z)  BY <2>1, WeightIs
  <2>. QED  BY <1>2, <2>2 DEF Weighed
<1>4. CostOf(f, U, DepthOf(ns, z), z) = 0
  <2>1. PICK e : e = DepthOf(ns, z)  OBVIOUS
  <2>2. \A s \in 0 .. z - 1 : e[s] = 0
    <3>. TAKE s \in 0 .. z - 1
    <3>1. {q \in 1 .. Len(ns) : s \in ns[q].below} = {}  OBVIOUS
    <3>. QED  BY <2>1, <3>1, FS_EmptySet DEF DepthOf
  <2>3. Costs(f, U, e, z) \in Numbers(z)
    <3>1. \A s \in 0 .. z - 1 : s \in U => e[s] \in Nat  BY <2>2
    <3>. QED  BY <3>1, CostsAre
  <2>4. \A s \in 0 .. z - 1 : Costs(f, U, e, z)[s] = 0
    <3>. TAKE s \in 0 .. z - 1
    <3>1. f[s] \in Nat /\ e[s] = 0  BY <2>2
    <3>2. f[s] * e[s] = 0  BY <3>1
    <3>. QED  BY <3>2 DEF Costs
  <2>5. Huffman!Sum(Costs(f, U, e, z), z) = 0  BY <2>3, <2>4, SumOfNothing
  <2>. QED  BY <2>1, <2>5 DEF CostOf
<1>5. 2 * z \in Nat /\ z <= 2 * z  OBVIOUS
<1>6. PICK m \in Nat : m = 2 * z /\ z <= m  BY <1>5
<1>7. ASSUME NEW l \in CodesOf(U, z, c)
      PROVE  \E d \in Depths(c, m) :
               Room(U, d, c, m) <= 2 ^ c /\ Price(U, w, d, m) + 0 <= CostOf(f, U, l, z)
  <2>. DEFINE d == [x \in 0 .. m - 1 |-> IF x \in U THEN l[x] ELSE 0]
  <2>1. /\ \A x \in U : l[x] \in 1 .. c
        /\ Huffman!Sum(WordsOf(U, l, z, c), z) <= 2 ^ c
    BY DEF CodesOf
  <2>2. d \in Depths(c, m) /\ \A x \in U : d[x] = l[x]
    <3>1. \A x \in U : x \in 0 .. m - 1  BY <1>3, <1>6
    <3>2. \A x \in 0 .. m - 1 : (IF x \in U THEN l[x] ELSE 0) \in 0 .. c  BY <2>1
    <3>. QED  BY <3>1, <3>2 DEF Depths
  <2>. HIDE DEF d
  <2>3. WordsOf(U, l, z, c) \in Numbers(z)
    <3>1. \A s \in 0 .. z - 1 : (IF s \in U THEN 2 ^ (c - l[s]) ELSE 0) \in Int
      <4>. TAKE s \in 0 .. z - 1
      <4>1. CASE s \in U
        <5>1. c - l[s] \in Nat  BY <2>1, <4>1
        <5>2. 2 ^ (c - l[s]) \in Nat  BY <5>1, PowerIs
        <5>. QED  BY <4>1, <5>2
      <4>2. CASE s \notin U  BY <4>2
      <4>. QED  BY <4>1, <4>2
    <3>. QED  BY <3>1 DEF WordsOf, Numbers
  <2>4. Shares(U, d, c, m) \in Numbers(m)
    <3>1. \A s \in 0 .. m - 1 : (IF s \in U THEN 2 ^ (c - d[s]) ELSE 0) \in Int
      <4>. TAKE s \in 0 .. m - 1
      <4>1. CASE s \in U
        <5>0. d[s] \in 1 .. c  BY <2>1, <2>2, <4>1
        <5>1. c - d[s] \in Nat  BY <5>0
        <5>2. 2 ^ (c - d[s]) \in Nat  BY <5>1, PowerIs
        <5>. QED  BY <4>1, <5>2
      <4>2. CASE s \notin U  BY <4>2
      <4>. QED  BY <4>1, <4>2
    <3>. QED  BY <3>1 DEF Shares, Numbers
  <2>5. Costs(f, U, l, z) \in Numbers(z) /\ CostOf(f, U, l, z) \in Nat
    <3>1. \A s \in 0 .. z - 1 : s \in U => l[s] \in Nat  BY <2>1
    <3>. QED  BY <3>1, CostsAre
  <2>6. Prices(U, w, d, m) \in Numbers(m)
    <3>1. \A s \in 0 .. m - 1 : (IF s \in U THEN w[s] * d[s] ELSE 0) \in Int
      <4>. TAKE s \in 0 .. m - 1
      <4>1. CASE s \in U
        <5>1. w[s] \in Nat /\ d[s] \in Nat  BY <1>3, <2>1, <2>2, <4>1
        <5>2. w[s] * d[s] \in Nat  BY <5>1, TimesIs
        <5>. QED  BY <4>1, <5>2
      <4>2. CASE s \notin U  BY <4>2
      <4>. QED  BY <4>1, <4>2
    <3>. QED  BY <3>1 DEF Prices, Numbers
  <2>7. \A x \in 0 .. m - 1 :
          /\ Shares(U, d, c, m)[x] = IF x < z THEN WordsOf(U, l, z, c)[x] ELSE 0
          /\ Prices(U, w, d, m)[x] = IF x < z THEN Costs(f, U, l, z)[x] ELSE 0
    <3>. TAKE x \in 0 .. m - 1
    <3>1. CASE x < z
      <4>1. x \in 0 .. z - 1  BY <3>1
      <4>2. CASE x \in U
        <5>1. d[x] = l[x] /\ w[x] = f[x]  BY <1>3, <2>2, <4>2
        <5>. QED  BY <3>1, <4>1, <4>2, <5>1 DEF Shares, Prices, WordsOf, Costs
      <4>3. CASE x \notin U  BY <3>1, <4>1, <4>3 DEF Shares, Prices, WordsOf, Costs
      <4>. QED  BY <4>2, <4>3
    <3>2. CASE ~(x < z)
      <4>1. x \notin U
        <5>1. x \notin 0 .. z - 1  BY <3>2
        <5>. QED  BY <5>1, <1>3
      <4>. QED  BY <3>2, <4>1 DEF Shares, Prices
    <3>. QED  BY <3>1, <3>2
  <2>8. Huffman!Sum(Shares(U, d, c, m), m) = Huffman!Sum(WordsOf(U, l, z, c), z)
    BY <1>6, <2>3, <2>4, <2>7, SumPadded
  <2>9. Huffman!Sum(Prices(U, w, d, m), m) = Huffman!Sum(Costs(f, U, l, z), z)
    BY <1>6, <2>5, <2>6, <2>7, SumPadded
  <2>10. Room(U, d, c, m) <= 2 ^ c  BY <2>1, <2>8 DEF Room
  <2>11. Price(U, w, d, m) = CostOf(f, U, l, z)  BY <2>9 DEF Price, CostOf
  <2>12. Price(U, w, d, m) + 0 <= CostOf(f, U, l, z)  BY <2>5, <2>11
  <2>. QED  BY <2>2, <2>10, <2>12
<1>. QED  BY <1>1, <1>2, <1>4, <1>6, <1>7 DEF NoneCheaper

(* What holds while the queues are merged, and of the depths in the end.   *)
CheapHeap(U, z) ==
  /\ Heap(freq, U, leaves, nodes, ni, z)
  /\ NoneCheaper(freq, U, leaves, nodes, ni, z, CodesOf(U, z, Cardinality(U) - 1))
CheapCode(U, z) ==
  \A l \in CodesOf(U, z, Cardinality(U) - 1) : CostOf(freq, U, lens, z) <= CostOf(freq, U, l, z)

OptimalInv ==
  /\ phase = "merge" => CheapHeap(Huffman!Used, Huffman!Size)
  /\ phase = "clamp" => CheapCode(Huffman!Used, Huffman!Size)

LEMMA SortOptimal == ASSUME LengthsInv, Huffman!Sort PROVE OptimalInv'
<1>1. /\ phase = "start" /\ phase' = "merge" /\ Cardinality(Huffman!Used) >= 2
      /\ leaves' = Huffman!InOrder(Huffman!Used, freq) /\ UNCHANGED <<freq, lens, nodes, ni, order>>
  BY SameCardinality DEF Huffman!Sort
<1>2. freq \in [Alphabet -> Nat] /\ nodes = <<>> /\ ni = 1  BY <1>1 DEF LengthsInv
<1>3. Huffman!Used' = Huffman!Used  BY <1>1 DEF Huffman!Used
<1>4. PICK q, R, U, z, f : /\ q = leaves' /\ R = ByNumber(freq) /\ U = Huffman!Used
                           /\ z = Huffman!Size /\ f = freq
  OBVIOUS
<1>5. IsInOrder(q, U, R) /\ Orders(U, R)  BY <1>1, <1>2, <1>4, NumbersOrder
<1>6. z \in Nat /\ f \in [0 .. z - 1 -> Nat] /\ U \subseteq 0 .. z - 1 /\ IsFiniteSet(U)
      /\ Cardinality(U) \in Nat /\ Cardinality(U) >= 2 /\ \A s \in U : f[s] > 0
  <2>1. \A s \in Huffman!Used : freq[s] > 0  BY DEF Huffman!Used
  <2>. QED  BY <1>1, <1>2, <1>4, <2>1, HuffmanConstants, UsedIs
<1>7. /\ q \in Seq(U) /\ Len(q) = Cardinality(U)
      /\ \A m \in 1 .. Len(q) : q[m] \in U /\ RankOf(U, R, q[m]) = m - 1
      /\ \A s \in U : \E m \in 1 .. Len(q) : q[m] = s
  BY <1>5 DEF IsInOrder
<1>8. Sorted(f, q)
  <2>. SUFFICES ASSUME NEW a \in 1 .. Len(q), NEW b \in 1 .. Len(q), a < b
       PROVE  f[q[a]] <= f[q[b]] /\ q[a] # q[b]
    BY DEF Sorted
  <2>1. PICK x \in U, y \in U : x = q[a] /\ y = q[b]  BY <1>7
  <2>2. RankOf(U, R, x) = a - 1 /\ RankOf(U, R, y) = b - 1  BY <1>7, <2>1
  <2>3. x # y  BY <2>2
  <2>4. <<y, x>> \notin R
    <3>. SUFFICES ASSUME <<y, x>> \in R PROVE FALSE  OBVIOUS
    <3>1. RankOf(U, R, y) < RankOf(U, R, x)  BY <1>5, <1>6, RanksAre
    <3>. QED  BY <2>2, <3>1
  <2>5. <<x, y>> \in R  BY <1>5, <2>3, <2>4 DEF Orders
  <2>6. f[x] < f[y] \/ f[x] = f[y]  BY <1>4, <2>5 DEF ByNumber
  <2>7. f[x] \in Nat /\ f[y] \in Nat  BY <1>6
  <2>. QED  BY <2>1, <2>3, <2>6, <2>7
<1>9. PICK ns : ns = nodes  OBVIOUS
<1>10. Len(ns) = 0 /\ Cardinality(U) - 1 \in Nat  BY <1>2, <1>6, <1>9, EmptySeq
<1>11. Roots(q, ns, 1, z) = U /\ Heap(f, U, q, ns, 1, z)
  BY <1>6, <1>7, <1>8, <1>10, BeginHeap
<1>12. NoneCheaper(f, U, q, ns, 1, z, CodesOf(U, z, Cardinality(U) - 1))
  BY <1>6, <1>10, <1>11, BeginCheap
<1>13. CheapHeap(U, z)'  BY <1>1, <1>2, <1>4, <1>9, <1>11, <1>12 DEF CheapHeap
<1>. QED  BY <1>1, <1>3, <1>4, <1>13 DEF OptimalInv

(* Roots are numbered from 0, and the next node comes behind all of them.  *)
LEMMA RootsAre ==
  ASSUME NEW z \in Nat, NEW ls, Len(ls) \in Nat, NEW ns, Len(ns) \in Nat, NEW m \in 1 .. Len(ns) + 1,
         \A q \in 1 .. Len(ls) : ls[q] \in 0 .. z - 1
  PROVE  /\ Roots(ls, ns, m, z) \subseteq 0 .. z + Len(ns) - 1 /\ z + Len(ns) \notin Roots(ls, ns, m, z)
         /\ \A ms : Len(ms) = Len(ns) + 1 =>
              Roots(ls, ms, m, z) = Roots(ls, ns, m, z) \cup {z + Len(ns)}
<1>1. PICK c \in Nat : c = Len(ns)  OBVIOUS
<1>2. ASSUME NEW x \in Roots(ls, ns, m, z) PROVE x \in 0 .. z + c - 1
  <2>1. CASE \E q \in 1 .. Len(ls) : x = ls[q]
    <3>1. x \in 0 .. z - 1  BY <2>1
    <3>. QED  BY <3>1
  <2>2. CASE \E q \in m .. Len(ns) : x = z + q - 1
    <3>1. PICK q \in m .. c : x = z + q - 1  BY <1>1, <2>2
    <3>. QED  BY <1>1, <3>1
  <2>. QED  BY <2>1, <2>2 DEF Roots
<1>3. z + c \notin 0 .. z + c - 1  OBVIOUS
<1>4. ASSUME NEW ms, Len(ms) = c + 1
      PROVE  Roots(ls, ms, m, z) = Roots(ls, ns, m, z) \cup {z + c}
  <2>1. m .. c + 1 = (m .. c) \cup {c + 1}  BY <1>1
  <2>2. {z + q - 1 : q \in m .. c + 1} = {z + q - 1 : q \in m .. c} \cup {z + c}
    <3>1. z + (c + 1) - 1 = z + c  OBVIOUS
    <3>. QED  BY <2>1, <3>1
  <2>. QED  BY <1>1, <1>4, <2>2 DEF Roots
<1>. QED  BY <1>1, <1>2, <1>3, <1>4

(* The used symbols bound how often two roots are merged.                  *)
LEMMA MergesFit ==
  ASSUME freq \in [Alphabet -> Nat], Two, nodes \in Seq(Nodes), ni \in 1 .. Len(nodes) + 1,
         Len(leaves) \in Nat,
         NEW z, z = Huffman!Size, NEW U, U = Huffman!Used, NEW ls, ls = leaves, NEW ns, ns = nodes,
         NEW m, m = ni, NEW f, f = freq, Heap(f, U, ls, ns, m, z),
         Len(leaves) + Len(nodes) - ni + 1 >= 1
  PROVE  /\ z \in Nat /\ f \in [0 .. z - 1 -> Nat] /\ U \subseteq 0 .. z - 1
         /\ Cardinality(U) \in Nat /\ Cardinality(U) - 1 \in Nat /\ Cardinality(U) <= z
         /\ Len(ls) \in Nat /\ Len(ns) \in Nat /\ Len(ns) \in 0 .. z /\ m \in 1 .. Len(ns) + 1
         /\ Len(ls) + Len(ns) - m + 1 > 1 => Len(ns) + 1 <= z
<1>1. /\ z \in Nat /\ f \in [0 .. z - 1 -> Nat] /\ U \subseteq 0 .. z - 1
      /\ Cardinality(U) \in Nat /\ Cardinality(U) - 1 \in Nat /\ Cardinality(U) <= z
  <2>1. z \in Nat /\ Alphabet = 0 .. z - 1 /\ U \subseteq 0 .. z - 1 /\ IsFiniteSet(U) /\ Cardinality(U) \in Nat
    BY HuffmanConstants, UsedIs
  <2>2. U # {}  BY DEF Two
  <2>3. Cardinality(U) # 0  BY <2>1, <2>2, FS_EmptySet
  <2>4. IsFiniteSet(0 .. z - 1) /\ Cardinality(0 .. z - 1) = z
    <3>1. 0 \in Int /\ z - 1 \in Int /\ (0 > z - 1 => z = 0) /\ z - 1 - 0 + 1 = z  BY <2>1
    <3>. QED  BY <3>1, FS_Interval
  <2>5. Cardinality(U) <= z
    <3>1. U \in SUBSET (0 .. z - 1)  BY <2>1
    <3>2. Cardinality(U) <= Cardinality(0 .. z - 1)  BY <3>1, <2>4, FS_Subset
    <3>. QED  BY <2>4, <3>2
  <2>. QED  BY <2>1, <2>3, <2>5
<1>2. Len(ls) + 2 * Len(ns) - m + 1 = Cardinality(U)  BY DEF Heap
<1>3. PICK x, y, u \in Nat : x = Len(ls) /\ y = Len(ns) /\ u = Cardinality(U)  BY <1>1, LenProperties
<1>4. x + y - m + 1 >= 1 /\ x + 2 * y - m + 1 = u /\ m \in 1 .. y + 1 /\ u <= z /\ z \in Nat
  BY <1>1, <1>2, <1>3
<1>5. y <= z /\ (x + y - m + 1 > 1 => y + 1 <= z)  BY <1>4
<1>6. y \in 0 .. z  BY <1>4, <1>5
<1>7. /\ Len(ls) \in Nat /\ Len(ns) \in Nat /\ Len(ns) \in 0 .. z /\ m \in 1 .. Len(ns) + 1
      /\ Len(ls) + Len(ns) - m + 1 > 1 => Len(ns) + 1 <= z
  BY <1>3, <1>4, <1>5, <1>6
<1>. QED  BY <1>1, <1>7

LEMMA MergeOptimal == ASSUME LengthsInv, OptimalInv, Huffman!Merge PROVE OptimalInv'
<1>1. PICK a, b :
        /\ a = Huffman!NextOf(leaves, ni) /\ b = Huffman!NextOf(a.leaves, a.ni)
        /\ nodes' = Append(nodes, [weight |-> a.weight + b.weight, below |-> a.below \cup b.below])
        /\ leaves' = b.leaves /\ ni' = b.ni
        /\ phase = "merge" /\ Len(leaves) + Len(nodes) - ni + 1 > 1
        /\ UNCHANGED <<freq, lens, order, phase>>
  BY DEF Huffman!Merge, Huffman!Remaining
<1>2. MergeInv /\ freq \in [Alphabet -> Nat] /\ Two  BY <1>1 DEF LengthsInv
<1>3. /\ leaves \in Seq(Huffman!Used) /\ nodes \in Seq(Nodes) /\ ni \in 1 .. Len(nodes) + 1
      /\ Len(leaves) \in Nat /\ Len(nodes) \in Nat
  BY <1>2, LenProperties DEF MergeInv
<1>4. PICK z, U, ls, ns, m, f : /\ z = Huffman!Size /\ U = Huffman!Used /\ ls = leaves
                                /\ ns = nodes /\ m = ni /\ f = freq
  OBVIOUS
<1>5. CheapHeap(U, z)  BY <1>1, <1>4 DEF OptimalInv
<1>6. Heap(f, U, ls, ns, m, z) /\ NoneCheaper(f, U, ls, ns, m, z, CodesOf(U, z, Cardinality(U) - 1))
  BY <1>4, <1>5 DEF CheapHeap
<1>7. /\ z \in Nat /\ f \in [0 .. z - 1 -> Nat] /\ U \subseteq 0 .. z - 1
      /\ Cardinality(U) \in Nat /\ Cardinality(U) - 1 \in Nat
      /\ Len(ns) \in Nat /\ Len(ns) + 1 <= z /\ Len(ns) <= z
  <2>1. Len(leaves) + Len(nodes) - ni + 1 >= 1  BY <1>1, <1>3
  <2>2. /\ z \in Nat /\ f \in [0 .. z - 1 -> Nat] /\ U \subseteq 0 .. z - 1
        /\ Cardinality(U) \in Nat /\ Cardinality(U) - 1 \in Nat /\ Len(ns) \in Nat
        /\ Len(ls) + Len(ns) - m + 1 > 1 => Len(ns) + 1 <= z
    BY <1>2, <1>3, <1>4, <1>6, <2>1, MergesFit
  <2>3. Len(ls) + Len(ns) - m + 1 > 1  BY <1>1, <1>4
  <2>4. Len(ns) + 1 <= z  BY <2>2, <2>3
  <2>. QED  BY <2>2, <2>4
<1>8. Sorted(f, ls) /\ Ascending(ns) /\ Len(ls) + 2 * Len(ns) - m + 1 = Cardinality(U)
  BY <1>6 DEF Heap
<1>10. PICK w : w = WeightOf(f, ns, z)  OBVIOUS
<1>11. Gives(a, leaves, ni)
  <2>1. Len(leaves) + Len(nodes) - ni + 1 > 0  BY <1>1, <1>3
  <2>2. a = Huffman!NextOf(leaves, ni)  BY <1>1
  <2>. QED  BY <1>2, <1>3, <2>1, <2>2, NextIs
<1>12. PICK p \in Roots(ls, ns, m, z) :
         /\ a.weight = w[p] /\ a.below = BelowOf(ns, z, p)
         /\ Roots(a.leaves, ns, a.ni, z) = Roots(ls, ns, m, z) \ {p}
         /\ \A x \in Roots(ls, ns, m, z) : w[p] <= w[x]
         /\ Sorted(f, a.leaves)
  <2>1. Len(leaves) + Len(nodes) - ni + 1 > 0  BY <1>1, <1>3
  <2>2. a = Huffman!NextOf(leaves, ni)  BY <1>1
  <2>3. Sorted(freq, leaves) /\ Ascending(nodes) /\ w = WeightOf(freq, nodes, z) /\ Len(nodes) <= z
    BY <1>4, <1>7, <1>8, <1>10
  <2>4. \E p \in Roots(leaves, nodes, ni, z) :
         /\ a.weight = w[p] /\ a.below = BelowOf(nodes, z, p)
         /\ Roots(a.leaves, nodes, a.ni, z) = Roots(leaves, nodes, ni, z) \ {p}
         /\ \A x \in Roots(leaves, nodes, ni, z) : w[p] <= w[x]
         /\ Sorted(freq, a.leaves)
    BY <1>2, <1>3, <1>4, <2>1, <2>2, <2>3, NextLightest, SMTT(30)
  <2>. QED  BY <1>4, <2>4
<1>13. a.leaves \in Seq(Huffman!Used) /\ a.ni \in 1 .. Len(nodes) + 1  BY <1>11 DEF Gives
<1>14. Len(a.leaves) + Len(nodes) - a.ni + 1 > 0
  <2>1. PICK x, y : x = Len(a.leaves) /\ y = a.ni  OBVIOUS
  <2>2. x \in Nat /\ y \in Nat  BY <1>3, <1>13, <2>1, LenProperties
  <2>3. x - y = Len(leaves) - ni - 1  BY <1>11, <2>1 DEF Gives
  <2>4. PICK g, h \in Nat : g = Len(leaves) /\ h = Len(nodes)  BY <1>3
  <2>5. g + h - ni + 1 > 1 /\ x - y = g - ni - 1 /\ ni \in 1 .. h + 1  BY <1>1, <1>3, <2>3, <2>4
  <2>6. x + h - y + 1 > 0  BY <2>2, <2>5
  <2>. QED  BY <2>1, <2>4, <2>6
<1>15. Gives(b, a.leaves, a.ni)
  <2>1. b = Huffman!NextOf(a.leaves, a.ni)  BY <1>1
  <2>. QED  BY <1>2, <1>3, <1>13, <1>14, <2>1, NextIs
<1>16. PICK q \in Roots(ls, ns, m, z) \ {p} :
         /\ b.weight = w[q] /\ b.below = BelowOf(ns, z, q)
         /\ Roots(b.leaves, ns, b.ni, z) = (Roots(ls, ns, m, z) \ {p}) \ {q}
         /\ \A x \in Roots(ls, ns, m, z) \ {p} : w[q] <= w[x]
         /\ Sorted(f, b.leaves)
  <2>1. b = Huffman!NextOf(a.leaves, a.ni)  BY <1>1
  <2>2. Sorted(freq, a.leaves) /\ Ascending(nodes) /\ w = WeightOf(freq, nodes, z) /\ Len(nodes) <= z
    BY <1>4, <1>7, <1>8, <1>10, <1>12
  <2>3. \E q \in Roots(a.leaves, nodes, a.ni, z) :
         /\ b.weight = w[q] /\ b.below = BelowOf(nodes, z, q)
         /\ Roots(b.leaves, nodes, b.ni, z) = Roots(a.leaves, nodes, a.ni, z) \ {q}
         /\ \A x \in Roots(a.leaves, nodes, a.ni, z) : w[q] <= w[x]
         /\ Sorted(freq, b.leaves)
    BY <1>2, <1>3, <1>4, <1>13, <1>14, <2>1, <2>2, NextLightest, SMTT(30)
  <2>. QED  BY <1>4, <1>12, <2>3
<1>17. PICK ls2, ns2, m2 : ls2 = b.leaves /\ ns2 = nodes' /\ m2 = b.ni  OBVIOUS
<1>18. PICK e : e = [weight |-> a.weight + b.weight, below |-> a.below \cup b.below]  OBVIOUS
<1>19. e \in Nodes /\ e.below = a.below \cup b.below /\ e.weight = a.weight + b.weight
  BY <1>11, <1>15, <1>18 DEF Nodes, Gives
<1>20. /\ ns2 \in Seq(Nodes) /\ Len(ns2) = Len(ns) + 1 /\ ns2[Len(ns2)] = e
       /\ \A y \in 1 .. Len(ns) : ns2[y] = ns[y]
  <2>1. ns2 = Append(ns, e) /\ ns \in Seq(Nodes)  BY <1>1, <1>3, <1>4, <1>17, <1>18
  <2>2. ASSUME NEW y \in 1 .. Len(ns) PROVE Append(ns, e)[y] = ns[y]
    BY <1>19, <2>1, AppendProperties
  <2>. QED  BY <1>19, <2>1, <2>2, AppendProperties
<1>21. Grown(ns, ns2, z)  BY <1>7, <1>20 DEF Grown
<1>22. \A y \in 1 .. Len(ns2) : ns2[y].weight \in Nat
  <2>. TAKE y \in 1 .. Len(ns2)
  <2>1. ns2[y] \in Nodes  BY <1>20, ElementOfSeq
  <2>. QED  BY <2>1 DEF Nodes
<1>23. /\ ls2 \in Seq(U) /\ Len(ls2) \in Nat /\ m2 \in 1 .. Len(ns) + 1
       /\ Len(ls2) + 2 * Len(ns2) - m2 + 1 = Cardinality(U)
  <2>1. ls2 \in Seq(U) /\ m2 \in 1 .. Len(ns) + 1  BY <1>4, <1>15, <1>17 DEF Gives
  <2>2. Len(ls2) \in Nat  BY <2>1, LenProperties
  <2>3. PICK x, y, u : x = Len(a.leaves) /\ y = a.ni /\ u = Len(ls2)  OBVIOUS
  <2>4. x \in Nat /\ y \in Nat /\ u \in Nat  BY <1>3, <1>13, <2>2, <2>3, LenProperties
  <2>5. x - y = Len(ls) - m - 1  BY <1>4, <1>11, <2>3 DEF Gives
  <2>6. u - m2 = x - y - 1  BY <1>15, <1>17, <2>3 DEF Gives
  <2>7. PICK g, h, r \in Nat : g = Len(ls) /\ h = Len(ns) /\ r = Cardinality(U)  BY <1>3, <1>4, <1>7
  <2>8. m \in Nat /\ m2 \in Nat /\ Len(ns2) = h + 1  BY <1>3, <1>4, <1>20, <2>1, <2>7
  <2>9. g + 2 * h - m + 1 = r  BY <1>8, <2>7
  <2>10. u + 2 * (h + 1) - m2 + 1 = r  BY <2>4, <2>5, <2>6, <2>7, <2>8, <2>9
  <2>. QED  BY <2>1, <2>2, <2>3, <2>7, <2>8, <2>10
<1>24. Merging(ls, ns, m, z, p, q, ls2, ns2, m2)
  <2>1. \A y \in 1 .. Len(ls) : ls[y] \in 0 .. z - 1
    <3>. TAKE y \in 1 .. Len(ls)
    <3>1. ls[y] \in U  BY <1>3, <1>4, ElementOfSeq
    <3>. QED  BY <1>7, <3>1
  <2>2. \A y \in 1 .. Len(ls2) : ls2[y] \in 0 .. z - 1
    <3>. TAKE y \in 1 .. Len(ls2)
    <3>1. ls2[y] \in U  BY <1>23, ElementOfSeq
    <3>. QED  BY <1>7, <3>1
  <2>3. Len(ls) \in Nat /\ Len(ns) \in Nat /\ m \in 1 .. Len(ns) + 1  BY <1>3, <1>4
  <2>4. Roots(ls, ns, m, z) \subseteq 0 .. z + Len(ns) - 1 /\ z + Len(ns) \notin Roots(ls, ns, m, z)
    BY <1>7, <2>1, <2>3, RootsAre
  <2>5. Roots(ls2, ns2, m2, z) = Roots(ls2, ns, m2, z) \cup {z + Len(ns)}
    <3>1. \A ms : Len(ms) = Len(ns) + 1 =>
            Roots(ls2, ms, m2, z) = Roots(ls2, ns, m2, z) \cup {z + Len(ns)}
      <4>1. z \in Nat /\ Len(ls2) \in Nat /\ Len(ns) \in Nat /\ m2 \in 1 .. Len(ns) + 1
        BY <1>7, <1>23, <2>3
      <4>. QED  BY <4>1, <2>2, RootsAre
    <3>2. Len(ns2) = Len(ns) + 1  BY <1>20
    <3>. QED  BY <3>1, <3>2
  <2>6. Roots(ls2, ns, m2, z) = (Roots(ls, ns, m, z) \ {p}) \ {q}  BY <1>16, <1>17
  <2>7. Roots(ls2, ns2, m2, z) = (Roots(ls, ns, m, z) \ {p, q}) \cup {z + Len(ns)}
    BY <2>5, <2>6
  <2>. QED  BY <1>21, <2>4, <2>7 DEF Merging
<1>25. Lightest(Roots(ls, ns, m, z), WeightOf(f, ns, z), p, q)
  BY <1>10, <1>12, <1>16 DEF Lightest
<1>26. /\ ns2[Len(ns2)].weight = WeightOf(f, ns, z)[p] + WeightOf(f, ns, z)[q]
       /\ ns2[Len(ns2)].below = BelowOf(ns, z, p) \cup BelowOf(ns, z, q)
  BY <1>10, <1>12, <1>16, <1>19, <1>20
<1>27. Sorted(f, ls2)  BY <1>16, <1>17
<1>28. Heap(f, U, ls2, ns2, m2, z)
  BY <1>6, <1>7, <1>22, <1>23, <1>24, <1>25, <1>26, <1>27, MergeHeap
<1>29. PICK L : L = CodesOf(U, z, Cardinality(U) - 1)  OBVIOUS
<1>30. \A l \in L : CostOf(f, U, l, z) \in Nat  BY <1>7, <1>29, CodeCosts
<1>31. NoneCheaper(f, U, ls2, ns2, m2, z, L)
  BY <1>6, <1>7, <1>22, <1>24, <1>25, <1>26, <1>28, <1>29, <1>30, MergeIsCheap
<1>32. CheapHeap(U, z)'  BY <1>1, <1>4, <1>17, <1>28, <1>29, <1>31 DEF CheapHeap
<1>33. Huffman!Used' = Huffman!Used  BY <1>1 DEF Huffman!Used
<1>. QED  BY <1>1, <1>4, <1>32, <1>33 DEF OptimalInv

(* One root is left: what has been merged, is the code.                    *)
LEMMA MergedOptimal == ASSUME LengthsInv, OptimalInv, Huffman!Merged PROVE OptimalInv'
<1>1. /\ phase = "merge" /\ phase' = "clamp" /\ Len(leaves) + Len(nodes) - ni + 1 = 1
      /\ lens' = Huffman!Depth /\ UNCHANGED <<freq, leaves, nodes, ni, order>>
  BY DEF Huffman!Merged, Huffman!Remaining
<1>2. MergeInv /\ freq \in [Alphabet -> Nat] /\ Two  BY <1>1 DEF LengthsInv
<1>3. /\ leaves \in Seq(Huffman!Used) /\ nodes \in Seq(Nodes) /\ ni \in 1 .. Len(nodes) + 1
      /\ Len(leaves) \in Nat /\ Len(nodes) \in Nat
  BY <1>2, LenProperties DEF MergeInv
<1>4. PICK z, U, ls, ns, m, f : /\ z = Huffman!Size /\ U = Huffman!Used /\ ls = leaves
                                /\ ns = nodes /\ m = ni /\ f = freq
  OBVIOUS
<1>5. Heap(f, U, ls, ns, m, z) /\ NoneCheaper(f, U, ls, ns, m, z, CodesOf(U, z, Cardinality(U) - 1))
  BY <1>1, <1>4 DEF OptimalInv, CheapHeap
<1>6. /\ z \in Nat /\ f \in [0 .. z - 1 -> Nat] /\ U \subseteq 0 .. z - 1 /\ Cardinality(U) - 1 \in Nat
      /\ Len(ls) \in Nat /\ Len(ns) \in 0 .. z /\ m \in 1 .. Len(ns) + 1
  <2>1. Len(leaves) + Len(nodes) - ni + 1 >= 1  BY <1>1
  <2>. QED  BY <1>2, <1>3, <1>4, <1>5, <2>1, MergesFit
<1>7. Forest(Roots(ls, ns, m, z), WeightOf(f, ns, z), Cardinality(U) - 1, 2 * z)
  <2>1. Roots(ls, ns, m, z) \subseteq 0 .. z + Len(ns) - 1
    <3>1. \A y \in 1 .. Len(ls) : ls[y] \in 0 .. z - 1
      <4>. TAKE y \in 1 .. Len(ls)
      <4>1. ls[y] \in U  BY <1>3, <1>4, ElementOfSeq
      <4>. QED  BY <1>6, <4>1
    <3>. QED  BY <1>6, <3>1, RootsAre
  <2>2. 0 .. z + Len(ns) - 1 \subseteq 0 .. 2 * z - 1  BY <1>6
  <2>3. Roots(ls, ns, m, z) \subseteq 0 .. 2 * z - 1  BY <2>1, <2>2
  <2>4. \A y \in 1 .. Len(ns) : ns[y].weight \in Nat
    <3>. TAKE y \in 1 .. Len(ns)
    <3>1. ns[y] \in Nodes  BY <1>3, <1>4, ElementOfSeq
    <3>. QED  BY <3>1 DEF Nodes
  <2>. QED  BY <1>5, <1>6, <2>3, <2>4, HeapIsForest
<1>8. PICK e : e = DepthOf(ns, z)  OBVIOUS
<1>9. CostOf(f, U, e, z) \in Nat
  <2>1. Len(ns) \in Nat  BY <1>6
  <2>2. \A s \in 0 .. z - 1 : s \in U => e[s] \in Nat  BY <1>8, <2>1, DepthIsNat
  <2>. QED  BY <1>6, <2>2, CostsAre
<1>10. ASSUME NEW l \in CodesOf(U, z, Cardinality(U) - 1) PROVE CostOf(f, U, e, z) <= CostOf(f, U, l, z)
  <2>1. PICK d \in Depths(Cardinality(U) - 1, 2 * z) :
          Price(Roots(ls, ns, m, z), WeightOf(f, ns, z), d, 2 * z) + CostOf(f, U, e, z) <= CostOf(f, U, l, z)
    BY <1>5, <1>8 DEF NoneCheaper
  <2>2. Price(Roots(ls, ns, m, z), WeightOf(f, ns, z), d, 2 * z) \in Nat  BY <1>7, RoomIs
  <2>3. CostOf(f, U, l, z) \in Nat  BY <1>6, CodeCosts
  <2>. QED  BY <1>9, <2>1, <2>2, <2>3
<1>11. lens' = e
  <2>1. DOMAIN nodes = 1 .. Len(nodes)  BY <1>3, LenProperties
  <2>2. Huffman!Depth = [s \in 0 .. z - 1 |-> Cardinality({q \in 1 .. Len(ns) : s \in ns[q].below})]
    BY <1>4, <2>1, HuffmanConstants, SameCardinality DEF Huffman!Depth
  <2>. QED  BY <1>1, <1>8, <2>2 DEF DepthOf
<1>12. CheapCode(U, z)'  BY <1>1, <1>4, <1>10, <1>11 DEF CheapCode
<1>13. Huffman!Used' = Huffman!Used  BY <1>1 DEF Huffman!Used
<1>. QED  BY <1>1, <1>4, <1>12, <1>13 DEF OptimalInv

LEMMA HuffmanOptimal == ASSUME LengthsInv, OptimalInv, Huffman!Next PROVE OptimalInv'
<1>1. CASE Huffman!Few \/ Huffman!Clamp \/ Huffman!Deepen \/ Huffman!Shorten
  <2>1. phase' # "merge" /\ phase' # "clamp"
    BY <1>1 DEF Huffman!Few, Huffman!Clamp, Huffman!Deepen, Huffman!Shorten
  <2>. QED  BY <2>1 DEF OptimalInv
<1>. QED  BY <1>1, SortOptimal, MergeOptimal, MergedOptimal DEF Huffman!Next

LEMMA OptimalKept == ASSUME OptimalInv, UNCHANGED huffmanVars PROVE OptimalInv'
<1>1. UNCHANGED <<freq, lens, leaves, nodes, ni, order, phase>>  BY DEF huffmanVars
<1>2. Huffman!Used' = Huffman!Used  BY <1>1 DEF Huffman!Used
<1>3. CheapHeap(Huffman!Used, Huffman!Size)' = CheapHeap(Huffman!Used, Huffman!Size)
  BY <1>1, <1>2 DEF CheapHeap
<1>4. CheapCode(Huffman!Used, Huffman!Size)' = CheapCode(Huffman!Used, Huffman!Size)
  BY <1>1, <1>2 DEF CheapCode
<1>. QED  BY <1>1, <1>3, <1>4 DEF OptimalInv

(* Every step; only huffmanLengths is in the two phases.                   *)
LEMMA OptimalStep == ASSUME LengthsInv, OptimalInv, [Next]_vars PROVE OptimalInv'
<1>1. CASE Assign  BY <1>1, HuffmanOptimal DEF Assign
<1>2. CASE BeginTree \/ SendTree \/ SendBlocks \/ UNCHANGED vars
  <2>1. UNCHANGED huffmanVars  BY <1>2 DEF BeginTree, SendTree, SendBlocks, vars
  <2>. QED  BY <2>1, OptimalKept
<1>3. CASE BeginBlock
  <2>1. phase' = "over"  BY <1>3 DEF BeginBlock
  <2>. QED  BY <2>1 DEF OptimalInv
<1>. QED  BY <1>1, <1>2, <1>3 DEF Next

LEMMA OptimalIs == ASSUME OptimalInv PROVE HuffmanIsOptimal
<1>1. PICK z, U, c : z = Huffman!Size /\ U = Huffman!Used /\ c = Cardinality(U) - 1  OBVIOUS
<1>2. SUFFICES ASSUME phase = "clamp", NEW l \in Huffman!CodesUpTo(c)
               PROVE  Huffman!Cost(lens) <= Huffman!Cost(l)
  BY <1>1, SameCardinality DEF HuffmanIsOptimal, Huffman!HuffmanIsOptimal
<1>3. l \in CodesOf(U, z, c)  BY <1>1, <1>2, CodesAre
<1>4. CostOf(freq, U, lens, z) <= CostOf(freq, U, l, z)
  BY <1>1, <1>2, <1>3 DEF OptimalInv, CheapCode
<1>. QED  BY <1>1, <1>4, CostIs

-----------------------------------------------------------------------------
(* Where blocks lie in a stream.                                           *)

LEMMA Rising ==
  ASSUME NEW m \in Nat, NEW f \in [1 .. m + 1 -> Nat],
         \A d \in 1 .. m : f[d] < f[d + 1],
         NEW a \in 1 .. m + 1, NEW b \in 1 .. m + 1, a < b
  PROVE  f[a] < f[b]
<1>. DEFINE Low == {c \in 1 .. m + 1 : a < c /\ f[a] >= f[c]}
<1>1. SUFFICES ASSUME Low # {} PROVE FALSE
  <2>1. f[a] \in Nat /\ f[b] \in Nat  OBVIOUS
  <2>2. b \in Low \/ f[a] < f[b]  BY <2>1
  <2>. QED  BY <2>2
<1>0. Low \subseteq Nat  OBVIOUS
<1>2. PICK c \in Low : \A d \in Low : c <= d  BY <1>0, <1>1, LeastOf
<1>3. c - 1 \in 1 .. m /\ c = (c - 1) + 1 /\ c - 1 \notin Low /\ a <= c - 1  BY <1>2
<1>4. f[c - 1] < f[c]  BY <1>3
<1>5. f[a] <= f[c - 1]  BY <1>3
<1>6. f[a] \in Nat /\ f[c] \in Nat /\ f[c - 1] \in Nat /\ f[a] >= f[c]  BY <1>2, <1>3
<1>. QED  BY <1>4, <1>5, <1>6

(* How many bits of whole words there are to read.                         *)
Whole == 16 * (length \div 2)

BlockOf(k1) == stream.blocks[k1]

(* Where the bits of a block end that are read as such: all of them, or    *)
(* those in front of its stored bytes.                                     *)
BitsEnd(k1) ==
  IF BlockOf(k1).type = Blocks!Stored
  THEN Blocks!Realigned(stream.at[k1] + Blocks!HeaderBits(BlockOf(k1)))
  ELSE stream.at[k1 + 1]

LEMMA BlockIs ==
  ASSUME Blocks!Laid(stream), NEW k1 \in 1 .. Len(stream.blocks)
  PROVE  /\ Len(stream.blocks) \in Nat \ {0}
         /\ BlockOf(k1).type \in Blocks!BlockTypes /\ BlockOf(k1).size \in 1 .. WindowSize
         /\ BlockOf(k1).codes \in Nat /\ Blocks!HeaderBits(BlockOf(k1)) \in {4, 20}
         /\ stream.at[k1] \in Nat /\ stream.at[k1 + 1] \in Nat
         /\ stream.made[k1] \in Nat
         /\ stream.made[k1 + 1] = stream.made[k1] + BlockOf(k1).size
         /\ stream.at[k1 + 1] = Blocks!Behind(stream.at[k1], BlockOf(k1))
<1>1. PICK m : m = Len(stream.blocks)  OBVIOUS
<1>2. /\ m \in Nat \ {0} /\ k1 \in 1 .. m /\ k1 \in 1 .. m + 1 /\ k1 + 1 \in 1 .. m + 1
      /\ Blocks!IsBlock(BlockOf(k1))
      /\ stream.at \in [1 .. m + 1 -> Nat] /\ stream.made \in [1 .. m + 1 -> Nat]
      /\ stream.at[k1 + 1] = Blocks!Behind(stream.at[k1], BlockOf(k1))
      /\ stream.made[k1 + 1] = stream.made[k1] + BlockOf(k1).size
  BY <1>1 DEF Blocks!Laid, BlockOf
<1>3. /\ BlockOf(k1).type \in Blocks!BlockTypes /\ BlockOf(k1).size \in 1 .. WindowSize
      /\ BlockOf(k1).codes \in Nat /\ Blocks!HeaderBits(BlockOf(k1)) \in {4, 20}
  BY <1>2 DEF Blocks!IsBlock, Blocks!HeaderBits
<1>4. /\ stream.at[k1] \in Nat /\ stream.at[k1 + 1] \in Nat /\ stream.made[k1] \in Nat
  BY <1>2
<1>. QED  BY <1>1, <1>2, <1>3, <1>4

LEMMA WindowIs == WindowSize \in Nat \ {0} /\ CodeBits \in Nat
BY BitsAssumption DEF Blocks!BlocksAssumption

LEMMA BlockEnds ==
  ASSUME Blocks!Laid(stream), NEW k1 \in 1 .. Len(stream.blocks)
  PROVE  /\ stream.at[k1] + 4 <= BitsEnd(k1) /\ BitsEnd(k1) \in Nat
         /\ stream.at[k1] + Blocks!HeaderBits(BlockOf(k1)) <= BitsEnd(k1)
         /\ BitsEnd(k1) <= stream.at[k1 + 1]
         /\ BlockOf(k1).type # Blocks!Stored => stream.at[k1 + 1] = BitsEnd(k1)
         /\ BlockOf(k1).type = Blocks!Stored =>
              /\ BitsEnd(k1) % 16 = 0 /\ stream.at[k1 + 1] % 16 = 0
              /\ stream.at[k1 + 1]
                   = BitsEnd(k1) + 8 * (12 + BlockOf(k1).size + (BlockOf(k1).size % 2))
<1>1. PICK x, h, z, c, e :
        /\ x = stream.at[k1] /\ h = Blocks!HeaderBits(BlockOf(k1)) /\ z = BlockOf(k1).size
        /\ c = BlockOf(k1).codes /\ e = stream.at[k1 + 1]
  OBVIOUS
<1>2. /\ x \in Nat /\ h \in {4, 20} /\ z \in Nat /\ c \in Nat
      /\ e = Blocks!Behind(x, BlockOf(k1))
  BY <1>1, BlockIs, WindowIs
<1>3. CASE BlockOf(k1).type # Blocks!Stored
  <2>1. e = x + h + c  BY <1>1, <1>2, <1>3 DEF Blocks!Behind
  <2>2. BitsEnd(k1) = e  BY <1>1, <1>3 DEF BitsEnd
  <2>3. e \in Nat /\ x + 4 <= e /\ x + h <= e  BY <1>2, <2>1
  <2>. QED  BY <1>1, <1>3, <2>2, <2>3
<1>4. CASE BlockOf(k1).type = Blocks!Stored
  <2>1. PICK r : r = 16 * ((x + h) \div 16 + 1)  OBVIOUS
  <2>2. BitsEnd(k1) = r  BY <1>1, <1>4, <2>1 DEF BitsEnd, Blocks!Realigned, Blocks!WordBits
  <2>3. e = r + 8 * (12 + z + (z % 2))
    BY <1>1, <1>2, <1>4, <2>1 DEF Blocks!Behind, Blocks!Realigned, Blocks!WordBits
  <2>4. r % 16 = 0 /\ x + 4 <= r /\ x + h <= r /\ r \in Nat  BY <1>2, <2>1
  <2>5. PICK w \in Nat : 12 + z + (z % 2) = 2 * w
    <3>1. (12 + z + (z % 2)) % 2 = 0 /\ 12 + z + (z % 2) \in Nat  BY <1>2
    <3>. QED  BY <3>1
  <2>6. e % 16 = 0 /\ r <= e  BY <2>3, <2>4, <2>5
  <2>. QED  BY <1>1, <1>2, <1>4, <2>2, <2>3, <2>4, <2>6
<1>. QED  BY <1>3, <1>4

LEMMA BlocksRise ==
  ASSUME Blocks!Laid(stream), NEW a \in 1 .. Len(stream.blocks) + 1,
         NEW b \in 1 .. Len(stream.blocks) + 1, a < b
  PROVE  /\ stream.at[a] < stream.at[b] /\ stream.made[a] < stream.made[b]
<1>. DEFINE m == Len(stream.blocks)
<1>1. /\ m \in Nat /\ stream.at \in [1 .. m + 1 -> Nat] /\ stream.made \in [1 .. m + 1 -> Nat]
  BY DEF Blocks!Laid
<1>2. ASSUME NEW c \in 1 .. m
      PROVE  stream.at[c] < stream.at[c + 1] /\ stream.made[c] < stream.made[c + 1]
  <2>1. c \in 1 .. Len(stream.blocks)  OBVIOUS
  <2>2. stream.at[c] \in Nat /\ stream.at[c] + 4 <= BitsEnd(c) /\ BitsEnd(c) \in Nat
    BY <2>1, BlockIs, BlockEnds
  <2>3. PICK x, y, u, v, e, z :
          /\ x = stream.at[c] /\ y = stream.at[c + 1] /\ u = stream.made[c]
          /\ v = stream.made[c + 1] /\ e = BitsEnd(c) /\ z = BlockOf(c).size
    OBVIOUS
  <2>4. y \in Nat /\ u \in Nat /\ v = u + z /\ z \in 1 .. WindowSize /\ e <= y
    BY <2>1, <2>3, BlockIs, BlockEnds
  <2>5. x \in Nat /\ e \in Nat /\ x + 4 <= e  BY <2>2, <2>3
  <2>6. x < y  BY <2>4, <2>5
  <2>7. u < v  BY <2>4, WindowIs
  <2>. QED  BY <2>3, <2>6, <2>7
<1>. HIDE DEF m
<1>3. PICK f : f = stream.at  OBVIOUS
<1>4. PICK g : g = stream.made  OBVIOUS
<1>5. a \in 1 .. m + 1 /\ b \in 1 .. m + 1  BY DEF m
<1>6. f[a] < f[b]  BY <1>1, <1>2, <1>3, <1>5, Rising
<1>7. g[a] < g[b]  BY <1>1, <1>2, <1>4, <1>5, Rising
<1>. QED  BY <1>3, <1>4, <1>6, <1>7

(* The bits of every block are there, and so are its stored bytes.         *)
LEMMA EnoughBits ==
  ASSUME Blocks!Laid(stream), Blocks!Ends(stream, length), NEW k1 \in 1 .. Len(stream.blocks)
  PROVE  /\ length \in Nat /\ BitsEnd(k1) <= Whole
         /\ BlockOf(k1).type = Blocks!Stored
              => BitsEnd(k1) + 8 * (12 + BlockOf(k1).size) <= 8 * length
<1>1. PICK m : m = Len(stream.blocks)  OBVIOUS
<1>2. m \in Nat \ {0} /\ k1 \in 1 .. m /\ m \in 1 .. Len(stream.blocks)  BY <1>1, BlockIs
<1>3. PICK t, y, e, z, f, w :
        /\ t = stream.at[m + 1] /\ y = stream.at[k1 + 1] /\ e = BitsEnd(k1)
        /\ z = BlockOf(k1).size /\ f = BitsEnd(m) /\ w = BlockOf(m).size
  OBVIOUS
<1>4. /\ t \in Nat /\ y \in Nat /\ e \in Nat /\ f \in Nat /\ z \in Nat /\ w \in Nat
      /\ e <= y /\ f <= t
  <2>1. z \in 1 .. WindowSize  BY <1>3, BlockIs
  <2>2. w \in 1 .. WindowSize  BY <1>2, <1>3, BlockIs
  <2>3. z \in Nat /\ w \in Nat  BY <2>1, <2>2, WindowIs
  <2>4. t \in Nat /\ f \in Nat /\ f <= t  BY <1>2, <1>3, BlockIs, BlockEnds
  <2>. QED  BY <1>3, <2>3, <2>4, BlockIs, BlockEnds
<1>5. y <= t
  <2>1. CASE k1 = m  BY <1>3, <1>4, <2>1
  <2>2. CASE k1 # m
    <3>1. /\ k1 + 1 \in 1 .. Len(stream.blocks) + 1 /\ m + 1 \in 1 .. Len(stream.blocks) + 1
          /\ k1 + 1 < m + 1
      BY <1>1, <1>2, <2>2
    <3>2. stream.at[k1 + 1] < stream.at[m + 1]  BY <3>1, BlocksRise
    <3>. QED  BY <1>3, <1>4, <3>2
  <2>. QED  BY <2>1, <2>2
<1>6. k1 # m => y <= f
  <2>. SUFFICES ASSUME k1 # m PROVE y <= f  OBVIOUS
  <2>1. PICK x : x = stream.at[m]  OBVIOUS
  <2>2. x \in Nat /\ x + 4 <= f  BY <1>1, <1>2, <1>3, <2>1, BlockIs, BlockEnds
  <2>3. y <= x
    <3>1. CASE k1 + 1 = m  BY <1>3, <1>4, <2>1, <3>1
    <3>2. CASE k1 + 1 # m
      <4>1. /\ k1 + 1 \in 1 .. Len(stream.blocks) + 1 /\ m \in 1 .. Len(stream.blocks) + 1
            /\ k1 + 1 < m
        BY <1>1, <1>2, <3>2
      <4>2. stream.at[k1 + 1] < stream.at[m]  BY <4>1, BlocksRise
      <4>. QED  BY <1>3, <1>4, <2>1, <2>2, <4>2
    <3>. QED  BY <3>1, <3>2
  <2>. QED  BY <1>4, <2>2, <2>3
<1>7. BlockOf(k1).type = Blocks!Stored => e + 8 * (12 + z) + 8 * (z % 2) = y /\ z % 2 \in {0, 1}
  <2>. SUFFICES ASSUME BlockOf(k1).type = Blocks!Stored
                PROVE  e + 8 * (12 + z) + 8 * (z % 2) = y /\ z % 2 \in {0, 1}
    OBVIOUS
  <2>1. y = e + 8 * (12 + z + (z % 2))  BY <1>3, BlockEnds
  <2>2. z % 2 \in {0, 1}  BY <1>4
  <2>. QED  BY <1>4, <2>1, <2>2
<1>8. CASE length = 2 * Blocks!WordsFor(t)
  <2>1. length = 2 * ((t + 15) \div 16)  BY <1>8 DEF Blocks!WordsFor, Blocks!WordBits
  <2>2. length \in Nat /\ length \div 2 = (t + 15) \div 16 /\ t <= 8 * length
    BY <1>4, <2>1
  <2>3. Whole = 16 * ((t + 15) \div 16)  BY <2>2 DEF Whole
  <2>4. e <= Whole  BY <1>4, <1>5, <2>3
  <2>5. BlockOf(k1).type = Blocks!Stored => e + 8 * (12 + z) <= 8 * length
    BY <1>4, <1>5, <1>7, <2>2
  <2>. QED  BY <1>3, <2>2, <2>4, <2>5
<1>9. CASE /\ BlockOf(m).type = Blocks!Stored /\ w % 2 = 1
           /\ length = 2 * Blocks!WordsFor(t) - 1
  <2>1. t % 16 = 0 /\ t = f + 8 * (12 + w + 1)
    BY <1>1, <1>2, <1>3, <1>9, BlockEnds
  <2>2. PICK q \in Nat : t = 16 * q /\ q >= 1
    <3>1. PICK q \in Nat : t = 16 * q
      <4>1. t = 16 * (t \div 16) + (t % 16) /\ t \div 16 \in Nat  BY <1>4
      <4>2. PICK h : h = t \div 16  OBVIOUS
      <4>3. h \in Nat /\ t = 16 * h  BY <1>4, <2>1, <4>1, <4>2
      <4>. QED  BY <4>3
    <3>2. t > 0  BY <1>4, <2>1
    <3>. QED  BY <3>1, <3>2
  <2>3. length = 2 * q - 1
    <3>1. length = 2 * ((t + 15) \div 16) - 1  BY <1>9 DEF Blocks!WordsFor, Blocks!WordBits
    <3>. QED  BY <2>2, <3>1
  <2>4. Whole = t - 16 /\ 8 * length = t - 8 /\ length \in Nat  BY <2>2, <2>3 DEF Whole
  <2>5. f + 104 <= t  BY <1>4, <2>1
  <2>6. CASE k1 = m
    <3>1. e = f /\ z = w  BY <1>3, <2>6
    <3>2. e <= Whole /\ e + 8 * (12 + z) <= 8 * length  BY <1>4, <2>1, <2>4, <3>1
    <3>. QED  BY <1>3, <2>4, <3>2
  <2>7. CASE k1 # m
    <3>1. e <= f /\ y <= f  BY <1>4, <1>6, <2>7
    <3>2. e <= Whole  BY <1>4, <2>4, <2>5, <3>1
    <3>3. BlockOf(k1).type = Blocks!Stored => e + 8 * (12 + z) <= 8 * length
      BY <1>4, <1>7, <2>4, <2>5, <3>1
    <3>. QED  BY <1>3, <2>4, <3>2, <3>3
  <2>. QED  BY <2>6, <2>7
<1>. QED  BY <1>1, <1>3, <1>8, <1>9 DEF Blocks!Ends, BlockOf

-----------------------------------------------------------------------------
(* bitReader.                                                              *)

Places == [pos: 0 .. length, nbits: 0 .. 15]

(* How much of the stream has been taken from there.                       *)
Taken(b) == 8 * b.pos - b.nbits

LEMMA BitsKept ==
  ASSUME length \in Nat, NEW b \in Places, NEW m \in 0 .. 16
  PROVE  Blocks!Bits(b, m) \in Places
<1>1. PICK p, c : p = b.pos /\ c = b.nbits  OBVIOUS
<1>2. p \in 0 .. length /\ c \in 0 .. 15  BY <1>1 DEF Places
<1>3. CASE c < m
  <2>1. PICK q : q = IF p + 2 <= length THEN p + 2 ELSE length  OBVIOUS
  <2>2. Blocks!Bits(b, m) = [pos |-> q, nbits |-> c + 16 - m]
    <3>1. Blocks!Feed(b) = [pos |-> q, nbits |-> c + 16]
      BY <1>1, <2>1 DEF Blocks!Feed, Blocks!At, Blocks!WordBits
    <3>2. PICK f : f = Blocks!Feed(b)  OBVIOUS
    <3>3. Blocks!Bits(b, m) = [pos |-> f.pos, nbits |-> f.nbits - m]
      BY <1>1, <1>3, <3>2 DEF Blocks!Bits, Blocks!At
    <3>. QED  BY <1>2, <3>1, <3>2, <3>3
  <2>3. q \in 0 .. length /\ c + 16 - m \in 0 .. 15  BY <1>2, <1>3, <2>1
  <2>. QED  BY <2>2, <2>3 DEF Places
<1>4. CASE ~(c < m)
  <2>1. Blocks!Bits(b, m) = [pos |-> p, nbits |-> c - m]
    BY <1>1, <1>4 DEF Blocks!Bits, Blocks!At
  <2>2. c - m \in 0 .. 15  BY <1>2, <1>4
  <2>. QED  BY <1>2, <2>1, <2>2 DEF Places
<1>. QED  BY <1>3, <1>4

LEMMA BitsExact ==
  ASSUME length \in Nat, NEW b \in Places, NEW m \in 0 .. 16,
         b.pos % 2 = 0, Taken(b) + m <= Whole
  PROVE  Blocks!Bits(b, m).pos % 2 = 0 /\ Taken(Blocks!Bits(b, m)) = Taken(b) + m
<1>1. PICK p, c : p = b.pos /\ c = b.nbits  OBVIOUS
<1>2. /\ p \in 0 .. length /\ c \in 0 .. 15 /\ p % 2 = 0 /\ 8 * p - c + m <= 16 * (length \div 2)
      /\ Taken(b) = 8 * p - c
  BY <1>1 DEF Places, Taken, Whole
<1>3. CASE c < m
  <2>1. p + 2 <= length
    <3>1. PICK h : h = length \div 2  OBVIOUS
    <3>2. h \in Nat /\ 2 * h <= length  BY <3>1
    <3>3. PICK g \in Nat : p = 2 * g  BY <1>2
    <3>4. 16 * g < 16 * h  BY <1>2, <1>3, <3>1, <3>2, <3>3
    <3>. QED  BY <3>2, <3>3, <3>4
  <2>2. Blocks!Bits(b, m) = [pos |-> p + 2, nbits |-> c + 16 - m]
    <3>1. Blocks!Feed(b) = [pos |-> p + 2, nbits |-> c + 16]
      BY <1>1, <2>1 DEF Blocks!Feed, Blocks!At, Blocks!WordBits
    <3>2. PICK f : f = Blocks!Feed(b)  OBVIOUS
    <3>3. Blocks!Bits(b, m) = [pos |-> f.pos, nbits |-> f.nbits - m]
      BY <1>1, <1>3, <3>2 DEF Blocks!Bits, Blocks!At
    <3>. QED  BY <1>2, <3>1, <3>2, <3>3
  <2>3. (p + 2) % 2 = 0 /\ 8 * (p + 2) - (c + 16 - m) = 8 * p - c + m  BY <1>2
  <2>. QED  BY <1>2, <2>2, <2>3 DEF Taken
<1>4. CASE ~(c < m)
  <2>1. Blocks!Bits(b, m) = [pos |-> p, nbits |-> c - m]
    BY <1>1, <1>4 DEF Blocks!Bits, Blocks!At
  <2>2. 8 * p - (c - m) = 8 * p - c + m  BY <1>2
  <2>. QED  BY <1>2, <2>1, <2>2 DEF Taken
<1>. QED  BY <1>3, <1>4

LEMMA RealignExact ==
  ASSUME length \in Nat, NEW b \in Places, b.pos % 2 = 0, Taken(b) \in Nat,
         Blocks!Realigned(Taken(b)) <= Whole
  PROVE  /\ Blocks!Realign(b) \in Places /\ Blocks!Realign(b).pos % 2 = 0
         /\ Blocks!Realign(b).nbits = 0
         /\ 8 * Blocks!Realign(b).pos = Blocks!Realigned(Taken(b))
<1>1. PICK p, c, m :
        p = b.pos /\ c = b.nbits /\ m = IF b.nbits = 0 THEN 16 ELSE b.nbits
  OBVIOUS
<1>2. p \in 0 .. length /\ c \in 0 .. 15 /\ m \in 0 .. 16 /\ Taken(b) = 8 * p - c /\ p % 2 = 0
  BY <1>1 DEF Places, Taken
<1>3. Blocks!Realign(b) = Blocks!Bits(b, m)  BY <1>1 DEF Blocks!Realign, Blocks!WordBits
<1>4. PICK g \in Nat : p = 2 * g  BY <1>2
<1>5. Taken(b) + m = Blocks!Realigned(Taken(b))
  <2>1. PICK t : t = Taken(b)  OBVIOUS
  <2>0. t = 8 * p - c  BY <1>2, <2>1
  <2>3. t = 16 * g - c
    <3>1. 8 * p = 16 * g  BY <1>4
    <3>. QED  BY <2>0, <3>1
  <2>4. m = IF c = 0 THEN 16 ELSE c  BY <1>1
  <2>2. t + m = 16 * (t \div 16 + 1)
    <3>1. CASE c = 0
      <4>1. t = 16 * g /\ m = 16  BY <2>3, <2>4, <3>1
      <4>. QED  BY <4>1
    <3>2. CASE c # 0
      <4>1. t = 16 * g - c /\ m = c  BY <2>3, <2>4, <3>2
      <4>. QED  BY <1>2, <3>2, <4>1
    <3>. QED  BY <3>1, <3>2
  <2>. QED  BY <2>1, <2>2 DEF Blocks!Realigned, Blocks!WordBits
<1>6. PICK r : r = Blocks!Bits(b, m)  OBVIOUS
<1>7. r \in Places /\ r.pos % 2 = 0 /\ Taken(r) = Taken(b) + m
  BY <1>2, <1>5, <1>6, BitsKept, BitsExact
<1>8. PICK q, d : q = r.pos /\ d = r.nbits  OBVIOUS
<1>9. 8 * q - d = 16 * (g + (IF c = 0 THEN 1 ELSE 0)) /\ q % 2 = 0 /\ d \in 0 .. 15 /\ q \in Nat
  <2>1. q \in Nat /\ d \in 0 .. 15 /\ Taken(r) = 8 * q - d  BY <1>7, <1>8 DEF Places, Taken
  <2>. QED  BY <1>1, <1>2, <1>4, <1>7, <1>8, <2>1
<1>10. d = 0
  <2>1. PICK h \in Nat : q = 2 * h  BY <1>9
  <2>. QED  BY <1>2, <1>4, <1>9, <2>1
<1>. QED  BY <1>3, <1>5, <1>6, <1>7, <1>8, <1>9, <1>10 DEF Taken

LEMMA RealignKept ==
  ASSUME length \in Nat, NEW b \in Places
  PROVE  Blocks!Realign(b) \in Places
<1>1. PICK m : m = IF b.nbits = 0 THEN 16 ELSE b.nbits  OBVIOUS
<1>2. m \in 0 .. 16  BY <1>1 DEF Places
<1>. QED  BY <1>1, <1>2, BitsKept DEF Blocks!Realign, Blocks!WordBits

LEMMA HeaderKept ==
  ASSUME length \in Nat, pos \in 0 .. length, nbits \in 0 .. 15, NEW full
  PROVE  Blocks!AfterHeader(full) \in Places
<1>1. PICK b : b = Blocks!Begin  OBVIOUS
<1>2. b \in Places  BY <1>1 DEF Blocks!Begin, Blocks!At, Places
<1>3. PICK c : c = Blocks!Bits(b, 3)  OBVIOUS
<1>4. c \in Places  BY <1>2, <1>3, BitsKept
<1>5. PICK d : d = Blocks!Bits(c, 1)  OBVIOUS
<1>6. d \in Places  BY <1>4, <1>5, BitsKept
<1>7. Blocks!Bits(d, 16) \in Places  BY <1>6, BitsKept
<1>8. Blocks!AfterHeader(full) = IF full THEN d ELSE Blocks!Bits(d, 16)
  BY <1>1, <1>3, <1>5 DEF Blocks!AfterHeader
<1>. QED  BY <1>6, <1>7, <1>8

(* The reader is where the block at hand begins, or a byte in front of it. *)
AtBlock ==
  /\ pos % 2 = IF unaligned THEN 1 ELSE 0
  /\ 8 * pos - nbits + (IF unaligned THEN 8 ELSE 0) = stream.at[k]

LEMMA HeaderExact ==
  ASSUME Blocks!Laid(stream), Blocks!Ends(stream, length), k \in 1 .. Len(stream.blocks),
         length \in Nat, pos \in 0 .. length, nbits \in 0 .. 15, unaligned \in BOOLEAN, AtBlock,
         NEW b, b = Blocks!AfterHeader(BlockOf(k).size = WindowSize)
  PROVE  /\ b \in Places /\ b.pos % 2 = 0
         /\ Taken(b) = stream.at[k] + Blocks!HeaderBits(BlockOf(k))
<1>1. PICK x, h : x = stream.at[k] /\ h = Blocks!HeaderBits(BlockOf(k))  OBVIOUS
<1>2. /\ x \in Nat /\ h \in {4, 20} /\ x + h <= Whole
      /\ h = IF BlockOf(k).size = WindowSize THEN 4 ELSE 20
  <2>1. x \in Nat /\ h \in {4, 20}  BY <1>1, BlockIs
  <2>2. x + h <= BitsEnd(k) /\ BitsEnd(k) \in Nat  BY <1>1, BlockEnds
  <2>3. BitsEnd(k) <= Whole  BY EnoughBits
  <2>4. Whole \in Nat  BY DEF Whole
  <2>. QED  BY <1>1, <2>1, <2>2, <2>3, <2>4 DEF Blocks!HeaderBits
<1>3. PICK a : a = Blocks!Begin  OBVIOUS
<1>4. a \in Places /\ a.pos % 2 = 0 /\ Taken(a) = x
  <2>1. CASE unaligned
    <3>1. pos % 2 = 1 /\ 8 * pos - nbits + 8 = x  BY <1>1, <2>1 DEF AtBlock
    <3>2. pos < length
      <4>1. PICK g : g = length \div 2  OBVIOUS
      <4>2. g \in Nat /\ 2 * g <= length /\ x + 4 <= 16 * g
        BY <1>2, <4>1 DEF Whole
      <4>3. 8 * pos <= 16 * g + 3  BY <1>2, <3>1, <4>2
      <4>. QED  BY <3>1, <4>2, <4>3
    <3>3. a = [pos |-> pos + 1, nbits |-> nbits]
      BY <1>3, <2>1, <3>2 DEF Blocks!Begin, Blocks!At
    <3>4. pos + 1 \in 0 .. length /\ (pos + 1) % 2 = 0  BY <3>1, <3>2
    <3>5. 8 * (pos + 1) - nbits = x  BY <3>1
    <3>. QED  BY <3>3, <3>4, <3>5 DEF Places, Taken
  <2>2. CASE ~unaligned
    <3>1. pos % 2 = 0 /\ 8 * pos - nbits = x  BY <1>1, <1>2, <2>2 DEF AtBlock
    <3>2. a = [pos |-> pos, nbits |-> nbits]  BY <1>3, <2>2 DEF Blocks!Begin, Blocks!At
    <3>. QED  BY <3>1, <3>2 DEF Places, Taken
  <2>. QED  BY <2>1, <2>2
<1>5. PICK c : c = Blocks!Bits(a, 3)  OBVIOUS
<1>6. Whole \in Nat  BY DEF Whole
<1>7. c \in Places /\ c.pos % 2 = 0 /\ Taken(c) = x + 3
  <2>1. Taken(a) + 3 <= Whole  BY <1>2, <1>4, <1>6
  <2>. QED  BY <1>4, <1>5, <2>1, BitsKept, BitsExact
<1>8. PICK d : d = Blocks!Bits(c, 1)  OBVIOUS
<1>9. d \in Places /\ d.pos % 2 = 0 /\ Taken(d) = x + 4
  <2>1. Taken(c) + 1 <= Whole  BY <1>2, <1>6, <1>7
  <2>2. x + 3 + 1 = x + 4  BY <1>2
  <2>. QED  BY <1>7, <1>8, <2>1, <2>2, BitsKept, BitsExact
<1>10. b = IF BlockOf(k).size = WindowSize THEN d ELSE Blocks!Bits(d, 16)
  BY <1>3, <1>5, <1>8 DEF Blocks!AfterHeader
<1>11. CASE BlockOf(k).size = WindowSize
  BY <1>1, <1>2, <1>9, <1>10, <1>11
<1>12. CASE BlockOf(k).size # WindowSize
  <2>1. Taken(d) + 16 <= Whole  BY <1>2, <1>6, <1>9, <1>12
  <2>2. x + 4 + 16 = x + 20  BY <1>2
  <2>3. /\ Blocks!Bits(d, 16) \in Places /\ Blocks!Bits(d, 16).pos % 2 = 0
        /\ Taken(Blocks!Bits(d, 16)) = Taken(d) + 16
    BY <1>9, <2>1, BitsKept, BitsExact
  <2>4. b = Blocks!Bits(d, 16) /\ h = 20  BY <1>2, <1>10, <1>12
  <2>. QED  BY <1>1, <1>9, <2>2, <2>3, <2>4
<1>. QED  BY <1>11, <1>12

-----------------------------------------------------------------------------
(* The block on its way.                                                   *)

BlockTypeInv ==
  /\ length \in Nat /\ pos \in 0 .. length /\ nbits \in 0 .. 15 /\ unaligned \in BOOLEAN
  /\ held \in 0 .. 15 /\ out \in Nat /\ unput \in Nat
  /\ size \in Nat /\ n \in 0 .. size /\ left \in Nat
  /\ pc \in {"idle", "write", "block", "codes", "done", "corrupt"}

(* Nothing is read before all is written, and no bit is lost in between.   *)
WriterFollows ==
  /\ pc \in {"idle", "write"} => pos = 0 /\ nbits = 0 /\ ~unaligned /\ n = 0 /\ k = 1
  /\ pc = "idle" => out = 0 /\ held = 0 /\ unput = 0 /\ length = 0
  /\ pc = "write" => by = "own" /\ out % 2 = 0
  /\ by = "own" /\ pc # "idle" =>
       /\ Len(stream.blocks) = 1
       /\ pc = "write" => 8 * out + held + unput = stream.at[2]
       /\ pc # "write" => 8 * out + held + unput \in stream.at[2] .. stream.at[2] + 15

ReaderFollows ==
  by # "damaged" /\ pc # "idle" =>
    /\ Blocks!Laid(stream) /\ size = stream.made[Len(stream.blocks) + 1]
    /\ pc # "write" =>
         /\ Blocks!Ends(stream, length) /\ pc # "corrupt"
         /\ k \in 1 .. Len(stream.blocks) + 1 /\ n = stream.made[k]
         /\ pc = "block" => k \in 1 .. Len(stream.blocks) /\ AtBlock
         /\ pc = "codes" =>
              ~unaligned /\ pos % 2 = 0 /\ 8 * pos - nbits + left = stream.at[k]
              /\ stream.at[k] <= Whole
         /\ pc = "done" => k = Len(stream.blocks) + 1

BlockInv == BlockTypeInv /\ WriterFollows /\ ReaderFollows

LEMMA BlockKept ==
  ASSUME BlockInv, UNCHANGED <<by, blockVars>>
  PROVE  BlockInv'
BY DEF BlockInv, BlockTypeInv, WriterFollows, ReaderFollows, AtBlock, Whole, blockVars

LEMMA WriteInv == ASSUME BlockInv, Blocks!Write PROVE BlockInv'
<1>1. /\ pc = "write" /\ pc' = "write" /\ unput > 0
      /\ UNCHANGED <<by, stream, length, pos, nbits, unaligned, size, n, k, left>>
  BY DEF Blocks!Write, Blocks!reader
<1>2. PICK m \in 1 .. 16 :
        /\ m <= unput /\ unput' = unput - m
        /\ out' = out + 2 * ((held + m) \div 16) /\ held' = (held + m) % 16
  BY DEF Blocks!Write, Blocks!WordBits
<1>3. held \in 0 .. 15 /\ out \in Nat /\ unput \in Nat /\ out % 2 = 0
  BY <1>1 DEF BlockInv, BlockTypeInv, WriterFollows
<1>4. /\ held' \in 0 .. 15 /\ out' \in Nat /\ unput' \in Nat /\ out' % 2 = 0
      /\ 8 * out' + held' + unput' = 8 * out + held + unput
  <2>1. PICK q, d : q = (held + m) \div 16 /\ d = (held + m) % 16  OBVIOUS
  <2>2. q \in Nat /\ d \in 0 .. 15 /\ held + m = 16 * q + d  BY <1>2, <1>3, <2>1
  <2>3. out' = out + 2 * q /\ held' = d /\ unput' = unput - m  BY <1>2, <2>1
  <2>. QED  BY <1>2, <1>3, <2>2, <2>3
<1>5. BlockTypeInv'  BY <1>1, <1>4 DEF BlockInv, BlockTypeInv
<1>6. WriterFollows'  BY <1>1, <1>4 DEF BlockInv, WriterFollows
<1>7. ReaderFollows'  BY <1>1 DEF BlockInv, ReaderFollows
<1>. QED  BY <1>5, <1>6, <1>7 DEF BlockInv

LEMMA FlushInv == ASSUME BlockInv, Blocks!Flush PROVE BlockInv'
<1>1. /\ pc = "write" /\ pc' = "block" /\ unput = 0 /\ by = "own" /\ held' = 0 /\ length' = out'
      /\ out' = (IF held > 0 THEN out + 2 ELSE out)
      /\ UNCHANGED <<by, stream, unput, pos, nbits, unaligned, size, n, k, left>>
  BY DEF Blocks!Flush, Blocks!reader, BlockInv, WriterFollows
<1>2. /\ held \in 0 .. 15 /\ out \in Nat /\ out % 2 = 0 /\ pos = 0 /\ nbits = 0 /\ ~unaligned
      /\ n = 0 /\ k = 1 /\ Blocks!Laid(stream) /\ Len(stream.blocks) = 1
      /\ 8 * out + held = stream.at[2] /\ size = stream.made[2]
  <2>1. held \in 0 .. 15 /\ out \in Nat /\ unput \in Nat  BY DEF BlockInv, BlockTypeInv
  <2>2. /\ out % 2 = 0 /\ pos = 0 /\ nbits = 0 /\ ~unaligned /\ n = 0 /\ k = 1
        /\ Len(stream.blocks) = 1 /\ 8 * out + held + unput = stream.at[2]
    BY <1>1 DEF BlockInv, WriterFollows
  <2>3. Blocks!Laid(stream) /\ size = stream.made[2]
    BY <1>1, <2>2 DEF BlockInv, ReaderFollows
  <2>. QED  BY <1>1, <2>1, <2>2, <2>3
<1>3. PICK t : t = stream.at[2]  OBVIOUS
<1>4. /\ length' = 2 * Blocks!WordsFor(t) /\ out' \in Nat
      /\ 8 * out' + held' + unput' \in t .. t + 15
  <2>1. PICK g \in Nat : out = 2 * g
    <3>1. PICK g : g = out \div 2  OBVIOUS
    <3>2. g \in Nat /\ out = 2 * g  BY <1>2, <3>1
    <3>. QED  BY <3>2
  <2>2. t = 16 * g + held  BY <1>2, <1>3, <2>1
  <2>3. CASE held > 0
    <3>1. (t + 15) \div 16 = g + 1  BY <1>2, <2>2, <2>3
    <3>2. out' = 2 * (g + 1)  BY <1>1, <2>1, <2>3
    <3>3. 8 * out' + held' + unput' \in t .. t + 15  BY <1>1, <1>2, <2>2, <2>3, <3>2
    <3>4. 2 * ((t + 15) \div 16) = 2 * (g + 1)  BY <3>1
    <3>. QED  BY <1>1, <3>2, <3>3, <3>4 DEF Blocks!WordsFor, Blocks!WordBits
  <2>4. CASE ~(held > 0)
    <3>1. held = 0 /\ t = 16 * g  BY <1>2, <2>2, <2>4
    <3>2. (t + 15) \div 16 = g  BY <3>1
    <3>3. out' = 2 * g  BY <1>1, <2>1, <2>4
    <3>4. 8 * out' + held' + unput' \in t .. t + 15  BY <1>1, <3>1, <3>3
    <3>5. 2 * ((t + 15) \div 16) = 2 * g  BY <3>2
    <3>. QED  BY <1>1, <3>3, <3>4, <3>5 DEF Blocks!WordsFor, Blocks!WordBits
  <2>. QED  BY <2>3, <2>4
<1>5. stream.at[1] = 0 /\ stream.made[1] = 0  BY <1>2 DEF Blocks!Laid
<1>6. Blocks!Ends(stream, length')  BY <1>2, <1>3, <1>4 DEF Blocks!Ends
<1>7. BlockTypeInv'  BY <1>1, <1>2, <1>4 DEF BlockInv, BlockTypeInv
<1>8. WriterFollows'  BY <1>1, <1>2, <1>3, <1>4 DEF WriterFollows
<1>9. ReaderFollows'  BY <1>1, <1>2, <1>5, <1>6 DEF BlockInv, ReaderFollows, AtBlock
<1>. QED  BY <1>7, <1>8, <1>9 DEF BlockInv

(* What a header says, and that a header of a stream is not refused.       *)
LEMMA HeaderIs ==
  ASSUME BlockInv, pc = "block", NEW block \in Blocks!Headers,
         NEW b, b = Blocks!AfterHeader(block.size = WindowSize)
  PROVE  /\ b \in Places /\ block.size \in Nat /\ block.codes \in Nat
         /\ by # "damaged" =>
              /\ block = BlockOf(k) /\ b.pos % 2 = 0
              /\ Taken(b) = stream.at[k] + Blocks!HeaderBits(BlockOf(k))
              /\ block.type # "none" /\ block.size # 0 /\ n + block.size <= size
              /\ n + block.size = stream.made[k + 1]
              /\ n + block.size = size => k = Len(stream.blocks)
<1>1. /\ length \in Nat /\ pos \in 0 .. length /\ nbits \in 0 .. 15 /\ unaligned \in BOOLEAN
      /\ n \in Nat /\ size \in Nat
  BY DEF BlockInv, BlockTypeInv
<1>2. b \in Places  BY <1>1, HeaderKept
<1>3. CASE by = "damaged"
  <2>1. /\ block.size \in 0 .. WindowSize + 1 /\ block.codes \in 0 .. CodeBits
    BY <1>3 DEF Blocks!Headers
  <2>. QED  BY <1>2, <1>3, <2>1, WindowIs
<1>4. CASE by # "damaged"
  <2>1. /\ Blocks!Laid(stream) /\ Blocks!Ends(stream, length)
        /\ k \in 1 .. Len(stream.blocks) /\ AtBlock
        /\ n = stream.made[k] /\ size = stream.made[Len(stream.blocks) + 1]
    BY <1>4 DEF BlockInv, ReaderFollows
  <2>2. block = BlockOf(k)  BY <1>4 DEF Blocks!Headers, BlockOf
  <2>3. /\ b.pos % 2 = 0 /\ Taken(b) = stream.at[k] + Blocks!HeaderBits(BlockOf(k))
    BY <1>1, <2>1, <2>2, HeaderExact
  <2>4. /\ block.type # "none" /\ block.size \in Nat \ {0} /\ block.codes \in Nat
        /\ stream.made[k + 1] = n + block.size /\ Len(stream.blocks) \in Nat
    <3>1. /\ block.type \in Blocks!BlockTypes /\ block.size \in 1 .. WindowSize
          /\ block.codes \in Nat /\ stream.made[k + 1] = n + block.size
          /\ Len(stream.blocks) \in Nat
      BY <2>1, <2>2, BlockIs
    <3>. QED  BY <3>1, WindowIs DEF Blocks!BlockTypes, Blocks!Stored
  <2>5. CASE k = Len(stream.blocks)
    <3>1. n + block.size = size  BY <2>1, <2>4, <2>5
    <3>. QED  BY <1>1, <1>2, <1>4, <2>2, <2>3, <2>4, <2>5, <3>1
  <2>6. CASE k # Len(stream.blocks)
    <3>1. /\ k + 1 \in 1 .. Len(stream.blocks) + 1 /\ k + 1 < Len(stream.blocks) + 1
          /\ Len(stream.blocks) + 1 \in 1 .. Len(stream.blocks) + 1
      BY <2>1, <2>4, <2>6
    <3>2. stream.made[k + 1] < stream.made[Len(stream.blocks) + 1]  BY <2>1, <3>1, BlocksRise
    <3>3. n + block.size < size  BY <2>1, <2>4, <3>2
    <3>. QED  BY <1>1, <1>2, <1>4, <2>2, <2>3, <2>4, <3>3
  <2>. QED  BY <2>5, <2>6
<1>. QED  BY <1>3, <1>4

LEMMA CorruptInv ==
  ASSUME BlockInv, Blocks!Corrupt, by = "damaged", pc \in {"block", "codes"}
  PROVE  BlockInv'
<1>1. /\ pc' = "corrupt" /\ by' = "damaged"
      /\ UNCHANGED <<stream, length, out, held, unput, pos, nbits, unaligned, size, n, k, left>>
  BY DEF Blocks!Corrupt, Blocks!writer, Blocks!reader
<1>. QED  BY <1>1 DEF BlockInv, BlockTypeInv, WriterFollows, ReaderFollows

(* What does not touch the writer, once it is done.                        *)
LEMMA WriterDone ==
  ASSUME BlockInv, pc \in {"block", "codes"}, pc' \in {"block", "codes", "done"},
         UNCHANGED <<by, stream, out, held, unput>>
  PROVE  WriterFollows'
BY DEF BlockInv, WriterFollows

LEMMA ReadHeaderInv == ASSUME BlockInv, Blocks!ReadHeader PROVE BlockInv'
<1>1. pc = "block"  BY DEF Blocks!ReadHeader
<1>2. PICK block, b :
        /\ block \in Blocks!Headers
        /\ b = Blocks!AfterHeader(block.size = WindowSize) /\ block.type # Blocks!Stored
        /\ \/ Blocks!Refused(block, b) /\ Blocks!Corrupt
           \/ /\ ~ Blocks!Refused(block, b)
              /\ Blocks!Set(b) /\ unaligned' = FALSE
              /\ left' = block.codes /\ pc' = "codes" /\ Blocks!Produced(block)
              /\ UNCHANGED <<by, stream, length, out, held, unput, size>>
  BY DEF Blocks!ReadHeader, Blocks!writer
<1>3. /\ b \in Places /\ block.size \in Nat /\ block.codes \in Nat
      /\ by # "damaged" =>
              /\ block = BlockOf(k) /\ b.pos % 2 = 0
              /\ Taken(b) = stream.at[k] + Blocks!HeaderBits(BlockOf(k))
              /\ block.type # "none" /\ block.size # 0 /\ n + block.size <= size
              /\ n + block.size = stream.made[k + 1]
  BY <1>1, <1>2, HeaderIs
<1>4. n \in Nat /\ size \in Nat /\ length \in Nat  BY DEF BlockInv, BlockTypeInv
<1>5. CASE Blocks!Refused(block, b) /\ Blocks!Corrupt
  <2>1. by = "damaged"
    BY <1>2, <1>3, <1>4, <1>5 DEF Blocks!Refused
  <2>. QED  BY <1>1, <1>5, <2>1, CorruptInv
<1>6. CASE /\ ~ Blocks!Refused(block, b)
           /\ Blocks!Set(b) /\ unaligned' = FALSE
           /\ left' = block.codes /\ pc' = "codes" /\ Blocks!Produced(block)
           /\ UNCHANGED <<by, stream, length, out, held, unput, size>>
  <2>1. /\ pos' = b.pos /\ nbits' = b.nbits /\ n' = n + block.size
        /\ k' = IF by = "damaged" THEN k ELSE k + 1
    BY <1>6 DEF Blocks!Set, Blocks!Produced
  <2>2. n + block.size <= size  BY <1>3, <1>4, <1>6 DEF Blocks!Refused
  <2>3. BlockTypeInv'
    <3>1. /\ pos' \in 0 .. length /\ nbits' \in 0 .. 15  BY <1>3, <2>1 DEF Places
    <3>2. n' \in 0 .. size  BY <1>3, <1>4, <2>1, <2>2
    <3>. QED  BY <1>3, <1>6, <3>1, <3>2 DEF BlockInv, BlockTypeInv
  <2>4. WriterFollows'  BY <1>1, <1>6, WriterDone
  <2>5. ReaderFollows'
    <3>. SUFFICES ASSUME by # "damaged" PROVE ReaderFollows'  BY <1>6 DEF ReaderFollows
    <3>1. /\ Blocks!Laid(stream) /\ Blocks!Ends(stream, length)
          /\ k \in 1 .. Len(stream.blocks) /\ size = stream.made[Len(stream.blocks) + 1]
      BY <1>1 DEF BlockInv, ReaderFollows
    <3>2. /\ stream.at[k + 1] = Taken(b) + block.codes
          /\ BitsEnd(k) = stream.at[k + 1] /\ stream.at[k + 1] <= Whole
      <4>1. BlockOf(k).type # Blocks!Stored  BY <1>2, <1>3
      <4>2. stream.at[k + 1] = Blocks!Behind(stream.at[k], BlockOf(k))  BY <3>1, BlockIs
      <4>3. stream.at[k + 1] = BitsEnd(k)  BY <4>1 DEF BitsEnd
      <4>4. BitsEnd(k) <= Whole  BY <3>1, EnoughBits
      <4>5. stream.at[k + 1]
              = stream.at[k] + Blocks!HeaderBits(BlockOf(k)) + BlockOf(k).codes
        BY <4>1, <4>2 DEF Blocks!Behind
      <4>. QED  BY <1>3, <4>3, <4>4, <4>5
    <3>3. k + 1 \in 1 .. Len(stream.blocks) + 1 /\ k' = k + 1 /\ n' = stream.made[k']
      <4>1. Len(stream.blocks) \in Nat  BY <3>1 DEF Blocks!Laid
      <4>. QED  BY <1>3, <2>1, <3>1, <4>1
    <3>4. pos' % 2 = 0 /\ 8 * pos' - nbits' = Taken(b)  BY <1>3, <2>1 DEF Taken
    <3>5. 8 * pos' - nbits' + left' = stream.at[k'] /\ stream.at[k'] <= Whole
      BY <1>6, <3>2, <3>3, <3>4
    <3>6. stream' = stream /\ length' = length /\ size' = size /\ by' = by /\ pc' = "codes"
          /\ ~unaligned'
      BY <1>6
    <3>7. Whole' = Whole  BY <3>6 DEF Whole
    <3>. QED  BY <3>1, <3>3, <3>4, <3>5, <3>6, <3>7 DEF ReaderFollows
  <2>. QED  BY <2>3, <2>4, <2>5 DEF BlockInv
<1>. QED  BY <1>2, <1>5, <1>6

LEMMA ReadStoredInv == ASSUME BlockInv, Blocks!ReadStored PROVE BlockInv'
<1>1. pc = "block"  BY DEF Blocks!ReadStored
<1>2. PICK block, h, b :
        /\ block \in Blocks!Headers
        /\ h = Blocks!AfterHeader(block.size = WindowSize) /\ b = Blocks!Realign(h)
        /\ block.type = Blocks!Stored
        /\ \/ Blocks!Refused(block, b) /\ Blocks!Corrupt
           \/ /\ ~ Blocks!Refused(block, b)
              /\ Blocks!Set(Blocks!At(b.pos + 12 + block.size, b.nbits))
              /\ unaligned' = (block.size % 2 = 1)
              /\ Blocks!Produced(block) /\ pc' = IF n' = size THEN "done" ELSE "block"
              /\ UNCHANGED <<by, stream, length, out, held, unput, size, left>>
  BY DEF Blocks!ReadStored, Blocks!writer
<1>3. /\ h \in Places /\ block.size \in Nat /\ block.codes \in Nat
      /\ by # "damaged" =>
              /\ block = BlockOf(k) /\ h.pos % 2 = 0
              /\ Taken(h) = stream.at[k] + Blocks!HeaderBits(BlockOf(k))
              /\ block.type # "none" /\ block.size # 0 /\ n + block.size <= size
              /\ n + block.size = stream.made[k + 1]
              /\ n + block.size = size => k = Len(stream.blocks)
  BY <1>1, <1>2, HeaderIs
<1>4. n \in Nat /\ size \in Nat /\ length \in Nat  BY DEF BlockInv, BlockTypeInv
<1>5. b \in Places  BY <1>2, <1>3, <1>4, RealignKept
<1>6. by # "damaged" =>
        /\ Blocks!Laid(stream) /\ Blocks!Ends(stream, length)
        /\ k \in 1 .. Len(stream.blocks) /\ size = stream.made[Len(stream.blocks) + 1]
        /\ b.nbits = 0 /\ b.pos % 2 = 0 /\ 8 * b.pos = BitsEnd(k)
        /\ b.pos + 12 + block.size <= length
  <2>. SUFFICES ASSUME by # "damaged"
                PROVE  /\ Blocks!Laid(stream) /\ Blocks!Ends(stream, length)
                       /\ k \in 1 .. Len(stream.blocks)
                       /\ size = stream.made[Len(stream.blocks) + 1]
                       /\ b.nbits = 0 /\ b.pos % 2 = 0 /\ 8 * b.pos = BitsEnd(k)
                       /\ b.pos + 12 + block.size <= length
    OBVIOUS
  <2>1. /\ Blocks!Laid(stream) /\ Blocks!Ends(stream, length)
        /\ k \in 1 .. Len(stream.blocks) /\ size = stream.made[Len(stream.blocks) + 1]
    BY <1>1 DEF BlockInv, ReaderFollows
  <2>2. BitsEnd(k) = Blocks!Realigned(Taken(h))  BY <1>2, <1>3 DEF BitsEnd
  <2>3. /\ BitsEnd(k) <= Whole
        /\ BitsEnd(k) + 8 * (12 + block.size) <= 8 * length
    BY <1>2, <1>3, <2>1, EnoughBits
  <2>4. Taken(h) \in Nat
    <3>1. stream.at[k] \in Nat /\ Blocks!HeaderBits(BlockOf(k)) \in {4, 20}  BY <2>1, BlockIs
    <3>. QED  BY <1>3, <3>1
  <2>5. b.nbits = 0 /\ b.pos % 2 = 0 /\ 8 * b.pos = Blocks!Realigned(Taken(h))
    BY <1>2, <1>3, <1>4, <2>2, <2>3, <2>4, RealignExact
  <2>6. b.pos + 12 + block.size <= length
    <3>1. PICK p : p = b.pos  OBVIOUS
    <3>2. p \in Nat  BY <1>4, <1>5, <3>1 DEF Places
    <3>3. 8 * p + 8 * (12 + block.size) <= 8 * length  BY <2>2, <2>3, <2>5, <3>1
    <3>4. PICK z : z = block.size  OBVIOUS
    <3>5. z \in Nat /\ length \in Nat /\ 8 * p + 8 * (12 + z) <= 8 * length
      BY <1>3, <1>4, <3>3, <3>4
    <3>6. p + 12 + z <= length  BY <3>2, <3>5
    <3>. QED  BY <3>1, <3>4, <3>6
  <2>. QED  BY <2>1, <2>2, <2>5, <2>6
<1>7. CASE Blocks!Refused(block, b) /\ Blocks!Corrupt
  <2>1. by = "damaged"
    <3>. SUFFICES ASSUME by # "damaged" PROVE FALSE  OBVIOUS
    <3>1. PICK p : p = b.pos  OBVIOUS
    <3>2. p \in Nat  BY <1>4, <1>5, <3>1 DEF Places
    <3>3. ~(p + 12 + block.size > length)
      <4>1. PICK z : z = block.size  OBVIOUS
      <4>2. z \in Nat /\ length \in Nat /\ p + 12 + z <= length
        BY <1>3, <1>4, <1>6, <3>1, <4>1
      <4>3. ~(p + 12 + z > length)  BY <3>2, <4>2
      <4>. QED  BY <4>1, <4>3
    <3>4. ~(n + block.size > size)  BY <1>3, <1>4
    <3>. QED  BY <1>3, <1>7, <3>1, <3>3, <3>4 DEF Blocks!Refused
  <2>. QED  BY <1>1, <1>7, <2>1, CorruptInv
<1>8. CASE /\ ~ Blocks!Refused(block, b)
           /\ Blocks!Set(Blocks!At(b.pos + 12 + block.size, b.nbits))
           /\ unaligned' = (block.size % 2 = 1)
           /\ Blocks!Produced(block) /\ pc' = IF n' = size THEN "done" ELSE "block"
           /\ UNCHANGED <<by, stream, length, out, held, unput, size, left>>
  <2>1. PICK p, c : p = b.pos /\ c = b.nbits  OBVIOUS
  <2>2. p \in 0 .. length /\ c \in 0 .. 15  BY <1>5, <2>1 DEF Places
  <2>3. /\ pos' = p + 12 + block.size /\ nbits' = c /\ n' = n + block.size
        /\ k' = IF by = "damaged" THEN k ELSE k + 1
    BY <1>8, <2>1 DEF Blocks!Set, Blocks!At, Blocks!Produced
  <2>4. n + block.size <= size /\ p + 12 + block.size <= length
    BY <1>2, <1>3, <1>4, <1>8, <2>1, <2>2 DEF Blocks!Refused
  <2>5. BlockTypeInv'
    <3>1. pos' \in 0 .. length /\ nbits' \in 0 .. 15  BY <1>3, <1>4, <2>2, <2>3, <2>4
    <3>2. n' \in 0 .. size  BY <1>3, <1>4, <2>3, <2>4
    <3>3. pc' \in {"block", "done"} /\ unaligned' \in BOOLEAN  BY <1>8
    <3>. QED  BY <1>8, <3>1, <3>2, <3>3 DEF BlockInv, BlockTypeInv
  <2>6. WriterFollows'  BY <1>1, <1>8, WriterDone
  <2>7. ReaderFollows'
    <3>. SUFFICES ASSUME by # "damaged" PROVE ReaderFollows'  BY <1>8 DEF ReaderFollows
    <3>1. PICK m : m = Len(stream.blocks)  OBVIOUS
    <3>2. m \in Nat /\ k \in 1 .. m /\ k' = k + 1 /\ n' = stream.made[k']
      BY <1>3, <1>6, <2>3, <3>1 DEF Blocks!Laid
    <3>3. pc' = "done" => k' = m + 1
      BY <1>3, <1>8, <2>3, <3>1, <3>2
    <3>4. pc' # "done" => k' \in 1 .. m
      <4>. SUFFICES ASSUME pc' # "done" PROVE k' \in 1 .. m  OBVIOUS
      <4>1. n' # size  BY <1>8
      <4>2. k # m  BY <1>6, <3>1, <3>2, <4>1
      <4>. QED  BY <3>2, <4>2
    <3>5. /\ pos' % 2 = IF unaligned' THEN 1 ELSE 0
          /\ 8 * pos' - nbits' + (IF unaligned' THEN 8 ELSE 0) = stream.at[k']
      <4>1. PICK z, e, y : z = block.size /\ e = BitsEnd(k) /\ y = stream.at[k + 1]
        OBVIOUS
      <4>2. y = e + 8 * (12 + z + (z % 2))  BY <1>2, <1>3, <1>6, <4>1, BlockEnds
      <4>3. 8 * p = e /\ p % 2 = 0 /\ c = 0 /\ z \in Nat  BY <1>3, <1>6, <2>1, <4>1
      <4>4. PICK g \in Nat : p = 2 * g
        <5>1. PICK g : g = p \div 2  OBVIOUS
        <5>2. g \in Nat /\ p = 2 * g  BY <2>2, <4>3, <5>1
        <5>. QED  BY <5>2
      <4>5. pos' = 2 * g + 12 + z /\ nbits' = 0 /\ unaligned' = (z % 2 = 1)
        BY <1>8, <2>3, <4>1, <4>3, <4>4
      <4>6. CASE z % 2 = 1
        <5>1. (2 * g + 12 + z) % 2 = 1  BY <4>3, <4>4, <4>6
        <5>2. y = 8 * (2 * g) + 8 * (12 + z + 1)  BY <4>2, <4>3, <4>4, <4>6
        <5>3. 8 * (2 * g + 12 + z) - 0 + 8 = y  BY <4>3, <4>4, <5>2
        <5>. QED  BY <3>2, <4>1, <4>5, <4>6, <5>1, <5>3
      <4>7. CASE z % 2 # 1
        <5>0. z % 2 = 0  BY <4>3, <4>7
        <5>1. (2 * g + 12 + z) % 2 = 0  BY <4>3, <4>4, <5>0
        <5>2. y = 8 * (2 * g) + 8 * (12 + z + 0)  BY <4>2, <4>3, <4>4, <5>0
        <5>3. 8 * (2 * g + 12 + z) - 0 + 0 = y  BY <4>3, <4>4, <5>2
        <5>. QED  BY <3>2, <4>1, <4>5, <4>7, <5>1, <5>3
      <4>. QED  BY <4>6, <4>7
    <3>6. stream' = stream /\ length' = length /\ size' = size /\ by' = by
          /\ pc' \in {"block", "done"}
      BY <1>8
    <3>7. k' \in 1 .. m + 1  BY <3>2
    <3>8. pc' = "block" => k' \in 1 .. m /\ AtBlock'  BY <3>4, <3>5, <3>6 DEF AtBlock
    <3>. QED  BY <1>6, <3>1, <3>2, <3>3, <3>6, <3>7, <3>8 DEF ReaderFollows
  <2>. QED  BY <2>5, <2>6, <2>7 DEF BlockInv
<1>. QED  BY <1>2, <1>7, <1>8

LEMMA ReadCodesInv == ASSUME BlockInv, Blocks!ReadCodes PROVE BlockInv'
<1>1. pc = "codes" /\ pc' = "codes"  BY DEF Blocks!ReadCodes
<1>2. PICK m, b :
        /\ m \in 1 .. 16
        /\ b = Blocks!Bits(Blocks!At(pos, nbits), m) /\ m <= left /\ left' = left - m
        /\ pos' = b.pos /\ nbits' = b.nbits
        /\ UNCHANGED <<by, stream, length, out, held, unput, unaligned, size, n, k>>
  BY DEF Blocks!ReadCodes, Blocks!writer, Blocks!WordBits, Blocks!Set
<1>3. length \in Nat /\ pos \in 0 .. length /\ nbits \in 0 .. 15 /\ left \in Nat
  BY DEF BlockInv, BlockTypeInv
<1>4. PICK a : a = Blocks!At(pos, nbits)  OBVIOUS
<1>5. a \in Places /\ a.pos = pos /\ a.nbits = nbits  BY <1>3, <1>4 DEF Places, Blocks!At
<1>6. b \in Places  BY <1>2, <1>3, <1>4, <1>5, BitsKept
<1>7. BlockTypeInv'
  <2>1. pos' \in 0 .. length /\ nbits' \in 0 .. 15  BY <1>2, <1>6 DEF Places
  <2>2. left' \in Nat  BY <1>2, <1>3
  <2>. QED  BY <1>1, <1>2, <2>1, <2>2 DEF BlockInv, BlockTypeInv
<1>8. WriterFollows'  BY <1>1, <1>2, WriterDone
<1>9. ReaderFollows'
  <2>. SUFFICES ASSUME by # "damaged" PROVE ReaderFollows'  BY <1>2 DEF ReaderFollows
  <2>1. /\ Blocks!Laid(stream) /\ size = stream.made[Len(stream.blocks) + 1]
        /\ Blocks!Ends(stream, length)
        /\ k \in 1 .. Len(stream.blocks) + 1 /\ n = stream.made[k]
        /\ ~unaligned /\ pos % 2 = 0 /\ 8 * pos - nbits + left = stream.at[k]
        /\ stream.at[k] <= Whole
    BY <1>1 DEF BlockInv, ReaderFollows
  <2>2. Taken(a) = 8 * pos - nbits /\ Taken(a) + m <= Whole /\ Whole \in Nat
    <3>1. PICK x, w : x = stream.at[k] /\ w = Whole  OBVIOUS
    <3>2. w \in Nat  BY <1>3, <3>1 DEF Whole
    <3>3. 8 * pos - nbits + left = x /\ x <= w  BY <2>1, <3>1
    <3>4. 8 * pos - nbits + m <= w  BY <1>2, <1>3, <3>2, <3>3
    <3>. QED  BY <1>5, <3>1, <3>2, <3>4 DEF Taken
  <2>3. b.pos % 2 = 0 /\ Taken(b) = Taken(a) + m
    <3>1. m \in 0 .. 16 /\ a.pos % 2 = 0 /\ Taken(a) + m <= Whole /\ length \in Nat
      BY <1>2, <1>3, <1>5, <2>1, <2>2
    <3>2. /\ Blocks!Bits(a, m).pos % 2 = 0 /\ Taken(Blocks!Bits(a, m)) = Taken(a) + m
      BY <1>5, <3>1, BitsExact
    <3>. QED  BY <1>2, <1>4, <3>2
  <2>4. pos' % 2 = 0 /\ 8 * pos' - nbits' = 8 * pos - nbits + m
    BY <1>2, <2>2, <2>3 DEF Taken
  <2>5. 8 * pos' - nbits' + left' = stream.at[k]
    <3>1. PICK u, v, x : u = 8 * pos' - nbits' /\ v = 8 * pos - nbits /\ x = left  OBVIOUS
    <3>2. v \in Int /\ x \in Nat /\ m \in Nat /\ u = v + m /\ left' = x - m
      BY <1>2, <1>3, <2>4, <3>1
    <3>3. u + left' = v + x  BY <3>2
    <3>. QED  BY <2>1, <3>1, <3>3
  <2>6. Whole' = Whole  BY <1>2 DEF Whole
  <2>. QED  BY <1>1, <1>2, <2>1, <2>4, <2>5, <2>6 DEF ReaderFollows
<1>. QED  BY <1>7, <1>8, <1>9 DEF BlockInv

LEMMA CodesEndInv == ASSUME BlockInv, Blocks!CodesEnd PROVE BlockInv'
<1>1. /\ pc = "codes" /\ left = 0 /\ pc' = IF n = size THEN "done" ELSE "block"
      /\ UNCHANGED <<by, stream, length, out, held, unput, pos, nbits, unaligned, size, n, k,
                     left>>
  BY DEF Blocks!CodesEnd, Blocks!writer, Blocks!reader
<1>2. BlockTypeInv'  BY <1>1 DEF BlockInv, BlockTypeInv
<1>3. WriterFollows'  BY <1>1, WriterDone
<1>4. ReaderFollows'
  <2>. SUFFICES ASSUME by # "damaged" PROVE ReaderFollows'  BY <1>1 DEF ReaderFollows
  <2>1. /\ Blocks!Laid(stream) /\ size = stream.made[Len(stream.blocks) + 1]
        /\ Blocks!Ends(stream, length)
        /\ k \in 1 .. Len(stream.blocks) + 1 /\ n = stream.made[k]
        /\ ~unaligned /\ pos % 2 = 0 /\ 8 * pos - nbits + left = stream.at[k]
    BY <1>1 DEF BlockInv, ReaderFollows
  <2>2. n = size => k = Len(stream.blocks) + 1
    <3>. SUFFICES ASSUME k # Len(stream.blocks) + 1 PROVE n # size  OBVIOUS
    <3>1. Len(stream.blocks) \in Nat  BY <2>1 DEF Blocks!Laid
    <3>2. /\ k < Len(stream.blocks) + 1
          /\ Len(stream.blocks) + 1 \in 1 .. Len(stream.blocks) + 1
      BY <2>1, <3>1
    <3>3. stream.made[k] < stream.made[Len(stream.blocks) + 1]  BY <2>1, <3>2, BlocksRise
    <3>4. n < size /\ n \in Nat /\ size \in Nat  BY <2>1, <3>3 DEF BlockInv, BlockTypeInv
    <3>. QED  BY <3>4
  <2>3. n # size => k \in 1 .. Len(stream.blocks)
    <3>1. Len(stream.blocks) \in Nat  BY <2>1 DEF Blocks!Laid
    <3>. QED  BY <2>1, <3>1
  <2>4. AtBlock'
    <3>1. pos \in Nat /\ nbits \in Nat  BY DEF BlockInv, BlockTypeInv
    <3>2. 8 * pos - nbits + 0 = stream.at[k]  BY <1>1, <2>1
    <3>. QED  BY <1>1, <2>1, <3>2 DEF AtBlock
  <2>. QED  BY <1>1, <2>1, <2>2, <2>3, <2>4 DEF ReaderFollows
<1>. QED  BY <1>2, <1>3, <1>4 DEF BlockInv

LEMMA BlockNextInv == ASSUME BlockInv, Blocks!Next PROVE BlockInv'
<1>1. CASE Blocks!Write  BY <1>1, WriteInv
<1>2. CASE Blocks!Flush  BY <1>2, FlushInv
<1>3. CASE Blocks!ReadHeader  BY <1>3, ReadHeaderInv
<1>4. CASE Blocks!ReadStored  BY <1>4, ReadStoredInv
<1>5. CASE Blocks!ReadCodes  BY <1>5, ReadCodesInv
<1>6. CASE Blocks!CodesEnd  BY <1>6, CodesEndInv
<1>7. CASE Blocks!CodesFail
  <2>1. by = "damaged" /\ Blocks!Corrupt /\ pc = "codes"  BY <1>7 DEF Blocks!CodesFail
  <2>. QED  BY <2>1, CorruptInv
<1>. QED  BY <1>1, <1>2, <1>3, <1>4, <1>5, <1>6, <1>7 DEF Blocks!Next


-----------------------------------------------------------------------------
(* One stage after the other.                                              *)
StageInv ==
  /\ by \in {"own", "other", "damaged"}
  /\ by # "own" => phase = "start"
  /\ by = "own" /\ phase # "over" => pc = "idle"
  /\ by = "own" /\ phase # "done" => NoTree
  /\ pc # "idle" => NoTree
  /\ by = "own" /\ phase = "done" /\ treeLens # <<>> =>
       treeLens = [s \in 1 .. Huffman!Size |-> lens[s - 1]]

-----------------------------------------------------------------------------
(* The trees.                                                              *)

Lengths == Seq(0 .. maxTreePath)
Items == [sym : {"delta", "zeroShort", "zeroLong", "same"}, extra : Nat, c : Nat]

TreeInv ==
  /\ treeLens \in Lengths /\ got \in Lengths /\ Len(got) = Len(treeLens)
  /\ i \in 0 .. Len(got) /\ j \in 0 .. Len(got) /\ corrupt \in BOOLEAN
  /\ item \in Seq(Items) /\ Len(item) <= 1

(* The lengths from the reader to the writer, all of them l.               *)
Alike(l) == \A s \in j + 1 .. i : treeLens[s] = l

(* How many lengths an item stands for, and which.                         *)
Carries(r) ==
  \/ r.sym = "delta" /\ i = j + 1 /\ r.c <= maxTreePath /\ Alike(Tree!Length(r.c))
  \/ /\ r.sym = "zeroShort" /\ i - j \in ShortMin .. ShortMax /\ r.extra = i - j - ShortMin
     /\ Alike(0)
  \/ /\ r.sym = "zeroLong" /\ i - j \in LongMin .. LongMax /\ r.extra = i - j - LongMin
     /\ Alike(0)
  \/ /\ r.sym = "same" /\ i - j \in SameMin .. SameMax /\ r.extra = i - j - SameMin
     /\ r.c <= maxTreePath /\ Alike(Tree!Length(r.c))

TreeFollows ==
  by # "damaged" =>
    /\ ~corrupt
    /\ \A s \in 1 .. j : got[s] = treeLens[s]
    /\ \A s \in j + 1 .. Len(got) : got[s] = before[s]
    /\ by = "own" => \A s \in 1 .. Len(got) : before[s] = 0
    /\ item = <<>> => i = j
    /\ item # <<>> => Carries(item[1])

LEMMA TreeConstants ==
  /\ maxTreePath \in Nat \ {0} /\ ShortMin \in Nat /\ ShortMax \in Nat /\ LongMin \in Nat
  /\ LongMax \in Nat /\ SameMin \in Nat /\ SameMax \in Nat
  /\ 1 <= ShortMin /\ ShortMin <= ShortMax /\ LongMin = ShortMax + 1 /\ LongMin <= LongMax
  /\ 1 <= SameMin /\ SameMax = SameMin + 1
BY BitsAssumption DEF Tree!TreeAssumption

LEMMA Modulo ==
  ASSUME NEW d \in Nat \ {0}, NEW x \in 0 .. d - 1
  PROVE  x % d = x /\ (d + x) % d = x
OBVIOUS

(* The delta of a length, from any length before, leads back to it.        *)
LEMMA DeltaIs ==
  ASSUME NEW f \in 0 .. maxTreePath, NEW l \in 0 .. maxTreePath, NEW c, c = Tree!Delta(f, l)
  PROVE  /\ c \in 0 .. maxTreePath
         /\ (f + maxTreePath + 1 - c) % (maxTreePath + 1) = l
<1>1. PICK d : d = maxTreePath + 1  OBVIOUS
<1>2. d \in Nat \ {0} /\ f \in 0 .. d - 1 /\ l \in 0 .. d - 1  BY <1>1, TreeConstants
<1>3. c = (f + d - l) % d
  <2>1. f + maxTreePath + 1 - l = f + d - l  BY <1>1, <1>2, TreeConstants
  <2>. QED  BY <1>1, <2>1 DEF Tree!Delta
<1>4. f + maxTreePath + 1 = f + d  BY <1>1, <1>2, TreeConstants
<1>5. CASE l <= f
  <2>1. PICK x : x = f - l  OBVIOUS
  <2>2. x \in 0 .. d - 1 /\ f + d - l = d + x  BY <1>2, <1>5, <2>1
  <2>3. c = x  BY <1>2, <1>3, <2>2, Modulo
  <2>4. f + d - c = d + l  BY <1>2, <2>1, <2>3
  <2>5. (d + l) % d = l  BY <1>2, Modulo
  <2>6. (f + d - c) % d = l  BY <2>4, <2>5
  <2>7. f + maxTreePath + 1 - c = f + d - c  BY <1>1, <1>2, <2>2, <2>3, TreeConstants
  <2>. QED  BY <1>1, <2>2, <2>3, <2>6, <2>7, TreeConstants
<1>6. CASE l > f
  <2>1. PICK x : x = f + d - l  OBVIOUS
  <2>2. x \in 0 .. d - 1  BY <1>2, <1>6, <2>1
  <2>3. c = x  BY <1>2, <1>3, <2>1, <2>2, Modulo
  <2>4. f + d - c = l  BY <1>2, <2>1, <2>3
  <2>5. l % d = l  BY <1>2, Modulo
  <2>6. (f + d - c) % d = l  BY <2>4, <2>5
  <2>7. f + maxTreePath + 1 - c = f + d - c  BY <1>1, <1>2, <2>2, <2>3, TreeConstants
  <2>. QED  BY <1>1, <2>2, <2>3, <2>6, <2>7, TreeConstants
<1>. QED  BY <1>2, <1>5, <1>6

(* There is always a run: the lengths up to the first that differs.        *)
LEMMA RunIs ==
  ASSUME TreeInv, i < Len(treeLens)
  PROVE  /\ Tree!Run \in 1 .. Len(treeLens) - i
         /\ \A m \in 1 .. Tree!Run : treeLens[i + m] = treeLens[i + 1]
<1>1. PICK z : z = Len(treeLens)  OBVIOUS
<1>2. z \in Nat /\ i \in Nat /\ i < z
  BY <1>1, LenProperties DEF TreeInv, Lengths
<1>. DEFINE T == {m \in 1 .. z - i : i + m < z => treeLens[i + m + 1] # treeLens[i + 1]}
<1>3. T \subseteq Nat /\ z - i \in T  BY <1>2
<1>4. PICK x \in T : \A y \in T : x <= y
  <2>. HIDE DEF T
  <2>. QED  BY <1>3, LeastOf
<1>5. x \in 1 .. z - i /\ (i + x < z => treeLens[i + x + 1] # treeLens[i + 1])  OBVIOUS
<1>6. ASSUME NEW m \in 1 .. x PROVE treeLens[i + m] = treeLens[i + 1]
  <2>1. CASE m = 1  BY <2>1
  <2>2. CASE m # 1
    <3>1. PICK y : y = m - 1  OBVIOUS
    <3>2. y \in 1 .. z - i /\ y < x /\ i + y < z /\ i + y + 1 = i + m
      BY <1>2, <1>5, <2>2, <3>1
    <3>3. y \notin T  BY <1>4, <1>5, <3>2
    <3>. QED  BY <3>2, <3>3
  <2>. QED  BY <2>1, <2>2
<1>7. \E r \in 1 .. Len(treeLens) - i :
        /\ \A m \in 1 .. r : treeLens[i + m] = treeLens[i + 1]
        /\ i + r < Len(treeLens) => treeLens[i + r + 1] # treeLens[i + 1]
  BY <1>1, <1>5, <1>6
<1>. QED  BY <1>7 DEF Tree!Run

(* An item that says m lengths of l.                                       *)
Says(sym, extra, c, m, l) ==
  \/ sym = "delta" /\ m = 1 /\ c <= maxTreePath /\ Tree!Length(c) = l
  \/ sym = "zeroShort" /\ m \in ShortMin .. ShortMax /\ extra = m - ShortMin /\ l = 0
  \/ sym = "zeroLong" /\ m \in LongMin .. LongMax /\ extra = m - LongMin /\ l = 0
  \/ /\ sym = "same" /\ m \in SameMin .. SameMax /\ extra = m - SameMin
     /\ c <= maxTreePath /\ Tree!Length(c) = l

LEMMA PutInv ==
  ASSUME TreeInv, TreeFollows, item = <<>>, by # "damaged",
         NEW sym \in {"delta", "zeroShort", "zeroLong", "same"}, NEW extra \in Nat,
         NEW c \in Nat, NEW m \in Nat \ {0}, i + m <= Len(got),
         NEW l, \A s \in 1 .. m : treeLens[i + s] = l,
         Tree!Put(Tree!Item(sym, extra, c), m),
         Says(sym, extra, c, m, l)
  PROVE  TreeInv' /\ TreeFollows'
<1>1. PICK r : r = [sym |-> sym, extra |-> extra, c |-> c]  OBVIOUS
<1>2. r \in Items /\ r.sym = sym /\ r.extra = extra /\ r.c = c  BY <1>1 DEF Items
<1>3. item' = <<r>> /\ i' = i + m /\ UNCHANGED <<by, before, treeLens, got, j, corrupt>>
  BY <1>1 DEF Tree!Put, Tree!Item
<1>4. /\ i \in 0 .. Len(got) /\ j \in 0 .. Len(got) /\ i = j /\ Len(got) \in Nat
      /\ ~corrupt
  <2>1. Len(got) \in Nat  BY LenProperties DEF TreeInv, Lengths
  <2>. QED  BY <2>1 DEF TreeInv, TreeFollows
<1>5. item' \in Seq(Items) /\ Len(item') = 1 /\ item' # <<>> /\ item'[1] = r
  BY <1>2, <1>3
<1>6. TreeInv'
  <2>1. i' \in 0 .. Len(got)  BY <1>3, <1>4
  <2>. QED  BY <1>3, <1>5, <2>1 DEF TreeInv
<1>7. Alike(l)'
  <2>1. ASSUME NEW s \in j + 1 .. i + m PROVE treeLens[s] = l
    <3>1. PICK t : t = s - i  OBVIOUS
    <3>2. t \in 1 .. m /\ i + t = s  BY <1>4, <3>1
    <3>. QED  BY <3>2
  <2>. QED  BY <1>3, <2>1 DEF Alike
<1>8. Tree!Length(c)' = Tree!Length(c)  BY <1>3 DEF Tree!Length
<1>9. i' - j' = m  BY <1>3, <1>4
<1>10. Carries(r)'
  <2>1. CASE sym = "delta" /\ m = 1 /\ c <= maxTreePath /\ Tree!Length(c) = l
    BY <1>2, <1>3, <1>4, <1>7, <1>8, <2>1 DEF Carries
  <2>2. CASE sym = "zeroShort" /\ m \in ShortMin .. ShortMax /\ extra = m - ShortMin /\ l = 0
    BY <1>2, <1>7, <1>9, <2>2 DEF Carries
  <2>3. CASE sym = "zeroLong" /\ m \in LongMin .. LongMax /\ extra = m - LongMin /\ l = 0
    BY <1>2, <1>7, <1>9, <2>3 DEF Carries
  <2>4. CASE /\ sym = "same" /\ m \in SameMin .. SameMax /\ extra = m - SameMin
             /\ c <= maxTreePath /\ Tree!Length(c) = l
    BY <1>2, <1>7, <1>8, <1>9, <2>4 DEF Carries
  <2>. QED  BY <2>1, <2>2, <2>3, <2>4 DEF Says
<1>11. TreeFollows'
  <2>1. Carries(item[1])'  BY <1>5, <1>10
  <2>. QED  BY <1>3, <1>4, <1>5, <2>1 DEF TreeFollows
<1>. QED  BY <1>6, <1>11

LEMMA FillInv ==
  ASSUME TreeInv, TreeFollows, ~corrupt, NEW m \in Nat, NEW l \in 0 .. maxTreePath,
         Tree!Fill(m, l), by # "damaged" => i = j + m /\ Alike(l)
  PROVE  TreeInv' /\ TreeFollows'
<1>1. /\ Len(got) \in Nat /\ got \in [1 .. Len(got) -> 0 .. maxTreePath]
      /\ DOMAIN got = 1 .. Len(got) /\ i \in 0 .. Len(got) /\ j \in 0 .. Len(got)
      /\ i \in Nat /\ j \in Nat
  <2>1. /\ Len(got) \in Nat /\ got \in [1 .. Len(got) -> 0 .. maxTreePath]
        /\ DOMAIN got = 1 .. Len(got)
    BY LenProperties DEF TreeInv, Lengths
  <2>. QED  BY <2>1 DEF TreeInv
<1>2. CASE j + m > Len(got)
  <2>1. by = "damaged"  BY <1>1, <1>2
  <2>2. /\ item' = <<>> /\ corrupt' = TRUE /\ UNCHANGED <<by, before, treeLens, i, got, j>>
    BY <1>2 DEF Tree!Fill, Tree!Refused
  <2>3. item' \in Seq(Items) /\ Len(item') <= 1  BY <2>2, EmptySeq
  <2>. QED  BY <2>1, <2>2, <2>3 DEF TreeInv, TreeFollows
<1>3. CASE ~(j + m > Len(got))
  <2>1. /\ item' = <<>> /\ j' = j + m /\ UNCHANGED <<by, before, treeLens, i, corrupt>>
        /\ got' = [s \in 1 .. Len(got) |-> IF s \in j + 1 .. j + m THEN l ELSE got[s]]
    BY <1>1, <1>3 DEF Tree!Fill
  <2>2. got' \in [1 .. Len(got) -> 0 .. maxTreePath]  BY <1>1, <2>1
  <2>3. got' \in Lengths /\ Len(got') = Len(got)
    <3>1. PICK z, g : z = Len(got) /\ g = got'  OBVIOUS
    <3>2. z \in Nat /\ g \in [1 .. z -> 0 .. maxTreePath]  BY <1>1, <2>2, <3>1
    <3>3. g \in Seq(0 .. maxTreePath)  BY <3>2, SeqDef
    <3>4. Len(g) = z
      <4>1. DOMAIN g = 1 .. z /\ DOMAIN g = 1 .. Len(g) /\ Len(g) \in Nat
        BY <3>2, <3>3, LenProperties
      <4>2. \A s : s \in 1 .. z <=> s \in 1 .. Len(g)  BY <4>1, Zenon
      <4>3. Len(g) \in 1 .. z \/ Len(g) = 0  BY <4>1, <4>2
      <4>4. z \in 1 .. Len(g) \/ z = 0  BY <3>2, <4>2
      <4>. QED  BY <3>2, <4>1, <4>3, <4>4
    <3>. QED  BY <3>1, <3>3, <3>4 DEF Lengths
  <2>4. item' \in Seq(Items) /\ Len(item') <= 1  BY <2>1, EmptySeq
  <2>5. j' \in 0 .. Len(got)  BY <1>1, <1>3, <2>1
  <2>6. TreeInv'  BY <2>1, <2>3, <2>4, <2>5 DEF TreeInv
  <2>7. TreeFollows'
    <3>. SUFFICES ASSUME by # "damaged" PROVE TreeFollows'  BY <2>1 DEF TreeFollows
    <3>1. i = j + m /\ \A s \in j + 1 .. i : treeLens[s] = l  BY DEF Alike
    <3>2. ASSUME NEW s \in 1 .. j' PROVE got'[s] = treeLens[s]
      <4>1. s \in 1 .. Len(got) /\ s \in 1 .. j + m  BY <1>1, <2>1, <2>5
      <4>2. got'[s] = IF s \in j + 1 .. j + m THEN l ELSE got[s]  BY <2>1, <4>1
      <4>3. CASE s \in j + 1 .. j + m  BY <3>1, <4>2, <4>3
      <4>4. CASE s \notin j + 1 .. j + m
        <5>1. s \in 1 .. j  BY <1>1, <4>1, <4>4
        <5>. QED  BY <4>2, <4>4, <5>1 DEF TreeFollows
      <4>. QED  BY <4>3, <4>4
    <3>3. ASSUME NEW s \in j' + 1 .. Len(got') PROVE got'[s] = before'[s]
      <4>1. s \in 1 .. Len(got) /\ s \notin j + 1 .. j + m /\ s \in j + 1 .. Len(got)
        BY <1>1, <1>3, <2>1, <2>3
      <4>2. got'[s] = got[s]  BY <2>1, <4>1
      <4>. QED  BY <2>1, <4>1, <4>2 DEF TreeFollows
    <3>4. i' = j'  BY <2>1, <3>1
    <3>5. by' = "own" => \A s \in 1 .. Len(got') : before'[s] = 0
      BY <2>1, <2>3 DEF TreeFollows
    <3>. QED  BY <2>1, <3>2, <3>3, <3>4, <3>5 DEF TreeFollows
  <2>. QED  BY <2>6, <2>7
<1>. QED  BY <1>2, <1>3

(* Where the writer of a tree is when it writes.                           *)
LEMMA WritesAt ==
  ASSUME TreeInv, NEW who \in {"own", "other"}, Tree!Writes(who)
  PROVE  /\ by = who /\ item = <<>> /\ ~corrupt /\ i < Len(treeLens)
         /\ i \in Nat /\ Len(treeLens) \in Nat /\ Len(got) = Len(treeLens)
         /\ i + 1 \in 1 .. Len(treeLens)
         /\ treeLens[i + 1] \in 0 .. maxTreePath /\ got[i + 1] \in 0 .. maxTreePath
<1>1. /\ by = who /\ item = <<>> /\ ~corrupt /\ i < Len(treeLens)  BY DEF Tree!Writes
<1>2. /\ Len(treeLens) \in Nat /\ Len(got) = Len(treeLens) /\ i \in 0 .. Len(got)
      /\ treeLens \in Seq(0 .. maxTreePath) /\ got \in Seq(0 .. maxTreePath)
  BY LenProperties DEF TreeInv, Lengths
<1>3. i + 1 \in 1 .. Len(treeLens) /\ i \in Nat  BY <1>1, <1>2
<1>4. treeLens[i + 1] \in 0 .. maxTreePath /\ got[i + 1] \in 0 .. maxTreePath
  BY <1>2, <1>3, ElementOfSeq
<1>. QED  BY <1>1, <1>2, <1>3, <1>4

(* There is no block before a block of this package.                       *)
LEMMA OwnFromZero ==
  ASSUME TreeInv, TreeFollows, Tree!Writes("own"), NEW c, c = Tree!Delta(0, treeLens[i + 1])
  PROVE  c \in Nat /\ c <= maxTreePath /\ Tree!Length(c) = treeLens[i + 1]
<1>1. PICK l : l = treeLens[i + 1]  OBVIOUS
<1>2. /\ by = "own" /\ item = <<>> /\ i < Len(got) /\ i \in Nat /\ Len(got) \in Nat
      /\ l \in 0 .. maxTreePath
  BY <1>1, WritesAt
<1>3. i = j  BY <1>2 DEF TreeFollows
<1>4. got[j + 1] = 0
  <2>1. j + 1 \in j + 1 .. Len(got) /\ j + 1 \in 1 .. Len(got)  BY <1>2, <1>3
  <2>. QED  BY <1>2, <2>1 DEF TreeFollows
<1>5. 0 \in 0 .. maxTreePath  BY TreeConstants
<1>6. /\ c \in 0 .. maxTreePath /\ (0 + maxTreePath + 1 - c) % (maxTreePath + 1) = l
  BY <1>1, <1>2, <1>5, DeltaIs
<1>. QED  BY <1>1, <1>4, <1>6, TreeConstants DEF Tree!Length

LEMMA PutLongInv == ASSUME TreeInv, TreeFollows, Tree!PutLong PROVE TreeInv' /\ TreeFollows'
<1>1. PICK m : m = Tree!Smaller(Tree!Run, LongMax)  OBVIOUS
<1>2. /\ Tree!Writes("own") /\ treeLens[i + 1] = 0 /\ Tree!Run >= LongMin
      /\ Tree!Put(Tree!Item("zeroLong", m - LongMin, 0), m)
  BY <1>1 DEF Tree!PutLong
<1>3. PICK r : r = Tree!Run  OBVIOUS
<1>4. /\ by = "own" /\ item = <<>> /\ i < Len(treeLens) /\ i \in Nat /\ Len(treeLens) \in Nat
      /\ Len(got) = Len(treeLens)
  BY <1>2, WritesAt
<1>5. r \in 1 .. Len(treeLens) - i /\ \A s \in 1 .. r : treeLens[i + s] = 0
  BY <1>2, <1>3, <1>4, RunIs
<1>6. m = IF r <= LongMax THEN r ELSE LongMax  BY <1>1, <1>3 DEF Tree!Smaller
<1>7. /\ m \in LongMin .. LongMax /\ m \in Nat \ {0} /\ m - LongMin \in Nat /\ m <= r
      /\ i + m <= Len(got)
  BY <1>2, <1>3, <1>4, <1>5, <1>6, TreeConstants
<1>8. \A s \in 1 .. m : treeLens[i + s] = 0  BY <1>5, <1>7
<1>9. Says("zeroLong", m - LongMin, 0, m, 0)  BY <1>7 DEF Says
<1>. QED  BY <1>2, <1>4, <1>7, <1>8, <1>9, PutInv

LEMMA PutShortInv == ASSUME TreeInv, TreeFollows, Tree!PutShort PROVE TreeInv' /\ TreeFollows'
<1>1. PICK m : m = Tree!Run  OBVIOUS
<1>2. /\ Tree!Writes("own") /\ treeLens[i + 1] = 0 /\ m \in ShortMin .. ShortMax
      /\ Tree!Put(Tree!Item("zeroShort", m - ShortMin, 0), m)
  BY <1>1 DEF Tree!PutShort
<1>4. /\ by = "own" /\ item = <<>> /\ i < Len(treeLens) /\ i \in Nat /\ Len(treeLens) \in Nat
      /\ Len(got) = Len(treeLens)
  BY <1>2, WritesAt
<1>5. m \in 1 .. Len(treeLens) - i /\ \A s \in 1 .. m : treeLens[i + s] = 0
  BY <1>1, <1>2, <1>4, RunIs
<1>6. m \in Nat \ {0} /\ m - ShortMin \in Nat /\ i + m <= Len(got)
  BY <1>2, <1>4, <1>5, TreeConstants
<1>7. Says("zeroShort", m - ShortMin, 0, m, 0)  BY <1>2 DEF Says
<1>. QED  BY <1>2, <1>4, <1>5, <1>6, <1>7, PutInv

LEMMA PutSameInv == ASSUME TreeInv, TreeFollows, Tree!PutSame PROVE TreeInv' /\ TreeFollows'
<1>1. PICK m, c :
        m = Tree!Smaller(Tree!Run, SameMax) /\ c = Tree!Delta(0, treeLens[i + 1])
  OBVIOUS
<1>2. /\ Tree!Writes("own") /\ Tree!Run >= SameMin
      /\ Tree!Put(Tree!Item("same", m - SameMin, c), m)
  BY <1>1 DEF Tree!PutSame
<1>3. PICK r, l : r = Tree!Run /\ l = treeLens[i + 1]  OBVIOUS
<1>4. /\ by = "own" /\ item = <<>> /\ i < Len(treeLens) /\ i \in Nat /\ Len(treeLens) \in Nat
      /\ Len(got) = Len(treeLens)
  BY <1>2, WritesAt
<1>5. r \in 1 .. Len(treeLens) - i /\ \A s \in 1 .. r : treeLens[i + s] = l
  BY <1>2, <1>3, <1>4, RunIs
<1>6. m = IF r <= SameMax THEN r ELSE SameMax  BY <1>1, <1>3 DEF Tree!Smaller
<1>7. /\ m \in SameMin .. SameMax /\ m \in Nat \ {0} /\ m - SameMin \in Nat /\ m <= r
      /\ i + m <= Len(got)
  BY <1>2, <1>3, <1>4, <1>5, <1>6, TreeConstants
<1>8. \A s \in 1 .. m : treeLens[i + s] = l  BY <1>5, <1>7
<1>9. c \in Nat /\ c <= maxTreePath /\ Tree!Length(c) = l
  BY <1>1, <1>2, <1>3, OwnFromZero
<1>10. PICK e : e = m - SameMin  OBVIOUS
<1>11. Says("same", e, c, m, l)  BY <1>7, <1>9, <1>10 DEF Says
<1>12. Tree!Put(Tree!Item("same", e, c), m) /\ e \in Nat  BY <1>2, <1>7, <1>10
<1>. QED  BY <1>4, <1>7, <1>8, <1>9, <1>11, <1>12, PutInv

LEMMA PutOneInv == ASSUME TreeInv, TreeFollows, Tree!PutOne PROVE TreeInv' /\ TreeFollows'
<1>1. PICK c, l : c = Tree!Delta(0, treeLens[i + 1]) /\ l = treeLens[i + 1]  OBVIOUS
<1>2. Tree!Writes("own") /\ Tree!Put(Tree!Item("delta", 0, c), 1)
  BY <1>1 DEF Tree!PutOne
<1>3. /\ by = "own" /\ item = <<>> /\ i < Len(treeLens) /\ i \in Nat /\ Len(treeLens) \in Nat
      /\ Len(got) = Len(treeLens)
  BY <1>2, WritesAt
<1>4. c \in Nat /\ c <= maxTreePath /\ Tree!Length(c) = l  BY <1>1, <1>2, OwnFromZero
<1>5. i + 1 <= Len(got) /\ 1 \in Nat \ {0} /\ \A s \in 1 .. 1 : treeLens[i + s] = l
  BY <1>1, <1>3
<1>6. Says("delta", 0, c, 1, l)  BY <1>4 DEF Says
<1>. QED  BY <1>2, <1>3, <1>4, <1>5, <1>6, PutInv

LEMMA OtherPutsInv == ASSUME TreeInv, TreeFollows, Tree!OtherPuts PROVE TreeInv' /\ TreeFollows'
<1>1. PICK f, l, c : f = before[i + 1] /\ l = treeLens[i + 1] /\ c = Tree!Delta(f, l)  OBVIOUS
<1>2. /\ Tree!Writes("other")
      /\ \/ Tree!Put(Tree!Item("delta", 0, c), 1)
         \/ \E m \in ShortMin .. ShortMax :
              /\ i + m <= Len(treeLens) /\ \A s \in 1 .. m : treeLens[i + s] = 0
              /\ Tree!Put(Tree!Item("zeroShort", m - ShortMin, 0), m)
         \/ \E m \in LongMin .. LongMax :
              /\ i + m <= Len(treeLens) /\ \A s \in 1 .. m : treeLens[i + s] = 0
              /\ Tree!Put(Tree!Item("zeroLong", m - LongMin, 0), m)
         \/ \E m \in SameMin .. SameMax :
              /\ i + m <= Len(treeLens) /\ \A s \in 1 .. m : treeLens[i + s] = l
              /\ Tree!Put(Tree!Item("same", m - SameMin, c), m)
  BY <1>1 DEF Tree!OtherPuts
<1>3. /\ by = "other" /\ item = <<>> /\ i < Len(treeLens) /\ i \in Nat /\ Len(treeLens) \in Nat
      /\ Len(got) = Len(treeLens) /\ got[i + 1] \in 0 .. maxTreePath /\ l \in 0 .. maxTreePath
  BY <1>1, <1>2, WritesAt
<1>9. i = j /\ f = got[j + 1] /\ f \in 0 .. maxTreePath
  <2>1. i = j  BY <1>3 DEF TreeFollows
  <2>2. j + 1 \in j + 1 .. Len(got)  BY <1>3, <2>1
  <2>3. got[j + 1] = before[j + 1]  BY <1>3, <2>2 DEF TreeFollows
  <2>. QED  BY <1>1, <1>3, <2>1, <2>3
<1>4. c \in Nat /\ c <= maxTreePath /\ Tree!Length(c) = l
  <2>1. /\ c \in 0 .. maxTreePath
        /\ (f + maxTreePath + 1 - c) % (maxTreePath + 1) = l
    <3>1. c = Tree!Delta(f, l)  BY <1>1
    <3>. QED  BY <1>3, <1>9, <3>1, DeltaIs
  <2>. QED  BY <1>9, <2>1, TreeConstants DEF Tree!Length
<1>5. CASE Tree!Put(Tree!Item("delta", 0, c), 1)
  <2>1. i + 1 <= Len(got) /\ 1 \in Nat \ {0} /\ \A s \in 1 .. 1 : treeLens[i + s] = l
    BY <1>1, <1>3
  <2>2. Says("delta", 0, c, 1, l)  BY <1>4 DEF Says
  <2>. QED  BY <1>3, <1>4, <1>5, <2>1, <2>2, PutInv
<1>6. ASSUME NEW m \in ShortMin .. ShortMax, i + m <= Len(treeLens),
             \A s \in 1 .. m : treeLens[i + s] = 0,
             Tree!Put(Tree!Item("zeroShort", m - ShortMin, 0), m)
      PROVE  TreeInv' /\ TreeFollows'
  <2>1. m \in Nat \ {0} /\ m - ShortMin \in Nat /\ i + m <= Len(got)
    BY <1>3, <1>6, TreeConstants
  <2>2. Says("zeroShort", m - ShortMin, 0, m, 0)  BY DEF Says
  <2>. QED  BY <1>3, <1>6, <2>1, <2>2, PutInv
<1>7. ASSUME NEW m \in LongMin .. LongMax, i + m <= Len(treeLens),
             \A s \in 1 .. m : treeLens[i + s] = 0,
             Tree!Put(Tree!Item("zeroLong", m - LongMin, 0), m)
      PROVE  TreeInv' /\ TreeFollows'
  <2>1. m \in Nat \ {0} /\ m - LongMin \in Nat /\ i + m <= Len(got)
    BY <1>3, <1>7, TreeConstants
  <2>2. Says("zeroLong", m - LongMin, 0, m, 0)  BY DEF Says
  <2>. QED  BY <1>3, <1>7, <2>1, <2>2, PutInv
<1>8. ASSUME NEW m \in SameMin .. SameMax, i + m <= Len(treeLens),
             \A s \in 1 .. m : treeLens[i + s] = l,
             Tree!Put(Tree!Item("same", m - SameMin, c), m)
      PROVE  TreeInv' /\ TreeFollows'
  <2>1. m \in Nat \ {0} /\ m - SameMin \in Nat /\ i + m <= Len(got)
    BY <1>3, <1>8, TreeConstants
  <2>2. PICK e : e = m - SameMin  OBVIOUS
  <2>3. Says("same", e, c, m, l)  BY <1>4, <2>2 DEF Says
  <2>4. Tree!Put(Tree!Item("same", e, c), m) /\ e \in Nat  BY <1>8, <2>1, <2>2
  <2>. QED  BY <1>3, <1>4, <1>8, <2>1, <2>3, <2>4, PutInv
<1>. QED  BY <1>2, <1>5, <1>6, <1>7, <1>8

LEMMA DamagePutsInv ==
  ASSUME TreeInv, TreeFollows, Tree!DamagePuts PROVE TreeInv' /\ TreeFollows'
<1>1. by = "damaged"  BY DEF Tree!DamagePuts, Tree!Writes
<1>2. PICK sym \in {"delta", "zeroShort", "zeroLong", "same"}, extra \in 0 .. LongMax - LongMin,
           c \in 0 .. maxTreePath + 1 :
        Tree!Put(Tree!Item(sym, extra, c), 0)
  BY DEF Tree!DamagePuts
<1>3. PICK r : r = [sym |-> sym, extra |-> extra, c |-> c]  OBVIOUS
<1>4. r \in Items
  <2>1. extra \in Nat /\ c \in Nat  BY TreeConstants
  <2>. QED  BY <1>3, <2>1 DEF Items
<1>5. /\ item' = <<r>> /\ i' = i + 0 /\ UNCHANGED <<by, before, treeLens, got, j, corrupt>>
  BY <1>2, <1>3 DEF Tree!Put, Tree!Item
<1>6. item' \in Seq(Items) /\ Len(item') = 1  BY <1>4, <1>5
<1>7. i' = i
  <2>1. Len(got) \in Nat  BY LenProperties DEF TreeInv, Lengths
  <2>2. i \in Nat  BY <2>1 DEF TreeInv
  <2>. QED  BY <1>5, <2>2
<1>. QED  BY <1>1, <1>5, <1>6, <1>7 DEF TreeInv, TreeFollows

-----------------------------------------------------------------------------
(* What the reader finds in an item.                                       *)

LEMMA ReadsAt ==
  ASSUME TreeInv, TreeFollows, Tree!Reads
  PROVE  /\ ~corrupt /\ item # <<>> /\ item[1] \in Items /\ item[1].extra \in Nat
         /\ item[1].c \in Nat /\ i \in Nat /\ j \in Nat
         /\ item[1].c <= maxTreePath => Tree!Length(item[1].c) \in 0 .. maxTreePath
         /\ by # "damaged" => Carries(item[1])
<1>1. ~corrupt /\ item # <<>> /\ j < Len(got)  BY DEF Tree!Reads
<1>2. item[1] \in Items
  <2>1. item \in Seq(Items)  BY DEF TreeInv
  <2>2. 1 \in 1 .. Len(item)  BY <1>1, <2>1, EmptySeq
  <2>. QED  BY <2>1, <2>2, ElementOfSeq
<1>3. item[1].extra \in Nat /\ item[1].c \in Nat  BY <1>2 DEF Items
<1>4. /\ Len(got) \in Nat /\ got \in Seq(0 .. maxTreePath) /\ i \in 0 .. Len(got)
      /\ j \in 0 .. Len(got)
  BY LenProperties DEF TreeInv, Lengths
<1>5. got[j + 1] \in 0 .. maxTreePath
  <2>1. j + 1 \in 1 .. Len(got)  BY <1>1, <1>4
  <2>. QED  BY <1>4, <2>1, ElementOfSeq
<1>6. item[1].c <= maxTreePath => Tree!Length(item[1].c) \in 0 .. maxTreePath
  <2>. SUFFICES ASSUME item[1].c <= maxTreePath
                PROVE  Tree!Length(item[1].c) \in 0 .. maxTreePath
    OBVIOUS
  <2>1. PICK g, c, d : g = got[j + 1] /\ c = item[1].c /\ d = maxTreePath + 1  OBVIOUS
  <2>2. d \in Nat \ {0} /\ g + maxTreePath + 1 - c \in Nat
    BY <1>3, <1>5, <2>1, TreeConstants
  <2>3. (g + maxTreePath + 1 - c) % d \in 0 .. d - 1  BY <2>2
  <2>4. d - 1 = maxTreePath  BY <2>1, TreeConstants
  <2>. QED  BY <2>1, <2>3, <2>4 DEF Tree!Length
<1>. QED  BY <1>1, <1>2, <1>3, <1>4, <1>6 DEF TreeFollows

(* The extra bits of an item say how many lengths it stands for.           *)
LEMMA BitsAre ==
  ASSUME NEW from \in Nat, NEW to \in Nat, from <= to, item[1].extra \in Nat
  PROVE  /\ Tree!Bits(from, to) \in from .. to
         /\ \A m \in from .. to : item[1].extra = m - from => Tree!Bits(from, to) = m
<1>1. PICK e, d : e = item[1].extra /\ d = to - from + 1  OBVIOUS
<1>2. d \in Nat \ {0} /\ e \in Nat /\ Tree!Bits(from, to) = from + (e % d)
  BY <1>1 DEF Tree!Bits
<1>3. e % d \in 0 .. d - 1  BY <1>2
<1>4. Tree!Bits(from, to) \in from .. to  BY <1>1, <1>2, <1>3
<1>5. ASSUME NEW m \in from .. to, e = m - from PROVE Tree!Bits(from, to) = m
  <2>1. e \in 0 .. d - 1  BY <1>1, <1>5
  <2>2. e % d = e  BY <1>2, <2>1, Modulo
  <2>. QED  BY <1>2, <1>5, <2>2
<1>. QED  BY <1>1, <1>4, <1>5

LEMMA ReadDeltaInv == ASSUME TreeInv, TreeFollows, Tree!ReadDelta PROVE TreeInv' /\ TreeFollows'
<1>1. PICK l : l = Tree!Length(item[1].c)  OBVIOUS
<1>2. Tree!Reads /\ item[1].sym = "delta" /\ item[1].c <= maxTreePath /\ Tree!Fill(1, l)
  BY <1>1 DEF Tree!ReadDelta
<1>3. ~corrupt /\ l \in 0 .. maxTreePath  BY <1>1, <1>2, ReadsAt
<1>4. by # "damaged" => i = j + 1 /\ Alike(l)  BY <1>1, <1>2, ReadsAt DEF Carries
<1>5. 1 \in Nat  OBVIOUS
<1>. QED  BY <1>2, <1>3, <1>4, <1>5, FillInv

LEMMA ReadZerosInv == ASSUME TreeInv, TreeFollows, Tree!ReadZeros PROVE TreeInv' /\ TreeFollows'
<1>1. Tree!Reads  BY DEF Tree!ReadZeros
<1>2. /\ ~corrupt /\ item[1].extra \in Nat /\ i \in Nat /\ j \in Nat
      /\ by # "damaged" => Carries(item[1])
  BY <1>1, ReadsAt
<1>3. 0 \in 0 .. maxTreePath  BY TreeConstants
<1>4. CASE item[1].sym = "zeroShort" /\ Tree!Fill(Tree!Bits(ShortMin, ShortMax), 0)
  <2>1. PICK m : m = Tree!Bits(ShortMin, ShortMax)  OBVIOUS
  <2>2. /\ m \in ShortMin .. ShortMax
        /\ \A r \in ShortMin .. ShortMax : item[1].extra = r - ShortMin => m = r
    BY <1>2, <2>1, TreeConstants, BitsAre
  <2>3. m \in Nat  BY <2>2, TreeConstants
  <2>4. by # "damaged" => i = j + m /\ Alike(0)
    <3>. SUFFICES ASSUME by # "damaged" PROVE i = j + m /\ Alike(0)  OBVIOUS
    <3>1. /\ i - j \in ShortMin .. ShortMax /\ item[1].extra = i - j - ShortMin /\ Alike(0)
      BY <1>2, <1>4 DEF Carries
    <3>2. m = i - j  BY <2>2, <3>1
    <3>. QED  BY <1>2, <3>1, <3>2
  <2>. QED  BY <1>2, <1>3, <1>4, <2>1, <2>3, <2>4, FillInv
<1>5. CASE item[1].sym = "zeroLong" /\ Tree!Fill(Tree!Bits(LongMin, LongMax), 0)
  <2>1. PICK m : m = Tree!Bits(LongMin, LongMax)  OBVIOUS
  <2>2. /\ m \in LongMin .. LongMax
        /\ \A r \in LongMin .. LongMax : item[1].extra = r - LongMin => m = r
    BY <1>2, <2>1, TreeConstants, BitsAre
  <2>3. m \in Nat  BY <2>2, TreeConstants
  <2>4. by # "damaged" => i = j + m /\ Alike(0)
    <3>. SUFFICES ASSUME by # "damaged" PROVE i = j + m /\ Alike(0)  OBVIOUS
    <3>1. /\ i - j \in LongMin .. LongMax /\ item[1].extra = i - j - LongMin /\ Alike(0)
      BY <1>2, <1>5 DEF Carries
    <3>2. m = i - j  BY <2>2, <3>1
    <3>. QED  BY <1>2, <3>1, <3>2
  <2>. QED  BY <1>2, <1>3, <1>5, <2>1, <2>3, <2>4, FillInv
<1>. QED  BY <1>4, <1>5 DEF Tree!ReadZeros

(* Nothing is refused in what an encoder wrote.                            *)
LEMMA RefusedInv ==
  ASSUME TreeInv, TreeFollows, Tree!Refused, by = "damaged" PROVE TreeInv' /\ TreeFollows'
<1>1. item' = <<>> /\ corrupt' = TRUE /\ UNCHANGED <<by, before, treeLens, i, got, j>>
  BY DEF Tree!Refused
<1>2. item' \in Seq(Items) /\ Len(item') <= 1  BY <1>1, EmptySeq
<1>. QED  BY <1>1, <1>2 DEF TreeInv, TreeFollows

LEMMA ReadSameInv == ASSUME TreeInv, TreeFollows, Tree!ReadSame PROVE TreeInv' /\ TreeFollows'
<1>1. PICK l, m : l = Tree!Length(item[1].c) /\ m = Tree!Bits(SameMin, SameMax)  OBVIOUS
<1>2. Tree!Reads /\ item[1].sym = "same"  BY DEF Tree!ReadSame
<1>3. /\ ~corrupt /\ item[1].extra \in Nat /\ i \in Nat /\ j \in Nat
      /\ item[1].c <= maxTreePath => l \in 0 .. maxTreePath
      /\ by # "damaged" => Carries(item[1])
  BY <1>1, <1>2, ReadsAt
<1>4. by # "damaged" =>
        /\ i - j \in SameMin .. SameMax /\ item[1].extra = i - j - SameMin
        /\ item[1].c <= maxTreePath /\ Alike(l)
  BY <1>1, <1>2, <1>3 DEF Carries
<1>5. CASE item[1].c > maxTreePath
  <2>1. Tree!Refused  BY <1>5 DEF Tree!ReadSame
  <2>2. by = "damaged"
    <3>1. item[1].c \in Nat /\ maxTreePath \in Nat  BY <1>2, ReadsAt, TreeConstants
    <3>2. ~(item[1].c <= maxTreePath)  BY <1>5, <3>1
    <3>. QED  BY <1>4, <3>2
  <2>. QED  BY <2>1, <2>2, RefusedInv
<1>6. CASE ~(item[1].c > maxTreePath)
  <2>1. Tree!Fill(m, l)  BY <1>1, <1>6 DEF Tree!ReadSame
  <2>2. /\ m \in SameMin .. SameMax
        /\ \A r \in SameMin .. SameMax : item[1].extra = r - SameMin => m = r
    <3>1. SameMin <= SameMax /\ SameMin \in Nat /\ SameMax \in Nat  BY TreeConstants
    <3>. QED  BY <1>1, <1>3, <3>1, BitsAre
  <2>3. m \in Nat  BY <2>2, TreeConstants
  <2>4. by # "damaged" => i = j + m /\ Alike(l)
    <3>. SUFFICES ASSUME by # "damaged" PROVE i = j + m /\ Alike(l)  OBVIOUS
    <3>1. m = i - j  BY <1>4, <2>2
    <3>. QED  BY <1>3, <1>4, <3>1
  <2>5. l \in 0 .. maxTreePath
    <3>1. item[1].c \in Nat /\ maxTreePath \in Nat  BY <1>2, ReadsAt, TreeConstants
    <3>. QED  BY <1>3, <1>6, <3>1
  <2>. QED  BY <1>3, <2>1, <2>3, <2>4, <2>5, FillInv
<1>. QED  BY <1>5, <1>6

LEMMA ReadNoneInv == ASSUME TreeInv, TreeFollows, Tree!ReadNone PROVE TreeInv' /\ TreeFollows'
<1>1. Tree!Reads /\ item[1].sym = "delta" /\ item[1].c > maxTreePath /\ Tree!Refused
  BY DEF Tree!ReadNone
<1>2. by = "damaged"
  <2>. SUFFICES ASSUME by # "damaged" PROVE FALSE  OBVIOUS
  <2>1. item[1].c \in Nat /\ maxTreePath \in Nat /\ Carries(item[1])
    BY <1>1, ReadsAt, TreeConstants
  <2>2. item[1].c <= maxTreePath  BY <1>1, <2>1 DEF Carries
  <2>. QED  BY <1>1, <2>1, <2>2
<1>. QED  BY <1>1, <1>2, RefusedInv

LEMMA TreeNextInv == ASSUME TreeInv, TreeFollows, Tree!Next PROVE TreeInv' /\ TreeFollows'
BY PutLongInv, PutShortInv, PutSameInv, PutOneInv, OtherPutsInv, DamagePutsInv, ReadDeltaInv,
   ReadZerosInv, ReadSameInv, ReadNoneInv DEF Tree!Next

-----------------------------------------------------------------------------
(* The invariant.                                                          *)

BitsInv == LengthsInv /\ StageInv /\ TreeInv /\ TreeFollows /\ BlockInv

LEMMA NothingYet ==
  ASSUME i = 0, item = <<>>, j = 0, corrupt = FALSE, treeLens \in Lengths, got \in Lengths,
         Len(got) = Len(treeLens), before = got, by = "own" => got = <<>>
  PROVE  TreeInv /\ TreeFollows
<1>1. Len(got) \in Nat  BY LenProperties DEF Lengths
<1>2. item \in Seq(Items) /\ Len(item) = 0  BY EmptySeq
<1>3. TreeInv
  <2>1. corrupt \in BOOLEAN  OBVIOUS
  <2>2. i \in 0 .. Len(got) /\ j \in 0 .. Len(got)  BY <1>1
  <2>. QED  BY <1>2, <2>1, <2>2 DEF TreeInv
<1>4. by = "own" => Len(got) = 0  BY EmptySeq
<1>5. TreeFollows  BY <1>1, <1>4 DEF TreeFollows
<1>. QED  BY <1>3, <1>5

LEMMA NoTreeYet ==
  ASSUME i = 0, item = <<>>, j = 0, corrupt = FALSE, before = got, NoTree
  PROVE  TreeInv /\ TreeFollows
<1>1. treeLens \in Lengths /\ got \in Lengths /\ Len(got) = Len(treeLens)
  BY EmptySeq DEF NoTree, Lengths
<1>. QED  BY <1>1, NothingYet DEF NoTree

LEMMA CodesBegin ==
  ASSUME NEW f \in [Alphabet -> Nat], Huffman!Starts(f)
  PROVE  LengthsInv /\ phase = "start"
<1>1. lens = [s \in Alphabet |-> 0] /\ nodes = <<>> /\ ni = 1 /\ phase = "start" /\ freq = f
  BY DEF Huffman!Starts
<1>2. lens \in [Alphabet -> Nat]  BY <1>1
<1>. QED  BY <1>1, <1>2 DEF LengthsInv

LEMMA BitsInit == ASSUME Init PROVE BitsInv
<1>1. PICK f \in [Alphabet -> Nat] : Huffman!Starts(f)
  <2>1. Unused \in [Alphabet -> Nat]  BY DEF Unused
  <2>2. \A f \in Frequencies : f \in [Alphabet -> Nat]  BY BitsAssumption
  <2>. QED  BY <2>1, <2>2 DEF Init
<1>2. LengthsInv /\ phase = "start"  BY <1>1, CodesBegin
<1>3. /\ before = got /\ i = 0 /\ item = <<>> /\ j = 0 /\ corrupt = FALSE
      /\ out = 0 /\ held = 0 /\ unput = 0 /\ pos = 0 /\ nbits = 0 /\ unaligned = FALSE
      /\ n = 0 /\ k = 1 /\ left = 0
  BY DEF Init
<1>0. unaligned \in BOOLEAN  BY <1>3
<1>4. NoBlocks => BlockInv
  BY <1>0, <1>3 DEF NoBlocks, BlockInv, BlockTypeInv, WriterFollows, ReaderFollows
<1>5. CASE by = "own" /\ NoTree /\ NoBlocks
  <2>1. StageInv  BY <1>5 DEF StageInv, NoBlocks, NoTree
  <2>. QED  BY <1>2, <1>3, <1>4, <1>5, <2>1, NoTreeYet DEF BitsInv
<1>6. CASE /\ by = "other" /\ NoBlocks
           /\ treeLens \in OtherTrees /\ got \in Previous /\ Len(got) = Len(treeLens)
  <2>1. StageInv  BY <1>2, <1>6 DEF StageInv, NoBlocks
  <2>2. treeLens \in Lengths /\ got \in Lengths  BY <1>6, BitsAssumption DEF Lengths
  <2>. QED  BY <1>2, <1>3, <1>4, <1>6, <2>1, <2>2, NothingYet DEF BitsInv
<1>7. CASE by = "damaged" /\ NoBlocks /\ got \in Previous /\ treeLens = got
  <2>1. StageInv  BY <1>2, <1>7 DEF StageInv, NoBlocks
  <2>2. treeLens \in Lengths /\ got \in Lengths  BY <1>7, BitsAssumption DEF Lengths
  <2>. QED  BY <1>2, <1>3, <1>4, <1>7, <2>1, <2>2, NothingYet DEF BitsInv
<1>8. CASE /\ by = "other" /\ NoTree /\ stream \in Streams /\ length = stream.length
           /\ size = stream.made[Len(stream.made)] /\ pc = "block"
  <2>1. StageInv  BY <1>2, <1>8 DEF StageInv
  <2>2. Blocks!Laid(stream) /\ Blocks!Ends(stream, length)
    BY <1>8, BitsAssumption DEF Blocks!IsStream
  <2>3. PICK m : m = Len(stream.blocks)  OBVIOUS
  <2>4. /\ m \in Nat \ {0} /\ stream.at[1] = 0 /\ stream.made[1] = 0
        /\ stream.made \in [1 .. m + 1 -> Nat]
    BY <2>2, <2>3 DEF Blocks!Laid
  <2>5. Len(stream.made) = m + 1 /\ stream.made[m + 1] \in Nat
    <3>1. PICK g : g = stream.made  OBVIOUS
    <3>2. g \in [1 .. m + 1 -> Nat] /\ m + 1 \in Nat  BY <2>4, <3>1
    <3>3. Len(g) = m + 1  BY <3>2
    <3>. QED  BY <2>4, <3>1, <3>3
  <2>6. 1 \in 1 .. Len(stream.blocks)  BY <2>3, <2>4
  <2>7. length \in Nat  BY <2>2, <2>6, EnoughBits
  <2>8. BlockTypeInv  BY <1>0, <1>3, <1>8, <2>3, <2>5, <2>7 DEF BlockTypeInv
  <2>9. WriterFollows  BY <1>3, <1>8 DEF WriterFollows
  <2>10. AtBlock  BY <1>3, <2>4 DEF AtBlock
  <2>11. ReaderFollows  BY <1>3, <1>8, <2>2, <2>3, <2>4, <2>5, <2>6, <2>10 DEF ReaderFollows
  <2>. QED  BY <1>2, <1>3, <1>8, <2>1, <2>8, <2>9, <2>11, NoTreeYet DEF BitsInv, BlockInv
<1>9. CASE /\ by = "damaged" /\ NoTree /\ length \in DamagedLengths
           /\ size \in 1 .. WindowSize /\ pc = "block"
  <2>1. StageInv  BY <1>2, <1>9 DEF StageInv
  <2>2. length \in Nat /\ size \in Nat  BY <1>9, BitsAssumption, WindowIs
  <2>3. BlockInv
    BY <1>0, <1>3, <1>9, <2>2 DEF BlockInv, BlockTypeInv, WriterFollows, ReaderFollows
  <2>. QED  BY <1>2, <1>3, <1>9, <2>1, <2>3, NoTreeYet DEF BitsInv
<1>. QED  BY <1>5, <1>6, <1>7, <1>8, <1>9 DEF Init

-----------------------------------------------------------------------------
(* Every step.                                                             *)

LEMMA CodesKept == ASSUME LengthsInv, UNCHANGED huffmanVars PROVE LengthsInv'
<1>1. UNCHANGED <<freq, lens, leaves, nodes, ni, order, phase>>  BY DEF huffmanVars
<1>2. Huffman!Used' = Huffman!Used  BY <1>1 DEF Huffman!Used
<1>3. Two' = Two /\ Coded(lens)' = Coded(lens) /\ Nodes' = Nodes
  BY <1>1, <1>2 DEF Two, Coded, Nodes
<1>4. MergeInv' = MergeInv  BY <1>1, <1>2, <1>3 DEF MergeInv
<1>5. Kraft(lens, Limit)' = Kraft(lens, Limit)  BY <1>1, KraftOfNext
<1>. QED  BY <1>1, <1>2, <1>3, <1>4, <1>5 DEF LengthsInv

LEMMA TreeKept ==
  ASSUME TreeInv, TreeFollows, UNCHANGED <<by, treeVars>> PROVE TreeInv' /\ TreeFollows'
<1>1. UNCHANGED <<by, before, treeLens, i, item, got, j, corrupt>>  BY DEF treeVars
<1>2. TreeInv'  BY <1>1 DEF TreeInv
<1>3. Carries(item[1])' = Carries(item[1])  BY <1>1 DEF Carries, Alike, Tree!Length
<1>4. TreeFollows'  BY <1>1, <1>3 DEF TreeFollows
<1>. QED  BY <1>2, <1>4

LEMMA AssignInv == ASSUME BitsInv, Assign PROVE BitsInv'
<1>1. by = "own" /\ Huffman!Next /\ UNCHANGED <<by, treeVars, blockVars>>  BY DEF Assign
<1>2. LengthsInv' /\ phase # "done" /\ phase # "over"  BY <1>1, HuffmanInv DEF BitsInv
<1>3. StageInv'
  BY <1>1, <1>2 DEF BitsInv, StageInv, NoTree, treeVars, blockVars
<1>. QED  BY <1>1, <1>2, <1>3, TreeKept, BlockKept DEF BitsInv

LEMMA BeginTreeInv == ASSUME BitsInv, BeginTree PROVE BitsInv'
<1>. USE DEF BitsInv
<1>1. PICK z : z = Huffman!Size  OBVIOUS
<1>2. /\ phase = "done" /\ treeLens = <<>>
      /\ treeLens' = [s \in 1 .. z |-> lens[s - 1]] /\ got' = [s \in 1 .. z |-> 0]
      /\ before' = got'
      /\ UNCHANGED <<by, huffmanVars, i, item, j, corrupt, blockVars>>
  BY <1>1 DEF BeginTree, Tree!Zeros
<1>3. z \in Nat /\ Alphabet = 0 .. z - 1 /\ maxTreePath \in Nat /\ Limit \in 1 .. maxTreePath
  BY <1>1, HuffmanConstants
<1>4. by = "own" /\ pc = "idle"  BY <1>2 DEF StageInv
<1>5. ASSUME NEW s \in 1 .. z PROVE lens[s - 1] \in 0 .. maxTreePath
  <2>1. s - 1 \in Alphabet  BY <1>3
  <2>2. lens[s - 1] \in Nat /\ lens[s - 1] <= Limit  BY <1>2, <2>1 DEF LengthsInv
  <2>. QED  BY <1>3, <2>2
<1>6. treeLens' \in [1 .. z -> 0 .. maxTreePath] /\ got' \in [1 .. z -> 0 .. maxTreePath]
  BY <1>2, <1>3, <1>5
<1>7. /\ treeLens' \in Lengths /\ got' \in Lengths /\ Len(got') = z /\ Len(treeLens') = z
  <2>1. ASSUME NEW g \in [1 .. z -> 0 .. maxTreePath]
        PROVE  g \in Seq(0 .. maxTreePath) /\ Len(g) = z
    BY <1>3, SeqDef, LenProperties
  <2>2. \A g \in [1 .. z -> 0 .. maxTreePath] : g \in Seq(0 .. maxTreePath) /\ Len(g) = z
    BY <2>1
  <2>. QED  BY <1>6, <2>2 DEF Lengths
<1>8. i = 0 /\ j = 0 /\ ~corrupt /\ item = <<>>
  <2>1. Len(treeLens) = 0 /\ Len(got) = 0  BY <1>2, EmptySeq DEF TreeInv
  <2>2. i = 0 /\ j = 0  BY <2>1 DEF TreeInv
  <2>3. ~corrupt  BY <1>4 DEF TreeFollows
  <2>4. item = <<>>
    <3>. SUFFICES ASSUME item # <<>> PROVE FALSE  OBVIOUS
    <3>1. Carries(item[1])  BY <1>4 DEF TreeFollows
    <3>2. i - j = 0 /\ i # j + 1  BY <2>2
    <3>. QED  BY <3>1, <3>2, TreeConstants DEF Carries
  <2>. QED  BY <2>2, <2>3, <2>4
<1>9. i' = 0 /\ j' = 0 /\ corrupt' = FALSE /\ item' = <<>> /\ by' = "own"
  <2>1. corrupt = FALSE  BY <1>8 DEF TreeInv
  <2>. QED  BY <1>2, <1>4, <1>8, <2>1
<1>10. TreeInv'
  <2>1. item' \in Seq(Items) /\ Len(item') = 0  BY <1>9, EmptySeq
  <2>2. corrupt' \in BOOLEAN  BY <1>9
  <2>3. i' \in 0 .. Len(got') /\ j' \in 0 .. Len(got')  BY <1>3, <1>7, <1>9
  <2>. QED  BY <1>7, <2>1, <2>2, <2>3 DEF TreeInv
<1>11. TreeFollows'
  <2>1. \A s \in 1 .. z : got'[s] = 0 /\ before'[s] = 0  BY <1>2
  <2>. QED  BY <1>3, <1>7, <1>9, <2>1 DEF TreeFollows
<1>12. StageInv'
  <2>1. treeLens' = [s \in 1 .. Huffman!Size |-> lens[s - 1]]  BY <1>1, <1>2
  <2>2. Huffman!Size' = Huffman!Size  BY DEF Huffman!Size
  <2>3. UNCHANGED <<lens, phase, by, pc>>  BY <1>2 DEF huffmanVars, blockVars
  <2>. QED  BY <1>2, <1>4, <2>1, <2>2, <2>3 DEF StageInv
<1>13. LengthsInv'  BY <1>2, CodesKept
<1>14. BlockInv'  BY <1>2, BlockKept
<1>. QED  BY <1>10, <1>11, <1>12, <1>13, <1>14

LEMMA SendTreeInv == ASSUME BitsInv, SendTree PROVE BitsInv'
<1>. USE DEF BitsInv
<1>1. Tree!Next /\ UNCHANGED <<huffmanVars, blockVars>>  BY DEF SendTree
<1>2. TreeInv' /\ TreeFollows'  BY <1>1, TreeNextInv
<1>3. by' = by /\ treeLens' = treeLens /\ got # <<>>
  <2>1. j < Len(got) /\ UNCHANGED <<by, treeLens>>
    BY <1>1 DEF Tree!Next, Tree!PutLong, Tree!PutShort, Tree!PutSame, Tree!PutOne,
       Tree!OtherPuts, Tree!DamagePuts, Tree!ReadDelta, Tree!ReadZeros, Tree!ReadSame,
       Tree!ReadNone, Tree!Writes, Tree!Reads, Tree!Put, Tree!Fill, Tree!Refused
  <2>2. got # <<>>
    <3>. SUFFICES ASSUME got = <<>> PROVE FALSE  OBVIOUS
    <3>1. Len(got) = 0  BY EmptySeq
    <3>2. j \in 0 .. 0  BY <3>1 DEF TreeInv
    <3>. QED  BY <2>1, <3>1, <3>2
  <2>. QED  BY <2>1, <2>2
<1>4. StageInv'
  <2>1. ~NoTree  BY <1>3 DEF NoTree
  <2>. QED  BY <1>1, <1>3, <2>1 DEF StageInv, huffmanVars, blockVars
<1>5. LengthsInv'  BY <1>1, CodesKept
<1>6. BlockInv'  BY <1>1, <1>3, BlockKept
<1>. QED  BY <1>2, <1>4, <1>5, <1>6

LEMMA BeginBlockInv == ASSUME BitsInv, BeginBlock PROVE BitsInv'
<1>. USE DEF BitsInv
<1>1. PICK type, bytes, codes, block :
        /\ type \in {"verbatim", "aligned"} /\ bytes \in 1 .. WindowSize /\ codes \in CodeSizes
        /\ block = [type |-> type, size |-> bytes, codes |-> codes]
        /\ stream' = Blocks!OwnStream(block) /\ size' = bytes
  BY DEF BeginBlock
<1>2. /\ phase = "done" /\ item = <<>>
      /\ unput' = stream'.at[2] /\ pc' = "write"
      /\ phase' = "over" /\ lens' = Unused /\ freq' = Unused
      /\ before' = <<>> /\ treeLens' = <<>> /\ got' = <<>> /\ i' = 0 /\ j' = 0
      /\ UNCHANGED <<by, item, corrupt, length, out, held, pos, nbits, unaligned, n, k, left>>
  BY DEF BeginBlock, TreeRead
<1>3. by = "own" /\ pc = "idle"  BY <1>2 DEF StageInv
<1>4. /\ pos = 0 /\ nbits = 0 /\ ~unaligned /\ n = 0 /\ k = 1
      /\ out = 0 /\ held = 0 /\ unput = 0 /\ length = 0 /\ left \in Nat
      /\ unaligned \in BOOLEAN
  BY <1>3 DEF BlockInv, BlockTypeInv, WriterFollows
<1>5. ~corrupt /\ corrupt \in BOOLEAN  BY <1>3 DEF TreeFollows, TreeInv
<1>6. LengthsInv'
  <2>1. lens' \in [Alphabet -> Nat] /\ freq' \in [Alphabet -> Nat]  BY <1>2 DEF Unused
  <2>. QED  BY <1>2, <2>1 DEF LengthsInv
<1>7. NoTree' /\ corrupt' = FALSE  BY <1>2, <1>5 DEF NoTree
<1>8. TreeInv' /\ TreeFollows'
  <2>1. /\ treeLens' \in Lengths /\ got' \in Lengths /\ Len(got') = Len(treeLens')
        /\ Len(got') = 0 /\ item' \in Seq(Items) /\ Len(item') = 0
    BY <1>2, EmptySeq DEF Lengths
  <2>2. TreeInv'  BY <1>2, <1>7, <2>1 DEF TreeInv
  <2>3. TreeFollows'  BY <1>2, <1>7, <2>1 DEF TreeFollows
  <2>. QED  BY <2>2, <2>3
<1>9. StageInv'  BY <1>2, <1>3, <1>7 DEF StageInv
<1>10. PICK x : x = Blocks!Behind(0, block)  OBVIOUS
<1>11. x \in Nat /\ Blocks!IsBlock(block) /\ block.size = bytes
  <2>1. bytes \in Nat \ {0} /\ codes \in Nat  BY <1>1, WindowIs, BitsAssumption
  <2>2. Blocks!IsBlock(block)
    BY <1>1, <2>1 DEF Blocks!IsBlock, Blocks!BlockTypes, Blocks!Stored
  <2>3. block.type # Blocks!Stored /\ block.codes = codes /\ block.size = bytes
    BY <1>1 DEF Blocks!Stored
  <2>4. Blocks!HeaderBits(block) \in {4, 20}  BY DEF Blocks!HeaderBits
  <2>5. x = 0 + Blocks!HeaderBits(block) + codes  BY <1>10, <2>3 DEF Blocks!Behind
  <2>. QED  BY <2>1, <2>2, <2>3, <2>4, <2>5
<1>12. PICK s : s = stream'  OBVIOUS
<1>13. /\ s.blocks = <<block>> /\ s.at = <<0, x>> /\ s.made = <<0, bytes>>
  BY <1>1, <1>10, <1>11, <1>12 DEF Blocks!OwnStream
<1>14. Len(s.blocks) = 1 /\ s.blocks[1] = block /\ s.at[1] = 0 /\ s.at[2] = x
       /\ s.made[1] = 0 /\ s.made[2] = bytes
  BY <1>13
<1>15. bytes \in Nat  BY <1>1, WindowIs
<1>16. Blocks!Laid(s)
  <2>1. s.at \in [1 .. 2 -> Nat] /\ s.made \in [1 .. 2 -> Nat]  BY <1>11, <1>13, <1>15
  <2>2. s.at[1 + 1] = Blocks!Behind(s.at[1], s.blocks[1])
        /\ s.made[1 + 1] = s.made[1] + s.blocks[1].size
    BY <1>10, <1>11, <1>14, <1>15
  <2>3. \A m \in 1 .. 1 : m = 1  OBVIOUS
  <2>4. 1 + 1 = 2  OBVIOUS
  <2>. QED  BY <1>11, <1>14, <2>1, <2>2, <2>3, <2>4 DEF Blocks!Laid
<1>17. BlockTypeInv'
  <2>1. unput' = x /\ size' \in Nat  BY <1>1, <1>2, <1>12, <1>14, <1>15
  <2>. QED  BY <1>2, <1>4, <1>11, <2>1 DEF BlockTypeInv
<1>18. WriterFollows'
  <2>1. 8 * out' + held' + unput' = stream'.at[2]  BY <1>2, <1>4, <1>11, <1>12, <1>14
  <2>. QED  BY <1>2, <1>3, <1>4, <1>12, <1>14, <2>1 DEF WriterFollows
<1>19. ReaderFollows'
  <2>1. stream'.made[Len(stream'.blocks) + 1] = bytes /\ Blocks!Laid(stream')
    BY <1>12, <1>14, <1>16
  <2>. QED  BY <1>1, <1>2, <2>1 DEF ReaderFollows
<1>. QED  BY <1>6, <1>8, <1>9, <1>17, <1>18, <1>19 DEF BlockInv

LEMMA SendBlocksInv == ASSUME BitsInv, SendBlocks PROVE BitsInv'
<1>. USE DEF BitsInv
<1>1. Blocks!Next /\ UNCHANGED <<huffmanVars, treeVars>>  BY DEF SendBlocks
<1>2. BlockInv'  BY <1>1, BlockNextInv
<1>3. by' = by /\ pc # "idle" /\ pc' # "idle"
  BY <1>1 DEF Blocks!Next, Blocks!Write, Blocks!Flush, Blocks!ReadHeader, Blocks!ReadStored,
     Blocks!ReadCodes, Blocks!CodesEnd, Blocks!CodesFail, Blocks!Corrupt, Blocks!writer
<1>4. LengthsInv'  BY <1>1, CodesKept
<1>5. TreeInv' /\ TreeFollows'  BY <1>1, <1>3, TreeKept
<1>6. StageInv'
  BY <1>1, <1>3 DEF StageInv, NoTree, huffmanVars, treeVars
<1>. QED  BY <1>2, <1>4, <1>5, <1>6

LEMMA BitsStep == ASSUME BitsInv, [Next]_vars PROVE BitsInv'
<1>1. CASE Assign  BY <1>1, AssignInv
<1>2. CASE BeginTree  BY <1>2, BeginTreeInv
<1>3. CASE SendTree  BY <1>3, SendTreeInv
<1>4. CASE BeginBlock  BY <1>4, BeginBlockInv
<1>5. CASE SendBlocks  BY <1>5, SendBlocksInv
<1>6. CASE UNCHANGED vars
  <2>1. UNCHANGED <<by, huffmanVars, treeVars, blockVars>>  BY <1>6 DEF vars
  <2>2. LengthsInv' /\ TreeInv' /\ TreeFollows' /\ BlockInv'
    BY <2>1, CodesKept, TreeKept, BlockKept DEF BitsInv
  <2>3. StageInv'
    BY <2>1 DEF BitsInv, StageInv, NoTree, huffmanVars, treeVars, blockVars
  <2>. QED  BY <2>2, <2>3 DEF BitsInv
<1>. QED  BY <1>1, <1>2, <1>3, <1>4, <1>5, <1>6 DEF Next

(* Writer and reader of the codes, the trees and the blocks are always as  *)
(* the invariant has them.                                                 *)
THEOREM BitsInvariant == Spec => []BitsInv
<1>1. Init => BitsInv  BY BitsInit
<1>2. BitsInv /\ [Next]_vars => BitsInv'  BY BitsStep
<1>. QED  BY <1>1, <1>2, PTL DEF Spec

(* What writeTree, or another encoder, puts into the stream is never       *)
(* refused by readTree: at every item both are at the same symbol, and the *)
(* lengths up to it are those that were written, and those behind it are   *)
(* still those of the block before, whatever they were.                    *)
THEOREM TreesAreReadAsWritten == Spec => []TreeInStep
<1>1. BitsInv => TreeInStep
  <2>. SUFFICES ASSUME BitsInv, by # "damaged"
                PROVE  /\ ~corrupt
                       /\ item = <<>> => i = j /\ SubSeq(got, 1, j) = SubSeq(treeLens, 1, j)
                       /\ \A s \in j + 1 .. Len(got) : got[s] = before[s]
    BY DEF TreeInStep, Tree!TreeInStep
  <2>1. /\ ~corrupt /\ (item = <<>> => i = j) /\ \A s \in 1 .. j : got[s] = treeLens[s]
        /\ \A s \in j + 1 .. Len(got) : got[s] = before[s]
    BY DEF BitsInv, TreeFollows
  <2>2. /\ got \in Seq(0 .. maxTreePath) /\ treeLens \in Seq(0 .. maxTreePath)
        /\ Len(got) = Len(treeLens) /\ j \in 0 .. Len(got) /\ Len(got) \in Nat
    BY LenProperties DEF BitsInv, TreeInv, Lengths
  <2>3. ASSUME NEW s \in 1 .. j
        PROVE  got[s] \in 0 .. maxTreePath /\ treeLens[s] \in 0 .. maxTreePath
    <3>1. s \in 1 .. Len(got) /\ s \in 1 .. Len(treeLens)  BY <2>2
    <3>. QED  BY <2>2, <3>1, ElementOfSeq
  <2>4. PICK a, b : a = SubSeq(got, 1, j) /\ b = SubSeq(treeLens, 1, j)  OBVIOUS
  <2>5. 1 \in Int /\ j \in Int /\ j - 1 + 1 = j  BY <2>2
  <2>6. /\ a \in Seq(0 .. maxTreePath) /\ Len(a) = (IF 1 <= j THEN j - 1 + 1 ELSE 0)
        /\ \A s \in 1 .. j - 1 + 1 : a[s] = got[1 + s - 1]
    BY <2>3, <2>4, <2>5, SubSeqProperties
  <2>7. /\ b \in Seq(0 .. maxTreePath) /\ Len(b) = (IF 1 <= j THEN j - 1 + 1 ELSE 0)
        /\ \A s \in 1 .. j - 1 + 1 : b[s] = treeLens[1 + s - 1]
    BY <2>3, <2>4, <2>5, SubSeqProperties
  <2>8. Len(a) = j /\ Len(b) = j  BY <2>2, <2>6, <2>7
  <2>9. \A s \in 1 .. j : a[s] = b[s]
    <3>1. \A s \in 1 .. j : 1 + s - 1 = s  BY <2>2
    <3>. QED  BY <2>1, <2>5, <2>6, <2>7, <3>1
  <2>10. a = b  BY <2>6, <2>7, <2>8, <2>9, SeqEqual
  <2>. QED  BY <2>1, <2>4, <2>10
<1>. QED  BY <1>1, BitsInvariant, PTL

(* Reader and writer are at the same bit, in every block of a chunk of     *)
(* this package and of every stream of the format: stored blocks, their    *)
(* odd byte and the end of the input included; no bit is lost when words   *)
(* are filled and taken apart.                                             *)
THEOREM BitsAreReadAsWritten == Spec => []BitsInStep
<1>1. BitsInv => BitsInStep
  <2>. SUFFICES ASSUME BitsInv PROVE Blocks!BitsInStep  BY DEF BitsInStep
  <2>1. Blocks!AccumulatorsHold
    <3>1. held \in 0 .. 15 /\ nbits \in 0 .. 15 /\ out \in Nat /\ unput \in Nat
      BY DEF BitsInv, BlockInv, BlockTypeInv
    <3>2. by = "own" /\ pc # "idle" =>
            /\ pc = "write" => 8 * out + held + unput = stream.at[2]
            /\ pc # "write" => 8 * out + held + unput \in stream.at[2] .. stream.at[2] + 15
      BY DEF BitsInv, BlockInv, WriterFollows
    <3>3. by = "own" /\ pc = "write" => 8 * out + held + unput \in stream.at[2] .. stream.at[2] + 0
      BY <3>1, <3>2
    <3>. QED  BY <3>1, <3>2, <3>3 DEF Blocks!AccumulatorsHold, Blocks!WordBits
  <2>2. by # "damaged" =>
          /\ pc # "corrupt"
          /\ pc = "block" => Blocks!Consumed + (IF unaligned THEN 8 ELSE 0) = stream.at[k]
          /\ pc = "codes" => Blocks!Consumed + left = stream.at[k]
          /\ pc = "done" => k = Len(stream.blocks) + 1
    BY DEF BitsInv, BlockInv, ReaderFollows, AtBlock, Blocks!Consumed
  <2>. QED  BY <2>1, <2>2 DEF Blocks!BitsInStep
<1>. QED  BY <1>1, BitsInvariant, PTL

(* Whatever is read, damage too, readTree puts no length beside its table  *)
(* and none that build could not count, the bit reader takes no byte from  *)
(* behind the input, and no block is put behind the chunk.                 *)
THEOREM NothingIsReadBeside == Spec => []StaysWithin
<1>1. BitsInv => StaysWithin
  <2>. SUFFICES ASSUME BitsInv PROVE StaysWithin  OBVIOUS
  <2>1. Tree!TreeStaysWithin
    <3>1. /\ got \in Seq(0 .. maxTreePath) /\ Len(got) = Len(treeLens) /\ j \in 0 .. Len(got)
          /\ DOMAIN got = 1 .. Len(got) /\ Len(got) \in Nat
      BY LenProperties DEF BitsInv, TreeInv, Lengths
    <3>2. \A s \in DOMAIN got : got[s] \in 0 .. maxTreePath  BY <3>1, ElementOfSeq
    <3>3. j <= Len(got)  BY <3>1
    <3>. QED  BY <3>1, <3>2, <3>3 DEF Tree!TreeStaysWithin
  <2>2. Blocks!InputIsKept  BY DEF BitsInv, BlockInv, BlockTypeInv, Blocks!InputIsKept
  <2>. QED  BY <2>1, <2>2 DEF StaysWithin
<1>. QED  BY <1>1, BitsInvariant, PTL

-----------------------------------------------------------------------------
(* The codes that are decoded.                                             *)

LEMMA LengthsAreHeard == ASSUME BitsInv, phase = "done", TreeRead PROVE by = "own" /\ Heard = lens
<1>1. by = "own" /\ item = <<>> /\ j = Len(got) /\ treeLens # <<>>
  BY DEF BitsInv, StageInv, TreeRead
<1>2. PICK z \in Nat : z = Huffman!Size /\ Alphabet = 0 .. z - 1  BY HuffmanConstants
<1>3. treeLens = [s \in 1 .. z |-> lens[s - 1]]  BY <1>1, <1>2 DEF BitsInv, StageInv
<1>4. Len(treeLens) = z
  <2>1. ASSUME NEW g \in [1 .. z -> Nat] PROVE Len(g) = z  OBVIOUS
  <2>2. \A s \in 1 .. z : s - 1 \in Alphabet  BY <1>2
  <2>3. treeLens \in [1 .. z -> Nat]  BY <1>3, <2>2 DEF BitsInv, LengthsInv
  <2>. QED  BY <2>1, <2>3
<1>5. /\ got \in Seq(0 .. maxTreePath) /\ Len(got) = z /\ DOMAIN got = 1 .. z
      /\ \A s \in 1 .. z : got[s] = treeLens[s]
  BY <1>1, <1>4, LenProperties DEF BitsInv, TreeInv, TreeFollows, Lengths
<1>6. \A s \in Alphabet : Heard[s] = lens[s]
  <2>. TAKE s \in Alphabet
  <2>1. s + 1 \in 1 .. z /\ (s + 1) - 1 = s  BY <1>2
  <2>2. Heard[s] = got[s + 1]  BY <1>5, <2>1 DEF Heard
  <2>. QED  BY <1>3, <1>5, <2>1, <2>2
<1>7. Heard = [s \in Alphabet |-> Heard[s]] /\ lens = [s \in Alphabet |-> lens[s]]
  BY DEF Heard, BitsInv, LengthsInv
<1>. QED  BY <1>1, <1>6, <1>7

(* Whatever the tallies: every symbol that occurs has a code of at most    *)
(* Limit bits, the decoder builds its table from the lengths alone, and    *)
(* finds each symbol by exactly its bits, whatever comes behind them.  The *)
(* lengths fill all words exactly, also after clampLengths has repaired    *)
(* them, and a symbol's code is its place among those of its length.       *)
THEOREM EverySymbolIsFound == Spec => []CodesArrive
<1>1. BitsInv => CodesArrive
  <2>. SUFFICES ASSUME BitsInv, phase = "done", TreeRead
                PROVE  /\ Decoder!Builds
                       /\ \A s \in Huffman!Used :
                            /\ lens[s] \in 1 .. Limit
                            /\ \A next \in {0, 1} :
                                 Decoder!Sym(Huffman!Bits(s) \o [b \in 1 .. maxTreePath - lens[s] |-> next])
                                   = <<s, lens[s]>>
    BY DEF CodesArrive
  <2>1. Heard = lens  BY LengthsAreHeard
  <2>2. /\ lens \in [Alphabet -> Nat] /\ \A s \in Alphabet : lens[s] <= Limit
        /\ \A s \in Huffman!Used : lens[s] > 0
        /\ (\A s \in Alphabet : lens[s] = 0) \/ Kraft(lens, Limit) = 2 ^ Limit
    BY DEF BitsInv, LengthsInv
  <2>3. Full(lens) \/ \A s \in Alphabet : lens[s] = 0  BY <2>2 DEF Full
  <2>4. Decoder!Builds  BY <2>1, <2>3, DecoderBuilds
  <2>5. ASSUME NEW s \in Huffman!Used
        PROVE  /\ lens[s] \in 1 .. Limit
               /\ \A next \in {0, 1} :
                    Decoder!Sym(Huffman!Bits(s) \o [b \in 1 .. maxTreePath - lens[s] |-> next])
                      = <<s, lens[s]>>
    <3>1. s \in Alphabet /\ lens[s] > 0 /\ lens[s] \in Nat /\ lens[s] <= Limit /\ Limit \in Nat
      BY <2>2, UsedIs, HuffmanConstants
    <3>2. Full(lens)  BY <2>3, <3>1
    <3>3. lens[s] \in 1 .. Limit  BY <3>1
    <3>4. ASSUME NEW next \in {0, 1}
          PROVE  Decoder!Sym(Huffman!Bits(s) \o [b \in 1 .. maxTreePath - lens[s] |-> next])
                   = <<s, lens[s]>>
      BY <2>1, <3>1, <3>2, SymbolIsFound
    <3>. QED  BY <3>3, <3>4
  <2>. QED  BY <2>4, <2>5
<1>. QED  BY <1>1, BitsInvariant, PTL

(* Before clampLengths no other code of the same symbols costs fewer bits, *)
(* whatever the tallies; compared are all that are as short as a complete  *)
(* code is.  While the two queues of huffmanLengths are merged, what has   *)
(* been merged so far and some depths of the roots cost together no more   *)
(* than any code does.                                                     *)
THEOREM NoCodeIsCheaper == Spec => []HuffmanIsOptimal
<1>1. Init => OptimalInv
  <2>. SUFFICES ASSUME Init PROVE OptimalInv  OBVIOUS
  <2>1. phase = "start"  BY DEF Init, Huffman!Starts
  <2>. QED  BY <2>1 DEF OptimalInv
<1>2. BitsInv /\ OptimalInv /\ [Next]_vars => OptimalInv'  BY OptimalStep DEF BitsInv
<1>3. OptimalInv => HuffmanIsOptimal  BY OptimalIs
<1>. QED  BY <1>1, <1>2, <1>3, BitsInvariant, PTL DEF Spec
==============================================================================
