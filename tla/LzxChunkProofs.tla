--------------------------- MODULE LzxChunkProofs ---------------------------
(***************************************************************************)
(* A chunk that is compressed and decompressed is the chunk it was, up to  *)
(* the codes of its symbols: for every chunk, every size of the window and *)
(* of the trees, and whatever matches are taken.                           *)
(*                                                                         *)
(* What makes it inductive is the token under way: the decoder is behind   *)
(* by one literal or one match, and the elements that were emitted are     *)
(* those of it.  Where the translation of calls is undone, it is the       *)
(* places of the calls that were rewritten and are not yet restored: a set *)
(* of which the code keeps no record.                                      *)
(***************************************************************************)
EXTENDS LzxChunk, SequenceTheorems, FiniteSetTheorems, WellFoundedInduction, TLAPS

-----------------------------------------------------------------------------
(* Numbers.                                                                *)

(* A set of numbers has a least one, and one that is bounded a greatest.   *)
LEMMA LeastOf ==
  ASSUME NEW T, T \subseteq Nat, T # {}
  PROVE  \E x \in T : \A y \in T : x <= y
<1>. DEFINE R == OpToRel(<, Nat)
<1>1. \A x, y \in Nat : y < x => <<y, x>> \in R  BY DEF OpToRel
<1>2. IsWellFoundedOn(R, Nat)  BY NatLessThanWellFounded
<1>. HIDE DEF R
<1>3. PICK x \in T : \A y \in T : ~ (<<y, x>> \in R)  BY <1>2, WFMin
<1>4. \A y \in T : ~ (y < x)  BY <1>1, <1>3, Zenon
<1>5. T \subseteq Nat /\ x \in Nat  OBVIOUS
<1>. QED  BY <1>4, <1>5

LEMMA LeastIs ==
  ASSUME NEW T, T \subseteq Nat, T # {}
  PROVE  Least(T) \in T /\ \A y \in T : Least(T) <= y
BY LeastOf DEF Least

LEMMA GreatestIs ==
  ASSUME NEW T, T \subseteq Nat, T # {}, NEW b \in Nat, \A y \in T : y <= b
  PROVE  Greatest(T) \in T /\ \A y \in T : Greatest(T) >= y
<1>. DEFINE U == {b - y : y \in T}
<1>1. U \subseteq Nat /\ U # {}
  <2>1. \A y \in T : b - y \in Nat  OBVIOUS
  <2>. QED  BY <2>1
<1>. HIDE DEF U
<1>2. PICK x \in U : \A y \in U : x <= y  BY <1>1, LeastOf
<1>3. PICK z \in T : x = b - z  BY DEF U
<1>4. \A y \in T : b - y \in U  BY DEF U
<1>5. \A y \in T : b - z <= b - y  BY <1>2, <1>3, <1>4
<1>6. \A y \in T : z >= y  BY <1>5
<1>. QED  BY <1>6 DEF Greatest

LEMMA LeastOfOne == ASSUME NEW m PROVE m \in Nat => Least({m}) = m
BY DEF Least

(* What holds at first, and of each number if of the one before, holds of  *)
(* all of them.                                                            *)
LEMMA StepByStep ==
  ASSUME NEW m \in Nat, NEW S, 0 \in S,
         \A q \in 1 .. m : q - 1 \in S => q \in S
  PROVE  0 .. m \subseteq S
<1>. DEFINE T == {q \in 0 .. m : q \notin S}
<1>1. SUFFICES ASSUME T # {} PROVE FALSE  OBVIOUS
<1>2. T \subseteq Nat  OBVIOUS
<1>3. PICK x \in T : \A y \in T : x <= y  BY <1>1, <1>2, LeastOf
<1>4. x \in 1 .. m /\ x - 1 \in 0 .. m /\ x - 1 \notin T  BY <1>3
<1>. QED  BY <1>4

(* Powers of two: the subsets of a set are pairs of subsets of two parts.  *)
LEMMA PowerIs ==
  ASSUME NEW a \in Nat
  PROVE  2 ^ a \in Nat \ {0}
<1>1. IsFiniteSet(1 .. a) /\ Cardinality(1 .. a) = a  BY FS_Interval
<1>2. IsFiniteSet(SUBSET (1 .. a)) /\ Cardinality(SUBSET (1 .. a)) = 2 ^ a  BY <1>1, FS_SUBSET
<1>3. Cardinality(SUBSET (1 .. a)) \in Nat  BY <1>2, FS_CardinalityType
<1>4. SUBSET (1 .. a) # {}  OBVIOUS
<1>5. Cardinality(SUBSET (1 .. a)) # 0  BY <1>2, <1>4, FS_EmptySet
<1>. QED  BY <1>2, <1>3, <1>5

LEMMA PowerOfZero == 2 ^ 0 = 1
<1>1. IsFiniteSet({}) /\ Cardinality({}) = 0  BY FS_EmptySet
<1>2. Cardinality(SUBSET {}) = 2 ^ 0  BY <1>1, FS_SUBSET
<1>3. SUBSET {} = {{}}  OBVIOUS
<1>4. Cardinality({{}}) = 1  BY FS_Singleton
<1>. QED  BY <1>2, <1>3, <1>4

(* A subset of a + b things is one of the a and one of the b.              *)
LEMMA PowerOfSum ==
  ASSUME NEW a \in Nat, NEW b \in Nat
  PROVE  2 ^ (a + b) = 2 ^ a * 2 ^ b
<1>. DEFINE A == 1 .. a
            B == a + 1 .. a + b
            C == 1 .. a + b
            Pieces == (SUBSET A) \X (SUBSET B)
            f == [p \in Pieces |-> p[1] \cup p[2]]
<1>1. IsFiniteSet(A) /\ Cardinality(A) = a  BY FS_Interval
<1>2. IsFiniteSet(B) /\ Cardinality(B) = b  BY FS_Interval
<1>3. IsFiniteSet(C) /\ Cardinality(C) = a + b
  <2>1. 1 \in Int /\ a + b \in Int /\ (a + b) - 1 + 1 = a + b /\ (1 > a + b => a + b = 0)
    OBVIOUS
  <2>2. IsFiniteSet(1 .. a + b)
        /\ Cardinality(1 .. a + b) = IF 1 > a + b THEN 0 ELSE (a + b) - 1 + 1
    BY <2>1, FS_Interval
  <2>. QED  BY <2>1, <2>2
<1>4. C = A \cup B /\ A \cap B = {}  OBVIOUS
<1>. HIDE DEF A, B, C
<1>5. IsFiniteSet(SUBSET A) /\ Cardinality(SUBSET A) = 2 ^ a  BY <1>1, FS_SUBSET
<1>6. IsFiniteSet(SUBSET B) /\ Cardinality(SUBSET B) = 2 ^ b  BY <1>2, FS_SUBSET
<1>7. IsFiniteSet(SUBSET C) /\ Cardinality(SUBSET C) = 2 ^ (a + b)  BY <1>3, FS_SUBSET
<1>8. IsFiniteSet(Pieces) /\ Cardinality(Pieces) = 2 ^ a * 2 ^ b
  <2>1. IsFiniteSet((SUBSET A) \X (SUBSET B))
        /\ Cardinality((SUBSET A) \X (SUBSET B)) = Cardinality(SUBSET A) * Cardinality(SUBSET B)
    BY <1>5, <1>6, FS_Product
  <2>. QED  BY <1>5, <1>6, <2>1
<1>9. f \in [Pieces -> SUBSET C]  BY <1>4
<1>10. ASSUME NEW p \in Pieces, NEW q \in Pieces, f[p] = f[q] PROVE p = q
  <2>1. p = <<p[1], p[2]>> /\ q = <<q[1], q[2]>>  OBVIOUS
  <2>2. p[1] \subseteq A /\ p[2] \subseteq B /\ q[1] \subseteq A /\ q[2] \subseteq B  OBVIOUS
  <2>3. p[1] \cup p[2] = q[1] \cup q[2]  BY <1>10
  <2>4. p[1] = q[1]  BY <2>2, <2>3, <1>4
  <2>5. p[2] = q[2]  BY <2>2, <2>3, <1>4
  <2>. QED  BY <2>1, <2>4, <2>5
<1>11. ASSUME NEW s \in SUBSET C PROVE \E p \in Pieces : f[p] = s
  <2>1. <<s \cap A, s \cap B>> \in Pieces  OBVIOUS
  <2>2. (s \cap A) \cup (s \cap B) = s  BY <1>4
  <2>3. f[<<s \cap A, s \cap B>>] = (s \cap A) \cup (s \cap B)  BY <2>1
  <2>. QED  BY <2>1, <2>2, <2>3
<1>. HIDE DEF f, Pieces
<1>12. f \in Bijection(Pieces, SUBSET C)
  BY <1>9, <1>10, <1>11 DEF Bijection, Injection, Surjection, IsInjective
<1>13. ExistsBijection(Pieces, SUBSET C)  BY <1>12 DEF ExistsBijection
<1>14. Cardinality(SUBSET C) = Cardinality(Pieces)  BY <1>8, <1>13, FS_Bijection
<1>. QED  BY <1>7, <1>8, <1>14

(* Division with remainder.                                                *)
LEMMA DivBounds ==
  ASSUME NEW a \in Nat, NEW c \in Nat \ {0}
  PROVE  /\ a \div c \in Nat /\ a % c \in 0 .. c - 1
         /\ a = (a \div c) * c + (a % c)
OBVIOUS

LEMMA DivIs ==
  ASSUME NEW q \in Nat, NEW c \in Nat \ {0}, NEW r \in 0 .. c - 1
  PROVE  (q * c + r) \div c = q /\ (q * c + r) % c = r
OBVIOUS

-----------------------------------------------------------------------------
(* Copying, and what a token is.                                           *)

Octets == 0 .. Literals - 1

(* A period later, the remainder is the same.                              *)
LEMMA ModStep ==
  ASSUME NEW a \in Nat, NEW c \in Nat \ {0}, a >= c
  PROVE  (a - c) % c = a % c
<1>1. PICK q \in Nat, r \in 0 .. c - 1 : a = q * c + r
  <2>1. a \div c \in Nat /\ a % c \in 0 .. c - 1 /\ a = (a \div c) * c + (a % c)  BY DivBounds
  <2>. QED  BY <2>1
<1>2. a % c = r  BY <1>1, DivIs
<1>3. q # 0
  <2>. SUFFICES ASSUME q = 0 PROVE FALSE  OBVIOUS
  <2>1. q * c = 0  OBVIOUS
  <2>. QED  BY <1>1, <2>1
<1>4. PICK p \in Nat : q = p + 1
  <2>1. q - 1 \in Nat /\ q = (q - 1) + 1  BY <1>3
  <2>. QED  BY <2>1
<1>5. q * c = p * c + c /\ p * c \in Nat  BY <1>4
<1>6. a - c = p * c + r  BY <1>1, <1>5
<1>7. (p * c + r) % c = r  BY DivIs
<1>. QED  BY <1>2, <1>6, <1>7

(* What is copied byte by byte repeats what is in front of it.             *)
LEMMA CopiedIs ==
  ASSUME NEW byte, window \in Seq(byte), NEW l \in Nat, NEW o \in 1 .. Len(window)
  PROVE  /\ DOMAIN Copied(l, o) = 1 .. Len(window) + l
         /\ \A m \in 1 .. Len(window) : Copied(l, o)[m] = window[m]
         /\ \A m \in Len(window) + 1 .. Len(window) + l : Copied(l, o)[m] = Copied(l, o)[m - o]
<1>. DEFINE w == CHOOSE w : w = [n \in Nat |-> IF n <= Len(window) THEN window[n] ELSE w[n - o]]
            h == [n \in Nat |-> IF n <= Len(window) THEN window[n]
                                ELSE window[Len(window) - o + 1 + ((n - Len(window) - 1) % o)]]
<1>1. PICK z : z = Len(window)  OBVIOUS
<1>2. z \in Nat /\ o \in 1 .. z /\ o \in Nat \ {0}  BY <1>1
<1>3. ASSUME NEW m \in Nat, m > z
      PROVE  h[m] = h[m - o]
  <2>1. m - o \in Nat /\ m - z - 1 \in Nat  BY <1>2, <1>3
  <2>2. h[m] = window[z - o + 1 + ((m - z - 1) % o)]  BY <1>1, <1>2, <1>3
  <2>3. CASE m - o > z
    <3>1. h[m - o] = window[z - o + 1 + ((m - o - z - 1) % o)]  BY <2>1, <2>3, <1>1, <1>2
    <3>2. m - o - z - 1 = (m - z - 1) - o /\ m - z - 1 >= o  BY <2>3, <1>2
    <3>3. ((m - z - 1) - o) % o = (m - z - 1) % o  BY <2>1, <3>2, <1>2, ModStep
    <3>. QED  BY <2>2, <3>1, <3>2, <3>3
  <2>4. CASE m - o <= z
    <3>1. h[m - o] = window[m - o]  BY <2>1, <2>4, <1>1
    <3>2. m - z - 1 \in 0 .. o - 1  BY <2>1, <2>4, <1>2
    <3>3. (m - z - 1) % o = m - z - 1
      <4>1. PICK x \in Nat : x = m - z - 1  BY <2>1
      <4>2. (0 * o + x) % o = x  BY <3>2, <4>1, <1>2, DivIs
      <4>3. 0 * o + x = x  BY <1>2
      <4>. QED  BY <4>1, <4>2, <4>3
    <3>4. z - o + 1 + (m - z - 1) = m - o  BY <1>2
    <3>. QED  BY <2>2, <3>1, <3>3, <3>4
  <2>. QED  BY <2>1, <2>3, <2>4, <1>2
<1>4. h = [n \in Nat |-> IF n <= Len(window) THEN window[n] ELSE h[n - o]]
  <2>1. ASSUME NEW n \in Nat PROVE h[n] = IF n <= Len(window) THEN window[n] ELSE h[n - o]
    BY <1>1, <1>2, <1>3
  <2>2. DOMAIN h = Nat /\ h = [n \in Nat |-> h[n]]  OBVIOUS
  <2>. HIDE DEF h
  <2>. QED  BY <2>1, <2>2
<1>. HIDE DEF h
<1>5. w = [n \in Nat |-> IF n <= Len(window) THEN window[n] ELSE w[n - o]]  BY <1>4
<1>6. Copied(l, o) = [n \in 1 .. Len(window) + l |-> w[n]]  BY DEF Copied
<1>. HIDE DEF w
<1>7. \A m \in 1 .. Len(window) : w[m] = window[m]  BY <1>1, <1>2, <1>5
<1>8. \A m \in Nat : m > Len(window) => w[m] = w[m - o]  BY <1>1, <1>2, <1>5
<1>9. \A m \in 1 .. z + l : Copied(l, o)[m] = w[m]  BY <1>1, <1>6
<1>10. \A m \in 1 .. z : Copied(l, o)[m] = window[m]  BY <1>1, <1>2, <1>7, <1>9
<1>11. \A m \in z + 1 .. z + l : Copied(l, o)[m] = Copied(l, o)[m - o]
  <2>. TAKE m \in z + 1 .. z + l
  <2>1. m \in 1 .. z + l /\ m - o \in 1 .. z + l /\ m \in Nat /\ m > z  BY <1>2
  <2>. QED  BY <2>1, <1>1, <1>8, <1>9
<1>. QED  BY <1>1, <1>6, <1>10, <1>11

(* What is copied is bytes, as many as were asked for.                     *)
LEMMA CopiedFits ==
  ASSUME NEW byte, window \in Seq(byte), NEW l \in Nat, NEW o \in 1 .. Len(window)
  PROVE  Copied(l, o) \in Seq(byte) /\ Len(Copied(l, o)) = Len(window) + l
<1>. DEFINE c == Copied(l, o)
<1>1. PICK z \in Nat : z = Len(window)  OBVIOUS
<1>2. /\ DOMAIN c = 1 .. z + l
      /\ \A m \in 1 .. z : c[m] = window[m]
      /\ \A m \in z + 1 .. z + l : c[m] = c[m - o]
  BY <1>1, CopiedIs
<1>3. \A m \in 1 .. z : window[m] \in byte  BY <1>1
<1>4. c = [m \in 1 .. z + l |-> c[m]]  BY <1>2 DEF Copied
<1>. HIDE DEF c
<1>. DEFINE S == {m \in Nat : m \in 1 .. z + l => c[m] \in byte /\ \A x \in 1 .. m : c[x] \in byte}
<1>5. 0 \in S  OBVIOUS
<1>6. ASSUME NEW q \in 1 .. z + l, q - 1 \in S PROVE q \in S
  <2>1. \A x \in 1 .. q - 1 : c[x] \in byte
    <3>1. CASE q = 1  BY <3>1
    <3>2. CASE q # 1
      <4>1. q - 1 \in 1 .. z + l  BY <3>2
      <4>. QED  BY <4>1, <1>6
    <3>. QED  BY <3>1, <3>2
  <2>2. c[q] \in byte
    <3>1. CASE q <= z  BY <3>1, <1>2, <1>3
    <3>2. CASE q > z
      <4>1. q - o \in 1 .. q - 1 /\ q \in z + 1 .. z + l  BY <3>2, <1>1
      <4>. QED  BY <4>1, <2>1, <1>2
    <3>. QED  BY <3>1, <3>2
  <2>3. \A x \in 1 .. q : x \in 1 .. q - 1 \/ x = q  OBVIOUS
  <2>. QED  BY <2>1, <2>2, <2>3
<1>. HIDE DEF S
<1>7. 0 .. z + l \subseteq S
  <2>1. z + l \in Nat  OBVIOUS
  <2>. QED  BY <2>1, <1>5, <1>6, StepByStep
<1>8. \A m \in 1 .. z + l : c[m] \in byte
  <2>. TAKE m \in 1 .. z + l
  <2>1. m \in S  BY <1>7
  <2>. QED  BY <2>1 DEF S
<1>9. c \in [1 .. z + l -> byte]  BY <1>4, <1>8
<1>10. c \in Seq(byte) /\ Len(c) = z + l  BY <1>9, SeqDef, LenProperties
<1>. QED  BY <1>1, <1>10 DEF c

(* Where a match is what it says, copying it makes the data.               *)
LEMMA CopiedRemakes ==
  ASSUME NEW byte, window \in Seq(byte), data \in Seq(byte), NEW l \in Nat,
         NEW o \in 1 .. Len(window), Len(window) + l <= Len(data),
         window = SubSeq(data, 1, Len(window)), Matches(Len(window), l, o)
  PROVE  Copied(l, o) = SubSeq(data, 1, Len(window) + l)
<1>. DEFINE c == Copied(l, o)
<1>0. Len(window) \in Nat  OBVIOUS
<1>1. PICK z \in Nat : z = Len(window)  BY <1>0
<1>2. /\ DOMAIN c = 1 .. z + l
      /\ \A m \in 1 .. z : c[m] = window[m]
      /\ \A m \in z + 1 .. z + l : c[m] = c[m - o]
  BY <1>1, CopiedIs
<1>3. c \in Seq(byte) /\ Len(c) = z + l  BY <1>1, CopiedFits
<1>4. \A m \in 1 .. z : window[m] = data[m]
  <2>1. \A m \in 1 .. z : SubSeq(data, 1, z)[m] = data[1 + m - 1]  BY <1>1
  <2>. QED  BY <2>1, <1>1
<1>. HIDE DEF c
<1>. DEFINE S == {m \in Nat : m \in 1 .. z + l => c[m] = data[m] /\ \A x \in 1 .. m : c[x] = data[x]}
<1>5. 0 \in S  OBVIOUS
<1>6. ASSUME NEW q \in 1 .. z + l, q - 1 \in S PROVE q \in S
  <2>1. \A x \in 1 .. q - 1 : c[x] = data[x]
    <3>1. CASE q = 1  BY <3>1
    <3>2. CASE q # 1
      <4>1. q - 1 \in 1 .. z + l  BY <3>2
      <4>. QED  BY <4>1, <1>6
    <3>. QED  BY <3>1, <3>2
  <2>2. c[q] = data[q]
    <3>1. CASE q <= z  BY <3>1, <1>2, <1>4
    <3>2. CASE q > z
      <4>1. q - o \in 1 .. q - 1 /\ q \in z + 1 .. z + l  BY <3>2, <1>1
      <4>2. q - z \in 1 .. l /\ z + (q - z) = q  BY <4>1
      <4>3. data[z + (q - z)] = data[z + (q - z) - o]  BY <4>2, <1>1 DEF Matches
      <4>4. z + (q - z) - o = q - o  BY <4>2, <1>1
      <4>. QED  BY <4>1, <4>2, <4>3, <4>4, <2>1, <1>2
    <3>. QED  BY <3>1, <3>2
  <2>3. \A x \in 1 .. q : x \in 1 .. q - 1 \/ x = q  OBVIOUS
  <2>. QED  BY <2>1, <2>2, <2>3
<1>. HIDE DEF S
<1>7. 0 .. z + l \subseteq S
  <2>1. z + l \in Nat  OBVIOUS
  <2>. QED  BY <2>1, <1>5, <1>6, StepByStep
<1>8. \A m \in 1 .. z + l : c[m] = data[m]
  <2>. TAKE m \in 1 .. z + l
  <2>1. m \in S  BY <1>7
  <2>. QED  BY <2>1 DEF S
<1>9. /\ SubSeq(data, 1, z + l) \in Seq(byte) /\ Len(SubSeq(data, 1, z + l)) = z + l
      /\ \A m \in 1 .. z + l : SubSeq(data, 1, z + l)[m] = data[1 + m - 1]
  BY <1>1
<1>10. c = SubSeq(data, 1, z + l)  BY <1>3, <1>8, <1>9, SeqEqual
<1>. QED  BY <1>1, <1>10 DEF c

-----------------------------------------------------------------------------
(* The symbols of the main tree.                                           *)
LEMMA MainCodes ==
  /\ mainCodeCount \in Nat /\ Literals \in Nat \ {0} /\ Short + 1 \in Nat \ {0} /\ Short \in Nat
  /\ mainCodeCount = Literals + MainSlots * (Short + 1) /\ MainSlots \in Nat /\ MainSlots >= 3
<1>1. Literals \in Nat \ {0} /\ Short \in Nat /\ MainSlots \in Nat /\ MainSlots >= 3
  BY TokenAssumption, Zenon
<1>2. Short + 1 \in Nat \ {0} /\ MainSlots * (Short + 1) \in Nat  BY <1>1
<1>. QED  BY <1>1, <1>2 DEF mainCodeCount

LEMMA Footers ==
  ASSUME NEW slot \in -1 .. MainSlots
  PROVE  FooterOf(slot) \in Nat /\ (slot < 3 => FooterOf(slot) = 0)
<1>1. footerBits \in [1 .. MainSlots + 1 -> Nat] /\ \A s \in 1 .. 3 : footerBits[s] = 0
  BY TokenAssumption, Zenon
<1>. QED  BY <1>1, MainCodes DEF FooterOf

(* What a token is, as numbers.                                            *)
LEMMA TokenIs ==
  ASSUME NEW t, IsToken(t)
  PROVE  /\ t.sym \in Nat /\ t.slot \in -1 .. MainSlots - 1 /\ t.extra \in Nat
         /\ t.sym < Literals <=> t.slot = -1
         /\ t.sym >= Literals => t.slot = (t.sym - Literals) \div (Short + 1)
         /\ FooterOf(t.slot) \in Nat /\ t.extra < 2 ^ FooterOf(t.slot)
         /\ t.slot < 3 => FooterOf(t.slot) = 0 /\ t.extra = 0
<1>1. t.sym \in Nat /\ t.sym < mainCodeCount /\ t.slot = SlotOf(t.sym)
  BY MainCodes DEF IsToken
<1>2. t.sym < Literals => t.slot = -1  BY <1>1 DEF SlotOf
<1>3. ASSUME t.sym >= Literals
      PROVE  t.slot = (t.sym - Literals) \div (Short + 1) /\ t.slot \in 0 .. MainSlots - 1
  <2>1. t.slot = (t.sym - Literals) \div (Short + 1)  BY <1>1, <1>3, MainCodes DEF SlotOf
  <2>2. PICK x \in Nat : x = t.sym - Literals  BY <1>1, <1>3, MainCodes
  <2>3. PICK c \in Nat \ {0} : c = Short + 1  BY MainCodes
  <2>4. x < MainSlots * c  BY <1>1, <2>2, <2>3, MainCodes
  <2>5. x \div c \in Nat /\ x = (x \div c) * c + (x % c) /\ x % c \in 0 .. c - 1
    BY DivBounds
  <2>6. PICK q \in Nat : q = x \div c  BY <2>5
  <2>7. q * c < MainSlots * c
    <3>1. PICK r \in Nat : r = x % c  BY <2>5
    <3>2. x = q * c + r  BY <2>5, <2>6, <3>1
    <3>3. q * c \in Nat /\ MainSlots * c \in Nat  BY MainCodes
    <3>. QED  BY <2>4, <3>2, <3>3
  <2>8. q < MainSlots
    <3>. SUFFICES ASSUME q >= MainSlots PROVE FALSE  BY MainCodes
    <3>1. PICK d \in Nat : q = MainSlots + d
      <4>1. q - MainSlots \in Nat /\ q = MainSlots + (q - MainSlots)  BY MainCodes
      <4>. QED  BY <4>1
    <3>2. q * c = MainSlots * c + d * c /\ d * c \in Nat /\ MainSlots * c \in Nat
      BY <3>1, MainCodes
    <3>. QED  BY <2>7, <3>2
  <2>. QED  BY <2>1, <2>2, <2>3, <2>6, <2>8, MainCodes
<1>4. t.slot \in -1 .. MainSlots - 1  BY <1>1, <1>2, <1>3, MainCodes
<1>5. FooterOf(t.slot) \in Nat /\ (t.slot < 3 => FooterOf(t.slot) = 0)
  <2>1. t.slot \in -1 .. MainSlots  BY <1>4, MainCodes
  <2>. QED  BY <2>1, Footers
<1>6. 2 ^ FooterOf(t.slot) \in Nat \ {0}  BY <1>5, PowerIs
<1>7. t.extra \in Nat /\ t.extra < 2 ^ FooterOf(t.slot)
  <2>1. t.extra \in 0 .. 2 ^ FooterOf(t.slot) - 1  BY DEF IsToken
  <2>2. PICK m \in Nat \ {0} : m = 2 ^ FooterOf(t.slot)  BY <1>6
  <2>. QED  BY <2>1, <2>2
<1>8. ASSUME t.slot < 3 PROVE FooterOf(t.slot) = 0 /\ t.extra = 0
  <2>2. FooterOf(t.slot) = 0  BY <1>5, <1>8
  <2>3. 2 ^ FooterOf(t.slot) = 1  BY <2>2, PowerOfZero
  <2>. QED  BY <1>7, <2>2, <2>3
<1>. QED  BY <1>1, <1>2, <1>3, <1>4, <1>5, <1>7, <1>8, MainCodes

-----------------------------------------------------------------------------
(* Its elements, and what is read of them.                                 *)

(* The elements of a token: its symbol, a length if the symbol does not    *)
(* say it, and the bits of its slot, of which the last may be coded.       *)
ByAligned(t) == aligned /\ FooterOf(t.slot) >= AlignedBits
MainPart(t) == <<"main", t.sym>>
LengthPart(t) == <<"length", t.lenSym>>
BitsPart(t) == <<"bits", t.extra, FooterOf(t.slot)>>
HighPart(t) == <<"bits", t.extra \div 2 ^ AlignedBits, FooterOf(t.slot) - AlignedBits>>
LowPart(t) == <<"aligned", t.extra % 2 ^ AlignedBits>>

Plainly(t) == t.lenSym < 0 /\ FooterOf(t.slot) = 0
Longly(t) == t.lenSym >= 0 /\ FooterOf(t.slot) = 0
Far(t) == t.lenSym < 0 /\ FooterOf(t.slot) # 0 /\ ~ByAligned(t)
LonglyFar(t) == t.lenSym >= 0 /\ FooterOf(t.slot) # 0 /\ ~ByAligned(t)
Split(t) == t.lenSym < 0 /\ FooterOf(t.slot) # 0 /\ ByAligned(t)
LonglySplit(t) == t.lenSym >= 0 /\ FooterOf(t.slot) # 0 /\ ByAligned(t)

LEMMA LenSymIs ==
  ASSUME NEW t, IsToken(t)
  PROVE  t.lenSym \in -1 .. lenCodeCount - 1 /\ lenCodeCount \in Nat /\ t.lenSym \in Int
<1>1. lenCodeCount \in Nat  BY TokenAssumption, Zenon
<1>2. t.lenSym \in -1 .. lenCodeCount - 1  BY Zenon DEF IsToken
<1>. QED  BY <1>1, <1>2

(* Sequences of up to four that are joined of shorter ones.                *)
LEMMA JoinNothing ==
  ASSUME NEW T, NEW s \in Seq(T)
  PROVE  s \o <<>> = s
BY ConcatEmptySeq

LEMMA JoinTwo ==
  ASSUME NEW m, NEW l
  PROVE  <<m>> \o <<l>> = <<m, l>>
<1>. DEFINE T == {m, l}
            c == <<m>> \o <<l>>
<1>1. <<m>> \in Seq(T) /\ <<l>> \in Seq(T) /\ <<m, l>> \in Seq(T)  OBVIOUS
<1>. HIDE DEF T
<1>2. c \in Seq(T) /\ Len(c) = 2 /\ c[1] = m /\ c[2] = l
  BY <1>1, ConcatProperties
<1>. HIDE DEF c
<1>3. \A k \in 1 .. 2 : c[k] = <<m, l>>[k]  BY <1>2
<1>4. c = <<m, l>>  BY <1>1, <1>2, <1>3, SeqEqual
<1>. QED  BY <1>4 DEF c

LEMMA JoinLast ==
  ASSUME NEW m, NEW l, NEW v
  PROVE  <<m, l>> \o <<v>> = <<m, l, v>>
<1>. DEFINE T == {m, l, v}
            c == <<m, l>> \o <<v>>
<1>1. <<m, l>> \in Seq(T) /\ <<v>> \in Seq(T) /\ <<m, l, v>> \in Seq(T)  OBVIOUS
<1>. HIDE DEF T
<1>2. c \in Seq(T) /\ Len(c) = 3 /\ c[1] = m /\ c[2] = l /\ c[3] = v
  BY <1>1, ConcatProperties
<1>. HIDE DEF c
<1>3. \A k \in 1 .. 3 : c[k] = <<m, l, v>>[k]  BY <1>2
<1>4. c = <<m, l, v>>  BY <1>1, <1>2, <1>3, SeqEqual
<1>. QED  BY <1>4 DEF c

LEMMA JoinPair ==
  ASSUME NEW m, NEW v, NEW a
  PROVE  <<m>> \o <<v, a>> = <<m, v, a>>
<1>. DEFINE T == {m, v, a}
            c == <<m>> \o <<v, a>>
<1>1. <<m>> \in Seq(T) /\ <<v, a>> \in Seq(T) /\ <<m, v, a>> \in Seq(T)  OBVIOUS
<1>. HIDE DEF T
<1>2. c \in Seq(T) /\ Len(c) = 3 /\ c[1] = m /\ c[2] = v /\ c[3] = a
  BY <1>1, ConcatProperties
<1>. HIDE DEF c
<1>3. \A k \in 1 .. 3 : c[k] = <<m, v, a>>[k]  BY <1>2
<1>4. c = <<m, v, a>>  BY <1>1, <1>2, <1>3, SeqEqual
<1>. QED  BY <1>4 DEF c

LEMMA JoinPairs ==
  ASSUME NEW m, NEW l, NEW v, NEW a
  PROVE  <<m, l>> \o <<v, a>> = <<m, l, v, a>>
<1>. DEFINE T == {m, l, v, a}
            c == <<m, l>> \o <<v, a>>
<1>1. <<m, l>> \in Seq(T) /\ <<v, a>> \in Seq(T) /\ <<m, l, v, a>> \in Seq(T)  OBVIOUS
<1>. HIDE DEF T
<1>2. c \in Seq(T) /\ Len(c) = 4 /\ c[1] = m /\ c[2] = l /\ c[3] = v /\ c[4] = a
  BY <1>1, ConcatProperties
<1>. HIDE DEF c
<1>3. \A k \in 1 .. 4 : c[k] = <<m, l, v, a>>[k]  BY <1>2
<1>4. c = <<m, l, v, a>>  BY <1>1, <1>2, <1>3, SeqEqual
<1>. QED  BY <1>4 DEF c

LEMMA KindsOfTokens ==
  ASSUME NEW t, IsToken(t)
  PROVE  \/ Plainly(t) \/ Longly(t) \/ Far(t) \/ LonglyFar(t) \/ Split(t) \/ LonglySplit(t)
<1>1. t.lenSym \in Int  BY LenSymIs
<1>. QED  BY <1>1 DEF Plainly, Longly, Far, LonglyFar, Split, LonglySplit

(* The elements of each kind.                                              *)
LEMMA ElementsAre ==
  ASSUME NEW t, IsToken(t)
  PROVE  /\ Plainly(t) => Elements(t) = <<MainPart(t)>>
         /\ Longly(t) => Elements(t) = <<MainPart(t), LengthPart(t)>>
         /\ Far(t) => Elements(t) = <<MainPart(t), BitsPart(t)>>
         /\ LonglyFar(t) => Elements(t) = <<MainPart(t), LengthPart(t), BitsPart(t)>>
         /\ Split(t) => Elements(t) = <<MainPart(t), HighPart(t), LowPart(t)>>
         /\ LonglySplit(t) => Elements(t) = <<MainPart(t), LengthPart(t), HighPart(t), LowPart(t)>>
<1>. DEFINE m == MainPart(t)
            l == LengthPart(t)
            v == BitsPart(t)
            h == HighPart(t)
            a == LowPart(t)
            ls == IF t.lenSym >= 0 THEN <<l>> ELSE <<>>
            vs == IF FooterOf(t.slot) = 0 THEN <<>> ELSE IF ByAligned(t) THEN <<h, a>> ELSE <<v>>
<1>1. Elements(t) = <<m>> \o ls \o vs
  BY DEF Elements, MainPart, LengthPart, BitsPart, HighPart, LowPart, ByAligned
<1>2. t.lenSym \in Int  BY LenSymIs
<1>. HIDE DEF m, l, v, h, a
<1>0. <<m>> \in Seq({m, l}) /\ <<m, l>> \in Seq({m, l})  OBVIOUS
<1>3. CASE Plainly(t)
  <2>1. ls = <<>> /\ vs = <<>>  BY <1>2, <1>3 DEF Plainly
  <2>3. <<m>> \o <<>> = <<m>>  BY <1>0, JoinNothing
  <2>2. Elements(t) = <<m>>  BY <1>1, <2>1, <2>3
  <2>. QED  BY <1>2, <1>3, <2>2 DEF Plainly, Longly, Far, LonglyFar, Split, LonglySplit, m
<1>4. CASE Longly(t)
  <2>1. ls = <<l>> /\ vs = <<>>  BY <1>2, <1>4 DEF Longly
  <2>3. <<m>> \o <<l>> = <<m, l>> /\ <<m, l>> \o <<>> = <<m, l>>  BY <1>0, JoinNothing, JoinTwo
  <2>2. Elements(t) = <<m, l>>  BY <1>1, <2>1, <2>3
  <2>. QED  BY <1>2, <1>4, <2>2 DEF Plainly, Longly, Far, LonglyFar, Split, LonglySplit, m, l
<1>5. CASE Far(t)
  <2>1. ls = <<>> /\ vs = <<v>>  BY <1>2, <1>5 DEF Far
  <2>3. <<m>> \o <<>> = <<m>> /\ <<m>> \o <<v>> = <<m, v>>  BY <1>0, JoinNothing, JoinTwo
  <2>2. Elements(t) = <<m, v>>  BY <1>1, <2>1, <2>3
  <2>. QED  BY <1>2, <1>5, <2>2 DEF Plainly, Longly, Far, LonglyFar, Split, LonglySplit, m, v
<1>6. CASE LonglyFar(t)
  <2>1. ls = <<l>> /\ vs = <<v>>  BY <1>2, <1>6 DEF LonglyFar
  <2>3. <<m>> \o <<l>> = <<m, l>> /\ <<m, l>> \o <<v>> = <<m, l, v>>  BY JoinTwo, JoinLast
  <2>2. Elements(t) = <<m, l, v>>  BY <1>1, <2>1, <2>3
  <2>. QED  BY <1>2, <1>6, <2>2 DEF Plainly, Longly, Far, LonglyFar, Split, LonglySplit, m, l, v
<1>7. CASE Split(t)
  <2>1. ls = <<>> /\ vs = <<h, a>>  BY <1>2, <1>7 DEF Split
  <2>3. <<m>> \o <<>> = <<m>> /\ <<m>> \o <<h, a>> = <<m, h, a>>  BY <1>0, JoinNothing, JoinPair
  <2>2. Elements(t) = <<m, h, a>>  BY <1>1, <2>1, <2>3
  <2>. QED  BY <1>2, <1>7, <2>2 DEF Plainly, Longly, Far, LonglyFar, Split, LonglySplit, m, h, a
<1>8. CASE LonglySplit(t)
  <2>1. ls = <<l>> /\ vs = <<h, a>>  BY <1>2, <1>8 DEF LonglySplit
  <2>3. <<m>> \o <<l>> = <<m, l>> /\ <<m, l>> \o <<h, a>> = <<m, l, h, a>>  BY JoinTwo, JoinPairs
  <2>2. Elements(t) = <<m, l, h, a>>  BY <1>1, <2>1, <2>3
  <2>. QED  BY <1>2, <1>8, <2>2 DEF Plainly, Longly, Far, LonglyFar, Split, LonglySplit, m, l, h, a
<1>. QED  BY <1>3, <1>4, <1>5, <1>6, <1>7, <1>8, KindsOfTokens

(* The value that is read of a tree, if there is one element of it, or     *)
(* none.                                                                   *)
LEMMA ValueAt ==
  ASSUME NEW tree, NEW at \in Nat, at \in DOMAIN emitted, emitted[at][1] = tree,
         \A k \in DOMAIN emitted : k # at => emitted[k][1] # tree
  PROVE  ValueOf(tree) = emitted[at][2]
<1>1. {k \in DOMAIN emitted : emitted[k][1] = tree} = {at}  OBVIOUS
<1>2. Least({at}) = at  BY LeastOfOne
<1>3. {k \in DOMAIN emitted : emitted[k][1] = tree} # {}  BY <1>1
<1>. QED  BY <1>1, <1>2, <1>3 DEF ValueOf

LEMMA ValueNone ==
  ASSUME NEW tree, \A k \in DOMAIN emitted : emitted[k][1] # tree
  PROVE  ValueOf(tree) = 0
<1>1. {k \in DOMAIN emitted : emitted[k][1] = tree} = {}  OBVIOUS
<1>. QED  BY <1>1 DEF ValueOf

AlignedThere == \E k \in DOMAIN emitted : emitted[k][1] = "aligned"

(* What is read of them, by the kind of the token.                         *)
Reading(t, len, bits, low, there) ==
  /\ emitted # <<>> /\ emitted[1][1] = "main" /\ Symbol = t.sym
  /\ ValueOf("length") = len /\ ValueOf("bits") = bits /\ ValueOf("aligned") = low
  /\ AlignedThere <=> there

(* What is read of the elements of each kind.                              *)
LEMMA ReadPlainly ==
  ASSUME NEW t, emitted = <<MainPart(t)>>
  PROVE  Reading(t, 0, 0, 0, FALSE) /\ Shape(emitted) = <<<<"main">>>>
<1>. USE DEF MainPart
<1>1. DOMAIN emitted = 1 .. 1 /\ emitted[1] = <<"main", t.sym>>  OBVIOUS
<1>2. \A k \in DOMAIN emitted : emitted[k][1] = "main"  BY <1>1
<1>3. ValueOf("length") = 0 /\ ValueOf("bits") = 0 /\ ValueOf("aligned") = 0
  BY <1>2, ValueNone
<1>. QED  BY <1>1, <1>2, <1>3 DEF Reading, AlignedThere, Symbol, Shape

LEMMA ReadLongly ==
  ASSUME NEW t, emitted = <<MainPart(t), LengthPart(t)>>
  PROVE  Reading(t, t.lenSym, 0, 0, FALSE) /\ Shape(emitted) = <<<<"main">>, <<"length">>>>
<1>. USE DEF MainPart, LengthPart
<1>1. DOMAIN emitted = 1 .. 2 /\ emitted[1] = <<"main", t.sym>> /\ emitted[2] = <<"length", t.lenSym>>
  OBVIOUS
<1>2. \A k \in DOMAIN emitted : k = 1 \/ k = 2  BY <1>1
<1>3. ValueOf("bits") = 0 /\ ValueOf("aligned") = 0  BY <1>1, <1>2, ValueNone
<1>4. ValueOf("length") = t.lenSym  BY <1>1, <1>2, ValueAt
<1>. QED  BY <1>1, <1>2, <1>3, <1>4 DEF Reading, AlignedThere, Symbol, Shape

LEMMA ReadFar ==
  ASSUME NEW t, emitted = <<MainPart(t), BitsPart(t)>>
  PROVE  /\ Reading(t, 0, t.extra, 0, FALSE)
         /\ Shape(emitted) = <<<<"main">>, <<"bits", FooterOf(t.slot)>>>>
<1>. USE DEF MainPart, BitsPart
<1>1. /\ DOMAIN emitted = 1 .. 2
      /\ emitted[1] = <<"main", t.sym>>
      /\ emitted[2] = <<"bits", t.extra, FooterOf(t.slot)>>
  OBVIOUS
<1>2. \A k \in DOMAIN emitted : k = 1 \/ k = 2  BY <1>1
<1>3. ValueOf("length") = 0  BY <1>1, <1>2, ValueNone
<1>4. ValueOf("bits") = emitted[2][2]
  <2>1. emitted[2][1] = "bits" /\ 2 \in DOMAIN emitted /\ 2 \in Nat  BY <1>1
  <2>2. \A k \in DOMAIN emitted : k # 2 => emitted[k][1] # "bits"  BY <1>1, <1>2
  <2>. QED  BY <2>1, <2>2, ValueAt
<1>5. ValueOf("aligned") = 0  BY <1>1, <1>2, ValueNone
<1>6. Reading(t, 0, t.extra, 0, FALSE)
  BY <1>1, <1>2, <1>3, <1>4, <1>5 DEF Reading, AlignedThere, Symbol
<1>7. Shape(emitted) = <<<<"main">>, <<"bits", FooterOf(t.slot)>>>>
  BY <1>1, <1>2 DEF Shape
<1>. QED  BY <1>6, <1>7

LEMMA ReadLonglyFar ==
  ASSUME NEW t, emitted = <<MainPart(t), LengthPart(t), BitsPart(t)>>
  PROVE  /\ Reading(t, t.lenSym, t.extra, 0, FALSE)
         /\ Shape(emitted) = <<<<"main">>, <<"length">>, <<"bits", FooterOf(t.slot)>>>>
<1>. USE DEF MainPart, LengthPart, BitsPart
<1>1. /\ DOMAIN emitted = 1 .. 3
      /\ emitted[1] = <<"main", t.sym>>
      /\ emitted[2] = <<"length", t.lenSym>>
      /\ emitted[3] = <<"bits", t.extra, FooterOf(t.slot)>>
  OBVIOUS
<1>2. \A k \in DOMAIN emitted : k = 1 \/ k = 2 \/ k = 3  BY <1>1
<1>3. ValueOf("length") = emitted[2][2]
  <2>1. emitted[2][1] = "length" /\ 2 \in DOMAIN emitted /\ 2 \in Nat  BY <1>1
  <2>2. \A k \in DOMAIN emitted : k # 2 => emitted[k][1] # "length"  BY <1>1, <1>2
  <2>. QED  BY <2>1, <2>2, ValueAt
<1>4. ValueOf("bits") = emitted[3][2]
  <2>1. emitted[3][1] = "bits" /\ 3 \in DOMAIN emitted /\ 3 \in Nat  BY <1>1
  <2>2. \A k \in DOMAIN emitted : k # 3 => emitted[k][1] # "bits"  BY <1>1, <1>2
  <2>. QED  BY <2>1, <2>2, ValueAt
<1>5. ValueOf("aligned") = 0  BY <1>1, <1>2, ValueNone
<1>6. Reading(t, t.lenSym, t.extra, 0, FALSE)
  BY <1>1, <1>2, <1>3, <1>4, <1>5 DEF Reading, AlignedThere, Symbol
<1>7. Shape(emitted) = <<<<"main">>, <<"length">>, <<"bits", FooterOf(t.slot)>>>>
  BY <1>1, <1>2 DEF Shape
<1>. QED  BY <1>6, <1>7

LEMMA ReadSplit ==
  ASSUME NEW t, emitted = <<MainPart(t), HighPart(t), LowPart(t)>>
  PROVE  /\ Reading(t, 0, t.extra \div 2 ^ AlignedBits, t.extra % 2 ^ AlignedBits, TRUE)
         /\ Shape(emitted) = <<<<"main">>, <<"bits", FooterOf(t.slot) - AlignedBits>>, <<"aligned">>>>
<1>. USE DEF MainPart, HighPart, LowPart
<1>1. /\ DOMAIN emitted = 1 .. 3
      /\ emitted[1] = <<"main", t.sym>>
      /\ emitted[2] = <<"bits", t.extra \div 2 ^ AlignedBits, FooterOf(t.slot) - AlignedBits>>
      /\ emitted[3] = <<"aligned", t.extra % 2 ^ AlignedBits>>
  OBVIOUS
<1>2. \A k \in DOMAIN emitted : k = 1 \/ k = 2 \/ k = 3  BY <1>1
<1>3. ValueOf("length") = 0  BY <1>1, <1>2, ValueNone
<1>4. ValueOf("bits") = emitted[2][2]
  <2>1. emitted[2][1] = "bits" /\ 2 \in DOMAIN emitted /\ 2 \in Nat  BY <1>1
  <2>2. \A k \in DOMAIN emitted : k # 2 => emitted[k][1] # "bits"  BY <1>1, <1>2
  <2>. QED  BY <2>1, <2>2, ValueAt
<1>5. ValueOf("aligned") = emitted[3][2]
  <2>1. emitted[3][1] = "aligned" /\ 3 \in DOMAIN emitted /\ 3 \in Nat  BY <1>1
  <2>2. \A k \in DOMAIN emitted : k # 3 => emitted[k][1] # "aligned"  BY <1>1, <1>2
  <2>. QED  BY <2>1, <2>2, ValueAt
<1>6. Reading(t, 0, t.extra \div 2 ^ AlignedBits, t.extra % 2 ^ AlignedBits, TRUE)
  BY <1>1, <1>2, <1>3, <1>4, <1>5 DEF Reading, AlignedThere, Symbol
<1>7. Shape(emitted) = <<<<"main">>, <<"bits", FooterOf(t.slot) - AlignedBits>>, <<"aligned">>>>
  BY <1>1, <1>2 DEF Shape
<1>. QED  BY <1>6, <1>7

LEMMA ReadLonglySplit ==
  ASSUME NEW t, emitted = <<MainPart(t), LengthPart(t), HighPart(t), LowPart(t)>>
  PROVE  /\ Reading(t, t.lenSym, t.extra \div 2 ^ AlignedBits, t.extra % 2 ^ AlignedBits, TRUE)
         /\ Shape(emitted) = <<<<"main">>, <<"length">>, <<"bits", FooterOf(t.slot) - AlignedBits>>, <<"aligned">>>>
<1>. USE DEF MainPart, LengthPart, HighPart, LowPart
<1>1. /\ DOMAIN emitted = 1 .. 4
      /\ emitted[1] = <<"main", t.sym>>
      /\ emitted[2] = <<"length", t.lenSym>>
      /\ emitted[3] = <<"bits", t.extra \div 2 ^ AlignedBits, FooterOf(t.slot) - AlignedBits>>
      /\ emitted[4] = <<"aligned", t.extra % 2 ^ AlignedBits>>
  OBVIOUS
<1>2. \A k \in DOMAIN emitted : k = 1 \/ k = 2 \/ k = 3 \/ k = 4  BY <1>1
<1>3. ValueOf("length") = emitted[2][2]
  <2>1. emitted[2][1] = "length" /\ 2 \in DOMAIN emitted /\ 2 \in Nat  BY <1>1
  <2>2. \A k \in DOMAIN emitted : k # 2 => emitted[k][1] # "length"  BY <1>1, <1>2
  <2>. QED  BY <2>1, <2>2, ValueAt
<1>4. ValueOf("bits") = emitted[3][2]
  <2>1. emitted[3][1] = "bits" /\ 3 \in DOMAIN emitted /\ 3 \in Nat  BY <1>1
  <2>2. \A k \in DOMAIN emitted : k # 3 => emitted[k][1] # "bits"  BY <1>1, <1>2
  <2>. QED  BY <2>1, <2>2, ValueAt
<1>5. ValueOf("aligned") = emitted[4][2]
  <2>1. emitted[4][1] = "aligned" /\ 4 \in DOMAIN emitted /\ 4 \in Nat  BY <1>1
  <2>2. \A k \in DOMAIN emitted : k # 4 => emitted[k][1] # "aligned"  BY <1>1, <1>2
  <2>. QED  BY <2>1, <2>2, ValueAt
<1>6. Reading(t, t.lenSym, t.extra \div 2 ^ AlignedBits, t.extra % 2 ^ AlignedBits, TRUE)
  BY <1>1, <1>2, <1>3, <1>4, <1>5 DEF Reading, AlignedThere, Symbol
<1>7. Shape(emitted) = <<<<"main">>, <<"length">>, <<"bits", FooterOf(t.slot) - AlignedBits>>, <<"aligned">>>>
  BY <1>1, <1>2 DEF Shape
<1>. QED  BY <1>6, <1>7

(* The decoder asks for as much as a token of the kind has.                *)
LEMMA AskedIs ==
  ASSUME NEW t, IsToken(t), Symbol = t.sym, t.sym >= Literals
  PROVE  /\ SlotOfSymbol = t.slot
         /\ Plainly(t) => Asked = <<<<"main">>>>
         /\ Longly(t) => Asked = <<<<"main">>, <<"length">>>>
         /\ Far(t) => Asked = <<<<"main">>, <<"bits", FooterOf(t.slot)>>>>
         /\ LonglyFar(t) => Asked = <<<<"main">>, <<"length">>, <<"bits", FooterOf(t.slot)>>>>
         /\ Split(t) => Asked = <<<<"main">>, <<"bits", FooterOf(t.slot) - AlignedBits>>, <<"aligned">>>>
         /\ LonglySplit(t) =>
              Asked = <<<<"main">>, <<"length">>, <<"bits", FooterOf(t.slot) - AlignedBits>>, <<"aligned">>>>
<1>. DEFINE m == <<"main">>
            l == <<"length">>
            v == <<"bits", FooterOf(t.slot)>>
            h == <<"bits", FooterOf(t.slot) - AlignedBits>>
            a == <<"aligned">>
            ls == IF ShortOfSymbol = Short THEN <<l>> ELSE <<>>
            bits == IF SlotOfSymbol < 3 THEN 0 ELSE FooterOf(SlotOfSymbol)
            vs == IF bits = 0 THEN <<>>
                  ELSE IF aligned /\ bits >= AlignedBits THEN <<<<"bits", bits - AlignedBits>>, a>>
                  ELSE <<<<"bits", bits>>>>
<1>1. SlotOfSymbol = t.slot /\ t.slot \in 0 .. MainSlots - 1
  <2>1. t.slot = (t.sym - Literals) \div (Short + 1) /\ t.slot \in -1 .. MainSlots - 1
        /\ t.slot # -1
    BY TokenIs, MainCodes
  <2>. QED  BY <2>1, MainCodes DEF SlotOfSymbol
<1>2. bits = FooterOf(t.slot)
  <2>1. t.slot < 3 => FooterOf(t.slot) = 0  BY TokenIs
  <2>. QED  BY <1>1, <2>1
<1>3. ShortOfSymbol = Short <=> t.lenSym >= 0  BY DEF ShortOfSymbol, IsToken
<1>4. Asked = <<m>> \o ls \o vs  BY DEF Asked
<1>5. ls = IF t.lenSym >= 0 THEN <<l>> ELSE <<>>  BY <1>3
<1>. HIDE DEF ls
<1>6. vs = IF FooterOf(t.slot) = 0 THEN <<>> ELSE IF ByAligned(t) THEN <<h, a>> ELSE <<v>>
  BY <1>2 DEF ByAligned
<1>. HIDE DEF vs, m, l, v, h, a, bits
<1>7. t.lenSym \in Int  BY LenSymIs
<1>8. <<m>> \in Seq({m, l}) /\ <<m, l>> \in Seq({m, l})  OBVIOUS
<1>9. Plainly(t) => Asked = <<m>>
  <2>1. Plainly(t) => ls = <<>> /\ vs = <<>>  BY <1>5, <1>6, <1>7 DEF Plainly
  <2>2. <<m>> \o <<>> = <<m>>  BY <1>8, JoinNothing
  <2>. QED  BY <1>4, <2>1, <2>2
<1>10. Longly(t) => Asked = <<m, l>>
  <2>1. Longly(t) => ls = <<l>> /\ vs = <<>>  BY <1>5, <1>6, <1>7 DEF Longly
  <2>2. <<m>> \o <<l>> = <<m, l>> /\ <<m, l>> \o <<>> = <<m, l>>  BY <1>8, JoinTwo, JoinNothing
  <2>. QED  BY <1>4, <2>1, <2>2
<1>11. Far(t) => Asked = <<m, v>>
  <2>1. Far(t) => ls = <<>> /\ vs = <<v>>  BY <1>5, <1>6, <1>7 DEF Far
  <2>2. <<m>> \o <<>> = <<m>> /\ <<m>> \o <<v>> = <<m, v>>  BY <1>8, JoinTwo, JoinNothing
  <2>. QED  BY <1>4, <2>1, <2>2
<1>12. LonglyFar(t) => Asked = <<m, l, v>>
  <2>1. LonglyFar(t) => ls = <<l>> /\ vs = <<v>>  BY <1>5, <1>6, <1>7 DEF LonglyFar
  <2>2. <<m>> \o <<l>> = <<m, l>> /\ <<m, l>> \o <<v>> = <<m, l, v>>  BY JoinTwo, JoinLast
  <2>. QED  BY <1>4, <2>1, <2>2
<1>13. Split(t) => Asked = <<m, h, a>>
  <2>1. Split(t) => ls = <<>> /\ vs = <<h, a>>  BY <1>5, <1>6, <1>7 DEF Split
  <2>2. <<m>> \o <<>> = <<m>> /\ <<m>> \o <<h, a>> = <<m, h, a>>  BY <1>8, JoinPair, JoinNothing
  <2>. QED  BY <1>4, <2>1, <2>2
<1>14. LonglySplit(t) => Asked = <<m, l, h, a>>
  <2>1. LonglySplit(t) => ls = <<l>> /\ vs = <<h, a>>  BY <1>5, <1>6, <1>7 DEF LonglySplit
  <2>2. <<m>> \o <<l>> = <<m, l>> /\ <<m, l>> \o <<h, a>> = <<m, l, h, a>>  BY JoinTwo, JoinPairs
  <2>. QED  BY <1>4, <2>1, <2>2
<1>. QED  BY <1>1, <1>9, <1>10, <1>11, <1>12, <1>13, <1>14 DEF m, l, v, h, a

(* The high and the low part of what is below the base of a slot.          *)
LEMMA SplitIs ==
  ASSUME NEW t, IsToken(t), ByAligned(t)
  PROVE  /\ t.extra \div 2 ^ AlignedBits \in 0 .. 2 ^ (FooterOf(t.slot) - AlignedBits) - 1
         /\ t.extra % 2 ^ AlignedBits \in 0 .. 2 ^ AlignedBits - 1
         /\ t.extra = (t.extra \div 2 ^ AlignedBits) * 2 ^ AlignedBits + (t.extra % 2 ^ AlignedBits)
<1>0. AlignedBits \in Nat  BY TokenAssumption, Zenon
<1>1. PICK x \in Nat : x = t.extra  BY TokenIs
<1>2. PICK c \in Nat \ {0} : c = 2 ^ AlignedBits  BY <1>0, PowerIs
<1>3. PICK f \in Nat : f = FooterOf(t.slot)  BY TokenIs
<1>4. PICK d \in Nat : d = f - AlignedBits /\ f = d + AlignedBits
  <2>1. f >= AlignedBits  BY <1>3 DEF ByAligned
  <2>2. f - AlignedBits \in Nat /\ f = (f - AlignedBits) + AlignedBits  BY <2>1, <1>0
  <2>. QED  BY <2>2
<1>5. PICK p \in Nat \ {0} : p = 2 ^ d  BY PowerIs
<1>6. 2 ^ f = p * c  BY <1>0, <1>2, <1>4, <1>5, PowerOfSum
<1>7. x < p * c  BY <1>1, <1>3, <1>6, TokenIs
<1>8. x \div c \in Nat /\ x % c \in 0 .. c - 1 /\ x = (x \div c) * c + (x % c)  BY DivBounds
<1>9. x \div c < p
  <2>1. PICK q \in Nat : q = x \div c  BY <1>8
  <2>2. PICK r \in Nat : r = x % c  BY <1>8
  <2>3. x = q * c + r  BY <1>8, <2>1, <2>2
  <2>. SUFFICES ASSUME q >= p PROVE FALSE  BY <2>1
  <2>4. PICK e \in Nat : q = p + e
    <3>1. q - p \in Nat /\ q = p + (q - p)  OBVIOUS
    <3>. QED  BY <3>1
  <2>5. q * c = p * c + e * c /\ e * c \in Nat /\ p * c \in Nat  BY <2>4
  <2>. QED  BY <1>7, <2>3, <2>5
<1>10. x \div c \in 0 .. p - 1  BY <1>8, <1>9
<1>. QED  BY <1>1, <1>2, <1>3, <1>4, <1>5, <1>8, <1>10

(* Whatever token is written, the decoder asks for what is there and reads *)
(* what it says.                                                           *)
LEMMA TokenReads ==
  ASSUME NEW t, IsToken(t), emitted = Elements(t)
  PROVE  /\ emitted # <<>> /\ emitted[1][1] = "main" /\ Symbol = t.sym
         /\ ValueOf("length") = IF t.lenSym >= 0 THEN t.lenSym ELSE 0
         /\ t.sym >= Literals => Shape(emitted) = Asked /\ SlotOfSymbol = t.slot
         /\ t.sym >= Literals /\ t.slot < 3 => OffsetRead = recentOf[t.slot + 1]
         /\ t.slot >= 3 => OffsetRead = basePosition[t.slot + 1] - minMatch + t.extra
<1>. DEFINE P == /\ emitted # <<>> /\ emitted[1][1] = "main" /\ Symbol = t.sym
                 /\ ValueOf("length") = IF t.lenSym >= 0 THEN t.lenSym ELSE 0
                 /\ t.sym >= Literals => Shape(emitted) = Asked
            factor == IF ValueOf("bits") # 0 /\ AlignedThere THEN 2 ^ AlignedBits ELSE 1
            Q == \E low, high \in Nat :
                   /\ ValueOf("aligned") = low /\ ValueOf("bits") * factor = high
                   /\ low + high = t.extra
<1>0. AlignedBits \in Nat  BY TokenAssumption, Zenon
<1>1. PICK x \in Nat : x = t.extra  BY TokenIs
<1>2. t.lenSym \in Int  BY LenSymIs
<1>3. P /\ Q
  <2>1. CASE Plainly(t)
    <3>1. Reading(t, 0, 0, 0, FALSE) /\ Shape(emitted) = <<<<"main">>>>
      BY <2>1, ElementsAre, ReadPlainly
    <3>2. FooterOf(t.slot) = 0 /\ t.lenSym < 0  BY <2>1 DEF Plainly
    <3>3. t.extra = 0
      <4>1. t.extra < 2 ^ FooterOf(t.slot)  BY TokenIs
      <4>2. 2 ^ FooterOf(t.slot) = 1  BY <3>2, PowerOfZero
      <4>. QED  BY <1>1, <4>1, <4>2
    <3>. QED  BY <1>2, <2>1, <3>1, <3>2, <3>3, AskedIs DEF Reading
  <2>2. CASE Longly(t)
    <3>1. Reading(t, t.lenSym, 0, 0, FALSE) /\ Shape(emitted) = <<<<"main">>, <<"length">>>>
      BY <2>2, ElementsAre, ReadLongly
    <3>2. FooterOf(t.slot) = 0 /\ t.lenSym >= 0  BY <2>2 DEF Longly
    <3>3. t.extra = 0
      <4>1. t.extra < 2 ^ FooterOf(t.slot)  BY TokenIs
      <4>2. 2 ^ FooterOf(t.slot) = 1  BY <3>2, PowerOfZero
      <4>. QED  BY <1>1, <4>1, <4>2
    <3>. QED  BY <1>2, <2>2, <3>1, <3>2, <3>3, AskedIs DEF Reading
  <2>3. CASE Far(t)
    <3>1. Reading(t, 0, x, 0, FALSE)
      BY <1>1, <2>3, ElementsAre, ReadFar
    <3>2. Shape(emitted) = <<<<"main">>, <<"bits", FooterOf(t.slot)>>>>
      BY <2>3, ElementsAre, ReadFar
    <3>3. t.lenSym < 0  BY <2>3 DEF Far
    <3>. QED  BY <1>1, <1>2, <2>3, <3>1, <3>2, <3>3, AskedIs DEF Reading
  <2>4. CASE LonglyFar(t)
    <3>1. Reading(t, t.lenSym, x, 0, FALSE)
      BY <1>1, <2>4, ElementsAre, ReadLonglyFar
    <3>2. Shape(emitted) = <<<<"main">>, <<"length">>, <<"bits", FooterOf(t.slot)>>>>
      BY <2>4, ElementsAre, ReadLonglyFar
    <3>3. t.lenSym >= 0  BY <2>4 DEF LonglyFar
    <3>. QED  BY <1>1, <1>2, <2>4, <3>1, <3>2, <3>3, AskedIs DEF Reading
  <2>5. ASSUME ByAligned(t)
        PROVE  \E c \in Nat \ {0}, q \in Nat, r \in Nat :
                 /\ c = 2 ^ AlignedBits /\ q = t.extra \div c /\ r = t.extra % c
                 /\ x = q * c + r
    <3>1. PICK c \in Nat \ {0} : c = 2 ^ AlignedBits  BY <1>0, PowerIs
    <3>2. x \div c \in Nat /\ x % c \in 0 .. c - 1 /\ x = (x \div c) * c + (x % c)  BY DivBounds
    <3>3. x % c \in Nat  BY <3>2
    <3>. QED  BY <1>1, <3>1, <3>2, <3>3
  <2>6. CASE Split(t)
    <3>0. ByAligned(t) /\ t.lenSym < 0  BY <2>6 DEF Split
    <3>1. PICK c \in Nat \ {0}, q \in Nat, r \in Nat :
            /\ c = 2 ^ AlignedBits /\ q = t.extra \div c /\ r = t.extra % c /\ x = q * c + r
      BY <2>5, <3>0
    <3>2. Reading(t, 0, q, r, TRUE)
      BY <2>6, <3>1, ElementsAre, ReadSplit
    <3>3. Shape(emitted) = <<<<"main">>, <<"bits", FooterOf(t.slot) - AlignedBits>>, <<"aligned">>>>
      BY <2>6, ElementsAre, ReadSplit
    <3>4. Q
      <4>1. ValueOf("aligned") = r /\ ValueOf("bits") = q /\ AlignedThere  BY <3>2 DEF Reading
      <4>2. q * (IF q # 0 THEN c ELSE 1) = q * c /\ q * c \in Nat /\ r + q * c = x  BY <3>1
      <4>. QED  BY <1>1, <3>1, <4>1, <4>2
    <3>5. P  BY <1>2, <2>6, <3>0, <3>2, <3>3, AskedIs DEF Reading
    <3>. QED  BY <3>4, <3>5
  <2>7. CASE LonglySplit(t)
    <3>0. ByAligned(t) /\ t.lenSym >= 0  BY <2>7 DEF LonglySplit
    <3>1. PICK c \in Nat \ {0}, q \in Nat, r \in Nat :
            /\ c = 2 ^ AlignedBits /\ q = t.extra \div c /\ r = t.extra % c /\ x = q * c + r
      BY <2>5, <3>0
    <3>2. Reading(t, t.lenSym, q, r, TRUE)
      BY <2>7, <3>1, ElementsAre, ReadLonglySplit
    <3>3. Shape(emitted) =
            <<<<"main">>, <<"length">>, <<"bits", FooterOf(t.slot) - AlignedBits>>, <<"aligned">>>>
      BY <2>7, ElementsAre, ReadLonglySplit
    <3>4. Q
      <4>1. ValueOf("aligned") = r /\ ValueOf("bits") = q /\ AlignedThere  BY <3>2 DEF Reading
      <4>2. q * (IF q # 0 THEN c ELSE 1) = q * c /\ q * c \in Nat /\ r + q * c = x  BY <3>1
      <4>. QED  BY <1>1, <3>1, <4>1, <4>2
    <3>5. P  BY <1>2, <2>7, <3>0, <3>2, <3>3, AskedIs DEF Reading
    <3>. QED  BY <3>4, <3>5
  <2>. HIDE DEF P, Q
  <2>. QED  BY <2>1, <2>2, <2>3, <2>4, <2>6, <2>7, KindsOfTokens
<1>4. t.slot \in -1 .. MainSlots - 1 /\ (t.sym >= Literals => SlotOfSymbol = t.slot)
  BY <1>3, TokenIs, AskedIs
<1>5. t.slot >= 3 => t.sym >= Literals
  <2>1. t.sym < Literals => t.slot = -1  BY TokenIs
  <2>2. t.sym \in Nat  BY TokenIs
  <2>. QED  BY <2>1, <2>2, MainCodes
<1>6. t.sym >= Literals /\ t.slot < 3 => OffsetRead = recentOf[t.slot + 1]
  BY <1>4 DEF OffsetRead
<1>7. ASSUME t.slot >= 3 PROVE OffsetRead = basePosition[t.slot + 1] - minMatch + t.extra
  <2>1. basePosition[t.slot + 1] \in Nat /\ minMatch \in Nat
    <3>1. basePosition \in [1 .. MainSlots + 1 -> Nat] /\ minMatch \in Nat  BY TokenAssumption, Zenon
    <3>. QED  BY <3>1, <1>4, <1>7, MainCodes
  <2>2. PICK k \in Int : k = basePosition[t.slot + 1] - minMatch  BY <2>1
  <2>3. SlotOfSymbol = t.slot /\ ~ (t.slot < 3)  BY <1>4, <1>5, <1>7
  <2>4. PICK low \in Nat, high \in Nat :
          /\ ValueOf("aligned") = low /\ ValueOf("bits") * factor = high /\ low + high = t.extra
    BY <1>3
  <2>5. OffsetRead = k + low + high
    <3>1. OffsetRead = basePosition[t.slot + 1] - minMatch + ValueOf("aligned") + ValueOf("bits") * factor
      BY <2>3 DEF OffsetRead, AlignedThere
    <3>. QED  BY <2>2, <2>4, <3>1
  <2>. QED  BY <2>2, <2>4, <2>5
<1>. QED  BY <1>3, <1>4, <1>6, <1>7

-----------------------------------------------------------------------------
(* Tokens of literals and of matches.                                      *)

(* A token is what the format can say.                                     *)
LEMMA TokenFits ==
  ASSUME NEW t, IsToken(t), emitted = Elements(t)
  PROVE  ElementsFit
<1>1. t.sym \in 0 .. mainCodeCount - 1  BY DEF IsToken
<1>2. t.lenSym >= 0 => t.lenSym \in 0 .. lenCodeCount - 1  BY LenSymIs
<1>3. t.extra \in 0 .. 2 ^ FooterOf(t.slot) - 1  BY DEF IsToken
<1>4. CASE Plainly(t)
  <2>1. emitted = <<MainPart(t)>>  BY <1>4, ElementsAre
  <2>. QED  BY <1>1, <2>1 DEF ElementsFit, MainPart
<1>5. CASE Longly(t)
  <2>1. emitted = <<MainPart(t), LengthPart(t)>> /\ t.lenSym >= 0  BY <1>5, ElementsAre DEF Longly
  <2>. QED  BY <1>1, <1>2, <2>1 DEF ElementsFit, MainPart, LengthPart
<1>6. CASE Far(t)
  <2>1. emitted = <<MainPart(t), BitsPart(t)>>  BY <1>6, ElementsAre
  <2>. QED  BY <1>1, <1>3, <2>1 DEF ElementsFit, MainPart, BitsPart
<1>7. CASE LonglyFar(t)
  <2>1. emitted = <<MainPart(t), LengthPart(t), BitsPart(t)>> /\ t.lenSym >= 0
    BY <1>7, ElementsAre DEF LonglyFar
  <2>. QED  BY <1>1, <1>2, <1>3, <2>1 DEF ElementsFit, MainPart, LengthPart, BitsPart
<1>8. CASE Split(t)
  <2>1. emitted = <<MainPart(t), HighPart(t), LowPart(t)>> /\ ByAligned(t)
    BY <1>8, ElementsAre DEF Split
  <2>2. /\ t.extra \div 2 ^ AlignedBits \in 0 .. 2 ^ (FooterOf(t.slot) - AlignedBits) - 1
        /\ t.extra % 2 ^ AlignedBits \in 0 .. 2 ^ AlignedBits - 1
    BY <2>1, SplitIs
  <2>. QED  BY <1>1, <2>1, <2>2 DEF ElementsFit, MainPart, HighPart, LowPart
<1>9. CASE LonglySplit(t)
  <2>1. emitted = <<MainPart(t), LengthPart(t), HighPart(t), LowPart(t)>> /\ ByAligned(t)
        /\ t.lenSym >= 0
    BY <1>9, ElementsAre DEF LonglySplit
  <2>2. /\ t.extra \div 2 ^ AlignedBits \in 0 .. 2 ^ (FooterOf(t.slot) - AlignedBits) - 1
        /\ t.extra % 2 ^ AlignedBits \in 0 .. 2 ^ AlignedBits - 1
    BY <2>1, SplitIs
  <2>. QED  BY <1>1, <1>2, <2>1, <2>2 DEF ElementsFit, MainPart, LengthPart, HighPart, LowPart
<1>. QED  BY <1>4, <1>5, <1>6, <1>7, <1>8, <1>9, KindsOfTokens

(* Every symbol of a token has been counted, and so has a code.            *)
LEMMA CodedIs ==
  ASSUME NEW t, IsToken(t)
  PROVE  Coded(t) = Elements(t)
<1>1. MainPart(t) \in Counted(t)  BY DEF Counted, MainPart
<1>2. t.lenSym >= 0 => LengthPart(t) \in Counted(t)
  <2>1. t.lenSym \in Int  BY LenSymIs
  <2>2. t.lenSym >= 0 => t.lenSym \in {t.lenSym} \ {-1}  BY <2>1
  <2>. QED  BY <2>2 DEF Counted, LengthPart
<1>3. FooterOf(t.slot) # 0 /\ ByAligned(t) => LowPart(t) \in Counted(t)
  <2>1. FooterOf(t.slot) # 0 => t.slot >= 3
    <3>1. t.slot < 3 => FooterOf(t.slot) = 0  BY TokenIs
    <3>2. t.slot \in Int  BY TokenIs, MainCodes
    <3>. QED  BY <3>1, <3>2
  <2>2. FooterOf(t.slot) # 0 /\ ByAligned(t) =>
          t.slot \in {s \in {t.slot} : s >= 3 /\ FooterOf(s) >= AlignedBits}
    BY <2>1 DEF ByAligned
  <2>. QED  BY <2>2 DEF Counted, LowPart
<1>4. BitsPart(t)[1] = "bits" /\ HighPart(t)[1] = "bits"  BY DEF BitsPart, HighPart
<1>5. \A at \in DOMAIN Elements(t) :
        Elements(t)[at] \in Counted(t) \/ Elements(t)[at][1] = "bits"
  <2>1. CASE Plainly(t)
    <3>1. Elements(t) = <<MainPart(t)>>  BY <2>1, ElementsAre
    <3>. QED  BY <1>1, <3>1
  <2>2. CASE Longly(t)
    <3>1. Elements(t) = <<MainPart(t), LengthPart(t)>>  BY <2>2, ElementsAre
    <3>. QED  BY <1>1, <1>2, <2>2, <3>1 DEF Longly
  <2>3. CASE Far(t)
    <3>1. Elements(t) = <<MainPart(t), BitsPart(t)>>  BY <2>3, ElementsAre
    <3>. QED  BY <1>1, <1>4, <3>1
  <2>4. CASE LonglyFar(t)
    <3>1. Elements(t) = <<MainPart(t), LengthPart(t), BitsPart(t)>>  BY <2>4, ElementsAre
    <3>. QED  BY <1>1, <1>2, <1>4, <2>4, <3>1 DEF LonglyFar
  <2>5. CASE Split(t)
    <3>1. Elements(t) = <<MainPart(t), HighPart(t), LowPart(t)>>  BY <2>5, ElementsAre
    <3>. QED  BY <1>1, <1>3, <1>4, <2>5, <3>1 DEF Split
  <2>6. CASE LonglySplit(t)
    <3>1. Elements(t) = <<MainPart(t), LengthPart(t), HighPart(t), LowPart(t)>>
      BY <2>6, ElementsAre
    <3>. QED  BY <1>1, <1>2, <1>3, <1>4, <2>6, <3>1 DEF LonglySplit
  <2>. QED  BY <2>1, <2>2, <2>3, <2>4, <2>5, <2>6, KindsOfTokens
<1>6. Uncounted(t) = {}  BY <1>5 DEF Uncounted
<1>. QED  BY <1>6 DEF Coded

(* A literal is a token.                                                   *)
LEMMA LiteralIsToken ==
  ASSUME NEW byte \in 0 .. Literals - 1
  PROVE  /\ IsToken(LiteralToken(byte)) /\ LiteralToken(byte).sym = byte
         /\ LiteralToken(byte).slot = -1
<1>. DEFINE t == LiteralToken(byte)
<1>1. t.sym = byte /\ t.lenSym = -1 /\ t.slot = -1 /\ t.extra = 0  BY DEF LiteralToken
<1>. HIDE DEF t
<1>2. byte \in Nat /\ byte < Literals  BY MainCodes
<1>3. t.sym \in 0 .. mainCodeCount - 1
  <2>1. MainSlots * (Short + 1) \in Nat  BY MainCodes
  <2>. QED  BY <1>1, <1>2, <2>1, MainCodes
<1>4. SlotOf(t.sym) = -1  BY <1>1, <1>2 DEF SlotOf
<1>5. t.lenSym \in -1 .. lenCodeCount - 1
  <2>1. lenCodeCount \in Nat  BY TokenAssumption, Zenon
  <2>. QED  BY <1>1, <2>1
<1>6. ~ (t.lenSym >= 0) /\ ~ (t.sym >= Literals)  BY <1>1, <1>2, MainCodes
<1>7. FooterOf(t.slot) = 0  BY <1>1 DEF FooterOf
<1>8. 2 ^ FooterOf(t.slot) = 1  BY <1>7, PowerOfZero
<1>9. t.extra \in 0 .. 2 ^ FooterOf(t.slot) - 1  BY <1>1, <1>8
<1>10. IsToken(t)  BY <1>1, <1>3, <1>4, <1>5, <1>6, <1>9 DEF IsToken
<1>. QED  BY <1>1, <1>10 DEF t

-----------------------------------------------------------------------------
(* The slot of an offset.                                                  *)

(* The bases of the slots, and how they go up.                             *)
LEMMA Bases ==
  /\ basePosition \in [1 .. MainSlots + 1 -> Nat] /\ basePosition[MainSlots + 1] = WindowSize
  /\ WindowSize \in Nat /\ basePosition[4] = 3
  /\ \A s \in 1 .. MainSlots :
       footerBits[s] \in Nat /\ basePosition[s + 1] = basePosition[s] + 2 ^ footerBits[s]
<1>1. /\ basePosition \in [1 .. MainSlots + 1 -> Nat] /\ basePosition[MainSlots + 1] = WindowSize
      /\ WindowSize \in Nat /\ footerBits \in [1 .. MainSlots + 1 -> Nat] /\ basePosition[1] = 0
      /\ \A s \in 1 .. 3 : footerBits[s] = 0
      /\ \A s \in 1 .. MainSlots : basePosition[s + 1] = basePosition[s] + 2 ^ footerBits[s]
  BY TokenAssumption, Zenon
<1>2. \A s \in 1 .. MainSlots : footerBits[s] \in Nat
  <2>. TAKE s \in 1 .. MainSlots
  <2>1. s \in 1 .. MainSlots + 1  BY MainCodes
  <2>2. footerBits \in [1 .. MainSlots + 1 -> Nat]  BY TokenAssumption, Zenon
  <2>. QED  BY <2>1, <2>2
<1>3. 1 \in 1 .. MainSlots /\ 2 \in 1 .. MainSlots /\ 3 \in 1 .. MainSlots  BY MainCodes
<1>4. footerBits[1] = 0 /\ footerBits[2] = 0 /\ footerBits[3] = 0  BY <1>1
<1>5. basePosition[1 + 1] = basePosition[1] + 1  BY <1>1, <1>3, <1>4, PowerOfZero
<1>6. basePosition[2 + 1] = basePosition[2] + 1  BY <1>1, <1>3, <1>4, PowerOfZero
<1>7. basePosition[3 + 1] = basePosition[3] + 1  BY <1>1, <1>3, <1>4, PowerOfZero
<1>8. basePosition[2] = 1  BY <1>1, <1>5
<1>9. basePosition[3] = 2  BY <1>6, <1>8
<1>10. basePosition[4] = 3  BY <1>7, <1>9
<1>. QED  BY <1>1, <1>2, <1>10

(* An offset that is not below all of them is in a slot, and what is below *)
(* its base fits the bits of it.                                           *)
LEMMA SlotFound ==
  ASSUME NEW a \in Nat, 3 <= a, a < WindowSize
  PROVE  /\ positionSlot(a) \in 3 .. MainSlots - 1
         /\ a - basePosition[positionSlot(a) + 1] \in 0 .. 2 ^ FooterOf(positionSlot(a)) - 1
<1>. DEFINE S == {s \in DOMAIN basePosition : basePosition[s] <= a}
            g == Greatest(S)
<1>1. S \subseteq Nat /\ \A s \in S : s <= MainSlots + 1 /\ s \in 1 .. MainSlots + 1  BY Bases, MainCodes
<1>2. 4 \in S  BY Bases, MainCodes
<1>3. g \in S /\ \A s \in S : g >= s
  <2>1. S # {} /\ MainSlots + 1 \in Nat  BY <1>2, MainCodes
  <2>. HIDE DEF S
  <2>. QED  BY <1>1, <2>1, GreatestIs
<1>4. positionSlot(a) = g - 1  BY DEF positionSlot
<1>5. g # MainSlots + 1  BY <1>3, Bases
<1>6. g \in 4 .. MainSlots /\ basePosition[g] <= a  BY <1>1, <1>2, <1>3, <1>5, MainCodes
<1>7. a < basePosition[g + 1]
  <2>1. g + 1 \in 1 .. MainSlots + 1 /\ g + 1 \notin S  BY <1>3, <1>6, MainCodes
  <2>2. basePosition[g + 1] \in Nat  BY <2>1, Bases
  <2>. QED  BY <2>1, <2>2, Bases
<1>. HIDE DEF g
<1>8. footerBits[g] \in Nat /\ basePosition[g + 1] = basePosition[g] + 2 ^ footerBits[g]
  BY <1>6, Bases
<1>9. basePosition[g] \in Nat /\ 2 ^ footerBits[g] \in Nat
  <2>1. g \in 1 .. MainSlots + 1  BY <1>6, MainCodes
  <2>2. basePosition \in [1 .. MainSlots + 1 -> Nat]  BY Bases
  <2>3. 2 ^ footerBits[g] \in Nat \ {0}  BY <1>8, PowerIs
  <2>. QED  BY <2>1, <2>2, <2>3
<1>10. FooterOf(g - 1) = footerBits[g]  BY <1>6, MainCodes DEF FooterOf
<1>11. a - basePosition[g] \in 0 .. 2 ^ footerBits[g] - 1
  <2>1. PICK b \in Nat : b = basePosition[g]  BY <1>9
  <2>2. PICK c \in Nat : c = 2 ^ footerBits[g]  BY <1>9
  <2>. QED  BY <1>6, <1>7, <1>8, <2>1, <2>2
<1>12. (g - 1) + 1 = g  BY <1>6, MainCodes
<1>. QED  BY <1>4, <1>6, <1>10, <1>11, <1>12, MainCodes

(* The slot of a recent offset.                                            *)
LEMMA SlotsAre ==
  ASSUME NEW r, NEW o, SlotsOf(r, o) # {}
  PROVE  Least(SlotsOf(r, o)) \in 1 .. 3 /\ r[Least(SlotsOf(r, o))] = o
<1>1. SlotsOf(r, o) \subseteq Nat  BY DEF SlotsOf
<1>2. Least(SlotsOf(r, o)) \in SlotsOf(r, o)  BY <1>1, LeastIs
<1>. QED  BY <1>2 DEF SlotsOf

(* The lengths of matches.                                                 *)
LEMMA Lengths ==
  /\ minMatch \in Nat /\ minMatch >= 2 /\ minLength \in Nat /\ minMatch < minLength
  /\ lenCodeCount \in Nat /\ Short \in Nat /\ maxMatch \in Nat
  /\ maxMatch = minMatch + Short + lenCodeCount - 1 /\ minLength <= maxMatch
<1>1. /\ minMatch \in Nat /\ minMatch >= 2 /\ minLength \in Nat /\ minMatch < minLength
      /\ lenCodeCount \in Nat /\ Short \in Nat /\ minLength <= maxMatch
  BY TokenAssumption, Zenon
<1>2. maxMatch = minMatch + Short + lenCodeCount - 1  BY DEF maxMatch
<1>. QED  BY <1>1, <1>2

(* A token says a match: its length, and its offset by a slot.             *)
Says(t, r, l, o) ==
  /\ IsToken(t) /\ t.sym >= Literals
  /\ ((t.sym - Literals) % (Short + 1)) + (IF t.lenSym >= 0 THEN t.lenSym ELSE 0) = l - minMatch
  /\ SlotsOf(r, o) # {} => t.slot < 3 /\ t.slot + 1 = Least(SlotsOf(r, o))
  /\ SlotsOf(r, o) = {} => t.slot >= 3 /\ basePosition[t.slot + 1] - minMatch + t.extra = o

(* A match is a token.                                                     *)
LEMMA MatchIsToken ==
  ASSUME NEW r, NEW l \in minMatch .. maxMatch, NEW o \in Nat \ {0}, o + minMatch < WindowSize,
         NEW t, t = MatchToken(r, l, o)
  PROVE  Says(t, r, l, o)
<1>. DEFINE slot == IF SlotsOf(r, o) # {} THEN Least(SlotsOf(r, o)) - 1 ELSE positionSlot(o + minMatch)
            short == IF l - minMatch < Short THEN l - minMatch ELSE Short
            extra == IF SlotsOf(r, o) # {} THEN 0 ELSE o + minMatch - basePosition[slot + 1]
<1>1. /\ t.sym = Literals + slot * (Short + 1) + short
      /\ t.lenSym = IF short = Short THEN l - minMatch - Short ELSE -1
      /\ t.slot = slot /\ t.extra = extra
  BY DEF MatchToken
<1>2. /\ slot \in 0 .. MainSlots - 1 /\ extra \in 0 .. 2 ^ FooterOf(slot) - 1
      /\ SlotsOf(r, o) # {} => slot < 3 /\ slot + 1 = Least(SlotsOf(r, o))
      /\ SlotsOf(r, o) = {} => slot >= 3 /\ basePosition[slot + 1] - minMatch + extra = o
  <2>1. CASE SlotsOf(r, o) # {}
    <3>1. Least(SlotsOf(r, o)) \in 1 .. 3  BY <2>1, SlotsAre
    <3>2. slot \in 0 .. 2 /\ slot + 1 = Least(SlotsOf(r, o)) /\ extra = 0  BY <2>1, <3>1
    <3>. HIDE DEF slot, extra
    <3>3. slot \in -1 .. MainSlots /\ slot \in 0 .. MainSlots - 1 /\ slot < 3  BY <3>2, MainCodes
    <3>4. FooterOf(slot) = 0  BY <3>3, Footers
    <3>5. 2 ^ FooterOf(slot) = 1  BY <3>4, PowerOfZero
    <3>. QED  BY <2>1, <3>2, <3>3, <3>5
  <2>2. CASE SlotsOf(r, o) = {}
    <3>1. PICK a \in Nat : a = o + minMatch  BY Lengths
    <3>2. 3 <= a /\ a < WindowSize  BY <3>1, Lengths
    <3>3. slot = positionSlot(a) /\ extra = o + minMatch - basePosition[slot + 1]  BY <2>2, <3>1
    <3>. HIDE DEF slot, extra
    <3>4. slot \in 3 .. MainSlots - 1 /\ a - basePosition[slot + 1] \in 0 .. 2 ^ FooterOf(slot) - 1
      BY <3>2, <3>3, SlotFound
    <3>5. slot \in 0 .. MainSlots - 1 /\ slot >= 3 /\ slot + 1 \in 1 .. MainSlots + 1
      BY <3>4, MainCodes
    <3>6. basePosition[slot + 1] \in Nat
      <4>1. basePosition \in [1 .. MainSlots + 1 -> Nat]  BY Bases
      <4>. QED  BY <3>5, <4>1
    <3>7. PICK b \in Nat : b = basePosition[slot + 1]  BY <3>6
    <3>8. extra = a - b  BY <3>1, <3>3, <3>7, Lengths
    <3>9. b - minMatch + extra = o  BY <3>1, <3>7, <3>8, Lengths
    <3>. QED  BY <2>2, <3>4, <3>5, <3>7, <3>8, <3>9
  <2>. HIDE DEF slot, extra
  <2>. QED  BY <2>1, <2>2
<1>. HIDE DEF slot, extra
<1>3. /\ short \in 0 .. Short
      /\ (short = Short => l - minMatch - Short \in 0 .. lenCodeCount - 1)
      /\ short + (IF short = Short THEN l - minMatch - Short ELSE 0) = l - minMatch
  BY Lengths
<1>. HIDE DEF short
<1>4. PICK c \in Nat \ {0} : c = Short + 1  BY MainCodes
<1>5. slot \in Nat /\ short \in 0 .. c - 1  BY <1>2, <1>3, <1>4, MainCodes
<1>6. (slot * c + short) \div c = slot /\ (slot * c + short) % c = short  BY <1>5, DivIs
<1>7. slot * c + short \in Nat  BY <1>5
<1>8. t.sym - Literals = slot * c + short /\ t.sym >= Literals /\ t.sym \in Nat
  <2>1. PICK p \in Nat : p = slot * c  BY <1>5
  <2>2. t.sym = Literals + p + short  BY <1>1, <1>4, <2>1
  <2>. QED  BY <1>5, <2>1, <2>2, MainCodes
<1>9. t.slot = SlotOf(t.sym)
  <2>1. ~ (t.sym < Literals)  BY <1>8, MainCodes
  <2>. QED  BY <1>1, <1>4, <1>6, <1>8, <2>1 DEF SlotOf
<1>10. t.sym \in 0 .. mainCodeCount - 1
  <2>1. PICK e \in Nat : MainSlots = slot + 1 + e
    <3>1. MainSlots - slot - 1 \in Nat /\ MainSlots = slot + 1 + (MainSlots - slot - 1)
      BY <1>2, MainCodes
    <3>. QED  BY <3>1
  <2>2. MainSlots * c = slot * c + c + e * c /\ e * c \in Nat /\ slot * c \in Nat  BY <1>5, <2>1
  <2>3. slot * c + short < MainSlots * c  BY <1>5, <2>2
  <2>4. mainCodeCount = Literals + MainSlots * c  BY <1>4, MainCodes
  <2>. QED  BY <1>1, <1>4, <1>7, <1>8, <2>3, <2>4, MainCodes
<1>11. t.lenSym \in -1 .. lenCodeCount - 1 /\ (t.lenSym >= 0 <=> short = Short)
       /\ short + (IF t.lenSym >= 0 THEN t.lenSym ELSE 0) = l - minMatch
  BY <1>1, <1>3, Lengths
<1>12. IsToken(t)
  BY <1>1, <1>2, <1>4, <1>6, <1>8, <1>9, <1>10, <1>11 DEF IsToken
<1>. QED  BY <1>1, <1>2, <1>4, <1>6, <1>8, <1>11, <1>12 DEF Says

-----------------------------------------------------------------------------
(* The search for a match.                                                 *)

(* A loop has a run: one value after the other, each made of the one before. *)
IsLoop(D, m, first, F) == m \in Nat /\ first \in D /\ F \in [1 .. m -> [D -> D]]

IsRun(f, D, m, first, F) ==
  /\ f \in [0 .. m -> D]
  /\ f[0] = first /\ \A q \in 1 .. m : f[q] = F[q][f[q - 1]]

LEMMA LoopRuns ==
  ASSUME NEW D, NEW m, NEW first, NEW F, IsLoop(D, m, first, F)
  PROVE  \E f : IsRun(f, D, m, first, F)
<1>0. m \in Nat /\ first \in D /\ F \in [1 .. m -> [D -> D]]  BY DEF IsLoop
<1>. DEFINE Runs(k, f) == f[0] = first /\ \A q \in 1 .. k : f[q] = F[q][f[q - 1]]
            S == {k \in Nat : k <= m => \E f \in [0 .. k -> D] : Runs(k, f)}
<1>1. 0 \in S
  <2>0. first \in D  BY <1>0
  <2>1. [k \in 0 .. 0 |-> first] \in [0 .. 0 -> D]  BY <2>0
  <2>2. Runs(0, [k \in 0 .. 0 |-> first])  OBVIOUS
  <2>. QED  BY <2>1, <2>2
<1>2. ASSUME NEW k \in 1 .. m, k - 1 \in S PROVE k \in S
  <2>1. PICK f \in [0 .. k - 1 -> D] : Runs(k - 1, f)  BY <1>0, <1>2
  <2>. DEFINE g == [q \in 0 .. k |-> IF q = k THEN F[k][f[k - 1]] ELSE f[q]]
  <2>2. f[k - 1] \in D /\ F[k] \in [D -> D]  BY <1>0
  <2>3. F[k][f[k - 1]] \in D  BY <2>2
  <2>4. \A q \in 0 .. k : q # k => q \in 0 .. k - 1  BY <1>0
  <2>5. g \in [0 .. k -> D]  BY <2>3, <2>4
  <2>6. g[0] = first  BY <2>1
  <2>7. \A q \in 1 .. k : g[q] = F[q][g[q - 1]]
    <3>. TAKE q \in 1 .. k
    <3>1. q \in 0 .. k /\ q - 1 \in 0 .. k /\ q - 1 # k  BY <1>0
    <3>2. g[q - 1] = f[q - 1]  BY <3>1
    <3>3. CASE q = k  BY <3>2, <3>3
    <3>4. CASE q # k
      <4>1. q \in 1 .. k - 1  BY <1>0, <3>4
      <4>2. g[q] = f[q]  BY <3>1, <3>4
      <4>. QED  BY <2>1, <3>2, <4>1, <4>2
    <3>. QED  BY <3>3, <3>4
  <2>. HIDE DEF g
  <2>8. Runs(k, g)  BY <2>6, <2>7
  <2>9. k \in Nat  BY <1>0
  <2>. QED  BY <2>5, <2>8, <2>9
<1>. HIDE DEF S
<1>3. 0 .. m \subseteq S  BY <1>0, <1>1, <1>2, StepByStep
<1>4. m \in S  BY <1>0, <1>3
<1>. QED  BY <1>0, <1>4 DEF S, IsRun

-----------------------------------------------------------------------------
(* The search for a match.                                                 *)

FinderType ==
  /\ data \in Seq(Octets) /\ Len(data) <= WindowSize
  /\ recent \in [1 .. 3 -> Nat]
  /\ head \in [Buckets -> Nat] /\ prev \in [Positions -> Nat]

(* What matchLen returns is alike, and nothing longer is.                  *)
LEMMA MatchLenIs ==
  ASSUME NEW a, NEW b, NEW limit \in Nat
  PROVE  /\ MatchLen(a, b, limit) \in 0 .. limit
         /\ \A m \in 1 .. MatchLen(a, b, limit) : data[a + m] = data[b + m]
         /\ \A x \in 0 .. limit : (\A m \in 1 .. x : data[a + m] = data[b + m])
                                  => x <= MatchLen(a, b, limit)
<1>. DEFINE S == {x \in 0 .. limit : \A m \in 1 .. x : data[a + m] = data[b + m]}
<1>1. S \subseteq Nat /\ (\A y \in S : y <= limit) /\ 0 \in S  OBVIOUS
<1>2. MatchLen(a, b, limit) = Greatest(S)  BY DEF MatchLen
<1>3. Greatest(S) \in S /\ \A y \in S : Greatest(S) >= y
  <2>. HIDE DEF S
  <2>1. S # {}  BY <1>1
  <2>. QED  BY <1>1, <2>1, GreatestIs
<1>4. PICK g \in S : g = MatchLen(a, b, limit) /\ \A y \in S : g >= y  BY <1>2, <1>3
<1>. QED  BY <1>4

(* What a search may come to at p: nothing, or a match.                    *)
Best(p) ==
  {b \in [length : Nat, offset : Nat] :
     b.length # 0 => b.length <= LimitAt(p) /\ b.offset \in 1 .. p /\ Matches(p, b.length, b.offset)}

LEMMA LimitIs ==
  ASSUME FinderType, NEW p \in Nat, p <= Len(data)
  PROVE  LimitAt(p) \in Nat /\ LimitAt(p) <= maxMatch /\ p + LimitAt(p) <= Len(data)
<1>1. Len(data) \in Nat  BY DEF FinderType
<1>. QED  BY <1>1, Lengths DEF LimitAt

LEMMA LongerIs ==
  ASSUME FinderType, NEW p \in Nat, p <= Len(data), NEW b \in Best(p), NEW o \in 1 .. p
  PROVE  Longer(b, p, o, LimitAt(p)) \in Best(p)
<1>. DEFINE l == MatchLen(p, p - o, LimitAt(p))
<1>1. LimitAt(p) \in Nat  BY LimitIs
<1>2. l \in 0 .. LimitAt(p) /\ \A m \in 1 .. l : data[p + m] = data[p - o + m]  BY <1>1, MatchLenIs
<1>. HIDE DEF l
<1>3. Matches(p, l, o)
  <2>1. \A m \in 1 .. l : p - o + m = p + m - o  BY <1>1, <1>2
  <2>. QED  BY <1>2, <2>1 DEF Matches
<1>4. [length |-> l, offset |-> o] \in Best(p)  BY <1>1, <1>2, <1>3 DEF Best
<1>5. Longer(b, p, o, LimitAt(p)) = IF l > b.length THEN [length |-> l, offset |-> o] ELSE b
  BY DEF Longer, l
<1>. QED  BY <1>4, <1>5

LEMMA OfRecentIs ==
  ASSUME FinderType, NEW p \in Nat, p <= Len(data)
  PROVE  OfRecent(p) \in Best(p)
<1>1. NoMatch \in Best(p)  BY DEF Best, NoMatch
<1>2. ASSUME NEW b \in Best(p), NEW r PROVE AfterRecent(b, p, r) \in Best(p)
  BY LongerIs DEF AfterRecent
<1>. QED  BY <1>1, <1>2 DEF OfRecent

Sought(p) == [best : Best(p), cur : Nat]

(* A step along a chain, what hash3 makes of a position, and the search as *)
(* a run of such steps.                                                    *)
LEMMA AlongIs ==
  ASSUME FinderType, NEW p \in Nat, p < Len(data), NEW s \in Sought(p)
  PROVE  Along(s, p) \in Sought(p)
<1>. DEFINE o == p + 1 - s.cur
            b == Longer(s.best, p, o, LimitAt(p))
<1>1. s.best \in Best(p) /\ s.cur \in Nat /\ o \in Int  BY DEF Sought
<1>2. CASE s.cur = 0 \/ o \notin 1 .. WindowSize
  <2>1. Along(s, p) = [s EXCEPT !.cur = 0]  BY <1>2 DEF Along
  <2>. QED  BY <2>1 DEF Sought
<1>3. CASE s.cur # 0 /\ o \in 1 .. WindowSize
  <2>1. o \in 1 .. p /\ s.cur - 1 \in 0 .. p - 1  BY <1>1, <1>3
  <2>2. b \in Best(p)
    <3>1. p <= Len(data)  BY DEF FinderType
    <3>. QED  BY <1>1, <2>1, <3>1, LongerIs
  <2>3. prev[s.cur - 1] \in Nat
    <3>1. Len(data) \in Nat /\ Len(data) <= WindowSize /\ WindowSize \in Nat
      BY Bases DEF FinderType
    <3>2. s.cur - 1 \in Positions  BY <2>1, <3>1 DEF Positions
    <3>. QED  BY <3>2 DEF FinderType
  <2>4. Along(s, p) = [best |-> b,
                       cur |-> IF b # s.best /\ (b.length >= goodMatch \/ b.length = LimitAt(p))
                               THEN 0 ELSE prev[s.cur - 1]]
    <3>1. ~ (s.cur = 0 \/ o \notin 1 .. WindowSize)  BY <1>3
    <3>. QED  BY <3>1 DEF Along
  <2>. HIDE DEF b
  <2>. QED  BY <2>2, <2>3, <2>4 DEF Sought
<1>. QED  BY <1>2, <1>3

LEMMA BucketIs ==
  ASSUME FinderType, NEW p \in Nat, HasBytes(p)
  PROVE  Bucket(p) \in Buckets
<1>1. Len(data) \in Nat /\ p + minLength <= Len(data)  BY DEF FinderType, HasBytes
<1>2. DOMAIN SubSeq(data, p + 1, p + minLength) = 1 .. minLength
      /\ \A x \in 1 .. minLength : SubSeq(data, p + 1, p + minLength)[x] = data[p + x]
  <2>1. data \in Seq(Octets)  BY DEF FinderType
  <2>2. p + 1 \in 1 .. Len(data) + 1 /\ p + minLength \in p .. Len(data)  BY <1>1, Lengths
  <2>. QED  BY <2>1, <2>2, <1>1, Lengths
<1>3. \A x \in 1 .. minLength : data[p + x] \in 0 .. Literals - 1
  <2>. TAKE x \in 1 .. minLength
  <2>1. p + x \in 1 .. Len(data)  BY <1>1, Lengths
  <2>2. data \in Seq(Octets)  BY DEF FinderType
  <2>3. data[p + x] \in Octets  BY <2>1, <2>2, ElementOfSeq
  <2>. QED  BY <2>3 DEF Octets
<1>4. SubSeq(data, p + 1, p + minLength) \in [1 .. minLength -> 0 .. Literals - 1]
  <2>1. data \in Seq(Octets)  BY DEF FinderType
  <2>2. SubSeq(data, p + 1, p + minLength) =
          [x \in 1 .. minLength |-> SubSeq(data, p + 1, p + minLength)[x]]
    BY <1>1, <1>2, <2>1, Lengths
  <2>. QED  BY <1>2, <1>3, <2>2
<1>5. \A bytes \in [1 .. minLength -> 0 .. Literals - 1] : Hash(bytes) \in Buckets
  BY FinderAssumption, Zenon
<1>. QED  BY <1>4, <1>5 DEF Bucket

SearchFrom(p) == [best |-> OfRecent(p), cur |-> head[Bucket(p)]]

LEMMA SearchRuns ==
  ASSUME FinderType, NEW p \in Nat, HasBytes(p)
  PROVE  \E s \in [0 .. maxChain -> Sought(p)] :
           /\ s[0] = SearchFrom(p) /\ \A q \in 1 .. maxChain : s[q] = Along(s[q - 1], p)
           /\ Searched(p) = s[maxChain]
<1>. DEFINE w == CHOOSE w : w = [n \in 0 .. maxChain |->
                                   IF n = 0 THEN [best |-> OfRecent(p), cur |-> head[Bucket(p)]]
                                   ELSE Along(w[n - 1], p)]
            F == [q \in 1 .. maxChain |-> [d \in Sought(p) |-> Along(d, p)]]
<1>1. p < Len(data) /\ p <= Len(data) /\ maxChain \in Nat
  <2>1. Len(data) \in Nat /\ p + minLength <= Len(data)  BY DEF FinderType, HasBytes
  <2>2. maxChain \in Nat  BY FinderAssumption, Zenon
  <2>. QED  BY <2>1, <2>2, Lengths
<1>2. F \in [1 .. maxChain -> [Sought(p) -> Sought(p)]]  BY <1>1, AlongIs
<1>3. SearchFrom(p) \in Sought(p)
  <2>1. head[Bucket(p)] \in Nat  BY BucketIs DEF FinderType
  <2>2. OfRecent(p) \in Best(p)  BY <1>1, OfRecentIs
  <2>. QED  BY <2>1, <2>2 DEF SearchFrom, Sought
<1>4. PICK f \in [0 .. maxChain -> Sought(p)] :
        f[0] = SearchFrom(p) /\ \A q \in 1 .. maxChain : f[q] = F[q][f[q - 1]]
  <2>1. IsLoop(Sought(p), maxChain, SearchFrom(p), F)  BY <1>1, <1>2, <1>3 DEF IsLoop
  <2>. HIDE DEF F
  <2>2. \E f : IsRun(f, Sought(p), maxChain, SearchFrom(p), F)  BY <2>1, LoopRuns
  <2>. QED  BY <2>2 DEF IsRun
<1>5. \A q \in 1 .. maxChain : f[q] = Along(f[q - 1], p)
  <2>. TAKE q \in 1 .. maxChain
  <2>1. f[q - 1] \in Sought(p)  BY <1>1
  <2>. QED  BY <1>4, <2>1
<1>6. f = [n \in 0 .. maxChain |->
             IF n = 0 THEN [best |-> OfRecent(p), cur |-> head[Bucket(p)]] ELSE Along(f[n - 1], p)]
  <2>1. \A n \in 0 .. maxChain :
          f[n] = IF n = 0 THEN [best |-> OfRecent(p), cur |-> head[Bucket(p)]] ELSE Along(f[n - 1], p)
    BY <1>1, <1>4, <1>5 DEF SearchFrom
  <2>2. f = [n \in 0 .. maxChain |-> f[n]]  BY <1>1
  <2>. QED  BY <2>1, <2>2
<1>7. w = [n \in 0 .. maxChain |->
             IF n = 0 THEN [best |-> OfRecent(p), cur |-> head[Bucket(p)]] ELSE Along(w[n - 1], p)]
  BY <1>6
<1>8. Searched(p) = w[maxChain]  BY DEF Searched
<1>. HIDE DEF w
<1>9. w[0] = SearchFrom(p)  BY <1>1, <1>7 DEF SearchFrom
<1>10. \A q \in 1 .. maxChain : w[q] = Along(w[q - 1], p)
  <2>. TAKE q \in 1 .. maxChain
  <2>1. q \in 0 .. maxChain /\ q # 0  BY <1>1
  <2>. QED  BY <1>7, <2>1
<1>. DEFINE S == {q \in Nat : q <= maxChain => w[q] \in Sought(p)}
<1>11. 0 \in S  BY <1>3, <1>9
<1>12. ASSUME NEW q \in 1 .. maxChain, q - 1 \in S PROVE q \in S
  <2>1. w[q - 1] \in Sought(p) /\ q \in Nat  BY <1>1, <1>12
  <2>. QED  BY <1>1, <1>10, <2>1, AlongIs
<1>. HIDE DEF S
<1>13. 0 .. maxChain \subseteq S  BY <1>1, <1>11, <1>12, StepByStep
<1>14. \A q \in 0 .. maxChain : w[q] \in Sought(p)
  <2>. TAKE q \in 0 .. maxChain
  <2>1. q \in S  BY <1>13
  <2>. QED  BY <2>1, <1>1 DEF S
<1>15. w \in [0 .. maxChain -> Sought(p)]  BY <1>7, <1>14
<1>. QED  BY <1>8, <1>9, <1>10, <1>15

(* What is found is a match.                                               *)
LEMMA LongestMatchIs ==
  ASSUME FinderType, NEW p \in Nat
  PROVE  LongestMatch(p) \in Best(p)
<1>1. CASE HasBytes(p)
  <2>1. PICK s \in [0 .. maxChain -> Sought(p)] : Searched(p) = s[maxChain]  BY <1>1, SearchRuns
  <2>2. maxChain \in Nat  BY FinderAssumption, Zenon
  <2>3. s[maxChain] \in Sought(p)  BY <2>1, <2>2
  <2>. QED  BY <1>1, <2>1, <2>3 DEF LongestMatch, Sought
<1>2. CASE ~HasBytes(p)
  <2>1. NoMatch \in Best(p)  BY DEF Best, NoMatch
  <2>. QED  BY <1>2, <2>1 DEF LongestMatch
<1>. QED  BY <1>1, <1>2

(* Positions in their buckets.                                             *)
Chained == [head : [Buckets -> Nat], prev : [Positions -> Nat]]

LEMMA InsertIs ==
  ASSUME FinderType, NEW c \in Chained, NEW p \in Nat
  PROVE  Insert(c, p) \in Chained
<1>1. CASE HasBytes(p)
  <2>1. Bucket(p) \in Buckets  BY <1>1, BucketIs
  <2>2. c.head \in [Buckets -> Nat] /\ c.prev \in [Positions -> Nat]  BY DEF Chained
  <2>3. [c.head EXCEPT ![Bucket(p)] = p + 1] \in [Buckets -> Nat]
    <3>1. p + 1 \in Nat  OBVIOUS
    <3>2. PICK x \in Nat : x = p + 1  BY <3>1
    <3>. QED  BY <2>2, <3>2
  <2>4. [c.prev EXCEPT ![p] = c.head[Bucket(p)]] \in [Positions -> Nat]  BY <2>1, <2>2
  <2>5. Insert(c, p) = [head |-> [c.head EXCEPT ![Bucket(p)] = p + 1],
                        prev |-> [c.prev EXCEPT ![p] = c.head[Bucket(p)]]]
    BY <1>1 DEF Insert
  <2>. QED  BY <2>3, <2>4, <2>5 DEF Chained
<1>2. CASE ~HasBytes(p)  BY <1>2 DEF Insert
<1>. QED  BY <1>1, <1>2

AsTheyAre == [head |-> head, prev |-> prev]

(* insertNext is a run of insert.                                          *)
LEMMA InsertedRuns ==
  ASSUME FinderType, NEW x \in Nat, pos \in Nat
  PROVE  \E c \in [0 .. x -> Chained] :
           /\ c[0] = AsTheyAre /\ \A q \in 1 .. x : c[q] = Insert(c[q - 1], pos + q - 1)
           /\ Inserted(x) = c[x]
<1>. DEFINE w == CHOOSE w : w = [m \in 0 .. x |->
                                   IF m = 0 THEN [head |-> head, prev |-> prev]
                                   ELSE Insert(w[m - 1], pos + m - 1)]
            F == [q \in 1 .. x |-> [d \in Chained |-> Insert(d, pos + q - 1)]]
<1>0. \A q \in 1 .. x : pos + q - 1 \in Nat  OBVIOUS
<1>1. F \in [1 .. x -> [Chained -> Chained]]  BY <1>0, InsertIs
<1>2. AsTheyAre \in Chained  BY DEF AsTheyAre, Chained, FinderType
<1>3. PICK f \in [0 .. x -> Chained] :
        f[0] = AsTheyAre /\ \A q \in 1 .. x : f[q] = F[q][f[q - 1]]
  <2>1. IsLoop(Chained, x, AsTheyAre, F)  BY <1>1, <1>2 DEF IsLoop
  <2>. HIDE DEF F
  <2>2. \E f : IsRun(f, Chained, x, AsTheyAre, F)  BY <2>1, LoopRuns
  <2>. QED  BY <2>2 DEF IsRun
<1>4. \A q \in 1 .. x : f[q] = Insert(f[q - 1], pos + q - 1)
  <2>. TAKE q \in 1 .. x
  <2>1. f[q - 1] \in Chained  OBVIOUS
  <2>. QED  BY <1>3, <2>1
<1>5. f = [m \in 0 .. x |->
             IF m = 0 THEN [head |-> head, prev |-> prev] ELSE Insert(f[m - 1], pos + m - 1)]
  <2>1. \A m \in 0 .. x :
          f[m] = IF m = 0 THEN [head |-> head, prev |-> prev] ELSE Insert(f[m - 1], pos + m - 1)
    BY <1>3, <1>4 DEF AsTheyAre
  <2>2. f = [m \in 0 .. x |-> f[m]]  OBVIOUS
  <2>. QED  BY <2>1, <2>2
<1>6. w = [m \in 0 .. x |->
             IF m = 0 THEN [head |-> head, prev |-> prev] ELSE Insert(w[m - 1], pos + m - 1)]
  BY <1>5
<1>7. Inserted(x) = w[x]  BY DEF Inserted
<1>. HIDE DEF w
<1>8. w[0] = AsTheyAre  BY <1>6 DEF AsTheyAre
<1>9. \A q \in 1 .. x : w[q] = Insert(w[q - 1], pos + q - 1)
  <2>. TAKE q \in 1 .. x
  <2>1. q \in 0 .. x /\ q # 0  OBVIOUS
  <2>. QED  BY <1>6, <2>1
<1>. DEFINE S == {q \in Nat : q <= x => w[q] \in Chained}
<1>10. 0 \in S  BY <1>2, <1>8
<1>11. ASSUME NEW q \in 1 .. x, q - 1 \in S PROVE q \in S
  <2>1. w[q - 1] \in Chained /\ q \in Nat /\ pos + q - 1 \in Nat  BY <1>0, <1>11
  <2>2. Insert(w[q - 1], pos + q - 1) \in Chained  BY <2>1, InsertIs
  <2>. QED  BY <1>9, <2>1, <2>2
<1>. HIDE DEF S
<1>12. 0 .. x \subseteq S  BY <1>10, <1>11, StepByStep
<1>13. \A q \in 0 .. x : w[q] \in Chained
  <2>. TAKE q \in 0 .. x
  <2>1. q \in S  BY <1>12
  <2>. QED  BY <2>1 DEF S
<1>14. w \in [0 .. x -> Chained]  BY <1>6, <1>13
<1>. QED  BY <1>7, <1>8, <1>9, <1>14

-----------------------------------------------------------------------------
(* The translation of calls.                                               *)

(* Whether p is a byte of a call at one of S, counted from 0.              *)
Covered(S, p) == \E s \in S : s <= p /\ p <= s + 4

Rewritten(s) ==
  /\ s + e8MinLength < Len(buf)
  /\ buf[s + 1] = Call /\ plain[s + 1] = Call
  /\ At(buf, s) = Encoded(At(plain, s), s)

Plain(p) == buf[p + 1] = plain[p + 1]

(* S are the rewritten calls between two places, and there is no other.    *)
Marks(S, from, to) ==
  /\ \A s \in S : s \in Nat /\ from <= s /\ s + 5 <= to
  /\ \A s \in S : Rewritten(s)
  /\ \A s, t \in S : s < t => s + 5 <= t
  /\ \A p \in Nat : from <= p /\ p < to /\ ~Covered(S, p)
       => Plain(p) /\ (p + e8MinLength < Len(buf) => buf[p + 1] # Call)

E8Inv ==
  /\ E8TypeInv /\ i <= Len(buf) /\ Len(buf) <= HalfWord
  /\ phase = "encode" =>
       /\ \E S \in SUBSET Nat : Marks(S, 0, i)
       /\ \A p \in Nat : i <= p /\ p < Len(buf) => Plain(p)
  /\ phase = "decode" =>
       /\ \E S \in SUBSET Nat : Marks(S, i, Len(buf))
       /\ \A p \in Nat : p < i => Plain(p)
  /\ phase = "done" => buf = plain

-----------------------------------------------------------------------------
(* Operands.                                                               *)

(* A translated operand is an operand, and is translated back.             *)
LEMMA OperandInverts ==
  ASSUME NEW x \in Operand, NEW at \in Nat, at <= HalfWord
  PROVE  /\ Encoded(x, at) \in Operand
         /\ Decoded(Encoded(x, at), at) = x
<1>. USE E8Assumption DEF Operand
<1>1. CASE x >= -at /\ x < e8FileSize - at
  BY <1>1 DEF Encoded, Decoded
<1>2. CASE x >= e8FileSize - at /\ x < e8FileSize
  BY <1>2 DEF Encoded, Decoded
<1>3. CASE x < -at \/ x >= e8FileSize
  BY <1>3 DEF Encoded, Decoded
<1>. QED  BY <1>1, <1>2, <1>3

(* Four bytes of a buffer are an operand.                                  *)
LEMMA AtIsOperand ==
  ASSUME NEW b \in Seq(Byte), NEW n \in Nat, n + 5 <= Len(b)
  PROVE  /\ [j \in 1 .. 4 |-> b[n + 1 + j]] \in FourBytes
         /\ At(b, n) \in Operand
<1>1. \A j \in 1 .. 4 : b[n + 1 + j] \in Byte  OBVIOUS
<1>2. [j \in 1 .. 4 |-> b[n + 1 + j]] \in FourBytes  BY <1>1 DEF FourBytes
<1>. QED  BY <1>2, WordAssumption DEF At

(* Writing an operand changes its four bytes and nothing else.             *)
LEMMA WithWrites ==
  ASSUME NEW b \in Seq(Byte), NEW n \in Nat, n + 5 <= Len(b), NEW x \in Operand
  PROVE  /\ With(b, n, x) \in Seq(Byte) /\ Len(With(b, n, x)) = Len(b)
         /\ \A j \in 1 .. Len(b) : j \notin n + 2 .. n + 5 => With(b, n, x)[j] = b[j]
         /\ \A j \in 1 .. 4 : With(b, n, x)[n + 1 + j] = Bytes(x)[j]
         /\ At(With(b, n, x), n) = x
<1>. DEFINE w == With(b, n, x)
<1>1. Bytes(x) \in [1 .. 4 -> Byte] /\ Word(Bytes(x)) = x
  BY WordAssumption DEF FourBytes
<1>2. DOMAIN b = 1 .. Len(b) /\ Len(b) \in Nat  OBVIOUS
<1>3. w = [j \in 1 .. Len(b) |-> IF j \in n + 2 .. n + 5 THEN Bytes(x)[j - n - 1] ELSE b[j]]
  BY <1>2 DEF With
<1>4. \A j \in 1 .. Len(b) :
        (IF j \in n + 2 .. n + 5 THEN Bytes(x)[j - n - 1] ELSE b[j]) \in Byte
  BY <1>1
<1>5. w \in [1 .. Len(b) -> Byte]  BY <1>3, <1>4
<1>6. w \in Seq(Byte) /\ Len(w) = Len(b)  BY <1>2, <1>5, SeqDef, LenProperties
<1>7. \A j \in 1 .. Len(b) : j \notin n + 2 .. n + 5 => w[j] = b[j]  BY <1>3
<1>8. \A j \in 1 .. 4 : w[n + 1 + j] = Bytes(x)[j]
  <2>. TAKE j \in 1 .. 4
  <2>1. n + 1 + j \in 1 .. Len(b) /\ n + 1 + j \in n + 2 .. n + 5 /\ (n + 1 + j) - n - 1 = j
    BY <1>2
  <2>. QED  BY <2>1, <1>3
<1>9. [j \in 1 .. 4 |-> w[n + 1 + j]] = Bytes(x)  BY <1>1, <1>8
<1>10. At(w, n) = x  BY <1>1, <1>9 DEF At
<1>. QED  BY <1>6, <1>7, <1>8, <1>10

(* An operand is the same where its bytes are.                             *)
LEMMA AtDepends ==
  ASSUME NEW a, NEW b, NEW n \in Nat,
         \A j \in n + 2 .. n + 5 : a[j] = b[j]
  PROVE  At(a, n) = At(b, n)
<1>1. \A j \in 1 .. 4 : n + 1 + j \in n + 2 .. n + 5  OBVIOUS
<1>2. \A j \in 1 .. 4 : a[n + 1 + j] = b[n + 1 + j]  BY <1>1
<1>. QED  BY <1>2 DEF At

-----------------------------------------------------------------------------
(* The invariant.                                                          *)

LEMMA E8InvInit == E8Init => E8Inv
<1>. SUFFICES ASSUME E8Init PROVE E8Inv  OBVIOUS
<1>. USE E8Assumption DEF E8Init
<1>1. E8TypeInv /\ i <= Len(buf) /\ Len(buf) <= HalfWord  BY DEF E8TypeInv
<1>2. Marks({}, 0, i)  BY DEF Marks, Covered
<1>3. \A p \in Nat : Plain(p)  BY DEF Plain
<1>. QED  BY <1>1, <1>2, <1>3 DEF E8Inv

(* Where a scan goes on there is room for an operand.                      *)
LEMMA RoomForCall ==
  ASSUME E8TypeInv, Scans
  PROVE  i + 5 < Len(buf) /\ i + 1 \in 1 .. Len(buf) /\ i \in Nat /\ Len(buf) \in Nat
BY E8Assumption DEF E8TypeInv, Scans

(* A scanner steps over what is no call.                                   *)
LEMMA PassKeeps == E8Inv /\ Pass => E8Inv'
<1>. SUFFICES ASSUME E8Inv, Pass PROVE E8Inv'  OBVIOUS
<1>1. E8TypeInv /\ Scans /\ buf[i + 1] # Call /\ i' = i + 1
      /\ UNCHANGED <<plain, buf, phase>> /\ phase \in {"encode", "decode"}
  BY DEF E8Inv, Pass
<1>2. i + 5 < Len(buf) /\ i \in Nat /\ Len(buf) \in Nat  BY <1>1, RoomForCall
<1>3. E8TypeInv' /\ i' <= Len(buf') /\ Len(buf') <= HalfWord
  BY <1>1, <1>2 DEF E8TypeInv, E8Inv
<1>4. CASE phase = "encode"
  <2>1. PICK S \in SUBSET Nat : Marks(S, 0, i)  BY <1>4 DEF E8Inv
  <2>2. \A p \in Nat : i <= p /\ p < Len(buf) => Plain(p)  BY <1>4 DEF E8Inv
  <2>3. \A p \in Nat : i' <= p /\ p < Len(buf') => Plain(p)'
    BY <1>1, <1>2, <2>2 DEF Plain
  <2>4. (\A s \in S : s \in Nat /\ 0 <= s /\ s + 5 <= i')
    BY <1>1, <1>2, <2>1 DEF Marks
  <2>5. \A s \in S : Rewritten(s)'  BY <1>1, <2>1 DEF Marks, Rewritten, At
  <2>6. ASSUME NEW p \in Nat, p < i', ~Covered(S, p)
        PROVE  Plain(p)' /\ (p + e8MinLength < Len(buf') => buf'[p + 1] # Call)
    <3>1. CASE p < i  BY <3>1, <1>1, <2>1, <2>6 DEF Marks, Plain
    <3>2. CASE p = i
      <4>1. Plain(p)  BY <3>2, <1>2, <2>2
      <4>2. buf'[p + 1] = buf[p + 1] /\ plain'[p + 1] = plain[p + 1] /\ buf[p + 1] # Call
        BY <3>2, <1>1
      <4>. QED  BY <4>1, <4>2 DEF Plain
    <3>. QED  BY <3>1, <3>2, <2>6, <1>1, <1>2
  <2>7. Marks(S, 0, i)'  BY <2>1, <2>4, <2>5, <2>6, <1>1 DEF Marks, Covered
  <2>. QED  BY <1>1, <1>3, <1>4, <2>3, <2>7 DEF E8Inv
<1>5. CASE phase = "decode"
  <2>1. PICK S \in SUBSET Nat : Marks(S, i, Len(buf))  BY <1>5 DEF E8Inv
  <2>2. i \notin S  BY <1>1, <2>1 DEF Marks, Rewritten
  <2>3. \A s \in S : s \in Nat /\ i + 1 <= s /\ s + 5 <= Len(buf)
    BY <1>2, <2>1, <2>2 DEF Marks
  <2>4. ~Covered(S, i)  BY <2>3, <1>2 DEF Covered
  <2>5. Plain(i)  BY <2>1, <2>4, <1>2 DEF Marks
  <2>6. \A p \in Nat : p < i' => Plain(p)'
    BY <1>1, <1>2, <1>5, <2>5 DEF E8Inv, Plain
  <2>7. \A s \in S : Rewritten(s)'  BY <1>1, <2>1 DEF Marks, Rewritten, At
  <2>8. Marks(S, i, Len(buf))'
    BY <1>1, <1>2, <2>1, <2>3, <2>7 DEF Marks, Covered, Plain
  <2>. QED  BY <1>1, <1>3, <1>5, <2>6, <2>8 DEF E8Inv
<1>. QED  BY <1>1, <1>4, <1>5

(* The encoder rewrites a call: one more place, behind all others.         *)
LEMMA EncodeCallKeeps == E8Inv /\ EncodeCall => E8Inv'
<1>. SUFFICES ASSUME E8Inv, EncodeCall PROVE E8Inv'  OBVIOUS
<1>. DEFINE x == Encoded(At(buf, i), i)
<1>1. E8TypeInv /\ Scans /\ buf[i + 1] = Call /\ i' = i + 5
      /\ plain' = plain /\ phase = "encode" /\ phase' = "encode" /\ buf' = With(buf, i, x)
  BY DEF E8Inv, EncodeCall
<1>2. i + 5 < Len(buf) /\ i \in Nat /\ Len(buf) \in Nat  BY <1>1, RoomForCall
<1>3. buf \in Seq(Byte) /\ plain \in Seq(Byte) /\ Len(plain) = Len(buf) /\ i <= HalfWord
      /\ Len(buf) <= HalfWord
  BY <1>1, <1>2, E8Assumption DEF E8TypeInv, E8Inv
<1>4. x \in Operand
  <2>1. i + 5 <= Len(buf)  BY <1>2
  <2>2. At(buf, i) \in Operand  BY <2>1, <1>2, <1>3, AtIsOperand
  <2>. QED  BY <2>2, <1>2, <1>3, OperandInverts
<1>. HIDE DEF x
<1>5. /\ buf' \in Seq(Byte) /\ Len(buf') = Len(buf)
      /\ \A j \in 1 .. Len(buf) : j \notin i + 2 .. i + 5 => buf'[j] = buf[j]
      /\ At(With(buf, i, x), i) = x
  <2>1. i + 5 <= Len(buf)  BY <1>2
  <2>2. /\ With(buf, i, x) \in Seq(Byte) /\ Len(With(buf, i, x)) = Len(buf)
        /\ \A j \in 1 .. Len(buf) : j \notin i + 2 .. i + 5 => With(buf, i, x)[j] = buf[j]
        /\ At(With(buf, i, x), i) = x
    BY <2>1, <1>2, <1>3, <1>4, WithWrites
  <2>. QED  BY <2>2, <1>1
<1>6. E8TypeInv' /\ i' <= Len(buf') /\ Len(buf') <= HalfWord
  BY <1>1, <1>2, <1>3, <1>5 DEF E8TypeInv
<1>7. PICK S \in SUBSET Nat : Marks(S, 0, i)  BY <1>1 DEF E8Inv
<1>8. \A p \in Nat : i <= p /\ p < Len(buf) => Plain(p)  BY <1>1 DEF E8Inv
<1>9. \A p \in Nat : i' <= p /\ p < Len(buf') => Plain(p)'
  <2>. SUFFICES ASSUME NEW p \in Nat, i' <= p, p < Len(buf') PROVE Plain(p)'  OBVIOUS
  <2>1. p + 1 \in 1 .. Len(buf) /\ p + 1 \notin i + 2 .. i + 5 /\ i <= p
    BY <1>1, <1>2, <1>5
  <2>2. buf'[p + 1] = buf[p + 1]  BY <1>5, <2>1
  <2>. QED  BY <1>1, <1>5, <1>8, <2>1, <2>2 DEF Plain
<1>10. \A s \in S : s \in Nat /\ s + 5 <= i  BY <1>7 DEF Marks
<1>11. \A s \in S : Rewritten(s)'
  <2>. SUFFICES ASSUME NEW s \in S PROVE Rewritten(s)'  OBVIOUS
  <2>1. Rewritten(s) /\ s \in Nat /\ s + 5 <= i  BY <1>7, <1>10 DEF Marks
  <2>2. \A j \in s + 1 .. s + 5 : buf'[j] = buf[j]
    <3>. TAKE j \in s + 1 .. s + 5
    <3>1. j \in 1 .. Len(buf) /\ j \notin i + 2 .. i + 5  BY <2>1, <1>2
    <3>. QED  BY <3>1, <1>5
  <2>3. \A j \in s + 2 .. s + 5 : buf'[j] = buf[j]  BY <2>1, <2>2
  <2>4. At(buf', s) = At(buf, s)  BY <2>1, <2>3, AtDepends
  <2>5. buf'[s + 1] = buf[s + 1]  BY <2>1, <2>2
  <2>6. At(plain', s) = At(plain, s)  BY <1>1 DEF At
  <2>. QED  BY <2>1, <2>4, <2>5, <2>6, <1>1, <1>5 DEF Rewritten
<1>12. PICK n \in Nat : n = i  BY <1>2
<1>13. Rewritten(n)'
  <2>1. buf'[n + 1] = Call
    <3>1. n + 1 \in 1 .. Len(buf) /\ n + 1 \notin i + 2 .. i + 5  BY <1>2, <1>12
    <3>. QED  BY <3>1, <1>1, <1>5, <1>12
  <2>2. plain[n + 1] = Call  BY <1>1, <1>2, <1>8, <1>12 DEF Plain
  <2>3. \A j \in n + 2 .. n + 5 : buf[j] = plain[j]
    <3>. TAKE j \in n + 2 .. n + 5
    <3>1. j - 1 \in Nat /\ i <= j - 1 /\ j - 1 < Len(buf) /\ (j - 1) + 1 = j  BY <1>2, <1>12
    <3>2. Plain(j - 1)  BY <3>1, <1>8
    <3>. QED  BY <3>1, <3>2 DEF Plain
  <2>4. At(buf, n) = At(plain, n)  BY <2>3, AtDepends
  <2>5. At(buf', n) = Encoded(At(plain, n), n)  BY <2>4, <1>1, <1>5, <1>12 DEF x
  <2>6. n + e8MinLength < Len(buf')  BY <1>1, <1>5, <1>12 DEF Scans
  <2>. QED  BY <2>1, <2>2, <2>5, <2>6, <1>1 DEF Rewritten
<1>. DEFINE T == S \union {n}
<1>14. \A s \in T : s \in Nat /\ s + 5 <= i' /\ Rewritten(s)'
  BY <1>1, <1>2, <1>10, <1>11, <1>12, <1>13
<1>15. ASSUME NEW s \in T, NEW t \in T, s < t  PROVE s + 5 <= t
  <2>1. s \in S  BY <1>15, <1>10, <1>12
  <2>2. CASE t \in S  BY <1>7, <1>15, <2>1, <2>2 DEF Marks
  <2>3. CASE t = n  BY <1>10, <1>12, <2>1, <2>3
  <2>. QED  BY <2>2, <2>3
<1>16. ASSUME NEW p \in Nat, p < i', ~Covered(T, p)
       PROVE  Plain(p)' /\ (p + e8MinLength < Len(buf') => buf'[p + 1] # Call)
  <2>1. p < i  BY <1>16, <1>1, <1>2, <1>12 DEF Covered
  <2>2. ~Covered(S, p)  BY <1>16 DEF Covered
  <2>3. Plain(p) /\ (p + e8MinLength < Len(buf) => buf[p + 1] # Call)
    BY <2>1, <2>2, <1>7 DEF Marks
  <2>4. p + 1 \in 1 .. Len(buf) /\ p + 1 \notin i + 2 .. i + 5  BY <2>1, <1>2
  <2>5. buf'[p + 1] = buf[p + 1]  BY <2>4, <1>5
  <2>. QED  BY <2>3, <2>5, <1>1, <1>5 DEF Plain
<1>17. Marks(T, 0, i)'
  BY <1>14, <1>15, <1>16 DEF Marks, Covered
<1>18. T \in SUBSET Nat  BY <1>14
<1>. HIDE DEF T
<1>. QED  BY <1>1, <1>6, <1>9, <1>17, <1>18 DEF E8Inv

(* The decoder stops at a call where the encoder had stopped, and nowhere  *)
(* else, and takes back what it did.                                       *)
LEMMA DecodeCallKeeps == E8Inv /\ DecodeCall => E8Inv'
<1>. SUFFICES ASSUME E8Inv, DecodeCall PROVE E8Inv'  OBVIOUS
<1>. DEFINE x == Decoded(At(buf, i), i)
<1>1. E8TypeInv /\ Scans /\ buf[i + 1] = Call /\ i' = i + 5
      /\ plain' = plain /\ phase = "decode" /\ phase' = "decode" /\ buf' = With(buf, i, x)
  BY DEF E8Inv, DecodeCall
<1>2. i + 5 < Len(buf) /\ i \in Nat /\ Len(buf) \in Nat  BY <1>1, RoomForCall
<1>3. buf \in Seq(Byte) /\ plain \in Seq(Byte) /\ Len(plain) = Len(buf) /\ i <= HalfWord
      /\ Len(buf) <= HalfWord
  BY <1>1, <1>2, E8Assumption DEF E8TypeInv, E8Inv
<1>4. PICK S \in SUBSET Nat : Marks(S, i, Len(buf))  BY <1>1 DEF E8Inv
<1>5. PICK n \in Nat : n = i  BY <1>2
<1>6. n \in S
  <2>1. Covered(S, n)  BY <1>1, <1>2, <1>4, <1>5 DEF Marks, Scans
  <2>. QED  BY <2>1, <1>2, <1>4, <1>5 DEF Covered, Marks
<1>7. At(buf, n) = Encoded(At(plain, n), n) /\ plain[n + 1] = Call
  BY <1>4, <1>6 DEF Marks, Rewritten
<1>8. n + 5 <= Len(buf) /\ n + 5 <= Len(plain)  BY <1>2, <1>3, <1>5
<1>9. /\ At(plain, n) \in Operand
      /\ [j \in 1 .. 4 |-> plain[n + 1 + j]] \in FourBytes
  BY <1>3, <1>8, AtIsOperand
<1>10. x = At(plain, n)  BY <1>3, <1>5, <1>7, <1>9, OperandInverts
<1>. HIDE DEF x
<1>11. /\ buf' \in Seq(Byte) /\ Len(buf') = Len(buf)
       /\ \A j \in 1 .. Len(buf) : j \notin n + 2 .. n + 5 => buf'[j] = buf[j]
       /\ \A j \in 1 .. 4 : buf'[n + 1 + j] = Bytes(x)[j]
  <2>1. /\ With(buf, n, x) \in Seq(Byte) /\ Len(With(buf, n, x)) = Len(buf)
        /\ \A j \in 1 .. Len(buf) : j \notin n + 2 .. n + 5 => With(buf, n, x)[j] = buf[j]
        /\ \A j \in 1 .. 4 : With(buf, n, x)[n + 1 + j] = Bytes(x)[j]
    BY <1>3, <1>10, <1>8, <1>9, WithWrites
  <2>. QED  BY <2>1, <1>1, <1>5
<1>12. E8TypeInv' /\ i' <= Len(buf') /\ Len(buf') <= HalfWord
  BY <1>1, <1>2, <1>3, <1>11 DEF E8TypeInv
<1>13. Bytes(x) = [j \in 1 .. 4 |-> plain[n + 1 + j]]
  BY <1>10, <1>9, WordAssumption DEF At
<1>14. ASSUME NEW p \in Nat, p < i'  PROVE Plain(p)'
  <2>1. CASE p < i
    <3>1. p + 1 \in 1 .. Len(buf) /\ p + 1 \notin n + 2 .. n + 5  BY <2>1, <1>2, <1>5
    <3>2. Plain(p)  BY <2>1, <1>1 DEF E8Inv
    <3>. QED  BY <3>1, <3>2, <1>1, <1>11 DEF Plain
  <2>2. CASE p = i
    <3>1. n + 1 \in 1 .. Len(buf) /\ n + 1 \notin n + 2 .. n + 5  BY <1>8
    <3>2. buf'[n + 1] = buf[n + 1]  BY <3>1, <1>11
    <3>. QED  BY <2>2, <3>2, <1>1, <1>5, <1>7 DEF Plain
  <2>3. CASE i < p
    <3>1. p - n \in 1 .. 4 /\ n + 1 + (p - n) = p + 1  BY <2>3, <1>1, <1>5, <1>14
    <3>2. buf'[n + 1 + (p - n)] = Bytes(x)[p - n]  BY <3>1, <1>11
    <3>3. Bytes(x)[p - n] = plain[n + 1 + (p - n)]  BY <3>1, <1>13
    <3>. QED  BY <3>1, <3>2, <3>3, <1>1 DEF Plain
  <2>. QED  BY <2>1, <2>2, <2>3, <1>2
<1>. DEFINE T == S \ {n}
<1>15. \A s \in T : s \in Nat /\ n + 5 <= s /\ s + 5 <= Len(buf)
  <2>1. \A s \in T : s \in Nat /\ n <= s /\ s + 5 <= Len(buf)  BY <1>4, <1>5 DEF Marks
  <2>2. \A s \in T : n < s  BY <2>1
  <2>. QED  BY <2>1, <2>2, <1>4, <1>6 DEF Marks
<1>16. \A j \in Nat : n + 6 <= j /\ j <= Len(buf) => buf'[j] = buf[j]
  <2>. SUFFICES ASSUME NEW j \in Nat, n + 6 <= j, j <= Len(buf) PROVE buf'[j] = buf[j]
    OBVIOUS
  <2>1. j \in 1 .. Len(buf) /\ j \notin n + 2 .. n + 5  BY <1>2
  <2>. QED  BY <2>1, <1>11
<1>17. \A s \in T : Rewritten(s)'
  <2>. SUFFICES ASSUME NEW s \in T PROVE Rewritten(s)'  OBVIOUS
  <2>1. Rewritten(s) /\ s \in Nat /\ n + 5 <= s /\ s + 5 <= Len(buf)
    BY <1>4, <1>15 DEF Marks
  <2>2. \A j \in s + 1 .. s + 5 : buf'[j] = buf[j]
    <3>. TAKE j \in s + 1 .. s + 5
    <3>1. j \in Nat /\ n + 6 <= j /\ j <= Len(buf)  BY <2>1, <1>2
    <3>. QED  BY <3>1, <1>16
  <2>3. \A j \in s + 2 .. s + 5 : buf'[j] = buf[j]  BY <2>1, <2>2
  <2>4. At(buf', s) = At(buf, s)  BY <2>1, <2>3, AtDepends
  <2>5. buf'[s + 1] = buf[s + 1]  BY <2>1, <2>2
  <2>6. At(plain', s) = At(plain, s)  BY <1>1 DEF At
  <2>. QED  BY <2>1, <2>4, <2>5, <2>6, <1>1, <1>11 DEF Rewritten
<1>18. \A s, t \in T : s < t => s + 5 <= t  BY <1>4 DEF Marks
<1>19. ASSUME NEW p \in Nat, i' <= p, p < Len(buf'), ~Covered(T, p)
       PROVE  Plain(p)' /\ (p + e8MinLength < Len(buf') => buf'[p + 1] # Call)
  <2>1. n + 5 <= p /\ p < Len(buf)  BY <1>19, <1>1, <1>5, <1>11
  <2>2. ~Covered(S, p)  BY <1>19, <2>1 DEF Covered
  <2>3. Plain(p) /\ (p + e8MinLength < Len(buf) => buf[p + 1] # Call)
    BY <2>1, <2>2, <1>4, <1>5 DEF Marks
  <2>4. buf'[p + 1] = buf[p + 1]  BY <2>1, <1>2, <1>16
  <2>. QED  BY <2>3, <2>4, <1>1, <1>11 DEF Plain
<1>20. T \in SUBSET Nat  OBVIOUS
<1>21. \A s \in T : s \in Nat /\ i' <= s /\ s + 5 <= Len(buf')  BY <1>1, <1>5, <1>11, <1>15
<1>. HIDE DEF T
<1>22. Marks(T, i, Len(buf))'
  BY <1>17, <1>18, <1>19, <1>21 DEF Marks, Covered
<1>. QED  BY <1>1, <1>12, <1>14, <1>20, <1>22 DEF E8Inv

(* The whole chunk is encoded: its calls are those of the set, and at its  *)
(* end there is no room for another.                                       *)
LEMMA EncodeEndsKeeps == E8Inv /\ EncodeEnds => E8Inv'
<1>. SUFFICES ASSUME E8Inv, EncodeEnds PROVE E8Inv'  OBVIOUS
<1>1. /\ E8TypeInv /\ i <= Len(buf) /\ ~Scans /\ phase = "encode" /\ phase' = "decode"
      /\ i' = 0 /\ plain' = plain /\ buf' = buf
  BY DEF E8Inv, EncodeEnds
<1>2. i \in Nat /\ Len(buf) \in Nat  BY <1>1 DEF E8TypeInv
<1>3. E8TypeInv' /\ i' <= Len(buf') /\ Len(buf') <= HalfWord
  BY <1>1, <1>2 DEF E8TypeInv, E8Inv
<1>4. PICK S \in SUBSET Nat : Marks(S, 0, i)  BY <1>1 DEF E8Inv
<1>5. \A s \in S : s \in Nat /\ i' <= s /\ s + 5 <= Len(buf')
  BY <1>1, <1>2, <1>4 DEF Marks
<1>6. \A s \in S : Rewritten(s)'  BY <1>1, <1>4 DEF Marks, Rewritten, At
<1>7. ASSUME NEW p \in Nat, p < Len(buf'), ~Covered(S, p)
      PROVE  Plain(p)' /\ (p + e8MinLength < Len(buf') => buf'[p + 1] # Call)
  <2>1. CASE p < i  BY <2>1, <1>1, <1>4, <1>7 DEF Marks, Plain
  <2>2. CASE i <= p
    <3>1. Plain(p)  BY <2>2, <1>1, <1>7 DEF E8Inv
    <3>2. ~(p + e8MinLength < Len(buf))  BY <2>2, <1>1, <1>2, E8Assumption DEF Scans
    <3>. QED  BY <3>1, <3>2, <1>1 DEF Plain
  <2>. QED  BY <2>1, <2>2, <1>2
<1>8. Marks(S, i, Len(buf))'  BY <1>4, <1>5, <1>6, <1>7 DEF Marks, Covered
<1>9. \A p \in Nat : p < i' => Plain(p)'  BY <1>1
<1>. QED  BY <1>1, <1>3, <1>8, <1>9 DEF E8Inv

(* The whole chunk is decoded: no call has room any more, so none is left. *)
LEMMA DecodeEndsKeeps == E8Inv /\ DecodeEnds => E8Inv'
<1>. SUFFICES ASSUME E8Inv, DecodeEnds PROVE E8Inv'  OBVIOUS
<1>1. /\ E8TypeInv /\ i <= Len(buf) /\ ~Scans /\ phase = "decode" /\ phase' = "done"
      /\ i' = i /\ plain' = plain /\ buf' = buf
  BY DEF E8Inv, DecodeEnds
<1>2. i \in Nat /\ Len(buf) \in Nat /\ Len(plain) = Len(buf)  BY <1>1 DEF E8TypeInv
<1>3. PICK S \in SUBSET Nat : Marks(S, i, Len(buf))  BY <1>1 DEF E8Inv
<1>4. S = {}
  <2>. SUFFICES ASSUME NEW s \in S PROVE FALSE  OBVIOUS
  <2>1. s \in Nat /\ i <= s /\ s + e8MinLength < Len(buf)  BY <1>3 DEF Marks, Rewritten
  <2>. QED  BY <2>1, <1>1, <1>2, E8Assumption DEF Scans
<1>5. ASSUME NEW p \in Nat, p < Len(buf)  PROVE Plain(p)
  <2>1. CASE p < i  BY <2>1, <1>1 DEF E8Inv
  <2>2. CASE i <= p  BY <2>2, <1>3, <1>4, <1>5 DEF Marks, Covered
  <2>. QED  BY <2>1, <2>2, <1>2
<1>6. buf = plain
  <2>1. buf \in Seq(Byte) /\ plain \in Seq(Byte)  BY <1>1 DEF E8TypeInv
  <2>2. ASSUME NEW j \in 1 .. Len(buf)  PROVE buf[j] = plain[j]
    <3>1. j - 1 \in Nat /\ j - 1 < Len(buf) /\ (j - 1) + 1 = j  BY <1>2
    <3>. QED  BY <3>1, <1>5 DEF Plain
  <2>. QED  BY <2>1, <2>2, <1>2, SeqEqual
<1>. QED  BY <1>1, <1>2, <1>6 DEF E8Inv, E8TypeInv

LEMMA E8Stutters == E8Inv /\ UNCHANGED e8Vars => E8Inv'
<1>. SUFFICES ASSUME E8Inv, UNCHANGED e8Vars PROVE E8Inv'  OBVIOUS
<1>1. plain' = plain /\ buf' = buf /\ i' = i /\ phase' = phase  BY DEF e8Vars
<1>2. \A p : Plain(p)' <=> Plain(p)  BY <1>1 DEF Plain
<1>3. \A s : Rewritten(s)' <=> Rewritten(s)  BY <1>1 DEF Rewritten, At
<1>4. ASSUME NEW S \in SUBSET Nat
      PROVE  /\ Marks(S, 0, i) => Marks(S, 0, i)'
             /\ Marks(S, i, Len(buf)) => Marks(S, i, Len(buf))'
  BY <1>1, <1>2, <1>3 DEF Marks, Covered
<1>5. E8TypeInv'  BY <1>1 DEF E8Inv, E8TypeInv
<1>. QED  BY <1>1, <1>2, <1>4, <1>5 DEF E8Inv

-----------------------------------------------------------------------------
(* The invariant.                                                          *)

(* What the encoder has written of the chunk is what the decoder has of it, *)
(* and what is under way is the token of what comes next.                  *)
InvType ==
  /\ by \in {"own", "other", "damaged"} /\ aligned \in BOOLEAN /\ corrupt \in BOOLEAN
  /\ data \in Seq(Octets) /\ Len(data) <= WindowSize
  /\ pos \in Nat /\ pos <= Len(data)
  /\ recent \in [1 .. 3 -> Nat] /\ recentOf \in [1 .. 3 -> Nat]
  /\ window \in Seq(Octets) /\ Len(window) <= Len(data)
  /\ head \in [Buckets -> Nat] /\ prev \in [Positions -> Nat]

(* Between two tokens the two are alike.                                   *)
InStep == window = SubSeq(data, 1, pos) /\ recentOf = recent

IsAhead(l) == pos = Len(window) + l /\ window = SubSeq(data, 1, Len(window))

LiteralUnderWay ==
  /\ IsAhead(1) /\ recent = recentOf
  /\ emitted = Elements(LiteralToken(data[pos]))

MatchUnderWay ==
  \E l \in minMatch .. maxMatch, o \in 1 .. Len(window) :
    /\ IsAhead(l) /\ Matches(Len(window), l, o) /\ o + minMatch < WindowSize
    /\ recent = RecentAfter(recentOf, o)
    /\ emitted = Elements(MatchToken(recentOf, l, o))

TokenUnderWay ==
  Len(window) < Len(data) /\ \E t : IsToken(t) /\ emitted = Elements(t)

InvStream ==
  /\ emitted # <<>> => TokenUnderWay
  /\ by # "damaged" =>
       /\ ~corrupt
       /\ emitted = <<>> => InStep
       /\ emitted # <<>> => LiteralUnderWay \/ MatchUnderWay

(* The translation, and where it meets the stream.                         *)
InvTranslation ==
  /\ E8Inv
  /\ by # "own" => phase = "done"
  /\ by = "own" => plain \in Chunks
  /\ by = "own" /\ phase # "decode" => emitted = <<>> /\ pos = Len(data)
  /\ by = "own" /\ phase = "decode" =>
       data # <<>> /\ (Len(window) < Len(data) => buf = data /\ i = 0)

Inv == InvType /\ InvStream /\ InvTranslation

(* What the decoder makes of a literal.                                    *)
LEMMA LiteralReads ==
  ASSUME InvType, LiteralUnderWay
  PROVE  /\ Readable /\ Symbol < Literals /\ Symbol = data[pos]
         /\ Append(window, Symbol) = SubSeq(data, 1, pos)
<1>1. /\ pos = Len(window) + 1 /\ window = SubSeq(data, 1, Len(window)) /\ pos <= Len(data)
      /\ data \in Seq(Octets) /\ Len(data) \in Nat /\ Len(window) \in Nat /\ window \in Seq(Octets)
  BY DEF InvType, LiteralUnderWay, IsAhead
<1>2. pos \in 1 .. Len(data)  BY <1>1
<1>3. PICK byte \in Octets : byte = data[pos]
  <2>1. data[pos] \in Octets  BY <1>1, <1>2, ElementOfSeq
  <2>. QED  BY <2>1
<1>4. PICK t : t = LiteralToken(byte)  OBVIOUS
<1>5. byte \in 0 .. Literals - 1 /\ byte < Literals  BY <1>3, MainCodes DEF Octets
<1>6. IsToken(t) /\ t.sym = byte  BY <1>4, <1>5, LiteralIsToken
<1>7. emitted = Elements(t)  BY <1>3, <1>4 DEF LiteralUnderWay
<1>8. emitted[1][1] = "main" /\ Symbol = byte  BY <1>6, <1>7, TokenReads
<1>9. Readable  BY <1>5, <1>8, MainCodes DEF Readable
<1>10. Append(window, byte) = SubSeq(data, 1, pos)
  <2>1. PICK z \in Nat : z = Len(window)  BY <1>1
  <2>2. /\ SubSeq(data, 1, z + 1) \in Seq(Octets) /\ Len(SubSeq(data, 1, z + 1)) = z + 1
        /\ \A m \in 1 .. z + 1 : SubSeq(data, 1, z + 1)[m] = data[1 + m - 1]
    BY <1>1, <2>1
  <2>3. Append(window, byte) \in Seq(Octets) /\ Len(Append(window, byte)) = z + 1  BY <1>1, <1>3, <2>1
  <2>4. \A m \in 1 .. z : window[m] = data[m]
    <3>1. \A m \in 1 .. z : SubSeq(data, 1, z)[m] = data[1 + m - 1]  BY <1>1, <2>1
    <3>. QED  BY <3>1, <1>1, <2>1
  <2>5. \A m \in 1 .. z + 1 : Append(window, byte)[m] = data[m]
    BY <1>1, <1>3, <2>1, <2>4
  <2>6. \A m \in 1 .. z + 1 : 1 + m - 1 = m  BY <2>1
  <2>7. Append(window, byte) = SubSeq(data, 1, z + 1)  BY <2>2, <2>3, <2>5, <2>6, SeqEqual
  <2>. QED  BY <1>1, <2>1, <2>7
<1>. QED  BY <1>3, <1>5, <1>8, <1>9, <1>10

(* What it makes of a match: its length and offset, and the recent offsets *)
(* that the encoder has.                                                   *)
LEMMA MatchReads ==
  ASSUME InvType, NEW l \in minMatch .. maxMatch, NEW o \in 1 .. Len(window),
         o + minMatch < WindowSize, IsAhead(l), Matches(Len(window), l, o), emitted = Elements(MatchToken(recentOf, l, o))
  PROVE  /\ Readable /\ Symbol >= Literals /\ LengthRead = l /\ OffsetRead = o
         /\ RecentAfter(recentOf, o) = IF SlotOfSymbol < 3 THEN Swapped(recentOf, SlotOfSymbol + 1)
                                       ELSE Pushed(recentOf, OffsetRead)
         /\ Copied(l, o) = SubSeq(data, 1, pos)
<1>1. /\ pos = Len(window) + l /\ window = SubSeq(data, 1, Len(window)) /\ pos <= Len(data)
      /\ Len(data) <= WindowSize /\ data \in Seq(Octets) /\ Len(data) \in Nat
      /\ window \in Seq(Octets) /\ Len(window) \in Nat /\ WindowSize \in Nat
  <2>1. pos = Len(window) + l /\ window = SubSeq(data, 1, Len(window))  BY DEF IsAhead
  <2>2. /\ pos <= Len(data) /\ Len(data) <= WindowSize
        /\ data \in Seq(Octets) /\ window \in Seq(Octets)
    BY DEF InvType
  <2>3. Len(data) \in Nat /\ Len(window) \in Nat  BY <2>2
  <2>. QED  BY <2>1, <2>2, <2>3, Bases
<1>2. l \in Nat /\ minMatch <= l /\ o \in Nat \ {0}  BY <1>1, Lengths
<1>3. o + minMatch < WindowSize  OBVIOUS
<1>4. PICK t : t = MatchToken(recentOf, l, o)  OBVIOUS
<1>5. /\ IsToken(t) /\ t.sym >= Literals
      /\ ((t.sym - Literals) % (Short + 1)) + (IF t.lenSym >= 0 THEN t.lenSym ELSE 0) = l - minMatch
      /\ SlotsOf(recentOf, o) # {} => t.slot < 3 /\ t.slot + 1 = Least(SlotsOf(recentOf, o))
      /\ SlotsOf(recentOf, o) = {} => t.slot >= 3 /\ basePosition[t.slot + 1] - minMatch + t.extra = o
  <2>1. o \in Nat \ {0} /\ l \in minMatch .. maxMatch  BY <1>2
  <2>2. Says(t, recentOf, l, o)  BY <2>1, <1>3, <1>4, MatchIsToken
  <2>. QED  BY <2>2 DEF Says
<1>6. emitted = Elements(t)  BY <1>4
<1>7. /\ emitted[1][1] = "main" /\ Symbol = t.sym
      /\ ValueOf("length") = IF t.lenSym >= 0 THEN t.lenSym ELSE 0
      /\ Shape(emitted) = Asked /\ SlotOfSymbol = t.slot
      /\ t.slot < 3 => OffsetRead = recentOf[t.slot + 1]
      /\ t.slot >= 3 => OffsetRead = basePosition[t.slot + 1] - minMatch + t.extra
  BY <1>5, <1>6, TokenReads
<1>8. t.slot \in Int /\ t.slot <= MainSlots
  <2>1. IsToken(t)  BY <1>5
  <2>2. t.slot \in -1 .. MainSlots - 1  BY <2>1, TokenIs
  <2>. QED  BY <2>2, MainCodes
<1>9. OffsetRead = o
  <2>1. CASE SlotsOf(recentOf, o) # {}
    <3>1. recentOf[Least(SlotsOf(recentOf, o))] = o  BY <2>1, SlotsAre
    <3>. QED  BY <1>5, <1>7, <2>1, <3>1
  <2>2. CASE SlotsOf(recentOf, o) = {}  BY <1>5, <1>7, <2>2
  <2>. QED  BY <2>1, <2>2
<1>10. LengthRead = l
  <2>1. PICK a \in Int : a = (t.sym - Literals) % (Short + 1)
    <3>0. IsToken(t) /\ t.sym >= Literals  BY <1>5
    <3>3. t.sym \in Nat  BY <3>0, TokenIs
    <3>1. t.sym - Literals \in Nat /\ Short + 1 \in Nat \ {0}  BY <3>0, <3>3, MainCodes
    <3>2. (t.sym - Literals) % (Short + 1) \in 0 .. (Short + 1) - 1  BY <3>1, DivBounds
    <3>. QED  BY <3>2, MainCodes
  <2>2. PICK b \in Int : b = IF t.lenSym >= 0 THEN t.lenSym ELSE 0
    <3>1. t.lenSym \in Int  BY <1>5, LenSymIs
    <3>. QED  BY <3>1
  <2>3. a + b = l - minMatch  BY <1>5, <2>1, <2>2
  <2>4. LengthRead = minMatch + a + b  BY <1>7, <2>1, <2>2 DEF LengthRead, ShortOfSymbol
  <2>. QED  BY <1>2, <2>3, <2>4, Lengths
<1>11. Symbol >= Literals  BY <1>5, <1>7
<1>12. Readable
  <2>1. SlotOfSymbol <= MainSlots  BY <1>7, <1>8
  <2>2. LengthRead <= Len(data) - Len(window)  BY <1>1, <1>2, <1>10
  <2>. QED  BY <1>7, <1>9, <2>1, <2>2 DEF Readable
<1>13. RecentAfter(recentOf, o) = IF SlotOfSymbol < 3 THEN Swapped(recentOf, SlotOfSymbol + 1)
                                  ELSE Pushed(recentOf, OffsetRead)
  <2>1. CASE SlotsOf(recentOf, o) # {}  BY <1>5, <1>7, <2>1 DEF RecentAfter
  <2>2. CASE SlotsOf(recentOf, o) = {}
    <3>1. ~ (SlotOfSymbol < 3)  BY <1>5, <1>7, <1>8, <2>2
    <3>. QED  BY <1>9, <2>2, <3>1 DEF RecentAfter
  <2>. QED  BY <2>1, <2>2
<1>14. Copied(l, o) = SubSeq(data, 1, pos)
  <2>1. Len(window) + l <= Len(data)  BY <1>1
  <2>2. Copied(l, o) = SubSeq(data, 1, Len(window) + l)  BY <1>1, <1>2, <2>1, CopiedRemakes
  <2>. QED  BY <1>1, <2>2
<1>. QED  BY <1>9, <1>10, <1>11, <1>12, <1>13, <1>14

(* The decoder follows: what it has is a chunk's, no longer than the chunk. *)
LEMMA DecodeKeeps == InvType /\ InvStream /\ Decode => 
    window' \in Seq(Octets) /\ Len(window') <= Len(data) /\ recentOf' \in [1 .. 3 -> Nat]
<1>. SUFFICES ASSUME InvType, InvStream, Decode
              PROVE  window' \in Seq(Octets) /\ Len(window') <= Len(data) /\ recentOf' \in [1 .. 3 -> Nat]
  OBVIOUS
<1>1. emitted # <<>> /\ Readable  BY DEF Decode
<1>2. PICK t : IsToken(t) /\ emitted = Elements(t)  BY <1>1 DEF InvStream, TokenUnderWay
<1>3. Len(window) < Len(data)  BY <1>1 DEF InvStream, TokenUnderWay
<1>4. /\ window \in Seq(Octets) /\ Len(window) \in Nat /\ Len(data) \in Nat
      /\ recentOf \in [1 .. 3 -> Nat]
  BY DEF InvType
<1>5. Symbol = t.sym /\ t.sym \in Nat  BY <1>2, TokenReads, TokenIs
<1>6. CASE Symbol < Literals
  <2>1. window' = Append(window, Symbol) /\ recentOf' = recentOf  BY <1>6 DEF Decode
  <2>2. Symbol \in Octets  BY <1>5, <1>6, MainCodes DEF Octets
  <2>3. window' \in Seq(Octets) /\ Len(window') = Len(window) + 1  BY <1>4, <2>1, <2>2
  <2>. QED  BY <1>3, <1>4, <2>1, <2>3
<1>7. CASE ~ (Symbol < Literals)
  <2>1. /\ window' = Copied(LengthRead, OffsetRead)
        /\ recentOf' = IF SlotOfSymbol < 3 THEN Swapped(recentOf, SlotOfSymbol + 1)
                       ELSE Pushed(recentOf, OffsetRead)
    BY <1>7 DEF Decode
  <2>2. t.sym >= Literals  BY <1>5, <1>7, MainCodes
  <2>3. /\ OffsetRead \in 1 .. Len(window) /\ LengthRead <= Len(data) - Len(window)
    BY <1>1, <1>5, <2>2 DEF Readable
  <2>4. SlotOfSymbol = t.slot /\ ValueOf("length") = IF t.lenSym >= 0 THEN t.lenSym ELSE 0
    BY <1>2, <2>2, TokenReads
  <2>5. t.slot \in Nat
    <3>1. t.slot \in -1 .. MainSlots - 1 /\ t.slot # -1  BY <1>2, <2>2, <1>5, TokenIs, MainCodes
    <3>. QED  BY <3>1, MainCodes
  <2>6. LengthRead \in Nat
    <3>1. t.sym - Literals \in Nat /\ Short + 1 \in Nat \ {0}  BY <1>5, <2>2, MainCodes
    <3>2. (t.sym - Literals) % (Short + 1) \in 0 .. (Short + 1) - 1  BY <3>1, DivBounds
    <3>3. PICK a \in Nat : a = (t.sym - Literals) % (Short + 1)  BY <3>2, MainCodes
    <3>4. PICK b \in Nat : b = ValueOf("length")
      <4>1. t.lenSym \in Int  BY <1>2, LenSymIs
      <4>. QED  BY <4>1, <2>4
    <3>5. LengthRead = minMatch + a + b  BY <1>5, <3>3, <3>4 DEF LengthRead, ShortOfSymbol
    <3>. QED  BY <3>5, Lengths
  <2>7. Copied(LengthRead, OffsetRead) \in Seq(Octets)
        /\ Len(Copied(LengthRead, OffsetRead)) = Len(window) + LengthRead
    BY <1>4, <2>3, <2>6, CopiedFits
  <2>8. Len(window') <= Len(data)  BY <1>4, <2>1, <2>3, <2>6, <2>7
  <2>9. recentOf' \in [1 .. 3 -> Nat]
    <3>1. CASE SlotOfSymbol < 3
      <4>1. SlotOfSymbol + 1 \in 1 .. 3  BY <2>4, <2>5, <3>1
      <4>. QED  BY <1>4, <2>1, <3>1, <4>1 DEF Swapped
    <3>2. CASE ~ (SlotOfSymbol < 3)
      <4>1. OffsetRead \in Nat  BY <2>3, <1>4
      <4>2. recentOf[1] \in Nat /\ recentOf[2] \in Nat  BY <1>4
      <4>3. recentOf' = <<OffsetRead, recentOf[1], recentOf[2]>>  BY <2>1, <3>2 DEF Pushed
      <4>. QED  BY <4>1, <4>2, <4>3
    <3>. QED  BY <3>1, <3>2
  <2>. QED  BY <2>1, <2>7, <2>8, <2>9
<1>. QED  BY <1>6, <1>7

(* And where nothing was damaged, it comes to be where the encoder is.     *)
LEMMA DecodeCatchesUp ==
  InvType /\ InvStream /\ by # "damaged" /\ emitted # <<>> =>
    Readable /\ (Decode => window' = SubSeq(data, 1, pos) /\ recentOf' = recent)
<1>. SUFFICES ASSUME InvType, InvStream, by # "damaged", emitted # <<>>
              PROVE  Readable /\ (Decode => window' = SubSeq(data, 1, pos) /\ recentOf' = recent)
  OBVIOUS
<1>1. CASE LiteralUnderWay
  <2>1. Readable /\ Symbol < Literals /\ Append(window, Symbol) = SubSeq(data, 1, pos)
    BY <1>1, LiteralReads
  <2>. QED  BY <1>1, <2>1 DEF Decode, LiteralUnderWay
<1>2. CASE MatchUnderWay
  <2>1. PICK l \in minMatch .. maxMatch, o \in 1 .. Len(window) :
          /\ IsAhead(l) /\ Matches(Len(window), l, o) /\ o + minMatch < WindowSize
          /\ recent = RecentAfter(recentOf, o)
          /\ emitted = Elements(MatchToken(recentOf, l, o))
    BY <1>2 DEF MatchUnderWay
  <2>2. /\ Readable /\ Symbol >= Literals /\ LengthRead = l /\ OffsetRead = o
        /\ RecentAfter(recentOf, o) = IF SlotOfSymbol < 3 THEN Swapped(recentOf, SlotOfSymbol + 1)
                                      ELSE Pushed(recentOf, OffsetRead)
        /\ Copied(l, o) = SubSeq(data, 1, pos)
    BY <2>1, MatchReads
  <2>3. ~ (Symbol < Literals)
    <3>1. PICK t : IsToken(t) /\ emitted = Elements(t)  BY DEF InvStream, TokenUnderWay
    <3>2. Symbol \in Nat  BY <3>1, TokenReads, TokenIs
    <3>. QED  BY <2>2, <3>2, MainCodes
  <2>. QED  BY <2>1, <2>2, <2>3 DEF Decode
<1>. QED  BY <1>1, <1>2 DEF InvStream

-----------------------------------------------------------------------------
(* A token is emitted.                                                     *)

StreamKept == UNCHANGED <<by, data, nth, aligned, window, recentOf, corrupt>>

LEMMA ElementsKept == aligned' = aligned => \A t : Elements(t)' = Elements(t)
BY DEF Elements

(* A token is emitted where the two are in step.                           *)
LEMMA InStepIs ==
  InvType /\ InvStream /\ by # "damaged" /\ emitted = <<>> =>
    Len(window) = pos /\ window = SubSeq(data, 1, pos) /\ recentOf = recent
<1>. SUFFICES ASSUME InvType, InvStream, by # "damaged", emitted = <<>>
              PROVE  Len(window) = pos /\ window = SubSeq(data, 1, pos) /\ recentOf = recent
  OBVIOUS
<1>1. window = SubSeq(data, 1, pos) /\ recentOf = recent  BY DEF InvStream, InStep
<1>2. data \in Seq(Octets) /\ Len(data) \in Nat /\ pos \in Nat /\ pos <= Len(data)  BY DEF InvType
<1>. QED  BY <1>1, <1>2

(* A literal is emitted, or a match that is one.                           *)
LEMMA EmitLiteralKeeps ==
  InvType /\ InvStream /\ by # "damaged" /\ emitted = <<>> /\ pos < Len(data) /\ EmitLiteral =>
    /\ StreamKept /\ LiteralUnderWay' /\ TokenUnderWay'
    /\ recent' \in [1 .. 3 -> Nat] /\ pos' \in Nat /\ pos' <= Len(data)
<1>. SUFFICES ASSUME InvType, InvStream, by # "damaged", emitted = <<>>, pos < Len(data), EmitLiteral
              PROVE  /\ StreamKept /\ LiteralUnderWay' /\ TokenUnderWay'
                     /\ recent' \in [1 .. 3 -> Nat] /\ pos' \in Nat /\ pos' <= Len(data)
  OBVIOUS
<1>1. /\ emitted' = Coded(LiteralToken(data[pos + 1])) /\ pos' = pos + 1 /\ recent' = recent
      /\ StreamKept
  BY DEF EmitLiteral, StreamKept, decoder
<1>2. /\ data \in Seq(Octets) /\ Len(data) \in Nat /\ pos \in Nat /\ recent \in [1 .. 3 -> Nat]
  BY DEF InvType
<1>3. Len(window) = pos /\ window = SubSeq(data, 1, pos) /\ recentOf = recent  BY InStepIs
<1>4. PICK byte \in Octets : byte = data[pos + 1]
  <2>1. data[pos + 1] \in Octets  BY <1>2, ElementOfSeq
  <2>. QED  BY <2>1
<1>5. PICK t : t = LiteralToken(byte)  OBVIOUS
<1>6. IsToken(t)  BY <1>4, <1>5, LiteralIsToken DEF Octets
<1>7. emitted' = Elements(t)  BY <1>1, <1>4, <1>5, <1>6, CodedIs
<1>8. emitted' = Elements(t)'  BY <1>1, <1>7, ElementsKept DEF StreamKept
<1>9. LiteralUnderWay'
  BY <1>1, <1>2, <1>3, <1>4, <1>5, <1>8 DEF LiteralUnderWay, IsAhead, StreamKept
<1>10. TokenUnderWay'
  BY <1>1, <1>2, <1>3, <1>6, <1>8 DEF TokenUnderWay, StreamKept
<1>. QED  BY <1>1, <1>2, <1>9, <1>10

LEMMA EmitMatchKeeps ==
  ASSUME InvType, InvStream, by # "damaged", emitted = <<>>,
         NEW l \in minMatch .. maxMatch, NEW o \in 1 .. pos, pos + l <= Len(data),
         o + minMatch < WindowSize, Matches(pos, l, o), EmitMatch(l, o)
  PROVE  /\ StreamKept /\ MatchUnderWay' /\ TokenUnderWay'
         /\ recent' \in [1 .. 3 -> Nat] /\ pos' \in Nat /\ pos' <= Len(data)
<1>1. /\ emitted' = Coded(MatchToken(recent, l, o)) /\ pos' = pos + l
      /\ recent' = RecentAfter(recent, o) /\ StreamKept
  BY DEF EmitMatch, StreamKept, decoder
<1>2. /\ data \in Seq(Octets) /\ Len(data) \in Nat /\ pos \in Nat /\ recent \in [1 .. 3 -> Nat]
      /\ Len(data) <= WindowSize /\ WindowSize \in Nat
  BY Bases DEF InvType
<1>3. Len(window) = pos /\ window = SubSeq(data, 1, pos) /\ recentOf = recent  BY InStepIs
<1>4. l \in Nat /\ minMatch <= l /\ o \in Nat \ {0} /\ pos < Len(data)  BY <1>2, Lengths
<1>5. o + minMatch < WindowSize  OBVIOUS
<1>6. PICK t : t = MatchToken(recent, l, o)  OBVIOUS
<1>7. IsToken(t)
  <2>1. Says(t, recent, l, o)  BY <1>4, <1>5, <1>6, MatchIsToken
  <2>. QED  BY <2>1 DEF Says
<1>8. emitted' = Elements(t)  BY <1>1, <1>6, <1>7, CodedIs
<1>9. emitted' = Elements(t)'  BY <1>1, <1>8, ElementsKept DEF StreamKept
<1>10. TokenUnderWay'
  BY <1>1, <1>2, <1>3, <1>4, <1>7, <1>9 DEF TokenUnderWay, StreamKept
<1>11. recent' \in [1 .. 3 -> Nat]
  <2>1. CASE SlotsOf(recent, o) # {}
    <3>1. PICK s \in 1 .. 3 : s = Least(SlotsOf(recent, o))  BY <2>1, SlotsAre
    <3>. QED  BY <1>1, <1>2, <2>1, <3>1 DEF RecentAfter, Swapped
  <2>2. CASE SlotsOf(recent, o) = {}
    <3>1. recent' = <<o, recent[1], recent[2]>>  BY <1>1, <2>2 DEF RecentAfter, Pushed
    <3>2. recent[1] \in Nat /\ recent[2] \in Nat  BY <1>2
    <3>. QED  BY <1>4, <3>1, <3>2
  <2>. QED  BY <2>1, <2>2
<1>12. MatchUnderWay'
  <2>1. o \in 1 .. Len(window)  BY <1>3
  <2>2. IsAhead(l)'  BY <1>1, <1>3 DEF IsAhead, StreamKept
  <2>3. Matches(Len(window), l, o)'  BY <1>1, <1>3 DEF Matches, StreamKept
  <2>4. (recent = RecentAfter(recentOf, o))'  BY <1>1, <1>3 DEF StreamKept
  <2>5. (emitted = Elements(MatchToken(recentOf, l, o)))'
    <3>1. MatchToken(recentOf, l, o)' = t  BY <1>1, <1>3, <1>6 DEF StreamKept
    <3>. QED  BY <1>9, <3>1
  <2>6. window' = window  BY <1>1 DEF StreamKept
  <2>. QED  BY <2>1, <2>2, <2>3, <2>4, <2>5, <2>6 DEF MatchUnderWay
<1>. QED  BY <1>1, <1>2, <1>4, <1>10, <1>11, <1>12

-----------------------------------------------------------------------------
(* What the encoder of this program takes.                                 *)

LEMMA FinderTypeIs == InvType => FinderType
BY DEF InvType, FinderType

(* A match that findMatches takes is one.                                  *)
LEMMA FoundIs ==
  ASSUME FinderType, NEW p \in Nat, p = pos, p < Len(data),
         NEW m, m = Found, m.length >= minLength
  PROVE  /\ m.length \in minLength .. maxMatch /\ p + m.length <= Len(data)
         /\ m.offset \in 1 .. p /\ Matches(p, m.length, m.offset)
<1>1. LongestMatch(p) \in Best(p)  BY LongestMatchIs
<1>2. m \in Best(p)
  <2>1. NoMatch \in Best(p)  BY DEF Best, NoMatch
  <2>. QED  BY <1>1, <2>1 DEF Found
<1>3. m.length \in Nat /\ m.length # 0  BY <1>2, Lengths DEF Best
<1>4. m.length <= LimitAt(p) /\ m.offset \in 1 .. p /\ Matches(p, m.length, m.offset)
  BY <1>2, <1>3 DEF Best
<1>5. LimitAt(p) \in Nat /\ LimitAt(p) <= maxMatch /\ p + LimitAt(p) <= Len(data)
  <2>1. p <= Len(data)  BY DEF FinderType
  <2>. QED  BY <2>1, LimitIs
<1>6. Len(data) \in Nat  BY DEF FinderType
<1>. QED  BY <1>3, <1>4, <1>5, <1>6, Lengths

LEMMA InsertNextKeeps ==
  ASSUME InvType, NEW x \in Nat, InsertNext(x)
  PROVE  head' \in [Buckets -> Nat] /\ prev' \in [Positions -> Nat]
<1>1. FinderType /\ pos \in Nat  BY FinderTypeIs DEF InvType
<1>2. PICK c \in [0 .. x -> Chained] : Inserted(x) = c[x]  BY <1>1, InsertedRuns
<1>3. Inserted(x) \in Chained  BY <1>2
<1>4. head' = Inserted(x).head /\ prev' = Inserted(x).prev  BY DEF InsertNext
<1>. QED  BY <1>3, <1>4 DEF Chained

-----------------------------------------------------------------------------
(* The steps.                                                              *)

LEMMA TokensAreThere == ASSUME NEW t, IsToken(t) PROVE Elements(t) # <<>>
<1>1. Elements(t) = <<MainPart(t)>> \/ Elements(t) = <<MainPart(t), LengthPart(t)>>
      \/ Elements(t) = <<MainPart(t), BitsPart(t)>>
      \/ Elements(t) = <<MainPart(t), LengthPart(t), BitsPart(t)>>
      \/ Elements(t) = <<MainPart(t), HighPart(t), LowPart(t)>>
      \/ Elements(t) = <<MainPart(t), LengthPart(t), HighPart(t), LowPart(t)>>
  BY KindsOfTokens, ElementsAre
<1>. QED  BY <1>1

(* The stream, one token further.                                          *)
LEMMA EmitKeeps ==
  ASSUME Inv, by # "damaged", by = "own" => phase = "decode",
         StreamKept, LiteralUnderWay' \/ MatchUnderWay', TokenUnderWay',
         recent' \in [1 .. 3 -> Nat], pos' \in Nat, pos' <= Len(data),
         head' \in [Buckets -> Nat], prev' \in [Positions -> Nat], UNCHANGED e8Vars
  PROVE  Inv'
<1>1. UNCHANGED <<by, data, aligned, window, recentOf, corrupt>>  BY DEF StreamKept
<1>2. plain' = plain /\ buf' = buf /\ i' = i /\ phase' = phase  BY DEF e8Vars
<1>3. InvType'  BY <1>1 DEF Inv, InvType
<1>4. InvStream'
  <2>1. emitted' # <<>>
    <3>1. PICK t : IsToken(t) /\ emitted' = Elements(t)'  BY DEF TokenUnderWay
    <3>2. Elements(t)' = Elements(t)  BY <1>1, ElementsKept
    <3>. QED  BY <3>1, <3>2, TokensAreThere
  <2>. QED  BY <1>1, <2>1 DEF Inv, InvStream
<1>5. InvTranslation'
  <2>1. E8Inv'  BY E8Stutters DEF Inv, InvTranslation
  <2>. QED  BY <1>1, <1>2, <2>1 DEF Inv, InvTranslation
<1>. QED  BY <1>3, <1>4, <1>5 DEF Inv

(* Each step of the program keeps the invariant: those of the encoders,    *)
LEMMA CompressKeeps == Inv /\ Compress => Inv'
<1>. SUFFICES ASSUME Inv, Compress PROVE Inv'  OBVIOUS
<1>1. /\ phase = "decode" /\ Find /\ UNCHANGED e8Vars /\ by = "own" /\ emitted = <<>>
      /\ pos < Len(data) /\ InvType /\ InvStream
  BY DEF Compress, Find, Encodes, Inv
<1>2. CASE EmitLiteral /\ InsertNext(1)
  <2>1. /\ StreamKept /\ LiteralUnderWay' /\ TokenUnderWay'
        /\ recent' \in [1 .. 3 -> Nat] /\ pos' \in Nat /\ pos' <= Len(data)
    BY <1>1, <1>2, EmitLiteralKeeps
  <2>2. head' \in [Buckets -> Nat] /\ prev' \in [Positions -> Nat]  BY <1>1, <1>2, InsertNextKeeps
  <2>. QED  BY <1>1, <2>1, <2>2, EmitKeeps
<1>3. CASE Found.length >= minLength /\ EmitMatch(Found.length, Found.offset)
           /\ InsertNext(Found.length)
  <2>1. PICK m : m = Found  OBVIOUS
  <2>2. pos \in Nat /\ FinderType  BY <1>1, FinderTypeIs DEF InvType
  <2>3. PICK p \in Nat : p = pos  BY <2>2
  <2>4. /\ m.length \in minLength .. maxMatch /\ p + m.length <= Len(data)
        /\ m.offset \in 1 .. p /\ Matches(p, m.length, m.offset)
    BY <1>1, <1>3, <2>1, <2>2, <2>3, FoundIs
  <2>5. m.length \in minMatch .. maxMatch /\ m.offset \in 1 .. pos /\ pos + m.length <= Len(data)
        /\ Matches(pos, m.length, m.offset) /\ EmitMatch(m.length, m.offset) /\ by # "damaged"
    BY <1>1, <1>3, <2>1, <2>3, <2>4, Lengths
  <2>8. m.offset + minMatch < WindowSize
    <3>1. Len(data) \in Nat /\ Len(data) <= WindowSize /\ WindowSize \in Nat
      BY <1>1, Bases DEF InvType
    <3>. QED  BY <2>3, <2>4, <3>1, Lengths
  <2>6. /\ StreamKept /\ MatchUnderWay' /\ TokenUnderWay'
        /\ recent' \in [1 .. 3 -> Nat] /\ pos' \in Nat /\ pos' <= Len(data)
    BY <1>1, <2>5, <2>8, EmitMatchKeeps
  <2>7. head' \in [Buckets -> Nat] /\ prev' \in [Positions -> Nat]
    <3>1. m.length \in Nat  BY <2>4, Lengths
    <3>. QED  BY <1>1, <1>3, <2>1, <3>1, InsertNextKeeps
  <2>. QED  BY <1>1, <2>6, <2>7, EmitKeeps
<1>. QED  BY <1>1, <1>2, <1>3 DEF Find

LEMMA OtherCompressesKeeps == Inv /\ OtherCompresses => Inv'
<1>. SUFFICES ASSUME Inv, OtherCompresses PROVE Inv'  OBVIOUS
<1>1. InvType /\ InvStream /\ UNCHANGED e8Vars /\ head' = head /\ prev' = prev
  BY DEF OtherCompresses, Inv, chains
<1>2. head' \in [Buckets -> Nat] /\ prev' \in [Positions -> Nat]  BY <1>1 DEF InvType
<1>3. CASE Literal
  <2>1. by = "other" /\ emitted = <<>> /\ pos < Len(data) /\ EmitLiteral
    BY <1>3 DEF Literal, Encodes
  <2>2. /\ StreamKept /\ LiteralUnderWay' /\ TokenUnderWay'
        /\ recent' \in [1 .. 3 -> Nat] /\ pos' \in Nat /\ pos' <= Len(data)
    BY <1>1, <2>1, EmitLiteralKeeps
  <2>. QED  BY <1>1, <1>2, <2>1, <2>2, EmitKeeps
<1>4. CASE Match
  <2>1. by = "other" /\ emitted = <<>> /\ pos < Len(data)  BY <1>4 DEF Match, Encodes
  <2>2. PICK l \in minMatch .. LongestLength, o \in 1 .. pos :
          Matches(pos, l, o) /\ o + minMatch < WindowSize /\ EmitMatch(l, o)
    BY <1>4 DEF Match
  <2>3. l \in minMatch .. maxMatch /\ pos + l <= Len(data)
    <3>1. pos \in Nat /\ Len(data) \in Nat  BY <1>1 DEF InvType
    <3>. QED  BY <2>1, <3>1, Lengths DEF LongestLength
  <2>4. /\ StreamKept /\ MatchUnderWay' /\ TokenUnderWay'
        /\ recent' \in [1 .. 3 -> Nat] /\ pos' \in Nat /\ pos' <= Len(data)
    BY <1>1, <2>1, <2>2, <2>3, EmitMatchKeeps
  <2>. QED  BY <1>1, <1>2, <2>1, <2>4, EmitKeeps
<1>5. CASE Damage
  <2>1. /\ by = "damaged" /\ emitted = <<>> /\ Len(window) < Len(data)
        /\ UNCHANGED <<encoder, decoder>>
    BY <1>5 DEF Damage
  <2>2. PICK t : IsToken(t) /\ emitted' = Elements(t)  BY <1>5 DEF Damage
  <2>3. UNCHANGED <<by, data, aligned, pos, recent, window, recentOf, corrupt>>
    BY <2>1 DEF encoder, decoder
  <2>4. emitted' = Elements(t)'  BY <2>2, <2>3, ElementsKept
  <2>5. InvType'  BY <1>1, <2>3 DEF InvType
  <2>6. InvStream'  BY <2>1, <2>2, <2>3, <2>4 DEF InvStream, TokenUnderWay
  <2>7. InvTranslation'
    <3>1. E8Inv'  BY <1>1, E8Stutters DEF Inv, InvTranslation
    <3>2. phase' = phase  BY <1>1 DEF e8Vars
    <3>. QED  BY <2>1, <2>3, <3>1, <3>2 DEF Inv, InvTranslation
  <2>. QED  BY <2>5, <2>6, <2>7 DEF Inv
<1>. QED  BY <1>3, <1>4, <1>5 DEF OtherCompresses

-----------------------------------------------------------------------------

(* those of the decoder,                                                   *)
LEMMA DecompressKeeps == Inv /\ Decompress => Inv'
<1>. SUFFICES ASSUME Inv, Decompress PROVE Inv'  OBVIOUS
<1>1. /\ Decode /\ head' = head /\ prev' = prev /\ plain' = plain /\ i' = i /\ phase' = phase
      /\ buf' = IF by = "own" /\ Len(window') = Len(data) THEN window' ELSE buf
      /\ InvType /\ InvStream
  BY DEF Decompress, Follow, Inv
<1>2. /\ emitted # <<>> /\ emitted' = <<>>
      /\ UNCHANGED <<by, data, aligned, pos, recent, corrupt>>
  BY <1>1 DEF Decode, encoder
<1>3. window' \in Seq(Octets) /\ Len(window') <= Len(data) /\ recentOf' \in [1 .. 3 -> Nat]
  BY <1>1, DecodeKeeps
<1>4. by # "damaged" => window' = SubSeq(data, 1, pos) /\ recentOf' = recent
  BY <1>1, <1>2, DecodeCatchesUp
<1>5. InvType'  BY <1>1, <1>2, <1>3 DEF InvType
<1>6. InvStream'  BY <1>1, <1>2, <1>4 DEF InvStream, InStep
<1>7. Len(window) < Len(data)  BY <1>1, <1>2 DEF InvStream, TokenUnderWay
<1>8. by = "own" => phase = "decode" /\ data # <<>> /\ buf = data /\ i = 0
  BY <1>2, <1>7 DEF Inv, InvTranslation
<1>9. buf' = buf
  <2>. SUFFICES ASSUME by = "own", Len(window') = Len(data) PROVE window' = buf  BY <1>1
  <2>1. window' = SubSeq(data, 1, pos) /\ pos \in Nat /\ pos <= Len(data) /\ data \in Seq(Octets)
        /\ Len(data) \in Nat
    BY <1>1, <1>4 DEF InvType
  <2>2. pos = Len(data)  BY <2>1
  <2>3. SubSeq(data, 1, Len(data)) = data  BY <2>1
  <2>. QED  BY <1>8, <2>1, <2>2, <2>3
<1>10. InvTranslation'
  <2>1. E8Inv'
    <3>1. UNCHANGED e8Vars  BY <1>1, <1>9 DEF e8Vars
    <3>. QED  BY <3>1, E8Stutters DEF Inv, InvTranslation
  <2>. QED  BY <1>1, <1>2, <1>8, <1>9, <2>1 DEF Inv, InvTranslation
<1>. QED  BY <1>5, <1>6, <1>10 DEF Inv

LEMMA DecompressFailsKeeps == Inv /\ DecompressFails => Inv'
<1>. SUFFICES ASSUME Inv, DecompressFails PROVE Inv'  OBVIOUS
<1>1. /\ Refuse /\ UNCHANGED e8Vars /\ head' = head /\ prev' = prev /\ InvType /\ InvStream
  BY DEF DecompressFails, Inv, chains
<1>2. /\ emitted # <<>> /\ ~ Readable /\ corrupt' = TRUE /\ emitted' = <<>>
      /\ UNCHANGED <<by, data, aligned, pos, recent, window, recentOf>>
  BY <1>1 DEF Refuse, encoder
<1>3. by = "damaged"  BY <1>1, <1>2, DecodeCatchesUp
<1>4. InvType'  BY <1>1, <1>2 DEF InvType
<1>5. InvStream'  BY <1>2, <1>3 DEF InvStream
<1>6. InvTranslation'
  <2>1. E8Inv'  BY <1>1, E8Stutters DEF Inv, InvTranslation
  <2>2. phase' = phase  BY <1>1 DEF e8Vars
  <2>. QED  BY <1>2, <1>3, <2>1, <2>2 DEF Inv, InvTranslation
<1>. QED  BY <1>4, <1>5, <1>6 DEF Inv

LEMMA ByteIs == Byte = Octets
BY ChunkAssumption DEF Octets

(* the beginning, and what is done to the whole chunk.                     *)
LEMMA InitHolds == Init => Inv
<1>. SUFFICES ASSUME Init PROVE Inv  OBVIOUS
<1>1. /\ pos = 0 /\ recent = NoOffsets /\ emitted = <<>> /\ corrupt = FALSE
      /\ head = Cleared /\ prev = [p \in Positions |-> 0]
  BY DEF Init
<1>2. NoOffsets \in [1 .. 3 -> Nat] /\ Cleared \in [Buckets -> Nat]
      /\ [p \in Positions |-> 0] \in [Positions -> Nat]
  BY DEF NoOffsets, Cleared
<1>8. <<>> \in Seq(Octets) /\ Len(<<>>) = 0  OBVIOUS
<1>9. corrupt \in BOOLEAN /\ pos \in Nat /\ recent \in [1 .. 3 -> Nat]
      /\ head \in [Buckets -> Nat] /\ prev \in [Positions -> Nat]
  BY <1>1, <1>2
<1>3. OtherChunks \cup DamagedChunks \subseteq Seq(Octets)
      /\ \A c \in OtherChunks \cup DamagedChunks : Len(c) <= WindowSize
  <2>1. \A c \in Chunks \cup OtherChunks \cup DamagedChunks : Len(c) \in 1 .. WindowSize
    BY ChunkAssumption
  <2>. QED  BY <2>1, ByteIs, ChunkAssumption, Bases
<1>4. Translated => E8Inv
  <2>. SUFFICES ASSUME Translated PROVE E8Inv  OBVIOUS
  <2>1. plain = <<>> /\ buf = <<>> /\ i = 0 /\ phase = "done"  BY DEF Translated
  <2>2. E8TypeInv /\ i <= Len(buf) /\ Len(buf) <= HalfWord  BY <2>1, E8Assumption DEF E8TypeInv
  <2>. QED  BY <2>1, <2>2 DEF E8Inv
<1>5. CASE by = "own" /\ E8Init /\ data = <<>> /\ aligned = FALSE /\ window = <<>>
           /\ recentOf = NoOffsets
  <2>1. InvType
    <3>1. data \in Seq(Octets) /\ Len(data) = 0 /\ Len(data) <= WindowSize  BY <1>5, <1>8, Bases
    <3>2. window \in Seq(Octets) /\ Len(window) <= Len(data) /\ pos <= Len(data)
      BY <1>1, <1>5, <1>8, <3>1
    <3>. QED  BY <1>2, <1>5, <1>9, <3>1, <3>2 DEF InvType
  <2>2. SubSeq(data, 1, 0) = <<>>  BY <1>5
  <2>3. InvStream  BY <1>1, <1>5, <2>2 DEF InvStream, InStep
  <2>4. E8Inv  BY <1>5, E8InvInit
  <2>5. plain \in Chunks /\ phase = "encode"  BY <1>5 DEF E8Init
  <2>6. InvTranslation  BY <1>1, <1>5, <2>4, <2>5 DEF InvTranslation
  <2>. QED  BY <2>1, <2>3, <2>6 DEF Inv
<1>6. CASE by = "other" /\ Translated /\ data \in OtherChunks /\ aligned \in BOOLEAN
           /\ window = <<>> /\ recentOf = NoOffsets
  <2>0. data \in Seq(Octets) /\ Len(data) <= WindowSize /\ Len(data) \in Nat  BY <1>3, <1>6
  <2>1. InvType
    <3>1. window \in Seq(Octets) /\ Len(window) <= Len(data) /\ pos <= Len(data)
      BY <1>1, <1>6, <1>8, <2>0
    <3>. QED  BY <1>2, <1>6, <1>9, <2>0, <3>1 DEF InvType
  <2>2. SubSeq(data, 1, 0) = <<>>  BY <2>0
  <2>3. InvStream  BY <1>1, <1>6, <2>2 DEF InvStream, InStep
  <2>4. InvTranslation  BY <1>4, <1>6 DEF InvTranslation, Translated
  <2>. QED  BY <2>1, <2>3, <2>4 DEF Inv
<1>7. CASE /\ by = "damaged" /\ Translated /\ data \in DamagedChunks /\ aligned \in BOOLEAN
           /\ \E m \in 0 .. Len(data) - 1 : window = SubSeq(data, 1, m)
           /\ recentOf \in {NoOffsets, <<0, 2, WindowSize>>}
  <2>0. data \in Seq(Octets) /\ Len(data) <= WindowSize /\ Len(data) \in Nat  BY <1>3, <1>7
  <2>1. PICK m \in 0 .. Len(data) - 1 : window = SubSeq(data, 1, m)  BY <1>7
  <2>2. window \in Seq(Octets) /\ Len(window) <= Len(data)  BY <2>0, <2>1
  <2>3. recentOf \in [1 .. 3 -> Nat]
    <3>1. WindowSize \in Nat  BY Bases
    <3>2. <<0, 2, WindowSize>> \in [1 .. 3 -> Nat]  BY <3>1
    <3>. QED  BY <1>2, <1>7, <3>2
  <2>4. InvType
    <3>1. pos <= Len(data)  BY <1>1, <2>0
    <3>. QED  BY <1>7, <1>9, <2>0, <2>2, <2>3, <3>1 DEF InvType
  <2>5. InvStream  BY <1>1, <1>7 DEF InvStream
  <2>6. InvTranslation  BY <1>4, <1>7 DEF InvTranslation, Translated
  <2>. QED  BY <2>4, <2>5, <2>6 DEF Inv
<1>. QED  BY <1>5, <1>6, <1>7 DEF Init

LEMMA StreamStutters ==
  UNCHANGED <<streamVars, chains>> =>
    /\ UNCHANGED <<by, data, pos, emitted, window>>
    /\ (InvType => InvType') /\ (InvStream => InvStream')
<1>. SUFFICES ASSUME UNCHANGED <<streamVars, chains>>
              PROVE  /\ UNCHANGED <<by, data, pos, emitted, window>>
                     /\ (InvType => InvType') /\ (InvStream => InvStream')
  OBVIOUS
<1>1. UNCHANGED <<by, data, aligned, pos, recent, emitted, window, recentOf, corrupt, head, prev>>
  BY DEF streamVars, chains
<1>2. InvType => InvType'  BY <1>1 DEF InvType
<1>3. \A t : Elements(t)' = Elements(t)  BY <1>1, ElementsKept
<1>4. InStep' <=> InStep  BY <1>1 DEF InStep
<1>5. TokenUnderWay' <=> TokenUnderWay  BY <1>1, <1>3 DEF TokenUnderWay
<1>6. LiteralUnderWay' <=> LiteralUnderWay  BY <1>1, <1>3 DEF LiteralUnderWay, IsAhead
<1>7. MatchUnderWay' <=> MatchUnderWay  BY <1>1, <1>3 DEF MatchUnderWay, IsAhead, Matches
<1>8. InvStream => InvStream'  BY <1>1, <1>4, <1>5, <1>6, <1>7 DEF InvStream
<1>. QED  BY <1>1, <1>2, <1>8

LEMMA TranslateKeeps == Inv /\ Translate => Inv'
<1>. SUFFICES ASSUME Inv, Translate PROVE Inv'  OBVIOUS
<1>1. (Pass \/ EncodeCall) /\ phase = "encode" /\ UNCHANGED <<streamVars, chains>>
  BY DEF Translate
<1>2. InvType' /\ InvStream' /\ UNCHANGED <<by, data, pos, emitted, window>>
  BY <1>1, StreamStutters DEF Inv
<1>3. E8Inv'  BY <1>1, PassKeeps, EncodeCallKeeps DEF Inv, InvTranslation
<1>4. plain' = plain /\ phase' = phase  BY <1>1 DEF Pass, EncodeCall
<1>5. InvTranslation'  BY <1>1, <1>2, <1>3, <1>4 DEF Inv, InvTranslation
<1>. QED  BY <1>2, <1>5 DEF Inv

LEMMA BeginTokensKeeps == Inv /\ BeginTokens => Inv'
<1>. SUFFICES ASSUME Inv, BeginTokens PROVE Inv'  OBVIOUS
<1>1. /\ EncodeEnds /\ data' = buf /\ aligned' \in BOOLEAN /\ pos' = 0 /\ recent' = NoOffsets
      /\ window' = <<>> /\ recentOf' = NoOffsets /\ head' = Cleared
      /\ UNCHANGED <<by, nth, emitted, corrupt, prev>>
  BY DEF BeginTokens
<1>2. phase = "encode" /\ phase' = "decode" /\ i' = 0 /\ plain' = plain /\ buf' = buf
  BY <1>1 DEF EncodeEnds
<1>3. by = "own" /\ emitted = <<>> /\ plain \in Chunks
  BY <1>2 DEF Inv, InvType, InvTranslation
<1>4. E8Inv /\ E8Inv'  BY <1>1, EncodeEndsKeeps DEF Inv, InvTranslation
<1>5. buf \in Seq(Octets) /\ Len(buf) = Len(plain)  BY <1>4, ByteIs DEF E8Inv, E8TypeInv
<1>6. Len(plain) \in 1 .. WindowSize  BY <1>3, ChunkAssumption
<1>7. Len(buf) \in Nat /\ Len(buf) <= WindowSize /\ buf # <<>>  BY <1>5, <1>6, Bases
<1>8. NoOffsets \in [1 .. 3 -> Nat] /\ Cleared \in [Buckets -> Nat]  BY DEF NoOffsets, Cleared
<1>9. InvType'  BY <1>1, <1>3, <1>5, <1>7, <1>8 DEF Inv, InvType
<1>10. InvStream'
  <2>1. SubSeq(data', 1, 0) = <<>>  BY <1>1, <1>5
  <2>2. ~ corrupt  BY <1>3 DEF Inv, InvStream
  <2>. QED  BY <1>1, <1>3, <2>1, <2>2 DEF InvStream, InStep
<1>11. InvTranslation'
  BY <1>1, <1>2, <1>3, <1>4, <1>7 DEF InvTranslation
<1>. QED  BY <1>9, <1>10, <1>11 DEF Inv

LEMMA RestoreKeeps == Inv /\ Restore => Inv'
<1>. SUFFICES ASSUME Inv, Restore PROVE Inv'  OBVIOUS
<1>1. /\ phase = "decode" /\ Len(window) = Len(data) /\ (Pass \/ DecodeCall \/ DecodeEnds)
      /\ UNCHANGED <<streamVars, chains>>
  BY DEF Restore
<1>2. InvType' /\ InvStream' /\ UNCHANGED <<by, data, pos, emitted, window>>
  BY <1>1, StreamStutters DEF Inv
<1>3. E8Inv'  BY <1>1, PassKeeps, DecodeCallKeeps, DecodeEndsKeeps DEF Inv, InvTranslation
<1>4. plain' = plain /\ phase' \in {"decode", "done"}  BY <1>1 DEF Pass, DecodeCall, DecodeEnds
<1>5. by = "own" /\ data # <<>> /\ plain \in Chunks
  BY <1>1 DEF Inv, InvType, InvTranslation
<1>6. emitted = <<>> /\ pos = Len(data)
  <2>1. Len(data) \in Nat  BY DEF Inv, InvType
  <2>2. emitted = <<>>  BY <1>1, <2>1 DEF Inv, InvStream, TokenUnderWay
  <2>3. Len(window) = pos  BY <1>5, <2>2, InStepIs DEF Inv
  <2>. QED  BY <1>1, <2>2, <2>3
<1>7. ~ (Len(window') < Len(data'))
  <2>1. Len(data) \in Nat  BY DEF Inv, InvType
  <2>. QED  BY <1>1, <1>2, <2>1
<1>8. InvTranslation'
  BY <1>2, <1>3, <1>4, <1>5, <1>6, <1>7 DEF InvTranslation
<1>. QED  BY <1>2, <1>8 DEF Inv

LEMMA NextChunkKeeps == Inv /\ NextChunk => Inv'
<1>. SUFFICES ASSUME Inv, NextChunk PROVE Inv'  OBVIOUS
<1>1. /\ by = "own" /\ phase = "done" /\ plain' \in Pairs /\ buf' = plain' /\ i' = 0
      /\ phase' = "encode"
      /\ UNCHANGED <<by, data, aligned, pos, recent, emitted, window, recentOf, corrupt, chains>>
  BY DEF NextChunk
<1>2. plain' \in Chunks  BY <1>1, ChunkAssumption
<1>3. E8Init'  BY <1>1, <1>2 DEF E8Init
<1>4. E8Inv'  BY <1>3, E8InvInit, PTL
<1>5. emitted = <<>> /\ pos = Len(data)  BY <1>1 DEF Inv, InvTranslation
<1>6. head' = head /\ prev' = prev  BY <1>1 DEF chains
<1>7. InvType'  BY <1>1, <1>6 DEF Inv, InvType
<1>8. InvStream'  BY <1>1, <1>5 DEF Inv, InvStream, InStep
<1>9. InvTranslation'  BY <1>1, <1>2, <1>4, <1>5 DEF InvTranslation
<1>. QED  BY <1>7, <1>8, <1>9 DEF Inv

LEMMA Invariance == Spec => []Inv
<1>1. Inv /\ UNCHANGED vars => Inv'
  <2>. SUFFICES ASSUME Inv, UNCHANGED vars PROVE Inv'  OBVIOUS
  <2>1. UNCHANGED e8Vars /\ UNCHANGED <<streamVars, chains>>  BY DEF vars
  <2>2. InvType' /\ InvStream' /\ UNCHANGED <<by, data, pos, emitted, window>>
    BY <2>1, StreamStutters DEF Inv
  <2>3. plain' = plain /\ buf' = buf /\ i' = i /\ phase' = phase  BY <2>1 DEF e8Vars
  <2>4. E8Inv'  BY <2>1, E8Stutters DEF Inv, InvTranslation
  <2>5. InvTranslation'  BY <2>2, <2>3, <2>4 DEF Inv, InvTranslation
  <2>. QED  BY <2>2, <2>5 DEF Inv
<1>2. Inv /\ [Next]_vars => Inv'
  BY <1>1, TranslateKeeps, BeginTokensKeeps, CompressKeeps, OtherCompressesKeeps,
     DecompressKeeps, DecompressFailsKeeps, RestoreKeeps, NextChunkKeeps
  DEF Next
<1>. QED  BY InitHolds, <1>2, PTL DEF Spec

-----------------------------------------------------------------------------

(* Whatever matches are taken, those of findMatches or any others, the     *)
(* decoder makes the same bytes of them, keeps the same recent offsets and *)
(* refuses none; and what is written is symbols of the trees, and bits     *)
(* that the slots have.                                                    *)
THEOREM DecoderFollows == Spec => []DecoderInStep
<1>1. Inv => DecoderInStep
  <2>. SUFFICES ASSUME Inv, by # "damaged"
                PROVE  /\ ~corrupt /\ ElementsFit
                       /\ emitted = <<>> => window = SubSeq(data, 1, pos) /\ recentOf = recent
    BY DEF DecoderInStep
  <2>1. ~corrupt /\ (emitted = <<>> => window = SubSeq(data, 1, pos) /\ recentOf = recent)
    BY DEF Inv, InvStream, InStep
  <2>2. ElementsFit
    <3>1. CASE emitted = <<>>
      <4>1. DOMAIN emitted = {}  BY <3>1
      <4>. QED  BY <4>1 DEF ElementsFit
    <3>2. CASE emitted # <<>>
      <4>1. PICK t : IsToken(t) /\ emitted = Elements(t)
        BY <3>2 DEF Inv, InvStream, TokenUnderWay
      <4>. QED  BY <4>1, TokenFits
    <3>. QED  BY <3>1, <3>2
  <2>. QED  BY <2>1, <2>2
<1>. QED  BY <1>1, Invariance, PTL

(* Whatever is decoded, and be it damaged: no match is copied from before  *)
(* the window or to behind the end of the block.                           *)
THEOREM WindowIsNotLeft == Spec => []WindowIsKept
<1>1. Inv => WindowIsKept
  <2>. SUFFICES ASSUME Inv PROVE WindowIsKept  OBVIOUS
  <2>1. window \in Seq(Octets) /\ Len(window) <= Len(data)  BY DEF Inv, InvType
  <2>2. \A p \in DOMAIN window : window[p] \in Octets  BY <2>1
  <2>. QED  BY <2>1, <2>2 DEF WindowIsKept, Octets
<1>. QED  BY <1>1, Invariance, PTL

(* What is decompressed is what was compressed: of any chunk, with         *)
(* anything in it that looks like a call, by any match finder that finds   *)
(* matches.                                                                *)
THEOREM TranslationIsInverted == Spec => []TranslationInverts
<1>1. Inv => TranslationInverts  BY DEF Inv, InvTranslation, E8Inv, TranslationInverts
<1>. QED  BY <1>1, Invariance, PTL

-----------------------------------------------------------------------------
(* The chains.                                                             *)

(* The chains hold every position of before, each bucket its last one, and *)
(* each position the one before it that is in the same bucket.             *)
Here(q, b) == HasBytes(q) /\ Bucket(q) = b

IsLast(x, b, p) ==
  /\ x \in 0 .. p /\ (x # 0 => Here(x - 1, b))
  /\ \A q \in x .. p - 1 : ~Here(q, b)

InChains(c, p) ==
  /\ \A b \in Buckets : IsLast(c.head[b], b, p)
  /\ \A q \in 0 .. p - 1 : HasBytes(q) => IsLast(c.prev[q], Bucket(q), q)

ChainInv == by = "own" /\ phase = "decode" => InChains(AsTheyAre, pos)

(* insert chains one position more.                                        *)
LEMMA InsertChains ==
  ASSUME FinderType, NEW c \in Chained, NEW p \in Nat, InChains(c, p)
  PROVE  InChains(Insert(c, p), p + 1)
<1>0. \A q \in 0 .. (p + 1) - 1 : q \in 0 .. p - 1 \/ q = p  OBVIOUS
<1>1. ASSUME NEW x, NEW b, IsLast(x, b, p), ~Here(p, b)
      PROVE  IsLast(x, b, p + 1)
  <2>1. x \in 0 .. p /\ x \in 0 .. p + 1  BY <1>1 DEF IsLast
  <2>2. \A q \in x .. (p + 1) - 1 : q \in x .. p - 1 \/ q = p  BY <2>1
  <2>. QED  BY <1>1, <2>1, <2>2 DEF IsLast
<1>2. CASE HasBytes(p)
  <2>1. PICK b \in Buckets : b = Bucket(p)  BY <1>2, BucketIs
  <2>2. p \in Positions
    <3>1. Len(data) \in Nat /\ Len(data) <= WindowSize /\ p + minLength <= Len(data) /\ WindowSize \in Nat
      BY <1>2, Bases DEF FinderType, HasBytes
    <3>. QED  BY <3>1, Lengths DEF Positions
  <2>3. PICK d \in Chained : d = Insert(c, p)  BY InsertIs
  <2>4. c.head \in [Buckets -> Nat] /\ c.prev \in [Positions -> Nat]  BY DEF Chained
  <2>5. d.head = [c.head EXCEPT ![b] = p + 1] /\ d.prev = [c.prev EXCEPT ![p] = c.head[b]]
    BY <1>2, <2>1, <2>3 DEF Insert
  <2>6. ASSUME NEW a \in Buckets PROVE IsLast(d.head[a], a, p + 1)
    <3>1. CASE a = b
      <4>1. d.head[a] = p + 1  BY <2>4, <2>5, <3>1
      <4>2. (p + 1) - 1 = p /\ p + 1 \in 0 .. p + 1 /\ \A q \in p + 1 .. (p + 1) - 1 : FALSE  OBVIOUS
      <4>3. Here(p, a)  BY <1>2, <2>1, <3>1 DEF Here
      <4>. QED  BY <4>1, <4>2, <4>3 DEF IsLast
    <3>2. CASE a # b
      <4>1. d.head[a] = c.head[a]  BY <2>4, <2>5, <3>2
      <4>2. ~Here(p, a)  BY <2>1, <3>2 DEF Here
      <4>3. IsLast(c.head[a], a, p)  BY DEF InChains
      <4>. QED  BY <4>1, <4>2, <4>3, <1>1
    <3>. QED  BY <3>1, <3>2
  <2>7. ASSUME NEW q \in 0 .. (p + 1) - 1, HasBytes(q) PROVE IsLast(d.prev[q], Bucket(q), q)
    <3>1. CASE q = p
      <4>1. d.prev[q] = c.head[b]  BY <2>2, <2>4, <2>5, <3>1
      <4>. QED  BY <2>1, <3>1, <4>1 DEF InChains
    <3>2. CASE q # p
      <4>1. q \in 0 .. p - 1  BY <1>0, <3>2
      <4>2. d.prev[q] = c.prev[q]  BY <2>4, <2>5, <3>2
      <4>. QED  BY <2>7, <4>1, <4>2 DEF InChains
    <3>. QED  BY <3>1, <3>2
  <2>. QED  BY <2>3, <2>6, <2>7 DEF InChains
<1>3. CASE ~HasBytes(p)
  <2>1. Insert(c, p) = c  BY <1>3 DEF Insert
  <2>2. \A b : ~Here(p, b)  BY <1>3 DEF Here
  <2>3. \A b \in Buckets : IsLast(c.head[b], b, p + 1)  BY <1>1, <2>2 DEF InChains
  <2>4. \A q \in 0 .. (p + 1) - 1 : HasBytes(q) => IsLast(c.prev[q], Bucket(q), q)
    BY <1>0, <1>3 DEF InChains
  <2>. QED  BY <2>1, <2>3, <2>4 DEF InChains
<1>. QED  BY <1>2, <1>3

LEMMA InsertedChains ==
  ASSUME FinderType, NEW x \in Nat, pos \in Nat, InChains(AsTheyAre, pos)
  PROVE  InChains(Inserted(x), pos + x)
<1>1. PICK c \in [0 .. x -> Chained] :
        /\ c[0] = AsTheyAre /\ \A q \in 1 .. x : c[q] = Insert(c[q - 1], pos + q - 1)
        /\ Inserted(x) = c[x]
  BY InsertedRuns
<1>. DEFINE S == {q \in Nat : q <= x => InChains(c[q], pos + q)}
<1>2. 0 \in S
  <2>1. pos + 0 = pos  OBVIOUS
  <2>. QED  BY <1>1, <2>1
<1>3. ASSUME NEW q \in 1 .. x, q - 1 \in S PROVE q \in S
  <2>1. PICK p \in Nat : p = pos + q - 1  OBVIOUS
  <2>2. InChains(c[q - 1], p)
    <3>1. pos + (q - 1) = p  BY <2>1
    <3>. QED  BY <1>3, <3>1
  <2>3. c[q - 1] \in Chained /\ c[q] = Insert(c[q - 1], p)
    <3>1. q - 1 \in 0 .. x  OBVIOUS
    <3>. QED  BY <1>1, <2>1, <3>1
  <2>4. InChains(Insert(c[q - 1], p), p + 1)  BY <2>2, <2>3, InsertChains
  <2>5. p + 1 = pos + q  BY <2>1
  <2>. QED  BY <2>3, <2>4, <2>5
<1>. HIDE DEF S
<1>4. 0 .. x \subseteq S  BY <1>2, <1>3, StepByStep
<1>5. x \in S  BY <1>4
<1>. QED  BY <1>1, <1>5 DEF S

(* How far a search has come: what it has seen is no longer than what it   *)
(* has, or it is content.                                                  *)
LengthAt(p, q) == MatchLen(p, q, LimitAt(p))

OnChain(s, p) == s.cur \in 0 .. p /\ (s.cur # 0 => s.cur - 1 \in Alike(p))

Seen(s, p) ==
  s.best.length >= goodMatch \/ \A q \in Alike(p) : q >= s.cur => LengthAt(p, q) <= s.best.length

NotWorse(b, p) == b = OfRecent(p) \/ b.length > OfRecent(p).length

Visited(s, p) == {q \in Alike(p) : q >= s.cur}

Comes(s, p) == OnChain(s, p) /\ Seen(s, p) /\ NotWorse(s.best, p)

LEMMA AlikeHere ==
  ASSUME FinderType, NEW p \in Nat, HasBytes(p), NEW q \in Alike(p)
  PROVE  q \in 0 .. p - 1 /\ q \in Nat /\ HasBytes(q) /\ Here(q, Bucket(p))
<1>1. q \in 0 .. p - 1 /\ Bucket(q) = Bucket(p)  BY DEF Alike
<1>2. Len(data) \in Nat /\ p + minLength <= Len(data)  BY DEF FinderType, HasBytes
<1>3. HasBytes(q)  BY <1>1, <1>2, Lengths DEF HasBytes
<1>. QED  BY <1>1, <1>3 DEF Here

(* The longer of two is taken.                                             *)
LEMMA LongerTakes ==
  ASSUME NEW p \in Nat, LimitAt(p) \in Nat, NEW b, b.length \in Nat, NEW o, NEW c,
         c = Longer(b, p, o, LimitAt(p))
  PROVE  /\ MatchLen(p, p - o, LimitAt(p)) \in 0 .. LimitAt(p)
         /\ c.length \in Nat /\ c.length >= b.length
         /\ c.length >= MatchLen(p, p - o, LimitAt(p))
         /\ c = b \/ (c.length > b.length /\ c.offset = o)
<1>. DEFINE l == MatchLen(p, p - o, LimitAt(p))
<1>1. l \in 0 .. LimitAt(p)  BY MatchLenIs
<1>2. c = IF l > b.length THEN [length |-> l, offset |-> o] ELSE b  BY DEF Longer
<1>. HIDE DEF l
<1>3. CASE l > b.length
  <2>1. c.length = l /\ c.offset = o  BY <1>2, <1>3
  <2>. QED  BY <1>1, <1>3, <2>1 DEF l
<1>4. CASE ~ (l > b.length)
  <2>1. c = b  BY <1>2, <1>4
  <2>. QED  BY <1>1, <1>4, <2>1 DEF l
<1>. QED  BY <1>3, <1>4

(* A step of it.                                                           *)
LEMMA AlongComes ==
  ASSUME FinderType, NEW p \in Nat, HasBytes(p), InChains(AsTheyAre, p),
         NEW s \in Sought(p), Comes(s, p), NEW t, t = Along(s, p)
  PROVE  /\ Comes(t, p)
         /\ t.cur = 0 \/ (/\ s.cur # 0 /\ s.cur - 1 \in Visited(t, p) /\ s.cur - 1 \notin Visited(s, p)
                          /\ Visited(s, p) \subseteq Visited(t, p))
<1>1. /\ s.best \in Best(p) /\ s.cur \in Nat /\ goodMatch \in Nat
      /\ Len(data) \in Nat /\ Len(data) <= WindowSize /\ p < Len(data) /\ WindowSize \in Nat
  <2>1. goodMatch \in Nat  BY FinderAssumption, Zenon
  <2>. QED  BY <2>1, Bases, Lengths DEF Sought, FinderType, HasBytes
<1>2. s.best.length \in Nat  BY <1>1 DEF Best
<1>3. LimitAt(p) \in Nat
  <2>1. p <= Len(data)  BY <1>1
  <2>. QED  BY <2>1, LimitIs
<1>4. CASE s.cur = 0
  <2>1. t = [s EXCEPT !.cur = 0]  BY <1>4 DEF Along
  <2>2. t.cur = 0 /\ t.best = s.best  BY <2>1 DEF Sought
  <2>. QED  BY <1>4, <2>2 DEF Comes, OnChain, Seen
<1>5. CASE s.cur # 0
  <2>1. PICK z \in Nat : z = s.cur - 1  BY <1>1, <1>5
  <2>2. z \in Alike(p) /\ s.cur \in 0 .. p  BY <1>5, <2>1 DEF Comes, OnChain
  <2>3. z \in 0 .. p - 1 /\ HasBytes(z) /\ Bucket(z) = Bucket(p)  BY <2>2, AlikeHere DEF Alike
  <2>4. PICK o \in 1 .. p : o = p + 1 - s.cur  BY <1>1, <2>1, <2>3
  <2>5. PICK b : b = Longer(s.best, p, o, LimitAt(p))  OBVIOUS
  <2>6. p - o = z  BY <2>1, <2>4, <1>1
  <2>7. /\ LengthAt(p, z) \in 0 .. LimitAt(p) /\ b.length \in Nat /\ b.length >= s.best.length
        /\ b.length >= LengthAt(p, z)
        /\ b = s.best \/ (b.length > s.best.length /\ b.offset = o)
    BY <1>2, <1>3, <2>5, <2>6, LongerTakes DEF LengthAt
  <2>8. t = [best |-> b, cur |-> IF b # s.best /\ (b.length >= goodMatch \/ b.length = LimitAt(p))
                                 THEN 0 ELSE prev[z]]
    <3>1. ~ (s.cur = 0 \/ o \notin 1 .. WindowSize)  BY <1>1, <1>5, <2>4
    <3>. QED  BY <2>1, <2>4, <2>5, <3>1 DEF Along
  <2>9. t.best = b  BY <2>8
  <2>10. NotWorse(b, p)
    <3>1. OfRecent(p).length \in Nat
      <4>1. p <= Len(data)  BY <1>1
      <4>2. OfRecent(p) \in Best(p)  BY <4>1, OfRecentIs
      <4>. QED  BY <4>2 DEF Best
    <3>. QED  BY <1>2, <2>7, <3>1 DEF Comes, NotWorse
  <2>11. IsLast(prev[z], Bucket(p), z)
    <3>1. IsLast(AsTheyAre.prev[z], Bucket(z), z)  BY <2>3 DEF InChains
    <3>. QED  BY <2>3, <3>1 DEF AsTheyAre
  <2>12. PICK y \in Nat : y = prev[z] /\ y \in 0 .. z  BY <2>11 DEF IsLast
  <2>13. \A q \in Alike(p) : q >= y => q = z \/ q >= s.cur
    <3>. SUFFICES ASSUME NEW q \in Alike(p), q >= y, q # z, ~ (q >= s.cur) PROVE FALSE  OBVIOUS
    <3>1. q \in Nat /\ Here(q, Bucket(p))  BY AlikeHere
    <3>2. q \in y .. z - 1  BY <1>1, <2>1, <3>1
    <3>. QED  BY <2>11, <2>12, <3>1, <3>2 DEF IsLast
  <2>14. CASE b # s.best /\ (b.length >= goodMatch \/ b.length = LimitAt(p))
    <3>1. t.cur = 0  BY <2>8, <2>14
    <3>2. Seen(t, p)
      <4>1. CASE b.length >= goodMatch  BY <2>9, <4>1 DEF Seen
      <4>2. CASE b.length = LimitAt(p)
        <5>1. \A q : LengthAt(p, q) \in 0 .. LimitAt(p)  BY <1>3, MatchLenIs DEF LengthAt
        <5>2. \A q : LengthAt(p, q) <= b.length  BY <1>3, <4>2, <5>1
        <5>. QED  BY <2>9, <5>2 DEF Seen
      <4>. QED  BY <2>14, <4>1, <4>2
    <3>. QED  BY <2>9, <2>10, <3>1, <3>2 DEF Comes, OnChain
  <2>15. CASE ~ (b # s.best /\ (b.length >= goodMatch \/ b.length = LimitAt(p)))
    <3>1. t.cur = y  BY <2>8, <2>12, <2>15
    <3>2. OnChain(t, p)
      <4>1. y \in 0 .. p  BY <2>3, <2>12
      <4>2. y # 0 => y - 1 \in Alike(p)
        <5>. SUFFICES ASSUME y # 0 PROVE y - 1 \in Alike(p)  OBVIOUS
        <5>1. Here(y - 1, Bucket(p))  BY <2>11, <2>12 DEF IsLast
        <5>2. y - 1 \in 0 .. p - 1  BY <2>3, <2>12
        <5>. QED  BY <5>1, <5>2 DEF Alike, Here
      <4>. QED  BY <3>1, <4>1, <4>2 DEF OnChain
    <3>3. Seen(t, p)
      <4>1. CASE s.best.length >= goodMatch
        <5>1. b.length >= goodMatch  BY <1>1, <1>2, <2>7, <4>1
        <5>. QED  BY <2>9, <5>1 DEF Seen
      <4>2. CASE \A q \in Alike(p) : q >= s.cur => LengthAt(p, q) <= s.best.length
        <5>1. ASSUME NEW q \in Alike(p), q >= y PROVE LengthAt(p, q) <= b.length
          <6>1. CASE q = z  BY <2>7, <6>1
          <6>2. CASE q >= s.cur
            <7>1. LengthAt(p, q) <= s.best.length  BY <4>2, <6>2
            <7>2. LengthAt(p, q) \in 0 .. LimitAt(p)  BY <1>3, MatchLenIs DEF LengthAt
            <7>. QED  BY <1>2, <1>3, <2>7, <7>1, <7>2
          <6>. QED  BY <2>13, <5>1, <6>1, <6>2
        <5>. QED  BY <2>9, <3>1, <5>1 DEF Seen
      <4>. QED  BY <4>1, <4>2 DEF Comes, Seen
    <3>4. z \in Visited(t, p) /\ z \notin Visited(s, p) /\ Visited(s, p) \subseteq Visited(t, p)
      <4>1. z >= y /\ ~ (z >= s.cur) /\ y <= s.cur  BY <1>1, <2>1, <2>12
      <4>2. \A q \in Alike(p) : q >= s.cur => q >= y
        <5>1. \A q \in Alike(p) : q \in Nat  BY AlikeHere
        <5>. QED  BY <1>1, <4>1, <5>1
      <4>. QED  BY <2>2, <3>1, <4>1, <4>2 DEF Visited
    <3>. QED  BY <1>5, <2>1, <2>9, <2>10, <3>2, <3>3, <3>4 DEF Comes
  <2>. QED  BY <2>14, <2>15
<1>. QED  BY <1>4, <1>5

(* The recent offsets are tried before the chain.                          *)
LEMMA AfterRecentTakes ==
  ASSUME NEW p \in Nat, LimitAt(p) \in Nat, NEW b, b.length \in Nat, NEW r, NEW c,
         c = AfterRecent(b, p, r)
  PROVE  /\ c.length \in Nat /\ c.length >= b.length
         /\ r \in 1 .. p => c.length >= LengthAt(p, p - r)
         /\ c = b \/ (c.length > b.length /\ c.offset = r)
<1>1. CASE r \in 1 .. p
  <2>1. c = Longer(b, p, r, LimitAt(p))  BY <1>1 DEF AfterRecent
  <2>. QED  BY <2>1, LongerTakes DEF LengthAt
<1>2. CASE r \notin 1 .. p
  <2>1. c = b  BY <1>2 DEF AfterRecent
  <2>. QED  BY <1>2, <2>1
<1>. QED  BY <1>1, <1>2

LEMMA OfRecentTakes ==
  ASSUME FinderType, NEW p \in Nat, p <= Len(data), NEW c, c = OfRecent(p)
  PROVE  /\ \A s \in 1 .. 3 : recent[s] \in 1 .. p => LengthAt(p, p - recent[s]) <= c.length
         /\ c.length > 0 => c.offset \in {recent[s] : s \in 1 .. 3}
<1>1. LimitAt(p) \in Nat  BY LimitIs
<1>. DEFINE L(s) == LengthAt(p, p - recent[s])
<1>2. \A s : L(s) \in Nat
  <2>1. \A s : L(s) \in 0 .. LimitAt(p)  BY <1>1, MatchLenIs DEF LengthAt
  <2>. QED  BY <1>1, <2>1
<1>3. PICK a0 : a0 = NoMatch  OBVIOUS
<1>4. a0.length = 0  BY <1>3 DEF NoMatch
<1>5. PICK a1 : a1 = AfterRecent(a0, p, recent[1])  OBVIOUS
<1>6. /\ a1.length \in Nat /\ a1.length >= a0.length
      /\ recent[1] \in 1 .. p => a1.length >= L(1)
      /\ a1 = a0 \/ (a1.length > a0.length /\ a1.offset = recent[1])
  BY <1>1, <1>4, <1>5, AfterRecentTakes
<1>7. PICK a2 : a2 = AfterRecent(a1, p, recent[2])  OBVIOUS
<1>8. /\ a2.length \in Nat /\ a2.length >= a1.length
      /\ recent[2] \in 1 .. p => a2.length >= L(2)
      /\ a2 = a1 \/ (a2.length > a1.length /\ a2.offset = recent[2])
  BY <1>1, <1>6, <1>7, AfterRecentTakes
<1>9. c = AfterRecent(a2, p, recent[3])  BY <1>3, <1>5, <1>7 DEF OfRecent
<1>10. /\ c.length \in Nat /\ c.length >= a2.length
       /\ recent[3] \in 1 .. p => c.length >= L(3)
       /\ c = a2 \/ (c.length > a2.length /\ c.offset = recent[3])
  BY <1>1, <1>8, <1>9, AfterRecentTakes
<1>. HIDE DEF L
<1>11. \A s \in 1 .. 3 : recent[s] \in 1 .. p => L(s) <= c.length
  <2>. SUFFICES ASSUME NEW s \in 1 .. 3, recent[s] \in 1 .. p PROVE L(s) <= c.length  OBVIOUS
  <2>1. CASE s = 1  BY <1>2, <1>6, <1>8, <1>10, <2>1
  <2>2. CASE s = 2  BY <1>2, <1>8, <1>10, <2>2
  <2>3. CASE s = 3  BY <1>2, <1>10, <2>3
  <2>. QED  BY <2>1, <2>2, <2>3
<1>12. c.length > 0 => c.offset \in {recent[1], recent[2], recent[3]}
  BY <1>4, <1>6, <1>8, <1>10
<1>. QED  BY <1>11, <1>12 DEF L

(* A search that is not cut short has seen all that begins alike.          *)
LEMMA SearchSees ==
  ASSUME FinderType, NEW p \in Nat, HasBytes(p), InChains(AsTheyAre, p),
         Cardinality(Alike(p)) <= maxChain, NEW m, m = LongestMatch(p)
  PROVE  /\ m \in Best(p) /\ NotWorse(m, p)
         /\ m.length >= goodMatch \/ \A q \in Alike(p) : LengthAt(p, q) <= m.length
<1>1. PICK s \in [0 .. maxChain -> Sought(p)] :
        /\ s[0] = SearchFrom(p) /\ \A q \in 1 .. maxChain : s[q] = Along(s[q - 1], p)
        /\ Searched(p) = s[maxChain]
  BY SearchRuns
<1>2. maxChain \in Nat  BY FinderAssumption, Zenon
<1>3. IsFiniteSet(Alike(p)) /\ Cardinality(Alike(p)) \in Nat
  <2>1. IsFiniteSet(0 .. p - 1)  BY FS_Interval
  <2>2. Alike(p) \subseteq 0 .. p - 1  BY DEF Alike
  <2>. QED  BY <2>1, <2>2, FS_Subset, FS_CardinalityType
<1>. DEFINE Enough(k) == s[k].cur = 0 \/ Cardinality(Visited(s[k], p)) >= k
            S == {k \in Nat : k <= maxChain => Comes(s[k], p) /\ Enough(k)}
<1>4. \A d : /\ Visited(d, p) \subseteq Alike(p)
             /\ IsFiniteSet(Visited(d, p)) /\ Cardinality(Visited(d, p)) \in Nat
  <2>1. \A d : Visited(d, p) \subseteq Alike(p)  BY DEF Visited
  <2>. QED  BY <1>3, <2>1, FS_Subset, FS_CardinalityType
<1>5. 0 \in S
  <2>1. s[0].cur = head[Bucket(p)] /\ s[0].best = OfRecent(p)  BY <1>1 DEF SearchFrom
  <2>2. PICK b \in Buckets : b = Bucket(p)  BY BucketIs
  <2>3. IsLast(head[b], b, p)  BY DEF InChains, AsTheyAre
  <2>4. PICK x \in Nat : x = head[b] /\ x \in 0 .. p  BY <2>3 DEF IsLast
  <2>5. OnChain(s[0], p)
    <3>1. x # 0 => x - 1 \in Alike(p)
      <4>. SUFFICES ASSUME x # 0 PROVE x - 1 \in Alike(p)  OBVIOUS
      <4>1. Here(x - 1, b) /\ x - 1 \in 0 .. p - 1  BY <2>3, <2>4 DEF IsLast
      <4>. QED  BY <2>2, <4>1 DEF Here, Alike
    <3>. QED  BY <2>1, <2>2, <2>4, <3>1 DEF OnChain
  <2>6. Seen(s[0], p)
    <3>1. \A q \in Alike(p) : ~ (q >= x)
      <4>. SUFFICES ASSUME NEW q \in Alike(p), q >= x PROVE FALSE  OBVIOUS
      <4>1. q \in 0 .. p - 1 /\ Here(q, b)  BY <2>2, AlikeHere
      <4>2. q \in x .. p - 1  BY <2>4, <4>1
      <4>. QED  BY <2>3, <2>4, <4>1, <4>2 DEF IsLast
    <3>. QED  BY <2>1, <2>2, <2>4, <3>1 DEF Seen
  <2>7. NotWorse(s[0].best, p)  BY <2>1 DEF NotWorse
  <2>8. Enough(0)  BY <1>4
  <2>. QED  BY <2>5, <2>6, <2>7, <2>8 DEF Comes
<1>6. ASSUME NEW k \in 1 .. maxChain, k - 1 \in S PROVE k \in S
  <2>1. k - 1 \in 0 .. maxChain /\ k \in Nat /\ k - 1 <= maxChain /\ k - 1 \in Nat  BY <1>2
  <2>2. PICK d \in Sought(p) : d = s[k - 1]  BY <1>1, <2>1
  <2>3. Comes(d, p) /\ (d.cur = 0 \/ Cardinality(Visited(d, p)) >= k - 1)  BY <1>6, <2>1, <2>2
  <2>4. PICK t : t = s[k] /\ t = Along(d, p)  BY <1>1, <2>2
  <2>5. /\ Comes(t, p)
        /\ t.cur = 0 \/ (/\ d.cur # 0 /\ d.cur - 1 \in Visited(t, p) /\ d.cur - 1 \notin Visited(d, p)
                         /\ Visited(d, p) \subseteq Visited(t, p))
    BY <2>3, <2>4, AlongComes
  <2>6. CASE t.cur = 0  BY <2>1, <2>4, <2>5, <2>6
  <2>7. CASE /\ d.cur # 0 /\ d.cur - 1 \in Visited(t, p) /\ d.cur - 1 \notin Visited(d, p)
             /\ Visited(d, p) \subseteq Visited(t, p)
    <3>1. Cardinality(Visited(d, p) \cup {d.cur - 1}) = Cardinality(Visited(d, p)) + 1
      BY <1>4, <2>7, FS_AddElement
    <3>2. Visited(d, p) \cup {d.cur - 1} \subseteq Visited(t, p)  BY <2>7
    <3>3. Cardinality(Visited(d, p) \cup {d.cur - 1}) <= Cardinality(Visited(t, p))
      BY <1>4, <3>2, FS_Subset
    <3>4. Cardinality(Visited(t, p)) >= k  BY <1>4, <2>1, <2>3, <2>7, <3>1, <3>3
    <3>. QED  BY <2>1, <2>4, <2>5, <3>4
  <2>. QED  BY <2>5, <2>6, <2>7
<1>. HIDE DEF S
<1>7. 0 .. maxChain \subseteq S  BY <1>2, <1>5, <1>6, StepByStep
<1>8. PICK d \in Sought(p) : d = s[maxChain]  BY <1>1, <1>2
<1>9. Comes(d, p) /\ (d.cur = 0 \/ Cardinality(Visited(d, p)) >= maxChain)
  <2>1. maxChain \in S  BY <1>2, <1>7
  <2>. QED  BY <1>2, <1>8, <2>1 DEF S
<1>10. d.cur = 0
  <2>. SUFFICES ASSUME d.cur # 0 PROVE FALSE  OBVIOUS
  <2>1. d.cur - 1 \in Alike(p) /\ d.cur \in Nat  BY <1>9 DEF Comes, OnChain
  <2>2. d.cur - 1 \notin Visited(d, p)  BY <2>1 DEF Visited
  <2>3. Cardinality(Visited(d, p) \cup {d.cur - 1}) = Cardinality(Visited(d, p)) + 1
    BY <1>4, <2>2, FS_AddElement
  <2>4. Visited(d, p) \cup {d.cur - 1} \subseteq Alike(p)  BY <1>4, <2>1
  <2>5. Cardinality(Visited(d, p) \cup {d.cur - 1}) <= Cardinality(Alike(p))
    BY <1>3, <2>4, FS_Subset
  <2>. QED  BY <1>2, <1>3, <1>4, <1>9, <2>3, <2>5
<1>11. m = d.best  BY <1>1, <1>8 DEF LongestMatch
<1>12. \A q \in Alike(p) : q >= d.cur  BY <1>10, AlikeHere
<1>. QED  BY <1>9, <1>11, <1>12, LongestMatchIs DEF Comes, Seen

(* What begins alike is in one bucket.                                     *)
LEMMA AlikeIs ==
  ASSUME FinderType, NEW p \in Nat, HasBytes(p), NEW o \in 1 .. p, LengthAt(p, p - o) >= minLength
  PROVE  p - o \in Alike(p)
<1>1. /\ data \in Seq(Octets) /\ Len(data) \in Nat /\ p + minLength <= Len(data)
      /\ minLength \in Nat
  BY Lengths DEF FinderType, HasBytes
<1>2. PICK q \in 0 .. p - 1 : q = p - o  OBVIOUS
<1>3. LimitAt(p) \in Nat
  <2>1. p <= Len(data)  BY <1>1
  <2>. QED  BY <2>1, LimitIs
<1>4. LengthAt(p, q) \in 0 .. LimitAt(p)
      /\ \A x \in 1 .. LengthAt(p, q) : data[p + x] = data[q + x]
  BY <1>3, MatchLenIs DEF LengthAt
<1>5. \A x \in 1 .. minLength : data[p + x] = data[q + x]
  <2>. TAKE x \in 1 .. minLength
  <2>1. x \in 1 .. LengthAt(p, q)  BY <1>1, <1>2, <1>3, <1>4
  <2>. QED  BY <1>4, <2>1
<1>6. /\ SubSeq(data, p + 1, p + minLength) \in Seq(Octets)
      /\ Len(SubSeq(data, p + 1, p + minLength)) = minLength
      /\ \A x \in 1 .. minLength : SubSeq(data, p + 1, p + minLength)[x] = data[p + x]
  <2>1. p + 1 \in 1 .. Len(data) + 1 /\ p + minLength \in p .. Len(data)  BY <1>1
  <2>. QED  BY <1>1, <2>1
<1>7. /\ SubSeq(data, q + 1, q + minLength) \in Seq(Octets)
      /\ Len(SubSeq(data, q + 1, q + minLength)) = minLength
      /\ \A x \in 1 .. minLength : SubSeq(data, q + 1, q + minLength)[x] = data[q + x]
  <2>1. q + 1 \in 1 .. Len(data) + 1 /\ q + minLength \in q .. Len(data)  BY <1>1
  <2>. QED  BY <1>1, <2>1
<1>8. SubSeq(data, p + 1, p + minLength) = SubSeq(data, q + 1, q + minLength)
  BY <1>5, <1>6, <1>7, SeqEqual
<1>. QED  BY <1>2, <1>8 DEF Alike, Bucket

-----------------------------------------------------------------------------

(* Cleared buckets hold what comes before the first position: nothing,     *)
(* whatever prev still has of the chunk before.                            *)
LEMMA ChainsBegin == InChains([head |-> Cleared, prev |-> prev], 0)
BY DEF InChains, IsLast, Cleared

LEMMA ChainInvKept ==
  Inv /\ Inv' /\ ChainInv /\ [Next]_vars => ChainInv'
<1>. SUFFICES ASSUME Inv, Inv', ChainInv, [Next]_vars, by' = "own", phase' = "decode"
              PROVE  InChains(AsTheyAre, pos)'
  BY DEF ChainInv
<1>1. ASSUME UNCHANGED <<by, data, pos, head, prev>>, phase = "decode" PROVE InChains(AsTheyAre, pos)'
  <2>1. InChains(AsTheyAre, pos)  BY <1>1 DEF ChainInv
  <2>2. AsTheyAre' = AsTheyAre  BY <1>1 DEF AsTheyAre
  <2>3. \A q : (HasBytes(q)' <=> HasBytes(q)) /\ Bucket(q)' = Bucket(q)
    BY <1>1 DEF HasBytes, Bucket
  <2>4. \A x, b, p : IsLast(x, b, p)' <=> IsLast(x, b, p)  BY <2>3 DEF IsLast, Here
  <2>. QED  BY <1>1, <2>1, <2>2, <2>3, <2>4 DEF InChains
<1>2. ASSUME NEW x \in Nat, InsertNext(x), pos' = pos + x, data' = data, by' = by, phase = "decode"
      PROVE  InChains(AsTheyAre, pos)'
  <2>1. FinderType /\ pos \in Nat /\ InChains(AsTheyAre, pos)
    BY <1>2, FinderTypeIs DEF Inv, InvType, ChainInv
  <2>2. InChains(Inserted(x), pos + x)  BY <2>1, InsertedChains
  <2>3. PICK c \in [0 .. x -> Chained] : Inserted(x) = c[x]  BY <2>1, InsertedRuns
  <2>4. Inserted(x) \in Chained  BY <2>3
  <2>5. AsTheyAre' = Inserted(x)
    <3>1. head' = Inserted(x).head /\ prev' = Inserted(x).prev  BY <1>2 DEF InsertNext
    <3>. QED  BY <2>4, <3>1 DEF AsTheyAre, Chained
  <2>6. \A q : (HasBytes(q)' <=> HasBytes(q)) /\ Bucket(q)' = Bucket(q)
    BY <1>2 DEF HasBytes, Bucket
  <2>7. \A y, b, p : IsLast(y, b, p)' <=> IsLast(y, b, p)  BY <2>6 DEF IsLast, Here
  <2>. QED  BY <1>2, <2>2, <2>5, <2>6, <2>7 DEF InChains
<1>3. CASE Translate
  BY <1>3 DEF Translate, Pass, EncodeCall
<1>4. CASE BeginTokens
  <2>1. head' = Cleared /\ prev' = prev /\ pos' = 0  BY <1>4 DEF BeginTokens
  <2>2. AsTheyAre' = [head |-> Cleared, prev |-> prev]'  BY <2>1 DEF AsTheyAre, Cleared
  <2>3. InChains([head |-> Cleared, prev |-> prev], 0)'  BY ChainsBegin, PTL
  <2>. QED  BY <2>1, <2>2, <2>3
<1>5. CASE Compress
  <2>1. phase = "decode" /\ by' = by /\ data' = data
    BY <1>5 DEF Compress, Find, EmitLiteral, EmitMatch
  <2>2. CASE EmitLiteral /\ InsertNext(1)  BY <1>2, <2>1, <2>2 DEF EmitLiteral
  <2>3. CASE Found.length >= minLength /\ EmitMatch(Found.length, Found.offset)
             /\ InsertNext(Found.length)
    <3>1. Found.length \in Nat
      <4>1. pos \in Nat /\ FinderType  BY FinderTypeIs DEF Inv, InvType
      <4>2. LongestMatch(pos) \in Best(pos)  BY <4>1, LongestMatchIs
      <4>3. NoMatch \in Best(pos)  BY DEF Best, NoMatch
      <4>4. Found \in Best(pos)  BY <4>2, <4>3 DEF Found
      <4>. QED  BY <4>4 DEF Best
    <3>2. pos' = pos + Found.length  BY <2>3 DEF EmitMatch
    <3>. QED  BY <1>2, <2>1, <2>3, <3>1, <3>2
  <2>. QED  BY <1>5, <2>2, <2>3 DEF Compress, Find
<1>6. CASE OtherCompresses
  BY <1>6 DEF OtherCompresses, Literal, Match, Damage, Encodes, EmitLiteral, EmitMatch, encoder
<1>7. CASE Decompress
  <2>1. UNCHANGED <<by, data, pos, head, prev>> /\ phase' = phase
    BY <1>7 DEF Decompress, Follow, Decode, encoder
  <2>. QED  BY <1>1, <2>1
<1>8. CASE DecompressFails
  <2>1. UNCHANGED <<by, data, pos, head, prev>> /\ phase' = phase
    BY <1>8 DEF DecompressFails, Refuse, encoder, chains, e8Vars
  <2>. QED  BY <1>1, <2>1
<1>9. CASE Restore
  <2>1. UNCHANGED <<by, data, pos, head, prev>> /\ phase = "decode"
    BY <1>9 DEF Restore, streamVars, chains
  <2>. QED  BY <1>1, <2>1
<1>10. CASE NextChunk  BY <1>10 DEF NextChunk
<1>11. CASE UNCHANGED vars
  <2>1. UNCHANGED <<by, data, pos, head, prev>> /\ phase' = phase
    BY <1>11 DEF vars, e8Vars, streamVars, chains
  <2>. QED  BY <1>1, <2>1
<1>. QED  BY <1>3, <1>4, <1>5, <1>6, <1>7, <1>8, <1>9, <1>10, <1>11 DEF Next

LEMMA ChainInvariance == Spec => []ChainInv
<1>1. Init => ChainInv  BY DEF Init, E8Init, Translated, ChainInv
<1>. QED  BY <1>1, ChainInvKept, Invariance, PTL DEF Spec

(* The chains of head and prev lead to every position that begins alike,   *)
(* though prev is never cleared: a search that no bound cuts short misses  *)
(* none that is longer, and does not give up a recent offset for one that  *)
(* is as long.                                                             *)
THEOREM LongestIsFound == Spec => []FindsLongest
<1>1. Inv /\ ChainInv => FindsLongest
  <2>. SUFFICES ASSUME Inv, ChainInv, by = "own", emitted = <<>>, pos < Len(data), HasBytes(pos),
                       NEW m, m = LongestMatch(pos), Cardinality(Alike(pos)) <= maxChain,
                       m.length < goodMatch, NEW offset \in 1 .. pos
                PROVE  /\ LengthAt(pos, pos - offset) >= minLength
                            => LengthAt(pos, pos - offset) <= m.length
                       /\ (offset \in {recent[s] : s \in 1 .. 3}
                           /\ LengthAt(pos, pos - offset) = m.length /\ m.length > 0)
                            => m.offset \in {recent[s] : s \in 1 .. 3}
    BY DEF FindsLongest, LengthAt
  <2>1. FinderType /\ pos \in Nat /\ Len(data) \in Nat  BY FinderTypeIs DEF Inv, InvType
  <2>2. goodMatch \in Nat  BY FinderAssumption, Zenon
  <2>3. phase = "decode"
    <3>1. pos # Len(data)  BY <2>1
    <3>. QED  BY <3>1 DEF Inv, InvTranslation
  <2>4. InChains(AsTheyAre, pos)  BY <2>3 DEF ChainInv
  <2>5. PICK p \in Nat : p = pos  BY <2>1
  <2>6. /\ m \in Best(p) /\ NotWorse(m, p)
        /\ m.length >= goodMatch \/ \A q \in Alike(p) : LengthAt(p, q) <= m.length
    BY <2>1, <2>4, <2>5, SearchSees
  <2>7. m.length \in Nat  BY <2>6 DEF Best
  <2>8. \A q \in Alike(p) : LengthAt(p, q) <= m.length  BY <2>2, <2>6, <2>7
  <2>9. LengthAt(p, p - offset) >= minLength => LengthAt(p, p - offset) <= m.length
    BY <2>1, <2>5, <2>8, AlikeIs
  <2>10. ASSUME offset \in {recent[s] : s \in 1 .. 3}, LengthAt(p, p - offset) = m.length, m.length > 0
         PROVE  m.offset \in {recent[s] : s \in 1 .. 3}
    <3>1. PICK s \in 1 .. 3 : offset = recent[s]  BY <2>10
    <3>2. PICK c : c = OfRecent(p)  OBVIOUS
    <3>3. /\ \A x \in 1 .. 3 : recent[x] \in 1 .. p => LengthAt(p, p - recent[x]) <= c.length
          /\ c.length > 0 => c.offset \in {recent[x] : x \in 1 .. 3}
      <4>1. p <= Len(data)  BY <2>1, <2>5
      <4>. QED  BY <2>1, <3>2, <4>1, OfRecentTakes
    <3>4. c.length \in Nat
      <4>1. p <= Len(data)  BY <2>1, <2>5
      <4>2. c \in Best(p)  BY <2>1, <3>2, <4>1, OfRecentIs
      <4>. QED  BY <4>2 DEF Best
    <3>5. m.length <= c.length  BY <2>5, <2>10, <3>1, <3>3
    <3>6. m = c  BY <2>6, <2>7, <3>2, <3>4, <3>5 DEF NotWorse
    <3>. QED  BY <2>10, <3>3, <3>6
  <2>. QED  BY <2>5, <2>9, <2>10
<1>. QED  BY <1>1, Invariance, ChainInvariance, PTL
=============================================================================
