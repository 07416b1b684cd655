----------------------------- MODULE LzxHuffman -----------------------------
(***************************************************************************)
(* The Huffman codes of a chunk: assignLengths, huffmanLengths,            *)
(* clampLengths and canonicalCodes (lzx/huffman.go), and what a decoder    *)
(* makes of the lengths alone, build and sym (lzx/decode.go).              *)
(*                                                                         *)
(* A merged node is known by its weight and by the symbols below it: the   *)
(* depth of a leaf, which the code finds by walking down from the root, is *)
(* the number of nodes that it is below.                                   *)
(***************************************************************************)
EXTENDS Integers, Sequences, FiniteSetsExt

CONSTANTS
  Alphabet,      \* the symbols, 0 .. n - 1
  Limit,         \* the longest code allowed
  maxTreePath    \* the longest code that a decoder knows

Size == Cardinality(Alphabet)

HuffmanAssumption ==
  /\ Size \in Nat \ {0, 1} /\ Alphabet = 0 .. Size - 1
  /\ maxTreePath \in Nat /\ Limit \in 1 .. maxTreePath /\ Size <= 2 ^ Limit

VARIABLES
  freq,       \* how often each of them occurs: the tallies of a chunk
  lens,
  leaves,     \* the used symbols not yet merged, the lightest first
  nodes,      \* the merged nodes: [weight, below]
  ni,         \* the first of them that is not merged itself
  order,      \* the lengths that clampLengths sorts the used symbols by
  phase       \* "start", "merge", "clamp", "deepen", "shorten", "done"

vars == <<freq, lens, leaves, nodes, ni, order, phase>>

Used == {s \in Alphabet : freq[s] > 0}

(* The sum of the first m values of f, which are counted from 0.           *)
Sum(f, m) ==
  LET sum[n \in 0 .. m] == IF n = 0 THEN 0 ELSE sum[n - 1] + f[n - 1] IN sum[m]

(* Symbols by a number each has, and by themselves where it ties: the one   *)
(* that m - 1 of them are before is at m.                                  *)
InOrder(S, f) ==
  [m \in 1 .. Cardinality(S) |->
     CHOOSE s \in S : Cardinality({t \in S : f[t] < f[s] \/ (f[t] = f[s] /\ t < s)}) = m - 1]

(* Over the used symbols.                                                  *)
OverUsed(f) == Sum([s \in Alphabet |-> IF s \in Used THEN f[s] ELSE 0], Size)

Starts(f) ==
  /\ freq = f
  /\ lens = [s \in Alphabet |-> 0]
  /\ leaves = <<>> /\ nodes = <<>> /\ ni = 1 /\ order = <<>> /\ phase = "start"

-----------------------------------------------------------------------------
(* Bug: the one symbol that is used stands alone.                          *)
FewAlone ==
  /\ phase = "start" /\ Cardinality(Used) < 2
  /\ lens' = [s \in Alphabet |-> IF s \in Used THEN 1 ELSE 0]
  /\ phase' = "done"
  /\ UNCHANGED <<freq, leaves, nodes, ni, order>>

(* No symbol needs no code; a single one borrows a second.                 *)
Few ==
  /\ phase = "start" /\ Cardinality(Used) < 2
  /\ lens' = [s \in Alphabet |->
                IF Used # {} /\ (s \in Used \/ s = IF 0 \in Used THEN 1 ELSE 0) THEN 1 ELSE 0]
  /\ phase' = "done"
  /\ UNCHANGED <<freq, leaves, nodes, ni, order>>

(* Bug: the leaves are merged in the order of the symbols.                 *)
SortNot ==
  /\ phase = "start" /\ Cardinality(Used) >= 2
  /\ leaves' = InOrder(Used, [s \in Alphabet |-> s])
  /\ phase' = "merge"
  /\ UNCHANGED <<freq, lens, nodes, ni, order>>

Sort ==
  /\ phase = "start" /\ Cardinality(Used) >= 2
  /\ leaves' = InOrder(Used, freq)
  /\ phase' = "merge"
  /\ UNCHANGED <<freq, lens, nodes, ni, order>>

(* next: the front of the leaves ls or of the nodes from n on, and what is *)
(* left of both.                                                           *)
NextOf(ls, n) ==
  IF ls # <<>> /\ (n > Len(nodes) \/ freq[Head(ls)] <= nodes[n].weight)
  THEN [weight |-> freq[Head(ls)], below |-> {Head(ls)}, leaves |-> Tail(ls), ni |-> n]
  ELSE [weight |-> nodes[n].weight, below |-> nodes[n].below, leaves |-> ls, ni |-> n + 1]

Remaining == Len(leaves) + Len(nodes) - ni + 1

Merge ==
  /\ phase = "merge" /\ Remaining > 1
  /\ LET a == NextOf(leaves, ni)
         b == NextOf(a.leaves, a.ni) IN
     /\ nodes' = Append(nodes, [weight |-> a.weight + b.weight, below |-> a.below \cup b.below])
     /\ leaves' = b.leaves /\ ni' = b.ni
  /\ UNCHANGED <<freq, lens, order, phase>>

(* walk: one node is left, the root.                                       *)
Depth == [s \in Alphabet |-> Cardinality({n \in DOMAIN nodes : s \in nodes[n].below})]

Merged ==
  /\ phase = "merge" /\ Remaining = 1
  /\ lens' = Depth
  /\ phase' = "clamp"
  /\ UNCHANGED <<freq, leaves, nodes, ni, order>>

-----------------------------------------------------------------------------
(* clampLengths.                                                           *)

One == 2 ^ Limit
Share(s) == One \div 2 ^ lens[s]
Total == OverUsed([s \in Used |-> Share(s)])

Smaller(a, b) == IF a <= b THEN a ELSE b

Clamp ==
  /\ phase = "clamp"
  /\ lens' = [s \in Alphabet |-> Smaller(lens[s], Limit)]
  /\ order' = lens'
  /\ phase' = "deepen"
  /\ UNCHANGED <<freq, leaves, nodes, ni>>

Before(s, t) == order[s] < order[t] \/ (order[s] = order[t] /\ s < t)
Movable == {s \in Used : lens[s] < Limit}

(* Over-subscribed: the first in order that is not at the limit goes one   *)
(* deeper; if all are, that is the end.                                    *)
Deepen ==
  /\ phase = "deepen"
  /\ \/ Total <= One /\ phase' = "shorten" /\ UNCHANGED lens
     \/ Total > One /\ Movable = {} /\ phase' = "done" /\ UNCHANGED lens
     \/ /\ Total > One /\ UNCHANGED phase
        /\ \E s \in Movable :
             /\ \A t \in Movable \ {s} : Before(s, t)
             /\ lens' = [lens EXCEPT ![s] = @ + 1]
  /\ UNCHANGED <<freq, leaves, nodes, ni, order>>

Fit == {s \in Used : lens[s] > 1 /\ Total + Share(s) <= One}

(* Under-subscribed: of the symbols that fit one level up, the deepest, and *)
(* of these the first.                                                     *)
Shorten ==
  /\ phase = "shorten"
  /\ \/ /\ Total < One /\ UNCHANGED phase
        /\ \E s \in Fit :
             /\ \A t \in Fit : lens[t] < lens[s] \/ (lens[t] = lens[s] /\ s <= t)
             /\ lens' = [lens EXCEPT ![s] = @ - 1]
     \/ (Total >= One \/ Fit = {}) /\ phase' = "done" /\ UNCHANGED lens
  /\ UNCHANGED <<freq, leaves, nodes, ni, order>>

Next == Few \/ Sort \/ Merge \/ Merged \/ Clamp \/ Deepen \/ Shorten

-----------------------------------------------------------------------------
(* canonicalCodes.                                                         *)

Having(l) == {s \in Alphabet : lens[s] = l}
Count(l) == IF l = 0 THEN 0 ELSE Cardinality(Having(l))

FirstCode[l \in 0 .. maxTreePath] == IF l = 0 THEN 0 ELSE 2 * (FirstCode[l - 1] + Count(l - 1))

(* Bug: the codes of a length are given out in no order of the symbols.    *)
CodeDescending(s) == FirstCode[lens[s]] + Cardinality({t \in Having(lens[s]) : t > s})

Code(s) == FirstCode[lens[s]] + Cardinality({t \in Having(lens[s]) : t < s})

(* As it is written, MSB first.                                            *)
Bits(s) == [j \in 1 .. lens[s] |-> (Code(s) \div 2 ^ (lens[s] - j)) % 2]

-----------------------------------------------------------------------------
(* The decoder's table.                                                    *)

Left[l \in 0 .. maxTreePath] == IF l = 0 THEN 1 ELSE 2 * Left[l - 1] - Count(l)

(* build: neither over-subscribed nor incomplete, unless no symbol is there. *)
Builds ==
  /\ \A s \in Alphabet : lens[s] <= maxTreePath
  /\ \/ \A s \in Alphabet : lens[s] = 0
     \/ /\ \A l \in 1 .. maxTreePath : Left[l] >= 0
        /\ Left[maxTreePath] = 0

Symbols == InOrder({s \in Alphabet : lens[s] # 0}, lens)

(* sym: bit by bit, what the symbol is and how many bits it took.          *)
Sym(bits) ==
  LET step[l \in 0 .. maxTreePath] ==
        IF l = 0 THEN [code |-> 0, first |-> 0, index |-> 0]
        ELSE LET p == step[l - 1] IN
             [code |-> 2 * p.code + bits[l], first |-> 2 * (p.first + Count(l - 1)),
              index |-> p.index + Count(l - 1)]
      ends == {l \in 1 .. Len(bits) : step[l].code - step[l].first < Count(l)} IN
  IF ends = {} THEN <<>>
  ELSE LET at == step[Min(ends)] IN <<Symbols[at.index + at.code - at.first + 1], Min(ends)>>

-----------------------------------------------------------------------------
(* Properties.                                                             *)

Cost(l) == OverUsed([s \in Used |-> freq[s] * l[s]])

(* All codes of the used symbols with lengths up to a bound, by what is    *)
(* left of one when every code has taken its share.                        *)
CodesUpTo(bound) ==
  {l \in [Used -> 1 .. bound] : OverUsed([s \in Used |-> 2 ^ (bound - l[s])]) <= 2 ^ bound}

(* The lengths before they are clamped are those of a cheapest code.       *)
HuffmanIsOptimal ==
  phase = "clamp" => \A l \in CodesUpTo(Cardinality(Used) - 1) : Cost(lens) <= Cost(l)
=============================================================================
