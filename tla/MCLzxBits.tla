------------------------------ MODULE MCLzxBits ------------------------------
(* Frequencies of up to six symbols of eight, among them those that make     *)
(* codes deepest and a limit that clamps two levels of them; runs of       *)
(* lengths below, at and above what a run symbol holds, and longer than    *)
(* two of them.  Behind another encoder, every tree of four symbols after  *)
(* two others, and chunks of up to three blocks: stored ones of odd and    *)
(* even size before, between and behind others, whose codes end before, on *)
(* and behind a word boundary.                                             *)
EXTENDS LzxBits, FiniteSets

MCAlphabet == 0 .. 7
MCValues == {0, 1, 2, 3, 5, 8}
MCSorted ==
  {f \in [0 .. 5 -> MCValues] :
     \/ \A s \in 1 .. 5 : f[s - 1] <= f[s]
     \/ \A s \in 1 .. 5 : f[s - 1] >= f[s] /\ f[s] \in {0, 1, 2, 8}}
MCAt(places, f) ==
  [s \in MCAlphabet |->
     IF s \in places THEN f[Cardinality({p \in places : p < s})] ELSE 0]
MCFrequencies ==
  {MCAt(0 .. 5, f) : f \in MCSorted}
    \cup {MCAt(places, f) : f \in {g \in MCSorted : \A s \in 0 .. 5 : g[s] \in {0, 1, 8}},
                            places \in {2 .. 7, {0, 1, 3, 5, 6, 7}}}

MCLengths == 0 .. 2
MCOtherTrees == [1 .. 4 -> MCLengths] \cup {<<0, 0, 0, 0, 1>>, <<1, 1, 0, 0, 0>>, <<2, 0, 0, 0, 0>>}
MCPrevious == {<<1, 2, 0, 1>>, <<0, 1, 1, 2>>, <<2, 2, 1, 0, 2>>}

MCCodeSizes == {1, 11, 12, 13, 28, 45}

MCBlocks ==
  {[type |-> "verbatim", size |-> s, codes |-> c] : s \in {1, 6}, c \in {8, 12, 25}}
    \cup {[type |-> Blocks!Stored, size |-> s, codes |-> 0] : s \in {1, 2, 3, 6}}

MCSizes(blocks) ==
  LET sum[m \in 0 .. Len(blocks)] == IF m = 0 THEN 0 ELSE sum[m - 1] + blocks[m].size IN
  sum[Len(blocks)]

MCPlaces(blocks) ==
  LET at[m \in 1 .. Len(blocks) + 1] ==
        IF m = 1 THEN 0 ELSE Blocks!Behind(at[m - 1], blocks[m - 1]) IN at

MCStreams ==
  {[blocks |-> blocks, at |-> MCPlaces(blocks),
    made |-> [m \in 1 .. Len(blocks) + 1 |-> MCSizes(SubSeq(blocks, 1, m - 1))],
    length |-> 2 * Blocks!WordsFor(MCPlaces(blocks)[Len(blocks) + 1]) - short] :
     blocks \in {b \in UNION {[1 .. m -> MCBlocks] : m \in 1 .. 3} : MCSizes(b) <= WindowSize},
     short \in {0, 1}}

MCOfFormat == {s \in MCStreams : Blocks!IsStream(s)}
=============================================================================
