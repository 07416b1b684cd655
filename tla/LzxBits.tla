------------------------------- MODULE LzxBits -------------------------------
(***************************************************************************)
(* From the tallies of a chunk to its bits and back: what Compress makes   *)
(* of the frequencies of its tokens (LzxHuffman), the tree that it writes  *)
(* of the code lengths (LzxTree) and the block around both (LzxBlocks),    *)
(* and what Decompress reads.                                              *)
(*                                                                         *)
(* A chunk of this package goes all the way.  The reader takes also what   *)
(* other encoders write, and meets what is damaged: these begin at the     *)
(* stage that reads them.                                                  *)
(***************************************************************************)
EXTENDS Integers, Sequences

CONSTANTS
  Alphabet,        \* the symbols of a tree
  Frequencies,     \* how often each of them occurs
  Limit,           \* the longest code allowed
  maxTreePath,     \* the longest that a decoder knows
  OtherTrees,      \* code lengths that another encoder writes
  Previous,        \* and those of its block before
  ShortMin, ShortMax, LongMin, LongMax, SameMin, SameMax,
  CodeSizes,       \* bits that the trees and tokens of a chunk take
  Streams,         \* the blocks that another encoder writes
  DamagedLengths,  \* bytes of what is no stream at all
  WindowSize,
  CodeBits         \* a bound: bits that a damaged block seems to have

VARIABLES
  by, freq, lens, leaves, nodes, ni, order, phase,
  before, treeLens, i, item, got, j, corrupt,
  stream, length, out, held, unput, pos, nbits, unaligned, size, n, k, left, pc

huffmanVars == <<freq, lens, leaves, nodes, ni, order, phase>>
treeVars == <<before, treeLens, i, item, got, j, corrupt>>
blockVars == <<stream, length, out, held, unput, pos, nbits, unaligned, size, n, k, left, pc>>
vars == <<by, huffmanVars, treeVars, blockVars>>

Huffman == INSTANCE LzxHuffman
Tree == INSTANCE LzxTree WITH lens <- treeLens
Blocks == INSTANCE LzxBlocks

(* What the decoder knows of the code: the lengths that it has read.       *)
Decoder == INSTANCE LzxHuffman WITH
  lens <- [s \in Alphabet |-> IF s + 1 \in DOMAIN got THEN got[s + 1] ELSE 0]

ASSUME BitsAssumption ==
  /\ Huffman!HuffmanAssumption /\ Tree!TreeAssumption /\ Blocks!BlocksAssumption
  /\ \A f \in Frequencies : f \in [Alphabet -> Nat]
  /\ OtherTrees \subseteq Seq(0 .. maxTreePath) /\ Previous \subseteq Seq(0 .. maxTreePath)
  /\ CodeSizes \subseteq Nat
  /\ \A s \in Streams : Blocks!IsStream(s)
  /\ DamagedLengths \subseteq Nat

Unused == [s \in Alphabet |-> 0]
NoTree == treeLens = <<>> /\ got = <<>>
NoBlocks == stream = Blocks!NoStream /\ length = 0 /\ size = 0 /\ pc = "idle"

Init ==
  /\ \/ by = "own" /\ (\E f \in Frequencies : Huffman!Starts(f)) /\ NoTree /\ NoBlocks
     \/ /\ by = "other" /\ Huffman!Starts(Unused) /\ NoBlocks
        /\ treeLens \in OtherTrees /\ got \in Previous /\ Len(got) = Len(treeLens)
     \/ /\ by = "damaged" /\ Huffman!Starts(Unused) /\ NoBlocks
        /\ got \in Previous /\ treeLens = got
     \/ /\ by = "other" /\ Huffman!Starts(Unused) /\ NoTree
        /\ stream \in Streams /\ length = stream.length
        /\ size = stream.made[Len(stream.made)] /\ pc = "block"
     \/ /\ by = "damaged" /\ Huffman!Starts(Unused) /\ NoTree
        /\ stream = Blocks!NoStream /\ length \in DamagedLengths
        /\ size \in 1 .. WindowSize /\ pc = "block"
  /\ before = got /\ i = 0 /\ item = <<>> /\ j = 0 /\ corrupt = FALSE
  /\ out = 0 /\ held = 0 /\ unput = 0 /\ pos = 0 /\ nbits = 0 /\ unaligned = FALSE
  /\ n = 0 /\ k = 1 /\ left = 0

-----------------------------------------------------------------------------
Assign == by = "own" /\ Huffman!Next /\ UNCHANGED <<by, treeVars, blockVars>>

(* writeTree gets the lengths, and the reader begins with none: there is   *)
(* no block before.                                                        *)
BeginTree ==
  /\ phase = "done" /\ treeLens = <<>>
  /\ treeLens' = [s \in 1 .. Huffman!Size |-> lens[s - 1]]
  /\ got' = Tree!Zeros(Huffman!Size) /\ before' = got'
  /\ UNCHANGED <<by, huffmanVars, i, item, j, corrupt, blockVars>>

SendTree == Tree!Next /\ UNCHANGED <<huffmanVars, blockVars>>

TreeRead == treeLens # <<>> /\ item = <<>> /\ j = Len(got)

(* The block, with as many bits of trees and tokens as there are.  The     *)
(* codes themselves are of no further use.                                 *)
BeginBlock ==
  /\ phase = "done" /\ TreeRead
  /\ \E type \in {"verbatim", "aligned"}, bytes \in 1 .. WindowSize, codes \in CodeSizes :
       /\ stream' = Blocks!OwnStream([type |-> type, size |-> bytes, codes |-> codes])
       /\ size' = bytes
  /\ unput' = stream'.at[2] /\ pc' = "write"
  /\ phase' = "over" /\ freq' = Unused /\ lens' = Unused
  /\ leaves' = <<>> /\ nodes' = <<>> /\ ni' = 1 /\ order' = <<>>
  /\ before' = <<>> /\ treeLens' = <<>> /\ got' = <<>> /\ i' = 0 /\ j' = 0
  /\ UNCHANGED <<by, item, corrupt, length, out, held, pos, nbits, unaligned, n, k, left>>

SendBlocks == Blocks!Next /\ UNCHANGED <<huffmanVars, treeVars>>

Next == Assign \/ BeginTree \/ SendTree \/ BeginBlock \/ SendBlocks

(* Compress and Decompress are loops of one call each: nothing stops them. *)
Spec == Init /\ [][Next]_vars /\ WF_vars(Next)

-----------------------------------------------------------------------------
(* Properties.                                                             *)

(* Huffman's two queues do for a heap: before lengths are clamped, no code *)
(* of the same symbols costs fewer bits.                                   *)
HuffmanIsOptimal == Huffman!HuffmanIsOptimal

(* Every symbol that occurs has a code that is not too long, and the       *)
(* decoder, which has the lengths and not the codes, accepts them and      *)
(* finds each symbol by exactly its bits, whatever comes behind it: also   *)
(* when lengths were clamped and repaired, and when one symbol occurs.     *)
CodesArrive ==
  phase = "done" /\ TreeRead =>
    /\ Decoder!Builds
    /\ \A s \in Huffman!Used :
         /\ lens[s] \in 1 .. Limit
         /\ \A next \in {0, 1} :
              Decoder!Sym(Huffman!Bits(s) \o [b \in 1 .. maxTreePath - lens[s] |-> next])
                = <<s, lens[s]>>

(* A tree that an encoder wrote is never refused, and read as written.     *)
TreeInStep == Tree!TreeInStep

(* Reader and writer are at the same bit, in every block.                  *)
BitsInStep == Blocks!BitsInStep

(* Whatever is read, no length, code or byte is put beside its place, and  *)
(* no byte is taken from behind the input.                                 *)
StaysWithin == Tree!TreeStaysWithin /\ Blocks!InputIsKept

(* Writer and reader never wait for each other, and the reader comes to an *)
(* end: zeros that are fed behind the input are no progress.               *)
ChunkEnds == <>(corrupt \/ pc \in {"done", "corrupt"} \/ (by # "own" /\ TreeRead))
=============================================================================
