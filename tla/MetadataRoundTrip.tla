------------------------- MODULE MetadataRoundTrip --------------------------
(***************************************************************************)
(* The metadata of a captured tree, laid out by encodeMetadata and parsed  *)
(* by parseMetadata; or metadata that somebody else wrote, parsed.         *)
(***************************************************************************)
EXTENDS MetadataLayout, MetaParser, FileTime, FiniteSets

CONSTANTS
  Foreign,  \* metadata of other programs: ForeignMetadata
  Utf16     \* what becomes of a file name in []rune and UTF-16, as a number

(* The last element of a path is not empty, is not "." or ".." and has no  *)
(* "/", in whatever encoding.                                              *)
ASSUME NamesAssumption == \A s \in DOMAIN Utf16 : Utf16[s] \notin Unusable \cup {0}

VARIABLES
  origin    \* what was, or will be, encoded: <<>>, or a sequence of one of Foreign

vars == <<lvars, pvars, origin>>

F == INSTANCE ForeignMetadata

-----------------------------------------------------------------------------
(* A node's name in the image.                                             *)
Name16(n) == IF n = tree.root THEN 0 ELSE Utf16[tree.source[n]]

(* putDentry.                                                              *)
DentryCell(n) ==
  [kind |-> "dentry", length |-> DentryLen(n), dir |-> n \in tree.dirs, link |-> FALSE,
   sub |-> sub[n], name |-> Name16(n), nameLen |-> 2 * tree.units[n],
   shortLen |-> 0, streams |-> 0, hash |-> tree.hash[n], written |-> Filetime(tree.time[n])]

Encoded ==
  [len |-> pos, total |-> table.total, count |-> table.count,
   cells |-> [o \in {off[n] : n \in tree.nodes} |->
                DentryCell(CHOOSE n \in tree.nodes : off[n] = o)]]

Nothing == [len |-> 0, total |-> 0, count |-> 0, cells |-> <<>>]

Own == origin = <<>>

Init ==
  /\ ParseInit
  /\ \/ LayoutInit /\ origin = <<>> /\ md = Nothing
     \/ /\ LayoutStart(CHOOSE t \in Trees : TRUE, CHOOSE s \in Tables : TRUE)
        /\ \E f \in Foreign : origin = <<f>> /\ md = F!Bytes(f)

Lay == Own /\ Laying /\ UNCHANGED <<pvars, origin>>

HandOver ==
  /\ Own /\ pass = "laid" /\ md = Nothing
  /\ md' = Encoded
  /\ UNCHANGED <<lvars, state, stack, nodes, reach, root, origin>>

Parse == md # Nothing /\ Parsing /\ UNCHANGED <<lvars, origin>>

Next == Lay \/ HandOver \/ Parse

Spec == Init /\ [][Next]_vars /\ WF_vars(Next)

-----------------------------------------------------------------------------
(* Properties.                                                             *)

RECURSIVE MeantNode(_), Level(_), Seen(_)
MeantNode(n) ==
  LET file == n \notin tree.dirs /\ tree.hash[n] # NullHash IN
  [name |-> Name16(n), dir |-> n \in tree.dirs, hash |-> tree.hash[n],
   written |-> MeantTime(tree.time[n]),
   data |-> file /\ tree.hash[n] \in Stored, missing |-> file /\ tree.hash[n] \notin Stored,
   children |-> SortSeq([i \in DOMAIN Kids(n) |-> MeantNode(Kids(n)[i])], ByName)]

(* A dentry as fileInfo shows it: with a time.                             *)
Seen(d) ==
  [d EXCEPT !.written = ModTime(@),
            !.children = [i \in DOMAIN d.children |-> Seen(d.children[i])]]

(* How many directories are above a node.                                  *)
Level(n) ==
  IF n = tree.root THEN 0
  ELSE 1 + Level(CHOOSE d \in tree.dirs : \E i \in DOMAIN Kids(d) : Kids(d)[i] = n)

Shallow == \A d \in tree.dirs : Level(d) < MaxTreeDepth
Few == Cardinality(tree.nodes) <= MaxTreeNodes
NamesApart ==
  \A d \in tree.dirs : \A i, j \in DOMAIN Kids(d) :
    i # j => Name16(Kids(d)[i]) # Name16(Kids(d)[j])

(* What encodeMetadata wrote is read back as the tree that was captured:   *)
(* every name in its directory with its hash and its time to the tick      *)
(* (folded, where 64 bits do not hold it), nothing else, and in order of   *)
(* name; no step of the parse reads anything but what was put there.       *)
(* Neither capture nor encodeMetadata knows of the three trees that the    *)
(* reader does not take: one deeper than maxTreeDepth, one of more than    *)
(* maxTreeNodes dentries, and one in which names of a directory fall       *)
(* together in UTF-16.  They are written all the same, and are refused on  *)
(* reading, never misread.                                                 *)
OwnTreeReadsBack ==
  Own /\ Over =>
    IF Shallow /\ Few /\ NamesApart
    THEN state = "read" /\ Seen(root) = MeantNode(tree.root)
    ELSE state = "refused"

(* Metadata from elsewhere whose lengths are true is read as it was meant  *)
(* or refused: the next dentry is found behind streams and padding, links  *)
(* are not followed, a file is found through its first stream, and content *)
(* that the WIM does not hold is not taken for emptiness.                  *)
ForeignReadAsMeant ==
  ~Own /\ F!Honest(origin[1])
    => /\ state # "astray"
       /\ state = "read" => <<root>> = F!MeantList(origin[1], 1, 0)
=============================================================================
