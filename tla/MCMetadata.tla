----------------------------- MODULE MCMetadata -----------------------------
(* Captured trees of up to five nodes, in those of four the names of nodes *)
(* 3 and 4 being the same in UTF-16; trees of as many nodes as the reader  *)
(* takes, and of one more; a file with any time that words of eight bits   *)
(* hold, and some that they do not; and metadata of up to three lists from *)
(* elsewhere: shared and cyclic lists, links, alternate streams, lengths   *)
(* that are not padded or not true.                                        *)
EXTENDS MetadataRoundTrip

CONSTANTS h1, h2

MCStored == {h1}

(* The name of source 2 sorts last in the image, those of 3 and 9 are one. *)
MCUtf16 == [s \in 2 .. 9 |-> CASE s = 2 -> 12 [] s = 7 -> 11 [] s = 9 -> 3 [] OTHER -> s]

MCZeroTime == -110
Midday == [sec |-> 3, nanos |-> 5]

(* The children of d, in the order of their names.                         *)
KidsOf(n, parent, d) == SetToSortSeq({c \in 2 .. n : parent[c] = d}, <)

TreeOf(n, parent, dirs, units, time) ==
  [root |-> 1, nodes |-> 1 .. n, dirs |-> dirs,
   kids |-> [d \in 1 .. n |-> KidsOf(n, parent, d)],
   units |-> [i \in 1 .. n |-> IF i = 1 THEN 0 ELSE units[i % 2]],
   hash |-> [i \in 1 .. n |-> IF i \notin dirs /\ i % 2 = 0 THEN h1 ELSE NullHash],
   source |-> [i \in 2 .. n |-> IF n = 4 /\ i = 4 THEN 9 ELSE i],
   time |-> [i \in 1 .. n |-> time]]

TreesOfSize(n) ==
  {TreeOf(n, parent, dirs, units, Midday) :
     parent \in {p \in [2 .. n -> 1 .. n] : \A c \in 2 .. n : p[c] < c},
     dirs \in {s \in SUBSET (1 .. n) : 1 \in s},
     units \in [0 .. 1 -> {1, 4}]}
Timed ==
  {TreeOf(2, [c \in {2} |-> 1], {1}, [p \in 0 .. 1 |-> 1], [sec |-> s, nanos |-> x]) :
     s \in -70 .. 70, x \in 0 .. 7}

(* One directory with all the others in it, and a tree of pairs.           *)
Large ==
  {TreeOf(n, [c \in 2 .. n |-> IF flat THEN 1 ELSE c \div 2],
          IF flat THEN {1} ELSE 1 .. n \div 2, [p \in 0 .. 1 |-> 1], Midday) :
     n \in MaxTreeNodes .. MaxTreeNodes + 1, flat \in BOOLEAN}
MCTrees ==
  Timed \cup Large \cup
  {t \in UNION {TreesOfSize(n) : n \in 1 .. 5} : \A n \in t.nodes \ t.dirs : t.kids[n] = <<>>}
MCTables == {[count |-> 1, total |-> 20], [count |-> 2, total |-> 24]}

-----------------------------------------------------------------------------
MCUnusable == {7}
MCWord == 4096

Entry(name, isDir, isLink, hash, streams, padded, says, target) ==
  [name |-> name, dir |-> isDir, link |-> isLink, hash |-> hash, streams |-> streams,
   padded |-> padded, says |-> says, extra |-> 0, target |-> target,
   written |-> name]
Stream(nameLen, hash, padded, says) ==
  [nameLen |-> nameLen, hash |-> hash, padded |-> padded, says |-> says]

Root(target) == Entry(0, TRUE, FALSE, NullHash, <<>>, TRUE, 0, target)
Dir(name, target) == Entry(name, TRUE, FALSE, NullHash, <<>>, TRUE, 0, target)
Link(name, target) == Entry(name, TRUE, TRUE, NullHash, <<>>, FALSE, 0, target)
File(name, hash, streams, padded) == Entry(name, FALSE, FALSE, hash, streams, padded, 0, 0)
Lie(says) ==
  Entry(5, FALSE, FALSE, h1, <<>>, TRUE, says, 0)

More(e) == [e EXCEPT !.extra = 1]

Targets == {F!NoList, F!Beyond, F!AtEnd, F!AtTable, F!Inside, 2, 3}
StreamSeqs ==
  {<<Stream(len, h, padded, 0)>> : len \in {0, 4}, h \in {h1, h2}, padded \in BOOLEAN} \cup
  {<<Stream(0, h1, FALSE, 0), Stream(4, h2, TRUE, 0)>>, <<Stream(4, h1, TRUE, MCWord - 1)>>,
   <<Stream(4, h1, TRUE, 16)>>}
Files == {File(6, h, <<>>, padded) : h \in {NullHash, h1, h2}, padded \in BOOLEAN}
StreamFiles == {File(6, h, s, FALSE) : h \in {NullHash, h1}, s \in StreamSeqs}
MCDirs == {Dir(3, j) : j \in Targets} \cup {Dir(7, 3), Dir(6, 3), Link(3, 2)}
Lies == {Lie(x) : x \in {8, 103, MCWord - 1, MCWord - 100}}

Lists2 == {<<x, y>> : x \in Files, y \in MCDirs} \cup {<<x, Dir(3, 3)>> : x \in StreamFiles}
Lists3 == {<<>>, <<More(File(4, h1, <<>>, TRUE))>>, <<More(File(4, h1, <<>>, TRUE)), Dir(3, 0)>>,
           <<Dir(4, 1)>>, <<Dir(4, 2), Dir(2, 2)>>, <<Dir(4, 3), Dir(2, 3)>>,
           <<File(4, h1, <<>>, TRUE), Link(3, 3)>>}
          \cup {<<x>> : x \in Lies}

MCForeign ==
  {[lists |-> <<<<Root(2)>>, l2, l3>>] : l2 \in Lists2, l3 \in Lists3} \cup
  {[lists |-> <<l1, <<Dir(3, 3), File(2, h1, <<>>, TRUE)>>, l3>>] :
     l1 \in {<<>>, <<Root(0)>>, <<Root(2), Root(3)>>, <<Dir(3, 2)>>,
             <<File(0, h1, <<>>, TRUE)>>, <<Root(F!Beyond)>>, <<Root(3)>>},
     l3 \in {<<>>, <<Dir(4, 3), Dir(2, 3)>>}}
=============================================================================
