----------------------------- MODULE MCRoundTrip -----------------------------
(* The writer and the reader on a tree of two files, one of which may be   *)
(* empty, captured three times; one edit to the tree at any moment.  A and *)
(* B are equally long, A and metadata are longer compressed than they are  *)
(* plain.  A byte has two values, so that half of the boot index 3 is the  *)
(* index of another image.                                                 *)
EXTENDS RoundTrip

CONSTANTS Empty, A, B, sys

MCParent == [e \in 2 .. 3 |-> 1]
MCDir == {1}
MCContent == {Empty, A, B}
MCSize == [c \in MCContent |-> IF c = Empty THEN 0 ELSE 3]
MCPackedSize == [c \in MCContent |-> IF c = B THEN 1 ELSE 4]
MCDescriptor == {sys}
MCPolicies == {[e \in 1 .. 3 |-> sys]}
MCInfos == {[name |-> "pe", boot |-> TRUE], [name |-> "os", boot |-> FALSE]}
MCDstStart == {7}
=============================================================================
