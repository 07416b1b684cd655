------------------------------ MODULE MCCapture ------------------------------
(* Capture on a tree of two directories and three files,                   *)
(* ".", "d", "d/x", "y" and "z", whose files share contents.               *)
EXTENDS Capture

CONSTANTS Empty, A, B, sys, usr

MCParent == [e \in 2 .. 5 |-> IF e = 3 THEN 2 ELSE 1]
MCDir == {1, 2}
MCContent == {Empty, A, B}
MCSize == [c \in MCContent |-> CASE c = Empty -> 0 [] c = A -> 2 [] c = B -> 3]
MCDescriptor == {sys, usr}
MCPolicies == {[e \in 1 .. 5 |-> sys],
               [e \in 1 .. 5 |-> IF e \in {2, 4} THEN usr ELSE sys],
               [e \in 1 .. 5 |-> IF e = 4 THEN NoDescriptor ELSE sys]}
=============================================================================
