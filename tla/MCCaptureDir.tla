---------------------------- MODULE MCCaptureDir ----------------------------
(* One call of CaptureDir, on two files one of which may be out itself.    *)
EXTENDS CaptureDir

CONSTANTS A, B, sys

MCParent == [e \in 2 .. 3 |-> 1]
MCDir == {1}
MCContent == {Empty, A, B}
MCSize == [c \in MCContent |-> IF c = Empty THEN 0 ELSE 3]
MCPackedSize == [c \in MCContent |-> IF c = B THEN 1 ELSE 4]
MCDescriptor == {sys}
MCPolicies == {[e \in 1 .. 3 |-> sys]}
MCInfos == {[name |-> "pe", boot |-> TRUE]}
MCDstStart == {0}
=============================================================================
