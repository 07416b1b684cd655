----------------------------- MODULE WimArchive -----------------------------
(***************************************************************************)
(* What a Writer promises: images are added one by one, whole or not at    *)
(* all; a failure is final; sealing is final too, and needs an image.      *)
(***************************************************************************)
EXTENDS Naturals, Sequences

VARIABLES
  state,    \* "open", "failed" or "sealed"
  archive   \* the images added so far: an identity and a tree

Init == state = "open" /\ archive = <<>>

Add ==
  /\ state = "open" /\ UNCHANGED state
  /\ Len(archive') = Len(archive) + 1
  /\ SubSeq(archive', 1, Len(archive)) = archive

Fail == state = "open" /\ state' = "failed" /\ UNCHANGED archive

Seal == state = "open" /\ archive # <<>> /\ state' = "sealed" /\ UNCHANGED archive

Next == Add \/ Fail \/ Seal

Spec == Init /\ [][Next]_<<state, archive>>
=============================================================================
