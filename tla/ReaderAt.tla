------------------------------ MODULE ReaderAt ------------------------------
(***************************************************************************)
(* What the handles of one immutable file promise (io.ReaderAt and fs.File *)
(* as README and resource.go cite them): a call returns bytes of the file  *)
(* from the offset it was given, in order, and says why when they are      *)
(* fewer than it was asked for.  Calls of different callers may overlap.   *)
(***************************************************************************)
EXTENDS Integers, Sequences

CONSTANTS
  Callers,  \* those that may call at one time
  FileSize, \* the file's length; byte i of the file is written as i itself
  None      \* no call

VARIABLES
  asked,    \* the [off, len] every caller waits for, or None
  answer    \* what its last call returned: [bytes, err], or None

Asked == [off: Int, len: Nat]
FileBytes(off, n) == [i \in 1 .. n |-> off + i - 1]

(* nil: all of it.  eof: the file ends right behind what was returned, or  *)
(* before the offset.  failed: as much as there was, but nothing else.     *)
Allowed(q, a) ==
  /\ a.bytes = FileBytes(q.off, Len(a.bytes))
  /\ Len(a.bytes) <= q.len
  /\ a.bytes # <<>> => q.off >= 0 /\ q.off + Len(a.bytes) <= FileSize
  /\ CASE a.err = "nil" -> Len(a.bytes) = q.len
       [] a.err = "eof" -> q.off + Len(a.bytes) = FileSize \/ q.off >= FileSize
       [] a.err = "failed" -> TRUE

Init ==
  /\ asked = [g \in Callers |-> None]
  /\ answer = [g \in Callers |-> None]

Call(g) ==
  /\ asked[g] = None
  /\ asked'[g] \in Asked /\ asked' = [asked EXCEPT ![g] = asked'[g]]
  /\ answer' = [answer EXCEPT ![g] = None]

Answer(g) ==
  /\ asked[g] # None
  /\ asked' = [asked EXCEPT ![g] = None]
  /\ Allowed(asked[g], answer'[g]) /\ answer' = [answer EXCEPT ![g] = answer'[g]]

Next == \E g \in Callers : Call(g) \/ Answer(g)

Spec == Init /\ [][Next]_<<asked, answer>>
=============================================================================
