---------------------------- MODULE ChunkEncoder ----------------------------
(***************************************************************************)
(* What encodeChunks promises the writer, without goroutines: it is asked  *)
(* for the chunks of a resource and later returns all of them, each in the *)
(* form it will be stored in.                                              *)
(***************************************************************************)
EXTENDS Integers

CONSTANTS MaxChunks, MaxCalls, Declined, None

VARIABLES
  busy,     \* a resource is being encoded
  call,     \* which one, by number
  nchunks,  \* its chunks
  result    \* the chunks returned last; none while busy

vars == <<busy, call, nchunks, result>>

Encoding(c, i) ==
  [chunk |-> <<c, i>>, form |-> IF <<c, i>> \in Declined THEN "raw" ELSE "lzx"]

Nothing == [i \in {} |-> None]

Init == busy = FALSE /\ call = 0 /\ nchunks = 0 /\ result = Nothing

Request(n) ==
  /\ ~busy /\ call < MaxCalls
  /\ busy' = TRUE /\ call' = call + 1 /\ nchunks' = n /\ result' = Nothing

Deliver ==
  /\ busy /\ busy' = FALSE
  /\ result' = [i \in 0 .. nchunks - 1 |-> Encoding(call, i)]
  /\ UNCHANGED <<call, nchunks>>

Next == (\E n \in 1 .. MaxChunks : Request(n)) \/ Deliver

Spec == Init /\ [][Next]_vars

FairSpec == Spec /\ WF_vars(Deliver)
=============================================================================
