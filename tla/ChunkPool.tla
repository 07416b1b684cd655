------------------------------ MODULE ChunkPool ------------------------------
(***************************************************************************)
(* The parallel chunk encoder of the writer: encodeChunks and encodeChunk  *)
(* in writer.go.  A resource is cut into chunks; goroutines claim chunk    *)
(* numbers from an atomic counter, compress each into private scratch with *)
(* a Compressor of their own, and place the result at the chunk's index.   *)
(* The Writer keeps its Compressors from one resource to the next, so what *)
(* one call leaves behind in them is there when the next one starts.       *)
(*                                                                         *)
(* A chunk is named by its resource and its index; the bytes themselves    *)
(* are abstracted to that name and to the form they are stored in.         *)
(***************************************************************************)
EXTENDS Integers, FiniteSets

CONSTANTS
  MaxChunks,    \* bound: the chunks of the largest resource
  Concurrency,  \* Options.concurrency(): at least 1, it defaults to GOMAXPROCS
  MaxCalls,     \* bound: the resources one Writer encodes
  Declined,     \* the chunks Compress declines, since they do not get smaller
  None          \* no chunk at all

ASSUME ChunkPoolAssumption ==
  /\ MaxChunks \in Nat \ {0}
  /\ Concurrency \in Nat \ {0}
  /\ MaxCalls \in Nat
  /\ None \notin Nat \X Nat
  /\ None \notin [chunk: Nat \X Nat, form: {"lzx", "raw"}]

VARIABLES
  main,      \* where the goroutine that called encodeChunks is
  call,      \* the resource it encodes, or encoded last
  nchunks,   \* the number of chunks of that resource
  workers,   \* the goroutines this call uses
  ncomps,    \* len(w.comps): the Compressors the Writer owns
  spawned,   \* goroutines started so far
  next,      \* the atomic counter chunk numbers are claimed from
  wg,        \* the WaitGroup's counter
  pc,        \* where each worker is
  idx,       \* i, the chunk number a worker claimed
  comp,      \* the chunk a Compressor's buf and tokens describe
  scratch,   \* the chunk whose compressed bytes a worker's scratch holds
  ok,        \* what Compress reported to the worker
  encoded    \* the result, by chunk index

mainVars == <<main, call, nchunks, workers, ncomps, spawned>>
workVars == <<next, wg, pc, idx, comp, scratch, ok, encoded>>
vars == <<mainVars, workVars>>

Worker == 0 .. Concurrency - 1
Chunk == Nat \X Nat
Form == {"lzx", "raw"}
Stored == [chunk: Chunk, form: Form]
NoResult == [i \in {} |-> None]

(* What encodeChunk has to return for chunk i of resource c, whoever runs  *)
(* it: the compressed bytes, or the input bytes where they are no smaller. *)
Encoding(c, i) ==
  [chunk |-> <<c, i>>, form |-> IF <<c, i>> \in Declined THEN "raw" ELSE "lzx"]

Init ==
  /\ main = "idle" /\ call = 0 /\ nchunks = 0 /\ workers = 0 /\ ncomps = 0
  /\ spawned = 0 /\ next = 0 /\ wg = 0
  /\ pc = [k \in Worker |-> "off"]
  /\ idx = [k \in Worker |-> 0]
  /\ comp = [k \in Worker |-> None]
  /\ scratch = [k \in Worker |-> None]
  /\ ok = [k \in Worker |-> FALSE]
  /\ encoded = NoResult

-----------------------------------------------------------------------------
(* The calling goroutine.                                                  *)

WorkersFor(n) == IF Concurrency > n THEN n ELSE Concurrency

(* Bug: the pool is only ever filled by the first resource.                *)
CompsForOnce(w) == IF ncomps = 0 THEN w ELSE ncomps

(* w.comps is grown before the workers start, and is never shrunk.         *)
CompsFor(w) == IF ncomps < w THEN w ELSE ncomps

(* encodeChunks is entered for a resource of n chunks.  compressResource   *)
(* is only reached with data, so n is never 0.                             *)
Call(n) ==
  /\ main = "idle" /\ call < MaxCalls
  /\ call' = call + 1
  /\ nchunks' = n
  /\ workers' = WorkersFor(n)
  /\ ncomps' = CompsFor(workers')
  /\ main' = IF workers' <= 1 THEN "seq" ELSE "spawn"
  /\ spawned' = 0 /\ next' = 0 /\ wg' = 0
  /\ idx' = [k \in Worker |-> 0]
  /\ scratch' = [k \in Worker |-> None]
  /\ encoded' = [i \in 0 .. n - 1 |-> None]
  /\ UNCHANGED <<pc, comp, ok>>

(* With one worker the caller encodes the chunks itself, with comps[0];    *)
(* idx[0] is then the variable of its loop.                                *)
SeqEncode ==
  /\ main = "seq" /\ idx[0] < nchunks
  /\ comp' = [comp EXCEPT ![0] = <<call, idx[0]>>]
  /\ encoded' = [encoded EXCEPT ![idx[0]] = Encoding(call, idx[0])]
  /\ idx' = [idx EXCEPT ![0] = @ + 1]
  /\ UNCHANGED <<mainVars, next, wg, pc, scratch, ok>>

SeqReturn ==
  /\ main = "seq" /\ idx[0] >= nchunks
  /\ main' = "idle"
  /\ UNCHANGED <<call, nchunks, workers, ncomps, spawned, workVars>>

(* wg.Add(1), then the go statement; goroutines already started run on.    *)
Spawn ==
  /\ main = "spawn" /\ spawned < workers
  /\ wg' = wg + 1
  /\ pc' = [pc EXCEPT ![spawned] = "claim"]
  /\ spawned' = spawned + 1
  /\ UNCHANGED <<main, call, nchunks, workers, ncomps, next, idx, comp,
                 scratch, ok, encoded>>

(* Bug: encodeChunks does not wait for its goroutines.                     *)
JoinedAlways == TRUE

(* Bug: it waits for one Done too many.                                    *)
JoinedNever == wg < 0

Joined == wg = 0

(* wg.Wait() returns, and encodeChunks with it.                            *)
Return ==
  /\ main = "spawn" /\ spawned = workers
  /\ Joined
  /\ main' = "idle"
  /\ UNCHANGED <<call, nchunks, workers, ncomps, spawned, workVars>>

-----------------------------------------------------------------------------
(* The workers.                                                            *)

(* Bug: the go statement passes w.comps[0] to every goroutine.             *)
CompOfFirst(k) == 0

(* The Compressor goroutine k is handed: w.comps[k], its own.              *)
CompOf(k) == k

(* Bug: the counter is read, and stored back only for an even chunk: a     *)
(* claim that another one overwrote.                                       *)
NextAfterLostClaim == next + (next % 2)

(* int(next.Add(1)) - 1, one atomic operation.                             *)
NextAfterClaim == next + 1

Claim(k) ==
  /\ pc[k] = "claim" /\ next < nchunks
  /\ next' = NextAfterClaim
  /\ idx' = [idx EXCEPT ![k] = next]
  /\ pc' = [pc EXCEPT ![k] = "load"]
  /\ UNCHANGED <<mainVars, wg, comp, scratch, ok, encoded>>

(* No chunk is left: the goroutine returns and its deferred wg.Done runs.  *)
Exit(k) ==
  /\ pc[k] = "claim" /\ next >= nchunks
  /\ next' = next + 1
  /\ wg' = wg - 1
  /\ pc' = [pc EXCEPT ![k] = "off"]
  /\ UNCHANGED <<mainVars, idx, comp, scratch, ok, encoded>>

(* Compress copies the chunk into the Compressor and finds its matches.    *)
Load(k) ==
  /\ pc[k] = "load"
  /\ comp' = [comp EXCEPT ![CompOf(k)] = <<call, idx[k]>>]
  /\ pc' = [pc EXCEPT ![k] = "emit"]
  /\ UNCHANGED <<mainVars, next, wg, idx, scratch, ok, encoded>>

(* Compress emits the block it built into the worker's scratch, or writes  *)
(* nothing at all and reports that the chunk did not get smaller.          *)
Emit(k) ==
  LET c == comp[CompOf(k)] IN
  /\ pc[k] = "emit"
  /\ ok' = [ok EXCEPT ![k] = c \notin Declined]
  /\ scratch' = [scratch EXCEPT ![k] = IF c \in Declined THEN @ ELSE c]
  /\ pc' = [pc EXCEPT ![k] = "place"]
  /\ UNCHANGED <<mainVars, next, wg, idx, comp, encoded>>

(* Bug: the scratch is returned although Compress declined the chunk.      *)
ChunkResultUnchecked(k) == [chunk |-> scratch[k], form |-> "lzx"]

(* encodeChunk's result: a copy of the scratch, or the input bytes.        *)
ChunkResult(k) ==
  IF ok[k] THEN [chunk |-> scratch[k], form |-> "lzx"]
           ELSE [chunk |-> <<call, idx[k]>>, form |-> "raw"]

Place(k) ==
  /\ pc[k] = "place"
  /\ encoded' = [encoded EXCEPT ![idx[k]] = ChunkResult(k)]
  /\ pc' = [pc EXCEPT ![k] = "claim"]
  /\ UNCHANGED <<mainVars, next, wg, idx, comp, scratch, ok>>

-----------------------------------------------------------------------------
Main == (\E n \in 1 .. MaxChunks : Call(n)) \/ SeqEncode \/ SeqReturn
        \/ Spawn \/ Return
Work(k) == Claim(k) \/ Exit(k) \/ Load(k) \/ Emit(k) \/ Place(k)
Next == Main \/ \E k \in Worker : Work(k)

Spec == Init /\ [][Next]_vars

(* The Go scheduler runs every runnable goroutine; nothing makes a caller  *)
(* ask for another resource.                                               *)
Fairness ==
  /\ WF_vars(SeqEncode \/ SeqReturn \/ Spawn \/ Return)
  /\ \A k \in Worker : WF_vars(Work(k))

FairSpec == Spec /\ Fairness

-----------------------------------------------------------------------------
(* Properties.                                                             *)

Busy == {"load", "emit", "place"}
Running == {k \in Worker : pc[k] # "off"}

(* Every variable keeps its type; in particular the WaitGroup's counter    *)
(* never goes negative, which Go answers with a panic.                     *)
TypeInv ==
  /\ main \in {"idle", "seq", "spawn"}
  /\ call \in 0 .. MaxCalls /\ nchunks \in 0 .. MaxChunks
  /\ workers \in 0 .. Concurrency /\ ncomps \in 0 .. Concurrency
  /\ spawned \in 0 .. Concurrency
  /\ next \in Nat /\ wg \in Nat
  /\ pc \in [Worker -> {"off", "claim"} \union Busy]
  /\ idx \in [Worker -> Nat]
  /\ comp \in [Worker -> Chunk \union {None}]
  /\ scratch \in [Worker -> Chunk \union {None}]
  /\ ok \in [Worker -> BOOLEAN]
  /\ encoded \in [0 .. nchunks - 1 -> [chunk: Chunk \union {None},
                                      form: Form] \union {None}]

(* What Options.Concurrency documents: the result is the same whatever the *)
(* number of workers and the order they finish in.  When encodeChunks      *)
(* returns, each index holds the stored form of its own chunk: no slot is  *)
(* missing, none holds what another worker or another resource left in a   *)
(* Compressor or in a scratch buffer.                                      *)
ResultIndependentOfSchedule ==
  main = "idle" /\ call > 0 =>
    \A i \in 0 .. nchunks - 1 : encoded[i] = Encoding(call, i)

(* encoded[i] is written without a lock, and rightly so: no two goroutines *)
(* ever work on the same index, and each index is one of the slice's.      *)
ExclusiveIndex ==
  \A k \in Worker : pc[k] \in Busy =>
    /\ idx[k] < nchunks
    /\ \A j \in Worker \ {k} : pc[j] \in Busy => idx[j] # idx[k]

(* The goroutines read w.comps while they run and must not find it short:  *)
(* each one has a Compressor, and every chunk a running worker is to emit  *)
(* is the chunk that Compressor still holds.                               *)
OwnCompressor ==
  \A k \in Running :
    /\ k < ncomps
    /\ pc[k] = "emit" => comp[k] = <<call, idx[k]>>

(* encodeChunks never returns, and its caller never starts to assemble or  *)
(* to encode the next resource, while one of its goroutines still runs.    *)
NoStrayWorker == main # "spawn" => Running = {}

(* The three on which it rests that encodeChunks needs no lock.            *)
RaceFree == ExclusiveIndex /\ OwnCompressor /\ NoStrayWorker

(* Every call returns: no claim is lost and the last wg.Done is counted.   *)
EveryCallReturns == main # "idle" ~> main = "idle"

(* The pool as its caller sees it: a request, then all the chunks at once. *)
Encoder == INSTANCE ChunkEncoder WITH
  busy <- main # "idle",
  result <- IF main = "idle" THEN encoded ELSE NoResult

(* The parallel encoder implements the sequential one, liveness included.  *)
ImplementsEncoder == Encoder!FairSpec
=============================================================================
