--------------------------- MODULE ChunkPoolProofs ---------------------------
(***************************************************************************)
(* ChunkPool is correct for every number of chunks, workers and calls.     *)
(*                                                                         *)
(* The result is only inductive together with who is working on what: an   *)
(* index below the counter is either placed or held by exactly one busy    *)
(* worker, a goroutine that left did so because no index was left, and the *)
(* WaitGroup counts the goroutines that have not left.                     *)
(***************************************************************************)
EXTENDS ChunkPool, FiniteSetTheorems, TLAPS

(* What a busy worker holds is its own chunk's.                            *)
WorkerInv(k) ==
  /\ pc[k] \in Busy => idx[k] < nchunks /\ idx[k] < next
  /\ pc[k] = "emit" => comp[k] = <<call, idx[k]>>
  /\ pc[k] = "place" =>
       /\ ok[k] = (<<call, idx[k]>> \notin Declined)
       /\ ok[k] => scratch[k] = <<call, idx[k]>>

Exclusive ==
  \A k, j \in Worker : k # j /\ pc[k] \in Busy /\ pc[j] \in Busy => idx[k] # idx[j]

(* While the caller encodes alone.                                         *)
SeqInv ==
  main = "seq" =>
    /\ call > 0
    /\ \A i \in 0 .. nchunks - 1 : i < idx[0] => encoded[i] = Encoding(call, i)

(* While the goroutines are started and awaited.                           *)
ParInv ==
  main = "spawn" =>
    /\ call > 0
    /\ 1 < workers /\ workers <= ncomps /\ spawned <= workers
    /\ \A k \in Running : k < spawned
    /\ \A k \in Worker : k < spawned /\ pc[k] = "off" => next >= nchunks
    /\ \A i \in 0 .. nchunks - 1 :
         i < next => \/ encoded[i] = Encoding(call, i)
                     \/ \E k \in Worker : pc[k] \in Busy /\ idx[k] = i

IInv ==
  /\ TypeInv
  /\ NoStrayWorker
  /\ wg = Cardinality(Running)
  /\ \A k \in Worker : WorkerInv(k)
  /\ Exclusive
  /\ SeqInv
  /\ ParInv
  /\ ResultIndependentOfSchedule

-----------------------------------------------------------------------------
LEMMA RunningFinite == IsFiniteSet(Running) /\ IsFiniteSet(Worker)
<1>. Concurrency - 1 \in Int  BY ChunkPoolAssumption
<1>1. IsFiniteSet(Worker)  BY FS_Interval DEF Worker
<1>2. Running \subseteq Worker  BY DEF Running
<1>. QED  BY <1>1, <1>2, FS_Subset

LEMMA InitInv == Init => IInv
<1>. SUFFICES ASSUME Init PROVE IInv  OBVIOUS
<1>1. Running = {}  BY DEF Init, Running
<1>2. Cardinality(Running) = 0  BY <1>1, FS_EmptySet
<1>3. NoResult \in [0 .. -1 -> [chunk: Chunk \union {None}, form: Form] \union {None}]
  BY DEF NoResult
<1>4. TypeInv
  BY <1>3, ChunkPoolAssumption DEF Init, TypeInv, Busy, Worker
<1>. QED
  BY <1>1, <1>2, <1>4, ChunkPoolAssumption
  DEF Init, IInv, NoStrayWorker, WorkerInv, Busy, Exclusive, SeqInv, ParInv,
      ResultIndependentOfSchedule

LEMMA CallInv == ASSUME IInv, NEW n \in 1 .. MaxChunks, Call(n) PROVE IInv'
<1>. USE ChunkPoolAssumption DEF IInv, TypeInv
<1>1. Running = {} /\ Running' = {}
  BY DEF Call, NoStrayWorker, Running, Worker
<1>2. workers' \in 1 .. n /\ workers' <= Concurrency
  BY DEF Call, WorkersFor
<1>3. ncomps' \in 0 .. Concurrency /\ workers' <= ncomps'
  BY <1>2 DEF Call, CompsFor
<1>4. TypeInv'
  BY <1>2, <1>3 DEF Call, Worker, Chunk
<1>5. NoStrayWorker' /\ (wg = Cardinality(Running))'
  BY <1>1, FS_EmptySet DEF NoStrayWorker, Call
<1>6. \A k \in Worker : pc'[k] = "off"
  BY <1>1 DEF Call, Running
<1>7. (\A k \in Worker : WorkerInv(k))' /\ Exclusive'
  BY <1>6 DEF WorkerInv, Exclusive, Busy, Worker
<1>8. SeqInv'
  BY <1>2 DEF SeqInv, Call, Worker
<1>9. ParInv'
  BY <1>1, <1>2, <1>3 DEF ParInv, Call, Worker
<1>10. ResultIndependentOfSchedule'
  BY DEF ResultIndependentOfSchedule, Call
<1>. QED  BY <1>4, <1>5, <1>7, <1>8, <1>9, <1>10

LEMMA SeqEncodeInv == ASSUME IInv, SeqEncode PROVE IInv'
<1>. USE ChunkPoolAssumption DEF IInv, TypeInv
<1>1. 0 \in Worker /\ idx[0] \in 0 .. nchunks - 1 /\ call \in Nat
  BY DEF SeqEncode, Worker
<1>2. Encoding(call, idx[0]) \in [chunk: Chunk \union {None}, form: Form]
  BY <1>1 DEF Encoding, Chunk, Form
<1>3. TypeInv'
  BY <1>1, <1>2 DEF SeqEncode, mainVars, Chunk
<1>4. Running' = Running /\ Running = {}
  BY DEF SeqEncode, mainVars, Running, NoStrayWorker
<1>5. NoStrayWorker' /\ (wg = Cardinality(Running))'
  BY <1>4 DEF NoStrayWorker, SeqEncode, mainVars
<1>6. (\A k \in Worker : WorkerInv(k))' /\ Exclusive'
  BY <1>4 DEF WorkerInv, Exclusive, Busy, Running, SeqEncode, mainVars
<1>7. SeqInv'
  <2>. SUFFICES ASSUME NEW i \in 0 .. nchunks - 1, i < idx[0] + 1
                PROVE encoded'[i] = Encoding(call, i)
    BY <1>1 DEF SeqInv, SeqEncode, mainVars, Encoding
  <2>1. CASE i = idx[0]  BY <1>1, <2>1 DEF SeqEncode
  <2>2. CASE i < idx[0]  BY <1>1, <2>2 DEF SeqEncode, SeqInv
  <2>. QED  BY <1>1, <2>1, <2>2
<1>8. ParInv' /\ ResultIndependentOfSchedule'
  BY DEF ParInv, ResultIndependentOfSchedule, SeqEncode, mainVars
<1>. QED  BY <1>3, <1>5, <1>6, <1>7, <1>8

LEMMA SeqReturnInv == ASSUME IInv, SeqReturn PROVE IInv'
<1>. USE ChunkPoolAssumption DEF IInv, TypeInv
<1>1. TypeInv' /\ Running' = Running /\ Running = {}
  BY DEF SeqReturn, workVars, Running, NoStrayWorker
<1>2. NoStrayWorker' /\ (wg = Cardinality(Running))'
  BY <1>1 DEF NoStrayWorker, SeqReturn, workVars
<1>3. (\A k \in Worker : WorkerInv(k))' /\ Exclusive'
  BY DEF WorkerInv, Exclusive, SeqReturn, workVars
<1>4. SeqInv' /\ ParInv'
  BY DEF SeqInv, ParInv, SeqReturn
<1>5. ResultIndependentOfSchedule'
  <2>. 0 \in Worker  BY DEF Worker
  <2>. QED  BY DEF ResultIndependentOfSchedule, SeqInv, SeqReturn, workVars, Encoding
<1>. QED  BY <1>1, <1>2, <1>3, <1>4, <1>5

LEMMA SpawnInv == ASSUME IInv, Spawn PROVE IInv'
<1>. USE ChunkPoolAssumption DEF IInv, TypeInv
<1>1. spawned \in Worker /\ pc[spawned] = "off"
  BY DEF Spawn, ParInv, Running, Worker
<1>2. TypeInv'
  <2>1. spawned' \in 0 .. Concurrency /\ wg' \in Nat  BY DEF Spawn
  <2>2. pc' \in [Worker -> {"off", "claim"} \union Busy]  BY <1>1 DEF Spawn
  <2>. QED  BY <2>1, <2>2 DEF Spawn
<1>3. Running' = Running \union {spawned} /\ spawned \notin Running
  BY <1>1 DEF Spawn, Running
<1>4. (wg = Cardinality(Running))'
  BY <1>3, FS_AddElement, RunningFinite DEF Spawn
<1>5. NoStrayWorker' /\ SeqInv' /\ ResultIndependentOfSchedule'
  BY DEF NoStrayWorker, SeqInv, ResultIndependentOfSchedule, Spawn
<1>6. (\A k \in Worker : WorkerInv(k))' /\ Exclusive'
  BY DEF WorkerInv, Exclusive, Busy, Spawn
<1>7. ParInv'
  <2>1. (1 < workers /\ workers <= ncomps /\ spawned <= workers)'
    BY DEF Spawn, ParInv
  <2>2. (\A k \in Running : k < spawned)'
    BY <1>1, <1>3 DEF Spawn, ParInv, Running, Worker
  <2>3. (\A k \in Worker : k < spawned /\ pc[k] = "off" => next >= nchunks)'
    BY <1>1 DEF Spawn, ParInv, Worker
  <2>4. ASSUME NEW i \in 0 .. nchunks - 1, i < next
        PROVE \/ encoded'[i] = Encoding(call', i)
              \/ \E k \in Worker : pc'[k] \in Busy /\ idx'[k] = i
    <3>1. CASE encoded[i] = Encoding(call, i)  BY <3>1 DEF Spawn, Encoding
    <3>2. CASE \E k \in Worker : pc[k] \in Busy /\ idx[k] = i
      <4>1. PICK k \in Worker : pc[k] \in Busy /\ idx[k] = i  BY <3>2
      <4>2. pc'[k] = pc[k] /\ idx'[k] = idx[k]
        BY <4>1, <1>1 DEF Spawn, Busy
      <4>. QED  BY <4>1, <4>2
    <3>. QED  BY <2>4, <3>1, <3>2 DEF ParInv, Spawn
  <2>. QED  BY <2>1, <2>2, <2>3, <2>4 DEF Spawn, ParInv
<1>. QED  BY <1>2, <1>4, <1>5, <1>6, <1>7

(* wg.Wait() returns: nobody runs, every started goroutine left for want   *)
(* of an index, so every index was claimed and is placed.                  *)
LEMMA ReturnInv == ASSUME IInv, Return PROVE IInv'
<1>. USE ChunkPoolAssumption DEF IInv, TypeInv
<1>1. Running = {}
  BY RunningFinite, FS_EmptySet DEF Return, Joined
<1>2. TypeInv' /\ Running' = Running
  BY DEF Return, workVars, Running
<1>3. NoStrayWorker' /\ (wg = Cardinality(Running))'
  BY <1>1, <1>2 DEF NoStrayWorker, Return, workVars
<1>4. (\A k \in Worker : WorkerInv(k))' /\ Exclusive'
  BY DEF WorkerInv, Exclusive, Return, workVars
<1>5. SeqInv' /\ ParInv'
  BY DEF SeqInv, ParInv, Return
<1>6. next >= nchunks
  <2>. 0 \in Worker  BY DEF Worker
  <2>. pc[0] = "off"  BY <1>1 DEF Running
  <2>. QED  BY DEF Return, ParInv
<1>7. ResultIndependentOfSchedule'
  <2>. SUFFICES ASSUME NEW i \in 0 .. nchunks - 1
                PROVE encoded[i] = Encoding(call, i)
    BY DEF ResultIndependentOfSchedule, Return, workVars, Encoding
  <2>1. i < next  BY <1>6
  <2>2. ~ \E k \in Worker : pc[k] \in Busy /\ idx[k] = i
    BY <1>1 DEF Running, Busy
  <2>. QED  BY <2>1, <2>2 DEF Return, ParInv
<1>. QED  BY <1>2, <1>3, <1>4, <1>5, <1>7
(* A worker that is awake while somebody runs is one of this call's.       *)
LEMMA WorkerAwake ==
  ASSUME IInv, NEW k \in Worker, pc[k] # "off"
  PROVE  main = "spawn" /\ k \in Running /\ k < spawned
BY DEF IInv, NoStrayWorker, ParInv, Running

LEMMA ClaimInv == ASSUME IInv, NEW k \in Worker, Claim(k) PROVE IInv'
<1>. USE ChunkPoolAssumption DEF IInv, TypeInv, NextAfterClaim
<1>1. main = "spawn" /\ k < spawned  BY WorkerAwake DEF Claim
<1>2. TypeInv'  BY DEF Claim, mainVars, Busy
<1>3. Running' = Running  BY DEF Claim, Running
<1>4. (wg = Cardinality(Running))'  BY <1>3 DEF Claim
<1>5. NoStrayWorker' /\ SeqInv' /\ ResultIndependentOfSchedule'
  BY <1>1 DEF NoStrayWorker, SeqInv, ResultIndependentOfSchedule, Claim, mainVars
<1>6. (\A j \in Worker : WorkerInv(j))'
  BY DEF WorkerInv, Busy, Claim, mainVars
<1>7. Exclusive'
  <2>1. \A j \in Worker : j # k /\ pc[j] \in Busy => idx[j] < next
    BY DEF WorkerInv
  <2>2. idx'[k] = next /\ \A j \in Worker : j # k => idx'[j] = idx[j] /\ pc'[j] = pc[j]
    BY DEF Claim
  <2>3. \A j \in Worker : idx[j] \in Nat  OBVIOUS
  <2>. QED  BY <2>1, <2>2, <2>3 DEF Exclusive
<1>8. ParInv'
  <2>1. (1 < workers /\ workers <= ncomps /\ spawned <= workers
         /\ \A j \in Running : j < spawned)'
    BY <1>1, <1>3 DEF Claim, mainVars, ParInv
  <2>2. (\A j \in Worker : j < spawned /\ pc[j] = "off" => next >= nchunks)'
    BY <1>1 DEF Claim, mainVars, ParInv
  <2>3. ASSUME NEW i \in 0 .. nchunks - 1, i < next + 1
        PROVE \/ encoded[i] = Encoding(call, i)
              \/ \E j \in Worker : pc'[j] \in Busy /\ idx'[j] = i
    <3>1. CASE i = next  BY <3>1 DEF Claim, Busy
    <3>2. CASE i < next /\ \E j \in Worker : pc[j] \in Busy /\ idx[j] = i
      <4>1. PICK j \in Worker : pc[j] \in Busy /\ idx[j] = i  BY <3>2
      <4>2. pc'[j] = pc[j] /\ idx'[j] = idx[j]  BY <4>1 DEF Claim, Busy
      <4>. QED  BY <4>1, <4>2
    <3>. QED  BY <1>1, <2>3, <3>1, <3>2 DEF ParInv
  <2>. QED  BY <2>1, <2>2, <2>3 DEF Claim, mainVars, ParInv, Encoding
<1>. QED  BY <1>2, <1>4, <1>5, <1>6, <1>7, <1>8

LEMMA ExitInv == ASSUME IInv, NEW k \in Worker, Exit(k) PROVE IInv'
<1>. USE ChunkPoolAssumption DEF IInv, TypeInv
<1>1. main = "spawn" /\ k < spawned /\ k \in Running  BY WorkerAwake DEF Exit
<1>2. Running' = Running \ {k}  BY DEF Exit, Running
<1>3. (wg = Cardinality(Running))' /\ wg' \in Nat
  <2>1. Cardinality(Running \ {k}) = Cardinality(Running) - 1
    BY <1>1, RunningFinite, FS_RemoveElement
  <2>2. Cardinality(Running) # 0  BY <1>1, RunningFinite, FS_EmptySet
  <2>. QED  BY <1>2, <2>1, <2>2 DEF Exit
<1>4. TypeInv'  BY <1>3 DEF Exit, mainVars
<1>5. NoStrayWorker' /\ SeqInv' /\ ResultIndependentOfSchedule'
  BY <1>1 DEF NoStrayWorker, SeqInv, ResultIndependentOfSchedule, Exit, mainVars
<1>6. (\A j \in Worker : WorkerInv(j))' /\ Exclusive'
  BY DEF WorkerInv, Exclusive, Busy, Exit, mainVars
<1>7. ParInv'
  <2>1. (1 < workers /\ workers <= ncomps /\ spawned <= workers
         /\ \A j \in Running : j < spawned)'
    BY <1>1, <1>2 DEF Exit, mainVars, ParInv
  <2>2. (\A j \in Worker : j < spawned /\ pc[j] = "off" => next >= nchunks)'
    BY DEF Exit, mainVars
  <2>3. ASSUME NEW i \in 0 .. nchunks - 1
        PROVE \/ encoded[i] = Encoding(call, i)
              \/ \E j \in Worker : pc'[j] \in Busy /\ idx'[j] = i
    <3>1. i < next  BY <2>3 DEF Exit
    <3>2. CASE \E j \in Worker : pc[j] \in Busy /\ idx[j] = i
      <4>1. PICK j \in Worker : pc[j] \in Busy /\ idx[j] = i  BY <3>2
      <4>2. pc'[j] = pc[j] /\ idx'[j] = idx[j]  BY <4>1 DEF Exit, Busy
      <4>. QED  BY <4>1, <4>2
    <3>. QED  BY <1>1, <3>1, <3>2 DEF ParInv
  <2>. QED  BY <2>1, <2>2, <2>3 DEF Exit, mainVars, ParInv, Encoding
<1>. QED  BY <1>3, <1>4, <1>5, <1>6, <1>7

(* Load and Emit move one worker between busy states, and leave the rest.  *)
LEMMA LoadInv == ASSUME IInv, NEW k \in Worker, Load(k) PROVE IInv'
<1>. USE ChunkPoolAssumption DEF IInv, TypeInv, CompOf
<1>1. main = "spawn"  BY WorkerAwake DEF Load
<1>2. TypeInv'  BY DEF Load, mainVars, Busy, Chunk
<1>3. Running' = Running  BY DEF Load, Running
<1>4. NoStrayWorker' /\ SeqInv' /\ ResultIndependentOfSchedule'
      /\ (wg = Cardinality(Running))'
  BY <1>1, <1>3 DEF NoStrayWorker, SeqInv, ResultIndependentOfSchedule, Load, mainVars
<1>5. (\A j \in Worker : WorkerInv(j))' /\ Exclusive'
  BY DEF WorkerInv, Exclusive, Busy, Load, mainVars
<1>6. ParInv'
  <2>1. \A j \in Worker : pc[j] \in Busy => pc'[j] \in Busy  BY DEF Load, Busy
  <2>2. \A j \in Worker : pc'[j] = "off" => pc[j] = "off"  BY DEF Load
  <2>. QED  BY <1>1, <1>3, <2>1, <2>2 DEF ParInv, Load, mainVars, Encoding
<1>. QED  BY <1>2, <1>4, <1>5, <1>6

LEMMA EmitInv == ASSUME IInv, NEW k \in Worker, Emit(k) PROVE IInv'
<1>. USE ChunkPoolAssumption DEF IInv, TypeInv, CompOf
<1>1. main = "spawn"  BY WorkerAwake DEF Emit
<1>2. TypeInv'
  <2>1. ok' \in [Worker -> BOOLEAN]  BY DEF Emit
  <2>2. scratch' \in [Worker -> Chunk \union {None}]  BY DEF Emit
  <2>3. pc' \in [Worker -> {"off", "claim"} \union Busy]  BY DEF Emit, Busy
  <2>. QED  BY <2>1, <2>2, <2>3 DEF Emit, mainVars
<1>3. Running' = Running  BY DEF Emit, Running
<1>4. NoStrayWorker' /\ SeqInv' /\ ResultIndependentOfSchedule'
      /\ (wg = Cardinality(Running))'
  BY <1>1, <1>3 DEF NoStrayWorker, SeqInv, ResultIndependentOfSchedule, Emit, mainVars
<1>5. (\A j \in Worker : WorkerInv(j))'
  <2>1. comp[k] = <<call, idx[k]>>  BY DEF Emit, WorkerInv
  <2>2. UNCHANGED <<call, nchunks, next, idx, comp>>  BY DEF Emit, mainVars
  <2>3. pc[k] \in Busy /\ pc'[k] = "place"  BY DEF Emit, Busy
  <2>4. WorkerInv(k)'
    <3>1. ok'[k] = (comp[k] \notin Declined)  BY DEF Emit
    <3>2. comp[k] \notin Declined => scratch'[k] = comp[k]  BY DEF Emit
    <3>. QED  BY <2>1, <2>2, <2>3, <3>1, <3>2 DEF WorkerInv
  <2>5. ASSUME NEW j \in Worker, j # k PROVE WorkerInv(j)'
    <3>1. pc'[j] = pc[j] /\ ok'[j] = ok[j] /\ scratch'[j] = scratch[j]
      BY <2>5 DEF Emit
    <3>. QED  BY <2>2, <3>1 DEF WorkerInv
  <2>. QED  BY <2>4, <2>5
<1>6. Exclusive'  BY DEF Exclusive, Busy, Emit
<1>7. ParInv'
  <2>1. \A j \in Worker : pc[j] \in Busy => pc'[j] \in Busy  BY DEF Emit, Busy
  <2>2. \A j \in Worker : pc'[j] = "off" => pc[j] = "off"  BY DEF Emit
  <2>. QED  BY <1>1, <1>3, <2>1, <2>2 DEF ParInv, Emit, mainVars, Encoding
<1>. QED  BY <1>2, <1>4, <1>5, <1>6, <1>7

(* What is placed is the chunk's own encoding, and no other index changes. *)
LEMMA PlaceInv == ASSUME IInv, NEW k \in Worker, Place(k) PROVE IInv'
<1>. USE ChunkPoolAssumption DEF IInv, TypeInv
<1>1. main = "spawn"  BY WorkerAwake DEF Place
<1>2. idx[k] \in 0 .. nchunks - 1
  <2>1. pc[k] \in Busy  BY DEF Place, Busy
  <2>2. idx[k] < nchunks  BY <2>1 DEF WorkerInv
  <2>3. idx[k] \in Nat /\ nchunks \in 0 .. MaxChunks  BY DEF Worker
  <2>. QED  BY <2>2, <2>3
<1>3. ChunkResult(k) = Encoding(call, idx[k])
  BY DEF ChunkResult, Encoding, WorkerInv, Place
<1>4. TypeInv'
  <2>1. Encoding(call, idx[k]) \in [chunk: Chunk \union {None}, form: Form]
    BY <1>2 DEF Encoding, Chunk, Form
  <2>2. encoded' \in [0 .. nchunks - 1 -> [chunk: Chunk \union {None},
                                        form: Form] \union {None}]
    BY <1>3, <2>1 DEF Place
  <2>3. pc' \in [Worker -> {"off", "claim"} \union Busy]  BY DEF Place
  <2>. QED  BY <2>2, <2>3 DEF Place, mainVars
<1>5. Running' = Running  BY DEF Place, Running
<1>6. NoStrayWorker' /\ SeqInv' /\ ResultIndependentOfSchedule'
      /\ (wg = Cardinality(Running))'
  BY <1>1, <1>5 DEF NoStrayWorker, SeqInv, ResultIndependentOfSchedule, Place, mainVars
<1>7. (\A j \in Worker : WorkerInv(j))' /\ Exclusive'
  BY DEF WorkerInv, Exclusive, Busy, Place, mainVars
<1>8. ParInv'
  <2>1. \A j \in Worker : pc'[j] = "off" => pc[j] = "off"  BY DEF Place
  <2>2. ASSUME NEW i \in 0 .. nchunks - 1, i < next
        PROVE \/ encoded'[i] = Encoding(call, i)
              \/ \E j \in Worker : pc'[j] \in Busy /\ idx'[j] = i
    <3>1. CASE i = idx[k]  BY <1>2, <1>3, <3>1 DEF Place
    <3>2. CASE i # idx[k] /\ encoded[i] = Encoding(call, i)
      BY <3>2 DEF Place
    <3>3. CASE i # idx[k] /\ \E j \in Worker : pc[j] \in Busy /\ idx[j] = i
      <4>1. PICK j \in Worker : pc[j] \in Busy /\ idx[j] = i  BY <3>3
      <4>2. j # k  BY <3>3, <4>1
      <4>3. pc'[j] = pc[j] /\ idx'[j] = idx[j]  BY <4>1, <4>2 DEF Place
      <4>. QED  BY <4>1, <4>3
    <3>. QED  BY <1>1, <2>2, <3>1, <3>2, <3>3 DEF ParInv
  <2>. QED  BY <1>1, <1>5, <2>1, <2>2 DEF ParInv, Place, mainVars, Encoding
<1>. QED  BY <1>4, <1>6, <1>7, <1>8

LEMMA StepInv == IInv /\ [Next]_vars => IInv'
<1>. SUFFICES ASSUME IInv, [Next]_vars PROVE IInv'  OBVIOUS
<1>1. ASSUME NEW n \in 1 .. MaxChunks, Call(n) PROVE IInv'  BY <1>1, CallInv
<1>2. CASE SeqEncode  BY <1>2, SeqEncodeInv
<1>3. CASE SeqReturn  BY <1>3, SeqReturnInv
<1>4. CASE Spawn  BY <1>4, SpawnInv
<1>5. CASE Return  BY <1>5, ReturnInv
<1>6. ASSUME NEW k \in Worker, Work(k) PROVE IInv'
  BY <1>6, ClaimInv, ExitInv, LoadInv, EmitInv, PlaceInv DEF Work
<1>7. CASE UNCHANGED vars
  BY <1>7 DEF vars, mainVars, workVars, IInv, TypeInv, NoStrayWorker, Running,
     WorkerInv, Exclusive, SeqInv, ParInv, ResultIndependentOfSchedule, Encoding
<1>. QED  BY <1>1, <1>2, <1>3, <1>4, <1>5, <1>6, <1>7 DEF Next, Main

(* The inductive invariant holds in every reachable state.                 *)
THEOREM Invariance == Spec => []IInv
BY InitInv, StepInv, PTL DEF Spec

(* Types, the WaitGroup's counter among them, for every pool size.         *)
THEOREM TypeCorrect == Spec => []TypeInv
<1>1. IInv => TypeInv  BY DEF IInv
<1>. QED  BY <1>1, Invariance, PTL

(* Options.Concurrency changes nothing of what encodeChunks returns.       *)
THEOREM ScheduleIndependence == Spec => []ResultIndependentOfSchedule
<1>1. IInv => ResultIndependentOfSchedule  BY DEF IInv
<1>. QED  BY <1>1, Invariance, PTL

(* The unlocked writes to the result, and the uses of w.comps, never race. *)
THEOREM RaceFreedom == Spec => []RaceFree
<1>1. ASSUME IInv PROVE ExclusiveIndex
  BY <1>1 DEF IInv, ExclusiveIndex, Exclusive, WorkerInv
<1>2. ASSUME IInv PROVE OwnCompressor
  <2>. SUFFICES ASSUME NEW k \in Running
                PROVE k < ncomps /\ (pc[k] = "emit" => comp[k] = <<call, idx[k]>>)
    BY DEF OwnCompressor
  <2>1. k \in Worker /\ pc[k] # "off"  BY DEF Running
  <2>2. k < spawned /\ main = "spawn"  BY <1>2, <2>1, WorkerAwake
  <2>3. k < ncomps
    BY <1>2, <2>1, <2>2, ChunkPoolAssumption DEF IInv, ParInv, TypeInv, Worker
  <2>. QED  BY <1>2, <2>1, <2>3 DEF IInv, WorkerInv
<1>3. IInv => RaceFree
  BY <1>1, <1>2 DEF IInv, RaceFree
<1>. QED  BY <1>3, Invariance, PTL

-----------------------------------------------------------------------------
LEMMA EncoderInit == Init => Encoder!Init
BY DEF Init, Encoder!Init, NoResult, Encoder!Nothing

LEMMA EncoderStep == IInv /\ IInv' /\ [Next]_vars => [Encoder!Next]_Encoder!vars
<1>. SUFFICES ASSUME IInv, IInv', [Next]_vars
              PROVE  Encoder!Next \/ UNCHANGED Encoder!vars
  OBVIOUS
<1>1. ASSUME NEW n \in 1 .. MaxChunks, Call(n) PROVE Encoder!Request(n)
  BY <1>1 DEF Call, Encoder!Request, NoResult, Encoder!Nothing
<1>2. ASSUME SeqReturn \/ Return PROVE Encoder!Deliver
  <2>1. main # "idle" /\ main' = "idle" /\ UNCHANGED <<call, nchunks, encoded>>
    BY <1>2 DEF SeqReturn, Return, workVars
  <2>2. call > 0 /\ encoded \in [0 .. nchunks - 1 -> [chunk: Chunk \union {None},
                                        form: Form] \union {None}]
    BY <1>2, <2>1 DEF IInv, TypeInv, SeqInv, ParInv, SeqReturn, Return
  <2>. QED
    BY <2>1, <2>2
    DEF IInv, ResultIndependentOfSchedule, Encoding, Encoder!Deliver, Encoder!Encoding
<1>3. ASSUME SeqEncode \/ Spawn \/ \E k \in Worker : Work(k)
      PROVE UNCHANGED Encoder!vars
  <2>1. UNCHANGED <<main, call, nchunks>> /\ main # "idle"
    <3>1. CASE SeqEncode  BY <3>1 DEF SeqEncode, mainVars
    <3>2. CASE Spawn  BY <3>2 DEF Spawn
    <3>3. ASSUME NEW k \in Worker, Work(k)
          PROVE UNCHANGED <<main, call, nchunks>> /\ main # "idle"
      <4>1. pc[k] # "off" /\ UNCHANGED mainVars
        BY <3>3 DEF Work, Claim, Exit, Load, Emit, Place
      <4>. QED  BY <4>1, WorkerAwake DEF mainVars
    <3>. QED  BY <1>3, <3>1, <3>2, <3>3
  <2>. QED  BY <2>1 DEF Encoder!vars
<1>4. ASSUME UNCHANGED vars PROVE UNCHANGED Encoder!vars
  BY <1>4 DEF vars, mainVars, workVars, Encoder!vars
<1>. QED  BY <1>1, <1>2, <1>3, <1>4 DEF Next, Main, Encoder!Next

(* The parallel encoder implements the one without goroutines: a caller    *)
(* that sees only the request and the result cannot tell them apart.       *)
THEOREM Refinement == Spec => Encoder!Spec
BY EncoderInit, EncoderStep, Invariance, PTL DEF Spec, Encoder!Spec
=============================================================================
