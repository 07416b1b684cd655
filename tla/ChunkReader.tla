----------------------------- MODULE ChunkReader -----------------------------
(***************************************************************************)
(* Reading file content: wimFile.Read and ReadAt (fs.go) over              *)
(* readResourceAt, readStoredAt, readChunkedAt and chunks (resource.go).   *)
(* One Reader holds one compressed file, opened any number of times, and   *)
(* the same file stored verbatim.  Goroutines share handles: a handle's    *)
(* cache holds the one chunk decoded last and is guarded by a mutex; the   *)
(* chunk table is read by whoever comes first, under a sync.Once.          *)
(*                                                                         *)
(* Byte i of the file is written as i.  The backing io.ReaderAt may fail   *)
(* at any read and work again at the next.  A buffer is known by the chunk *)
(* it holds; Junk is one that a failed read or decode left half-written.   *)
(***************************************************************************)
EXTENDS Integers, Sequences

CONSTANTS
  Goroutines, Handles,
  HandleOf,   \* the handle every goroutine reads through
  Stored,     \* the handles of the file that is stored verbatim
  ChunkSize,
  FileSize,   \* res.uncompressed
  Kind,       \* how a chunk is stored: "lzx", "raw" or "bad" (undecodable)
  EndsBacking,\* the compressed resource is the last thing in the WIM
  Requests,   \* the [off, len] that callers pass to ReadAt
  Lengths,    \* the len(p) that callers pass to Read
  Junk, None, \* none of the above
  MaxCalls,   \* bound: the calls made altogether
  MaxFaults   \* bound: the reads of the backing that fail

(* readChunkTable: rounded up.                                             *)
NumChunks == (FileSize + ChunkSize - 1) \div ChunkSize
Chunk == 0 .. NumChunks - 1

(* idx of a cache that holds nothing.                                      *)
NoChunk == -1

ASSUME ReaderAssumption ==
  /\ HandleOf \in [Goroutines -> Handles] /\ Stored \subseteq Handles
  /\ ChunkSize \in Nat \ {0} /\ FileSize \in Nat \ {0}
  /\ Kind \in [Chunk -> {"lzx", "raw", "bad"}] /\ EndsBacking \in BOOLEAN
  /\ Requests \subseteq [off: Int, len: Nat] /\ Lengths \subseteq Nat
  /\ None \notin [off: Int, len: Nat] /\ None \notin Goroutines
  /\ Junk \notin Int
  /\ MaxCalls \in Nat /\ MaxFaults \in Nat

VARIABLES
  table,    \* the memo of rd.tables: "none", "loading", "ok" or "failed"
  mu,       \* who holds a cache's mutex
  idx,      \* chunkCache.idx
  data,     \* chunkCache.data, the chunk decoded into it
  raw,      \* chunkCache.raw, the chunk whose stored bytes were read
  foff,     \* wimFile.off
  pc,       \* where each goroutine is in its call
  req,      \* what it asked for: [off, len], or None
  streams,  \* it called Read, not ReadAt
  at,       \* k, the chunk it is at
  src,      \* the buffer it is about to copy from
  out,      \* the bytes it has produced
  ret,      \* how its last call ended: [bytes, err], or None
  streamed, \* what Read has returned of each handle, all calls together
  calls, faults

shared == <<table, mu, idx, data, raw>>
stream == <<foff, streamed>>
local == <<pc, req, streams, at, src, out, ret>>
vars == <<shared, stream, local, calls, faults>>

Init ==
  /\ table = "none"
  /\ mu = [h \in Handles |-> None] /\ idx = [h \in Handles |-> NoChunk]
  /\ data = [h \in Handles |-> Junk] /\ raw = [h \in Handles |-> Junk]
  /\ foff = [h \in Handles |-> 0] /\ streamed = [h \in Handles |-> <<>>]
  /\ pc = [g \in Goroutines |-> "idle"] /\ req = [g \in Goroutines |-> None]
  /\ streams = [g \in Goroutines |-> FALSE]
  /\ at = [g \in Goroutines |-> 0] /\ src = [g \in Goroutines |-> Junk]
  /\ out = [g \in Goroutines |-> <<>>] /\ ret = [g \in Goroutines |-> None]
  /\ calls = 0 /\ faults = 0

-----------------------------------------------------------------------------
Smaller(a, b) == IF a <= b THEN a ELSE b

Go(g, l) == pc' = [pc EXCEPT ![g] = l]

(* p is cut at the end of the file.                                        *)
Wanted(q) == Smaller(q.len, FileSize - q.off)
Short(q) == q.off + q.len > FileSize

ChunkLen(k) == IF k = NumChunks - 1 THEN FileSize - k * ChunkSize ELSE ChunkSize

(* Bug: the mutex stays locked.                                            *)
UnlockForgotten(g) == mu

Unlocked(g) == [h \in Handles |-> IF mu[h] = g THEN None ELSE mu[h]]

(* Bug: Read advances by what was asked for.                               *)
AdvanceByLength(g, n) == req[g].len

Advance(g, n) == n

(* The call returns bytes and an error; Read advances the file's position  *)
(* by the bytes, also when there was an error.                             *)
Return(g, bytes, err) ==
  LET h == HandleOf[g] IN
  /\ Go(g, "idle")
  /\ ret' = [ret EXCEPT ![g] = [bytes |-> bytes, err |-> err]]
  /\ out' = [out EXCEPT ![g] = <<>>]
  /\ req' = [req EXCEPT ![g] = None]
  /\ IF streams[g]
     THEN /\ foff' = [foff EXCEPT ![h] = @ + Advance(g, Len(bytes))]
          /\ streamed' = [streamed EXCEPT ![h] = @ \o bytes]
     ELSE UNCHANGED stream
  /\ mu' = Unlocked(g)
  /\ streams' = [streams EXCEPT ![g] = FALSE]
  /\ at' = [at EXCEPT ![g] = 0] /\ src' = [src EXCEPT ![g] = Junk]
  /\ UNCHANGED calls

(* ReadAt(p, off) with a p of q.len bytes, and Read(p), which nobody calls *)
(* twice at a time on one handle.                                          *)
Call(g, q, isRead) ==
  /\ pc[g] = "idle" /\ calls < MaxCalls
  /\ isRead => /\ q.off = foff[HandleOf[g]]
               /\ \A o \in Goroutines : HandleOf[o] = HandleOf[g] => ~streams[o]
  /\ Go(g, "begin")
  /\ req' = [req EXCEPT ![g] = q] /\ streams' = [streams EXCEPT ![g] = isRead]
  /\ ret' = [ret EXCEPT ![g] = None]
  /\ calls' = calls + 1
  /\ UNCHANGED <<shared, stream, at, src, out, faults>>

(* readResourceAt: what needs no byte of the resource.                     *)
Refuse(g) ==
  /\ pc[g] = "begin"
  /\ \/ req[g].off < 0 /\ Return(g, <<>>, "failed")
     \/ req[g].off >= FileSize /\ Return(g, <<>>, "eof")
     \/ /\ req[g].off \in 0 .. FileSize - 1 /\ req[g].len = 0
        /\ Return(g, <<>>, "nil")
  /\ UNCHANGED <<table, idx, data, raw, faults>>

Begin(g) ==
  /\ pc[g] = "begin" /\ req[g].off \in 0 .. FileSize - 1 /\ req[g].len > 0
  /\ Go(g, IF HandleOf[g] \in Stored THEN "stored" ELSE "table")
  /\ UNCHANGED <<shared, stream, req, streams, at, src, out, ret, calls, faults>>

FileBytes(off, n) == [i \in 1 .. n |-> off + i - 1]

(* Bug: a read that was cut short says nothing of it.                      *)
EndSilent(q) == "nil"

(* A read served short reports EOF.                                        *)
End(q) == IF Short(q) THEN "eof" ELSE "nil"

(* readStoredAt: one read of the backing, straight into p.                 *)
ReadStored(g) ==
  /\ pc[g] = "stored"
  /\ \/ Return(g, FileBytes(req[g].off, Wanted(req[g])), End(req[g])) /\ UNCHANGED faults
     \/ /\ faults < MaxFaults /\ faults' = faults + 1
        /\ \E n \in 0 .. Wanted(req[g]) : Return(g, FileBytes(req[g].off, n), "failed")
  /\ UNCHANGED <<table, idx, data, raw>>

-----------------------------------------------------------------------------
(* chunks: the first to come reads the table, the others wait for it, and  *)
(* whatever came of it is remembered.                                      *)
EnterTable(g) ==
  /\ pc[g] = "table" /\ table = "none"
  /\ table' = "loading" /\ Go(g, "loading")
  /\ UNCHANGED <<mu, idx, data, raw, stream, req, streams, at, src, out, ret, calls, faults>>

LoadTable(g) ==
  /\ pc[g] = "loading"
  /\ \/ /\ table' = "ok" /\ Go(g, "lock")
        /\ UNCHANGED <<mu, stream, req, streams, at, src, out, ret, calls, faults>>
     \/ /\ faults < MaxFaults /\ faults' = faults + 1
        /\ table' = "failed" /\ Return(g, <<>>, "failed")
  /\ UNCHANGED <<idx, data, raw>>

TableReady(g) ==
  /\ pc[g] = "table"
  /\ \/ /\ table = "ok" /\ Go(g, "lock")
        /\ UNCHANGED <<mu, stream, req, streams, at, src, out, ret, calls>>
     \/ table = "failed" /\ Return(g, <<>>, "failed")
  /\ UNCHANGED <<table, idx, data, raw, faults>>

-----------------------------------------------------------------------------
(* readChunkedAt, with the cache of the handle.                            *)

(* Bug: nobody locks the cache.                                            *)
AlwaysFree(h) == TRUE

Free(h) == mu[h] = None

Lock(g) ==
  LET h == HandleOf[g] IN
  /\ pc[g] = "lock" /\ Free(h)
  /\ mu' = [mu EXCEPT ![h] = g]
  /\ at' = [at EXCEPT ![g] = req[g].off \div ChunkSize]
  /\ Go(g, "chunk")
  /\ UNCHANGED <<table, idx, data, raw, stream, req, streams, src, out, ret, calls, faults>>

More(g) == Len(out[g]) < Wanted(req[g])

CopyFrom(g, b) == src' = [src EXCEPT ![g] = b] /\ Go(g, "copy")

(* The chunk is already decoded.                                           *)
Hit(g) ==
  /\ pc[g] = "chunk" /\ More(g) /\ idx[HandleOf[g]] = at[g]
  /\ CopyFrom(g, "data")
  /\ UNCHANGED <<shared, stream, req, streams, at, out, ret, calls, faults>>

Fetch(g) ==
  LET h == HandleOf[g] IN
  /\ pc[g] = "chunk" /\ More(g) /\ idx[h] # at[g]
  /\ raw' = [raw EXCEPT ![h] = at[g]] /\ Go(g, "fetched")
  /\ UNCHANGED <<table, mu, idx, data, stream, req, streams, at, src, out, ret, calls, faults>>

(* The backing fails, or reports the end of its bytes with the last of     *)
(* them, as io.ReaderAt allows.                                            *)
FetchFails(g) ==
  LET h == HandleOf[g] IN
  /\ pc[g] = "chunk" /\ More(g) /\ idx[h] # at[g]
  /\ \/ /\ faults < MaxFaults /\ faults' = faults + 1
        /\ \E b \in {raw[h], Junk} : raw' = [raw EXCEPT ![h] = b]
     \/ /\ EndsBacking /\ at[g] = NumChunks - 1
        /\ raw' = [raw EXCEPT ![h] = at[g]] /\ UNCHANGED faults
  /\ Return(g, out[g], "failed")
  /\ UNCHANGED <<table, idx, data>>

(* A raw chunk is used where it was read to.                               *)
UseRaw(g) ==
  /\ pc[g] = "fetched" /\ Kind[at[g]] = "raw"
  /\ CopyFrom(g, "raw")
  /\ UNCHANGED <<shared, stream, req, streams, at, out, ret, calls, faults>>

Decode(g) ==
  LET h == HandleOf[g] IN
  /\ pc[g] = "fetched" /\ Kind[at[g]] = "lzx"
  /\ data' = [data EXCEPT ![h] = raw[h]] /\ idx' = [idx EXCEPT ![h] = at[g]]
  /\ CopyFrom(g, "data")
  /\ UNCHANGED <<table, mu, raw, stream, req, streams, at, out, ret, calls, faults>>

(* Bug: a failed decode leaves the cache as it was.                        *)
IndexKept(h) == idx

IndexDropped(h) == [idx EXCEPT ![h] = NoChunk]

DecodeFails(g) ==
  LET h == HandleOf[g] IN
  /\ pc[g] = "fetched" /\ Kind[at[g]] = "bad"
  /\ data' = [data EXCEPT ![h] = Junk]
  /\ idx' = IndexDropped(h)
  /\ Return(g, out[g], "failed")
  /\ UNCHANGED <<table, raw, faults>>

(* Bug: the start of a chunk is copied although the read begins inside it. *)
FromStart(g) == 0

(* Where in chunk k the wanted bytes begin.                                *)
From(g) ==
  IF req[g].off > at[g] * ChunkSize THEN req[g].off - at[g] * ChunkSize ELSE 0

(* The bytes of a buffer that holds chunk b, from a place in it on.        *)
BytesOf(b, from, n) ==
  [i \in 1 .. n |-> IF b = Junk THEN Junk ELSE b * ChunkSize + from + i - 1]

Copy(g) ==
  LET h == HandleOf[g]
      n == Smaller(Wanted(req[g]) - Len(out[g]), ChunkLen(at[g]) - From(g)) IN
  /\ pc[g] = "copy"
  /\ out' = [out EXCEPT ![g] =
       @ \o BytesOf(IF src[g] = "data" THEN data[h] ELSE raw[h], From(g), n)]
  /\ at' = [at EXCEPT ![g] = @ + 1]
  /\ Go(g, "chunk")
  /\ UNCHANGED <<shared, stream, req, streams, src, ret, calls, faults>>

(* The chunks of a table that was accepted cover the file, so the loop     *)
(* never ends early.                                                       *)
Finish(g) ==
  /\ pc[g] = "chunk" /\ ~More(g)
  /\ Return(g, out[g], End(req[g]))
  /\ UNCHANGED <<table, idx, data, raw, faults>>

-----------------------------------------------------------------------------
Calls(g) ==
  \/ \E q \in Requests : Call(g, q, FALSE)
  \/ \E n \in Lengths : Call(g, [off |-> foff[HandleOf[g]], len |-> n], TRUE)

Chunked(g) ==
  \/ EnterTable(g) \/ LoadTable(g) \/ TableReady(g) \/ Lock(g) \/ Hit(g) \/ Fetch(g)
  \/ FetchFails(g) \/ UseRaw(g) \/ Decode(g) \/ DecodeFails(g) \/ Copy(g) \/ Finish(g)

Step(g) == Refuse(g) \/ Begin(g) \/ ReadStored(g) \/ Chunked(g)

Next == \E g \in Goroutines : Calls(g) \/ Step(g)

Spec == Init /\ [][Next]_vars

(* Goroutines that are ready run, and a reader makes only so many calls    *)
(* that nobody waits for a mutex without end.                              *)
FairSpec == Spec /\ \A g \in Goroutines : WF_vars(Step(g))

-----------------------------------------------------------------------------
(* Properties.                                                             *)

Buffer == Chunk \union {Junk}
Request == [off: Int, len: Nat]

(* The shape of the handles and of the goroutines in them.                 *)
ReadTypeInv ==
  /\ table \in {"none", "loading", "ok", "failed"}
  /\ mu \in [Handles -> Goroutines \union {None}]
  /\ idx \in [Handles -> Chunk \union {NoChunk}]
  /\ data \in [Handles -> Buffer] /\ raw \in [Handles -> Buffer]
  /\ foff \in [Handles -> 0 .. FileSize]
  /\ pc \in [Goroutines -> {"idle", "begin", "stored", "table", "loading", "lock",
                            "chunk", "fetched", "copy"}]
  /\ at \in [Goroutines -> 0 .. NumChunks]
  /\ \A g \in Goroutines : pc[g] # "idle" => req[g] \in Request

(* A cache that names a chunk holds that chunk, whole, whatever failed or  *)
(* was read raw since it was decoded.                                      *)
CacheCoherent == \A h \in Handles : idx[h] # NoChunk => data[h] = idx[h]

(* Nobody else writes a buffer between its filling and the copy from it.   *)
BuffersAreMine ==
  \A g \in Goroutines :
    /\ pc[g] \in {"chunk", "fetched", "copy"} => mu[HandleOf[g]] = g
    /\ pc[g] = "fetched" => raw[HandleOf[g]] = at[g]
    /\ pc[g] = "copy" => at[g] = IF src[g] = "data" THEN data[HandleOf[g]]
                                                    ELSE raw[HandleOf[g]]

(* What a call has produced are the bytes it was asked for and no others.  *)
BytesExact ==
  \A g \in Goroutines : out[g] # <<>> => out[g] = FileBytes(req[g].off, Len(out[g]))

(* Read, call after call and over errors in between, yields the file: it   *)
(* neither repeats a byte nor skips one (wimFile.Read).                    *)
StreamIntact ==
  \A h \in Handles : streamed[h] = FileBytes(0, foff[h])

(* Every read ends: whoever waits for a table or for a mutex gets it.      *)
EveryReadReturns == \A g \in Goroutines : pc[g] = "begin" ~> pc[g] = "idle"

(* A handle is an io.ReaderAt, for all its callers at once.                *)
File == INSTANCE ReaderAt WITH
  Callers <- Goroutines, asked <- req, answer <- ret

ImplementsReaderAt == File!Spec

(* resource.go:198: "io.ReaderAt permits EOF alongside a full read, so     *)
(* that one is not a failure": with every chunk sound and no read of the   *)
(* backing failing, no read of the file inside its bounds fails.           *)
NoFaultNoFailure ==
  [][\A g \in Goroutines :
       /\ faults' = 0 /\ (\A k \in Chunk : Kind[k] # "bad")
       /\ req[g] # None /\ req[g].off >= 0 /\ ret'[g] # ret[g]
       => ret'[g] = None \/ ret'[g].err # "failed"]_vars
=============================================================================
