-------------------------- MODULE ChunkReaderProofs --------------------------
(***************************************************************************)
(* Reading through shared handles, for any number of goroutines, handles,  *)
(* chunks and faults: a cache holds the chunk it names, nobody writes a    *)
(* buffer another goroutine is about to copy from, and the bytes a call    *)
(* has produced are those of the file at the place it asked for.           *)
(*                                                                         *)
(* What makes it inductive is where a call stands between its chunks: it   *)
(* has produced nothing and is at the chunk its offset lies in, or it has  *)
(* produced all up to where its next chunk begins, or all it wanted.       *)
(***************************************************************************)
EXTENDS ChunkReader, SequenceTheorems, TLAPS

Critical == {"chunk", "fetched", "copy"}
Started == {"stored", "table", "loading", "lock"} \union Critical

-----------------------------------------------------------------------------
(* The arithmetic of chunks.                                               *)

LEMMA DivBounds ==
  ASSUME NEW a \in Nat, NEW c \in Nat \ {0}
  PROVE  /\ a \div c \in Nat
         /\ (a \div c) * c <= a /\ a < (a \div c) * c + c
<1>1. a \div c \in Nat  OBVIOUS
<1>2. (a \div c) * c <= a /\ a < (a \div c) * c + c  OBVIOUS
<1>. QED  BY <1>1, <1>2

LEMMA MulLess ==
  ASSUME NEW k \in Int, NEW m \in Int, NEW c \in Nat \ {0}, k * c < m * c
  PROVE  k < m
OBVIOUS

(* The last chunk is the one that ends the file.                           *)
LEMMA NumChunksBounds ==
  /\ NumChunks \in Nat \ {0}
  /\ (NumChunks - 1) * ChunkSize < FileSize /\ FileSize <= NumChunks * ChunkSize
<1>. USE ReaderAssumption
<1>. DEFINE a == FileSize + ChunkSize - 1
<1>1. a \in Nat /\ ChunkSize \in Nat \ {0} /\ NumChunks = a \div ChunkSize
  BY DEF NumChunks
<1>2. NumChunks \in Nat /\ NumChunks * ChunkSize <= a
      /\ a < NumChunks * ChunkSize + ChunkSize
  BY <1>1, DivBounds
<1>3. FileSize <= NumChunks * ChunkSize  BY <1>1, <1>2
<1>4. NumChunks # 0  BY <1>3
<1>5. (NumChunks - 1) * ChunkSize = NumChunks * ChunkSize - ChunkSize
  BY <1>1, <1>2
<1>. QED  BY <1>1, <1>2, <1>3, <1>4, <1>5

(* A chunk that begins inside the file is one of the chunks, and all but   *)
(* the last are whole.                                                     *)
LEMMA ChunkInside ==
  ASSUME NEW k \in Nat, k * ChunkSize < FileSize
  PROVE  /\ k \in Chunk /\ ChunkLen(k) \in Nat \ {0}
         /\ k * ChunkSize + ChunkLen(k) <= FileSize
         /\ \/ k * ChunkSize + ChunkLen(k) = FileSize
            \/ ChunkLen(k) = ChunkSize
         /\ k * ChunkSize + ChunkLen(k) <= k * ChunkSize + ChunkSize
<1>. USE ReaderAssumption, NumChunksBounds
<1>1. k * ChunkSize < NumChunks * ChunkSize
  <2>1. k * ChunkSize \in Int /\ NumChunks * ChunkSize \in Int  OBVIOUS
  <2>. QED  BY <2>1
<1>2. k < NumChunks  BY <1>1, MulLess
<1>3. k \in Chunk  BY <1>2 DEF Chunk
<1>4. CASE k = NumChunks - 1
  <2>. DEFINE b == k * ChunkSize
              t == NumChunks * ChunkSize
  <2>1. b \in Nat /\ ChunkLen(k) = FileSize - b  BY <1>4 DEF ChunkLen
  <2>2. t \in Nat /\ b = t - ChunkSize  BY <1>4
  <2>3. FileSize <= t  OBVIOUS
  <2>. HIDE DEF b, t
  <2>4. ChunkLen(k) \in Nat \ {0} /\ b + ChunkLen(k) = FileSize
        /\ b + ChunkLen(k) <= b + ChunkSize
    <3>1. b < FileSize  BY DEF b
    <3>. QED  BY <2>1, <2>2, <2>3, <3>1
  <2>. QED  BY <1>3, <2>4 DEF b
<1>5. CASE k # NumChunks - 1
  <2>1. ChunkLen(k) = ChunkSize  BY <1>5 DEF ChunkLen
  <2>2. k * ChunkSize + ChunkSize <= FileSize
    <3>. DEFINE d == NumChunks - 2 - k
    <3>1. d \in Nat  BY <1>2, <1>5
    <3>2. (NumChunks - 1) * ChunkSize = k * ChunkSize + ChunkSize + d * ChunkSize
      OBVIOUS
    <3>3. d * ChunkSize \in Nat /\ k * ChunkSize \in Nat  BY <3>1
    <3>. QED  BY <3>2, <3>3
  <2>. QED  BY <1>3, <2>1, <2>2
<1>. QED  BY <1>4, <1>5

-----------------------------------------------------------------------------
(* Runs of the file's bytes.                                               *)

LEMMA FileBytesProperties ==
  ASSUME NEW off \in Int, NEW n \in Nat
  PROVE  /\ FileBytes(off, n) \in Seq(Int) /\ Len(FileBytes(off, n)) = n
         /\ n = 0 => FileBytes(off, n) = <<>>
         /\ FileBytes(off, n) = <<>> => n = 0
<1>1. FileBytes(off, n) \in Seq(Int) /\ Len(FileBytes(off, n)) = n
  BY DEF FileBytes
<1>2. n = 0 => FileBytes(off, n) = <<>>  BY <1>1
<1>. QED  BY <1>1, <1>2

LEMMA FileBytesConcat ==
  ASSUME NEW off \in Int, NEW m \in Nat, NEW n \in Nat, NEW next \in Int,
         next = off + m
  PROVE  FileBytes(off, m) \o FileBytes(next, n) = FileBytes(off, m + n)
<1>. DEFINE s == FileBytes(off, m)
            t == FileBytes(next, n)
            u == FileBytes(off, m + n)
<1>1. s \in Seq(Int) /\ Len(s) = m /\ t \in Seq(Int) /\ Len(t) = n
      /\ u \in Seq(Int) /\ Len(u) = m + n
  BY FileBytesProperties
<1>2. /\ \A i \in 1 .. m : s[i] = off + i - 1
      /\ \A i \in 1 .. n : t[i] = off + m + i - 1
      /\ \A i \in 1 .. m + n : u[i] = off + i - 1
  BY DEF FileBytes
<1>. HIDE DEF s, t, u
<1>3. /\ s \o t \in Seq(Int) /\ Len(s \o t) = m + n
      /\ \A i \in 1 .. m + n : (s \o t)[i] = IF i <= m THEN s[i] ELSE t[i - m]
  <2>1. s \in Seq(Int) /\ t \in Seq(Int)  BY <1>1
  <2>. QED  BY <1>1, <2>1, ConcatProperties
<1>4. ASSUME NEW i \in 1 .. m + n PROVE (s \o t)[i] = u[i]
  <2>1. CASE i <= m  BY <1>2, <1>3, <2>1
  <2>2. CASE ~ (i <= m)
    <3>1. i - m \in 1 .. n /\ (s \o t)[i] = t[i - m]  BY <1>3, <2>2
    <3>2. t[i - m] = off + i - 1  BY <1>2, <3>1
    <3>. QED  BY <1>2, <3>2, <3>1
  <2>. QED  BY <2>1, <2>2
<1>5. s \o t = u
  <2>1. u \in Seq(Int) /\ Len(s \o t) = Len(u)  BY <1>1, <1>3
  <2>. HIDE DEF s, t, u
  <2>2. \A i \in 1 .. Len(s \o t) : (s \o t)[i] = u[i]  BY <1>3, <1>4
  <2>. QED  BY <1>3, <2>1, <2>2, SeqEqual
<1>. QED  BY <1>5 DEF s, t, u

LEMMA FileBytesFromStart ==
  ASSUME NEW m \in Nat, NEW n \in Nat
  PROVE  FileBytes(0, m) \o FileBytes(m, n) = FileBytes(0, m + n)
<1>1. 0 \in Int /\ m \in Int /\ m = 0 + m  OBVIOUS
<1>. QED  BY <1>1, FileBytesConcat, Zenon

-----------------------------------------------------------------------------
(* The inductive invariant.                                                *)

Shape ==
  /\ ReadTypeInv
  /\ req \in [Goroutines -> Request \union {None}]
  /\ streams \in [Goroutines -> BOOLEAN]
  /\ src \in [Goroutines -> {"data", "raw", Junk}]
  /\ out \in [Goroutines -> Seq(Int)]
  /\ streamed \in [Handles -> Seq(Int)]

(* What a goroutine may rely on while it has its handle's mutex.           *)
Mine(g) ==
  /\ pc[g] \in Critical => mu[HandleOf[g]] = g
  /\ pc[g] = "fetched" => raw[HandleOf[g]] = at[g]
  /\ pc[g] = "copy" => at[g] = IF src[g] = "data" THEN data[HandleOf[g]]
                                                  ELSE raw[HandleOf[g]]

(* What a goroutine has produced, and the chunk it is at.                  *)
Produced(g) ==
  LET n == Len(out[g])
      base == at[g] * ChunkSize IN
  /\ out[g] = FileBytes(req[g].off, n)
  /\ n <= Wanted(req[g])
  /\ \/ n = 0 /\ base <= req[g].off /\ req[g].off < base + ChunkSize
     \/ n > 0 /\ (n = Wanted(req[g]) \/ req[g].off + n = base)
  /\ pc[g] # "chunk" => n < Wanted(req[g])

Place(g) ==
  /\ pc[g] = "idle" => req[g] = None
  /\ pc[g] \notin Critical => out[g] = <<>>
  /\ pc[g] \in Started => req[g].off \in 0 .. FileSize - 1 /\ req[g].len > 0
  /\ pc[g] \in Critical => Produced(g)

(* One Read at a time on a handle, and it reads on where the last stopped. *)
Streams ==
  /\ \A g \in Goroutines : streams[g] =>
       pc[g] # "idle" /\ req[g].off = foff[HandleOf[g]]
  /\ \A g, o \in Goroutines :
       streams[g] /\ streams[o] /\ HandleOf[g] = HandleOf[o] => g = o
  /\ StreamIntact

ReadInv ==
  /\ Shape /\ CacheCoherent /\ Streams
  /\ \A g \in Goroutines : Mine(g) /\ Place(g)

Others(g) ==
  \A o \in Goroutines \ {g} :
    /\ pc'[o] = pc[o] /\ req'[o] = req[o] /\ at'[o] = at[o]
    /\ src'[o] = src[o] /\ out'[o] = out[o] /\ streams'[o] = streams[o]

(* Only the goroutine with the mutex touches a buffer.                     *)
Guarded(g) ==
  \A h \in Handles :
    \/ mu[h] \in {g, None}
    \/ mu'[h] = mu[h] /\ data'[h] = data[h] /\ raw'[h] = raw[h]

(* What a step of g need show: the others keep what is theirs.             *)
LEMMA StepKeeps ==
  ASSUME ReadInv, NEW g \in Goroutines, Others(g), Guarded(g),
         Shape', CacheCoherent', Streams', Mine(g)', Place(g)'
  PROVE  ReadInv'
<1>1. ASSUME NEW o \in Goroutines \ {g} PROVE Mine(o)' /\ Place(o)'
  <2>1. Mine(o) /\ Place(o)  BY DEF ReadInv
  <2>2. pc'[o] = pc[o] /\ req'[o] = req[o] /\ at'[o] = at[o]
        /\ src'[o] = src[o] /\ out'[o] = out[o]
    BY DEF Others
  <2>3. Place(o)'  BY <2>1, <2>2 DEF Place, Produced, Wanted, FileBytes, Smaller
  <2>4. ASSUME pc[o] \in Critical
        PROVE mu'[HandleOf[o]] = o /\ data'[HandleOf[o]] = data[HandleOf[o]]
              /\ raw'[HandleOf[o]] = raw[HandleOf[o]]
    <3>1. mu[HandleOf[o]] = o  BY <2>1, <2>4 DEF Mine
    <3>2. HandleOf[o] \in Handles /\ o # g /\ o # None  BY ReaderAssumption
    <3>. QED  BY <3>1, <3>2 DEF Guarded
  <2>5. Mine(o)'
    <3>1. CASE pc[o] \in Critical  BY <2>1, <2>2, <2>4, <3>1 DEF Mine
    <3>2. CASE pc[o] \notin Critical  BY <2>2, <3>2 DEF Mine, Critical
    <3>. QED  BY <3>1, <3>2
  <2>. QED  BY <2>3, <2>5
<1>. QED  BY <1>1 DEF ReadInv

LEMMA InitReads == Init => ReadInv
<1>. SUFFICES ASSUME Init PROVE ReadInv  OBVIOUS
<1>. USE ReaderAssumption, NumChunksBounds
<1>1. Shape
  <2>1. ReadTypeInv
    <3>1. 0 \in 0 .. FileSize /\ 0 \in 0 .. NumChunks  OBVIOUS
    <3>. QED  BY <3>1 DEF Init, ReadTypeInv, Buffer
  <2>2. <<>> \in Seq(Int)  OBVIOUS
  <2>. QED  BY <2>1, <2>2 DEF Init, Shape
<1>2. CacheCoherent  BY DEF Init, CacheCoherent
<1>3. Streams
  <2>1. FileBytes(0, 0) = <<>>  BY FileBytesProperties
  <2>. QED  BY <2>1 DEF Init, Streams, StreamIntact
<1>4. \A g \in Goroutines : Mine(g) /\ Place(g)
  BY DEF Init, Mine, Place, Critical, Started
<1>. QED  BY <1>1, <1>2, <1>3, <1>4 DEF ReadInv

(* A call returns n bytes of the file from its offset on, and leaves the   *)
(* handle to the others.                                                   *)
LEMMA ReturnKeeps ==
  ASSUME ReadInv, NEW g \in Goroutines, pc[g] # "idle", NEW n \in Nat, NEW err,
         Return(g, FileBytes(req[g].off, n), err),
         n > 0 => req[g].off >= 0 /\ req[g].off + n <= FileSize,
         table' \in {"none", "loading", "ok", "failed"},
         idx' \in [Handles -> Chunk \union {NoChunk}],
         data' \in [Handles -> Buffer], raw' \in [Handles -> Buffer],
         CacheCoherent',
         \A h \in Handles : mu[h] # g => data'[h] = data[h] /\ raw'[h] = raw[h]
  PROVE  ReadInv'
<1>. DEFINE h == HandleOf[g]
            b == FileBytes(req[g].off, n)
<1>. USE ReaderAssumption
<1>1. h \in Handles /\ req[g] \in Request  BY DEF ReadInv, Shape, ReadTypeInv
<1>2. b \in Seq(Int) /\ Len(b) = n  BY <1>1, FileBytesProperties DEF Request
<1>3. pc'[g] = "idle" /\ out'[g] = <<>> /\ streams'[g] = FALSE /\ req'[g] = None
  BY DEF Return, Go, ReadInv, Shape, ReadTypeInv
<1>4. Others(g)  BY DEF Return, Go, ReadInv, Shape, ReadTypeInv, Others
<1>5. mu' = Unlocked(g)  BY DEF Return
<1>6. Guarded(g)
  BY <1>5 DEF Guarded, Unlocked
<1>7. StreamIntact' /\ foff' \in [Handles -> 0 .. FileSize]
      /\ streamed' \in [Handles -> Seq(Int)]
      /\ (~streams[g] => UNCHANGED foff)
      /\ (\A i \in Handles : i # h => foff'[i] = foff[i])
  <2>1. foff \in [Handles -> 0 .. FileSize] /\ streamed \in [Handles -> Seq(Int)]
        /\ \A i \in Handles : streamed[i] = FileBytes(0, foff[i])
    BY DEF ReadInv, Shape, ReadTypeInv, Streams, StreamIntact
  <2>2. CASE ~streams[g]
    <3>1. UNCHANGED <<foff, streamed>>  BY <2>2 DEF Return, stream
    <3>. QED  BY <2>1, <3>1 DEF StreamIntact
  <2>3. CASE streams[g]
    <3>1. req[g].off = foff[h]  BY <2>3 DEF ReadInv, Streams
    <3>2. foff' = [foff EXCEPT ![h] = foff[h] + n]
          /\ streamed' = [streamed EXCEPT ![h] = streamed[h] \o b]
      BY <1>2, <2>3 DEF Return, Advance
    <3>3. foff[h] \in Nat /\ foff[h] + n \in 0 .. FileSize
      BY <1>1, <2>1, <3>1
    <3>4. streamed[h] \o b = FileBytes(0, foff[h] + n)
      <4>1. FileBytes(0, foff[h]) \o FileBytes(foff[h], n) = FileBytes(0, foff[h] + n)
        BY <3>3, FileBytesFromStart
      <4>. QED  BY <1>1, <2>1, <3>1, <4>1
    <3>5. streamed[h] \o b \in Seq(Int)
      BY <3>3, <3>4, FileBytesProperties
    <3>. HIDE DEF b
    <3>. QED  BY <1>1, <2>1, <3>2, <3>3, <3>4, <3>5, <2>3 DEF StreamIntact
  <2>. QED  BY <2>2, <2>3
<1>8. Streams'
  <2>1. ASSUME NEW o \in Goroutines, streams'[o]
        PROVE o # g /\ streams[o] /\ pc'[o] # "idle" /\ req'[o].off = foff'[HandleOf[o]]
    <3>1. o # g  BY <1>3, <2>1
    <3>2. streams[o] /\ pc'[o] = pc[o] /\ req'[o] = req[o]
      BY <1>4, <2>1, <3>1 DEF Others
    <3>3. pc[o] # "idle" /\ req[o].off = foff[HandleOf[o]]
      BY <3>2 DEF ReadInv, Streams
    <3>4. HandleOf[o] \in Handles /\ (streams[g] => HandleOf[o] # h)
      BY <3>1, <3>2 DEF ReadInv, Streams
    <3>5. foff'[HandleOf[o]] = foff[HandleOf[o]]  BY <1>7, <3>4
    <3>. QED  BY <3>1, <3>2, <3>3, <3>5
  <2>. QED  BY <1>7, <2>1 DEF ReadInv, Streams
<1>9. Shape'
  <2>1. pc' = [pc EXCEPT ![g] = "idle"] /\ req' = [req EXCEPT ![g] = None]
        /\ out' = [out EXCEPT ![g] = <<>>] /\ streams' = [streams EXCEPT ![g] = FALSE]
        /\ at' = [at EXCEPT ![g] = 0] /\ src' = [src EXCEPT ![g] = Junk]
    BY DEF Return, Go
  <2>2. <<>> \in Seq(Int) /\ 0 \in 0 .. NumChunks  BY NumChunksBounds
  <2>3. mu' \in [Handles -> Goroutines \union {None}]
    BY <1>5 DEF Unlocked, ReadInv, Shape, ReadTypeInv
  <2>. QED  BY <1>7, <2>1, <2>2, <2>3 DEF ReadInv, Shape, ReadTypeInv
<1>10. Mine(g)' /\ Place(g)'
  BY <1>3 DEF Mine, Place, Critical, Started
<1>. QED  BY <1>4, <1>6, <1>8, <1>9, <1>10, StepKeeps
(* Within a call nothing of the streams changes.                           *)
LEMMA StreamsKept ==
  ASSUME ReadInv, NEW g \in Goroutines, Others(g), pc'[g] # "idle",
         UNCHANGED <<stream, req, streams>>
  PROVE  Streams'
<1>1. UNCHANGED <<foff, streamed, req, streams>>  BY DEF stream
<1>2. StreamIntact'  BY <1>1 DEF ReadInv, Streams, StreamIntact
<1>3. ASSUME NEW o \in Goroutines, streams'[o]
      PROVE pc'[o] # "idle" /\ req'[o].off = foff'[HandleOf[o]]
  <2>1. pc[o] # "idle" /\ req[o].off = foff[HandleOf[o]]
    BY <1>1, <1>3 DEF ReadInv, Streams
  <2>2. o # g => pc'[o] = pc[o]  BY DEF Others
  <2>. QED  BY <1>1, <2>1, <2>2
<1>. QED  BY <1>1, <1>2, <1>3 DEF ReadInv, Streams

LEMMA CallKeeps ==
  ASSUME ReadInv, NEW g \in Goroutines, NEW q \in Request, NEW isRead \in BOOLEAN,
         Call(g, q, isRead)
  PROVE  ReadInv'
<1>. USE ReaderAssumption
<1>1. pc[g] = "idle" /\ pc' = [pc EXCEPT ![g] = "begin"]
      /\ req' = [req EXCEPT ![g] = q] /\ streams' = [streams EXCEPT ![g] = isRead]
      /\ UNCHANGED <<table, mu, idx, data, raw, foff, streamed, at, src, out>>
  BY DEF Call, Go, shared, stream
<1>2. Shape'
  BY <1>1 DEF ReadInv, Shape, ReadTypeInv
<1>3. pc'[g] = "begin" /\ req'[g] = q /\ streams'[g] = isRead /\ Others(g)
  BY <1>1 DEF ReadInv, Shape, ReadTypeInv, Others
<1>4. Streams'
  <2>1. isRead => /\ q.off = foff[HandleOf[g]]
                  /\ \A o \in Goroutines : HandleOf[o] = HandleOf[g] => ~streams[o]
    BY DEF Call
  <2>2. ASSUME NEW o \in Goroutines, streams'[o]
        PROVE pc'[o] # "idle" /\ req'[o].off = foff'[HandleOf[o]]
    <3>1. CASE o = g  BY <1>1, <1>3, <2>1, <2>2, <3>1
    <3>2. CASE o # g
      BY <1>1, <1>3, <2>2, <3>2 DEF Others, ReadInv, Streams
    <3>. QED  BY <3>1, <3>2
  <2>3. ASSUME NEW o \in Goroutines, NEW p \in Goroutines,
               streams'[o], streams'[p], HandleOf[o] = HandleOf[p]
        PROVE o = p
    <3>1. CASE o # g /\ p # g
      BY <1>3, <2>3, <3>1 DEF Others, ReadInv, Streams
    <3>2. CASE o = g /\ p # g
      BY <1>3, <2>1, <2>3, <3>2 DEF Others
    <3>3. CASE o # g /\ p = g
      BY <1>3, <2>1, <2>3, <3>3 DEF Others
    <3>. QED  BY <3>1, <3>2, <3>3
  <2>4. StreamIntact'  BY <1>1 DEF ReadInv, Streams, StreamIntact
  <2>. QED  BY <2>2, <2>3, <2>4 DEF Streams
<1>5. out'[g] = <<>>
  BY <1>1 DEF ReadInv, Place, Critical
<1>6. Mine(g)' /\ Place(g)'
  BY <1>3, <1>5 DEF Mine, Place, Critical, Started
<1>7. CacheCoherent' /\ Guarded(g)
  BY <1>1 DEF ReadInv, CacheCoherent, Guarded
<1>. QED  BY <1>2, <1>3, <1>4, <1>6, <1>7, StepKeeps

LEMMA CallsKeep == ASSUME ReadInv, NEW g \in Goroutines, Calls(g) PROVE ReadInv'
<1>. USE ReaderAssumption
<1>1. CASE \E q \in Requests : Call(g, q, FALSE)
  BY <1>1, CallKeeps DEF Request
<1>2. CASE \E n \in Lengths : Call(g, [off |-> foff[HandleOf[g]], len |-> n], TRUE)
  <2>1. PICK n \in Lengths : Call(g, [off |-> foff[HandleOf[g]], len |-> n], TRUE)
    BY <1>2
  <2>2. foff[HandleOf[g]] \in Int  BY DEF ReadInv, Shape, ReadTypeInv
  <2>3. [off |-> foff[HandleOf[g]], len |-> n] \in Request  BY <2>2 DEF Request
  <2>. QED  BY <2>1, <2>3, CallKeeps
<1>. QED  BY <1>1, <1>2 DEF Calls
-----------------------------------------------------------------------------
(* The steps of a call.                                                    *)

(* A call that ends without any byte.                                      *)
LEMMA ReturnNothing ==
  ASSUME ReadInv, NEW g \in Goroutines, pc[g] # "idle", NEW err,
         Return(g, <<>>, err), UNCHANGED <<idx, data, raw>>,
         table' \in {"none", "loading", "ok", "failed"}
  PROVE  ReadInv'
<1>1. req[g].off \in Int
  BY DEF ReadInv, Shape, ReadTypeInv, Request
<1>2. PICK n \in Nat : n = 0  OBVIOUS
<1>3. Return(g, FileBytes(req[g].off, n), err)
  BY <1>1, <1>2, FileBytesProperties
<1>4. idx' \in [Handles -> Chunk \union {NoChunk}] /\ data' \in [Handles -> Buffer]
      /\ raw' \in [Handles -> Buffer] /\ CacheCoherent'
  BY DEF ReadInv, Shape, ReadTypeInv, CacheCoherent
<1>. QED  BY <1>2, <1>3, <1>4, ReturnKeeps

LEMMA RefuseKeeps == ASSUME ReadInv, NEW g \in Goroutines, Refuse(g) PROVE ReadInv'
<1>1. pc[g] # "idle" /\ UNCHANGED <<idx, data, raw>>
      /\ table' \in {"none", "loading", "ok", "failed"}
  BY DEF Refuse, ReadInv, Shape, ReadTypeInv
<1>2. PICK err \in {"failed", "eof", "nil"} : Return(g, <<>>, err)  BY DEF Refuse
<1>. QED  BY <1>1, <1>2, ReturnNothing

LEMMA ReadStoredKeeps ==
  ASSUME ReadInv, NEW g \in Goroutines, ReadStored(g) PROVE ReadInv'
<1>. USE ReaderAssumption
<1>1. pc[g] = "stored" /\ UNCHANGED <<table, idx, data, raw>>  BY DEF ReadStored
<1>2. req[g] \in Request /\ req[g].off \in 0 .. FileSize - 1
  BY <1>1 DEF ReadInv, Shape, ReadTypeInv, Place, Started
<1>3. Wanted(req[g]) \in Nat /\ req[g].off + Wanted(req[g]) <= FileSize
  BY <1>2 DEF Wanted, Smaller, Request
<1>4. PICK n \in 0 .. Wanted(req[g]), err \in {"nil", "eof", "failed"} :
        Return(g, FileBytes(req[g].off, n), err)
  BY <1>3 DEF ReadStored, End
<1>5. n \in Nat /\ req[g].off >= 0 /\ req[g].off + n <= FileSize  BY <1>2, <1>3
<1>6. idx' \in [Handles -> Chunk \union {NoChunk}] /\ data' \in [Handles -> Buffer]
      /\ raw' \in [Handles -> Buffer] /\ CacheCoherent'
      /\ table' \in {"none", "loading", "ok", "failed"}
  BY <1>1 DEF ReadInv, Shape, ReadTypeInv, CacheCoherent
<1>. QED  BY <1>1, <1>4, <1>5, <1>6, ReturnKeeps

(* Steps that only lead on, up to the mutex.                               *)
LEMMA OnwardKeeps ==
  ASSUME ReadInv, NEW g \in Goroutines,
         NEW l \in {"stored", "table", "loading", "lock"}, Go(g, l),
         req[g].off \in 0 .. FileSize - 1, req[g].len > 0,
         pc[g] \in {"begin", "table", "loading"},
         table' \in {"none", "loading", "ok", "failed"},
         UNCHANGED <<mu, idx, data, raw, stream, req, streams, at, src, out>>
  PROVE  ReadInv'
<1>1. pc' = [pc EXCEPT ![g] = l]  BY DEF Go
<1>2. pc'[g] = l /\ Others(g)
  BY <1>1 DEF ReadInv, Shape, ReadTypeInv, Others
<1>3. req[g] \in Request /\ out[g] = <<>>
  BY DEF ReadInv, Shape, ReadTypeInv, Place, Critical
<1>4. Shape'
  BY <1>1, <1>3 DEF ReadInv, Shape, ReadTypeInv, stream
<1>5. Streams'  BY <1>2, StreamsKept
<1>6. Mine(g)' /\ Place(g)'
  BY <1>2, <1>3 DEF Mine, Place, Critical
<1>7. CacheCoherent' /\ Guarded(g)  BY DEF ReadInv, CacheCoherent, Guarded
<1>. QED  BY <1>2, <1>4, <1>5, <1>6, <1>7, StepKeeps

LEMMA BeginKeeps == ASSUME ReadInv, NEW g \in Goroutines, Begin(g) PROVE ReadInv'
<1>1. UNCHANGED <<mu, idx, data, raw, stream, req, streams, at, src, out>>
      /\ table' \in {"none", "loading", "ok", "failed"}
  BY DEF Begin, shared, ReadInv, Shape, ReadTypeInv
<1>2. pc[g] = "begin" /\ req[g].off \in 0 .. FileSize - 1 /\ req[g].len > 0
  BY DEF Begin
<1>3. PICK l \in {"stored", "table"} : Go(g, l)  BY DEF Begin
<1>. QED  BY <1>1, <1>2, <1>3, OnwardKeeps

LEMMA TableKeeps ==
  ASSUME ReadInv, NEW g \in Goroutines, EnterTable(g) \/ LoadTable(g) \/ TableReady(g)
  PROVE  ReadInv'
<1>1. pc[g] \in {"table", "loading"}  BY DEF EnterTable, LoadTable, TableReady
<1>2. req[g].off \in 0 .. FileSize - 1 /\ req[g].len > 0
  BY <1>1 DEF ReadInv, Place, Started
<1>3. table' \in {"none", "loading", "ok", "failed"} /\ UNCHANGED <<idx, data, raw>>
  BY DEF EnterTable, LoadTable, TableReady, ReadInv, Shape, ReadTypeInv
<1>4. CASE Return(g, <<>>, "failed")
  BY <1>1, <1>3, <1>4, ReturnNothing
<1>5. CASE /\ Go(g, "loading") \/ Go(g, "lock")
           /\ UNCHANGED <<mu, stream, req, streams, at, src, out>>
  BY <1>1, <1>2, <1>3, <1>5, OnwardKeeps
<1>. QED  BY <1>4, <1>5 DEF EnterTable, LoadTable, TableReady

LEMMA LockKeeps == ASSUME ReadInv, NEW g \in Goroutines, Lock(g) PROVE ReadInv'
<1>. USE ReaderAssumption
<1>. DEFINE h == HandleOf[g]
            k == req[g].off \div ChunkSize
<1>1. pc[g] = "lock" /\ mu[h] = None /\ mu' = [mu EXCEPT ![h] = g]
      /\ at' = [at EXCEPT ![g] = k] /\ pc' = [pc EXCEPT ![g] = "chunk"]
      /\ UNCHANGED <<table, idx, data, raw, stream, req, streams, src, out>>
  BY DEF Lock, Free, Go
<1>2. h \in Handles /\ req[g] \in Request /\ req[g].off \in 0 .. FileSize - 1
      /\ req[g].len > 0 /\ out[g] = <<>>
  BY <1>1 DEF ReadInv, Shape, ReadTypeInv, Place, Started, Critical
<1>3. k \in Nat /\ k * ChunkSize <= req[g].off
      /\ req[g].off < k * ChunkSize + ChunkSize
  <2>1. req[g].off \in Nat /\ ChunkSize \in Nat \ {0}  BY <1>2
  <2>. QED  BY <2>1, DivBounds
<1>4. k \in Chunk
  <2>1. k * ChunkSize < FileSize  BY <1>2, <1>3
  <2>. QED  BY <1>3, <2>1, ChunkInside
<1>. HIDE DEF h, k
<1>5. pc'[g] = "chunk" /\ at'[g] = k /\ mu'[h] = g /\ Others(g)
  BY <1>1, <1>2 DEF ReadInv, Shape, ReadTypeInv, Others
<1>6. Shape'
  <2>1. k \in 0 .. NumChunks  BY <1>4, NumChunksBounds DEF Chunk
  <2>. QED
    BY <1>1, <1>2, <2>1 DEF ReadInv, Shape, ReadTypeInv, stream
<1>7. Streams'  BY <1>1, <1>5, StreamsKept
<1>8. Mine(g)'  BY <1>5 DEF Mine, h
<1>9. Place(g)'
  <2>1. FileBytes(req[g].off, 0) = <<>> /\ Len(<<>>) = 0
    BY <1>2, FileBytesProperties DEF Request
  <2>2. Wanted(req[g]) \in Nat  BY <1>2 DEF Wanted, Smaller, Request
  <2>3. req'[g] = req[g] /\ out'[g] = <<>>  BY <1>1, <1>2
  <2>. QED
    BY <1>2, <1>3, <1>5, <2>1, <2>2, <2>3 DEF Place, Produced, Critical
<1>10. CacheCoherent' /\ Guarded(g)
  BY <1>1, <1>2 DEF ReadInv, Shape, ReadTypeInv, CacheCoherent, Guarded
<1>. QED  BY <1>5, <1>6, <1>7, <1>8, <1>9, <1>10, StepKeeps
-----------------------------------------------------------------------------
(* The steps of the goroutine that has the mutex.                          *)

LEMMA CriticalFacts ==
  ASSUME ReadInv, NEW g \in Goroutines, pc[g] \in Critical
  PROVE  /\ HandleOf[g] \in Handles /\ mu[HandleOf[g]] = g
         /\ req[g] \in Request /\ req[g].off \in 0 .. FileSize - 1
         /\ Len(out[g]) \in Nat /\ at[g] \in Nat
         /\ Wanted(req[g]) \in Nat /\ req[g].off + Wanted(req[g]) <= FileSize
         /\ Produced(g)
<1>. USE ReaderAssumption
<1>1. HandleOf[g] \in Handles /\ req[g] \in Request /\ req[g].off \in 0 .. FileSize - 1
  BY DEF ReadInv, Shape, ReadTypeInv, Place, Started, Critical
<1>2. mu[HandleOf[g]] = g /\ Produced(g)  BY DEF ReadInv, Mine, Place
<1>3. Wanted(req[g]) \in Nat /\ req[g].off + Wanted(req[g]) <= FileSize
  BY <1>1 DEF Wanted, Smaller, Request
<1>4. out[g] \in Seq(Int) /\ at[g] \in 0 .. NumChunks
  BY DEF ReadInv, Shape, ReadTypeInv
<1>5. Len(out[g]) \in Nat  BY <1>4
<1>. QED  BY <1>1, <1>2, <1>3, <1>4, <1>5, NumChunksBounds

(* While bytes are missing, the next of them lies in the chunk at hand.    *)
LEMMA NextInChunk ==
  ASSUME ReadInv, NEW g \in Goroutines, pc[g] \in Critical,
         Len(out[g]) < Wanted(req[g])
  PROVE  LET base == at[g] * ChunkSize
             next == req[g].off + Len(out[g]) IN
         /\ at[g] \in Chunk /\ base \in Nat /\ ChunkLen(at[g]) \in Nat \ {0}
         /\ next = base + From(g) /\ From(g) \in Nat /\ From(g) < ChunkLen(at[g])
         /\ base + ChunkLen(at[g]) <= FileSize
         /\ \/ base + ChunkLen(at[g]) = FileSize
            \/ ChunkLen(at[g]) = ChunkSize
<1>. USE ReaderAssumption, CriticalFacts
<1>. DEFINE base == at[g] * ChunkSize
            next == req[g].off + Len(out[g])
<1>1. base \in Nat /\ next \in Nat /\ base <= next /\ next < base + ChunkSize
      /\ next < FileSize
  <2>1. base \in Nat  OBVIOUS
  <2>2. CASE Len(out[g]) = 0  BY <2>1, <2>2 DEF Produced
  <2>3. CASE Len(out[g]) > 0  BY <2>1, <2>3 DEF Produced
  <2>. QED  BY <2>2, <2>3
<1>2. at[g] \in Chunk /\ ChunkLen(at[g]) \in Nat \ {0}
      /\ base + ChunkLen(at[g]) <= FileSize
      /\ (base + ChunkLen(at[g]) = FileSize \/ ChunkLen(at[g]) = ChunkSize)
  <2>1. at[g] \in Nat /\ base < FileSize  BY <1>1
  <2>. QED  BY <2>1, ChunkInside
<1>3. From(g) = next - base
  <2>1. From(g) = IF req[g].off > base THEN req[g].off - base ELSE 0  BY DEF From
  <2>2. CASE Len(out[g]) = 0  BY <1>1, <2>1, <2>2
  <2>3. CASE Len(out[g]) > 0
    <3>1. next = base  BY <2>3 DEF Produced
    <3>2. ~ (req[g].off > base)  BY <2>3, <3>1
    <3>3. From(g) = 0  BY <2>1, <3>2
    <3>. QED  BY <1>1, <3>1, <3>3
  <2>. QED  BY <2>2, <2>3
<1>. HIDE DEF base, next
<1>4. next = base + From(g) /\ From(g) \in Nat /\ From(g) < ChunkLen(at[g])
  BY <1>1, <1>2, <1>3
<1>. QED  BY <1>1, <1>2, <1>4 DEF base, next

(* A step that produces nothing and goes on with the same chunk.           *)
LEMMA WithinKeeps ==
  ASSUME ReadInv, NEW g \in Goroutines, pc[g] \in Critical,
         Len(out[g]) < Wanted(req[g]),
         NEW l \in Critical, Go(g, l),
         UNCHANGED <<table, mu, stream, req, streams, at, out>>,
         src' \in [Goroutines -> {"data", "raw", Junk}],
         \A o \in Goroutines \ {g} : src'[o] = src[o],
         idx' \in [Handles -> Chunk \union {NoChunk}],
         data' \in [Handles -> Buffer], raw' \in [Handles -> Buffer],
         CacheCoherent', Mine(g)',
         \A h \in Handles : mu[h] # g => data'[h] = data[h] /\ raw'[h] = raw[h]
  PROVE  ReadInv'
<1>1. pc' = [pc EXCEPT ![g] = l] /\ pc'[g] = l /\ Others(g)
  BY DEF Go, ReadInv, Shape, ReadTypeInv, Others
<1>2. Shape'
  <2>1. req[g] \in Request  BY CriticalFacts
  <2>. QED  BY <1>1, <2>1 DEF ReadInv, Shape, ReadTypeInv, stream, Critical
<1>3. Streams'
  <2>1. pc'[g] # "idle"  BY <1>1 DEF Critical
  <2>. QED  BY <1>1, <2>1, StreamsKept
<1>4. Guarded(g)  BY DEF Guarded
<1>5. Place(g)'
  <2>1. Produced(g) /\ Place(g)  BY CriticalFacts DEF ReadInv
  <2>2. Produced(g)'
    BY <1>1, <2>1 DEF Produced
  <2>. QED  BY <1>1, <2>1, <2>2 DEF Place, Started, Critical
<1>. QED  BY <1>1, <1>2, <1>3, <1>4, <1>5, StepKeeps

LEMMA HitKeeps == ASSUME ReadInv, NEW g \in Goroutines, Hit(g) PROVE ReadInv'
<1>. DEFINE h == HandleOf[g]
<1>1. pc[g] \in Critical /\ Len(out[g]) < Wanted(req[g]) /\ idx[h] = at[g]
      /\ src' = [src EXCEPT ![g] = "data"] /\ Go(g, "copy")
      /\ UNCHANGED <<table, mu, idx, data, raw, stream, req, streams, at, out>>
  BY DEF Hit, More, CopyFrom, Critical, shared
<1>2. h \in Handles /\ mu[h] = g /\ at[g] \in Nat  BY <1>1, CriticalFacts
<1>3. Mine(g)'
  <2>1. pc'[g] = "copy" /\ src'[g] = "data"
    BY <1>1 DEF Go, ReadInv, Shape, ReadTypeInv
  <2>2. data[h] = at[g]  BY <1>1, <1>2 DEF ReadInv, CacheCoherent, NoChunk
  <2>. QED  BY <1>1, <1>2, <2>1, <2>2 DEF Mine
<1>4. "copy" \in Critical  BY DEF Critical
<1>5. CacheCoherent' /\ idx' \in [Handles -> Chunk \union {NoChunk}]
      /\ data' \in [Handles -> Buffer] /\ raw' \in [Handles -> Buffer]
      /\ src' \in [Goroutines -> {"data", "raw", Junk}]
      /\ \A o \in Goroutines \ {g} : src'[o] = src[o]
  BY <1>1 DEF ReadInv, Shape, ReadTypeInv, CacheCoherent
<1>. QED  BY <1>1, <1>3, <1>4, <1>5, WithinKeeps

LEMMA FetchKeeps == ASSUME ReadInv, NEW g \in Goroutines, Fetch(g) PROVE ReadInv'
<1>. DEFINE h == HandleOf[g]
<1>1. pc[g] \in Critical /\ Len(out[g]) < Wanted(req[g])
      /\ raw' = [raw EXCEPT ![h] = at[g]] /\ Go(g, "fetched")
      /\ UNCHANGED <<table, mu, idx, data, stream, req, streams, at, src, out>>
  BY DEF Fetch, More, Critical
<1>2. h \in Handles /\ mu[h] = g  BY <1>1, CriticalFacts
<1>3. at[g] \in Chunk  BY <1>1, NextInChunk
<1>4. raw' \in [Handles -> Buffer] /\ raw'[h] = at[g]
      /\ \A i \in Handles : mu[i] # g => raw'[i] = raw[i]
  BY <1>1, <1>2, <1>3 DEF ReadInv, Shape, ReadTypeInv, Buffer
<1>5. Mine(g)'
  <2>1. pc'[g] = "fetched"  BY <1>1 DEF Go, ReadInv, Shape, ReadTypeInv
  <2>. QED  BY <1>1, <1>2, <1>4, <2>1 DEF Mine
<1>6. "fetched" \in Critical  BY DEF Critical
<1>7. CacheCoherent' /\ idx' \in [Handles -> Chunk \union {NoChunk}]
      /\ data' \in [Handles -> Buffer] /\ src' \in [Goroutines -> {"data", "raw", Junk}]
  BY <1>1 DEF ReadInv, Shape, ReadTypeInv, CacheCoherent
<1>. QED  BY <1>1, <1>4, <1>5, <1>6, <1>7, WithinKeeps

(* Between reading a chunk's stored bytes and copying it.                  *)
LEMMA FetchedFacts ==
  ASSUME ReadInv, NEW g \in Goroutines, pc[g] = "fetched"
  PROVE  /\ pc[g] \in Critical /\ Len(out[g]) < Wanted(req[g])
         /\ HandleOf[g] \in Handles /\ mu[HandleOf[g]] = g
         /\ raw[HandleOf[g]] = at[g] /\ at[g] \in Chunk
<1>1. pc[g] \in Critical  BY DEF Critical
<1>2. Len(out[g]) < Wanted(req[g])  BY <1>1, CriticalFacts DEF Produced
<1>3. raw[HandleOf[g]] = at[g]  BY DEF ReadInv, Mine
<1>. QED  BY <1>1, <1>2, <1>3, CriticalFacts, NextInChunk

LEMMA UseRawKeeps == ASSUME ReadInv, NEW g \in Goroutines, UseRaw(g) PROVE ReadInv'
<1>. DEFINE h == HandleOf[g]
<1>1. pc[g] = "fetched" /\ src' = [src EXCEPT ![g] = "raw"] /\ Go(g, "copy")
      /\ UNCHANGED <<table, mu, idx, data, raw, stream, req, streams, at, out>>
  BY DEF UseRaw, CopyFrom, shared
<1>2. pc[g] \in Critical /\ Len(out[g]) < Wanted(req[g]) /\ mu[h] = g /\ raw[h] = at[g]
  BY <1>1, FetchedFacts
<1>3. Mine(g)'
  <2>1. pc'[g] = "copy" /\ src'[g] = "raw"
    BY <1>1 DEF Go, ReadInv, Shape, ReadTypeInv
  <2>. QED  BY <1>1, <1>2, <2>1 DEF Mine
<1>4. "copy" \in Critical  BY DEF Critical
<1>5. CacheCoherent' /\ idx' \in [Handles -> Chunk \union {NoChunk}]
      /\ data' \in [Handles -> Buffer] /\ raw' \in [Handles -> Buffer]
      /\ src' \in [Goroutines -> {"data", "raw", Junk}]
      /\ \A o \in Goroutines \ {g} : src'[o] = src[o]
  BY <1>1 DEF ReadInv, Shape, ReadTypeInv, CacheCoherent
<1>. QED  BY <1>1, <1>2, <1>3, <1>4, <1>5, WithinKeeps

LEMMA DecodeKeeps == ASSUME ReadInv, NEW g \in Goroutines, Decode(g) PROVE ReadInv'
<1>. DEFINE h == HandleOf[g]
<1>1. pc[g] = "fetched" /\ src' = [src EXCEPT ![g] = "data"] /\ Go(g, "copy")
      /\ data' = [data EXCEPT ![h] = raw[h]] /\ idx' = [idx EXCEPT ![h] = at[g]]
      /\ UNCHANGED <<table, mu, raw, stream, req, streams, at, out>>
  BY DEF Decode, CopyFrom
<1>2. pc[g] \in Critical /\ Len(out[g]) < Wanted(req[g]) /\ mu[h] = g /\ raw[h] = at[g]
      /\ h \in Handles /\ at[g] \in Chunk
  BY <1>1, FetchedFacts
<1>3. data'[h] = at[g] /\ idx'[h] = at[g] /\ data' \in [Handles -> Buffer]
      /\ idx' \in [Handles -> Chunk \union {NoChunk}]
      /\ \A i \in Handles : i # h => data'[i] = data[i] /\ idx'[i] = idx[i]
  BY <1>1, <1>2 DEF ReadInv, Shape, ReadTypeInv, Buffer
<1>4. CacheCoherent'  BY <1>3 DEF ReadInv, CacheCoherent
<1>5. Mine(g)'
  <2>1. pc'[g] = "copy" /\ src'[g] = "data"
    BY <1>1 DEF Go, ReadInv, Shape, ReadTypeInv
  <2>. QED  BY <1>1, <1>2, <1>3, <2>1 DEF Mine
<1>6. "copy" \in Critical  BY DEF Critical
<1>7. raw' \in [Handles -> Buffer] /\ src' \in [Goroutines -> {"data", "raw", Junk}]
      /\ (\A o \in Goroutines \ {g} : src'[o] = src[o])
      /\ \A i \in Handles : mu[i] # g => data'[i] = data[i] /\ raw'[i] = raw[i]
  BY <1>1, <1>2, <1>3 DEF ReadInv, Shape, ReadTypeInv
<1>. QED  BY <1>1, <1>2, <1>3, <1>4, <1>5, <1>6, <1>7, WithinKeeps
(* A call that ends with what it has produced.                             *)
LEMMA ReturnProduced ==
  ASSUME ReadInv, NEW g \in Goroutines, pc[g] \in Critical, NEW err,
         Return(g, out[g], err), UNCHANGED table,
         idx' \in [Handles -> Chunk \union {NoChunk}],
         data' \in [Handles -> Buffer], raw' \in [Handles -> Buffer],
         CacheCoherent',
         \A h \in Handles : mu[h] # g => data'[h] = data[h] /\ raw'[h] = raw[h]
  PROVE  ReadInv'
<1>1. PICK n \in Nat : n = Len(out[g])  BY CriticalFacts
<1>2. out[g] = FileBytes(req[g].off, n) /\ n <= Wanted(req[g])
  BY <1>1, CriticalFacts DEF Produced
<1>3. req[g].off >= 0 /\ req[g].off + n <= FileSize
  BY <1>2, CriticalFacts, ReaderAssumption
<1>4. Return(g, FileBytes(req[g].off, n), err)  BY <1>2
<1>5. pc[g] # "idle" /\ table' \in {"none", "loading", "ok", "failed"}
  BY DEF Critical, ReadInv, Shape, ReadTypeInv
<1>. QED  BY <1>3, <1>4, <1>5, ReturnKeeps

LEMMA FinishKeeps == ASSUME ReadInv, NEW g \in Goroutines, Finish(g) PROVE ReadInv'
<1>1. pc[g] \in Critical /\ UNCHANGED <<table, idx, data, raw>>
      /\ Return(g, out[g], End(req[g]))
  BY DEF Finish, Critical
<1>2. CacheCoherent' /\ idx' \in [Handles -> Chunk \union {NoChunk}]
      /\ data' \in [Handles -> Buffer] /\ raw' \in [Handles -> Buffer]
  BY <1>1 DEF ReadInv, Shape, ReadTypeInv, CacheCoherent
<1>. QED  BY <1>1, <1>2, ReturnProduced

LEMMA FetchFailsKeeps ==
  ASSUME ReadInv, NEW g \in Goroutines, FetchFails(g) PROVE ReadInv'
<1>. USE NumChunksBounds
<1>. DEFINE h == HandleOf[g]
<1>1. pc[g] \in Critical /\ Return(g, out[g], "failed") /\ UNCHANGED <<table, idx, data>>
  BY DEF FetchFails, Critical
<1>2. h \in Handles /\ mu[h] = g  BY <1>1, CriticalFacts
<1>3. PICK b \in Buffer : raw' = [raw EXCEPT ![h] = b]
  <2>1. raw[h] \in Buffer /\ Junk \in Buffer
    BY <1>2 DEF ReadInv, Shape, ReadTypeInv, Buffer
  <2>2. at[g] = NumChunks - 1 => at[g] \in Buffer  BY DEF Buffer, Chunk
  <2>. QED  BY <2>1, <2>2 DEF FetchFails
<1>4. raw' \in [Handles -> Buffer]
      /\ \A i \in Handles : mu[i] # g => data'[i] = data[i] /\ raw'[i] = raw[i]
  BY <1>1, <1>2, <1>3 DEF ReadInv, Shape, ReadTypeInv
<1>5. CacheCoherent' /\ idx' \in [Handles -> Chunk \union {NoChunk}]
      /\ data' \in [Handles -> Buffer]
  BY <1>1 DEF ReadInv, Shape, ReadTypeInv, CacheCoherent
<1>. QED  BY <1>1, <1>4, <1>5, ReturnProduced

LEMMA DecodeFailsKeeps ==
  ASSUME ReadInv, NEW g \in Goroutines, DecodeFails(g) PROVE ReadInv'
<1>. DEFINE h == HandleOf[g]
<1>1. pc[g] = "fetched" /\ data' = [data EXCEPT ![h] = Junk]
      /\ idx' = [idx EXCEPT ![h] = NoChunk]
      /\ Return(g, out[g], "failed") /\ UNCHANGED <<table, raw>>
  BY DEF DecodeFails, IndexDropped
<1>2. pc[g] \in Critical /\ h \in Handles /\ mu[h] = g  BY <1>1, FetchedFacts
<1>3. data' \in [Handles -> Buffer] /\ idx' \in [Handles -> Chunk \union {NoChunk}]
      /\ raw' \in [Handles -> Buffer] /\ idx'[h] = NoChunk
      /\ \A i \in Handles : i # h => data'[i] = data[i] /\ idx'[i] = idx[i]
  BY <1>1, <1>2 DEF ReadInv, Shape, ReadTypeInv, Buffer
<1>4. CacheCoherent'  BY <1>3 DEF ReadInv, CacheCoherent
<1>5. \A i \in Handles : mu[i] # g => data'[i] = data[i] /\ raw'[i] = raw[i]
  BY <1>1, <1>2, <1>3
<1>. QED  BY <1>1, <1>2, <1>3, <1>4, <1>5, ReturnProduced

(* A copy leaves off where the next chunk begins, or at the end of what    *)
(* was wanted.                                                             *)
LEMMA CopyKeeps == ASSUME ReadInv, NEW g \in Goroutines, Copy(g) PROVE ReadInv'
<1>. DEFINE h == HandleOf[g]
            w == Wanted(req[g])
            m == Len(out[g])
            off == req[g].off
            base == at[g] * ChunkSize
            n == Smaller(w - m, ChunkLen(at[g]) - From(g))
            b == IF src[g] = "data" THEN data[h] ELSE raw[h]
<1>1. pc[g] = "copy" /\ out' = [out EXCEPT ![g] = out[g] \o BytesOf(b, From(g), n)]
      /\ at' = [at EXCEPT ![g] = at[g] + 1] /\ pc' = [pc EXCEPT ![g] = "chunk"]
      /\ UNCHANGED <<table, mu, idx, data, raw, stream, req, streams, src>>
  BY DEF Copy, Go, shared
<1>2. pc[g] \in Critical  BY <1>1 DEF Critical
<1>3. m < w  BY <1>1, <1>2, CriticalFacts DEF Produced
<1>4. at[g] \in Chunk /\ base \in Nat /\ ChunkLen(at[g]) \in Nat \ {0}
      /\ off + m = base + From(g) /\ From(g) \in Nat /\ From(g) < ChunkLen(at[g])
      /\ base + ChunkLen(at[g]) <= FileSize
      /\ (base + ChunkLen(at[g]) = FileSize \/ ChunkLen(at[g]) = ChunkSize)
  BY <1>2, <1>3, NextInChunk
<1>5. h \in Handles /\ mu[h] = g /\ req[g] \in Request /\ off \in 0 .. FileSize - 1
      /\ m \in Nat /\ at[g] \in Nat /\ w \in Nat /\ off + w <= FileSize
      /\ out[g] = FileBytes(off, m)
  BY <1>2, CriticalFacts, ReaderAssumption DEF Produced
<1>6. b = at[g]  BY <1>1 DEF ReadInv, Mine
<1>. HIDE DEF h, b
<1>7. n \in Nat \ {0} /\ m + n <= w
      /\ (m + n = w \/ off + (m + n) = base + ChunkSize)
  <2>. USE ReaderAssumption
  <2>1. CASE w - m <= ChunkLen(at[g]) - From(g)
    <3>1. n = w - m  BY <2>1 DEF Smaller
    <3>. HIDE DEF n, base, w, m, off
    <3>. QED  BY <1>3, <1>5, <3>1
  <2>2. CASE ~ (w - m <= ChunkLen(at[g]) - From(g))
    <3>1. n = ChunkLen(at[g]) - From(g)  BY <2>2 DEF Smaller
    <3>. HIDE DEF n, base, w, m, off
    <3>2. off + (m + n) = base + ChunkLen(at[g])  BY <1>4, <1>5, <3>1
    <3>3. n \in Nat \ {0} /\ m + n <= w  BY <1>3, <1>4, <1>5, <2>2, <3>1
    <3>. QED  BY <1>4, <1>5, <3>2, <3>3
  <2>. QED  BY <2>1, <2>2
<1>. HIDE DEF n, base, w, m, off
<1>8. out[g] \o BytesOf(b, From(g), n) = FileBytes(off, m + n)
  <2>1. b # Junk  BY <1>5, <1>6, ReaderAssumption
  <2>2. PICK next \in Int : next = off + m  BY <1>5, ReaderAssumption
  <2>3. BytesOf(b, From(g), n) = FileBytes(next, n)
    BY <1>4, <1>6, <2>1, <2>2 DEF BytesOf, FileBytes, base
  <2>4. FileBytes(off, m) \o FileBytes(next, n) = FileBytes(off, m + n)
    <3>1. off \in Int /\ n \in Nat /\ m \in Nat  BY <1>5, <1>7, ReaderAssumption
    <3>. QED  BY <2>2, <3>1, FileBytesConcat, Zenon
  <2>. QED  BY <1>5, <2>3, <2>4
<1>9. m + n \in Nat /\ m + n > 0 /\ off \in Int  BY <1>5, <1>7, ReaderAssumption
<1>10. FileBytes(off, m + n) \in Seq(Int) /\ Len(FileBytes(off, m + n)) = m + n
  BY <1>9, FileBytesProperties
<1>11. pc'[g] = "chunk" /\ at'[g] = at[g] + 1 /\ out'[g] = FileBytes(off, m + n)
       /\ out' = [out EXCEPT ![g] = FileBytes(off, m + n)] /\ Others(g)
  BY <1>1, <1>8 DEF ReadInv, Shape, ReadTypeInv, Others
<1>12. Shape'
  <2>1. at[g] + 1 \in 0 .. NumChunks  BY <1>4, NumChunksBounds DEF Chunk
  <2>2. at' \in [Goroutines -> 0 .. NumChunks] /\ out' \in [Goroutines -> Seq(Int)]
    BY <1>1, <1>10, <1>11, <2>1 DEF ReadInv, Shape, ReadTypeInv
  <2>3. UNCHANGED <<table, mu, idx, data, raw, foff, streamed, req, streams, src>>
    BY <1>1 DEF stream
  <2>4. pc' = [pc EXCEPT ![g] = "chunk"] /\ req[g] \in Request  BY <1>1, <1>5
  <2>. QED
    BY <2>2, <2>3, <2>4 DEF ReadInv, Shape, ReadTypeInv
<1>13. Streams'
  <2>1. pc'[g] # "idle"  BY <1>11
  <2>. QED  BY <1>1, <1>11, <2>1, StreamsKept
<1>14. Mine(g)'  BY <1>1, <1>5, <1>11 DEF Mine, h
<1>15. Place(g)'
  <2>1. req'[g] = req[g] /\ Len(out'[g]) = m + n  BY <1>1, <1>10, <1>11
  <2>2. at'[g] * ChunkSize = base + ChunkSize  BY <1>5, <1>11, ReaderAssumption DEF base
  <2>3. req[g].len > 0 /\ off \in 0 .. FileSize - 1
    BY <1>2, <1>5 DEF ReadInv, Place, Started
  <2>4. Produced(g)'
    BY <1>7, <1>9, <1>11, <2>1, <2>2 DEF Produced, w, off
  <2>. QED  BY <1>11, <2>1, <2>3, <2>4 DEF Place, Critical, off
<1>16. CacheCoherent' /\ Guarded(g)
  BY <1>1 DEF ReadInv, CacheCoherent, Guarded
<1>. QED  BY <1>11, <1>12, <1>13, <1>14, <1>15, <1>16, StepKeeps

-----------------------------------------------------------------------------
LEMMA NextKeeps == ReadInv /\ [Next]_vars => ReadInv'
<1>. SUFFICES ASSUME ReadInv, [Next]_vars PROVE ReadInv'  OBVIOUS
<1>1. CASE UNCHANGED vars
  <2>1. UNCHANGED <<table, mu, idx, data, raw, foff, streamed, pc, req, streams,
                    at, src, out>>
    BY <1>1 DEF vars, shared, stream, local
  <2>2. Shape'  BY <2>1 DEF ReadInv, Shape, ReadTypeInv
  <2>3. CacheCoherent' /\ Streams'
    BY <2>1 DEF ReadInv, CacheCoherent, Streams, StreamIntact
  <2>4. \A g \in Goroutines : Mine(g)' /\ Place(g)'
    BY <2>1 DEF ReadInv, Mine, Place, Produced
  <2>. QED  BY <2>2, <2>3, <2>4 DEF ReadInv
<1>2. ASSUME NEW g \in Goroutines, Calls(g) PROVE ReadInv'  BY <1>2, CallsKeep
<1>3. ASSUME NEW g \in Goroutines, Step(g) PROVE ReadInv'
  <2>1. CASE Refuse(g) \/ Begin(g) \/ ReadStored(g)
    BY <2>1, RefuseKeeps, BeginKeeps, ReadStoredKeeps
  <2>2. CASE EnterTable(g) \/ LoadTable(g) \/ TableReady(g)  BY <2>2, TableKeeps
  <2>3. CASE Lock(g) \/ Hit(g) \/ Fetch(g) \/ FetchFails(g)
    BY <2>3, LockKeeps, HitKeeps, FetchKeeps, FetchFailsKeeps
  <2>4. CASE UseRaw(g) \/ Decode(g) \/ DecodeFails(g)
    BY <2>4, UseRawKeeps, DecodeKeeps, DecodeFailsKeeps
  <2>5. CASE Copy(g) \/ Finish(g)  BY <2>5, CopyKeeps, FinishKeeps
  <2>. QED  BY <1>3, <2>1, <2>2, <2>3, <2>4, <2>5 DEF Step, Chunked
<1>. QED  BY <1>1, <1>2, <1>3 DEF Next

LEMMA ReadInvariance == Spec => []ReadInv
<1>1. Init => ReadInv  BY InitReads
<1>2. ReadInv /\ [Next]_vars => ReadInv'  BY NextKeeps
<1>. QED  BY <1>1, <1>2, PTL DEF Spec

(* Every variable keeps its shape: no cache names a chunk the file does    *)
(* not have and no position passes the file's end (wimFile, chunkCache).   *)
THEOREM ReadersAreTyped == Spec => []ReadTypeInv
<1>1. ReadInv => ReadTypeInv  BY DEF ReadInv, Shape
<1>. QED  BY <1>1, ReadInvariance, PTL

(* A cache that names a chunk holds that chunk (chunkCache, cache.idx).    *)
THEOREM CachesAreCoherent == Spec => []CacheCoherent
<1>1. ReadInv => CacheCoherent  BY DEF ReadInv
<1>. QED  BY <1>1, ReadInvariance, PTL

(* Nobody writes a buffer between its filling and the copy from it         *)
(* (chunkCache.mu in readChunkedAt).                                       *)
THEOREM BuffersAreExclusive == Spec => []BuffersAreMine
<1>1. ReadInv => BuffersAreMine  BY DEF ReadInv, BuffersAreMine, Mine, Critical
<1>. QED  BY <1>1, ReadInvariance, PTL

(* What a call has produced so far is the file from its offset on, across  *)
(* chunks, hits, raw chunks and failures (the loop of readChunkedAt).      *)
THEOREM ReadsAreExact == Spec => []BytesExact
<1>1. ReadInv => BytesExact
  <2>. SUFFICES ASSUME ReadInv, NEW g \in Goroutines, out[g] # <<>>
                PROVE out[g] = FileBytes(req[g].off, Len(out[g]))
    BY DEF BytesExact
  <2>. QED  BY DEF ReadInv, Place, Produced
<1>. QED  BY <1>1, ReadInvariance, PTL

(* Read, call after call, yields the file without a gap (wimFile.Read).    *)
THEOREM StreamsAreIntact == Spec => []StreamIntact
<1>1. ReadInv => StreamIntact  BY DEF ReadInv, Streams
<1>. QED  BY <1>1, ReadInvariance, PTL
-----------------------------------------------------------------------------
(* The abstract reader.  A call begins and ends where its abstract one     *)
(* does, and every other step leaves what the caller sees.                 *)

HasReturns == DOMAIN ret = Goroutines

LEMMA ReturnsKept == Spec => []HasReturns
<1>1. Init => HasReturns  BY DEF Init, HasReturns
<1>2. HasReturns /\ [Next]_vars => HasReturns'
  <2>. SUFFICES ASSUME HasReturns, [Next]_vars PROVE HasReturns'  OBVIOUS
  <2>1. CASE UNCHANGED vars  BY <2>1 DEF HasReturns, vars, local
  <2>2. ASSUME NEW g \in Goroutines, Calls(g) PROVE HasReturns'
    BY <2>2 DEF HasReturns, Calls, Call
  <2>3. ASSUME NEW g \in Goroutines, NEW bytes, NEW e, Return(g, bytes, e)
        PROVE HasReturns'
    BY <2>3 DEF HasReturns, Return
  <2>4. ASSUME NEW g \in Goroutines, Step(g) PROVE HasReturns'
    <3>1. CASE UNCHANGED ret  BY <3>1 DEF HasReturns
    <3>2. CASE Refuse(g) \/ ReadStored(g)
      BY <2>3, <3>2 DEF Refuse, ReadStored
    <3>3. CASE LoadTable(g) \/ TableReady(g)
      BY <2>3, <3>1, <3>3 DEF LoadTable, TableReady
    <3>4. CASE FetchFails(g) \/ DecodeFails(g) \/ Finish(g)
      BY <2>3, <3>4 DEF FetchFails, DecodeFails, Finish
    <3>. QED
      BY <2>4, <3>1, <3>2, <3>3, <3>4
      DEF Step, Chunked, Begin, EnterTable, Lock, Hit, Fetch, UseRaw, Decode, Copy
  <2>. QED  BY <2>1, <2>2, <2>4 DEF Next
<1>. QED  BY <1>1, <1>2, PTL DEF Spec

(* What a call may return at any time, and what it may call a success.     *)
LEMMA PartIsAllowed ==
  ASSUME NEW q \in Request, NEW n \in Nat, NEW e,
         n > 0 => n <= q.len /\ q.off >= 0 /\ q.off + n <= FileSize,
         \/ e = "failed"
         \/ e = "nil" /\ n = q.len
         \/ e = "eof" /\ (q.off + n = FileSize \/ q.off >= FileSize)
  PROVE  File!Allowed(q, [bytes |-> FileBytes(q.off, n), err |-> e])
<1>. DEFINE b == FileBytes(q.off, n)
            a == [bytes |-> b, err |-> e]
<1>1. b \in Seq(Int) /\ Len(b) = n /\ (b = <<>> => n = 0) /\ q.off \in Int /\ q.len \in Nat
  BY FileBytesProperties DEF Request
<1>2. b = File!FileBytes(q.off, n)  BY DEF FileBytes, File!FileBytes
<1>3. a.bytes = b /\ a.err = e  OBVIOUS
<1>4. b # <<>> => q.off >= 0 /\ q.off + n <= FileSize
  BY <1>1 DEF FileBytes
<1>. HIDE DEF b, a
<1>5. n <= q.len  BY <1>1
<1>. QED  BY <1>1, <1>2, <1>3, <1>4, <1>5 DEF File!Allowed, a, b
LEMMA EndSays ==
  ASSUME NEW q \in Request, q.off \in 0 .. FileSize - 1
  PROVE  /\ Wanted(q) \in Nat /\ Wanted(q) <= q.len /\ q.off + Wanted(q) <= FileSize
         /\ \/ End(q) = "nil" /\ Wanted(q) = q.len
            \/ End(q) = "eof" /\ q.off + Wanted(q) = FileSize
BY ReaderAssumption DEF Request, Wanted, Smaller, End, Short

LEMMA CallBegins ==
  ASSUME ReadInv, HasReturns, NEW g \in Goroutines, NEW q \in Request, NEW isRead,
         Call(g, q, isRead)
  PROVE  File!Call(g)
<1>1. req' = [req EXCEPT ![g] = q] /\ ret' = [ret EXCEPT ![g] = None] /\ pc[g] = "idle"
  BY DEF Call
<1>2. req'[g] = q /\ req[g] = None
  BY <1>1 DEF ReadInv, Shape, Place
<1>3. q \in File!Asked  BY DEF File!Asked, Request
<1>. QED  BY <1>1, <1>2, <1>3 DEF File!Call

LEMMA ReturnAnswers ==
  ASSUME ReadInv, HasReturns, NEW g \in Goroutines, pc[g] # "idle",
         NEW n \in Nat, NEW e, Return(g, FileBytes(req[g].off, n), e),
         n > 0 => n <= req[g].len /\ req[g].off >= 0 /\ req[g].off + n <= FileSize,
         \/ e = "failed"
         \/ e = "nil" /\ n = req[g].len
         \/ e = "eof" /\ (req[g].off + n = FileSize \/ req[g].off >= FileSize)
  PROVE  File!Answer(g)
<1>. DEFINE a == [bytes |-> FileBytes(req[g].off, n), err |-> e]
<1>1. req' = [req EXCEPT ![g] = None] /\ ret' = [ret EXCEPT ![g] = a]
  BY DEF Return
<1>2. req[g] \in Request /\ req[g] # None
  <2>1. req[g] \in Request  BY DEF ReadInv, Shape, ReadTypeInv
  <2>. QED  BY <2>1, ReaderAssumption DEF Request
<1>3. File!Allowed(req[g], a)  BY <1>2, PartIsAllowed
<1>. HIDE DEF a
<1>4. ret'[g] = a  BY <1>1 DEF HasReturns
<1>. QED  BY <1>1, <1>2, <1>3, <1>4 DEF File!Answer

LEMMA NothingAnswers ==
  ASSUME ReadInv, HasReturns, NEW g \in Goroutines, pc[g] # "idle", NEW e,
         Return(g, <<>>, e),
         \/ e = "failed"
         \/ e = "nil" /\ req[g].len = 0
         \/ e = "eof" /\ req[g].off >= FileSize
  PROVE  File!Answer(g)
<1>1. req[g].off \in Int
  BY DEF ReadInv, Shape, ReadTypeInv, Request
<1>2. PICK n \in Nat : n = 0  OBVIOUS
<1>3. Return(g, FileBytes(req[g].off, n), e)
  BY <1>1, <1>2, FileBytesProperties
<1>4. \/ e = "failed"
      \/ e = "nil" /\ n = req[g].len
      \/ e = "eof" /\ (req[g].off + n = FileSize \/ req[g].off >= FileSize)
  BY <1>2
<1>5. n > 0 => n <= req[g].len /\ req[g].off >= 0 /\ req[g].off + n <= FileSize
  BY <1>2
<1>. QED  BY <1>3, <1>4, <1>5, ReturnAnswers

(* out[g] is what the call asked for, as far as it got.                    *)
LEMMA ProducedAnswers ==
  ASSUME ReadInv, HasReturns, NEW g \in Goroutines, pc[g] \in Critical, NEW e,
         Return(g, out[g], e),
         e = "failed" \/ (e = End(req[g]) /\ Len(out[g]) = Wanted(req[g]))
  PROVE  File!Answer(g)
<1>1. PICK n \in Nat : n = Len(out[g])  BY CriticalFacts
<1>2. out[g] = FileBytes(req[g].off, n) /\ n <= Wanted(req[g])
  BY <1>1, CriticalFacts DEF Produced
<1>3. req[g] \in Request /\ req[g].off \in 0 .. FileSize - 1 /\ pc[g] # "idle"
  BY CriticalFacts DEF Critical
<1>4. n <= req[g].len /\ req[g].off >= 0 /\ req[g].off + n <= FileSize
  BY <1>2, <1>3, EndSays, ReaderAssumption DEF Request
<1>5. \/ e = "failed"
      \/ e = "nil" /\ n = req[g].len
      \/ e = "eof" /\ req[g].off + n = FileSize
  BY <1>1, <1>3, EndSays
<1>6. Return(g, FileBytes(req[g].off, n), e)  BY <1>2
<1>. QED  BY <1>3, <1>4, <1>5, <1>6, ReturnAnswers

LEMMA StepRefines ==
  ASSUME ReadInv, HasReturns, NEW g \in Goroutines, Step(g)
  PROVE  File!Answer(g) \/ UNCHANGED <<req, ret>>
<1>1. CASE Refuse(g)
  <2>1. pc[g] # "idle"  BY <1>1 DEF Refuse
  <2>2. PICK e \in {"failed", "eof", "nil"} :
          /\ Return(g, <<>>, e)
          /\ \/ e = "failed"
             \/ e = "nil" /\ req[g].len = 0
             \/ e = "eof" /\ req[g].off >= FileSize
    BY <1>1 DEF Refuse
  <2>. QED  BY <2>1, <2>2, NothingAnswers
<1>2. CASE ReadStored(g)
  <2>1. pc[g] = "stored"  BY <1>2 DEF ReadStored
  <2>2. req[g] \in Request /\ req[g].off \in 0 .. FileSize - 1
    BY <2>1 DEF ReadInv, Shape, ReadTypeInv, Place, Started
  <2>3. PICK n \in 0 .. Wanted(req[g]), e \in {"nil", "eof", "failed"} :
          /\ Return(g, FileBytes(req[g].off, n), e)
          /\ e = "failed" \/ (e = End(req[g]) /\ n = Wanted(req[g]))
    BY <1>2, <2>2, EndSays DEF ReadStored, End
  <2>4. n \in Nat /\ n <= req[g].len /\ req[g].off >= 0 /\ req[g].off + n <= FileSize
    BY <2>2, <2>3, EndSays, ReaderAssumption DEF Request
  <2>5. \/ e = "failed"
        \/ e = "nil" /\ n = req[g].len
        \/ e = "eof" /\ req[g].off + n = FileSize
    BY <2>2, <2>3, EndSays
  <2>. QED  BY <2>1, <2>3, <2>4, <2>5, ReturnAnswers
<1>3. CASE LoadTable(g) \/ TableReady(g)
  <2>1. pc[g] # "idle"  BY <1>3 DEF LoadTable, TableReady
  <2>2. Return(g, <<>>, "failed") \/ UNCHANGED <<req, ret>>
    BY <1>3 DEF LoadTable, TableReady
  <2>. QED  BY <2>1, <2>2, NothingAnswers
<1>4. CASE FetchFails(g) \/ DecodeFails(g)
  <2>1. pc[g] \in Critical /\ Return(g, out[g], "failed")
    BY <1>4 DEF FetchFails, DecodeFails, Critical
  <2>. QED  BY <2>1, ProducedAnswers
<1>5. CASE Finish(g)
  <2>1. pc[g] \in Critical /\ Return(g, out[g], End(req[g]))
        /\ ~ (Len(out[g]) < Wanted(req[g]))
    BY <1>5 DEF Finish, Critical, More
  <2>2. Len(out[g]) = Wanted(req[g])
    BY <2>1, CriticalFacts DEF Produced
  <2>. QED  BY <2>1, <2>2, ProducedAnswers
<1>6. CASE \/ Begin(g) \/ EnterTable(g) \/ Lock(g) \/ Hit(g) \/ Fetch(g)
           \/ UseRaw(g) \/ Decode(g) \/ Copy(g)
  BY <1>6 DEF Begin, EnterTable, Lock, Hit, Fetch, UseRaw, Decode, Copy
<1>. QED  BY <1>1, <1>2, <1>3, <1>4, <1>5, <1>6 DEF Step, Chunked

(* The handles of a file are an io.ReaderAt for all their callers at once, *)
(* whatever is cached, stored raw, undecodable or fails (readResourceAt).  *)
THEOREM HandlesImplementReaderAt == Spec => ImplementsReaderAt
<1>1. Init => File!Init  BY DEF Init, File!Init
<1>2. ReadInv /\ HasReturns /\ [Next]_vars => [File!Next]_<<req, ret>>
  <2>. SUFFICES ASSUME ReadInv, HasReturns, [Next]_vars
                PROVE  [File!Next]_<<req, ret>>
    OBVIOUS
  <2>1. CASE UNCHANGED vars  BY <2>1 DEF vars, local
  <2>2. ASSUME NEW g \in Goroutines, Calls(g) PROVE File!Next
    <3>1. CASE \E q \in Requests : Call(g, q, FALSE)
      BY <3>1, CallBegins, ReaderAssumption DEF Request, File!Next
    <3>2. CASE \E n \in Lengths : Call(g, [off |-> foff[HandleOf[g]], len |-> n], TRUE)
      <4>1. PICK n \in Lengths : Call(g, [off |-> foff[HandleOf[g]], len |-> n], TRUE)
        BY <3>2
      <4>2. foff[HandleOf[g]] \in Int
        BY ReaderAssumption DEF ReadInv, Shape, ReadTypeInv
      <4>3. [off |-> foff[HandleOf[g]], len |-> n] \in Request
        BY <4>2, ReaderAssumption DEF Request
      <4>. QED  BY <4>1, <4>3, CallBegins DEF File!Next
    <3>. QED  BY <2>2, <3>1, <3>2 DEF Calls
  <2>3. ASSUME NEW g \in Goroutines, Step(g) PROVE [File!Next]_<<req, ret>>
    BY <2>3, StepRefines DEF File!Next
  <2>. QED  BY <2>1, <2>2, <2>3 DEF Next
<1>. QED
  BY <1>1, <1>2, ReadInvariance, ReturnsKept, PTL
  DEF Spec, ImplementsReaderAt, File!Spec
=============================================================================
