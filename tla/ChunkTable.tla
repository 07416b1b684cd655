----------------------------- MODULE ChunkTable -----------------------------
(***************************************************************************)
(* The layout of a compressed resource, as compressResource (writer.go)    *)
(* writes it and readChunkTable (resource.go) reads it back: a table of    *)
(* chunk offsets, one for every chunk after the first, and the chunks.     *)
(* Neither side records the number of chunks, the width of an entry or how *)
(* a chunk is stored; both derive them, and have to agree.                 *)
(*                                                                         *)
(* Words wrap at WordSize and narrow entries at NarrowMax + 1, which stand *)
(* for 2^64 and 2^32.  Any other resource, damaged or written elsewhere,   *)
(* is one with an arbitrary size and arbitrary entries.                    *)
(***************************************************************************)
EXTENDS Integers, Sequences

CONSTANTS
  ChunkSize,
  NarrowBytes, WideBytes, \* the bytes of an entry: 4 and 8
  NarrowMax,              \* 0xffffffff
  WordSize,               \* the values of a uint64
  MaxResource,            \* maxResourceSize
  MaxLen,                 \* bound: the bytes of a resource
  Offsets                 \* bound: where in the file it may lie

ASSUME TableAssumption ==
  /\ ChunkSize \in Nat \ {0} /\ NarrowBytes \in Nat \ {0}
  /\ WideBytes \in Nat /\ WideBytes >= NarrowBytes
  /\ NarrowMax \in Nat /\ MaxLen \in Nat \ {0} /\ MaxResource \in Nat
  /\ MaxLen <= MaxResource
  /\ Offsets \subseteq Nat
  /\ WordSize \in Nat
  /\ \A o \in Offsets : o + MaxLen * (WideBytes + 1) < WordSize

VARIABLES
  phase,   \* "encode", "stored", "entries", "check", "accepted", "refused"
  own,     \* the resource is one that compressResource made
  offset,  \* res.offset
  usize,   \* len(data), then res.uncompressed
  size,    \* res.size
  i,       \* the variable of the loop that runs
  table,   \* the entries
  chunks,  \* the chunks appended: their stored length and their form
  filled,  \* len(chunks) in bytes
  offs     \* the reader's chunk boundaries

vars == <<phase, own, offset, usize, size, i, table, chunks, filled, offs>>

-----------------------------------------------------------------------------
(* What both sides derive from the length of the data.                     *)

NumChunks(n) == (n + ChunkSize - 1) \div ChunkSize

ChunkLen(n, k) ==
  IF k = NumChunks(n) - 1 THEN n - k * ChunkSize ELSE ChunkSize

(* Bug: the reader takes the largest narrow length for a wide one.         *)
ReaderWideEarly(n) == n >= NarrowMax

WriterWide(n) == n > NarrowMax
ReaderWide(n) == n > NarrowMax

Bytes(wide) == IF wide THEN WideBytes ELSE NarrowBytes
EntryMod(wide) == IF wide THEN WordSize ELSE NarrowMax + 1

-----------------------------------------------------------------------------
(* The writer.                                                             *)

Init ==
  /\ phase = "encode" /\ own = TRUE
  /\ offset \in Offsets /\ usize \in 1 .. MaxLen /\ size = 0
  /\ i = 0 /\ table = <<>> /\ chunks = <<>> /\ filled = 0 /\ offs = <<>>

(* Bug: Compress reports success without having saved a byte.              *)
PaysEqually(n, len) == n <= len

(* Compress writes the chunk only if it comes out smaller.                 *)
Pays(n, len) == n < len

(* Bug: an entry is measured from the start of the table.                  *)
EntryFromTable == filled + (NumChunks(usize) - 1) * Bytes(WriterWide(usize))

(* Where the chunk begins, from the end of the table.                      *)
EntryValue == filled

MoreChunks == i < NumChunks(usize)

AppendChunk(n, form) ==
  LET wide == WriterWide(usize) IN
  /\ phase = "encode" /\ MoreChunks
  /\ IF form = "lzx" THEN Pays(n, ChunkLen(usize, i)) ELSE n = ChunkLen(usize, i)
  /\ table' = IF i = 0 THEN table ELSE Append(table, EntryValue % EntryMod(wide))
  /\ chunks' = Append(chunks, [len |-> n, form |-> form])
  /\ filled' = filled + n
  /\ i' = i + 1
  /\ UNCHANGED <<phase, own, offset, usize, size, offs>>

(* The table and the chunks make the body.                                 *)
Store ==
  /\ phase = "encode" /\ i = NumChunks(usize)
  /\ size' = (NumChunks(usize) - 1) * Bytes(WriterWide(usize)) + filled
  /\ phase' = "stored"
  /\ UNCHANGED <<own, offset, usize, i, table, chunks, filled, offs>>

(* Another resource in its place, of any size and with any entries.        *)
Replace(u, s, t) ==
  /\ phase = "encode" /\ i = 0
  /\ phase' = "stored" /\ own' = FALSE
  /\ usize' = u /\ size' = s /\ table' = t
  /\ UNCHANGED <<offset, i, chunks, filled, offs>>

-----------------------------------------------------------------------------
(* The reader.                                                             *)

TableBytes == (NumChunks(usize) - 1) * Bytes(ReaderWide(usize))
Base == offset + TableBytes
EndOffset == offset + size

(* plausibleSize, for a compressed resource under a header with a codec.   *)
Plausible ==
  /\ usize <= MaxResource
  /\ usize <= (size \div NarrowBytes + 1) * ChunkSize

Fits == TableBytes <= size

Refuse ==
  /\ phase = "stored" /\ ~(Plausible /\ (usize = 0 \/ Fits))
  /\ phase' = "refused"
  /\ UNCHANGED <<own, offset, usize, size, i, table, chunks, filled, offs>>

(* An empty resource has no chunks, but still two boundaries.              *)
ReadEmpty ==
  /\ phase = "stored" /\ Plausible /\ usize = 0
  /\ offs' = <<offset, EndOffset>> /\ phase' = "accepted"
  /\ UNCHANGED <<own, offset, usize, size, i, table, chunks, filled>>

(* Chunk 0 begins where the table ends.                                    *)
ReadFirst ==
  /\ phase = "stored" /\ Plausible /\ usize > 0 /\ Fits
  /\ offs' = <<Base>> /\ i' = 1 /\ phase' = "entries"
  /\ UNCHANGED <<own, offset, usize, size, table, chunks, filled>>

ReadEntry ==
  /\ phase = "entries" /\ i < NumChunks(usize)
  /\ offs' = Append(offs, (Base + table[i]) % WordSize)
  /\ i' = i + 1
  /\ UNCHANGED <<phase, own, offset, usize, size, table, chunks, filled>>

(* The last boundary is the resource's end.                                *)
ReadLast ==
  /\ phase = "entries" /\ i = NumChunks(usize)
  /\ offs' = Append(offs, EndOffset) /\ i' = 0 /\ phase' = "check"
  /\ UNCHANGED <<own, offset, usize, size, table, chunks, filled>>

(* Bug: only the order of the boundaries is looked at.                     *)
OrderedOnly(k) == Base <= offs[k] /\ offs[k] <= offs[k + 1] /\ offs[k + 1] <= EndOffset

(* Boundaries k and k + 1, inside the resource, in order, and no further   *)
(* apart than a chunk is long; the difference is that of two words.        *)
Acceptable(k) ==
  /\ Base <= offs[k] /\ offs[k] <= offs[k + 1] /\ offs[k + 1] <= EndOffset
  /\ (offs[k + 1] - offs[k]) % WordSize <= ChunkSize

CheckChunk ==
  /\ phase = "check" /\ i < NumChunks(usize)
  /\ IF Acceptable(i + 1) THEN i' = i + 1 /\ UNCHANGED phase
                          ELSE phase' = "refused" /\ UNCHANGED i
  /\ UNCHANGED <<own, offset, usize, size, table, chunks, filled, offs>>

Accept ==
  /\ phase = "check" /\ i = NumChunks(usize)
  /\ phase' = "accepted"
  /\ UNCHANGED <<own, offset, usize, size, i, table, chunks, filled, offs>>

-----------------------------------------------------------------------------
Writing == (\E n \in 1 .. ChunkSize, form \in {"lzx", "raw"} : AppendChunk(n, form)) \/ Store
Other == /\ phase = "encode"
         /\ \E u, s \in 0 .. MaxLen :
           \E t \in [1 .. NumChunks(u) - 1 -> 0 .. EntryMod(ReaderWide(u)) - 1] : Replace(u, s, t)
Reading == Refuse \/ ReadEmpty \/ ReadFirst \/ ReadEntry \/ ReadLast \/ CheckChunk \/ Accept
Next == Writing \/ Other \/ Reading

Spec == Init /\ [][Next]_vars

-----------------------------------------------------------------------------
(* Properties.                                                             *)

(* What the writer wrote is not refused, and what the reader takes for a   *)
(* chunk of it is what was appended as that chunk, no byte more or less,   *)
(* at the last narrow and the first wide length as well; readChunkedAt     *)
(* tells a raw chunk by its length alone, and is right.                    *)
OwnTableReads ==
  own =>
    /\ phase # "refused"
    /\ phase = "accepted" =>
         /\ Len(offs) = Len(chunks) + 1 /\ offs[1] = Base
         /\ \A k \in DOMAIN chunks :
              LET stored == offs[k + 1] - offs[k] IN
              /\ stored = chunks[k].len
              /\ chunks[k].form = "raw" <=> stored = ChunkLen(usize, k - 1)

(* Whatever was accepted can be read through buffers of one chunk without  *)
(* leaving them or the resource, and its chunks add up to its length.      *)
AcceptedIsReadable ==
  phase = "accepted" /\ usize > 0 =>
    /\ Len(offs) = NumChunks(usize) + 1
    /\ \A k \in 1 .. NumChunks(usize) :
         /\ offset <= offs[k] /\ offs[k + 1] <= EndOffset
         /\ offs[k + 1] - offs[k] \in 0 .. ChunkSize
         /\ ChunkLen(usize, k - 1) \in 1 .. ChunkSize
    /\ ChunkLen(usize, NumChunks(usize) - 1) + (NumChunks(usize) - 1) * ChunkSize = usize
=============================================================================
