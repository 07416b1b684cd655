-------------------------- MODULE ChunkTableProofs --------------------------
(***************************************************************************)
(* The chunk table, for every chunk size, every width of an entry, every   *)
(* length of data and every way its chunks may compress: the reader does   *)
(* not refuse what the writer laid out and cuts it where the writer did,   *)
(* and what anybody else wrote it refuses or can read.                     *)
(*                                                                         *)
(* The writer's side is inductive with the place where each chunk begins:  *)
(* an entry of the table, or what is filled so far for the one to come.    *)
(***************************************************************************)
EXTENDS ChunkTable, TLAPS

-----------------------------------------------------------------------------
(* Arithmetic.                                                             *)

LEMMA DivBounds ==
  ASSUME NEW a \in Nat, NEW c \in Nat \ {0}
  PROVE  a \div c \in Nat /\ (a \div c) * c <= a /\ a < (a \div c) * c + c
OBVIOUS

LEMMA MulLess ==
  ASSUME NEW k \in Int, NEW m \in Int, NEW c \in Nat \ {0}, k * c < m * c
  PROVE  k < m
OBVIOUS

LEMMA MulGrows ==
  ASSUME NEW a \in Nat, NEW b \in Nat, NEW c \in Nat, NEW d \in Nat, a <= b, c <= d
  PROVE  a * c <= b * d
<1>1. a * c <= b * c
  <2>. DEFINE e == b - a
  <2>1. e \in Nat /\ b * c = a * c + e * c  OBVIOUS
  <2>2. e * c \in Nat /\ a * c \in Nat  BY <2>1
  <2>. QED  BY <2>1, <2>2
<1>2. b * c <= b * d
  <2>. DEFINE e == d - c
  <2>1. e \in Nat /\ b * d = b * c + b * e  OBVIOUS
  <2>2. b * e \in Nat /\ b * c \in Nat  BY <2>1
  <2>. QED  BY <2>1, <2>2
<1>3. a * c \in Nat /\ b * c \in Nat /\ b * d \in Nat  OBVIOUS
<1>. QED  BY <1>1, <1>2, <1>3

LEMMA DivAtLeast ==
  ASSUME NEW a \in Nat, NEW c \in Nat \ {0}, NEW x \in Nat, x * c <= a
  PROVE  x <= a \div c
<1>1. a \div c \in Nat /\ a < (a \div c) * c + c  BY DivBounds
<1>. DEFINE q == a \div c
<1>2. q \in Nat /\ a < q * c + c  BY <1>1
<1>. HIDE DEF q
<1>3. q * c + c = (q + 1) * c /\ q * c \in Nat /\ x * c \in Nat  BY <1>2
<1>4. x * c < (q + 1) * c  BY <1>2, <1>3
<1>5. x < q + 1  BY <1>2, <1>4, MulLess
<1>6. x <= q  BY <1>2, <1>5
<1>. QED  BY <1>6 DEF q

LEMMA ModSmall ==
  ASSUME NEW a \in Nat, NEW m \in Nat \ {0}, a < m
  PROVE  a % m = a
OBVIOUS

LEMMA ModNat == ASSUME NEW a \in Nat, NEW m \in Nat \ {0} PROVE a % m \in Nat
OBVIOUS

(* The last chunk is the one that ends the data.                           *)
LEMMA NumChunksBounds ==
  ASSUME NEW n \in Nat \ {0}
  PROVE  /\ NumChunks(n) \in Nat \ {0} /\ NumChunks(n) <= n
         /\ (NumChunks(n) - 1) * ChunkSize < n /\ n <= NumChunks(n) * ChunkSize
<1>. DEFINE a == n + ChunkSize - 1
            m == NumChunks(n)
<1>0. ChunkSize \in Nat \ {0}  BY TableAssumption
<1>1. a \in Nat /\ m = a \div ChunkSize  BY <1>0 DEF NumChunks
<1>2. m \in Nat /\ m * ChunkSize <= a /\ a < m * ChunkSize + ChunkSize
  BY <1>0, <1>1, DivBounds
<1>. HIDE DEF m
<1>3. n <= m * ChunkSize  BY <1>0, <1>2
<1>4. m # 0  BY <1>0, <1>3
<1>5. (m - 1) * ChunkSize = m * ChunkSize - ChunkSize /\ m * ChunkSize \in Nat
  BY <1>0, <1>2
<1>6. (m - 1) * ChunkSize < n  BY <1>0, <1>2, <1>5
<1>7. m - 1 <= (m - 1) * ChunkSize
  <2>1. (m - 1) * 1 <= (m - 1) * ChunkSize  BY <1>0, <1>2, <1>4, MulGrows
  <2>. QED  BY <1>2, <2>1
<1>8. (m - 1) * ChunkSize \in Nat  BY <1>0, <1>2, <1>4
<1>9. m <= n  BY <1>2, <1>6, <1>7, <1>8
<1>. QED  BY <1>2, <1>3, <1>4, <1>6, <1>9 DEF m

(* Every chunk has a byte at least and a chunk's bytes at most, and all    *)
(* but the last are whole.                                                 *)
LEMMA ChunkLenBounds ==
  ASSUME NEW n \in Nat \ {0}, NEW k \in 0 .. NumChunks(n) - 1
  PROVE  /\ ChunkLen(n, k) \in 1 .. ChunkSize
         /\ k * ChunkSize \in Nat /\ k * ChunkSize + ChunkLen(n, k) <= n
         /\ k < NumChunks(n) - 1 => ChunkLen(n, k) = ChunkSize
         /\ k = NumChunks(n) - 1 => k * ChunkSize + ChunkLen(n, k) = n
<1>0. ChunkSize \in Nat \ {0}  BY TableAssumption
<1>. DEFINE m == NumChunks(n)
            b == k * ChunkSize
<1>1. /\ m \in Nat \ {0} /\ (m - 1) * ChunkSize < n /\ n <= m * ChunkSize
  BY NumChunksBounds
<1>2. k \in Nat /\ k <= m - 1 /\ b \in Nat  BY <1>0, <1>1
<1>3. CASE k = m - 1
  <2>1. ChunkLen(n, k) = n - b  BY <1>3 DEF ChunkLen
  <2>2. b < n  BY <1>1, <1>3
  <2>3. b + ChunkSize = m * ChunkSize  BY <1>0, <1>1, <1>3
  <2>4. n <= b + ChunkSize  BY <1>1, <2>3
  <2>. HIDE DEF b, m
  <2>. QED  BY <1>0, <1>2, <1>3, <2>1, <2>2, <2>4 DEF b, m
<1>4. CASE k # m - 1
  <2>1. ChunkLen(n, k) = ChunkSize  BY <1>4 DEF ChunkLen
  <2>2. (k + 1) * ChunkSize <= (m - 1) * ChunkSize  BY <1>0, <1>1, <1>2, <1>4, MulGrows
  <2>3. (k + 1) * ChunkSize = b + ChunkSize  BY <1>0, <1>2
  <2>4. (m - 1) * ChunkSize \in Nat  BY <1>0, <1>1
  <2>5. b + ChunkSize <= n  BY <1>0, <1>1, <1>2, <2>2, <2>3, <2>4
  <2>. QED  BY <1>0, <1>2, <1>4, <2>1, <2>5
<1>. QED  BY <1>3, <1>4

-----------------------------------------------------------------------------
(* What every resource keeps.                                              *)

M == NumChunks(usize)
Phases == {"encode", "stored", "entries", "check", "accepted", "refused"}
Parsing == {"entries", "check", "accepted"}

Shape ==
  /\ phase \in Phases /\ own \in BOOLEAN
  /\ offset \in Offsets /\ usize \in 0 .. MaxLen /\ size \in Nat
  /\ offset + size < WordSize
  /\ i \in Nat /\ filled \in Nat
  /\ offs \in Seq(Nat)
  /\ phase = "encode" => own
  /\ phase \in {"entries", "check"} => usize > 0
  /\ phase \in {"stored", "entries"} => \A k \in 1 .. M - 1 : table[k] \in Nat

(* How far the reader has come.                                            *)
Boundaries ==
  phase \in Parsing /\ usize > 0 =>
    /\ Fits
    /\ Len(offs) = (IF phase = "entries" THEN i ELSE M + 1)
    /\ phase = "entries" => i \in 1 .. M
    /\ phase = "check" => i \in 0 .. M
    /\ offs[1] = Base
    /\ phase = "check" => \A k \in 1 .. i : Acceptable(k)
    /\ phase = "accepted" => \A k \in 1 .. M : Acceptable(k)

(* Where chunk k + 1 begins, from the end of the table.                    *)
BeginOf(k) == IF k = 1 THEN 0 ELSE IF k <= Len(chunks) THEN table[k - 1] ELSE filled

StoredChunk == [len: 1 .. ChunkSize, form: {"lzx", "raw"}]

(* What the writer has laid out, and that the reader finds it.             *)
Laid ==
  own =>
    /\ usize > 0 /\ phase # "refused"
    /\ chunks \in Seq(StoredChunk)
    /\ table \in Seq(Nat)
    /\ Len(chunks) <= M /\ filled <= usize
    /\ phase = "encode" => i = Len(chunks) /\ size = 0 /\ offs = <<>>
    /\ phase # "encode" => Len(chunks) = M /\ size = TableBytes + filled
    /\ Len(table) = (IF chunks = <<>> THEN 0 ELSE Len(chunks) - 1)
    /\ chunks = <<>> => filled = 0
    /\ Len(chunks) < M => filled <= Len(chunks) * ChunkSize
    /\ \A k \in 1 .. Len(chunks) :
         /\ BeginOf(k) \in 0 .. filled /\ BeginOf(k + 1) = BeginOf(k) + chunks[k].len
         /\ chunks[k].form = "raw" <=> chunks[k].len = ChunkLen(usize, k - 1)
    /\ \A k \in 1 .. Len(offs) : offs[k] = Base + BeginOf(k)

TableInv == Shape /\ Boundaries /\ Laid

LEMMA InitTable == Init => TableInv
<1>. SUFFICES ASSUME Init PROVE TableInv  OBVIOUS
<1>. USE TableAssumption DEF Init
<1>1. offset \in Nat /\ MaxLen * (WideBytes + 1) \in Nat  OBVIOUS
<1>2. offset + size < WordSize  BY <1>1
<1>3. Shape  BY <1>2 DEF Shape, Phases
<1>4. Boundaries  BY DEF Boundaries, Parsing
<1>5. Laid
  <2>1. M \in Nat  BY NumChunksBounds DEF M
  <2>. QED  BY <2>1 DEF Laid
<1>. QED  BY <1>3, <1>4, <1>5 DEF TableInv

(* What follows of the assumptions in every state.                         *)
LEMMA Facts ==
  ASSUME Shape
  PROVE  /\ ChunkSize \in Nat \ {0} /\ NarrowBytes \in Nat \ {0} /\ WideBytes \in Nat
         /\ WordSize \in Nat \ {0} /\ offset \in Nat /\ usize \in Nat /\ MaxLen \in Nat
         /\ Bytes(TRUE) \in Nat /\ Bytes(FALSE) \in Nat
         /\ Bytes(ReaderWide(usize)) \in NarrowBytes .. WideBytes
         /\ WriterWide(usize) = ReaderWide(usize)
         /\ usize > 0 => M \in Nat \ {0} /\ TableBytes \in Nat /\ Base \in Nat
         /\ EndOffset \in Nat
<1>. USE TableAssumption DEF Shape
<1>1. offset \in Nat /\ WordSize \in Nat \ {0} /\ usize \in Nat  OBVIOUS
<1>2. Bytes(ReaderWide(usize)) \in NarrowBytes .. WideBytes  BY DEF Bytes
<1>3. WriterWide(usize) = ReaderWide(usize)  BY DEF WriterWide, ReaderWide
<1>4. usize > 0 => M \in Nat \ {0}  BY <1>1, NumChunksBounds DEF M
<1>5. usize > 0 => TableBytes \in Nat /\ Base \in Nat
  <2>1. TableBytes = (M - 1) * Bytes(ReaderWide(usize))  BY DEF TableBytes, M
  <2>2. Bytes(ReaderWide(usize)) \in Nat  BY <1>2
  <2>3. usize > 0 => TableBytes \in Nat  BY <1>4, <2>1, <2>2
  <2>. QED  BY <1>1, <2>3 DEF Base
<1>6. EndOffset \in Nat  BY <1>1 DEF EndOffset
<1>. QED  BY <1>1, <1>2, <1>3, <1>4, <1>5, <1>6 DEF Bytes

-----------------------------------------------------------------------------
(* The writer's steps.                                                     *)

(* An entry holds what it is given: what is filled is less than the data,  *)
(* which is no longer than a narrow entry's range, or than a word.         *)
LEMMA EntryHolds ==
  ASSUME Shape, filled < usize
  PROVE  filled % EntryMod(WriterWide(usize)) = filled
<1>. USE TableAssumption DEF Shape
<1>1. filled \in Nat /\ usize \in Nat /\ NarrowMax + 1 \in Nat \ {0}
      /\ WordSize \in Nat \ {0}
  BY Facts
<1>2. CASE WriterWide(usize)
  <2>1. usize < WordSize
    <3>1. MaxLen * 1 <= MaxLen * (WideBytes + 1)  BY MulGrows
    <3>2. MaxLen * (WideBytes + 1) \in Nat  OBVIOUS
    <3>. QED  BY <3>1, <3>2
  <2>2. filled < WordSize  BY <1>1, <2>1
  <2>. QED  BY <1>1, <1>2, <2>2, ModSmall DEF EntryMod
<1>3. CASE ~WriterWide(usize)
  <2>1. filled < NarrowMax + 1  BY <1>1, <1>3 DEF WriterWide
  <2>. QED  BY <1>1, <1>3, <2>1, ModSmall DEF EntryMod
<1>. QED  BY <1>2, <1>3

LEMMA Appended ==
  ASSUME NEW S, NEW q \in Seq(S), NEW e \in S
  PROVE  /\ Append(q, e) \in Seq(S) /\ Append(q, e) # <<>>
         /\ Len(q) \in Nat /\ Len(Append(q, e)) = Len(q) + 1
         /\ Append(q, e)[Len(q) + 1] = e
         /\ \A k \in 1 .. Len(q) : Append(q, e)[k] = q[k]
OBVIOUS

LEMMA AppendTable ==
  ASSUME TableInv, NEW n \in 1 .. ChunkSize, NEW form \in {"lzx", "raw"}, AppendChunk(n, form)
  PROVE  TableInv'
<1>0. PICK l, c : l = Len(chunks) /\ c = [len |-> n, form |-> form]  OBVIOUS
<1>1. /\ phase = "encode" /\ own /\ usize > 0 /\ i = l /\ l < M /\ size = 0 /\ offs = <<>>
      /\ UNCHANGED <<phase, own, offset, usize, size, offs>>
      /\ i' = i + 1 /\ filled' = filled + n /\ chunks' = Append(chunks, c)
      /\ Shape /\ Laid
  BY <1>0 DEF TableInv, Shape, Laid, AppendChunk, MoreChunks, M
<1>2. /\ chunks \in Seq(StoredChunk) /\ table \in Seq(Nat)
      /\ l \in Nat /\ M \in Nat \ {0} /\ filled \in Nat /\ n \in Nat /\ usize \in Nat \ {0}
      /\ c \in StoredChunk /\ ChunkSize \in Nat \ {0}
      /\ c.len = n /\ c.form = form
  BY <1>0, <1>1, Facts DEF Laid, Shape, StoredChunk
<1>3. /\ n <= ChunkLen(usize, l) /\ (form = "raw" <=> n = ChunkLen(usize, l))
      /\ ChunkLen(usize, l) \in 1 .. ChunkSize
  <2>1. ChunkLen(usize, l) \in 1 .. ChunkSize  BY <1>1, <1>2, ChunkLenBounds DEF M
  <2>. QED  BY <1>1, <1>2, <2>1 DEF AppendChunk, Pays
<1>4. filled <= l * ChunkSize /\ l * ChunkSize \in Nat
      /\ l * ChunkSize + ChunkLen(usize, l) <= usize
      /\ (l + 1) * ChunkSize = l * ChunkSize + ChunkSize
  <2>1. filled <= l * ChunkSize  BY <1>0, <1>1 DEF Laid
  <2>2. l \in 0 .. NumChunks(usize) - 1  BY <1>1, <1>2 DEF M
  <2>3. l * ChunkSize \in Nat /\ l * ChunkSize + ChunkLen(usize, l) <= usize
    BY <1>2, <2>2, ChunkLenBounds
  <2>4. (l + 1) * ChunkSize = l * ChunkSize + ChunkSize  BY <1>2
  <2>. QED  BY <2>1, <2>3, <2>4
<1>5. filled + n <= usize /\ filled + n <= (l + 1) * ChunkSize /\ filled < usize
  BY <1>2, <1>3, <1>4
<1>6. table' = IF l = 0 THEN table ELSE Append(table, filled)
  BY <1>1, <1>5, EntryHolds DEF AppendChunk, EntryValue
<1>7. /\ Len(table) = (IF l = 0 THEN 0 ELSE l - 1) /\ Len(chunks') = l + 1
      /\ chunks' \in Seq(StoredChunk) /\ table' \in Seq(Nat)
      /\ Len(table') = l /\ chunks' # <<>>
      /\ \A k \in 1 .. l : chunks'[k] = chunks[k]
      /\ chunks'[l + 1] = c
      /\ \A k \in 1 .. Len(table) : table'[k] = table[k]
      /\ l > 0 => table'[l] = filled
  <2>1. Len(table) = (IF l = 0 THEN 0 ELSE l - 1)  BY <1>0, <1>1, <1>2 DEF Laid
  <2>2. /\ Len(chunks') = l + 1
        /\ chunks' \in Seq(StoredChunk)
        /\ chunks' # <<>> /\ chunks'[l + 1] = c
        /\ \A k \in 1 .. l : chunks'[k] = chunks[k]
    <3>1. chunks' = Append(chunks, c) /\ l = Len(chunks)  BY <1>0, <1>1
    <3>. QED  BY <1>2, <3>1, Appended
  <2>3. /\ Len(table') = l /\ table' \in Seq(Nat) /\ (l > 0 => table'[l] = filled)
        /\ \A k \in 1 .. Len(table) : table'[k] = table[k]
    <3>1. CASE l = 0  BY <1>2, <1>6, <2>1, <3>1
    <3>2. CASE l # 0
      <4>1. table' = Append(table, filled) /\ Len(table) + 1 = l
        BY <1>2, <1>6, <2>1, <3>2
      <4>. QED  BY <1>2, <4>1, Appended
    <3>. QED  BY <3>1, <3>2
  <2>. QED  BY <2>1, <2>2, <2>3
<1>8. \A k \in 1 .. l : BeginOf(k) \in 0 .. filled
                        /\ BeginOf(k + 1) = BeginOf(k) + chunks[k].len
                        /\ (chunks[k].form = "raw" <=> chunks[k].len = ChunkLen(usize, k - 1))
  BY <1>0, <1>1 DEF Laid
<1>9. BeginOf(l + 1) = filled
  BY <1>0, <1>1, <1>2 DEF BeginOf, Laid
<1>10. \A k \in 1 .. l + 1 : BeginOf(k)' = BeginOf(k)
  <2>. SUFFICES ASSUME NEW k \in 1 .. l + 1 PROVE BeginOf(k)' = BeginOf(k)  OBVIOUS
  <2>1. CASE k = 1  BY <2>1 DEF BeginOf
  <2>2. CASE k # 1 /\ k <= l  BY <1>0, <1>2, <1>7, <2>2 DEF BeginOf
  <2>3. CASE k # 1 /\ k = l + 1  BY <1>0, <1>2, <1>7, <1>9, <2>3 DEF BeginOf
  <2>. QED  BY <1>2, <2>1, <2>2, <2>3
<1>11. BeginOf(l + 2)' = filled + n  BY <1>1, <1>2, <1>7 DEF BeginOf
<1>12. \A k \in 1 .. Len(chunks') :
         /\ BeginOf(k)' \in 0 .. filled' /\ BeginOf(k + 1)' = BeginOf(k)' + chunks'[k].len
         /\ chunks'[k].form = "raw" <=> chunks'[k].len = ChunkLen(usize', k - 1)
  <2>. SUFFICES ASSUME NEW k \in 1 .. l + 1
                PROVE  /\ BeginOf(k)' \in 0 .. filled'
                       /\ BeginOf(k + 1)' = BeginOf(k)' + chunks'[k].len
                       /\ chunks'[k].form = "raw" <=> chunks'[k].len = ChunkLen(usize, k - 1)
    BY <1>1, <1>7
  <2>1. CASE k = l + 1
    <3>1. BeginOf(k)' = filled /\ BeginOf(k + 1)' = filled + n
      <4>1. k \in 1 .. l + 1 /\ k + 1 = l + 2  BY <1>2, <2>1
      <4>. QED  BY <1>9, <1>10, <1>11, <2>1, <4>1
    <3>2. chunks'[k].len = n /\ chunks'[k].form = form /\ k - 1 = l  BY <1>2, <1>7, <2>1
    <3>. QED  BY <1>1, <1>2, <1>3, <3>1, <3>2
  <2>2. CASE k \in 1 .. l
    <3>1. k + 1 \in 1 .. l + 1 /\ k \in 1 .. l + 1  BY <1>2, <2>2
    <3>2. BeginOf(k)' = BeginOf(k) /\ BeginOf(k + 1)' = BeginOf(k + 1)
      BY <1>10, <3>1
    <3>3. chunks'[k] = chunks[k] /\ BeginOf(k) \in 0 .. filled'
      <4>1. chunks'[k] = chunks[k] /\ BeginOf(k) \in 0 .. filled  BY <1>7, <1>8, <2>2
      <4>. QED  BY <1>1, <1>2, <4>1
    <3>. QED  BY <1>8, <2>2, <3>2, <3>3
  <2>. QED  BY <1>2, <2>1, <2>2
<1>13. Shape'
  BY <1>1, <1>2 DEF Shape
<1>14. Boundaries'  BY <1>1 DEF Boundaries, Parsing
<1>15. Laid'
  <2>1. M' = M  BY <1>1 DEF M
  <2>2. filled' <= usize' /\ (Len(chunks') < M' => filled' <= Len(chunks') * ChunkSize)
    BY <1>1, <1>5, <1>7
  <2>3. Len(offs') = 0 /\ offs' = <<>> /\ i' = Len(chunks') /\ Len(chunks') <= M
        /\ Len(table') = Len(chunks') - 1 /\ size' = 0
    BY <1>1, <1>2, <1>7
  <2>4. usize' > 0 /\ phase' = "encode" /\ chunks' # <<>>  BY <1>1, <1>7
  <2>5. \A k \in 1 .. Len(offs') : offs'[k] = Base' + BeginOf(k)'  BY <2>3
  <2>. QED  BY <1>7, <1>12, <2>1, <2>2, <2>3, <2>4, <2>5 DEF Laid
<1>. QED  BY <1>13, <1>14, <1>15 DEF TableInv

LEMMA StoreTable == ASSUME TableInv, Store PROVE TableInv'
<1>1. /\ phase = "encode" /\ phase' = "stored" /\ own /\ usize > 0 /\ i = M /\ Len(chunks) = M
      /\ UNCHANGED <<own, offset, usize, i, table, chunks, filled, offs>>
      /\ size' = TableBytes + filled /\ Shape /\ Laid /\ offs = <<>>
  <2>1. Shape /\ Laid /\ WriterWide(usize) = ReaderWide(usize)  BY Facts DEF TableInv
  <2>. QED  BY <2>1 DEF Shape, Laid, Store, M, TableBytes
<1>2. M \in Nat \ {0} /\ TableBytes \in Nat /\ filled \in Nat /\ offset \in Nat
  BY <1>1, Facts DEF Shape
<1>3. offset + (TableBytes + filled) < WordSize
  <2>1. M - 1 \in Nat /\ M - 1 <= MaxLen /\ filled <= MaxLen /\ MaxLen \in Nat
    <3>1. usize \in Nat \ {0} /\ usize <= MaxLen /\ MaxLen \in Nat  BY <1>1, Facts DEF Shape
    <3>2. M <= usize  BY <3>1, NumChunksBounds DEF M
    <3>. QED  BY <1>1, <1>2, <3>1, <3>2 DEF Laid
  <2>2. Bytes(ReaderWide(usize)) \in Nat /\ Bytes(ReaderWide(usize)) <= WideBytes
        /\ WideBytes \in Nat
    BY <1>1, Facts, TableAssumption
  <2>3. TableBytes <= MaxLen * WideBytes
    <3>1. TableBytes = (M - 1) * Bytes(ReaderWide(usize))  BY DEF TableBytes, M
    <3>. QED  BY <2>1, <2>2, <3>1, MulGrows
  <2>4. MaxLen * (WideBytes + 1) = MaxLen * WideBytes + MaxLen
        /\ MaxLen * WideBytes \in Nat
    BY <2>1, <2>2
  <2>5. offset + MaxLen * (WideBytes + 1) < WordSize  BY <1>1, TableAssumption DEF Shape
  <2>6. WordSize \in Nat  BY TableAssumption
  <2>. QED  BY <1>2, <2>1, <2>3, <2>4, <2>5, <2>6
<1>4. \A k \in 1 .. M - 1 : table[k] \in Nat
  <2>1. table \in Seq(Nat) /\ Len(table) = M - 1
    <3>1. chunks # <<>>  BY <1>1, <1>2
    <3>. QED  BY <1>1, <3>1 DEF Laid
  <2>. QED  BY <2>1
<1>5. M' = M /\ TableBytes' = TableBytes /\ Base' = Base
  BY <1>1 DEF M, TableBytes, Base
<1>6. Shape'  BY <1>1, <1>2, <1>3, <1>4, <1>5 DEF Shape, Phases
<1>7. Boundaries'  BY <1>1 DEF Boundaries, Parsing
<1>8. \A k : BeginOf(k)' = BeginOf(k)  BY <1>1 DEF BeginOf
<1>9. Laid'  BY <1>1, <1>5, <1>8 DEF Laid
<1>. QED  BY <1>6, <1>7, <1>9 DEF TableInv

LEMMA ReplaceTable == ASSUME TableInv, Other PROVE TableInv'
<1>0. PICK u \in 0 .. MaxLen, s \in 0 .. MaxLen :
        \E t \in [1 .. NumChunks(u) - 1 -> 0 .. EntryMod(ReaderWide(u)) - 1] : Replace(u, s, t)
  BY DEF Other
<1>1. PICK t \in [1 .. NumChunks(u) - 1 -> 0 .. EntryMod(ReaderWide(u)) - 1] : Replace(u, s, t)
  BY <1>0
<1>2. /\ phase' = "stored" /\ own' = FALSE /\ usize' = u /\ size' = s /\ table' = t
      /\ UNCHANGED <<offset, i, chunks, filled, offs>> /\ Shape
  BY <1>1 DEF Replace, TableInv
<1>3. offset' + size' < WordSize
  <2>1. s \in Nat /\ s <= MaxLen /\ offset \in Nat /\ WordSize \in Nat
    BY <1>2, Facts
  <2>2. MaxLen * 1 <= MaxLen * (WideBytes + 1) /\ MaxLen * (WideBytes + 1) \in Nat
    BY MulGrows, TableAssumption
  <2>3. offset + MaxLen * (WideBytes + 1) < WordSize
    BY <1>2, TableAssumption DEF Shape
  <2>4. MaxLen \in Nat  BY TableAssumption
  <2>. QED  BY <1>2, <2>1, <2>2, <2>3, <2>4
<1>4. \A k \in 1 .. NumChunks(u) - 1 : t[k] \in Nat  OBVIOUS
<1>5. M' = NumChunks(u)  BY <1>2 DEF M
<1>6. \A k \in 1 .. M' - 1 : table'[k] \in Nat  BY <1>2, <1>4, <1>5
<1>7. Shape'
  <2>1. u \in 0 .. MaxLen /\ s \in Nat  BY TableAssumption
  <2>. QED  BY <1>2, <1>3, <1>6, <2>1 DEF Shape, Phases
<1>. QED  BY <1>2, <1>7 DEF TableInv, Boundaries, Parsing, Laid

-----------------------------------------------------------------------------
(* The reader's steps.                                                     *)

LEMMA OwnIsTaken ==
  ASSUME TableInv, own, phase = "stored"
  PROVE  Plausible /\ Fits
<1>1. /\ M \in Nat \ {0} /\ TableBytes \in Nat /\ size = TableBytes + filled /\ filled \in Nat
      /\ usize \in Nat \ {0} /\ usize <= MaxLen /\ size \in Nat
      /\ NarrowBytes \in Nat \ {0} /\ ChunkSize \in Nat \ {0}
  <2>1. Shape /\ usize > 0 /\ size = TableBytes + filled  BY DEF TableInv, Laid
  <2>2. filled \in Nat /\ size \in Nat /\ usize \in 0 .. MaxLen  BY <2>1 DEF Shape
  <2>3. usize \in Nat \ {0} /\ usize <= MaxLen  BY <2>1, <2>2, TableAssumption
  <2>. QED  BY <2>1, <2>2, <2>3, Facts
<1>2. Fits  BY <1>1 DEF Fits
<1>3. usize <= MaxResource  BY <1>1, TableAssumption
<1>4. (M - 1) * NarrowBytes <= TableBytes
  <2>1. TableBytes = (M - 1) * Bytes(ReaderWide(usize))  BY DEF TableBytes, M
  <2>2. Bytes(ReaderWide(usize)) \in Nat /\ NarrowBytes <= Bytes(ReaderWide(usize))
    BY Facts DEF TableInv
  <2>. QED  BY <1>1, <2>1, <2>2, MulGrows
<1>5. M - 1 <= size \div NarrowBytes
  <2>1. (M - 1) * NarrowBytes \in Nat  BY <1>1
  <2>2. (M - 1) * NarrowBytes <= size  BY <1>1, <1>4, <2>1
  <2>. QED  BY <1>1, <2>2, DivAtLeast
<1>6. M * ChunkSize <= (size \div NarrowBytes + 1) * ChunkSize
  <2>1. size \div NarrowBytes \in Nat  BY <1>1, DivBounds
  <2>2. M <= size \div NarrowBytes + 1  BY <1>1, <1>5, <2>1
  <2>. QED  BY <1>1, <2>1, <2>2, MulGrows
<1>7. usize <= M * ChunkSize  BY <1>1, NumChunksBounds DEF M
<1>8. M * ChunkSize \in Nat /\ (size \div NarrowBytes + 1) * ChunkSize \in Nat
  BY <1>1, DivBounds
<1>. QED  BY <1>1, <1>2, <1>3, <1>6, <1>7, <1>8 DEF Plausible

(* What no step of the reader changes.                                     *)
LEMMA ReaderLeaves ==
  ASSUME UNCHANGED <<own, offset, usize, size, table, chunks, filled>>
  PROVE  /\ M' = M /\ TableBytes' = TableBytes /\ Base' = Base /\ EndOffset' = EndOffset
         /\ Fits' = Fits /\ \A k : BeginOf(k)' = BeginOf(k)
  BY DEF M, TableBytes, Base, EndOffset, Fits, BeginOf

LEMMA BeginTable == ASSUME TableInv, Refuse \/ ReadEmpty \/ ReadFirst PROVE TableInv'
<1>1. /\ phase = "stored" /\ Shape /\ Laid
      /\ UNCHANGED <<own, offset, usize, size, table, chunks, filled>>
  BY DEF Refuse, ReadEmpty, ReadFirst, TableInv
<1>2. CASE Refuse
  <2>1. ~own  BY <1>1, <1>2, OwnIsTaken DEF Refuse
  <2>. QED
    BY <1>1, <1>2, <2>1, ReaderLeaves
    DEF Refuse, TableInv, Shape, Phases, Boundaries, Parsing, Laid
<1>3. CASE ReadEmpty
  <2>1. ~own /\ usize' = 0  BY <1>1, <1>3 DEF ReadEmpty, Laid
  <2>2. offs' \in Seq(Nat)  BY <1>1, <1>3, Facts DEF ReadEmpty
  <2>3. Shape'  BY <1>1, <1>3, <2>2 DEF ReadEmpty, Shape, Phases
  <2>. QED  BY <1>1, <2>1, <2>3 DEF TableInv, Boundaries, Laid
<1>4. CASE ReadFirst
  <2>1. /\ usize > 0 /\ Fits /\ offs' = <<Base>> /\ i' = 1 /\ phase' = "entries"
        /\ M \in Nat \ {0} /\ Base \in Nat
    BY <1>1, <1>4, Facts DEF ReadFirst
  <2>2. offs' \in Seq(Nat) /\ Len(offs') = 1 /\ offs'[1] = Base  BY <2>1
  <2>3. \A k \in 1 .. M' - 1 : table'[k] \in Nat
    BY <1>1, <2>1, ReaderLeaves DEF Shape
  <2>4. Shape'  BY <1>1, <2>1, <2>2, <2>3 DEF Shape, Phases
  <2>5. Boundaries'  BY <1>1, <2>1, <2>2, ReaderLeaves DEF Boundaries
  <2>6. Laid'
    <3>1. \A k \in 1 .. Len(offs') : offs'[k] = Base' + BeginOf(k)'
      <4>1. BeginOf(1)' = 0  BY DEF BeginOf
      <4>. QED  BY <1>1, <2>1, <2>2, <4>1, ReaderLeaves
    <3>2. \A k \in 1 .. Len(chunks) :
            /\ BeginOf(k)' = BeginOf(k) /\ BeginOf(k + 1)' = BeginOf(k + 1)
      BY <1>1, ReaderLeaves
    <3>. QED  BY <1>1, <2>1, <3>1, <3>2, ReaderLeaves DEF Laid
  <2>. QED  BY <2>4, <2>5, <2>6 DEF TableInv
<1>. QED  BY <1>2, <1>3, <1>4

(* The boundaries of a resource of this writer.                            *)
LEMMA OwnBoundaries ==
  ASSUME TableInv, own
  PROVE  /\ chunks \in Seq(StoredChunk)
         /\ phase # "encode" => Len(chunks) = M /\ EndOffset = Base + filled
         /\ Base \in Nat /\ filled \in Nat
         /\ \A k \in 1 .. Len(chunks) :
              BeginOf(k) \in 0 .. filled /\ BeginOf(k + 1) = BeginOf(k) + chunks[k].len
         /\ \A k \in 1 .. Len(offs) : offs[k] = Base + BeginOf(k)
<1>1. Shape /\ Laid  BY DEF TableInv
<1>2. Base \in Nat /\ TableBytes \in Nat /\ offset \in Nat /\ filled \in Nat
  BY <1>1, Facts DEF Laid, Shape
<1>3. phase # "encode" => Len(chunks) = M /\ EndOffset = Base + filled
  BY <1>1, <1>2 DEF Laid, EndOffset, Base
<1>. QED  BY <1>1, <1>2, <1>3 DEF Laid

LEMMA EntryTable == ASSUME TableInv, ReadEntry \/ ReadLast PROVE TableInv'
<1>1. /\ phase = "entries" /\ Shape /\ Boundaries /\ Laid
      /\ UNCHANGED <<own, offset, usize, size, table, chunks, filled>>
  BY DEF ReadEntry, ReadLast, TableInv
<1>2. /\ usize > 0 /\ M \in Nat \ {0} /\ i \in 1 .. M /\ Len(offs) = i /\ offs[1] = Base /\ Fits
      /\ Base \in Nat /\ offs \in Seq(Nat) /\ WordSize \in Nat \ {0} /\ EndOffset \in Nat
  <2>1. usize > 0  BY <1>1 DEF Shape
  <2>. QED  BY <1>1, <2>1, Facts DEF Boundaries, Parsing, Shape
<1>3. CASE ReadEntry
  <2>1. i < M /\ i' = i + 1 /\ phase' = "entries" /\ i \in 1 .. M - 1
    BY <1>2, <1>3 DEF ReadEntry, M
  <2>2. PICK e : e = (Base + table[i]) % WordSize  OBVIOUS
  <2>3. table[i] \in Nat /\ e \in Nat
    <3>1. table[i] \in Nat  BY <1>1, <2>1 DEF Shape
    <3>. QED  BY <1>2, <2>2, <3>1, ModNat
  <2>4. /\ offs' \in Seq(Nat) /\ Len(offs') = i + 1 /\ offs'[i + 1] = e
        /\ \A k \in 1 .. i : offs'[k] = offs[k]
    <3>1. offs' = Append(offs, e)  BY <1>3, <2>2 DEF ReadEntry
    <3>. QED  BY <1>2, <2>3, <3>1, Appended
  <2>5. \A k \in 1 .. M' - 1 : table'[k] \in Nat  BY <1>1, ReaderLeaves DEF Shape
  <2>6. Shape'  BY <1>1, <2>1, <2>4, <2>5 DEF Shape, Phases
  <2>7. Boundaries'
    <3>1. offs'[1] = Base  BY <1>2, <2>4
    <3>. QED  BY <1>1, <1>2, <2>1, <2>4, <3>1, ReaderLeaves DEF Boundaries
  <2>8. own => e = Base + BeginOf(i + 1)
    <3>. SUFFICES ASSUME own PROVE e = Base + BeginOf(i + 1)  OBVIOUS
    <3>1. BeginOf(i + 1) = table[i] /\ BeginOf(i + 1) <= filled
      <4>1. Len(chunks) = M /\ i + 1 \in 1 .. Len(chunks)
        BY <1>1, <1>2, <2>1, OwnBoundaries DEF TableInv
      <4>2. BeginOf(i + 1) \in 0 .. filled  BY <4>1, OwnBoundaries
      <4>3. BeginOf(i + 1) = table[i]  BY <1>2, <4>1 DEF BeginOf
      <4>4. filled \in Nat  BY OwnBoundaries
      <4>. QED  BY <4>2, <4>3, <4>4
    <3>2. Base + filled < WordSize /\ filled \in Nat
      <4>1. EndOffset = Base + filled /\ filled \in Nat  BY <1>1, OwnBoundaries
      <4>. QED  BY <1>1, <4>1 DEF Shape, EndOffset
    <3>3. Base + table[i] < WordSize  BY <1>2, <2>3, <3>1, <3>2
    <3>4. (Base + table[i]) % WordSize = Base + table[i]
      <4>1. Base + table[i] \in Nat  BY <1>2, <2>3
      <4>. QED  BY <1>2, <3>3, <4>1, ModSmall
    <3>. QED  BY <2>2, <3>1, <3>4
  <2>9. Laid'
    <3>1. own => \A k \in 1 .. Len(offs') : offs'[k] = Base + BeginOf(k)
      <4>. SUFFICES ASSUME own, NEW k \in 1 .. i + 1 PROVE offs'[k] = Base + BeginOf(k)
        BY <2>4
      <4>1. CASE k = i + 1  BY <2>4, <2>8, <4>1
      <4>2. CASE k \in 1 .. i  BY <1>1, <1>2, <2>4, <4>2 DEF Laid
      <4>. QED  BY <1>2, <4>1, <4>2
    <3>. QED  BY <1>1, <2>1, <3>1, ReaderLeaves DEF Laid
  <2>. QED  BY <2>6, <2>7, <2>9 DEF TableInv
<1>4. CASE ReadLast
  <2>1. i = M /\ i' = 0 /\ phase' = "check" /\ offs' = Append(offs, EndOffset)
    BY <1>2, <1>4 DEF ReadLast, M
  <2>2. /\ offs' \in Seq(Nat) /\ Len(offs') = M + 1 /\ offs'[M + 1] = EndOffset
        /\ \A k \in 1 .. M : offs'[k] = offs[k]
    BY <1>2, <2>1, Appended
  <2>3. Shape'  BY <1>1, <2>1, <2>2 DEF Shape, Phases
  <2>4. Boundaries'
    <3>1. offs'[1] = Base  BY <1>2, <2>2
    <3>. QED  BY <1>1, <1>2, <2>1, <2>2, <3>1, ReaderLeaves DEF Boundaries
  <2>5. Laid'
    <3>1. own => \A k \in 1 .. Len(offs') : offs'[k] = Base + BeginOf(k)
      <4>. SUFFICES ASSUME own, NEW k \in 1 .. M + 1 PROVE offs'[k] = Base + BeginOf(k)
        BY <2>2
      <4>1. CASE k = M + 1
        <5>1. Len(chunks) = M /\ EndOffset = Base + filled  BY <1>1, OwnBoundaries
        <5>2. BeginOf(k) = filled  BY <1>2, <4>1, <5>1 DEF BeginOf
        <5>. QED  BY <2>2, <4>1, <5>1, <5>2
      <4>2. CASE k \in 1 .. M  BY <1>1, <1>2, <2>1, <2>2, <4>2 DEF Laid
      <4>. QED  BY <1>2, <4>1, <4>2
    <3>. QED  BY <1>1, <2>1, <3>1, ReaderLeaves DEF Laid
  <2>. QED  BY <2>3, <2>4, <2>5 DEF TableInv
<1>. QED  BY <1>3, <1>4

(* No chunk that the writer laid out is refused.                           *)
LEMMA OwnIsAcceptable ==
  ASSUME TableInv, own, phase = "check", NEW k \in 1 .. M
  PROVE  Acceptable(k)
<1>1. /\ Base \in Nat /\ filled \in Nat /\ Len(chunks) = M /\ EndOffset = Base + filled
      /\ chunks \in Seq(StoredChunk)
  BY OwnBoundaries
<1>2. Shape /\ Laid /\ usize > 0 /\ WordSize \in Nat \ {0} /\ M \in Nat \ {0}
      /\ ChunkSize \in Nat \ {0}
  BY Facts DEF TableInv, Laid
<1>3. Len(offs) = M + 1  BY <1>2 DEF TableInv, Boundaries, Parsing
<1>4. offs[k] = Base + BeginOf(k) /\ offs[k + 1] = Base + BeginOf(k + 1)
  <2>1. k \in 1 .. Len(offs) /\ k + 1 \in 1 .. Len(offs)  BY <1>2, <1>3
  <2>. QED  BY <2>1, OwnBoundaries
<1>5. /\ BeginOf(k) \in 0 .. filled /\ BeginOf(k + 1) = BeginOf(k) + chunks[k].len
      /\ chunks[k].len \in 1 .. ChunkSize
  <2>1. k \in 1 .. Len(chunks)  BY <1>1
  <2>2. chunks[k] \in StoredChunk  BY <1>1, <2>1
  <2>. QED  BY <2>1, <2>2, OwnBoundaries DEF StoredChunk
<1>6. BeginOf(k + 1) <= filled
  <2>1. CASE k = M  BY <1>1, <1>2, <2>1 DEF BeginOf
  <2>2. CASE k # M
    <3>1. k + 1 \in 1 .. Len(chunks)  BY <1>1, <1>2, <2>2
    <3>2. BeginOf(k + 1) \in 0 .. filled  BY <3>1, OwnBoundaries
    <3>. QED  BY <1>1, <3>2
  <2>. QED  BY <2>1, <2>2
<1>7. offs[k + 1] - offs[k] = chunks[k].len /\ chunks[k].len < WordSize
  <2>1. offset + size < WordSize  BY <1>2 DEF Shape
  <2>. QED  BY <1>1, <1>2, <1>4, <1>5, <1>6, <2>1 DEF EndOffset
<1>8. (offs[k + 1] - offs[k]) % WordSize = chunks[k].len
  <2>1. chunks[k].len \in Nat  BY <1>2, <1>5
  <2>. QED  BY <1>2, <1>7, <2>1, ModSmall
<1>9. Base <= offs[k] /\ offs[k] <= offs[k + 1] /\ offs[k + 1] <= EndOffset
  BY <1>1, <1>2, <1>4, <1>5, <1>6
<1>10. chunks[k].len <= ChunkSize  BY <1>2, <1>5
<1>. QED  BY <1>8, <1>9, <1>10 DEF Acceptable

LEMMA CheckTable == ASSUME TableInv, CheckChunk \/ Accept PROVE TableInv'
<1>1. /\ phase = "check" /\ Shape /\ Boundaries /\ Laid
      /\ UNCHANGED <<own, offset, usize, size, table, chunks, filled, offs>>
  BY DEF CheckChunk, Accept, TableInv
<1>2. i \in Nat /\ (usize > 0 => M \in Nat \ {0} /\ i \in 0 .. M)
  BY <1>1, Facts DEF Boundaries, Parsing, Shape
<1>3. \A k : Acceptable(k)' <=> Acceptable(k)
  BY <1>1, ReaderLeaves DEF Acceptable
<1>4. CASE Accept
  <2>1. i = M /\ phase' = "accepted" /\ i' = i  BY <1>4 DEF Accept, M
  <2>2. Shape'  BY <1>1, <2>1 DEF Shape, Phases
  <2>3. Boundaries'
    BY <1>1, <1>2, <1>3, <2>1, ReaderLeaves DEF Boundaries, Parsing
  <2>4. Laid'  BY <1>1, <2>1, ReaderLeaves DEF Laid
  <2>. QED  BY <2>2, <2>3, <2>4 DEF TableInv
<1>5. CASE CheckChunk /\ Acceptable(i + 1)
  <2>1. i < M /\ i' = i + 1 /\ phase' = phase  BY <1>5 DEF CheckChunk, M
  <2>2. Shape'  BY <1>1, <1>2, <2>1 DEF Shape, Phases
  <2>3. Boundaries'
    <3>1. usize > 0 => \A k \in 1 .. i + 1 : Acceptable(k)
      <4>. SUFFICES ASSUME usize > 0, NEW k \in 1 .. i + 1 PROVE Acceptable(k)  OBVIOUS
      <4>1. CASE k = i + 1  BY <1>5, <4>1
      <4>2. CASE k \in 1 .. i  BY <1>1, <4>2 DEF Boundaries, Parsing
      <4>. QED  BY <1>2, <4>1, <4>2
    <3>. QED  BY <1>1, <1>2, <1>3, <2>1, <3>1, ReaderLeaves DEF Boundaries, Parsing
  <2>4. Laid'  BY <1>1, <2>1, ReaderLeaves DEF Laid
  <2>. QED  BY <2>2, <2>3, <2>4 DEF TableInv
<1>6. CASE CheckChunk /\ ~Acceptable(i + 1)
  <2>1. i < M /\ i' = i /\ phase' = "refused"  BY <1>6 DEF CheckChunk, M
  <2>2. ~own
    <3>. SUFFICES ASSUME own PROVE FALSE  OBVIOUS
    <3>1. usize > 0  BY <1>1 DEF Laid
    <3>2. i + 1 \in 1 .. M  BY <1>2, <2>1, <3>1
    <3>. QED  BY <1>1, <1>6, <3>2, OwnIsAcceptable
  <2>3. Shape'  BY <1>1, <2>1 DEF Shape, Phases
  <2>. QED  BY <1>1, <2>1, <2>2, <2>3 DEF TableInv, Boundaries, Parsing, Laid
<1>. QED  BY <1>4, <1>5, <1>6

-----------------------------------------------------------------------------
(* The theorems.                                                           *)

LEMMA StepTable == TableInv /\ [Next]_vars => TableInv'
<1>. SUFFICES ASSUME TableInv, [Next]_vars PROVE TableInv'  OBVIOUS
<1>1. CASE Writing  BY <1>1, AppendTable, StoreTable DEF Writing
<1>2. CASE Other  BY <1>2, ReplaceTable
<1>3. CASE Reading  BY <1>3, BeginTable, EntryTable, CheckTable DEF Reading
<1>4. CASE UNCHANGED vars
  <2>1. UNCHANGED <<phase, own, offset, usize, size, i, table, chunks, filled, offs>>
    BY <1>4 DEF vars
  <2>2. Shape'  BY <2>1, ReaderLeaves DEF TableInv, Shape
  <2>3. \A k : Acceptable(k)' <=> Acceptable(k)  BY <2>1, ReaderLeaves DEF Acceptable
  <2>4. Boundaries'  BY <2>1, <2>3, ReaderLeaves DEF TableInv, Boundaries
  <2>5. Laid'  BY <2>1, ReaderLeaves DEF TableInv, Laid
  <2>. QED  BY <2>2, <2>4, <2>5 DEF TableInv
<1>. QED  BY <1>1, <1>2, <1>3, <1>4 DEF Next

LEMMA TableInvariance == Spec => []TableInv
BY InitTable, StepTable, PTL DEF Spec

(* What readChunkTable accepts, whoever wrote it, can be read through      *)
(* buffers of one chunk: no chunk leaves the resource or is longer than    *)
(* its buffer, although the entries are added and subtracted as words that *)
(* wrap, and the chunks' lengths add up to the resource's.                 *)
THEOREM AcceptedTablesAreReadable == Spec => []AcceptedIsReadable
<1>1. TableInv => AcceptedIsReadable
  <2>. SUFFICES ASSUME TableInv, phase = "accepted", usize > 0 PROVE AcceptedIsReadable
    BY DEF AcceptedIsReadable
  <2>1. /\ Shape /\ offset \in Nat /\ WordSize \in Nat \ {0} /\ M \in Nat \ {0} /\ TableBytes \in Nat
        /\ usize \in Nat \ {0} /\ ChunkSize \in Nat \ {0} /\ offs \in Seq(Nat)
    BY Facts DEF TableInv, Shape
  <2>2. Len(offs) = M + 1 /\ \A k \in 1 .. M : Acceptable(k)
    BY DEF TableInv, Boundaries, Parsing
  <2>3. ASSUME NEW k \in 1 .. M
        PROVE  /\ offset <= offs[k] /\ offs[k + 1] <= EndOffset
               /\ offs[k + 1] - offs[k] \in 0 .. ChunkSize
               /\ ChunkLen(usize, k - 1) \in 1 .. ChunkSize
    <3>1. offs[k] \in Nat /\ offs[k + 1] \in Nat  BY <2>1, <2>2
    <3>2. /\ Base <= offs[k] /\ offs[k] <= offs[k + 1] /\ offs[k + 1] <= EndOffset
          /\ (offs[k + 1] - offs[k]) % WordSize <= ChunkSize
      BY <2>2 DEF Acceptable
    <3>3. offs[k + 1] - offs[k] \in Nat /\ offs[k + 1] - offs[k] < WordSize
      <4>1. EndOffset \in Nat /\ EndOffset < WordSize  BY <2>1 DEF Shape, EndOffset
      <4>2. PICK a, b, e : a = offs[k] /\ b = offs[k + 1] /\ e = EndOffset  OBVIOUS
      <4>3. a \in Nat /\ b \in Nat /\ a <= b /\ b <= e /\ e \in Nat /\ e < WordSize
        BY <3>1, <3>2, <4>1, <4>2
      <4>4. b - a \in Nat /\ b - a < WordSize  BY <2>1, <4>3
      <4>. QED  BY <4>2, <4>4
    <3>4. (offs[k + 1] - offs[k]) % WordSize = offs[k + 1] - offs[k]
      BY <2>1, <3>3, ModSmall
    <3>5. offset <= offs[k]  BY <2>1, <3>1, <3>2 DEF Base
    <3>6. k - 1 \in 0 .. NumChunks(usize) - 1  BY <2>1 DEF M
    <3>7. ChunkLen(usize, k - 1) \in 1 .. ChunkSize  BY <2>1, <3>6, ChunkLenBounds
    <3>. QED  BY <2>1, <3>2, <3>3, <3>4, <3>5, <3>7
  <2>4. ChunkLen(usize, NumChunks(usize) - 1) + (NumChunks(usize) - 1) * ChunkSize = usize
    <3>1. M - 1 \in 0 .. M - 1 /\ M - 1 \in 0 .. NumChunks(usize) - 1  BY <2>1 DEF M
    <3>2. /\ (M - 1) * ChunkSize + ChunkLen(usize, M - 1) = usize
          /\ ChunkLen(usize, M - 1) \in 1 .. ChunkSize /\ (M - 1) * ChunkSize \in Nat
      BY <2>1, <3>1, ChunkLenBounds DEF M
    <3>. QED  BY <2>1, <3>2 DEF M
  <2>. QED  BY <2>2, <2>3, <2>4 DEF AcceptedIsReadable, M
<1>. QED  BY <1>1, TableInvariance, PTL

(* readChunkTable does not refuse what compressResource laid out, cuts it  *)
(* where it was put together, and tells a raw chunk from a compressed one  *)
(* by its length: no entry wraps, both sides agree on the width of one,    *)
(* and a chunk is compressed only if that saves a byte.                    *)
THEOREM OwnTablesAreRead == Spec => []OwnTableReads
<1>1. TableInv => OwnTableReads
  <2>. SUFFICES ASSUME TableInv, own PROVE OwnTableReads  BY DEF OwnTableReads
  <2>1. phase # "refused" /\ usize > 0  BY DEF TableInv, Laid
  <2>2. ASSUME phase = "accepted"
        PROVE  /\ Len(offs) = Len(chunks) + 1 /\ offs[1] = Base
               /\ \A k \in DOMAIN chunks :
                    LET stored == offs[k + 1] - offs[k] IN
                    /\ stored = chunks[k].len
                    /\ chunks[k].form = "raw" <=> stored = ChunkLen(usize, k - 1)
    <3>1. /\ Len(offs) = M + 1 /\ offs[1] = Base /\ Len(chunks) = M /\ M \in Nat
          /\ Base \in Nat /\ filled \in Nat
          /\ chunks \in Seq(StoredChunk)
      BY <2>1, <2>2, OwnBoundaries, Facts DEF TableInv, Boundaries, Parsing
    <3>2. ASSUME NEW k \in DOMAIN chunks
          PROVE  /\ offs[k + 1] - offs[k] = chunks[k].len
                 /\ chunks[k].form = "raw" <=> chunks[k].len = ChunkLen(usize, k - 1)
      <4>1. k \in 1 .. Len(chunks) /\ k \in 1 .. Len(offs) /\ k + 1 \in 1 .. Len(offs)
        BY <3>1
      <4>2. chunks[k].len \in Nat
        <5>1. chunks[k] \in StoredChunk  BY <3>1
        <5>. QED  BY <5>1, TableAssumption DEF StoredChunk
      <4>3. offs[k] = Base + BeginOf(k) /\ offs[k + 1] = Base + BeginOf(k + 1)
        BY <4>1, OwnBoundaries
      <4>4. BeginOf(k) \in Nat /\ BeginOf(k + 1) = BeginOf(k) + chunks[k].len
        <5>1. BeginOf(k) \in 0 .. filled /\ BeginOf(k + 1) = BeginOf(k) + chunks[k].len
          BY <4>1, OwnBoundaries
        <5>. QED  BY <3>1, <5>1
      <4>5. chunks[k].form = "raw" <=> chunks[k].len = ChunkLen(usize, k - 1)
        BY <4>1 DEF TableInv, Laid
      <4>6. offs[k + 1] - offs[k] = chunks[k].len  BY <3>1, <4>2, <4>3, <4>4
      <4>. QED  BY <4>5, <4>6
    <3>. QED  BY <3>1, <3>2
  <2>. QED  BY <2>1, <2>2 DEF OwnTableReads
<1>. QED  BY <1>1, TableInvariance, PTL
=============================================================================
