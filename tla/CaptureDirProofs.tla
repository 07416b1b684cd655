-------------------------- MODULE CaptureDirProofs --------------------------
(***************************************************************************)
(* What the Writer seals reads back as what was captured, and what         *)
(* CaptureDir returns is true of the file it leaves: for every tree, every *)
(* destination, every failure, every kill and every run over what is left. *)
(*                                                                         *)
(* Two resources never share bytes, because each is written behind the     *)
(* last; the one exception, a stream without bytes, has only one content.  *)
(* So a resource header names what it was made for, a table sorted by      *)
(* offset has the images in the order they were added, and a phase of      *)
(* CaptureDir knows how far its Writer has got.                            *)
(***************************************************************************)
EXTENDS CaptureDir, WimWriterProofs

(* readResource takes it.                                                  *)
Sound(res) ==
  /\ res.compressed => opts.codec = "lzx"
  /\ ~res.compressed => res.size = res.uncompressed

(* Two runs that are whole are one, unless what they hold is empty: then   *)
(* they hold the same.                                                     *)
RunsApart ==
  /\ \A x \in extents : x.off \in Nat /\ x.len \in Nat
  /\ header.kind = "reserved" => \A x \in extents : x.off + x.len <= at
  /\ \A x \in extents : x.whole /\ x.len = 0 => x.body.data \in Content /\ Size[x.body.data] = 0
  /\ \A x, y \in extents : x.whole /\ y.whole /\ x.off = y.off /\ x.len = y.len =>
       x.body.data = y.body.data
  /\ ~started /\ ~err => extents = {}

(* Images lie in the order in which they were added, behind the header.    *)
ImagesInOrder ==
  /\ started => pos > 0
  /\ \A i \in DOMAIN blobs : ~blobs[i].res.metadata /\ Sound(blobs[i].res)
  /\ \A i \in DOMAIN images :
       /\ images[i].res.metadata /\ Sound(images[i].res)
       /\ 0 < images[i].res.offset /\ images[i].res.offset < pos
  /\ \A i, j \in DOMAIN images : i < j => images[i].res.offset < images[j].res.offset

BootOnce ==
  /\ \A i, j \in DOMAIN images : images[i].info.boot /\ images[j].info.boot => i = j
  /\ step \in Adding /\ adding.boot => ~BootTaken

Xml == [names |-> [i \in DOMAIN images |-> images[i].info.name], total |-> xmlRes.offset]

(* A stored resource that holds this.                                      *)
Stores(res, data) ==
  ~res.compressed /\ res.size = res.uncompressed /\ Describes(res, data)

(* There is something of a header that a reader may take for one.          *)
Begun == header.says.lead

(* How far Close has got.                                                  *)
SealingFollows ==
  /\ step \in Sealing \/ Begun => order \in Sorted(Entries)
  /\ step \in {"xml", "seal"} \/ Begun => Stores(tableRes, order)
  /\ step = "seal" \/ Begun => Stores(xmlRes, Xml) /\ xmlRes.size # 0
  /\ Begun => header.says \in HeaderParts /\ closed /\ images # <<>> /\ step = "idle"
  /\ Sealed => header.says = Header

RoundInv == RunsApart /\ ImagesInOrder /\ BootOnce /\ SealingFollows
-----------------------------------------------------------------------------
(* A sorted table, read back.                                              *)

(* o is es, reordered by p.                                                *)
Reorders(p, n, es, o) ==
  /\ p \in [1 .. n -> 1 .. n] /\ DOMAIN o = 1 .. n
  /\ \A k \in 1 .. n : o[k] = es[p[k]]
  /\ \A i, j \in 1 .. n : i < j => p[i] # p[j] /\ es[p[i]].res.offset <= es[p[j]].res.offset
  /\ \A m \in 1 .. n : \E k \in 1 .. n : p[k] = m

(* Sorting loses no entry.                                                 *)
LEMMA SortedPermutes ==
  ASSUME NEW es, NEW n \in Nat, DOMAIN es = 1 .. n, NEW o \in Sorted(es)
  PROVE  \E p : Reorders(p, n, es, o)
<1>1. PICK p \in [1 .. n -> 1 .. n] :
        /\ o = [k \in 1 .. n |-> es[p[k]]]
        /\ \A i, j \in 1 .. n : i < j => p[i] # p[j] /\ es[p[i]].res.offset <= es[p[j]].res.offset
  BY DEF Sorted
<1>2. p \in Injection(1 .. n, 1 .. n)
  <2>1. ASSUME NEW i \in 1 .. n, NEW j \in 1 .. n, p[i] = p[j] PROVE i = j
    <3>1. i < j \/ j < i \/ i = j  OBVIOUS
    <3>. QED  BY <1>1, <2>1, <3>1
  <2>. QED  BY <2>1 DEF Injection, IsInjective
<1>3. p \in Surjection(1 .. n, 1 .. n)
  <2>1. IsFiniteSet(1 .. n)  BY FS_Interval
  <2>. QED  BY <1>2, <2>1, FS_Injection
<1>4. \A m \in 1 .. n : \E k \in 1 .. n : p[k] = m  BY <1>3 DEF Surjection
<1>5. DOMAIN o = 1 .. n /\ \A k \in 1 .. n : o[k] = es[p[k]]  BY <1>1
<1>. QED  BY <1>1, <1>4, <1>5 DEF Reorders

LEMMA SameCardinality == \A S : Reader!Cardinality(S) = Cardinality(S)
BY DEF Reader!Cardinality, Cardinality, Reader!IsFiniteSet, IsFiniteSet

(* The i-th of a set of integers is the one with i of them up to it.       *)
Nth(S, i) == CHOOSE k \in S : Cardinality({j \in S : j <= k}) = i

LEMMA RankOf ==
  ASSUME NEW n \in Nat, NEW q \in [1 .. n -> Int], NEW S, S = {q[i] : i \in 1 .. n},
         \A i, j \in 1 .. n : i < j => q[i] < q[j]
  PROVE  /\ Cardinality(S) = n
         /\ \A i \in 1 .. n : Nth(S, i) = q[i]
<1>. DEFINE Upto(i) == {j \in S : j <= q[i]}
<1>1. \A i, j \in 1 .. n : q[i] = q[j] => i = j
  <2>. SUFFICES ASSUME NEW i \in 1 .. n, NEW j \in 1 .. n, q[i] = q[j] PROVE i = j  OBVIOUS
  <2>1. i < j \/ j < i \/ i = j  OBVIOUS
  <2>. QED  BY <2>1
<1>2. ASSUME NEW i \in 1 .. n, NEW T, T = {q[a] : a \in 1 .. i}
      PROVE  Cardinality(T) = i
  <2>. DEFINE f == [a \in 1 .. i |-> q[a]]
  <2>1. 1 .. i \subseteq 1 .. n  OBVIOUS
  <2>2. f \in Bijection(1 .. i, T)
    <3>1. f \in [1 .. i -> T]  BY <1>2
    <3>2. \A a, b \in 1 .. i : f[a] = f[b] => a = b  BY <1>1, <2>1
    <3>3. \A t \in T : \E a \in 1 .. i : f[a] = t  BY <1>2
    <3>. HIDE DEF f
    <3>. QED  BY <3>1, <3>2, <3>3 DEF Bijection, Injection, Surjection, IsInjective
  <2>3. IsFiniteSet(1 .. i) /\ Cardinality(1 .. i) = i
    <3>1. i \in Int /\ ~(1 > i) /\ i - 1 + 1 = i  OBVIOUS
    <3>. QED  BY <3>1, FS_Interval
  <2>4. ExistsBijection(1 .. i, T)  BY <2>2 DEF ExistsBijection
  <2>. QED  BY <2>3, <2>4, FS_Bijection
<1>3. ASSUME NEW i \in 1 .. n PROVE Cardinality(Upto(i)) = i
  <2>1. ASSUME NEW j \in S, j <= q[i] PROVE j \in {q[a] : a \in 1 .. i}
    <3>1. PICK a \in 1 .. n : j = q[a]  OBVIOUS
    <3>2. ~(i < a)
      <4>1. q[a] \in Int /\ q[i] \in Int  OBVIOUS
      <4>. QED  BY <2>1, <3>1, <4>1
    <3>3. a \in 1 .. i  BY <3>2
    <3>. QED  BY <3>1, <3>3
  <2>2. ASSUME NEW a \in 1 .. i PROVE q[a] \in S /\ q[a] <= q[i]
    <3>1. a \in 1 .. n /\ (a < i \/ a = i)  OBVIOUS
    <3>2. q[a] \in Int /\ q[i] \in Int  BY <3>1
    <3>. QED  BY <3>1, <3>2
  <2>3. Upto(i) = {q[a] : a \in 1 .. i}  BY <2>1, <2>2
  <2>. HIDE DEF Upto
  <2>. QED  BY <1>2, <2>3
<1>4. Cardinality(S) = n
  <2>1. CASE n = 0
    <3>1. S = {}  BY <2>1
    <3>. QED  BY <2>1, <3>1, FS_EmptySet
  <2>2. CASE n # 0
    <3>1. n \in 1 .. n  BY <2>2
    <3>. QED  BY <1>2, <3>1
  <2>. QED  BY <2>1, <2>2
<1>5. ASSUME NEW i \in 1 .. n PROVE Nth(S, i) = q[i]
  <2>1. q[i] \in S /\ Cardinality({j \in S : j <= q[i]}) = i  BY <1>3
  <2>2. ASSUME NEW k \in S, Cardinality({j \in S : j <= k}) = i PROVE k = q[i]
    <3>1. PICK a \in 1 .. n : k = q[a]  OBVIOUS
    <3>2. Cardinality({j \in S : j <= k}) = a  BY <1>3, <3>1
    <3>. QED  BY <2>2, <3>1, <3>2
  <2>. QED  BY <2>1, <2>2 DEF Nth
<1>. QED  BY <1>4, <1>5

(* The table that is sorted: the streams, then the images.                 *)
LEMMA EntriesAre ==
  ASSUME Typed
  PROVE  /\ Len(blobs) \in Nat /\ Len(images) \in Nat
         /\ DOMAIN blobs = 1 .. Len(blobs) /\ DOMAIN images = 1 .. Len(images)
         /\ DOMAIN Entries = 1 .. (Len(blobs) + Len(images))
         /\ \A i \in DOMAIN blobs : Entries[i] = blobs[i]
         /\ \A i \in DOMAIN images :
              /\ Entries[Len(blobs) + i].res = images[i].res
              /\ Entries[Len(blobs) + i].hash = images[i].meta
              /\ Entries[Len(blobs) + i].refs = 1
<1>. DEFINE e(i) == [res |-> images[i].res, hash |-> images[i].meta, refs |-> 1]
            m == [i \in DOMAIN images |-> e(i)]
<1>1. blobs \in Seq(BlobEntry) /\ images \in Seq(Image)
  BY DEF Typed, WriterTypeInv, BlobEntry, Image
<1>2. /\ Len(blobs) \in Nat /\ Len(images) \in Nat
      /\ DOMAIN blobs = 1 .. Len(blobs) /\ DOMAIN images = 1 .. Len(images)
      /\ \A i \in DOMAIN images : images[i] \in Image
  BY <1>1
<1>3. \A i \in DOMAIN images :
        /\ e(i) \in TableEntry /\ m[i] = e(i)
        /\ e(i).res = images[i].res /\ e(i).hash = images[i].meta /\ e(i).refs = 1
  BY <1>2 DEF Image, TableEntry
<1>4. m \in Seq(TableEntry) /\ Len(m) = Len(images)
  <2>1. m \in [1 .. Len(images) -> TableEntry]  BY <1>2, <1>3
  <2>. HIDE DEF m, e
  <2>. QED  BY <1>2, <2>1
<1>5. Entries = blobs \o m  BY DEF Entries
<1>. HIDE DEF m, e
<1>6. /\ DOMAIN (blobs \o m) = 1 .. (Len(blobs) + Len(images))
      /\ \A i \in DOMAIN blobs : (blobs \o m)[i] = blobs[i]
      /\ \A i \in DOMAIN images : (blobs \o m)[Len(blobs) + i] = m[i]
  BY <1>1, <1>2, <1>4
<1>. QED  BY <1>2, <1>3, <1>5, <1>6

(* The images, as the reader counts them, are those that were added, in    *)
(* the order in which they were added: no two lie at one offset.           *)
LEMMA ImagesAreLive ==
  ASSUME Typed, ImagesInOrder, NEW o \in Sorted(Entries)
  PROVE  /\ Cardinality(Reader!LiveMetas(o)) = Len(images)
         /\ \A i \in DOMAIN images : Reader!ImageRes(o, i) = images[i].res
<1>. DEFINE B == Len(blobs)
            n == Len(images)
<1>1. /\ B \in Nat /\ n \in Nat /\ DOMAIN blobs = 1 .. B /\ DOMAIN images = 1 .. n
      /\ DOMAIN Entries = 1 .. (B + n)
      /\ \A i \in DOMAIN blobs : Entries[i] = blobs[i]
      /\ \A i \in DOMAIN images :
           Entries[B + i].res = images[i].res /\ Entries[B + i].refs = 1
  BY EntriesAre
<1>. HIDE DEF B, n
<1>2. PICK t \in Nat : t = B + n  BY <1>1
<1>3. PICK p : Reorders(p, t, Entries, o)
  <2>1. DOMAIN Entries = 1 .. t  BY <1>1, <1>2
  <2>. QED  BY <2>1, SortedPermutes
<1>. USE DEF Reorders
<1>. DEFINE at_(i) == CHOOSE k \in 1 .. t : p[k] = B + i
            q == [i \in 1 .. n |-> at_(i)]
<1>4. \A i \in 1 .. n : q[i] \in 1 .. t /\ p[q[i]] = B + i
  <2>. SUFFICES ASSUME NEW i \in 1 .. n PROVE at_(i) \in 1 .. t /\ p[at_(i)] = B + i
    OBVIOUS
  <2>1. B + i \in 1 .. t  BY <1>1, <1>2
  <2>. QED  BY <1>3, <2>1
<1>5. q \in [1 .. n -> Int]
  <2>1. q = [i \in 1 .. n |-> q[i]]  OBVIOUS
  <2>. HIDE DEF q
  <2>. QED  BY <1>1, <1>4, <2>1
<1>. HIDE DEF q
<1>6. ASSUME NEW i \in 1 .. n, NEW j \in 1 .. n, i < j PROVE q[i] < q[j]
  <2>1. q[i] \in 1 .. t /\ q[j] \in 1 .. t /\ p[q[i]] = B + i /\ p[q[j]] = B + j
    BY <1>4
  <2>2. q[i] # q[j]
    <3>1. B + i # B + j  BY <1>1, <1>6
    <3>. QED  BY <2>1, <3>1
  <2>3. ~(q[j] < q[i])
    <3>. SUFFICES ASSUME q[j] < q[i] PROVE FALSE  OBVIOUS
    <3>1. Entries[B + j].res.offset <= Entries[B + i].res.offset  BY <1>3, <2>1
    <3>2. images[j].res.offset <= images[i].res.offset  BY <1>1, <3>1
    <3>3. images[i].res.offset < images[j].res.offset  BY <1>1, <1>6 DEF ImagesInOrder
    <3>4. images[i].res.offset \in Nat /\ images[j].res.offset \in Nat
      <4>1. images \in Seq(Image)  BY DEF Typed, WriterTypeInv, Image
      <4>2. images[i] \in Image /\ images[j] \in Image  BY <1>1, <4>1
      <4>. QED  BY <4>2 DEF Image, ResType
    <3>. QED  BY <3>2, <3>3, <3>4
  <2>. QED  BY <2>1, <2>2, <2>3
<1>7. Reader!LiveMetas(o) = {q[i] : i \in 1 .. n}
  <2>1. DOMAIN o = 1 .. t /\ \A k \in 1 .. t : o[k] = Entries[p[k]]  BY <1>3
  <2>2. ASSUME NEW k \in 1 .. t, o[k].res.metadata PROVE \E i \in 1 .. n : k = q[i]
    <3>1. p[k] \in 1 .. t /\ Entries[p[k]].res.metadata  BY <1>3, <2>1, <2>2
    <3>2. p[k] \notin 1 .. B  BY <1>1, <3>1 DEF ImagesInOrder
    <3>3. PICK i \in 1 .. n : p[k] = B + i
      <4>1. p[k] - B \in 1 .. n /\ p[k] = B + (p[k] - B)  BY <1>1, <1>2, <3>1, <3>2
      <4>. QED  BY <4>1
    <3>4. q[i] \in 1 .. t /\ p[q[i]] = p[k]  BY <1>4, <3>3
    <3>5. ~(k < q[i]) /\ ~(q[i] < k)  BY <1>3, <3>4
    <3>6. k = q[i]  BY <1>1, <3>4, <3>5
    <3>. QED  BY <3>6
  <2>3. ASSUME NEW i \in 1 .. n
        PROVE  q[i] \in DOMAIN o /\ o[q[i]].res.metadata /\ o[q[i]].refs # 0
    <3>1. q[i] \in DOMAIN o /\ o[q[i]] = Entries[B + i]  BY <1>4, <2>1
    <3>2. images[i].res.metadata  BY <1>1 DEF ImagesInOrder
    <3>3. Entries[B + i].res = images[i].res /\ Entries[B + i].refs = 1  BY <1>1
    <3>. QED  BY <3>1, <3>2, <3>3
  <2>4. \A k : k \in Reader!LiveMetas(o) <=>
                k \in 1 .. t /\ o[k].res.metadata /\ o[k].refs # 0
    BY <2>1 DEF Reader!LiveMetas
  <2>. QED  BY <2>1, <2>2, <2>3, <2>4
<1>8. /\ Cardinality(Reader!LiveMetas(o)) = n
      /\ \A i \in 1 .. n : Nth(Reader!LiveMetas(o), i) = q[i]
  BY <1>1, <1>5, <1>6, <1>7, RankOf
<1>9. \A i \in 1 .. n : Reader!ImageRes(o, i) = images[i].res
  <2>. SUFFICES ASSUME NEW i \in 1 .. n PROVE Reader!ImageRes(o, i) = images[i].res
    OBVIOUS
  <2>1. Reader!ImageRes(o, i) = o[Nth(Reader!LiveMetas(o), i)].res
    BY SameCardinality DEF Reader!ImageRes, Nth
  <2>2. o[q[i]] = Entries[B + i]  BY <1>3, <1>4
  <2>3. Nth(Reader!LiveMetas(o), i) = q[i]  BY <1>8
  <2>. QED  BY <1>1, <2>1, <2>2, <2>3
<1>. QED  BY <1>1, <1>8, <1>9 DEF n

(* A stream is found by its hash.                                          *)
LEMMA StreamsAreFound ==
  ASSUME Typed, Counts, ImagesInOrder, NEW o \in Sorted(Entries), NEW b \in DOMAIN blobs
  PROVE  Reader!ByHash(o, blobs[b].hash) = blobs[b].res
<1>. DEFINE B == Len(blobs)
            n == Len(images)
            h == blobs[b].hash
<1>1. /\ B \in Nat /\ n \in Nat /\ DOMAIN blobs = 1 .. B /\ DOMAIN images = 1 .. n
      /\ DOMAIN Entries = 1 .. (B + n)
      /\ \A i \in DOMAIN blobs : Entries[i] = blobs[i]
      /\ \A i \in DOMAIN images : Entries[B + i].res = images[i].res
  BY EntriesAre
<1>. HIDE DEF B, n
<1>2. PICK t \in Nat : t = B + n  BY <1>1
<1>3. PICK p : Reorders(p, t, Entries, o)
  <2>1. DOMAIN Entries = 1 .. t  BY <1>1, <1>2
  <2>. QED  BY <2>1, SortedPermutes
<1>. USE DEF Reorders
<1>4. PICK k \in 1 .. t : p[k] = b
  <2>1. b \in 1 .. t  BY <1>1, <1>2
  <2>. QED  BY <1>3, <2>1
<1>5. DOMAIN o = 1 .. t /\ o[k] = blobs[b]  BY <1>1, <1>3, <1>4
<1>6. h # ZeroHash  BY CaptureAssumption DEF Counts
<1>7. k \in Reader!StreamEntries(o, h)
  <2>1. ~blobs[b].res.metadata  BY DEF ImagesInOrder
  <2>. QED  BY <1>5, <1>6, <2>1 DEF Reader!StreamEntries
<1>8. ASSUME NEW j \in Reader!StreamEntries(o, h) PROVE j = k
  <2>1. j \in 1 .. t /\ ~o[j].res.metadata /\ o[j].hash = h
    BY <1>5 DEF Reader!StreamEntries
  <2>2. p[j] \in 1 .. t /\ o[j] = Entries[p[j]]  BY <1>3, <2>1
  <2>3. p[j] \in 1 .. B
    <3>. SUFFICES ASSUME p[j] \notin 1 .. B PROVE FALSE  OBVIOUS
    <3>1. PICK i \in 1 .. n : p[j] = B + i
      <4>1. PICK z \in Int : z = p[j]  BY <2>2
      <4>2. B < z /\ z <= B + n  BY <1>1, <1>2, <2>2, <4>1
      <4>3. z - B \in 1 .. n /\ z = B + (z - B)  BY <1>1, <4>2
      <4>. QED  BY <4>1, <4>3
    <3>2. images[i].res.metadata  BY <1>1 DEF ImagesInOrder
    <3>3. Entries[p[j]].res = images[i].res  BY <1>1, <3>1
    <3>. QED  BY <2>1, <2>2, <3>2, <3>3
  <2>4. blobs[p[j]].hash = blobs[b].hash  BY <1>1, <2>1, <2>2, <2>3
  <2>5. p[j] = p[k]  BY <1>1, <1>4, <2>3, <2>4 DEF Counts
  <2>6. ~(j < k) /\ ~(k < j)  BY <1>3, <2>1, <2>5
  <2>. QED  BY <1>1, <2>1, <2>6
<1>9. (CHOOSE i \in Reader!StreamEntries(o, h) :
         \A j \in Reader!StreamEntries(o, h) : i <= j) = k
  <2>1. k <= k  BY <1>1
  <2>. QED  BY <1>7, <1>8, <2>1
<1>. QED  BY <1>5, <1>7, <1>9 DEF Reader!ByHash

(* What a resource header describes is what is read through it.            *)
LEMMA DescribedIsRead ==
  ASSUME RunsApart, header.says.codec = opts.codec, NEW res, NEW data,
         Sound(res), Describes(res, data)
  PROVE  Reader!ReadResource(Output, res) = data /\ Reader!DataAt(Output, res) = data
<1>1. Output.header = header.says /\ Output.extents = extents  BY DEF Output
<1>2. Reader!Plausible(Output, res)  BY <1>1 DEF Reader!Plausible, Sound
<1>3. PICK x \in extents :
        /\ x.whole /\ x.off = res.offset /\ x.len = res.size
        /\ x.body = [data |-> data, packed |-> res.compressed]
  BY DEF Describes
<1>4. x.body.data = data /\ x.body.packed = res.compressed  BY <1>3
<1>5. x \in Reader!RunsAt(Output, res)  BY <1>1, <1>3, <1>4 DEF Reader!RunsAt
<1>6. ASSUME NEW y \in Reader!RunsAt(Output, res) PROVE y.body.data = data
  <2>1. y \in extents /\ y.whole /\ y.off = x.off /\ y.len = x.len
    BY <1>1, <1>3 DEF Reader!RunsAt
  <2>. QED  BY <1>3, <1>4, <2>1 DEF RunsApart
<1>7. Reader!DataAt(Output, res) = data  BY <1>5, <1>6 DEF Reader!DataAt
<1>. QED  BY <1>2, <1>7 DEF Reader!ReadResource

(* The image that was marked is the one the header names.                  *)
LEMMA BootIndexIs ==
  ASSUME Typed, BootOnce
  PROVE  /\ BootIndex \in 0 .. Len(images)
         /\ BootIndex = 0 <=> ~BootTaken
         /\ \A i \in DOMAIN images : images[i].info.boot <=> BootIndex = i
<1>1. Len(images) \in Nat /\ DOMAIN images = 1 .. Len(images)  BY EntriesAre
<1>2. CASE ~BootTaken  BY <1>1, <1>2 DEF BootIndex, BootTaken
<1>3. CASE BootTaken
  <2>1. PICK i \in DOMAIN images : images[i].info.boot  BY <1>3 DEF BootTaken
  <2>2. \A j \in DOMAIN images : images[j].info.boot => j = i  BY <2>1 DEF BootOnce
  <2>3. \A j \in 1 .. i - 1 : j \in DOMAIN images /\ j # i  BY <1>1, <2>1
  <2>4. (CHOOSE k \in DOMAIN images : images[k].info.boot /\
                   \A j \in 1 .. k - 1 : ~images[j].info.boot) = i
    BY <2>1, <2>2, <2>3
  <2>5. BootIndex = i  BY <1>3, <2>4 DEF BootIndex
  <2>. QED  BY <1>1, <1>3, <2>1, <2>2, <2>5
<1>. QED  BY <1>2, <1>3

LEMMA XmlIsData ==
  ASSUME Typed
  PROVE  Xml # Corrupt /\ Len(Xml.names) = Len(images) /\ Xml.total = xmlRes.offset
         /\ \A i \in DOMAIN images : Xml.names[i] = images[i].info.name
<1>. DEFINE names == [i \in DOMAIN images |-> images[i].info.name]
<1>1. Len(images) \in Nat /\ DOMAIN images = 1 .. Len(images)  BY EntriesAre
<1>2. \A i \in DOMAIN images : images[i].info.name \in STRING
  <2>1. images \in Seq(Image)  BY DEF Typed, WriterTypeInv, Image
  <2>2. \A i \in DOMAIN images : images[i] \in Image  BY <2>1
  <2>. QED  BY <2>2, WriterAssumption DEF Image
<1>3. names \in [1 .. Len(images) -> STRING]  BY <1>1, <1>2
<1>4. \A i \in DOMAIN images : names[i] = images[i].info.name  OBVIOUS
<1>5. Xml = [names |-> names, total |-> xmlRes.offset]  BY DEF Xml
<1>. HIDE DEF names
<1>6. names \in Seq(STRING) /\ Len(names) = Len(images)  BY <1>1, <1>3
<1>7. xmlRes.offset \in Nat  BY DEF Typed, WriterTypeInv, ResType
<1>8. Xml \in XmlType  BY <1>5, <1>6, <1>7 DEF XmlType
<1>. QED  BY <1>4, <1>5, <1>6, <1>8, RoundTripAssumption

LEMMA TableIsLong ==
  ASSUME Typed, images # <<>>, order \in Sorted(Entries) PROVE order # <<>>
<1>1. /\ Len(blobs) \in Nat /\ Len(images) \in Nat
      /\ DOMAIN Entries = 1 .. (Len(blobs) + Len(images))
  BY EntriesAre
<1>2. Len(images) # 0
  <2>1. images \in Seq(Image)  BY DEF Typed, WriterTypeInv, Image
  <2>. QED  BY <2>1
<1>3. PICK n \in Nat : n = Len(blobs) + Len(images) /\ n # 0  BY <1>1, <1>2
<1>4. DOMAIN order = 1 .. n
  <2>1. DOMAIN Entries = 1 .. n  BY <1>1, <1>3
  <2>2. PICK p : Reorders(p, n, Entries, order)  BY <2>1, SortedPermutes
  <2>. QED  BY <2>2 DEF Reorders
<1>. QED  BY <1>3, <1>4

(* What a header says from its codec to its XML.                           *)
Names(h) ==
  /\ h.codec = opts.codec /\ h.count = Len(images)
  /\ h.table = tableRes /\ h.xml = xmlRes

(* What it says behind that: one image twice, or none by its index.        *)
Marks(h) == h.bootIndex = 0 \/ (BootTaken /\ h.bootMeta = images[BootIndex].res)

(* Of the header of a stored resource no part is believed that has a size. *)
LEMMA PartsAreRefused ==
  ASSUME NEW res \in ResType, ~res.compressed, res.size = res.uncompressed,
         NEW r \in ResParts(res), r.size # 0, ~r.compressed => r.size = r.uncompressed
  PROVE  r = res
<1>1. ASSUME NEW n, r = Res(0, n, 0, FALSE, FALSE) PROVE FALSE
  BY <1>1 DEF Res
<1>2. ASSUME NEW n, r = Res(n, res.size, 0, res.compressed, res.metadata) PROVE FALSE
  BY <1>2 DEF Res
<1>3. ASSUME NEW n, r = Res(res.offset, res.size, n, res.compressed, res.metadata)
      PROVE  r = res
  <2>1. n = res.uncompressed  BY <1>3 DEF Res
  <2>2. res = [offset |-> res.offset, size |-> res.size, uncompressed |-> res.uncompressed,
               compressed |-> res.compressed, metadata |-> res.metadata]
    BY DEF ResType
  <2>. QED  BY <1>3, <2>1, <2>2 DEF Res
<1>. QED  BY <1>1, <1>2, <1>3 DEF ResParts

(* Half a header opens only if it names what the whole one would.          *)
LEMMA OpenedNames ==
  ASSUME NEW h \in HeaderParts, {tableRes, xmlRes} \subseteq ResType,
         ~xmlRes.compressed, xmlRes.size = xmlRes.uncompressed,
         h.lead, h.xml.size # 0, ~h.xml.compressed => h.xml.size = h.xml.uncompressed
  PROVE  Names(h) /\ Marks(h)
<1>1. h # Zeros  BY DEF Zeros
<1>2. NoRes.size = 0  BY DEF NoRes, Res
<1>3. ASSUME NEW c, NEW t, NEW m, NEW i, h = Says(c, t, NoRes, m, i) PROVE FALSE
  <2>1. h.xml = NoRes  BY <1>3 DEF Says
  <2>. QED  BY <1>2, <2>1
<1>4. ASSUME NEW x, NEW m, NEW i, h = Says(Len(images), tableRes, x, m, i)
      PROVE  /\ h.codec = opts.codec /\ h.count = Len(images) /\ h.table = tableRes
             /\ h.xml = x /\ h.bootMeta = m /\ h.bootIndex = i
  BY <1>4 DEF Says
<1>5. ASSUME NEW x \in ResParts(xmlRes), h = Says(Len(images), tableRes, x, NoRes, 0)
      PROVE  Names(h) /\ Marks(h)
  <2>1. h.xml = x /\ h.bootIndex = 0  BY <1>4, <1>5
  <2>2. x = xmlRes  BY <2>1, PartsAreRefused
  <2>. QED  BY <1>4, <1>5, <2>1, <2>2 DEF Names, Marks
<1>6. ASSUME NEW m, h = Says(Len(images), tableRes, xmlRes, m, 0)
      PROVE  Names(h) /\ Marks(h)
  BY <1>4, <1>6 DEF Names, Marks
<1>7. ASSUME NEW i \in LowParts(BootIndex), h = Says(Len(images), tableRes, xmlRes, BootMeta, i)
      PROVE  Names(h) /\ Marks(h)
  <2>1. Names(h) /\ h.bootMeta = BootMeta /\ h.bootIndex = i  BY <1>4, <1>7 DEF Names
  <2>2. ~BootTaken => BootIndex = 0  BY DEF BootIndex
  <2>3. BootIndex = 0 => i = 0
    <3>. SUFFICES ASSUME BootIndex = 0 PROVE i = 0  OBVIOUS
    <3>1. i \in 0 .. 0  BY DEF LowParts
    <3>. QED  BY <3>1
  <2>. QED  BY <2>1, <2>2, <2>3 DEF Marks, BootMeta
<1>. QED  BY <1>1, <1>3, <1>5, <1>6, <1>7 DEF HeaderParts

(* What the reader finds first: the table and the XML.                     *)
LEMMA NamedIsRead ==
  ASSUME WriterInv, RoundInv, Begun, Names(header.says)
  PROVE  /\ Reader!BlobTable(Output) = order /\ order \in Sorted(Entries)
         /\ Reader!ReadResource(Output, xmlRes) = Xml
         /\ order \notin {Corrupt, <<>>}
         /\ Typed
<1>1. order \in Sorted(Entries) /\ images # <<>> /\ Typed
  BY DEF RoundInv, SealingFollows, WriterInv
<1>2. header.says.codec = opts.codec /\ header.says.table = tableRes  BY DEF Names
<1>3. Stores(tableRes, order) /\ Stores(xmlRes, Xml)  BY DEF RoundInv, SealingFollows
<1>4. Reader!DataAt(Output, tableRes) = order
  BY <1>2, <1>3, DescribedIsRead DEF RoundInv, Stores, Sound
<1>5. Reader!ReadResource(Output, xmlRes) = Xml
  BY <1>2, <1>3, DescribedIsRead DEF RoundInv, Stores, Sound
<1>6. Reader!BlobTable(Output) = order
  BY <1>2, <1>3, <1>4 DEF Reader!BlobTable, Output, Stores
<1>7. order # Corrupt  BY RoundTripAssumption DEF WriterInv, Typed
<1>8. order # <<>>  BY <1>1, TableIsLong
<1>. QED  BY <1>1, <1>5, <1>6, <1>7, <1>8

LEMMA NamedContents ==
  ASSUME WriterInv, Counts, RoundInv, Begun, Names(header.says)
  PROVE  ContentsReadBack
<1>1. /\ Reader!BlobTable(Output) = order /\ order \in Sorted(Entries)
      /\ Reader!ReadResource(Output, xmlRes) = Xml /\ Typed
  BY NamedIsRead
<1>2. /\ Output.header = header.says /\ header.says.codec = opts.codec
      /\ header.says.count = Len(images) /\ header.says.xml = xmlRes
  BY DEF Output, Names
<1>3. Xml.total = xmlRes.offset /\ \A i \in DOMAIN images : Xml.names[i] = images[i].info.name
  BY <1>1, XmlIsData
<1>4. \A i \in DOMAIN images : Reader!ImageRes(order, i) = images[i].res
  BY <1>1, ImagesAreLive DEF RoundInv
<1>5. /\ DOMAIN images = 1 .. Len(images) /\ \A i \in DOMAIN images : images[i] \in Image
  <2>1. images \in Seq(Image)  BY <1>1 DEF Typed, WriterTypeInv, Image
  <2>. QED  BY <2>1
<1>6. ASSUME NEW i \in DOMAIN images
      PROVE  Reader!ImageInfos(Output)[i].name = images[i].info.name
  <2>1. i \in 1 .. Output.header.count  BY <1>2, <1>5
  <2>2. Reader!ImageInfos(Output)[i]
          = [name |-> Xml.names[i], boot |-> Output.header.bootIndex = i]
    BY <1>1, <1>2, <2>1 DEF Reader!ImageInfos
  <2>. QED  BY <1>3, <2>2
<1>7. ASSUME NEW i \in DOMAIN images PROVE Reader!ImageTree(Output, i) = images[i].meta
  <2>1. Sound(images[i].res) /\ Describes(images[i].res, images[i].meta)
    BY DEF RoundInv, ImagesInOrder, WriterInv, ResourcesOnDisk
  <2>2. Reader!ReadResource(Output, images[i].res) = images[i].meta
    BY <1>2, <2>1, DescribedIsRead DEF RoundInv
  <2>. QED  BY <1>1, <1>4, <2>2 DEF Reader!ImageTree
<1>8. ASSUME NEW i \in DOMAIN images, NEW n \in Elems(images[i].meta.nodes),
             n.hash # ZeroHash
      PROVE  Reader!StreamData(Output, n.hash) = n.hash
  <2>1. PICK k \in DOMAIN images[i].meta.nodes : n = images[i].meta.nodes[k]  BY DEF Elems
  <2>2. <<i, k>> \in Uses(n.hash)  BY <2>1 DEF Uses
  <2>3. n.hash \in Content
    <3>1. images[i].meta.nodes \in Seq(Node)  BY <1>5 DEF Image, MetaType
    <3>2. n \in Node  BY <2>1, <3>1
    <3>. QED  BY <1>8, <3>2 DEF Node, Digest
  <2>4. PICK b \in DOMAIN blobs : blobs[b].hash = n.hash  BY <2>2, <2>3 DEF Counts, Known
  <2>5. Reader!ByHash(order, n.hash) = blobs[b].res
    <3>1. Reader!ByHash(order, blobs[b].hash) = blobs[b].res
      BY <1>1, StreamsAreFound DEF RoundInv
    <3>. QED  BY <2>4, <3>1
  <2>6. Sound(blobs[b].res) /\ Describes(blobs[b].res, blobs[b].hash)
    BY DEF RoundInv, ImagesInOrder, WriterInv, ResourcesOnDisk
  <2>7. Reader!ReadResource(Output, blobs[b].res) = blobs[b].hash
    BY <1>2, <2>6, DescribedIsRead DEF RoundInv
  <2>8. blobs[b].res # Corrupt
    <3>1. blobs \in Seq(BlobEntry)  BY <1>1 DEF Typed, WriterTypeInv, BlobEntry
    <3>2. blobs[b] \in BlobEntry  BY <3>1
    <3>. QED  BY <3>2, RoundTripAssumption DEF BlobEntry
  <2>. QED  BY <1>1, <2>4, <2>5, <2>7, <2>8 DEF Reader!StreamData
<1>. QED  BY <1>1, <1>2, <1>3, <1>6, <1>7, <1>8 DEF ContentsReadBack

(* What is sealed opens, and every image has its mark.                     *)
LEMMA SealedReadsBack == WriterInv /\ Counts /\ RoundInv => SealedFileReadsBack
<1>. SUFFICES ASSUME WriterInv, Counts, RoundInv, Sealed PROVE SealedFileReadsBack
  BY DEF SealedFileReadsBack
<1>1. header.says = Header  BY DEF RoundInv, SealingFollows
<1>2. /\ header.says.lead /\ header.says.bootIndex = BootIndex
      /\ header.says.bootMeta = BootMeta /\ Names(header.says)
  BY <1>1 DEF Header, Says, Names
<1>3. /\ Reader!BlobTable(Output) = order /\ order \in Sorted(Entries)
      /\ Reader!ReadResource(Output, xmlRes) = Xml
      /\ order \notin {Corrupt, <<>>} /\ Typed
  BY <1>2, NamedIsRead DEF Begun
<1>4. /\ Output.header = header.says /\ header.says.count = Len(images)
      /\ header.says.xml = xmlRes
  BY <1>2 DEF Output, Names
<1>5. /\ BootIndex \in 0 .. Len(images) /\ (BootIndex = 0 <=> ~BootTaken)
      /\ \A i \in DOMAIN images : images[i].info.boot <=> BootIndex = i
  BY <1>3, BootIndexIs DEF RoundInv
<1>6. /\ Xml # Corrupt /\ Len(Xml.names) = Len(images)
      /\ \A i \in DOMAIN images : Xml.names[i] = images[i].info.name
  BY <1>3, XmlIsData
<1>7. /\ Reader!Cardinality(Reader!LiveMetas(order)) = Len(images)
      /\ \A i \in DOMAIN images : Reader!ImageRes(order, i) = images[i].res
  BY <1>3, ImagesAreLive, SameCardinality DEF RoundInv
<1>8. /\ Len(images) \in Nat /\ DOMAIN images = 1 .. Len(images)
      /\ images \in Seq(Image) /\ \A i \in DOMAIN images : images[i] \in Image
  <2>1. images \in Seq(Image)  BY <1>3 DEF Typed, WriterTypeInv, Image
  <2>. QED  BY <2>1
<1>9. xmlRes.size # 0
  BY <1>2 DEF RoundInv, SealingFollows, Begun
<1>10. Reader!Opens(Output)
  BY <1>2, <1>3, <1>4, <1>5, <1>6, <1>7, <1>8, <1>9 DEF Reader!Opens
<1>11. Reader!ImageInfos(Output) = [i \in DOMAIN images |-> images[i].info]
  <2>1. Reader!ImageInfos(Output)
          = [i \in DOMAIN images |-> [name |-> Xml.names[i], boot |-> BootIndex = i]]
    BY <1>2, <1>3, <1>4, <1>8 DEF Reader!ImageInfos
  <2>2. ASSUME NEW i \in DOMAIN images
        PROVE [name |-> Xml.names[i], boot |-> BootIndex = i] = images[i].info
    <3>1. images[i].info \in [name: STRING, boot: BOOLEAN]
      BY <1>8, WriterAssumption DEF Image
    <3>2. PICK b \in BOOLEAN : b = (BootIndex = i)  OBVIOUS
    <3>3. b = images[i].info.boot  BY <1>5, <3>1, <3>2
    <3>4. [name |-> images[i].info.name, boot |-> b] = images[i].info  BY <3>1, <3>3
    <3>. QED  BY <1>6, <3>2, <3>4
  <2>. QED  BY <2>1, <2>2, Zenon
<1>12. Reader!BootImage(Output) = BootChoice
  <2>1. CASE BootTaken
    <3>1. BootIndex # 0 /\ BootIndex \in DOMAIN images  BY <1>5, <1>8, <2>1
    <3>2. header.says.bootMeta.offset = Reader!ImageRes(order, BootIndex).offset
      BY <1>2, <1>7, <2>1, <3>1 DEF BootMeta
    <3>3. Reader!NamedTwice(Output, BootIndex)
      BY <1>3, <1>4, <3>2 DEF Reader!NamedTwice
    <3>. QED  BY <1>2, <1>4, <2>1, <3>1, <3>3 DEF Reader!BootImage, BootChoice
  <2>2. CASE ~BootTaken
    BY <1>2, <1>3, <1>4, <1>5, <1>7, <2>2 DEF Reader!BootImage, BootChoice
  <2>. QED  BY <2>1, <2>2
<1>13. ContentsReadBack  BY <1>2, NamedContents DEF Begun
<1>. QED  BY <1>10, <1>11, <1>12, <1>13 DEF SealedFileReadsBack

(* What opens, whatever part of its header is there, has all its contents; *)
(* and a boot index cut to that of another image does not pass, because    *)
(* the header's copy of the metadata lies before it and is whole.          *)
LEMMA OpenReadsBack ==
  ASSUME WriterInv, Counts, RoundInv, Reader!Opens(Output)
  PROVE  /\ ContentsReadBack /\ Begun
         /\ Reader!BootImage(Output) \in {BootChoice, Corrupt}
         /\ Len(images) = 1 => Reader!BootImage(Output) = 1
<1>1. Output.header = header.says  BY DEF Output
<1>2. /\ Begun /\ header.says.xml.size # 0
      /\ Reader!ReadResource(Output, header.says.xml) # Corrupt
      /\ header.says.bootIndex \in 0 .. header.says.count
  BY <1>1 DEF Reader!Opens, Begun
<1>3. ~header.says.xml.compressed => header.says.xml.size = header.says.xml.uncompressed
  BY <1>1, <1>2 DEF Reader!ReadResource, Reader!Plausible
<1>4. Names(header.says) /\ Marks(header.says)
  <2>1. header.says \in HeaderParts /\ Stores(xmlRes, Xml)
    BY <1>2 DEF RoundInv, SealingFollows
  <2>2. {tableRes, xmlRes} \subseteq ResType  BY DEF WriterInv, Typed, WriterTypeInv
  <2>. QED  BY <1>2, <1>3, <2>1, <2>2, OpenedNames DEF Begun, Stores
<1>5. Reader!BlobTable(Output) = order /\ order \in Sorted(Entries) /\ Typed
  BY <1>2, <1>4, NamedIsRead
<1>6. /\ Reader!Cardinality(Reader!LiveMetas(order)) = Len(images)
      /\ \A i \in DOMAIN images : Reader!ImageRes(order, i) = images[i].res
  BY <1>5, ImagesAreLive, SameCardinality DEF RoundInv
<1>7. /\ BootIndex \in 0 .. Len(images) /\ (BootIndex = 0 <=> ~BootTaken)
  BY <1>5, BootIndexIs DEF RoundInv
<1>8. Len(images) \in Nat /\ DOMAIN images = 1 .. Len(images)  BY <1>5, EntriesAre
<1>9. PICK i \in 0 .. Len(images) : i = header.says.bootIndex
  BY <1>2, <1>4 DEF Names
<1>10. Reader!BootImage(Output) \in {BootChoice, Corrupt}
       /\ (Len(images) = 1 => Reader!BootImage(Output) = 1)
  <2>1. CASE i = 0
    <3>1. Reader!BootImage(Output) = IF Len(images) = 1 THEN 1 ELSE Corrupt
      BY <1>1, <1>5, <1>6, <1>9, <2>1 DEF Reader!BootImage
    <3>2. Len(images) = 1 => BootChoice = 1  BY <1>7 DEF BootChoice
    <3>. QED  BY <3>1, <3>2
  <2>2. CASE i # 0
    <3>1. /\ BootTaken /\ header.says.bootMeta = images[BootIndex].res
          /\ i \in DOMAIN images /\ BootIndex \in DOMAIN images
      BY <1>4, <1>7, <1>8, <1>9, <2>2 DEF Marks
    <3>2. Reader!BootImage(Output) = IF Reader!NamedTwice(Output, i) THEN i ELSE Corrupt
      BY <1>1, <1>9, <2>2 DEF Reader!BootImage
    <3>3. Reader!NamedTwice(Output, i) <=> i = BootIndex
      <4>1. PICK x \in Nat, y \in Nat :
              x = images[i].res.offset /\ y = images[BootIndex].res.offset
        <5>1. images \in Seq(Image)  BY <1>5 DEF Typed, WriterTypeInv, Image
        <5>2. images[i] \in Image /\ images[BootIndex] \in Image  BY <3>1, <5>1
        <5>. QED  BY <5>2 DEF Image, ResType
      <4>2. y # 0  BY <3>1, <4>1 DEF RoundInv, ImagesInOrder
      <4>3. x = y <=> i = BootIndex
        <5>1. i < BootIndex \/ BootIndex < i \/ i = BootIndex  BY <1>7, <1>8, <3>1
        <5>2. /\ i < BootIndex => x < y
              /\ BootIndex < i => y < x
          BY <3>1, <4>1 DEF RoundInv, ImagesInOrder
        <5>. QED  BY <4>1, <5>1, <5>2
      <4>4. Reader!NamedTwice(Output, i) <=> y \in {0, x}
        BY <1>1, <1>5, <1>6, <3>1, <4>1 DEF Reader!NamedTwice
      <4>. QED  BY <4>2, <4>3, <4>4
    <3>. QED  BY <1>7, <1>8, <3>1, <3>2, <3>3 DEF BootChoice
  <2>. QED  BY <2>1, <2>2
<1>. QED  BY <1>2, <1>4, <1>10, NamedContents

LEMMA ReadsBack == WriterInv /\ Counts /\ RoundInv => FileReadsBack
BY SealedReadsBack, OpenReadsBack DEF FileReadsBack, WhatOpensReadsBack
-----------------------------------------------------------------------------
(* The invariant holds at first and is kept.                               *)

LEMMA FreshIsApart ==
  ASSUME images = <<>>, blobs = <<>>, extents = {}, step = "idle", started = FALSE,
         header = [kind |-> "none", says |-> Zeros]
  PROVE  RoundInv /\ Counts
<1>1. RunsApart  BY DEF RunsApart
<1>2. ImagesInOrder  BY DEF ImagesInOrder
<1>3. BootOnce  BY DEF BootOnce, Adding
<1>4. SealingFollows  BY DEF SealingFollows, Sealing, Sealed, Begun, Zeros
<1>5. \A h \in Content : Uses(h) = {} /\ ~Counted(h)  BY DEF Uses, Counted
<1>6. Counts
  <2>1. \A h \in Content : IsFiniteSet(Uses(h)) /\ (Uses(h) # {} \/ Counted(h) => Known(h))
    BY <1>5, FS_EmptySet
  <2>2. DOMAIN blobs = {} /\ step \notin Adding  BY DEF Adding
  <2>. QED  BY <2>1, <2>2 DEF Counts, Adding
<1>. QED  BY <1>1, <1>2, <1>3, <1>4, <1>6 DEF RoundInv

(* What does not touch the images or the destination.                      *)
filedVars == <<opts, started, err, pos, blobs, images, tableRes, xmlRes, at, header, extents>>

(* What Close writes depends on these alone.                               *)
LEMMA SaysTheSame ==
  ASSUME UNCHANGED <<opts, images, tableRes, xmlRes>>
  PROVE  Header' = Header /\ HeaderParts' = HeaderParts
<1>1. BootTaken' = BootTaken  BY DEF BootTaken
<1>2. BootIndex' = BootIndex  BY <1>1 DEF BootIndex
<1>3. BootMeta' = BootMeta  BY <1>1, <1>2 DEF BootMeta
<1>4. Header' = Header  BY <1>2, <1>3 DEF Header, Says
<1>5. HeaderParts' = HeaderParts
  <2>1. ResParts(BootMeta)' = ResParts(BootMeta)  BY <1>3 DEF ResParts, LowParts
  <2>2. LowParts(BootIndex)' = LowParts(BootIndex)  BY <1>2 DEF LowParts
  <2>. QED  BY <1>2, <1>3, <2>1, <2>2 DEF HeaderParts, Says
<1>. QED  BY <1>4, <1>5

LEMMA RoundKept ==
  ASSUME RoundInv, UNCHANGED filedVars,
         step' \in Adding /\ adding'.boot => ~BootTaken,
         step' \in Sealing => order' \in Sorted(Entries),
         step' \in {"xml", "seal"} => UNCHANGED <<step, order>>,
         Begun => UNCHANGED <<step, order, closed>>
  PROVE  RoundInv'
<1>1. UNCHANGED <<opts, started, err, pos, blobs, images, tableRes, xmlRes, at, header, extents>>
  BY DEF filedVars
<1>2. RunsApart'  BY <1>1 DEF RoundInv, RunsApart
<1>3. ImagesInOrder'  BY <1>1 DEF RoundInv, ImagesInOrder, Sound
<1>4. BootOnce'  BY <1>1 DEF RoundInv, BootOnce, BootTaken
<1>5. /\ Entries' = Entries /\ Xml' = Xml /\ (Sealed' <=> Sealed) /\ (Begun' <=> Begun)
      /\ Header' = Header /\ HeaderParts' = HeaderParts
      /\ \A es : Sorted(es)' = Sorted(es)
      /\ \A res, data : Stores(res, data)' <=> Stores(res, data)
  <2>1. Header' = Header /\ HeaderParts' = HeaderParts  BY <1>1, SaysTheSame
  <2>2. /\ Entries' = Entries /\ Xml' = Xml /\ (Sealed' <=> Sealed) /\ (Begun' <=> Begun)
        /\ \A es : Sorted(es)' = Sorted(es)
        /\ \A res, data : Stores(res, data)' <=> Stores(res, data)
    BY <1>1 DEF Entries, Xml, Sealed, Begun, Sorted, Stores, Describes
  <2>. QED  BY <2>1, <2>2
<1>6. SealingFollows'
  BY <1>1, <1>5 DEF RoundInv, SealingFollows, Sealing
<1>. QED  BY <1>2, <1>3, <1>4, <1>6 DEF RoundInv

LEMMA CallRound ==
  ASSUME WriterInv, RoundInv,
         \/ Outside \/ Capturing \/ Called \/ CaptureFailed \/ UNCHANGED vars
  PROVE  RoundInv'
<1>1. UNCHANGED filedVars
  <2>1. CASE Outside \/ Capturing \/ UNCHANGED vars
    BY <2>1 DEF Outside, Capturing, vars, writerVars, stateVars, callVars, dstVars, filedVars
  <2>2. CASE Called \/ CaptureFailed
    BY <2>2
    DEF Called, AddImage, RefuseImage, Close, RefuseClose, CaptureFailed, stateVars, dstVars, filedVars
  <2>. QED  BY <2>1, <2>2
<1>2. CASE Outside \/ UNCHANGED vars
  <2>1. UNCHANGED <<step, adding, order, closed>>
    BY <1>2
    DEF Outside, Environment, Edit, Cancel, vars, captureVars, writerVars, stateVars, callVars
  <2>. QED  BY <1>1, <2>1, RoundKept DEF RoundInv, BootOnce, SealingFollows
<1>3. CASE Capturing
  <2>1. /\ step \in {"walk", "hash"} /\ step' \in {"walk", "hash", "captured", "failed"}
        /\ UNCHANGED <<adding, order, closed>>
    BY <1>3
    DEF Capturing, Walk, Stat, HashFile, WalkFails, WalkEnds, writerVars, stateVars, callVars
  <2>2. ~Begun  BY <2>1 DEF RoundInv, SealingFollows
  <2>. QED  BY <1>1, <2>1, <2>2, RoundKept DEF RoundInv, BootOnce, Adding, Sealing
<1>4. CASE Called
  <2>1. CASE \E info \in Infos : AddImage(info)
    <3>1. PICK info \in Infos : AddImage(info)  BY <2>1
    <3>2. /\ step = "idle" /\ step' = "walk" /\ adding' = info /\ ~(info.boot /\ BootTaken)
          /\ ~closed
      BY <3>1 DEF AddImage, Accepts, BeginCapture
    <3>3. ~Begun  BY <3>2 DEF RoundInv, SealingFollows
    <3>. QED  BY <1>1, <3>2, <3>3, RoundKept DEF Sealing
  <2>2. CASE (\E info \in Infos : RefuseImage(info)) \/ RefuseClose
    <3>1. step = "idle" /\ UNCHANGED <<step, order, closed>>
      BY <2>2 DEF RefuseImage, RefuseClose, captureVars, stateVars
    <3>. QED  BY <1>1, <3>1, RoundKept DEF Adding, Sealing
  <2>3. CASE Close
    <3>1. /\ step' = "table" /\ ~closed /\ order' \in Sorted(Entries)  BY <2>3 DEF Close
    <3>2. ~Begun  BY <3>1 DEF RoundInv, SealingFollows
    <3>. QED  BY <1>1, <3>1, <3>2, RoundKept DEF Adding
  <2>. QED  BY <1>4, <2>1, <2>2, <2>3 DEF Called
<1>5. CASE CaptureFailed
  <2>1. step = "failed" /\ step' = "idle"  BY <1>5 DEF CaptureFailed
  <2>2. ~Begun  BY <2>1 DEF RoundInv, SealingFollows
  <2>. QED  BY <1>1, <2>1, <2>2, RoundKept DEF Adding, Sealing
<1>. QED  BY <1>2, <1>3, <1>4, <1>5

(* A run that stopped half-way holds nothing that a header describes.      *)
LEMMA FailRound ==
  ASSUME WriterInv, RoundInv, step # "idle", Fail, UNCHANGED started,
         \/ UNCHANGED <<pos, dstVars>>
         \/ \E n \in Nat : Torn(n)
         \/ /\ header'.kind = "torn" /\ UNCHANGED <<pos, extents>>
            /\ header'.says = Zeros \/ (step = "seal" /\ header'.says \in HeaderParts)
  PROVE  RoundInv'
<1>1. /\ step' = "idle" /\ err' /\ UNCHANGED <<opts, closed, blobs, images, order, tableRes, xmlRes>>
      /\ ~Begun /\ ~Sealed
  BY DEF Fail, Failure, RoundInv, SealingFollows, Sealed, Header, Says, Begun
<1>2. pos \in Nat /\ at \in Nat  BY DEF WriterInv, Typed, WriterTypeInv
<1>3. RunsApart' /\ pos' \in Nat /\ pos <= pos' /\ header'.kind # "sealed"
  <2>1. CASE UNCHANGED <<pos, dstVars>>
    <3>1. UNCHANGED <<at, header, extents>>  BY <2>1 DEF dstVars
    <3>. QED  BY <1>1, <1>2, <2>1, <3>1 DEF RunsApart, RoundInv, Sealed
  <2>2. CASE \E n \in Nat : Torn(n)
    <3>1. PICK n \in Nat : Torn(n)  BY <2>2
    <3>2. PICK x : x = [off |-> at, len |-> n, body |-> NoBody, whole |-> FALSE]  OBVIOUS
    <3>3. /\ extents' = extents \union {x} /\ at' = at + n /\ pos' = pos + n
          /\ UNCHANGED header
      BY <3>1, <3>2 DEF Torn
    <3>4. x.off = at /\ x.len = n /\ ~x.whole  BY <3>2
    <3>5. RunsApart'
      BY <1>1, <1>2, <3>3, <3>4 DEF RunsApart, RoundInv
    <3>. QED  BY <1>1, <1>2, <3>3, <3>5 DEF Sealed
  <2>3. CASE header'.kind = "torn" /\ UNCHANGED <<pos, extents>>
    BY <1>1, <1>2, <2>3 DEF RunsApart, RoundInv
  <2>. QED  BY <2>1, <2>2, <2>3
<1>4. ImagesInOrder'
  <2>1. \A i \in DOMAIN images : images[i].res.offset \in Nat
    <3>1. images \in Seq(Image)  BY DEF WriterInv, Typed, WriterTypeInv, Image
    <3>2. \A i \in DOMAIN images : images[i] \in Image  BY <3>1
    <3>. QED  BY <3>2 DEF Image, ResType
  <2>. QED  BY <1>1, <1>2, <1>3, <2>1 DEF RoundInv, ImagesInOrder, Sound
<1>5. BootOnce'  BY <1>1 DEF RoundInv, BootOnce, Adding
<1>6. SealingFollows'
  <2>1. CASE UNCHANGED header \/ header'.says = Zeros
    <3>1. ~Begun' /\ ~Sealed'  BY <1>1, <1>3, <2>1 DEF Begun, Sealed, Zeros
    <3>. QED  BY <1>1, <3>1 DEF SealingFollows, Sealing
  <2>2. CASE /\ step = "seal" /\ UNCHANGED <<pos, extents>>
             /\ header'.kind = "torn" /\ header'.says \in HeaderParts
    <3>1. /\ Entries' = Entries /\ Xml' = Xml /\ HeaderParts' = HeaderParts
          /\ \A es : Sorted(es)' = Sorted(es)
          /\ \A res, data : Stores(res, data)' <=> Stores(res, data)
      <4>1. UNCHANGED <<opts, blobs, images, tableRes, xmlRes, extents>>  BY <1>1, <2>2
      <4>2. Entries' = Entries /\ Xml' = Xml  BY <4>1 DEF Entries, Xml
      <4>3. HeaderParts' = HeaderParts
        BY <4>1, SaysTheSame
      <4>4. \A res, data : Stores(res, data)' <=> Stores(res, data)
        BY <4>1 DEF Stores, Describes
      <4>. QED  BY <4>2, <4>3, <4>4 DEF Sorted
    <3>2. closed /\ images # <<>>  BY <2>2 DEF WriterInv, Phases, Sealing
    <3>3. /\ order \in Sorted(Entries) /\ Stores(tableRes, order)
          /\ Stores(xmlRes, Xml) /\ xmlRes.size # 0
      BY <2>2 DEF RoundInv, SealingFollows, Sealing
    <3>4. order' \in Sorted(Entries)'  BY <1>1, <3>1, <3>3
    <3>5. Stores(tableRes, order)' /\ Stores(xmlRes, Xml)'
      BY <1>1, <2>2, <3>1, <3>3 DEF Stores, Describes
    <3>6. step' = "idle" /\ xmlRes'.size # 0 /\ closed' /\ images' # <<>>
      BY <1>1, <3>2, <3>3
    <3>7. ~Sealed'  BY <2>2 DEF Sealed
    <3>8. header'.says \in HeaderParts'  BY <2>2, <3>1
    <3>. QED  BY <3>4, <3>5, <3>6, <3>7, <3>8 DEF SealingFollows
  <2>. QED  BY <2>1, <2>2 DEF Torn, dstVars
<1>. QED  BY <1>3, <1>4, <1>5, <1>6 DEF RoundInv

LEMMA FailuresRound ==
  ASSUME WriterInv, RoundInv, StartFails \/ BlobFails \/ MetadataFails \/ CloseFails \/ SealFails
  PROVE  RoundInv'
<1>1. Fail /\ step # "idle" /\ UNCHANGED started
  BY DEF StartFails, BlobFails, MetadataFails, CloseFails, SealFails
<1>2. CASE StartFails \/ SealFails
  <2>1. /\ UNCHANGED <<pos, extents>>
        /\ \/ UNCHANGED dstVars
           \/ /\ header'.kind = "torn"
              /\ header'.says = Zeros \/ (step = "seal" /\ header'.says \in HeaderParts)
    BY <1>2 DEF StartFails, SealFails, dstVars
  <2>. QED  BY <1>1, <2>1, FailRound
<1>3. CASE BlobFails
  <2>1. CASE UNCHANGED <<pos, dstVars>>  BY <1>1, <2>1, FailRound
  <2>2. ASSUME disk[found[turn].path] # Gone,
               NEW n \in 0 .. StoredLen(Size[disk[found[turn].path]],
                                        PackedSize[disk[found[turn].path]], FALSE),
               Torn(n)
        PROVE RoundInv'
    <3>1. turn <= Len(found)  BY <1>3 DEF BlobFails
    <3>2. disk[found[turn].path] \in Content  BY <2>2, <3>1, BlobAtTurn
    <3>3. n \in Nat  BY <2>2, <3>2, ContentLens
    <3>. QED  BY <1>1, <2>2, <3>3, FailRound
  <2>. QED  BY <1>3, <2>1, <2>2 DEF BlobFails
<1>4. CASE MetadataFails \/ CloseFails
  <2>1. PICK n \in Nat : Torn(n)  BY <1>4, TornLens
  <2>. QED  BY <1>1, <2>1, FailRound
<1>. QED  BY <1>2, <1>3, <1>4

-----------------------------------------------------------------------------
(* Writing.                                                                *)

LEMMA StartRound == ASSUME WriterInv, RoundInv, Start PROVE RoundInv'
<1>1. /\ step = "captured" /\ step' = "blob" /\ ~err
      /\ UNCHANGED <<opts, closed, err, blobs, images, adding, extents>>
  BY DEF Start, stateVars, callVars, dstVars, WriterInv, Phases
<1>2. \/ started /\ UNCHANGED <<started, pos, at, header>>
      \/ /\ ~started /\ started' = TRUE /\ pos' = HeaderSize /\ at' = HeaderSize
         /\ header' = [kind |-> "reserved", says |-> Zeros]
  BY DEF Start, HeaderEnd, stateVars, dstVars
<1>3. RunsApart'  BY <1>1, <1>2 DEF RoundInv, RunsApart
<1>4. ~started => images = <<>>  BY DEF WriterInv, Phases
<1>5. ImagesInOrder'
  <2>1. HeaderSize > 0  BY WriterAssumption
  <2>2. started' => pos' > 0  BY <1>2, <2>1 DEF RoundInv, ImagesInOrder
  <2>3. UNCHANGED pos \/ images = <<>>  BY <1>2, <1>4
  <2>. QED  BY <1>1, <2>2, <2>3 DEF RoundInv, ImagesInOrder, Sound
<1>6. BootOnce'  BY <1>1 DEF RoundInv, BootOnce, BootTaken, Adding
<1>7. SealingFollows'
  <2>1. ~Begun /\ ~Sealed
    BY <1>1 DEF RoundInv, SealingFollows, Sealed, Begun, Header, Says
  <2>2. ~Begun' /\ ~Sealed'  BY <1>2, <2>1 DEF Begun, Sealed, Zeros
  <2>. QED  BY <1>1, <2>2 DEF SealingFollows, Sealing
<1>. QED  BY <1>3, <1>5, <1>6, <1>7 DEF RoundInv

LEMMA ReferRound == ASSUME WriterInv, RoundInv, ReferBlob PROVE RoundInv'
<1>1. /\ step = "blob" /\ step' = "blob"
      /\ UNCHANGED <<opts, started, err, pos, images, adding, at, header, extents>>
  BY DEF ReferBlob, captureVars, dstVars
<1>2. header.kind = "reserved" /\ ~Begun
  BY <1>1, WritingFacts DEF RoundInv, SealingFollows
<1>3. RunsApart'  BY <1>1 DEF RoundInv, RunsApart
<1>4. /\ DOMAIN blobs' = DOMAIN blobs
      /\ \A i \in DOMAIN blobs : blobs'[i].res = blobs[i].res
  BY ReferredEntries
<1>5. ImagesInOrder'  BY <1>1, <1>4 DEF RoundInv, ImagesInOrder, Sound
<1>6. BootOnce'  BY <1>1 DEF RoundInv, BootOnce, BootTaken, Adding
<1>7. SealingFollows'  BY <1>1, <1>2 DEF SealingFollows, Sealing, Sealed, Begun
<1>. QED  BY <1>3, <1>5, <1>6, <1>7 DEF RoundInv

(* A run that is written whole lies behind all others; where it does not,  *)
(* both are empty.                                                         *)
LEMMA WrittenApart ==
  ASSUME WriterInv, RoundInv, step = "blob" \/ step \in Sealing, UNCHANGED <<started, err>>,
         NEW body, NEW len \in Nat, Written(body, len),
         len = 0 => body.data \in Content /\ Size[body.data] = 0
  PROVE  RunsApart' /\ pos' = pos + len
<1>1. header.kind = "reserved" /\ at \in Nat /\ started  BY WritingFacts
<1>2. PICK x : x = [off |-> at, len |-> len, body |-> body, whole |-> TRUE]  OBVIOUS
<1>3. /\ extents' = extents \union {x} /\ at' = at + len /\ pos' = pos + len
      /\ UNCHANGED header
  BY <1>2 DEF Written
<1>4. x.off = at /\ x.len = len /\ x.body = body  BY <1>2
<1>5. RunsApart  BY DEF RoundInv
<1>6. ASSUME NEW y \in extents, y.whole, y.off = x.off, y.len = x.len
      PROVE y.body.data = x.body.data
  <2>1. y.off + y.len <= at /\ y.off \in Nat /\ y.len \in Nat  BY <1>1, <1>5 DEF RunsApart
  <2>2. len = 0  BY <1>1, <1>4, <1>6, <2>1
  <2>3. y.body.data \in Content /\ Size[y.body.data] = 0  BY <1>4, <1>5, <1>6, <2>2 DEF RunsApart
  <2>. QED  BY <1>4, <2>2, <2>3, RoundTripAssumption
<1>7. \A y \in extents' : y.off \in Nat /\ y.len \in Nat /\ y.off + y.len <= at'
  <2>1. \A y \in extents : y.off \in Nat /\ y.len \in Nat /\ y.off + y.len <= at
    BY <1>1, <1>5 DEF RunsApart
  <2>. QED  BY <1>1, <1>3, <1>4, <2>1
<1>8. \A y \in extents' : y.whole /\ y.len = 0 => y.body.data \in Content /\ Size[y.body.data] = 0
  BY <1>3, <1>4, <1>5 DEF RunsApart
<1>9. \A y, z \in extents' : y.whole /\ z.whole /\ y.off = z.off /\ y.len = z.len =>
        y.body.data = z.body.data
  <2>. SUFFICES ASSUME NEW y \in extents', NEW z \in extents',
                       y.whole, z.whole, y.off = z.off, y.len = z.len
                PROVE  y.body.data = z.body.data
    OBVIOUS
  <2>1. CASE y \in extents /\ z \in extents  BY <1>5, <2>1 DEF RunsApart
  <2>2. CASE y = x /\ z \in extents  BY <1>6, <2>2
  <2>3. CASE y \in extents /\ z = x  BY <1>6, <2>3
  <2>. QED  BY <1>3, <2>1, <2>2, <2>3
<1>. QED  BY <1>1, <1>3, <1>7, <1>8, <1>9 DEF RunsApart

(* A resource as writeResource records it.                                 *)
LEMMA ResourceIsSound ==
  ASSUME NEW u, NEW p, NEW m \in BOOLEAN, NEW res, res = Resource(u, p, m)
  PROVE  Sound(res) /\ res.metadata = m /\ res.offset = pos
<1>1. /\ res.offset = pos /\ res.size = StoredLen(u, p, m) /\ res.uncompressed = u
      /\ res.compressed = Packed(u, p, m) /\ res.metadata = m
  BY DEF Resource, Res
<1>. QED  BY <1>1 DEF Sound, StoredLen, Packed

LEMMA StoreRound == ASSUME WriterInv, RoundInv, StoreBlob PROVE RoundInv'
<1>1. /\ step = "blob" /\ step' = "blob" /\ turn <= Len(found)
      /\ UNCHANGED <<opts, started, err, images, adding>>
  BY DEF StoreBlob, captureVars
<1>2. PICK b : b = found[turn]  OBVIOUS
<1>3. PICK c \in Content : c = disk[b.path]
  <2>1. disk[found[turn].path] \in Content  BY <1>1, BlobAtTurn DEF StoreBlob
  <2>. QED  BY <1>2, <2>1
<1>4. PICK u \in Nat, p \in Nat : u = Size[c] /\ p = PackedSize[c] /\ p # 0
  BY <1>3, ContentLens, WriterAssumption
<1>5. PICK r : r = Resource(u, p, FALSE)  OBVIOUS
<1>6. /\ Written(Body(c, u, p, FALSE), StoredLen(u, p, FALSE))
      /\ blobs' = Append(blobs, [res |-> r, hash |-> b.hash, refs |-> b.refs])
  BY <1>2, <1>3, <1>4, <1>5 DEF StoreBlob, FirstReferences
<1>7. PICK e : e = [res |-> r, hash |-> b.hash, refs |-> b.refs] /\ e.res = r
  <2>1. PICK e : e = [res |-> r, hash |-> b.hash, refs |-> b.refs]  OBVIOUS
  <2>2. e.res = r  BY <2>1
  <2>. QED  BY <2>1, <2>2
<1>8. PICK len \in Nat : RunsApart' /\ pos' = pos + len
  <2>1. PICK len \in Nat : len = StoredLen(u, p, FALSE)  BY StoredLenIsNat
  <2>2. PICK body : body = Body(c, u, p, FALSE) /\ body.data = c
    <3>1. Body(c, u, p, FALSE).data = c  BY DEF Body
    <3>. QED  BY <3>1
  <2>3. len = 0 => Size[c] = 0  BY <1>4, <2>1 DEF StoredLen
  <2>4. Written(body, len)  BY <1>6, <2>1, <2>2
  <2>5. RunsApart' /\ pos' = pos + len  BY <1>1, <2>2, <2>3, <2>4, WrittenApart
  <2>. QED  BY <2>1, <2>5
<1>9. Sound(r) /\ ~r.metadata  BY <1>1, <1>5, ResourceIsSound
<1>10. \A i \in DOMAIN blobs' : blobs'[i] = e \/ (i \in DOMAIN blobs /\ blobs'[i] = blobs[i])
  <2>1. blobs \in Seq(BlobEntry)  BY DEF WriterInv, Typed, WriterTypeInv, BlobEntry
  <2>. QED  BY <1>6, <1>7, <2>1
<1>11. pos \in Nat /\ \A i \in DOMAIN images : images[i].res.offset \in Nat
  <2>1. images \in Seq(Image)  BY DEF WriterInv, Typed, WriterTypeInv, Image
  <2>2. \A i \in DOMAIN images : images[i] \in Image  BY <2>1
  <2>. QED  BY <2>2 DEF WriterInv, Typed, WriterTypeInv, Image, ResType
<1>12. ImagesInOrder'
  <2>1. \A i \in DOMAIN blobs' : ~blobs'[i].res.metadata /\ Sound(blobs'[i].res)
    <3>1. \A i \in DOMAIN blobs : ~blobs[i].res.metadata /\ Sound(blobs[i].res)
      BY DEF RoundInv, ImagesInOrder
    <3>. QED  BY <1>7, <1>9, <1>10, <3>1
  <2>2. /\ started' => pos' > 0
        /\ \A i \in DOMAIN images : images[i].res.offset < pos'
    <3>1. /\ started => pos > 0
          /\ \A i \in DOMAIN images : images[i].res.offset < pos
      BY DEF RoundInv, ImagesInOrder
    <3>2. pos' \in Nat /\ pos <= pos'  BY <1>8, <1>11
    <3>. QED  BY <1>1, <1>11, <3>1, <3>2
  <2>3. UNCHANGED <<opts, images>>  BY <1>1
  <2>. QED  BY <2>1, <2>2, <2>3 DEF RoundInv, ImagesInOrder, Sound
<1>13. BootOnce'  BY <1>1 DEF RoundInv, BootOnce, BootTaken, Adding
<1>14. SealingFollows'
  <2>1. UNCHANGED header /\ header.kind = "reserved" /\ ~Begun
    BY <1>1, <1>6, WritingFacts DEF Written, RoundInv, SealingFollows
  <2>. QED  BY <1>1, <2>1 DEF SealingFollows, Sealing, Sealed, Begun
<1>. QED  BY <1>8, <1>12, <1>13, <1>14 DEF RoundInv

(* An image comes behind those that are there.                             *)
LEMMA MetadataRound == ASSUME WriterInv, RoundInv, StoreMetadata PROVE RoundInv'
<1>1. /\ step = "blob" /\ step' = "idle" /\ UNCHANGED <<opts, started, err, blobs, adding>>
  BY DEF StoreMetadata
<1>2. PICK u \in Nat \ {0}, p \in Nat \ {0} : u = MetaSize /\ p = PackedMetaSize
  BY WriterAssumption
<1>3. PICK r : r = Resource(u, p, TRUE)  OBVIOUS
<1>4. PICK e : images' = Append(images, e) /\ e.info = adding /\ e.res = r
  <2>1. PICK e : e = [info |-> adding, res |-> r, meta |-> Metadata]  OBVIOUS
  <2>2. e.info = adding /\ e.res = r  BY <2>1
  <2>3. images' = Append(images, e)  BY <1>2, <1>3, <2>1 DEF StoreMetadata
  <2>. QED  BY <2>2, <2>3
<1>5. PICK len \in Nat \ {0} : RunsApart' /\ pos' = pos + len
  <2>1. PICK len \in Nat : len = StoredLen(u, p, TRUE)  BY StoredLenIsNat
  <2>2. len # 0  BY <2>1 DEF StoredLen
  <2>3. PICK body : body = Body(Metadata, u, p, TRUE)  OBVIOUS
  <2>4. Written(body, len)  BY <1>2, <2>1, <2>3 DEF StoreMetadata, MetaLen
  <2>. QED  BY <1>1, <2>2, <2>4, WrittenApart
<1>6. Sound(r) /\ r.metadata /\ r.offset = pos  BY <1>3, ResourceIsSound
<1>7. /\ images \in Seq(Image) /\ Len(images) \in Nat /\ DOMAIN images = 1 .. Len(images)
      /\ pos \in Nat /\ \A i \in DOMAIN images : images[i].res.offset \in Nat
  <2>1. images \in Seq(Image)  BY DEF WriterInv, Typed, WriterTypeInv, Image
  <2>2. \A i \in DOMAIN images : images[i] \in Image  BY <2>1
  <2>. QED  BY <2>1, <2>2 DEF WriterInv, Typed, WriterTypeInv, Image, ResType
<1>8. PICK m \in Nat : m = Len(images) + 1  BY <1>7
<1>9. /\ DOMAIN images' = DOMAIN images \union {m} /\ images'[m] = e
      /\ \A i \in DOMAIN images : images'[i] = images[i] /\ i < m
  BY <1>4, <1>7, <1>8
<1>10. ImagesInOrder'
  <2>1. /\ \A i \in DOMAIN blobs : ~blobs[i].res.metadata /\ Sound(blobs[i].res)
        /\ \A i \in DOMAIN images :
             /\ images[i].res.metadata /\ Sound(images[i].res)
             /\ 0 < images[i].res.offset /\ images[i].res.offset < pos
        /\ \A i, j \in DOMAIN images : i < j => images[i].res.offset < images[j].res.offset
    BY DEF RoundInv, ImagesInOrder
  <2>2. pos' \in Nat /\ 0 < pos /\ pos < pos'
    <3>1. started  BY <1>1, WritingFacts
    <3>. QED  BY <1>5, <1>7, <3>1 DEF RoundInv, ImagesInOrder
  <2>3. \A i \in DOMAIN images' :
          /\ images'[i].res.metadata /\ Sound(images'[i].res)
          /\ 0 < images'[i].res.offset /\ images'[i].res.offset < pos'
    BY <1>4, <1>6, <1>7, <1>9, <2>1, <2>2
  <2>4. \A i, j \in DOMAIN images' : i < j => images'[i].res.offset < images'[j].res.offset
    <3>. SUFFICES ASSUME NEW i \in DOMAIN images', NEW j \in DOMAIN images', i < j
                  PROVE  images'[i].res.offset < images'[j].res.offset
      OBVIOUS
    <3>1. i \in DOMAIN images  BY <1>7, <1>8, <1>9
    <3>. QED  BY <1>4, <1>6, <1>9, <2>1, <3>1
  <2>5. UNCHANGED <<opts, blobs>>  BY <1>1
  <2>. QED  BY <1>7, <2>1, <2>2, <2>3, <2>4, <2>5 DEF ImagesInOrder, Sound
<1>11. BootOnce'
  <2>1. adding.boot => \A i \in DOMAIN images : ~images[i].info.boot
    BY <1>1 DEF RoundInv, BootOnce, BootTaken, Adding
  <2>2. \A i, j \in DOMAIN images : images[i].info.boot /\ images[j].info.boot => i = j
    BY DEF RoundInv, BootOnce
  <2>3. \A i, j \in DOMAIN images' : images'[i].info.boot /\ images'[j].info.boot => i = j
    BY <1>4, <1>9, <2>1, <2>2
  <2>. QED  BY <1>1, <2>3 DEF BootOnce, Adding
<1>12. SealingFollows'
  <2>1. UNCHANGED header /\ header.kind = "reserved" /\ ~Begun
    BY <1>1, WritingFacts DEF StoreMetadata, Written, RoundInv, SealingFollows
  <2>. QED  BY <1>1, <2>1 DEF SealingFollows, Sealing, Sealed, Begun
<1>. QED  BY <1>5, <1>10, <1>11, <1>12 DEF RoundInv

(* What Close has written, it can read.                                    *)
LEMMA StoredByClose ==
  ASSUME WriterInv, RoundInv, step \in Sealing, NEW data, NEW len \in Nat \ {0},
         NEW body, body = [data |-> data, packed |-> FALSE], Written(body, len),
         NEW res, res = Res(pos, len, len, FALSE, FALSE), UNCHANGED <<started, err>>
  PROVE  /\ RunsApart' /\ pos' \in Nat /\ pos <= pos' /\ extents \subseteq extents'
         /\ Stores(res, data)' /\ res.offset = pos /\ res.size = len /\ UNCHANGED header
<1>1. pos = at /\ pos \in Nat  BY WritingFacts
<1>2. RunsApart' /\ pos' = pos + len  BY WrittenApart
<1>3. PICK x : x = [off |-> at, len |-> len, body |-> body, whole |-> TRUE]  OBVIOUS
<1>4. x \in extents' /\ extents \subseteq extents' /\ UNCHANGED header  BY <1>3 DEF Written
<1>5. /\ res.offset = pos /\ res.size = len /\ res.uncompressed = len /\ ~res.compressed
      /\ res.compressed = FALSE
  BY DEF Res
<1>6. x.whole /\ x.off = res.offset /\ x.len = res.size
      /\ x.body = [data |-> data, packed |-> res.compressed]
  BY <1>1, <1>3, <1>5
<1>7. Stores(res, data)'  BY <1>4, <1>5, <1>6 DEF Stores, Describes
<1>8. pos' \in Nat /\ pos <= pos'  BY <1>1, <1>2
<1>. QED  BY <1>2, <1>4, <1>5, <1>7, <1>8

LEMMA ClosingRound == ASSUME WriterInv, RoundInv, StoreTable \/ StoreXml PROVE RoundInv'
<1>1. /\ step \in Sealing /\ step' \in {"xml", "seal"}
      /\ UNCHANGED <<opts, started, closed, err, blobs, images, order>>
      /\ images # <<>> /\ order \in Sorted(Entries) /\ Typed
  BY DEF StoreTable, StoreXml, Sealing, WriterInv, Phases, RoundInv, SealingFollows
<1>. DEFINE Stored(data, len, res) ==
        /\ len \in Nat \ {0}
        /\ Written([data |-> data, packed |-> FALSE], len)
        /\ res = Res(pos, len, len, FALSE, FALSE)
        /\ \/ /\ step = "table" /\ step' = "xml" /\ data = order /\ tableRes' = res
           \/ /\ step = "xml" /\ step' = "seal" /\ xmlRes' = res /\ UNCHANGED tableRes
              /\ data = [names |-> [i \in DOMAIN images |-> images[i].info.name],
                         total |-> pos]
<1>2. PICK data, len, res : Stored(data, len, res)
  <2>1. CASE StoreTable
    <3>1. order # <<>> /\ order \in Seq(TableEntry)  BY <1>1, TableIsLong DEF Typed
    <3>2. Len(order) \in Nat \ {0}  BY <3>1
    <3>3. PICK len \in Nat \ {0} : len = TableLen  BY <3>2, WriterAssumption DEF TableLen
    <3>4. PICK res : res = Res(pos, len, len, FALSE, FALSE)  OBVIOUS
    <3>5. Stored(order, len, res)  BY <2>1, <3>3, <3>4 DEF StoreTable
    <3>. HIDE DEF Stored
    <3>. QED  BY <3>5
  <2>2. CASE StoreXml
    <3>1. PICK len \in Nat \ {0} : len = XmlSize  BY WriterAssumption
    <3>2. PICK res : res = Res(pos, len, len, FALSE, FALSE)  OBVIOUS
    <3>3. PICK data : data = [names |-> [i \in DOMAIN images |-> images[i].info.name],
                              total |-> pos]
      OBVIOUS
    <3>4. Stored(data, len, res)  BY <2>2, <3>1, <3>2, <3>3 DEF StoreXml
    <3>. HIDE DEF Stored
    <3>. QED  BY <3>4
  <2>. QED  BY <2>1, <2>2
<1>3. PICK body : body = [data |-> data, packed |-> FALSE]  OBVIOUS
<1>4. /\ RunsApart' /\ pos' \in Nat /\ pos <= pos' /\ extents \subseteq extents'
      /\ Stores(res, data)' /\ res.offset = pos /\ res.size # 0 /\ UNCHANGED header
  BY <1>1, <1>2, <1>3, StoredByClose
<1>5. ImagesInOrder'
  <2>1. pos \in Nat /\ \A i \in DOMAIN images : images[i].res.offset \in Nat
    <3>1. images \in Seq(Image)  BY <1>1 DEF Typed, WriterTypeInv, Image
    <3>2. \A i \in DOMAIN images : images[i] \in Image  BY <3>1
    <3>. QED  BY <1>1, <3>2 DEF Typed, WriterTypeInv, Image, ResType
  <2>. QED  BY <1>1, <1>4, <2>1 DEF RoundInv, ImagesInOrder, Sound
<1>6. BootOnce'  BY <1>1 DEF RoundInv, BootOnce, Adding
<1>7. ~Sealed' /\ ~Begun'
  BY <1>1, <1>4, WritingFacts DEF Sealed, Begun, Sealing, RoundInv, SealingFollows
<1>8. \A es : Sorted(es)' = Sorted(es)  BY DEF Sorted
<1>9. Entries' = Entries  BY <1>1 DEF Entries
<1>10. Stores(tableRes, order)'
  <2>1. CASE step = "table"  BY <1>1, <1>2, <1>4, <2>1 DEF Stores, Describes
  <2>2. CASE step = "xml"
    <3>1. Stores(tableRes, order)  BY <2>2 DEF RoundInv, SealingFollows
    <3>2. UNCHANGED tableRes  BY <1>2, <2>2
    <3>. QED  BY <1>1, <1>4, <3>1, <3>2 DEF Stores, Describes
  <2>. QED  BY <1>2, <2>1, <2>2
<1>11. step' = "seal" => Stores(xmlRes, Xml)' /\ xmlRes'.size # 0
  <2>. SUFFICES ASSUME step' = "seal" PROVE Stores(xmlRes, Xml)' /\ xmlRes'.size # 0
    OBVIOUS
  <2>1. xmlRes' = res /\ xmlRes'.offset = pos  BY <1>2, <1>4
  <2>2. data = Xml'  BY <1>1, <1>2, <2>1 DEF Xml
  <2>. QED  BY <1>4, <2>1, <2>2 DEF Stores, Describes
<1>12. SealingFollows'
  BY <1>1, <1>7, <1>8, <1>9, <1>10, <1>11 DEF SealingFollows
<1>. QED  BY <1>4, <1>5, <1>6, <1>12 DEF RoundInv

LEMMA SealRound == ASSUME WriterInv, RoundInv, Seal PROVE RoundInv'
<1>1. /\ step = "seal" /\ step' = "idle" /\ header' = [kind |-> "sealed", says |-> Header]
      /\ UNCHANGED <<opts, started, closed, err, pos, blobs, images, order, tableRes, xmlRes, extents>>
      /\ images # <<>> /\ closed
  BY DEF Seal, stateVars, WriterInv, Phases, Sealing
<1>2. /\ header'.kind = "sealed" /\ header'.says = Header /\ Header \in HeaderParts
      /\ Header' = Header /\ HeaderParts' = HeaderParts
  <2>1. BootIndex \in LowParts(BootIndex)
    <3>1. BootIndex \in 0 .. BootIndex
      BY BootIndexIs DEF WriterInv, RoundInv
    <3>. QED  BY <3>1 DEF LowParts
  <2>2. Header \in HeaderParts  BY <2>1 DEF Header, HeaderParts
  <2>3. Header' = Header /\ HeaderParts' = HeaderParts
    BY <1>1, SaysTheSame
  <2>. QED  BY <1>1, <2>2, <2>3
<1>3. RunsApart'  BY <1>1, <1>2 DEF RoundInv, RunsApart
<1>4. ImagesInOrder'  BY <1>1 DEF RoundInv, ImagesInOrder, Sound
<1>5. BootOnce'  BY <1>1 DEF RoundInv, BootOnce, Adding
<1>6. /\ Entries' = Entries /\ Xml' = Xml /\ \A es : Sorted(es)' = Sorted(es)
      /\ \A res, data : Stores(res, data)' <=> Stores(res, data)
  BY <1>1 DEF Entries, Xml, Sorted, Stores, Describes
<1>7. SealingFollows'
  BY <1>1, <1>2, <1>6 DEF RoundInv, SealingFollows, Sealing, Begun
<1>. QED  BY <1>3, <1>4, <1>5, <1>7 DEF RoundInv

LEMMA NextRound ==
  ASSUME WriterInv, RoundInv, [Next]_vars PROVE RoundInv'
<1>1. CASE Outside \/ Capturing \/ Called \/ CaptureFailed \/ UNCHANGED vars  BY <1>1, CallRound
<1>2. CASE StartFails \/ BlobFails \/ MetadataFails \/ CloseFails \/ SealFails
  BY <1>2, FailuresRound
<1>3. CASE Start \/ ReferBlob \/ StoreBlob \/ StoreMetadata
  BY <1>3, StartRound, ReferRound, StoreRound, MetadataRound
<1>4. CASE StoreTable \/ StoreXml \/ Seal  BY <1>4, ClosingRound, SealRound
<1>. QED  BY <1>1, <1>2, <1>3, <1>4 DEF Next, Working, Storing, Closing

Filed == WriterInv /\ Counts /\ RoundInv

LEMMA FiledKept == ASSUME Filed, [Next]_vars PROVE Filed'
BY NextWrites, NextCounts, NextRound DEF Filed

-----------------------------------------------------------------------------
(* What the Writer sealed opens, and a file that opens reads back as what  *)
(* was captured (README: the reader round-trips this package's own         *)
(* captures): after any sequence of calls, edits and failures, for every   *)
(* tree and every destination, and with any part of the header missing     *)
(* that a reader can do without.                                           *)
THEOREM FilesReadBack == Spec => []FileReadsBack
<1>1. WriterInit => Filed
  <2>. SUFFICES ASSUME WriterInit PROVE Filed  OBVIOUS
  <2>1. /\ images = <<>> /\ blobs = <<>> /\ extents = {} /\ step = "idle"
        /\ started = FALSE /\ header = [kind |-> "none", says |-> Zeros]
    BY DEF WriterInit, CaptureInit
  <2>. QED  BY <2>1, FreshIsApart, InitWrites DEF Filed
<1>2. Filed /\ [Next]_vars => Filed'  BY FiledKept
<1>3. Filed => FileReadsBack  BY ReadsBack DEF Filed
<1>. QED  BY <1>1, <1>2, <1>3, PTL DEF Spec

-----------------------------------------------------------------------------
(* CaptureDir with its output inside the captured directory: from          *)
(* os.Create until the call is over the file's entry holds nothing, so the *)
(* walk finds no content at it and never hashes it.                        *)

(* What these nodes say of the output file.                                *)
SaysEmpty(ns) ==
  \A i \in DOMAIN ns : ns[i].entry = OutEntry => ns[i].size = 0 /\ ns[i].hash = ZeroHash

SelfInv ==
  /\ CaptureInv
  /\ \E S : images \in Seq(S)
  /\ phase \notin {"create", "over"} /\ OutEntry # 0 => disk[OutEntry] = Empty
  /\ step = "hash" => nodes[Len(nodes)].entry = cursor /\ cursor # OutEntry
  /\ phase = "create" => step = "idle"
  /\ \A i \in DOMAIN found : found[i].path # OutEntry
  /\ SaysEmpty(nodes)
  /\ \A i \in DOMAIN images : SaysEmpty(images[i].meta.nodes)

LEMMA InitSelf == Init => SelfInv
<1>. SUFFICES ASSUME Init PROVE SelfInv  OBVIOUS
<1>1. CaptureInv  BY CaptureInitInv DEF Init, WriterInit
<1>2. images = <<>> /\ step = "idle" /\ found = <<>> /\ nodes = <<>> /\ phase = "create"
  BY DEF Init, WriterInit, CaptureInit
<1>3. images \in Seq({})  BY <1>2
<1>. QED  BY <1>1, <1>2, <1>3 DEF SelfInv, SaysEmpty

-----------------------------------------------------------------------------
(* What keeps the walk and the images as they are.                         *)

LEMMA SelfKept ==
  ASSUME SelfInv, CaptureInv', UNCHANGED <<cursor, nodes, found, images>>,
         step' = "hash" => step = "hash",
         phase' = "create" => step' = "idle",
         phase' \notin {"create", "over"} =>
           phase \notin {"create", "over"} /\ (OutEntry # 0 => disk'[OutEntry] = disk[OutEntry])
  PROVE  SelfInv'
<1>1. UNCHANGED <<nodes, images>> /\ (\E S : images' \in Seq(S))  BY DEF SelfInv
<1>. QED  BY <1>1 DEF SelfInv, SaysEmpty

LEMMA CreateSelf == ASSUME SelfInv, Create PROVE SelfInv'
<1>1. /\ phase = "create" /\ phase' = "capture" /\ step = "idle"
      /\ disk' = [f \in File |-> IF f = OutEntry THEN Empty ELSE disk[f]]
      /\ UNCHANGED <<edits, cancelled, policy, step, cursor, listed, nodes, security, found, images>>
  BY DEF Create, SelfInv, walkVars, stateVars
<1>2. CaptureInv'
  <2>1. disk' \in [File -> Content \union {Gone}]
    BY <1>1, CaptureDirAssumption DEF SelfInv, CaptureInv, CaptureTypeInv
  <2>. QED
    BY <1>1, <2>1
    DEF SelfInv, CaptureInv, CaptureTypeInv, Pending, BlobsMatchNodes, SecurityTableExact, Users
<1>3. OutEntry # 0 => disk'[OutEntry] = Empty  BY <1>1, CaptureDirAssumption
<1>4. \E S : images' \in Seq(S)  BY <1>1 DEF SelfInv
<1>. QED  BY <1>1, <1>2, <1>3, <1>4 DEF SelfInv, SaysEmpty

LEMMA OwnSelf ==
  ASSUME SelfInv,
         CreateFails \/ Added \/ Finished \/ CloseFile \/ CloseFileFails \/ DropFile
           \/ Remove \/ RemoveFails \/ Killed \/ UNCHANGED cdVars
  PROVE  SelfInv'
<1>1. (UNCHANGED vars /\ phase' # "create") \/ UNCHANGED <<vars, phase>>
  BY DEF CreateFails, Added, Finished, CloseFile, CloseFileFails, DropFile, Remove,
         RemoveFails, Killed, Over, cdVars, ownVars
<1>2. phase' \notin {"create", "over"} => phase \notin {"create", "over"}
  BY DEF CreateFails, Added, Finished, CloseFile, CloseFileFails, DropFile, Remove,
         RemoveFails, Killed, Over, cdVars, ownVars
<1>3. UNCHANGED <<treeVars, policy, step, walkVars, images, disk, cursor, nodes, found>>
  BY <1>1 DEF vars, captureVars, walkVars, treeVars, writerVars, stateVars
<1>4. CaptureInv'  BY <1>3, CaptureStepInv DEF SelfInv, captureVars
<1>5. phase' = "create" => step' = "idle"  BY <1>1, <1>3 DEF SelfInv
<1>. QED  BY <1>2, <1>3, <1>4, <1>5, SelfKept

(* Others edit the tree, but not the file that is being written.           *)
LEMMA ElsewhereSelf == ASSUME SelfInv, Elsewhere PROVE SelfInv'
<1>1. CaptureInv'  BY CaptureStepInv DEF Elsewhere, SelfInv, CaptureStep
<1>2. /\ UNCHANGED <<step, cursor, nodes, found, images, phase>>
      /\ OutEntry # 0 => disk'[OutEntry] = disk[OutEntry]
  BY DEF Elsewhere, Environment, Edit, Cancel, walkVars, writerVars, stateVars, ownVars
<1>3. phase' = "create" => step' = "idle"  BY <1>2 DEF SelfInv
<1>. QED  BY <1>1, <1>2, <1>3, SelfKept

LEMMA AgainSelf == ASSUME SelfInv, Again PROVE SelfInv'
<1>1. PICK c \in Content : disk' = [f \in File |-> IF f = OutEntry THEN c ELSE disk[f]]
  BY DEF Again
<1>2. /\ phase' = "create" /\ step' = "idle" /\ nodes' = <<>> /\ found' = <<>>
      /\ security' = <<>> /\ images' = <<>> /\ cursor' = 1 /\ listed' = {}
      /\ UNCHANGED <<edits, cancelled, policy>>
  BY DEF Again
<1>3. CaptureInv'
  <2>1. disk' \in [File -> Content \union {Gone}]
    BY <1>1 DEF SelfInv, CaptureInv, CaptureTypeInv
  <2>2. cursor' \in 1 .. N + 1  BY <1>2, CaptureAssumption
  <2>3. nodes' \in Seq(Node) /\ security' \in Seq(Descriptor) /\ found' \in Seq(Blob)
    BY <1>2
  <2>4. CaptureTypeInv'
    BY <1>2, <2>1, <2>2, <2>3 DEF SelfInv, CaptureInv, CaptureTypeInv
  <2>. QED
    BY <1>2, <2>4 DEF CaptureInv, Pending, BlobsMatchNodes, SecurityTableExact
<1>4. images' \in Seq({})  BY <1>2
<1>. QED  BY <1>2, <1>3, <1>4 DEF SelfInv, SaysEmpty

-----------------------------------------------------------------------------
(* The Writer at work.                                                     *)

LEMMA AddSelf == ASSUME SelfInv, Add PROVE SelfInv'
<1>1. phase = "capture" /\ phase' = "adding"  BY DEF Add
<1>2. CASE \E info \in Infos : AddImage(info)
  <2>1. BeginCapture /\ UNCHANGED images  BY <1>2 DEF AddImage, stateVars
  <2>2. /\ step' = "walk" /\ nodes' = <<>> /\ found' = <<>> /\ UNCHANGED disk
    BY <2>1 DEF BeginCapture
  <2>3. CaptureInv'  BY <2>1, BeginInv DEF SelfInv
  <2>4. \E S : images' \in Seq(S)  BY <2>1 DEF SelfInv
  <2>. QED  BY <1>1, <2>1, <2>2, <2>3, <2>4 DEF SelfInv, SaysEmpty
<1>3. CASE \E info \in Infos : RefuseImage(info)
  <2>1. UNCHANGED captureVars /\ UNCHANGED images  BY <1>3 DEF RefuseImage, stateVars
  <2>2. CaptureInv'  BY <2>1, CaptureStepInv DEF SelfInv
  <2>3. UNCHANGED <<step, cursor, nodes, found, images, disk>>
    BY <2>1 DEF captureVars, treeVars, walkVars
  <2>. QED  BY <1>1, <2>2, <2>3, SelfKept
<1>. QED  BY <1>2, <1>3 DEF Add

LEMMA FinishSelf == ASSUME SelfInv, Finish PROVE SelfInv'
<1>1. /\ phase = "close" /\ phase' = "closing"
      /\ (step' # "hash" \/ UNCHANGED step)
      /\ UNCHANGED <<treeVars, policy, walkVars, images>>
  BY DEF Finish, Close, RefuseClose, captureVars, stateVars
<1>2. phase = "close" /\ phase' = "closing"  BY DEF Finish
<1>3. CaptureInv'
  <2>1. CASE step' # "hash"  BY <1>1, <2>1, CaptureKept DEF SelfInv
  <2>2. CASE UNCHANGED step  BY <1>1, <2>2, CaptureStepInv DEF SelfInv, captureVars
  <2>. QED  BY <1>1, <2>1, <2>2
<1>4. UNCHANGED <<cursor, nodes, found, images, disk>>  BY <1>1 DEF walkVars, treeVars
<1>. QED  BY <1>1, <1>2, <1>3, <1>4, SelfKept

(* The walk at the file: it is empty, and what is empty is not hashed.     *)
LEMMA StatSelf ==
  ASSUME SelfInv, Stat, UNCHANGED images, phase' = phase, phase \notin {"create", "over"}
  PROVE  SelfInv'
<1>1. CaptureInv'  BY StatInv DEF SelfInv
<1>2. /\ cursor \in Entry /\ nodes \in Seq(Node) /\ UNCHANGED <<disk, found>>
      /\ step' \in {"hash", "walk"}
      /\ step' = "hash" => StatSize(cursor) > 0 /\ cursor' = cursor
  BY DEF Stat, SelfInv, CaptureInv, CaptureTypeInv, treeVars, Entry
<1>3. cursor = OutEntry => StatSize(cursor) = 0
  <2>. SUFFICES ASSUME cursor = OutEntry PROVE StatSize(cursor) = 0  OBVIOUS
  <2>1. OutEntry # 0  BY <1>2 DEF Entry
  <2>2. disk[OutEntry] = Empty  BY <2>1 DEF SelfInv
  <2>. QED  BY <2>2, CaptureDirAssumption DEF StatSize
<1>4. PICK n : /\ nodes' = Append(nodes, n) /\ n.entry = cursor
               /\ n.size = StatSize(cursor) /\ n.hash = ZeroHash
  <2>1. PICK z, k : z = StatSize(cursor) /\ k = SecurityId(policy[cursor])  OBVIOUS
  <2>2. PICK n : n = [entry |-> cursor, size |-> z, hash |-> ZeroHash, sec |-> k]  OBVIOUS
  <2>3. nodes' = Append(nodes, n)  BY <2>1, <2>2 DEF Stat
  <2>4. n.entry = cursor /\ n.size = z /\ n.hash = ZeroHash  BY <2>2
  <2>. QED  BY <2>1, <2>3, <2>4
<1>5. /\ DOMAIN nodes' = DOMAIN nodes \union {Len(nodes) + 1} /\ Len(nodes') = Len(nodes) + 1
      /\ nodes'[Len(nodes) + 1] = n /\ \A i \in DOMAIN nodes : nodes'[i] = nodes[i]
  BY <1>2, <1>4
<1>6. SaysEmpty(nodes)'
  <2>1. \A i \in DOMAIN nodes' : nodes'[i].entry = OutEntry =>
          nodes'[i].size = 0 /\ nodes'[i].hash = ZeroHash
    BY <1>3, <1>4, <1>5 DEF SelfInv, SaysEmpty
  <2>. QED  BY <2>1 DEF SaysEmpty
<1>7. step' = "hash" => nodes'[Len(nodes')].entry = cursor' /\ cursor' # OutEntry
  BY <1>2, <1>3, <1>4, <1>5
<1>8. \E S : images' \in Seq(S)  BY DEF SelfInv
<1>. QED  BY <1>1, <1>2, <1>6, <1>7, <1>8 DEF SelfInv, SaysEmpty

LEMMA HashSelf ==
  ASSUME SelfInv, HashFile, UNCHANGED images, phase' = phase, phase \notin {"create", "over"}
  PROVE  SelfInv'
<1>1. CaptureInv'  BY HashFileInv DEF SelfInv
<1>2. /\ step' = "walk" /\ cursor # OutEntry /\ nodes[Len(nodes)].entry = cursor
      /\ nodes \in Seq(Node) /\ found \in Seq(Blob) /\ UNCHANGED disk
      /\ nodes' = [nodes EXCEPT ![Len(nodes)].hash = disk[cursor]]
      /\ found' = FoundWith(disk[cursor])
  BY DEF HashFile, SelfInv, CaptureInv, CaptureTypeInv, treeVars
<1>3. SaysEmpty(nodes)'
  <2>1. DOMAIN nodes' = DOMAIN nodes  BY <1>2
  <2>2. \A i \in DOMAIN nodes : nodes[i] \in Node  BY <1>2
  <2>3. PICK d : d = [nodes[Len(nodes)] EXCEPT !.hash = disk[cursor]]  OBVIOUS
  <2>4. nodes' = [nodes EXCEPT ![Len(nodes)] = d]  BY <1>2, <2>3
  <2>5. \A i \in DOMAIN nodes : i # Len(nodes) => nodes'[i] = nodes[i]  BY <2>4
  <2>6. \A i \in DOMAIN nodes : i = Len(nodes) => nodes'[i] = d /\ d.entry = cursor
    BY <1>2, <2>2, <2>3, <2>4 DEF Node
  <2>7. \A i \in DOMAIN nodes' : nodes'[i].entry = OutEntry =>
          nodes'[i].size = 0 /\ nodes'[i].hash = ZeroHash
    BY <1>2, <2>1, <2>5, <2>6 DEF SelfInv, SaysEmpty
  <2>. QED  BY <2>7 DEF SaysEmpty
<1>4. \A i \in DOMAIN found' : found'[i].path # OutEntry
  <2>. SUFFICES ASSUME NEW i \in DOMAIN found' PROVE found'[i].path # OutEntry  OBVIOUS
  <2>1. PICK c : c = disk[cursor]  OBVIOUS
  <2>2. \A j \in DOMAIN found : found[j] \in Blob /\ found[j].path # OutEntry
    BY <1>2 DEF SelfInv
  <2>3. CASE \E j \in DOMAIN found : found[j].hash = c
    <3>1. found' = [j \in DOMAIN found |->
                     IF found[j].hash = c THEN [found[j] EXCEPT !.refs = found[j].refs + 1]
                                          ELSE found[j]]
      BY <1>2, <2>1, <2>3 DEF FoundWith
    <3>2. i \in DOMAIN found  BY <3>1
    <3>3. found'[i].path = found[i].path  BY <2>2, <3>1, <3>2 DEF Blob
    <3>. QED  BY <2>2, <3>2, <3>3
  <2>4. CASE ~ \E j \in DOMAIN found : found[j].hash = c
    <3>1. PICK b : b = [path |-> cursor, hash |-> c, refs |-> 1]  OBVIOUS
    <3>2. found' = Append(found, b)  BY <1>2, <2>1, <2>4, <3>1 DEF FoundWith
    <3>3. b.path = cursor  BY <3>1
    <3>4. found'[i] = b \/ (i \in DOMAIN found /\ found'[i] = found[i])  BY <1>2, <3>2
    <3>. QED  BY <1>2, <2>2, <3>3, <3>4
  <2>. QED  BY <2>3, <2>4
<1>5. \E S : images' \in Seq(S)  BY DEF SelfInv
<1>. QED  BY <1>1, <1>2, <1>3, <1>4, <1>5 DEF SelfInv, SaysEmpty

LEMMA ImageSelf ==
  ASSUME SelfInv, StoreMetadata, phase' = phase, phase \notin {"create", "over"}
  PROVE  SelfInv'
<1>1. step' = "idle" /\ UNCHANGED <<treeVars, policy, walkVars>>  BY DEF StoreMetadata
<1>2. UNCHANGED <<disk, cursor, nodes, found>>  BY <1>1 DEF treeVars, walkVars
<1>3. CaptureInv'  BY <1>1, CaptureKept DEF SelfInv
<1>4. PICK e : images' = Append(images, e) /\ e.meta.nodes = nodes
  <2>1. PICK d : d = Resource(MetaSize, PackedMetaSize, TRUE)  OBVIOUS
  <2>2. Metadata.nodes = nodes  BY DEF Metadata
  <2>3. PICK t : t = Metadata /\ t.nodes = nodes  BY <2>2
  <2>4. images' = Append(images, [info |-> adding, res |-> d, meta |-> t])
    BY <2>1, <2>3 DEF StoreMetadata
  <2>5. PICK e : e = [info |-> adding, res |-> d, meta |-> t]  OBVIOUS
  <2>6. e.meta.nodes = nodes  BY <2>3, <2>5
  <2>. QED  BY <2>4, <2>5, <2>6
<1>5. PICK S : images \in Seq(S)  BY DEF SelfInv
<1>6. images \in Seq(S \union {e})  BY <1>5
<1>7. /\ images' \in Seq(S \union {e})
      /\ \A i \in DOMAIN images' : images'[i] = e \/ (i \in DOMAIN images /\ images'[i] = images[i])
  BY <1>4, <1>6
<1>8. \A i \in DOMAIN images' : SaysEmpty(images'[i].meta.nodes)
  BY <1>4, <1>7 DEF SelfInv
<1>. QED  BY <1>1, <1>2, <1>3, <1>7, <1>8 DEF SelfInv, SaysEmpty

LEMMA WorksSelf == ASSUME SelfInv, WriterWorks PROVE SelfInv'
<1>1. Working /\ phase' = phase /\ phase \notin {"create", "over"}
  BY DEF WriterWorks, ownVars
<1>2. CASE Capturing
  <2>1. UNCHANGED images  BY <1>2 DEF Capturing, writerVars, stateVars
  <2>2. CASE Stat  BY <1>1, <2>1, <2>2, StatSelf
  <2>3. CASE HashFile  BY <1>1, <2>1, <2>3, HashSelf
  <2>4. CASE WalkFails \/ WalkEnds
    <3>1. step' # "hash" /\ UNCHANGED <<treeVars, policy, walkVars>>
      BY <2>4 DEF WalkFails, WalkEnds
    <3>2. CaptureInv'  BY <3>1, CaptureKept DEF SelfInv
    <3>3. UNCHANGED <<cursor, nodes, found, disk>>  BY <3>1 DEF treeVars, walkVars
    <3>. QED  BY <1>1, <2>1, <3>1, <3>2, <3>3, SelfKept
  <2>. QED  BY <1>2, <2>2, <2>3, <2>4 DEF Capturing, Walk
<1>3. CASE StoreMetadata  BY <1>1, <1>3, ImageSelf
<1>4. CASE \/ CaptureFailed \/ Start \/ StartFails \/ ReferBlob \/ StoreBlob \/ BlobFails
           \/ MetadataFails \/ Closing
  <2>1. step' # "hash" /\ UNCHANGED <<treeVars, policy, walkVars, images>>
    <3>1. CASE StartFails \/ BlobFails \/ MetadataFails \/ CloseFails \/ SealFails
      BY <3>1 DEF StartFails, BlobFails, MetadataFails, CloseFails, SealFails, Fail
    <3>2. CASE CaptureFailed \/ Start \/ StoreTable \/ StoreXml \/ Seal
      BY <3>2 DEF CaptureFailed, Start, StoreTable, StoreXml, Seal, stateVars
    <3>3. CASE ReferBlob \/ StoreBlob
      BY <3>3 DEF ReferBlob, StoreBlob, captureVars
    <3>. QED  BY <1>4, <3>1, <3>2, <3>3 DEF Closing
  <2>2. CaptureInv'  BY <2>1, CaptureKept DEF SelfInv
  <2>3. UNCHANGED <<cursor, nodes, found, disk>>  BY <2>1 DEF treeVars, walkVars
  <2>. QED  BY <1>1, <2>1, <2>2, <2>3, SelfKept
<1>. QED  BY <1>1, <1>2, <1>3, <1>4 DEF Working, Storing

LEMMA NextSelf == ASSUME SelfInv, [CaptureDirNext]_cdVars PROVE SelfInv'
BY CreateSelf, OwnSelf, ElsewhereSelf, AgainSelf, AddSelf, FinishSelf, WorksSelf
DEF CaptureDirNext, Progress

(* A WIM written into the directory that it captures has itself in it as   *)
(* an empty file, and nothing of itself or of what it replaces is stored   *)
(* (CaptureDir creates the file before it captures): in every capture,     *)
(* whichever steps fail and however often it is run again.                 *)
THEOREM SelfIsAlwaysEmpty == CaptureDirSpec => []SelfIsEmpty
<1>1. SelfInv /\ [CaptureDirNext]_cdVars => SelfInv'  BY NextSelf
<1>2. SelfInv => SelfIsEmpty
  BY DEF SelfInv, SelfIsEmpty, SaysEmpty, Elems
<1>. QED  BY <1>1, <1>2, InitSelf, PTL DEF CaptureDirSpec

-----------------------------------------------------------------------------

(* How far the Writer has got in each phase of CaptureDir.                 *)
PhasesOfCall ==
  /\ images = <<>> \/ Len(images) = 1
  /\ phase = "create" => out # "new" /\ Fresh
  /\ phase = "capture" => step = "idle" /\ images = <<>> /\ ret = "none"
  /\ phase = "adding" =>
       \/ step \in Adding /\ images = <<>> /\ ret = "none"
       \/ step = "idle" /\ (ret = "ok" => Len(images) = 1)
  /\ phase = "close" => step = "idle" /\ Len(images) = 1
  /\ phase = "closing" =>
       /\ Len(images) = 1
       /\ step \in Sealing \/ (step = "idle" /\ (ret = "ok" => Sealed))
  /\ phase = "fclose" => Sealed /\ Len(images) = 1

(* What is at out, and what the caller was told.                           *)
OutFollows ==
  /\ phase \notin {"create", "over"} => out = "new"
  /\ phase \notin {"remove", "over"} => ~lost
  /\ phase # "over" => result = "none"
  /\ out = "new" => Filed
  /\ result = "ok" => out = "new" /\ ~lost /\ Sealed /\ Len(images) = 1
  /\ result = "error" => out # "new" \/ kept

DirInv == SelfInv /\ PhasesOfCall /\ OutFollows

(* A file that was just created.                                           *)
JustCreated ==
  CaptureInv /\ Fresh /\ at \in Nat /\ header = [kind |-> "none", says |-> Zeros] /\ extents = {}

LEMMA CreatedIsFiled == JustCreated' => Filed'
<1>1. JustCreated => Filed
  <2>. SUFFICES ASSUME JustCreated PROVE Filed  OBVIOUS
  <2>1. WriterInv  BY FreshWrites DEF JustCreated
  <2>2. RoundInv /\ Counts  BY FreshIsApart DEF JustCreated, Fresh
  <2>. QED  BY <2>1, <2>2 DEF Filed
<1>. QED  BY <1>1, PTL

LEMMA InitDir == Init => DirInv
<1>. SUFFICES ASSUME Init PROVE DirInv  OBVIOUS
<1>1. SelfInv  BY InitSelf
<1>2. Fresh  BY DEF Init, WriterInit, CaptureInit, Fresh
<1>3. phase = "create" /\ out # "new" /\ result = "none" /\ ~lost  BY DEF Init
<1>4. PhasesOfCall  BY <1>2, <1>3 DEF PhasesOfCall, Fresh
<1>5. OutFollows  BY <1>3 DEF OutFollows
<1>. QED  BY <1>1, <1>4, <1>5 DEF DirInv

LEMMA CreateDir == ASSUME DirInv, Create PROVE PhasesOfCall' /\ OutFollows'
<1>1. /\ phase = "create" /\ phase' = "capture" /\ out' = "new"
      /\ at' = 0 /\ header' = [kind |-> "none", says |-> Zeros] /\ extents' = {}
      /\ UNCHANGED <<step, started, closed, err, pos, blobs, images, adding, turn, order,
                     tableRes, xmlRes, captures, ret, result, lost>>
  BY DEF Create, stateVars, callVars
<1>2. Fresh'  BY <1>1 DEF DirInv, PhasesOfCall, Fresh
<1>3. CaptureInv'
  <2>1. SelfInv'  BY CreateSelf DEF DirInv
  <2>. QED  BY <2>1 DEF SelfInv
<1>4. JustCreated'  BY <1>1, <1>2, <1>3 DEF JustCreated
<1>5. PhasesOfCall'  BY <1>1, <1>2 DEF PhasesOfCall, Fresh
<1>6. OutFollows'  BY <1>1, <1>4, CreatedIsFiled DEF OutFollows, DirInv
<1>. QED  BY <1>5, <1>6

(* What another call finds: a Writer of its own, over what is there.       *)
LEMMA AgainDir == ASSUME DirInv, Again PROVE PhasesOfCall' /\ OutFollows'
<1>1. /\ phase' = "create" /\ out' # "new" /\ result' = "none" /\ ~lost'
  BY DEF Again
<1>2. Fresh'  BY DEF Again, Fresh
<1>. QED  BY <1>1, <1>2 DEF PhasesOfCall, OutFollows, Fresh

(* CaptureDir's own steps: the Writer and the file stay as they are.       *)
LEMMA FiledSame == ASSUME Filed, UNCHANGED vars PROVE Filed'
BY FiledKept

LEMMA OwnDir ==
  ASSUME DirInv,
         CreateFails \/ Added \/ Finished \/ CloseFile \/ CloseFileFails \/ DropFile
           \/ Remove \/ RemoveFails \/ Killed \/ UNCHANGED cdVars
  PROVE  PhasesOfCall' /\ OutFollows'
<1>1. UNCHANGED vars
  BY DEF CreateFails, Added, Finished, CloseFile, CloseFileFails, DropFile, Remove,
         RemoveFails, Killed, cdVars
<1>2. /\ UNCHANGED <<step, started, closed, err, pos, blobs, images, adding, turn, order,
                     tableRes, xmlRes, captures, ret, header>>
  BY <1>1 DEF vars, captureVars, writerVars, stateVars, callVars, dstVars
<1>3. Sealed' <=> Sealed  BY <1>2 DEF Sealed
<1>4. Fresh' <=> Fresh  BY <1>2 DEF Fresh
<1>5. Filed => Filed'  BY <1>1, FiledSame
<1>6. PhasesOfCall'
  <2>1. CASE CreateFails \/ CloseFile \/ CloseFileFails \/ DropFile \/ Remove \/ RemoveFails
             \/ Killed
    <3>1. phase' \in {"over", "remove"}
      BY <2>1
      DEF CreateFails, CloseFile, CloseFileFails, DropFile, Remove, RemoveFails, Killed, Over
    <3>. QED  BY <1>2, <3>1 DEF DirInv, PhasesOfCall
  <2>2. CASE UNCHANGED cdVars
    <3>1. UNCHANGED <<phase, out>>  BY <2>2 DEF cdVars, ownVars
    <3>. QED  BY <1>2, <1>3, <1>4, <3>1 DEF DirInv, PhasesOfCall
  <2>3. CASE Added \/ Finished
    <3>1. /\ phase \in {"adding", "closing"} /\ step = "idle"
          /\ phase' \in {"close", "drop", "fclose"}
          /\ phase' = "close" => phase = "adding" /\ ret = "ok"
          /\ phase' = "fclose" => phase = "closing" /\ ret = "ok"
      BY <2>3 DEF Added, Finished
    <3>2. /\ phase' = "close" => Len(images) = 1
          /\ phase' = "fclose" => Sealed /\ Len(images) = 1
      BY <3>1 DEF DirInv, PhasesOfCall, Adding, Sealing
    <3>3. step' = "idle" /\ images' = images  BY <1>2, <3>1
    <3>4. /\ phase' = "close" => Len(images') = 1
          /\ phase' = "fclose" => Sealed' /\ Len(images') = 1
      BY <1>3, <3>2, <3>3
    <3>. QED  BY <3>1, <3>3, <3>4 DEF DirInv, PhasesOfCall
  <2>. QED  BY <2>1, <2>2, <2>3
<1>7. OutFollows'
  BY <1>2, <1>3, <1>5
  DEF DirInv, OutFollows, PhasesOfCall, CreateFails, Added, Finished, CloseFile, CloseFileFails,
      DropFile, Remove, RemoveFails, Killed, Over, cdVars, ownVars
<1>. QED  BY <1>6, <1>7

LEMMA ElsewhereDir == ASSUME DirInv, Elsewhere PROVE PhasesOfCall' /\ OutFollows'
<1>1. Outside /\ UNCHANGED ownVars /\ UNCHANGED step
  BY DEF Elsewhere, Outside, Environment, Edit, Cancel
<1>2. /\ UNCHANGED <<started, closed, err, pos, blobs, images, adding, turn, order,
                     tableRes, xmlRes, captures, ret, header>>
      /\ UNCHANGED <<phase, out, result, lost, kept>>
  BY <1>1 DEF Outside, writerVars, stateVars, callVars, dstVars, ownVars
<1>3. Sealed' <=> Sealed  BY <1>2 DEF Sealed
<1>4. Fresh' <=> Fresh  BY <1>1, <1>2 DEF Fresh
<1>5. Filed => Filed'  BY <1>1, FiledKept DEF Next
<1>. QED  BY <1>1, <1>2, <1>3, <1>4, <1>5 DEF DirInv, PhasesOfCall, OutFollows

LEMMA AddDir == ASSUME DirInv, Add PROVE PhasesOfCall' /\ OutFollows'
<1>1. /\ phase = "capture" /\ phase' = "adding" /\ UNCHANGED <<out, result, lost, kept>>
      /\ step = "idle" /\ images = <<>> /\ ret = "none" /\ Filed
  BY DEF Add, DirInv, PhasesOfCall, OutFollows
<1>2. Filed'  BY <1>1, FiledKept DEF Add, Next, Called
<1>3. \/ step' = "walk" /\ images' = <<>> /\ ret' = "none"
      \/ step' = "idle" /\ images' = <<>> /\ ret' = "error"
  BY <1>1 DEF Add, AddImage, RefuseImage, BeginCapture, captureVars, stateVars
<1>4. PhasesOfCall'  BY <1>1, <1>3 DEF PhasesOfCall, Adding
<1>5. OutFollows'  BY <1>1, <1>2 DEF DirInv, OutFollows
<1>. QED  BY <1>4, <1>5

LEMMA FinishDir == ASSUME DirInv, Finish PROVE PhasesOfCall' /\ OutFollows'
<1>1. /\ phase = "close" /\ phase' = "closing" /\ UNCHANGED <<out, result, lost, kept>>
      /\ step = "idle" /\ Len(images) = 1 /\ Filed
  BY DEF Finish, DirInv, PhasesOfCall, OutFollows
<1>2. Filed'  BY <1>1, FiledKept DEF Finish, Next, Called
<1>3. /\ UNCHANGED images
      /\ step' = "table" \/ (step' = "idle" /\ ret' = "error")
  BY <1>1 DEF Finish, Close, RefuseClose, captureVars, stateVars
<1>4. PhasesOfCall'  BY <1>1, <1>3 DEF PhasesOfCall, Sealing
<1>5. OutFollows'  BY <1>1, <1>2 DEF DirInv, OutFollows
<1>. QED  BY <1>4, <1>5

(* The Writer at work: it adds its one image, or it seals, or it fails.    *)
LEMMA WorksDir == ASSUME DirInv, WriterWorks PROVE PhasesOfCall' /\ OutFollows'
<1>1. /\ phase \in {"adding", "closing"} /\ step # "idle" /\ Working
      /\ UNCHANGED <<phase, out, result, lost, kept>> /\ Filed
  BY DEF WriterWorks, ownVars, DirInv, OutFollows
<1>2. Filed'  BY <1>1, FiledKept DEF Next
<1>3. CASE Fail
  <2>1. step' = "idle" /\ ret' = "error" /\ UNCHANGED images  BY <1>3 DEF Fail
  <2>2. PhasesOfCall'  BY <1>1, <2>1 DEF DirInv, PhasesOfCall
  <2>. QED  BY <1>1, <1>2, <2>2 DEF DirInv, OutFollows
<1>4. CASE CaptureFailed
  <2>1. step' = "idle" /\ ret' = "error" /\ UNCHANGED images
    BY <1>4 DEF CaptureFailed, stateVars
  <2>2. PhasesOfCall'  BY <1>1, <2>1 DEF DirInv, PhasesOfCall
  <2>. QED  BY <1>1, <1>2, <2>2 DEF DirInv, OutFollows
<1>5. CASE Capturing \/ Start \/ ReferBlob \/ StoreBlob
  <2>1. step \in Adding /\ step' \in Adding /\ UNCHANGED <<images, ret>>
    BY <1>5
    DEF Capturing, Walk, Stat, HashFile, WalkFails, WalkEnds, Start, ReferBlob, StoreBlob,
        captureVars, writerVars, stateVars, callVars, Adding
  <2>2. PhasesOfCall'  BY <1>1, <2>1 DEF DirInv, PhasesOfCall, Adding, Sealing
  <2>. QED  BY <1>1, <1>2, <2>2 DEF DirInv, OutFollows
<1>6. CASE StoreMetadata
  <2>1. step = "blob" /\ step' = "idle"  BY <1>6 DEF StoreMetadata
  <2>2. phase = "adding" /\ images = <<>>
    BY <1>1, <2>1 DEF DirInv, PhasesOfCall, Sealing
  <2>3. Len(images') = 1
    <3>1. PICK e : images' = Append(images, e)  BY <1>6 DEF StoreMetadata
    <3>. QED  BY <2>2, <3>1
  <2>4. PhasesOfCall'  BY <1>1, <2>1, <2>2, <2>3 DEF PhasesOfCall
  <2>. QED  BY <1>1, <1>2, <2>4 DEF DirInv, OutFollows
<1>7. CASE StoreTable \/ StoreXml
  <2>1. step \in Sealing /\ step' \in Sealing /\ UNCHANGED images
    BY <1>7 DEF StoreTable, StoreXml, Sealing
  <2>2. PhasesOfCall'  BY <1>1, <2>1 DEF DirInv, PhasesOfCall, Adding, Sealing
  <2>. QED  BY <1>1, <1>2, <2>2 DEF DirInv, OutFollows
<1>8. CASE Seal
  <2>1. step = "seal" /\ step' = "idle" /\ Sealed' /\ UNCHANGED images
    BY <1>8 DEF Seal, Sealed, stateVars
  <2>2. PhasesOfCall'  BY <1>1, <2>1 DEF DirInv, PhasesOfCall, Adding
  <2>. QED  BY <1>1, <1>2, <2>2 DEF DirInv, OutFollows
<1>9. StartFails \/ BlobFails \/ MetadataFails \/ CloseFails \/ SealFails => Fail
  BY DEF StartFails, BlobFails, MetadataFails, CloseFails, SealFails
<1>. QED
  BY <1>1, <1>3, <1>4, <1>5, <1>6, <1>7, <1>8, <1>9 DEF Working, Storing, Closing

LEMMA DirInvariance == CaptureDirSpec => []DirInv
<1>1. DirInv /\ [CaptureDirNext]_cdVars => DirInv'
  <2>. SUFFICES ASSUME DirInv, [CaptureDirNext]_cdVars PROVE DirInv'  OBVIOUS
  <2>1. SelfInv'  BY NextSelf DEF DirInv
  <2>2. PhasesOfCall' /\ OutFollows'
    BY CreateDir, OwnDir, ElsewhereDir, AgainDir, AddDir, FinishDir, WorksDir
    DEF CaptureDirNext, Progress
  <2>. QED  BY <2>1, <2>2 DEF DirInv
<1>. QED  BY <1>1, InitDir, PTL DEF CaptureDirSpec

(* What CaptureDir returns is true of the file it leaves (CaptureDir's     *)
(* deferred os.Remove, and the file's own Close): no error, and the WIM is *)
(* whole; an error, and there is none, unless it could not be removed.     *)
THEOREM ResultsAreTrue == CaptureDirSpec => []ResultTellsTheFile
<1>1. DirInv => ResultTellsTheFile
  BY SealedReadsBack DEF DirInv, OutFollows, ResultTellsTheFile, Filed
<1>. QED  BY <1>1, DirInvariance, PTL

(* Killed at any moment, over whatever lay at out, and whichever of its    *)
(* calls fail, CaptureDir leaves no file that opens and is not the image   *)
(* that was captured, which Boot finds.  Close writes the header last, and *)
(* of a header that stopped half-way all that opens has the table and the  *)
(* XML in it; the image is the only one, so Boot needs no boot index.      *)
THEOREM WhatOpensIsTheCapture == CaptureDirSpec => []OnlyTheCaptureOpens
<1>1. DirInv => OnlyTheCaptureOpens
  <2>. SUFFICES ASSUME DirInv, out = "new", Reader!Opens(Output)
                PROVE  Len(images) = 1 /\ ContentsReadBack /\ Reader!BootImage(Output) = 1
    BY DEF OnlyTheCaptureOpens
  <2>1. WriterInv /\ Counts /\ RoundInv  BY DEF DirInv, OutFollows, Filed
  <2>2. /\ ContentsReadBack /\ Begun
        /\ Len(images) = 1 => Reader!BootImage(Output) = 1
    BY <2>1, OpenReadsBack
  <2>3. Len(images) = 1
    BY <2>1, <2>2 DEF RoundInv, SealingFollows, DirInv, PhasesOfCall
  <2>. QED  BY <2>2, <2>3
<1>. QED  BY <1>1, DirInvariance, PTL
=============================================================================
