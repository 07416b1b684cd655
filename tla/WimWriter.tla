------------------------------ MODULE WimWriter ------------------------------
(***************************************************************************)
(* The Writer of writer.go: AddImage, which captures a tree and then reads *)
(* its files again to store them, Close, which seals the file, and what    *)
(* they share: the blob table, the images, and the position the next       *)
(* resource goes to.  Capturing is the module Capture; encodeChunks, which *)
(* only computes, is the module ChunkPool.                                 *)
(*                                                                         *)
(* The destination is anybody's io.WriteSeeker: every Seek and Write may   *)
(* fail, a Write after any part of its bytes.  It keeps a cursor of its    *)
(* own; w.pos only follows it.                                             *)
(***************************************************************************)
EXTENDS Capture

CONSTANTS
  Infos,          \* the ImageInfos a caller passes: a name and Boot
  NoInfo,         \* none, before the first call
  Codecs,         \* Options.Compression, some of {"lzx", "none"}
  PackedSize,     \* what compressResource makes of a content
  MetaSize,       \* the length of a metadata resource
  PackedMetaSize, \* what compressResource makes of one; it may be more
  HeaderSize,     \* the length of the header
  EntrySize,      \* the length of a blob table entry
  XmlSize,        \* the length of the XML data
  Byte,           \* the values of one byte of a number in the header
  MaxImages,      \* bound: the captures of one Writer
  DstStart        \* where the destination's cursor may be at first

ASSUME WriterAssumption ==
  /\ Infos \subseteq [name: STRING, boot: BOOLEAN] /\ NoInfo \notin Infos
  /\ Codecs \subseteq {"lzx", "none"}
  /\ PackedSize \in [Content -> Nat \ {0}]
  /\ {MetaSize, PackedMetaSize, HeaderSize, EntrySize, XmlSize} \subseteq Nat \ {0}
  /\ MaxImages \in Nat /\ DstStart \subseteq Nat /\ Byte \in Nat \ {0, 1}

VARIABLES
  opts,     \* the Options the Writer was made with
  started,  \* the header's place has been reserved
  closed,   \* Close has been called
  err,      \* the Writer has failed for good
  pos,      \* w.pos, the offset the next resource is recorded at
  blobs,    \* w.blobs with w.byHash: the file streams stored so far
  images,   \* w.images
  adding,   \* the ImageInfo of the running AddImage
  turn,     \* the loop of addImage: the blob of c.blobs it is at
  order,    \* the sorted blob table of the running Close
  tableRes, \* where Close put the blob table
  xmlRes,   \* where Close put the XML data
  captures, \* how often AddImage got as far as capturing
  ret,      \* what the last call returned
  at,       \* the destination's own cursor
  header,   \* the first HeaderSize bytes of the destination: what they say,
            \* and, for the properties alone, what the Writer did to them
  extents   \* the runs of bytes written behind them

dstVars == <<at, header, extents>>
callVars == <<adding, turn, order, tableRes, xmlRes, captures, ret>>
stateVars == <<opts, started, closed, err, pos, blobs, images>>
writerVars == <<stateVars, callVars, dstVars>>
vars == <<captureVars, writerVars>>

Res(off, len, usize, packed, meta) ==
  [offset |-> off, size |-> len, uncompressed |-> usize,
   compressed |-> packed, metadata |-> meta]
NoRes == Res(0, 0, 0, FALSE, FALSE)
NoBody == [data |-> <<>>, packed |-> FALSE]

(* A header as a reader finds it.  lead is what stands in it up to the     *)
(* part numbers: signature, size, version, "part 1 of 1".                  *)
Says(count, table, xml, bootMeta, bootIndex) ==
  [lead |-> TRUE, codec |-> opts.codec, count |-> count, table |-> table,
   xml |-> xml, bootMeta |-> bootMeta, bootIndex |-> bootIndex]

(* No header: a header's worth of zeros, or less.                          *)
Zeros ==
  [lead |-> FALSE, codec |-> "none", count |-> 0, table |-> NoRes, xml |-> NoRes,
   bootMeta |-> NoRes, bootIndex |-> 0]

WriterInit ==
  /\ CaptureInit
  /\ opts \in [codec: Codecs, chunkOK: BOOLEAN, secured: BOOLEAN]
  /\ started = FALSE /\ closed = FALSE /\ err = FALSE /\ pos = 0
  /\ blobs = <<>> /\ images = <<>>
  /\ adding = NoInfo /\ turn = 1 /\ order = <<>>
  /\ tableRes = NoRes /\ xmlRes = NoRes
  /\ captures = 0 /\ ret = "none"
  /\ at \in DstStart /\ header = [kind |-> "none", says |-> Zeros]
  /\ extents = {}

-----------------------------------------------------------------------------
(* The destination, and what it means to fail.                             *)

(* Write takes all len bytes of a body.                                    *)
Written(body, len) ==
  /\ extents' = extents \union {[off |-> at, len |-> len, body |-> body, whole |-> TRUE]}
  /\ at' = at + len
  /\ pos' = pos + len
  /\ UNCHANGED header

(* Write takes n of them and returns an error.                             *)
Torn(n) ==
  /\ extents' = extents \union {[off |-> at, len |-> n, body |-> NoBody, whole |-> FALSE]}
  /\ at' = at + n
  /\ pos' = pos + n
  /\ UNCHANGED header

(* Bug: the failure is returned, but not remembered.                       *)
FailureForgotten == err

(* w.fail: the failure is sticky.                                          *)
Failure == TRUE

Fail ==
  /\ err' = Failure /\ ret' = "error" /\ step' = "idle"
  /\ UNCHANGED <<treeVars, policy, walkVars, adding, turn, order, tableRes, xmlRes, captures>>
  /\ UNCHANGED <<opts, closed, blobs, images>>

(* Bug: metadata is compressed only if that pays.                          *)
PackedIfSmaller(usize, psize, meta) ==
  opts.codec = "lzx" /\ usize > 0 /\ psize < usize

(* writeResource: a resource is stored compressed if that makes it smaller *)
(* and, under a header that names a codec, whenever it is metadata.        *)
Packed(usize, psize, meta) ==
  opts.codec = "lzx" /\ usize > 0 /\ (psize < usize \/ meta)

StoredLen(usize, psize, meta) ==
  IF Packed(usize, psize, meta) THEN psize ELSE usize

Resource(usize, psize, meta) ==
  Res(pos, StoredLen(usize, psize, meta), usize, Packed(usize, psize, meta), meta)

Body(data, usize, psize, meta) ==
  [data |-> data, packed |-> Packed(usize, psize, meta)]

-----------------------------------------------------------------------------
(* AddImage.                                                               *)

(* Bug: only the image added last is looked at.                            *)
BootTakenLast == Len(images) > 0 /\ images[Len(images)].info.boot

BootTaken == \E i \in DOMAIN images : images[i].info.boot

(* Bug: a closed Writer still accepts images.                              *)
AcceptsClosed(info) ==
  ~err /\ opts.secured /\ opts.chunkOK /\ ~(info.boot /\ BootTaken)

Accepts(info) ==
  ~err /\ ~closed /\ opts.secured /\ opts.chunkOK /\ ~(info.boot /\ BootTaken)

AddImage(info) ==
  /\ captures < MaxImages
  /\ Accepts(info)
  /\ BeginCapture
  /\ adding' = info /\ turn' = 1 /\ captures' = captures + 1
  /\ UNCHANGED <<stateVars, order, tableRes, xmlRes, ret, dstVars>>

RefuseImage(info) ==
  /\ step = "idle" /\ ~Accepts(info)
  /\ ret' = "error"
  /\ UNCHANGED <<captureVars, stateVars, adding, turn, order, tableRes,
                 xmlRes, captures, dstVars>>

(* Nothing was written: the error is returned and the Writer usable.       *)
CaptureFailed ==
  /\ step = "failed" /\ step' = "idle" /\ ret' = "error"
  /\ UNCHANGED <<treeVars, policy, walkVars, stateVars, adding, turn, order,
                 tableRes, xmlRes, captures, dstVars>>

(* Seek(0), then a header's worth of zeros.                                *)
HeaderEnd == HeaderSize

Start ==
  /\ step = "captured" /\ step' = "blob"
  /\ IF started THEN UNCHANGED <<stateVars, dstVars>>
     ELSE /\ at' = HeaderEnd /\ pos' = HeaderSize /\ header' = [kind |-> "reserved", says |-> Zeros]
          /\ started' = TRUE
          /\ UNCHANGED <<opts, closed, err, blobs, images, extents>>
  /\ UNCHANGED <<treeVars, policy, walkVars, callVars>>

(* The Seek or the Write of start fails.                                   *)
StartFails ==
  /\ step = "captured" /\ ~started
  /\ \/ UNCHANGED dstVars
     \/ /\ \E n \in 0 .. HeaderSize : at' = n
        /\ header' = [kind |-> "torn", says |-> Zeros] /\ UNCHANGED extents
  /\ Fail /\ UNCHANGED <<started, pos>>

Known(h) == \E i \in DOMAIN blobs : blobs[i].hash = h

(* Bug: a stream stored for an earlier image is not counted again.         *)
BlobsReferencedOnce(b) == blobs

BlobsReferenced(b) ==
  [i \in DOMAIN blobs |->
     IF blobs[i].hash = b.hash THEN [blobs[i] EXCEPT !.refs = @ + b.refs] ELSE blobs[i]]

(* A stream already stored is referenced again.                            *)
ReferBlob ==
  /\ step = "blob" /\ turn <= Len(found) /\ ~cancelled
  /\ Known(found[turn].hash)
  /\ blobs' = BlobsReferenced(found[turn])
  /\ turn' = turn + 1
  /\ UNCHANGED <<captureVars, opts, started, closed, err, pos, images>>
  /\ UNCHANGED <<adding, order, tableRes, xmlRes, captures, ret, dstVars>>

(* Bug: the length is compared in place of the hash.                       *)
SameLength(b) == Size[disk[b.path]] = Size[b.hash]

(* The file, read again, still has the hash it was captured with.          *)
Unchanged(b) == disk[b.path] = b.hash

(* Bug: the references are left to be counted later.                       *)
FirstReferencesLater(b) == 0

FirstReferences(b) == b.refs

StoreBlob ==
  LET b == found[turn]
      c == disk[b.path]
      len == StoredLen(Size[c], PackedSize[c], FALSE) IN
  /\ step = "blob" /\ turn <= Len(found) /\ ~cancelled
  /\ ~Known(b.hash) /\ c # Gone /\ Unchanged(b)
  /\ Written(Body(c, Size[c], PackedSize[c], FALSE), len)
  /\ blobs' = Append(blobs, [res |-> Resource(Size[c], PackedSize[c], FALSE),
                             hash |-> b.hash, refs |-> FirstReferences(b)])
  /\ turn' = turn + 1
  /\ UNCHANGED <<captureVars, opts, started, closed, err, images>>
  /\ UNCHANGED <<adding, order, tableRes, xmlRes, captures, ret>>

(* The context is cancelled, or the file cannot be read or has changed, or *)
(* writing it fails half-way.                                              *)
BlobFails ==
  /\ step = "blob" /\ turn <= Len(found)
  /\ \/ cancelled /\ UNCHANGED <<pos, dstVars>>
     \/ ~Known(found[turn].hash) /\ UNCHANGED <<pos, dstVars>>
     \/ LET c == disk[found[turn].path] IN
        /\ ~cancelled /\ ~Known(found[turn].hash) /\ c # Gone /\ Unchanged(found[turn])
        /\ \E n \in 0 .. StoredLen(Size[c], PackedSize[c], FALSE) : Torn(n)
  /\ Fail /\ UNCHANGED started

Metadata == [nodes |-> nodes, security |-> security]
MetaLen == StoredLen(MetaSize, PackedMetaSize, TRUE)

(* encodeMetadata, writeResource, and the image exists.                    *)
StoreMetadata ==
  /\ step = "blob" /\ turn > Len(found)
  /\ Written(Body(Metadata, MetaSize, PackedMetaSize, TRUE), MetaLen)
  /\ images' = Append(images,
       [info |-> adding, res |-> Resource(MetaSize, PackedMetaSize, TRUE),
        meta |-> Metadata])
  /\ step' = "idle" /\ ret' = "ok"
  /\ UNCHANGED <<treeVars, policy, walkVars, opts, started, closed, err, blobs>>
  /\ UNCHANGED <<adding, turn, order, tableRes, xmlRes, captures>>

MetadataFails ==
  /\ step = "blob" /\ turn > Len(found)
  /\ \E n \in 0 .. MetaLen : Torn(n)
  /\ Fail /\ UNCHANGED started

-----------------------------------------------------------------------------
(* Close.                                                                  *)

(* The file streams, then each image's metadata.                           *)
Entries ==
  blobs \o [i \in DOMAIN images |->
              [res |-> images[i].res, hash |-> images[i].meta, refs |-> 1]]

(* sort.Slice by offset is not stable: entries at one offset, which an     *)
(* empty stream and its successor are, may come out either way.            *)
Sorted(es) ==
  {[i \in DOMAIN es |-> es[p[i]]] : p \in
     {q \in [DOMAIN es -> DOMAIN es] : \A i, j \in DOMAIN es : i < j =>
        q[i] # q[j] /\ es[q[i]].res.offset <= es[q[j]].res.offset}}

Close ==
  /\ step = "idle" /\ ~err /\ ~closed /\ images # <<>>
  /\ closed' = TRUE
  /\ order' \in Sorted(Entries)
  /\ step' = "table"
  /\ UNCHANGED <<treeVars, policy, walkVars, opts, started, err, pos, blobs, images>>
  /\ UNCHANGED <<adding, turn, tableRes, xmlRes, captures, ret, dstVars>>

RefuseClose ==
  /\ step = "idle" /\ (err \/ closed \/ images = <<>>)
  /\ ret' = "error"
  /\ UNCHANGED <<captureVars, stateVars, adding, turn, order, tableRes, xmlRes,
                 captures, dstVars>>

TableLen == EntrySize * Len(order)

(* writeStored: the table lies there as it is.                             *)
StoreTable ==
  /\ step = "table" /\ step' = "xml"
  /\ Written([data |-> order, packed |-> FALSE], TableLen)
  /\ tableRes' = Res(pos, TableLen, TableLen, FALSE, FALSE)
  /\ UNCHANGED <<treeVars, policy, walkVars, opts, started, closed, err, blobs, images>>
  /\ UNCHANGED <<adding, turn, order, xmlRes, captures, ret>>

(* buildXML names the images in order, and counts all bytes before itself. *)
StoreXml ==
  /\ step = "xml" /\ step' = "seal"
  /\ Written([data |-> [names |-> [i \in DOMAIN images |-> images[i].info.name],
                        total |-> pos], packed |-> FALSE], XmlSize)
  /\ xmlRes' = Res(pos, XmlSize, XmlSize, FALSE, FALSE)
  /\ UNCHANGED <<treeVars, policy, walkVars, opts, started, closed, err, blobs, images>>
  /\ UNCHANGED <<adding, turn, order, tableRes, captures, ret>>

CloseFails ==
  /\ \/ step = "table" /\ \E n \in 0 .. TableLen : Torn(n)
     \/ step = "xml" /\ \E n \in 0 .. XmlSize : Torn(n)
  /\ Fail /\ UNCHANGED started

(* The bootable image is named by index and by a copy of its resource.     *)
BootIndex ==
  IF BootTaken THEN CHOOSE i \in DOMAIN images : images[i].info.boot /\
                      \A j \in 1 .. i - 1 : ~images[j].info.boot
  ELSE 0

BootMeta == IF BootTaken THEN images[BootIndex].res ELSE NoRes

(* What Close writes over the zeros, in the order of the bytes.            *)
Header == Says(Len(images), tableRes, xmlRes, BootMeta, BootIndex)

(* A number of at most eight bytes, the lowest first, of which only so     *)
(* many were written.                                                      *)
LowParts(v) == {m \in 0 .. v : m = v \/ \E k \in 0 .. 7 : m = v % Byte ^ k}

(* The same for a resource header: size, flags, offset, uncompressed.      *)
ResParts(res) ==
  {Res(0, n, 0, FALSE, FALSE) : n \in LowParts(res.size)}
  \union {Res(n, res.size, 0, res.compressed, res.metadata) : n \in LowParts(res.offset)}
  \union {Res(res.offset, res.size, n, res.compressed, res.metadata) :
            n \in LowParts(res.uncompressed)}

(* What a header says of which only the first bytes were written: all of   *)
(* it once the boot index is there, zeros behind the place it stops at.    *)
HeaderParts ==
  {Zeros}
  \union {Says(n, NoRes, NoRes, NoRes, 0) : n \in LowParts(Len(images))}
  \union {Says(Len(images), r, NoRes, NoRes, 0) : r \in ResParts(tableRes)}
  \union {Says(Len(images), tableRes, r, NoRes, 0) : r \in ResParts(xmlRes)}
  \union {Says(Len(images), tableRes, xmlRes, r, 0) : r \in ResParts(BootMeta)}
  \union {Says(Len(images), tableRes, xmlRes, BootMeta, n) : n \in LowParts(BootIndex)}

Seal ==
  /\ step = "seal" /\ step' = "idle" /\ ret' = "ok"
  /\ header' = [kind |-> "sealed", says |-> Header] /\ at' = HeaderSize
  /\ UNCHANGED <<treeVars, policy, walkVars, stateVars, extents>>
  /\ UNCHANGED <<adding, turn, order, tableRes, xmlRes, captures>>

(* The Seek fails, or the Write after any part of the header: what is      *)
(* there then may be enough of one for a reader.                           *)
SealFails ==
  /\ step = "seal"
  /\ \/ UNCHANGED dstVars
     \/ /\ \E h \in HeaderParts : header' = [kind |-> "torn", says |-> h]
        /\ \E n \in 0 .. HeaderSize : at' = n
        /\ UNCHANGED extents
  /\ Fail /\ UNCHANGED <<started, pos>>

-----------------------------------------------------------------------------
Outside == Environment /\ UNCHANGED writerVars
Capturing == Walk /\ UNCHANGED writerVars
Storing == \/ CaptureFailed \/ Start \/ StartFails \/ ReferBlob \/ StoreBlob
           \/ BlobFails \/ StoreMetadata \/ MetadataFails
Closing == StoreTable \/ StoreXml \/ CloseFails \/ Seal \/ SealFails
Called == \/ \E info \in Infos : AddImage(info) \/ RefuseImage(info)
          \/ Close \/ RefuseClose
Working == Capturing \/ Storing \/ Closing
Next == Outside \/ Called \/ Working

Spec == WriterInit /\ [][Next]_vars

-----------------------------------------------------------------------------
(* Properties.                                                             *)

ResType == [offset: Nat, size: Nat, uncompressed: Nat,
            compressed: BOOLEAN, metadata: BOOLEAN]
MetaType == [nodes: Seq(Node), security: Seq(Descriptor)]
TableEntry == [res: ResType, hash: Digest \union MetaType, refs: Nat \ {0}]

(* The Writer's own state keeps its shape.  No stream has zero references: *)
(* that is how the format marks an entry as superseded.                    *)
WriterTypeInv ==
  /\ CaptureTypeInv
  /\ step \in {"idle", "walk", "hash", "captured", "failed", "blob",
              "table", "xml", "seal"}
  /\ {started, closed, err} \subseteq BOOLEAN /\ {pos, at} \subseteq Nat
  /\ blobs \in Seq([res: ResType, hash: Digest, refs: Nat \ {0}])
  /\ images \in Seq([info: Infos, res: ResType, meta: MetaType])
  /\ adding \in Infos \union {NoInfo} /\ captures \in 0 .. MaxImages
  /\ turn \in Nat \ {0} /\ {tableRes, xmlRes} \subseteq ResType
  /\ ret \in {"none", "ok", "error"}

(* What a resource header says is what lies there.                         *)
Describes(res, data) ==
  \E x \in extents :
    /\ x.whole /\ x.off = res.offset /\ x.len = res.size
    /\ x.body = [data |-> data, packed |-> res.compressed]

(* Whatever has been recorded so far, the bytes at its offset are those of *)
(* its own stream: the file has the hash of its entry even if the source   *)
(* was edited between the two passes, and w.pos has never parted from the  *)
(* destination's cursor.                                                   *)
ResourcesOnDisk ==
  /\ \A i \in DOMAIN blobs : Describes(blobs[i].res, blobs[i].hash)
  /\ \A i \in DOMAIN images : Describes(images[i].res, images[i].meta)

(* The nodes of all images that carry a hash.                              *)
Uses(h) ==
  UNION {{<<i, j>> : j \in {k \in DOMAIN images[i].meta.nodes :
                              images[i].meta.nodes[k].hash = h}} : i \in DOMAIN images}

(* Between calls of a Writer that has not failed, the blob table counts    *)
(* every use of a stream by every image, and lists every stream once.  It  *)
(* is what a retry after a failure would spoil.                            *)
ReferencesExact ==
  step = "idle" /\ ~err =>
    /\ \A i \in DOMAIN blobs : blobs[i].refs = Cardinality(Uses(blobs[i].hash))
    /\ \A i, j \in DOMAIN blobs : blobs[i].hash = blobs[j].hash => i = j
    /\ \A i \in DOMAIN images : \A n \in Elems(images[i].meta.nodes) :
         n.hash # ZeroHash => Known(n.hash)

(* A loader takes the compression of the metadata from the header.         *)
MetadataFollowsHeader ==
  \A i \in DOMAIN images : images[i].res.compressed = (opts.codec = "lzx")

Damaged == header.kind = "torn" \/ \E x \in extents : ~x.whole

(* Once a write has failed nothing is ever added to the file, and nothing  *)
(* is sealed: the failure is sticky.                                       *)
NothingAfterDamage == [][Damaged => UNCHANGED dstVars]_vars

(* The Writer as its user sees it: images are added until it is sealed or  *)
(* has failed, and it is never both.                                       *)
Archive == INSTANCE WimArchive WITH
  state <- IF err THEN "failed"
           ELSE IF header.kind = "sealed" THEN "sealed" ELSE "open",
  archive <- [i \in DOMAIN images |-> [info |-> images[i].info,
                                      tree |-> images[i].meta]]

ImplementsArchive == Archive!Spec
=============================================================================
