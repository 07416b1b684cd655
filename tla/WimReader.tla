----------------------------- MODULE WimReader ------------------------------
(***************************************************************************)
(* Opening a WIM: readHeader, readBlobTable, readXML, Image and Boot of    *)
(* reader.go, as functions of the file.  A file is a header and the runs   *)
(* of bytes behind it; reading a resource yields the data whose bytes the  *)
(* resource header names exactly, or nothing that parses.                  *)
(***************************************************************************)
EXTENDS Integers, Sequences, FiniteSets

CONSTANTS
  NullHash,  \* the all-zero hash
  Corrupt    \* in place of a result: the error

(* plausibleSize: a stored resource is as long as what it holds, and a     *)
(* compressed one needs a codec.                                           *)
Plausible(file, res) ==
  IF res.compressed THEN file.header.codec = "lzx" ELSE res.size = res.uncompressed

RunsAt(file, res) ==
  {x \in file.extents : /\ x.off = res.offset /\ x.len = res.size
                        /\ x.whole /\ x.body.packed = res.compressed}

(* What lies there, unasked whether a resource can be as long as this one. *)
DataAt(file, res) ==
  IF RunsAt(file, res) # {} THEN (CHOOSE x \in RunsAt(file, res) : TRUE).body.data
  ELSE Corrupt

(* readResource.                                                           *)
ReadResource(file, res) ==
  IF Plausible(file, res) THEN DataAt(file, res) ELSE Corrupt

(* readBlobTable takes the entries as they lie; a table that is flagged as *)
(* compressed, or is empty, is refused.                                    *)
BlobTable(file) ==
  IF file.header.table.compressed THEN <<>> ELSE DataAt(file, file.header.table)

(* Metadata resources that have not been superseded are the images, in the *)
(* order of the table.                                                     *)
LiveMetas(table) == {k \in DOMAIN table : table[k].res.metadata /\ table[k].refs # 0}

ImageRes(table, i) ==
  table[CHOOSE k \in LiveMetas(table) : Cardinality({j \in LiveMetas(table) : j <= k}) = i].res

(* byHash: the first entry of a hash counts, and the zero hash is no key.  *)
StreamEntries(table, h) ==
  {i \in DOMAIN table : ~table[i].res.metadata /\ table[i].hash = h /\ h # NullHash}

ByHash(table, h) ==
  LET es == StreamEntries(table, h) IN
  IF es = {} THEN Corrupt ELSE table[CHOOSE i \in es : \A j \in es : i <= j].res

(* readXML: the identities the XML gives to the images it names, and the   *)
(* boot mark, which is the header's to give.                               *)
ImageInfos(file) ==
  LET names == ReadResource(file, file.header.xml).names IN
  [i \in 1 .. file.header.count |->
     [name |-> names[i], boot |-> file.header.bootIndex = i]]

(* Open succeeds.  Nothing but these bytes tells a header that is whole    *)
(* from one that is not.  XML of no bytes is too short to be XML.          *)
Opens(file) ==
  /\ file.header.lead
  /\ file.header.xml.size # 0
  /\ ReadResource(file, file.header.xml) # Corrupt
  /\ BlobTable(file) \notin {Corrupt, <<>>}
  /\ Cardinality(LiveMetas(BlobTable(file))) = file.header.count
  /\ file.header.bootIndex \in 0 .. file.header.count
  /\ Len(ReadResource(file, file.header.xml).names) <= file.header.count

(* Image(i), its tree loaded.                                              *)
ImageTree(file, i) == ReadResource(file, ImageRes(BlobTable(file), i))

(* What a file with this hash reads as.                                    *)
StreamData(file, h) ==
  LET res == ByHash(BlobTable(file), h) IN
  IF res = Corrupt THEN Corrupt ELSE ReadResource(file, res)

(* Bug: the index alone is trusted.                                        *)
NamedByIndex(file, i) == TRUE

(* The header's copy of the metadata resource is that of this image.       *)
NamedTwice(file, i) ==
  file.header.bootMeta.offset \in {0, ImageRes(BlobTable(file), i).offset}

(* Boot: the image the header names twice, or the only one there is.       *)
BootImage(file) ==
  LET table == BlobTable(file)
      i == file.header.bootIndex IN
  CASE i = 0 /\ Cardinality(LiveMetas(table)) = 1 -> 1
    [] i = 0 /\ Cardinality(LiveMetas(table)) # 1 -> Corrupt
    [] i # 0 /\ NamedTwice(file, i) -> i
    [] OTHER -> Corrupt
=============================================================================
