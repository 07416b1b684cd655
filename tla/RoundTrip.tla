------------------------------ MODULE RoundTrip ------------------------------
(***************************************************************************)
(* The writer and the reader of this package, one on the file of the other *)
(* (README: the reader round-trips this package's own captures).           *)
(***************************************************************************)
EXTENDS WimWriter

CONSTANT Corrupt

XmlType == [names: Seq(STRING), total: Nat]

(* There is one empty content, and what does not parse is no data.         *)
ASSUME RoundTripAssumption ==
  /\ \A c, d \in Content : Size[c] = 0 /\ Size[d] = 0 => c = d
  /\ Corrupt \notin ResType \union Seq(TableEntry) \union XmlType

Reader == INSTANCE WimReader WITH NullHash <- ZeroHash

Output == [header |-> header.says, extents |-> extents]
Sealed == header.kind = "sealed"

BootChoice ==
  IF BootTaken THEN BootIndex ELSE IF Len(images) = 1 THEN 1 ELSE Corrupt

(* The images in the order they were added, each with its name and tree,   *)
(* behind every hash of a tree the file that had it, and the bytes before  *)
(* the XML counted in it.                                                  *)
ContentsReadBack ==
  /\ Output.header.count = Len(images)
  /\ \A i \in DOMAIN images :
       /\ Reader!ImageInfos(Output)[i].name = images[i].info.name
       /\ Reader!ImageTree(Output, i) = images[i].meta
       /\ \A n \in Elems(images[i].meta.nodes) :
            n.hash # ZeroHash => Reader!StreamData(Output, n.hash) = n.hash
  /\ Reader!ReadResource(Output, Output.header.xml).total = Output.header.xml.offset

(* A sealed file opens, and reads back with every boot mark.               *)
SealedFileReadsBack ==
  Sealed =>
    /\ Reader!Opens(Output) /\ ContentsReadBack
    /\ Reader!ImageInfos(Output) = [i \in DOMAIN images |-> images[i].info]
    /\ Reader!BootImage(Output) = BootChoice

(* A file that opens, sealed or left with any part of its header, reads    *)
(* back.  Of the boot fields, which come last, a part may be missing: then *)
(* Boot finds the image that was marked or refuses, and never another one. *)
WhatOpensReadsBack ==
  Reader!Opens(Output) =>
    ContentsReadBack /\ Reader!BootImage(Output) \in {BootChoice, Corrupt}

(* What is sealed opens, and what opens is what was captured.              *)
FileReadsBack == SealedFileReadsBack /\ WhatOpensReadsBack
=============================================================================
