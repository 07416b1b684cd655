# A TLA+ model of go-wim

The package (`src/`, Go) writes and reads Windows Imaging files. A `Writer`
captures directory trees into one file, stores equal files once and compresses
resources chunk by chunk; a `Reader` opens such a file and serves its trees as
`fs.FS`. This directory models it, checks the models with TLC on small
instances, and proves the central invariants with TLAPS for all of them.

## Inventory

| component | state | operations | hard about it | what makes it correct |
|---|---|---|---|---|
| chunk encoder (`writer.go` `encodeChunks`, `encodeChunk`) | counter, WaitGroup, Compressors kept from call to call, per-worker scratch, result slots | encode one resource | goroutines sharing a slice, a pool, a counter | the result is that of one worker; every call returns |
| capture pass (`capture.go`) | nodes, `c.blobs`, `c.security`, two indexes | walk, stat, hash, deduplicate | the tree changes between stat and hash | blobs, nodes and descriptors are accounts of the same files |
| Writer (`writer.go` `AddImage`, `Close`) | `pos`, `blobs`/`byHash`, `images`, `started`, `closed`, sticky `err`; the destination's cursor and bytes | add an image, close | a second pass over files that may have changed; writes that fail half-way; reference counts over images | recorded resources are where they are said to be; a damaged file is never sealed, and one whose header was cut is refused or holds all that was captured; counts are exact |
| Reader (`reader.go`) | header, `byHash`, `metas`, `infos`; memos of images and tables | `Open`, `Image`, `Boot`, `Images` | it derives image order, boot image and streams from what the writer laid out | what the package wrote, it reads back |
| chunk reading (`resource.go`, file handles of `fs.go`) | a one-chunk cache under a mutex per handle, a chunk table under a `sync.Once`, `wimFile.off` | `Read`, `ReadAt` | shared handles; failed reads and decodes; raw chunks that bypass the cache | every byte returned is the file's byte at that place |
| chunk table (`compressResource`, `readChunkTable`, `plausibleSize`) | none between calls | lay out, parse | both sides derive widths and counts; words wrap | the reader accepts and finds what the writer put; what it accepts it can read |
| metadata and dentry tree (`metadata.go`, `dentry.go`) | offsets of the layout; the parsed tree | encode, parse | a pass that gives out offsets and one that writes; foreign trees are graphs, with lengths that lie | layout and parse are inverse; nothing is read outside of the resource; the parse ends |
| times (`fileTime`, `fileTimeToTime`) | none | convert | two epochs, words that wrap, remainders of negative numbers | a time is read back to the tick |
| image file system (`fs.go`) | the tree under a `sync.Once`; a cursor per directory handle, an offset per file | `Open`, `Stat`, `ReadDir`, `Read` | binary search, paging, goroutines that wait for one that fails | all answers are from one tree |
| `CaptureDir` | the output file | create, capture, close, remove | failure after creation; a kill; output inside of what is captured | no error means a whole file, an error none |
| XML text (`xml.go`) | none | build, parse | escaping, UTF-16 | what was captured is named |
| LZX, chunk to tokens (`lzx/encode.go`, `lzx/decode.go`) | hash chains, tokens, recent offsets; the window and its recent offsets | translate, find matches, copy, translate back | two sides that keep the same state and never compare it; scratch kept between chunks | decompressing inverts compressing |
| LZX, codes to bits (`lzx/huffman.go`, and the bit streams of both) | frequencies, lengths, two queues; accumulators of bits | assign lengths, write and read trees and blocks | codes of limited length, runs, stored blocks on word boundaries, zeros behind the input | the reader is at the writer's bit; nothing is put beside its place; the reader ends |

How they interact: `AddImage` calls the capture pass, then the write pass,
which calls the chunk encoder for every resource and lays the chunks out behind
a chunk table; the chunk encoder calls the LZX Compressor. `Close` sorts and
stores the blob table, the XML and at last the header. `CaptureDir` makes a
file and calls both. `Open` follows the header to the table and the XML; a tree
is loaded on first use from the image's metadata, and a file handle reads its
resource through the chunk table and the decompressor. Goroutines meet in the
chunk encoder (inside the writer) and in the Reader (memos) and its handles
(cache). A Writer itself is used by one goroutine.

## Modules

| module | what it is |
|---|---|
| `ChunkEncoder` | abstract: a resource is asked for, then all its chunks are there |
| `ChunkPool` | `encodeChunks` with its goroutines; implements `ChunkEncoder` |
| `ChunkPoolProofs` | type correctness, schedule independence, race freedom, refinement |
| `Capture` | `capture` and `hashFile` over a tree that is edited meanwhile |
| `WimArchive` | abstract: images are added until the archive is sealed or has failed |
| `WimWriter` | extends `Capture` by `AddImage`, `Close` and the destination; implements `WimArchive` |
| `WimWriterProofs` | of `Capture`: blobs against nodes, the security table, completeness of the walk; of `WimWriter`: types, recorded resources, reference counts, nothing written after damage, refinement |
| `WimReader` | what `Open`, `Image`, `Boot` and a file's content are, as functions of a file |
| `RoundTrip` | composes `WimWriter` and `WimReader` |
| `CaptureDir` | extends `RoundTrip` by the output file, its failures, a kill and a second run |
| `CaptureDirProofs` | the round trip of the file, what `CaptureDir` returns, a kill, an output inside of the captured tree |
| `ReaderAt` | abstract: what `io.ReaderAt` promises of an immutable file |
| `ChunkReader` | `Read` and `ReadAt` down to the backing; implements `ReaderAt` |
| `ChunkReaderProofs` | types, the mutex, the cache, the bytes returned, refinement |
| `ChunkTable` | both sides of the chunk table, loop by loop |
| `ChunkTableProofs` | the reader takes what the writer laid out, and can read what it takes |
| `MetadataLayout` | `encodeMetadata`: offsets of security table, dentries and lists |
| `MetaParser` | `parseMetadata` and `metaParser.list`, call by call, over any metadata |
| `MetaParserProofs` | the parser does not panic |
| `ForeignMetadata` | metadata of other programs, from a description of their lists |
| `FileTime` | `fileTime`, `fileTimeToTime` |
| `MetadataRoundTrip` | composes the four: a captured tree, or somebody else's, through the parser |
| `FileTree` | abstract: a tree of paths that is there at once, or one error |
| `ImageFS` | `imageFS`, `wimFile`, `wimDir` and the memo of the tree; implements `FileTree` |
| `LzxE8` | `encodeE8`, `decodeE8` |
| `LzxChunkProofs` | the decoder follows the encoder, stays in its window and undoes the translation; the match finder finds the longest match |
| `LzxTokens` | matches and literals as symbols and bits; the decoder's loop over them |
| `LzxMatchFinder` | extends `LzxTokens` by the hash chains and lazy matching |
| `LzxChunk` | composes the three: a chunk through `Compress` and `Decompress` up to its tokens |
| `LzxHuffman` | `assignLengths`, `canonicalCodes`, `huffman.build`, `bitReader.sym` |
| `LzxTree` | `writeTree`, `readTree` |
| `LzxBlocks` | `bitWriter`, `bitReader`, block headers, stored blocks |
| `LzxBits` | composes the three: frequencies to bits and back |
| `LzxBitsProofs` | codes are cheapest before they are clamped and lead back to their symbols; trees and blocks are read as written, nothing is read beside |
| `MC*` | instances for TLC |

### ChunkPool

`main` is the goroutine in `encodeChunks` (`seq` is the one-worker loop,
`spawn` the start of the goroutines and the wait), `pc[k]` worker `k`. A claim
is one atomic step; loading a chunk into the Compressor, emitting it into the
scratch and placing the result are three, so that workers interleave in
between. A chunk is its name: which resource, which index. `Declined` are the
chunks that do not get smaller.

### Capture

Entries are `1 .. N` in lexical order. A directory's entries are listed when it
is visited. `Stat` is the `WalkDir` callback up to `hashFile`, `HashFile` the
rest: between the two, and between any other steps, `Edit` changes or removes a
file. SHA-1 is taken to be injective, so that a digest is the content itself.
Names, dates, attributes and sums are left out here. Any of the callback's error
returns is `WalkFails`.

### WimWriter, WimReader, RoundTrip, CaptureDir

The destination is a header and a set of runs of bytes (`extents`), each with
the data written there; `Torn` is a `Write` that fails after some bytes. The
header is what its bytes say (`header.says`): nothing while the place is
reserved (`Zeros`, `writer.go:370`), then what `Close` writes over the zeros.
That is one write (`writer.go:353`), and `SealFails` leaves any prefix of it
(`HeaderParts`): fields in the order of their offsets, the one where the write
stopped with only its lower bytes. `header.kind`, what the Writer did to the
header, is for the properties alone; the reader never sees it. `pos`
is `w.pos`, `at` the destination's own cursor, which is anywhere at first.
`StoreBlob` reads the file again, compares the hash and writes; `ReferBlob`
counts. `Close` is four steps, any of which may fail. `blobs` is `w.blobs` and
`byHash` together: an index from hash to place that is filled with it. Images
keep the whole tree as one value, `Metadata`; the GUID is left out.

`WimReader` has no state: `Open` builds everything from the file. It finds a
resource only where a run lies exactly as the resource header says. `Opens` is
the checks of `Open` on those bytes and no more, so a header that is cut when
the XML's resource header is there (bytes 72 to 95 of 208) opens: the table and
the XML are all there, and of the boot fields behind them some or all are
missing. Then everything that was captured reads back, `Images` may lack the
boot mark or have it on another image, and `Boot` finds the marked image (where
it is the only one, or its resource and index are both there) or refuses. It
never takes another one, for the copy of the resource header is written before
the index and is compared with it (`NamedTwice`). `WhatOpensReadsBack` and
`OnlyTheCaptureOpens` say this.

`CaptureDir` runs the Writer's own actions between `os.Create` and the file's
`Close`. `lost` is what a failed `Close` takes with it, `kept` a failed
`os.Remove`. The process is killed at any step; then, or after an error, the
call is made again over what is at `out`.

### ChunkReader

`pc[g]` is a goroutine in `ReadAt`. The buffers of a handle's cache are known
by the chunk they hold, or `Junk`; byte `i` of the file is `i`. Reading the
stored bytes, decoding them and copying are separate steps, so that only the
mutex keeps two goroutines apart. The backing fails at any read, after any part
of it. A call without a cache is one on a fresh handle. The check at the loop's
end that all bytes were produced is left out: `ChunkTable` shows that an
accepted table covers the resource.

### ChunkTable

The loops of `compressResource` and of `readChunkTable` are actions, one step
per iteration. `NarrowMax` stands for `0xffffffff`, `WordSize` for 2^64.
`Replace` puts any other size and any other entries in the resource's place.
The writer does not check `maxResourceSize`; the model assumes resources within
it (`MaxLen <= MaxResource`).

### MetadataLayout, MetaParser, MetadataRoundTrip

Offsets and lengths are the real ones in bytes (102 for a dentry's fixed part,
8 for its alignment), so that a list's end, a name's terminator and an offset
of zero are where the code has them. What lies at an offset is a cell, a dentry
or a stream, not bytes. `Lay*`, `Open*`, `Place*`, `Close*` are the steps of
the layout's queue; `HandOver` is the pass that writes, which puts a dentry
where the first pass said. The parser keeps its recursion as a stack of frames,
one per call of `list`, the dentries of each as they are read; `astray` stands
for a read of bytes that nothing was put at, and `NoPanic` forbids one outside
of the resource. Of a foreign resource, any length, offset, name, stream and
attribute may be as the format has it or a lie; words wrap at `WordSize`.

A name is a number, its order the order of names; `Utf16` makes the same number
of two names that differ only in bytes that are not UTF-8. That no name of a
file is empty, `.` or `..` is `NamesAssumption`. Times are folded into what 64
bits of ticks hold (`Folded`), as the arithmetic of `capture.go:207` does.

The writer bounds neither the depth of a tree nor the number of its dentries;
the parser takes at most `maxTreeDepth` and `maxTreeNodes` (`Room`).
`OwnTreeReadsBack` names both, and that a tree within them is read back. In
`RoundTrip` an image's metadata is one value, so what is said there of trees
presumes one that the parser takes.

### ImageFS

The dentry tree is one value, as the parser makes it. `once` is the memo's
state; a goroutine that finds it running waits. A search of the children is the
binary search of `sort.Search`, a path a sequence of names.

### LzxChunk

`LzxChunk` extends `LzxE8` and `LzxMatchFinder`, which extends `LzxTokens`. A
chunk is a sequence of small numbers, one of them `Call`. The scans of
`encodeE8` and `decodeE8` move byte by byte (`Pass`) or over a call. A token is
found as the code does it: chains by hash, head cleared and prev kept from chunk
to chunk, the recent offsets tried first, one byte of lazy matching. It becomes
a list of elements, each a symbol of a tree or bits of a width; the decoder asks
for elements by kind and width and is corrupt when something else comes. Another
encoder (`by = "other"`) takes any match there is, from `minMatch` (2) bytes on
and to any offset that a slot can say, where this one takes none below
`minLength` (3); `"damaged"` sends any symbols. The constants are those of `lzx.go`, and `TokenAssumption` says of them
what the tables there have: slots that follow each other by their footer bits,
three of them for the recent offsets, the window's size as the end.

### LzxBits

Frequencies become lengths by the two queues of `huffmanLengths`, clamped and
repaired by `clampLengths`; the decoder has only the lengths. A tree is written
and read run by run; `before` is the writer's own copy of the lengths of the
block before, from which another encoder makes its deltas, so that lengths which
the reader spoils before it has used them are seen. A block is a header, a number of bits of codes or a number
of stored bytes; the reader's accumulator is fed by words, zeros behind the
input. `held` and `nbits` are how many bits either side holds, and the reader's
place follows from what it was fed and what it took. What a code *means* is
in `CodesArrive`, and that it is a cheapest one in `HuffmanIsOptimal`; a block only has some number of bits of trees and tokens
(`CodeSizes`), and the reader must be right for each.

## Runs

| run | bounds | what it shows |
|---|---|---|
| `chunk_pool` | 3 workers, 2 resources, 3 chunks, one of each declined | the second resource meets used Compressors; fewer chunks than workers, as many, and the one-worker loop all occur |
| `capture` | 5 entries in two directories, 2 edits | an edit before and after a stat, equal files, files made equal by an edit, removal, cancellation |
| `empty_stream` | as `capture` | finding: an empty stream can become a blob |
| `round_trip` | 2 files, 3 captures, 1 edit, both codecs, the cursor behind the start; a bootable and a plain image; bytes of 2 values | equal-length contents of which one packs, every write failing at every byte, the header's at every byte of every field |
| `chunk_reader` | 4 chunks of 2 bytes, the last short; one raw, one damaged; 3 goroutines, 3 calls, 2 faults | reads inside a chunk, across chunks, to and over the end, with `Read` and `ReadAt` on one handle |
| `eof_at_end` | as `chunk_reader`, all chunks sound | finding: a full read with `io.EOF` is taken for a failure |
| `chunk_table` | up to 6 bytes in chunks of 2, entries of 1 and 2 bytes | every length below, at and above the change of width; every foreign table |
| `metadata` | captured trees of up to 5 nodes, and of 7 and 8, flat and in pairs; names of 1 and 4 units, two security tables, times of 70 seconds on either side of 1970 in words of 8 bits, which wrap there; 400 foreign resources of up to 3 lists; limits of depth 3 and 7 nodes | empty directories, several levels, padded and unpadded dentries, trees too deep, just small enough and one dentry too large, names that fall together; times that fold; shared and cyclic lists, links, streams, lengths that lie or wrap |
| `image_fs` | 2 goroutines, 14 requests, 3 trees, one of them corrupt | paths that are there, through a file, between and behind names; directories and files read in pieces; loading that fails while the other waits |
| `capture_dir` | 2 files, one of them `out`; 1 edit, 2 calls | every failure of the file system, a kill at every step, then the same again |
| `lzx_chunk` | chunks of up to 13 bytes of 2 or 3 values, operands of 4 digits; pairs of 5 bytes; 3 buckets, chains of 4, windows of 16 | two calls and an operand that looks like one; buckets shared, chains cut, the longest match and the farthest offset; every match another encoder may take |
| `lzx_bits` | 8 symbols, 6 of them used, limit 3; trees of 4 and 5 lengths; up to 3 blocks in a window of 6 | codes two levels too deep; runs below, at and above a run symbol's reach; odd and even stored blocks around codes that end before, on and behind a word; damage of several lengths |

The bounds suffice for what is told apart: a third worker is the first that can
meet two others, a second image the first that meets stored streams and a boot
mark, a third image (number 11 in bytes of two values) the first whose index, cut
in half, is the index of another, a third call the first that meets a cache filled by one and spoilt by
another. Two changes in a file's content matter only around its stat and its
two reads. A tree of five nodes is the first with a directory behind a sibling
that has children of its own, below a root that has both; a second chunk is the
first that meets chains left behind; a third block the first between two
others. The tables of LZX (slots, runs, limits) are smaller, and every boundary
of theirs is in reach.

Deadlock is checked in `round_trip`, as a Writer can always be called, and in
`image_fs`, as a goroutine is in a call or makes one. The other systems really
stop: a capture ends, callers stop calling, a resource is read once.

**Fairness.** `ChunkPool`, `ChunkReader` and `ImageFS` assume weak fairness of
every goroutine's steps: the Go scheduler runs what is runnable. No fairness of
callers is assumed. In `ChunkReader` calls are bounded, so a mutex cannot be
taken away from a waiting goroutine for ever; Go's mutex is fair to waiters in
any case. `MetadataRoundTrip` and `LzxBits` are single loops, each a call of
one goroutine, and assume weak fairness of their next step. The Writer's
specification has no fairness and no liveness property: its caller may leave it
at any time; nor has `CaptureDir`, whose process may be killed, nor the others.

## Findings

* `empty_stream`: `capture.go:146` decides by the size of a stat, and hashes
  later. A file truncated in between gets an entry of length zero, against the
  comment at `capture.go:144`. `round_trip` shows that such a file still reads
  back; its entry and the next lie at one offset, so their order in the sorted
  table is left open.
* `eof_at_end`: `resource.go:249` fails on `io.EOF` with a full read, which
  `resource.go:198` calls no failure.

Smaller ones that the properties above are stated around:

* A tree deeper than `maxTreeDepth` (64), or of more than `maxTreeNodes` (2^20)
  dentries, is captured without an error and refused by the parser
  (`dentry.go:187`, `dentry.go:223`), though `README.md:102` says that captures
  round-trip. `OwnTreeReadsBack` says that it is refused, not misread.
* A header of which only the first 96 of 208 bytes were written opens
  (`writer.go:353`, `reader.go:105`), without its boot mark or with half of it. The Writer has
  returned an error then, and `CaptureDir` removes the file; it stays when the
  removal fails, and for other users of `Close`. All that was captured is in it.
* File names that differ only in bytes that are not UTF-8 become one name
  (`capture.go:100`); the parser refuses the directory, of which the comment at
  `dentry.go:203` says that no real capture produces it. Again refused, not
  misread.
* When `os.Remove` fails as well (`writer.go:606`), a partial file stays and
  the error does not tell; the comment at `writer.go:598` says that none is
  left. `ResultTellsTheFile` makes the exception.
* A time more than 29 thousand years before 1970 wraps in `capture.go:207`
  and may come out as another date, where the comment says it clamps to zero.
  `OwnTreeReadsBack` says which (`Folded`).
* `clampLengths` deepens the shallowest symbol, which does not cost the fewest
  bits, as `huffman.go:125` says it does. The code is complete all the same.
* `plausibleSize` (`resource.go:290`) refuses streams over 64 GiB, which the
  Writer does not.

## Proofs

TLAPS checks every step; nothing is assumed but the named `ASSUME`s on
constants.

* `ChunkPoolProofs`. The inductive invariant adds to the type: the counter is
  above every claimed index; what each stage of a worker holds (`load`: an
  index of its own; `emit`: its chunk in its Compressor; `place`: also its
  scratch); the WaitGroup counts the running workers; every claimed index is
  either placed or in a worker's hands. Without the last part, `wg = 0` would
  say nothing of the result. From it follow the four theorems; refinement maps
  every worker step to a stutter and `Return` to `Deliver`.
* `WimWriterProofs`, the capture pass. The invariant needs one more fact than the properties:
  between stat and hash the node being made is the last one and its hash is
  still zero (`Pending`), so that hashing adds it to the users of its stream
  and takes it from none. That the walk is complete has an invariant of its own
  (`WalkInv`): what is behind the walk has a node, and what lies in a directory
  behind it was listed. A step of the walk passes over no directory, for the
  least one passed over would lie in a directory that was visited; a set of
  numbers has a least element by well-foundedness.
* `WimWriterProofs`, the Writer. That a recorded resource is where it is said to be rests
  on `pos = at`, which holds only while the header is reserved: before `start`
  the cursor is anybody's, after the seal it is behind the header, after a torn
  header it is anywhere. So the invariant also says how the header stands to
  the Writer's progress (`HeaderFollows`), and what each phase of a call knows
  (`Phases`): a call in progress is on a Writer that has not failed, one that
  adds is on an open Writer, one that writes has started, one that seals has an
  image. `Damaged => err` is the rest; the theorem that nothing follows damage
  is then a fact about the guards. Capturing inside the Writer keeps
  `CaptureInv` by the lemmas of the first part. That reference counts are exact
  needs what is counted in the middle of a call (`Counts`): the uses by the
  images that are there, and those by the image to come for the streams the loop
  of `addImage` has been at. A stream that is new to the table has no use yet,
  since the table lists all that the images use. Refinement maps
  `StoreMetadata` to `Add`, every failure to `Fail`, `Seal` to `Seal` and all
  other steps to a stutter.
* `CaptureDirProofs`, the round trip. A resource header names an offset and a
  length, so reading back rests on no two whole runs having both in common
  (`RunsApart`). While the header is reserved every run ends at or before the
  cursor, and what is written lies behind it; the exception is a stream with
  no bytes, which shares its place with what follows, and there is one such
  content only. Images have increasing offsets (`ImagesInOrder`), each behind
  a metadata resource that is not empty, so that a table sorted by offset,
  which leaves the order of equal offsets open, still has them in the order
  they were added: the i-th live metadata entry is the one with i - 1 others
  before it, and counting them is the one argument on cardinalities
  (`RankOf`). `SealingFollows` says what each step of `Close` leaves to the
  next: the table written is the sorted table of now, the XML tells of the
  images of now, and nothing can be added in between. What a cut header says is
  one of `HeaderParts`, from the first bytes on (`Begun`). If it ends before the
  sizes of the XML are whole, the XML is empty or has two lengths, and `Open`
  refuses it (`PartsAreRefused`). Otherwise only boot fields differ from the
  whole one (`Names`), so the contents are those of a sealed file
  (`NamedContents`); and the index is either 0 or stands behind a whole copy of
  the boot image's resource header (`Marks`), whose offset is no other image's
  and not zero, as images lie one behind the other and behind the header. `SealedReadsBack` and
  `OpenReadsBack` follow the code of `Open`, `Image` and `Boot` on such files. `RoundTripAssumption`
  names what the round trip takes for granted of data: there is one empty
  content, and what does not parse is not data.
* `CaptureDirProofs`, `CaptureDir`. From `os.Create` until the call is over the
  output's entry holds nothing, and the edits of others pass it by; so the walk
  finds it with size 0 and never hashes it. Between stat and hash the last node
  is that of the entry under the cursor, which is therefore not the output. What
  it returns is true because each phase knows how far its Writer has got
  (`PhasesOfCall`): one image when `Add` has succeeded, a sealed header when
  `Finish` has; and while the file is this call's, what the Writer's proofs need
  holds of it (`Filed`), anew after every `os.Create`.
* `ChunkReaderProofs`. The mutex makes the cache and the buffers one goroutine's
  (`Mine`), which `StepKeeps` turns into a frame rule: a step of one goroutine
  disturbs no other. That the bytes are right needs the place of a call between
  its chunks (`Produced`): it has produced nothing and its offset lies in the
  chunk at hand, or it has produced all up to where that chunk begins, or all it
  wanted. The arithmetic (division by the chunk size, the short last chunk) is
  in four lemmas for every chunk size and file. `Streams` ties `wimFile.off` to
  the request of the one `Read` in progress. Refinement maps each `Return` to
  `Answer`; that a return with `nil` or `EOF` is justified is `EndSays`.
* `ChunkTableProofs`. For every chunk size, entry width, length and outcome of
  compression. On the writer's side `BeginOf` names where each chunk begins, by
  the table or by what is filled so far; consecutive ones differ by the chunk
  between them. No entry wraps because a narrow one is used only for data in its
  range, and the two sides agree on the width because both ask the same of the
  same length. The reader's side (`Boundaries`) holds for any entries at all:
  boundaries in order and inside the resource differ by less than a word, so the
  difference of two words is the difference.
* `LzxChunkProofs`, translation. Encoder and decoder scan the same way, and a scan that meets a
  call jumps over its operand, so what was rewritten cannot be met again. The
  invariant names the set of calls that were met by the encoder and not yet by
  the decoder: they do not overlap, everything outside of them is the plain
  chunk, and inside of them is the operand as encoded for its place. The scan's
  position is never inside of one. That `Decoded` inverts `Encoded` at each
  place is one lemma of arithmetic over the two ranges. Between the two scans
  the chunk is in tokens, and `buf` is what was compressed because the window is.
* `LzxChunkProofs`, tokens. Between the steps of the two sides the decoder is
  behind by the one token that was emitted, a literal or a match (`InvStream`):
  its window is the data before that token, its recent offsets those before it.
  `TokenReads` says that the elements of a token are read back as its length
  and its offset: through a recent slot because both sides hold the same three,
  through a position slot because the slots of `basePosition` cover the window
  without a gap and each has just the bits of its width. The aligned tree takes
  the low bits of it, and every symbol written was counted. `CopiedRemakes` is
  the overlapping copy, in which a byte may be one that was just written. For
  damage only the decoder's own checks count: `InvType` is kept by them alone.
* `LzxChunkProofs`, match finder. `FindsLongest` needs to know what the chains
  are (`ChainInv`): each bucket has the last position that hashes to it, and
  each such position the one before it. The entries of `prev` that an earlier
  chunk left are at positions not yet passed, which no chain leads to. The
  search has then seen, after n steps, the n latest positions that begin alike
  (`SearchSees`), so within `maxChain` all of them, and it ends early only at a
  match of `goodMatch` or all there can be. Loops are recursive functions over
  numbers (`Inserted`, `Searched`, `Copied`), and a fact about every step of
  one is proved with the least step at which it fails.
* `LzxBitsProofs`, trees. An item is a promise: between writer and reader lie
  as many lengths as it says, all of them the one it names, counted from the
  length that the reader holds of the block before (`Carries`). So the lengths
  behind the reader must still be those of before, as the writer kept them, which
  are zero for a chunk of this package. That a delta leads back, and that a run always has an end, are
  lemmas. That no length is too long for the decoder follows from the clamping.
* `LzxBitsProofs`, codes. One number carries all of it: of the words of m bits a
  code of l bits takes 2^(m - l), and `Kraft` is what all codes take. While the
  queues are merged every used symbol is a leaf or below a node (`MergeInv`), so
  each gets a length and no other symbol does. From then on `LengthsInv` bounds
  the lengths by the limit and, while they are shortened, `Kraft` by all words.
  The two loops of `clampLengths` cannot end elsewhere than at exactly all of
  them: if all codes are at the limit they fit, as there are enough words for
  the alphabet (`LongestFit`), and while words are free the deepest symbol can go
  up (`SomeFit`). `canonicalCodes` and `build` then count the same thing: the
  first code of a length and what is left of the table are `Kraft` of the shorter
  ones (`FirstCodeIs`, `LeftIs`). A code is the first of its length plus the
  symbol's rank, so the front of it lies behind all codes of each lesser length,
  where `sym` goes on, and at its own length the rank is the place in the table
  (`SymbolIsFound`).
* `LzxBitsProofs`, Huffman's argument, as an invariant of the merging. `Heap`:
  both queues are in order, roots have no symbol in common and weigh what is
  below them, and no node weighs more than twice the lightest root, which is why
  a new one can be appended and why the lighter of two fronts is the lightest
  root of all (`NextLightest`). `NoneCheaper`: for every code there are depths of
  the roots that fit and cost, together with what has been merged, no more than
  it. At first the leaves are the roots and the depths are the code's. A merge
  keeps it (`LightestMerge`): among the depths that fit take the cheapest; the
  deepest root is not alone there, or it could go up (`DeepestGoesUp`); exchange
  the two deepest for the two lightest (`Exchange`), and count the pair as one
  root above. With one root left, what has been merged is the code. Codes are
  compared up to one bit less than there are symbols, as long as a complete code
  can be.
* `LzxBitsProofs`, blocks. The reader takes a word when it has too few bits, so
  it stays in the stream if every bit it asks for lies in a whole word
  (`EnoughBits`): the last block ends at a word boundary, from which only the
  padding of stored bytes may be missing, and nothing reads bits behind stored
  bytes. `BitsExact` then says that a read moves the place by as many bits as it
  takes, `RealignExact` that realigning ends on the next boundary, a whole word
  further if it was on one, and `HeaderExact` that the odd byte of the block
  before is skipped. `WriterFollows` keeps the bits of `bitWriter` together, from
  the accumulator to the last word that `flush` fills up.
* `MetaParserProofs`. For any metadata whatever (`IsResource` says only what
  the fields of a cell can hold), the stack keeps its shape: the offset of
  every call is a number, its depth is its place, and between a dentry and the
  next the topmost call has that dentry open. Every read is behind a `Fits`
  that cannot wrap, so nothing past the metadata is reached; a call deeper than
  `maxTreeDepth` is refused before it begins.

`LzxHuffman` says sums and orders in its own words (`Sum`, a function over
numbers, and `InOrder`, by rank), since the prover cannot look into the folds
and the sort of the library.

Only model-checked: liveness everywhere (ENABLED is out of the prover's reach);
and that layout and parse of the metadata are inverse (`OwnTreeReadsBack`,
`ForeignReadAsMeant`), which is stated with recursive operators over trees and
lists, and the prover does not take these.

## Not modelled

* Files that another program wrote, at `Open`: superseded metadata, duplicate
  hashes, a boot header that disagrees. `WimReader` is a function of what
  this package's Writer leaves, whole or cut. Below `Open`, foreign chunk tables, metadata, trees and blocks are.
* The table memo keyed by offset alone (`resource.go:49`): this package's
  resources have offsets of their own.
* How many bits a chunk takes: `alignedPays` and the comparison that makes
  `Compress` decline a chunk are nondeterministic choices, since every outcome
  has to be right. The hash of the match finder is any function of three bytes.
* Escaping of XML and decoding of UTF-16, conversions of text without state;
  the GUID, which is random; permission bits, which are constants.
