----------------------------- MODULE MetaParser -----------------------------
(***************************************************************************)
(* parseMetadata (dentry.go): a metadata resource read as a dentry tree.   *)
(* The tree is a graph of offsets that need not be acyclic, and every      *)
(* number in it may be any number a field can hold.                        *)
(*                                                                         *)
(* A resource is its length, the two numbers of its security table, and    *)
(* cells: the dentries and stream entries somebody wrote, by their offset. *)
(* Every byte outside the cells is zero.  A dentry read anywhere but at a  *)
(* dentry yields garbage that nothing is known of: the parse is "astray".  *)
(* Names are numbers, compared as the strings are; 0 is the empty one.     *)
(***************************************************************************)
EXTENDS Integers, Sequences, SequencesExt

CONSTANTS
  MaxTreeDepth, \* maxTreeDepth
  MaxTreeNodes, \* maxTreeNodes
  WordSize,     \* the values of a uint64
  Stored,       \* the hashes of the blob table
  NullHash,     \* the all-zero hash
  Unusable      \* names that are no path component: ".", "..", "a/b"

ASSUME ParserAssumption ==
  /\ MaxTreeDepth \in Nat /\ MaxTreeNodes \in Nat
  /\ WordSize \in Nat /\ WordSize > 8

VARIABLES
  md,      \* the resource
  state,   \* "idle", "lists", "streams", "read", "refused", "astray"
  stack,   \* the calls of list that have not returned
  nodes,   \* p.nodes
  reach,   \* history: the end of the furthest bytes that were sliced
  root     \* what was read

pvars == <<md, state, stack, nodes, reach, root>>

-----------------------------------------------------------------------------
fixedSize == 102
streamEntryHeader == 38

(* alignUp8 saturates.                                                     *)
AlignUp8(n) == IF n > WordSize - 8 THEN WordSize - 1 ELSE ((n + 7) \div 8) * 8

(* Bug: the end is computed, and wraps.                                    *)
FitsWrapped(at, n) == (at + n) % WordSize <= md.len

Fits(at, n) == at <= md.len /\ n <= md.len - at

(* The bytes a cell's fields and names take, whatever length it records.   *)
Extent(c) ==
  IF c.kind = "dentry" THEN fixedSize + c.nameLen + 2 + c.shortLen
                       ELSE streamEntryHeader + c.nameLen

Zero(at) ==
  /\ \A o \in DOMAIN md.cells : at + 8 <= o \/ o + Extent(md.cells[o]) <= at
  /\ at >= md.total

IsDentry(at) == at \in DOMAIN md.cells /\ md.cells[at].kind = "dentry"
IsStream(at) == at \in DOMAIN md.cells /\ md.cells[at].kind = "stream"

Further(end) == IF end > reach THEN end ELSE reach

(* A call of list: where it reads, how deep it is, what it has read, and   *)
(* the dentry whose streams or children are being read.                    *)
Call(at, depth) == [at |-> at, depth |-> depth, out |-> <<>>, open |-> <<>>]

Top == stack[Len(stack)]
Open == Top.open[1]
WithTop(c) == [stack EXCEPT ![Len(stack)] = c]

Refused ==
  /\ state' = "refused"
  /\ UNCHANGED <<md, stack, nodes, root>>

-----------------------------------------------------------------------------
ParseInit ==
  /\ state = "idle" /\ stack = <<>> /\ nodes = 0 /\ reach = 0 /\ root = <<>>

(* treeOffset.                                                             *)
TreeAt == AlignUp8(md.total)
TableIsPossible ==
  /\ md.len >= 8 /\ md.total >= 8
  /\ md.count <= (md.total - 8) \div 8
  /\ TreeAt <= md.len

Begin ==
  /\ state = "idle"
  /\ reach' = Further(IF md.len >= 8 THEN 8 ELSE 0)
  /\ IF TableIsPossible
     THEN state' = "lists" /\ stack' = <<Call(TreeAt, 0)>> /\ UNCHANGED <<md, nodes, root>>
     ELSE Refused

(* The list runs past the metadata.                                        *)
RunsPast ==
  /\ state = "lists" /\ ~Fits(Top.at, 8)
  /\ Refused /\ UNCHANGED reach

ByName(d, e) == d.name < e.name

(* Bug: the names are not compared after sorting.                          *)
TwiceUnchecked(s) == s = <<>>

Twice(s) == \E i \in DOMAIN s : i + 1 \in DOMAIN s /\ s[i].name = s[i + 1].name

(* list returns its dentries to the call that read their directory, or to  *)
(* parseMetadata, which wants one directory.                               *)
Returned(s) ==
  LET rest == Front(stack)
      up == rest[Len(rest)]
      d == [up.open[1].d EXCEPT !.children = s] IN
  IF rest = <<>>
  THEN IF Len(s) = 1 /\ s[1].dir
       THEN state' = "read" /\ root' = s[1] /\ stack' = <<>> /\ UNCHANGED <<md, nodes>>
       ELSE Refused
  ELSE /\ stack' = [rest EXCEPT ![Len(rest)] = [up EXCEPT !.out = Append(@, d), !.open = <<>>]]
       /\ UNCHANGED <<md, state, nodes, root>>

(* The terminator: the dentries are sorted, and no name may occur twice.   *)
ListEnds ==
  /\ state = "lists" /\ Fits(Top.at, 8) /\ Zero(Top.at)
  /\ reach' = Further(Top.at + 8)
  /\ LET s == SortSeq(Top.out, ByName) IN IF Twice(s) THEN Refused ELSE Returned(s)

Inside(c) ==
  /\ c.length >= IF c.kind = "dentry" THEN fixedSize ELSE streamEntryHeader
  /\ Fits(Top.at, AlignUp8(c.length))

NameFits(c) == c.nameLen + 2 + c.shortLen <= c.length - fixedSize
NameIsUsable(c) == IF Top.depth = 0 THEN c.name = 0 ELSE c.name \notin Unusable \cup {0}

DentryOf(c) ==
  [name |-> c.name, dir |-> c.dir, hash |-> c.hash, written |-> c.written,
   data |-> FALSE, missing |-> FALSE, children |-> <<>>]

(* Bug: the dentry is counted after the limit is looked at.                *)
RoomAfterCounting == nodes <= MaxTreeNodes

Room == nodes < MaxTreeNodes

(* One dentry, up to its streams.                                          *)
ReadDentry ==
  /\ state = "lists" /\ Fits(Top.at, 8) /\ IsDentry(Top.at)
  /\ LET c == md.cells[Top.at]
         fine == Room /\ NameFits(c) /\ NameIsUsable(c) IN
     /\ reach' = Further(Top.at + IF ~Inside(c) THEN 8
                                 ELSE fixedSize + IF NameFits(c) THEN c.nameLen ELSE 0)
     /\ IF Inside(c) /\ fine
        THEN /\ nodes' = nodes + 1 /\ state' = "streams"
             /\ stack' = WithTop([Top EXCEPT !.at = @ + AlignUp8(c.length),
                  !.open = <<[d |-> DentryOf(c), sub |-> IF c.link THEN 0 ELSE c.sub,
                              i |-> 0, streams |-> c.streams]>>])
             /\ UNCHANGED <<md, root>>
        ELSE Refused

(* Bug: a stream's hash is taken whatever the stream's name.               *)
HashAfterAny(c) == IF Open.i = 0 /\ Open.d.hash = NullHash THEN c.hash ELSE Open.d.hash

(* A file with streams keeps the hash of its unnamed one there, first.     *)
HashAfter(c) ==
  IF Open.i = 0 /\ c.nameLen = 0 /\ Open.d.hash = NullHash THEN c.hash ELSE Open.d.hash

(* Bug: the entry's length is not rounded.                                 *)
StreamStepUnaligned(c) == c.length

StreamStep(c) == AlignUp8(c.length)

(* One of the stream entries between a dentry and the next.                *)
ReadStream ==
  /\ state = "streams" /\ Open.i < Open.streams
  /\ Fits(Top.at, streamEntryHeader) /\ IsStream(Top.at)
  /\ reach' = Further(Top.at + streamEntryHeader)
  /\ LET c == md.cells[Top.at] IN
     IF Inside(c)
     THEN /\ stack' = WithTop([Top EXCEPT !.at = @ + StreamStep(c),
               !.open = <<[Open EXCEPT !.i = @ + 1, !.d.hash = HashAfter(c)]>>])
          /\ UNCHANGED <<md, state, nodes, root>>
     ELSE Refused

(* Bug: an entry is read without looking where the metadata ends.          *)
NoStreamUnbounded ==
  /\ state = "streams" /\ Open.i < Open.streams
  /\ Fits(Top.at, streamEntryHeader) /\ Zero(Top.at)
  /\ Refused /\ UNCHANGED reach

(* Zero bytes have no length that an entry can have.                       *)
NoStream ==
  /\ state = "streams" /\ Open.i < Open.streams
  /\ ~Fits(Top.at, streamEntryHeader) \/ Zero(Top.at)
  /\ Refused /\ UNCHANGED reach

(* resolve.                                                                *)
Resolved(d) ==
  LET has == ~d.dir /\ d.hash # NullHash IN
  [d EXCEPT !.data = has /\ d.hash \in Stored, !.missing = has /\ d.hash \notin Stored]

(* Bug: the depth is not bounded.                                          *)
TooDeepNever(depth) == depth < 0

TooDeep(depth) == depth > MaxTreeDepth

(* The dentry is complete, or list is called for its children.             *)
Attach ==
  /\ state = "streams" /\ Open.i = Open.streams
  /\ UNCHANGED reach
  /\ LET d == Resolved(Open.d) IN
     IF d.dir /\ Open.sub # 0
     THEN IF TooDeep(Top.depth + 1) THEN Refused
          ELSE /\ stack' = Append(WithTop([Top EXCEPT !.open[1].d = d]),
                                  Call(Open.sub, Top.depth + 1))
               /\ state' = "lists" /\ UNCHANGED <<md, nodes, root>>
     ELSE /\ stack' = WithTop([Top EXCEPT !.out = Append(@, d), !.open = <<>>])
          /\ state' = "lists" /\ UNCHANGED <<md, nodes, root>>

(* Bytes are read as what they are not.                                    *)
GoAstray ==
  /\ \/ state = "lists" /\ Fits(Top.at, 8) /\ ~Zero(Top.at) /\ ~IsDentry(Top.at)
     \/ /\ state = "streams" /\ Open.i < Open.streams
        /\ Fits(Top.at, streamEntryHeader) /\ ~IsStream(Top.at) /\ ~Zero(Top.at)
  /\ state' = "astray" /\ reach' = Further(Top.at + 8)
  /\ UNCHANGED <<md, stack, nodes, root>>

Parsing ==
  \/ Begin \/ RunsPast \/ ListEnds \/ ReadDentry \/ ReadStream \/ NoStream \/ Attach
  \/ GoAstray

-----------------------------------------------------------------------------
(* Properties.                                                             *)

Over == state \in {"read", "refused", "astray"}

(* No slice leaves the metadata, which would be a panic and not an error:  *)
(* lengths and offsets next to 2^64 do not wrap into the resource.  Nor    *)
(* does list call itself without end where offsets point back.             *)
NoPanic == reach <= md.len /\ Len(stack) <= MaxTreeDepth + 1

(* The parse returns, with a tree or an error, whatever graph the offsets  *)
(* make: it neither goes round nor stops at bytes that are not there.      *)
ParseEnds == <>Over
=============================================================================
