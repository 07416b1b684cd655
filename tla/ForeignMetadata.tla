-------------------------- MODULE ForeignMetadata ---------------------------
(***************************************************************************)
(* Metadata that another program wrote, and what that program meant by it. *)
(* It consists of lists of entries; the first list is the root's.  An      *)
(* entry may carry alternate streams, may record its length with or        *)
(* without the padding, and may point to any list or nowhere.              *)
(***************************************************************************)
EXTENDS Integers, Sequences, SequencesExt

CONSTANTS NullHash, Stored, WordSize, MaxTreeDepth

Padded(n) == ((n + 7) \div 8) * 8

(* Where an entry points: a list, or one of the offsets that are none.     *)
NoList == 0
Beyond == -1
AtEnd == -2
AtTable == -3
Inside == -4

(* A name takes two bytes.                                                 *)
NameBytes(name) == IF name = 0 THEN 0 ELSE 2
EntryBytes(e) == 102 + NameBytes(e.name) + 2
StreamBytes(s) == 38 + s.nameLen

Sum(Op(_), s) == FoldLeft(LAMBDA n, x : n + Op(x), 0, s)
EntrySize(e) ==
  LET StreamSize(s) == Padded(StreamBytes(s)) IN
  Padded(EntryBytes(e)) + Sum(StreamSize, e.streams)
ListSize(l) == Sum(EntrySize, l) + 8

TreeStart == 24  \* behind a table of one descriptor and 20 bytes
ListAt(f, j) == TreeStart + Sum(ListSize, SubSeq(f.lists, 1, j - 1))
EntryAt(f, j, i) == ListAt(f, j) + Sum(EntrySize, SubSeq(f.lists[j], 1, i - 1))
StreamAt(f, j, i, m) ==
  LET e == f.lists[j][i]
      StreamSize(s) == Padded(StreamBytes(s)) IN
  EntryAt(f, j, i) + Padded(EntryBytes(e)) + Sum(StreamSize, SubSeq(e.streams, 1, m - 1))
Length(f) == ListAt(f, Len(f.lists) + 1)

Offset(f, target) ==
  CASE target = NoList -> 0
    [] target = Beyond -> WordSize - 8
    [] target = AtEnd  -> Length(f)
    [] target = AtTable -> 8
    [] target = Inside -> ListAt(f, 2) + 8
    [] OTHER           -> ListAt(f, target)

Recorded(x, bytes) ==
  CASE x.says # 0 -> x.says [] x.padded -> Padded(bytes) [] OTHER -> bytes

DentryCell(f, e) ==
  [kind |-> "dentry", length |-> Recorded(e, EntryBytes(e)), dir |-> e.dir, link |-> e.link,
   sub |-> Offset(f, e.target), name |-> e.name, nameLen |-> NameBytes(e.name),
   shortLen |-> 0, streams |-> Len(e.streams) + e.extra, hash |-> e.hash,
   written |-> e.written]
StreamCell(s) ==
  [kind |-> "stream", length |-> Recorded(s, StreamBytes(s)), nameLen |-> s.nameLen,
   hash |-> s.hash]

Places(f) == UNION {{<<j, i, m>> : i \in DOMAIN f.lists[j], m \in 0 .. 2} : j \in DOMAIN f.lists}
IsPlace(f, p) == p[3] <= Len(f.lists[p[1]][p[2]].streams)
PlaceAt(f, p) == IF p[3] = 0 THEN EntryAt(f, p[1], p[2]) ELSE StreamAt(f, p[1], p[2], p[3])
CellAt(f, p) ==
  LET e == f.lists[p[1]][p[2]] IN
  IF p[3] = 0 THEN DentryCell(f, e) ELSE StreamCell(e.streams[p[3]])

Bytes(f) ==
  LET places == {p \in Places(f) : IsPlace(f, p)} IN
  [len |-> Length(f), total |-> 20, count |-> 1,
   cells |-> [o \in {PlaceAt(f, p) : p \in places} |->
                CellAt(f, CHOOSE p \in places : PlaceAt(f, p) = o)]]

-----------------------------------------------------------------------------
(* The tree that was meant.                                                *)

MeantHash(e) ==
  IF e.hash = NullHash /\ e.streams # <<>> /\ e.streams[1].nameLen = 0
  THEN e.streams[1].hash ELSE e.hash

ByEntryName(d, e) == d.name < e.name

RECURSIVE MeantList(_, _, _)
MeantList(f, j, depth) ==
  LET Meant(e) ==
        LET hash == MeantHash(e)
            file == ~e.dir /\ hash # NullHash IN
        [name |-> e.name, dir |-> e.dir, hash |-> hash, written |-> e.written,
         data |-> file /\ hash \in Stored, missing |-> file /\ hash \notin Stored,
         children |-> IF e.dir /\ ~e.link /\ e.target > 0 /\ depth < MaxTreeDepth
                      THEN MeantList(f, e.target, depth + 1) ELSE <<>>]
  IN SortSeq([i \in DOMAIN f.lists[j] |-> Meant(f.lists[j][i])], ByEntryName)

(* Every length is what the entry takes, every stream is there, and a      *)
(* directory points to a list or has none.                                 *)
Honest(f) ==
  \A j \in DOMAIN f.lists : \A i \in DOMAIN f.lists[j] :
    /\ f.lists[j][i].target >= NoList
    /\ f.lists[j][i].says = 0 /\ f.lists[j][i].extra = 0
    /\ \A m \in DOMAIN f.lists[j][i].streams : f.lists[j][i].streams[m].says = 0
=============================================================================
