------------------------------- MODULE ImageFS -------------------------------
(***************************************************************************)
(* An image's file tree as an fs.FS (fs.go) over the dentry tree that is   *)
(* parsed on first use under a sync.Once (tree, dentry.go).  Goroutines    *)
(* use one FS, each with a handle of its own.                              *)
(*                                                                         *)
(* Names are numbers, in their order; 0 is the root's.  A dentry is what   *)
(* the parser makes of it, [name, dir, data, missing, size, children], the *)
(* children in order of name.                                              *)
(***************************************************************************)
EXTENDS Integers, Sequences, SequencesExt, FiniteSetsExt

CONSTANTS
  Clients,
  Metadata,   \* what the parser makes of an image's metadata: <<its root>> or <<>>
  Requests,   \* [op, path, n]: "stat", "readdir", "open", and of a handle "next", "read"
  Invalid,    \* a path that fs.ValidPath refuses
  BackingFails,   \* whether reading the metadata may fail
  None

VARIABLES
  md,         \* the image's metadata
  once,       \* im.once: "new", "running", "done"
  root,       \* im.root
  loadErr,    \* im.loadErr
  pc,         \* "idle", "called", "loading"
  asked, answer,
  handle      \* what every client has open: the dentry and its position, or None

vars == <<md, once, root, loadErr, pc, asked, answer, handle>>

ASSUME FSAssumption ==
  /\ BackingFails \in BOOLEAN
  /\ \A q \in Requests : q.op \in {"stat", "readdir", "open", "next", "read"} /\ q.n \in Int

OnHandle(q) == q.op \in {"next", "read"}

Init ==
  /\ md \in Metadata /\ once = "new" /\ root = None /\ loadErr = "nil"
  /\ pc = [c \in Clients |-> "idle"]
  /\ asked = [c \in Clients |-> None] /\ answer = [c \in Clients |-> None]
  /\ handle = [c \in Clients |-> None]

Call(c) ==
  /\ pc[c] = "idle"
  /\ \E q \in Requests :
       /\ OnHandle(q) => handle[c] # None
       /\ q.op = "next" => handle[c].d.dir
       /\ asked' = [asked EXCEPT ![c] = q]
  /\ pc' = [pc EXCEPT ![c] = "called"]
  /\ answer' = [answer EXCEPT ![c] = None]
  /\ UNCHANGED <<md, once, root, loadErr, handle>>

-----------------------------------------------------------------------------
(* tree.                                                                   *)

NeedsTree(c) == ~OnHandle(asked[c]) /\ asked[c].path # Invalid

(* Bug: no Once: whoever finds no tree reads the metadata.                 *)
LoadUnguarded(c) ==
  /\ pc[c] = "called" /\ NeedsTree(c) /\ root = None
  /\ once' = "running" /\ pc' = [pc EXCEPT ![c] = "loading"]
  /\ UNCHANGED <<md, root, loadErr, asked, answer, handle>>

(* The first that needs the tree reads it; the others wait.                *)
StartLoad(c) ==
  /\ pc[c] = "called" /\ NeedsTree(c) /\ once = "new"
  /\ once' = "running" /\ pc' = [pc EXCEPT ![c] = "loading"]
  /\ UNCHANGED <<md, root, loadErr, asked, answer, handle>>

(* Bug: a read that failed does not count as done.                         *)
LoadFailsUndone(c) ==
  /\ pc[c] = "loading" /\ BackingFails
  /\ loadErr' = "io"
  /\ pc' = [pc EXCEPT ![c] = "called"]
  /\ UNCHANGED <<md, once, root, asked, answer, handle>>

LoadFails(c) ==
  /\ pc[c] = "loading" /\ BackingFails
  /\ loadErr' = "io"
  /\ once' = "done" /\ pc' = [pc EXCEPT ![c] = "called"]
  /\ UNCHANGED <<md, root, asked, answer, handle>>

LoadEnds(c) ==
  /\ pc[c] = "loading"
  /\ IF md = <<>> THEN loadErr' = "corrupt" /\ UNCHANGED root
     ELSE root' = md[1] /\ loadErr' = "nil"
  /\ once' = "done" /\ pc' = [pc EXCEPT ![c] = "called"]
  /\ UNCHANGED <<md, asked, answer, handle>>

-----------------------------------------------------------------------------
Smaller(a, b) == IF a <= b THEN a ELSE b

(* Bug: the search ends behind the name.                                   *)
SearchBehind(d, name) ==
  LET f[i, j \in 0 .. Len(d.children)] ==
        IF i >= j THEN i
        ELSE LET h == (i + j) \div 2 IN
             IF d.children[h + 1].name > name THEN f[i, h] ELSE f[h + 1, j] IN
  f[0, Len(d.children)]

(* sort.Search: the first child not before the name, counted from 0.       *)
Search(d, name) ==
  LET f[i, j \in 0 .. Len(d.children)] ==
        IF i >= j THEN i
        ELSE LET h == (i + j) \div 2 IN
             IF d.children[h + 1].name >= name THEN f[i, h] ELSE f[h + 1, j] IN
  f[0, Len(d.children)]

FindChild(d, name) ==
  LET i == Search(d, name) + 1 IN
  IF i \in DOMAIN d.children /\ d.children[i].name = name THEN d.children[i] ELSE None

(* lookup, one component after the other: None for fs.ErrNotExist.         *)
Lookup(path) ==
  LET step(d, comp) == IF d = None \/ ~d.dir THEN None ELSE FindChild(d, comp) IN
  FoldLeft(step, root, path)

Answered(err) == [err |-> err, names |-> <<>>, n |-> 0]
DirEntries(s) == [Answered("nil") EXCEPT !.names = [i \in DOMAIN s |-> s[i].name]]

Return(c, a, h) ==
  /\ answer' = [answer EXCEPT ![c] = a] /\ handle' = [handle EXCEPT ![c] = h]
  /\ asked' = [asked EXCEPT ![c] = None] /\ pc' = [pc EXCEPT ![c] = "idle"]
  /\ UNCHANGED <<md, once, root, loadErr>>
Fail(c, err) == Return(c, Answered(err), handle[c])

(* lookup refuses the path before the tree is read.                        *)
BadPath(c) ==
  /\ pc[c] = "called" /\ ~OnHandle(asked[c]) /\ asked[c].path = Invalid
  /\ Fail(c, "invalid")

NoTree(c) ==
  /\ pc[c] = "called" /\ NeedsTree(c) /\ once = "done" /\ loadErr # "nil"
  /\ Fail(c, loadErr)

Found(c, op) ==
  /\ pc[c] = "called" /\ NeedsTree(c) /\ once = "done" /\ loadErr = "nil"
  /\ asked[c].op = op

NotExist(c) ==
  /\ \E op \in {"stat", "readdir", "open"} : Found(c, op)
  /\ Lookup(asked[c].path) = None
  /\ Fail(c, "notexist")

Stat(c) ==
  /\ Found(c, "stat")
  /\ LET d == Lookup(asked[c].path) IN
     /\ d # None
     /\ Return(c, [err |-> "nil", names |-> <<d.name>>, n |-> d.size], handle[c])

ReadDir(c) ==
  /\ Found(c, "readdir")
  /\ LET d == Lookup(asked[c].path) IN
     /\ d # None
     /\ IF d.dir THEN Return(c, DirEntries(d.children), handle[c]) ELSE Fail(c, "invalid")

Open(c) ==
  /\ Found(c, "open")
  /\ LET d == Lookup(asked[c].path) IN
     /\ d # None
     /\ IF ~d.dir /\ d.missing THEN Fail(c, "corrupt")
        ELSE Return(c, Answered("nil"), [d |-> d, pos |-> 0])

-----------------------------------------------------------------------------
(* Handles.                                                                *)

OnOpen(c, op) == pc[c] = "called" /\ asked[c].op = op

(* wimDir.ReadDir.                                                         *)
ReadDirNext(c) ==
  /\ OnOpen(c, "next")
  /\ LET all == handle[c].d.children
         n == asked[c].n
         rest == SubSeq(all, handle[c].pos + 1, Len(all))
         got == IF n > 0 /\ n < Len(rest) THEN SubSeq(rest, 1, n) ELSE rest IN
     IF handle[c].pos >= Len(all)
     THEN IF n <= 0 THEN Return(c, DirEntries(<<>>), handle[c]) ELSE Fail(c, "eof")
     ELSE Return(c, DirEntries(got), [handle[c] EXCEPT !.pos = @ + Len(got)])

(* wimFile.Read, as the resource layer serves it when nothing fails; a     *)
(* file without a resource ends at once.                                   *)
Read(c) ==
  /\ OnOpen(c, "read")
  /\ LET d == handle[c].d
         n == asked[c].n
         m == Smaller(n, d.size - handle[c].pos) IN
     IF d.dir THEN Fail(c, "invalid")
     ELSE IF ~d.data THEN Fail(c, IF n = 0 THEN "nil" ELSE "eof")
     ELSE IF handle[c].pos >= d.size THEN Fail(c, "eof")
     ELSE Return(c, [Answered(IF m < n THEN "eof" ELSE "nil") EXCEPT !.n = m],
                 [handle[c] EXCEPT !.pos = @ + m])

Work(c) ==
  \/ StartLoad(c) \/ LoadFails(c) \/ LoadEnds(c)
  \/ BadPath(c) \/ NoTree(c) \/ NotExist(c) \/ Stat(c) \/ ReadDir(c) \/ Open(c)
  \/ ReadDirNext(c) \/ Read(c)

Next == \E c \in Clients : Call(c) \/ Work(c)

(* A goroutine that is in a call runs on.                                  *)
Spec == Init /\ [][Next]_vars /\ \A c \in Clients : WF_vars(Work(c))

-----------------------------------------------------------------------------
(* Properties.                                                             *)

(* All that a tree holds, by path.                                         *)
RECURSIVE PathsBelow(_, _)
PathsBelow(d, p) ==
  {<<p, d>>} \cup UNION {PathsBelow(d.children[i], Append(p, d.children[i].name)) :
                           i \in DOMAIN d.children}
EntryOf(d) == [dir |-> d.dir, missing |-> d.missing, size |-> d.size]
Entries == [m \in Metadata \ {<<>>} |-> PathsBelow(m[1], <<>>)]
Trees ==
  [m \in DOMAIN Entries |->
    [p \in {e[1] : e \in Entries[m]} |-> EntryOf((CHOOSE e \in Entries[m] : e[1] = p)[2])]]

PathOf(d) == (CHOOSE e \in Entries[md] : e[2] = d)[1]
LeftOf(h) ==
  IF h = None THEN None
  ELSE [path |-> PathOf(h.d),
        left |-> IF h.d.dir THEN {h.d.children[i].name : i \in h.pos + 1 .. Len(h.d.children)}
                 ELSE h.d.size - h.pos]

Tree == INSTANCE FileTree WITH
  Contents <- Range(Trees),
  Failures <- {"io", "corrupt"},
  content <- IF root = None THEN None ELSE Trees[md],
  failure <- loadErr,
  handle <- [c \in Clients |-> LeftOf(handle[c])]

(* Open, Stat, ReadDir and the handles agree: all of them answer from one  *)
(* tree of paths, or all with one error, whoever came first, and pieces of *)
(* a directory or of a file add up to it exactly.                          *)
ImplementsTree == Tree!Spec

(* Whoever waits for the tree is answered, also when it cannot be read.    *)
CallsReturn == \A c \in Clients : pc[c] = "called" ~> pc[c] = "idle"
=============================================================================
