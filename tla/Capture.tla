------------------------------- MODULE Capture -------------------------------
(***************************************************************************)
(* The capture pass of the writer: capture and hashFile in capture.go.     *)
(* A source tree is walked in lexical order; every entry gets a security   *)
(* descriptor, every file with content is hashed, and equal files become   *)
(* one blob.  The tree belongs to others and may change at any time: a     *)
(* file's size is taken in one step and its bytes are read in a later one. *)
(*                                                                         *)
(* SHA-1 is taken to be injective: the digest of a content is written as   *)
(* the content itself, and ZeroHash is the digest of none.  Names, dates   *)
(* and attributes are left out; the counts that capture keeps are those of *)
(* the nodes it returns.                                                   *)
(***************************************************************************)
EXTENDS Integers, Sequences, FiniteSets

CONSTANTS
  N,            \* the entries of the tree, 1 .. N in lexical order; 1 is "."
  Parent,       \* the directory of every entry but the root
  Dir,          \* the entries that are directories
  Content,      \* what a file may hold
  Size,         \* the length of a content; one content is empty
  Gone,         \* in place of a content: the file was deleted
  ZeroHash,     \* the all-zero hash a dentry without a stream carries
  Descriptor,   \* the security descriptors
  NoDescriptor, \* the nil a SecurityFunc may return
  Policies,     \* the SecurityFuncs a caller may pass
  MaxEdits      \* bound: the changes made to the tree from outside

Entry == 1 .. N
File == Entry \ Dir

ASSUME CaptureAssumption ==
  /\ N \in Nat \ {0} /\ Dir \subseteq Entry /\ 1 \in Dir
  /\ Parent \in [2 .. N -> Dir] /\ \A e \in 2 .. N : Parent[e] < e
  /\ Size \in [Content -> Nat]
  /\ Gone \notin Content /\ ZeroHash \notin Content
  /\ NoDescriptor \notin Descriptor
  /\ Policies \subseteq [Entry -> Descriptor \union {NoDescriptor}]
  /\ MaxEdits \in Nat

VARIABLES
  disk,       \* what every file holds now
  edits,      \* how often somebody changed it
  cancelled,  \* ctx.Err() is not nil
  policy,     \* Options.Security
  step,       \* where the running call is; "idle" when there is none
  cursor,     \* the entry the walk is at; N + 1 when it is past the last
  listed,     \* the entries of the directories read so far
  nodes,      \* the nodes made so far, in walk order
  security,   \* c.security, the distinct descriptors
  found       \* c.blobs, the distinct streams

treeVars == <<disk, edits, cancelled>>
walkVars == <<cursor, listed, nodes, security, found>>
captureVars == <<treeVars, policy, step, walkVars>>

Digest == Content \union {ZeroHash}
Node == [entry: Entry, size: Nat, hash: Digest, sec: Nat]
Blob == [path: File, hash: Content, refs: Nat \ {0}]
Elems(s) == {s[i] : i \in DOMAIN s}

CaptureInit ==
  /\ disk \in [File -> Content] /\ edits = 0 /\ cancelled = FALSE
  /\ policy \in Policies
  /\ step = "idle" /\ cursor = 1 /\ listed = {}
  /\ nodes = <<>> /\ security = <<>> /\ found = <<>>

-----------------------------------------------------------------------------
(* The world outside.                                                      *)

Edit(f, c) ==
  /\ edits < MaxEdits
  /\ disk' = [disk EXCEPT ![f] = c]
  /\ edits' = edits + 1
  /\ UNCHANGED <<cancelled, policy, step, walkVars>>

Cancel ==
  /\ step # "idle" /\ ~cancelled
  /\ cancelled' = TRUE
  /\ UNCHANGED <<disk, edits, policy, step, walkVars>>

-----------------------------------------------------------------------------
(* The walk.                                                               *)

(* Every call has a context of its own.                                    *)
BeginCapture ==
  /\ step = "idle" /\ step' = "walk"
  /\ cancelled' = FALSE
  /\ cursor' = 1 /\ listed' = {1}
  /\ nodes' = <<>> /\ security' = <<>> /\ found' = <<>>
  /\ UNCHANGED <<disk, edits, policy>>

Present(e) == e \in File => disk[e] # Gone

(* Bug: only the root's entries are ever listed.                           *)
ListedAtRoot(e) ==
  IF e = 1 THEN listed \union {x \in 2 .. N : Parent[x] = e /\ Present(x)} ELSE listed

(* WalkDir reads a directory's entries once, when it is visited.           *)
ListedAt(e) ==
  IF e \in Dir THEN listed \union {x \in 2 .. N : Parent[x] = e /\ Present(x)}
               ELSE listed

(* Where a walk that read these entries goes from e: to the next in lexical *)
(* order, or past the last.  There is exactly one such place.              *)
Successors(e, entries) ==
  {x \in e + 1 .. N + 1 : /\ x \in entries \union {N + 1}
                         /\ \A y \in entries : y <= e \/ x <= y}

(* Descriptors are deduplicated by content.                                *)
SecurityWith(sd) ==
  IF sd \in Elems(security) THEN security ELSE Append(security, sd)

(* Bug: the id is taken after the descriptor was appended.                 *)
SecurityIdAfter(sd) == Len(SecurityWith(sd))

SecurityId(sd) ==
  (CHOOSE i \in DOMAIN SecurityWith(sd) : SecurityWith(sd)[i] = sd) - 1

StatSize(e) == IF e \in Dir THEN 0 ELSE Size[disk[e]]

(* One callback of the walk, up to the point where it hashes the file.  A  *)
(* file that is empty now gets the zero hash and no blob.                  *)
Stat ==
  /\ step = "walk" /\ cursor <= N
  /\ ~cancelled /\ Present(cursor) /\ policy[cursor] # NoDescriptor
  /\ nodes' = Append(nodes, [entry |-> cursor, size |-> StatSize(cursor),
                             hash |-> ZeroHash, sec |-> SecurityId(policy[cursor])])
  /\ security' = SecurityWith(policy[cursor])
  /\ listed' = ListedAt(cursor)
  /\ IF StatSize(cursor) > 0
     THEN step' = "hash" /\ UNCHANGED cursor
     ELSE step' = "walk" /\ cursor' \in Successors(cursor, listed')
  /\ UNCHANGED <<treeVars, policy, found>>

(* Bug: the second file with a content is dropped.                         *)
FoundWithFirst(c) ==
  IF \E i \in DOMAIN found : found[i].hash = c THEN found
  ELSE Append(found, [path |-> cursor, hash |-> c, refs |-> 1])

(* Bug: the first reference is not counted.                                *)
FoundWithNone(c) ==
  Append(found, [path |-> cursor, hash |-> c, refs |-> 0])

(* A stream is one blob, with a reference for every file that has it.      *)
FoundWith(c) ==
  IF \E i \in DOMAIN found : found[i].hash = c
  THEN [i \in DOMAIN found |->
          IF found[i].hash = c THEN [found[i] EXCEPT !.refs = @ + 1] ELSE found[i]]
  ELSE Append(found, [path |-> cursor, hash |-> c, refs |-> 1])

(* The rest of the callback: hashFile reads what the file holds by now.    *)
HashFile ==
  /\ step = "hash" /\ disk[cursor] # Gone
  /\ nodes' = [nodes EXCEPT ![Len(nodes)].hash = disk[cursor]]
  /\ found' = FoundWith(disk[cursor])
  /\ step' = "walk" /\ cursor' \in Successors(cursor, listed)
  /\ UNCHANGED <<treeVars, policy, listed, security>>

(* The callback returns an error, and capture nothing but that error: the  *)
(* context was cancelled, the file is gone, is not one that can be         *)
(* captured, cannot be read, or has no descriptor.                         *)
WalkFails ==
  /\ (step = "walk" /\ cursor <= N) \/ step = "hash"
  /\ step' = "failed"
  /\ UNCHANGED <<treeVars, policy, walkVars>>

(* The walk is over; dentries and blobs are ready to be written.           *)
WalkEnds ==
  /\ step = "walk" /\ cursor > N
  /\ step' = "captured"
  /\ UNCHANGED <<treeVars, policy, walkVars>>

Environment == (\E f \in File, c \in Content \union {Gone} : Edit(f, c)) \/ Cancel
Walk == Stat \/ HashFile \/ WalkFails \/ WalkEnds
CaptureNext == BeginCapture \/ Walk \/ Environment

CaptureSpec == CaptureInit /\ [][CaptureNext]_captureVars

-----------------------------------------------------------------------------
(* Properties.                                                             *)

(* What is walked keeps its shape: a hash is that of a content the file    *)
(* had, and no walk leaves the entries it was given.                       *)
CaptureTypeInv ==
  /\ disk \in [File -> Content \union {Gone}] /\ edits \in 0 .. MaxEdits
  /\ cancelled \in BOOLEAN /\ policy \in Policies
  /\ step = "hash" => cursor \in File
  /\ cursor \in 1 .. N + 1 /\ listed \subseteq Entry
  /\ nodes \in Seq(Node) /\ security \in Seq(Descriptor) /\ found \in Seq(Blob)

Users(h) == {i \in DOMAIN nodes : nodes[i].hash = h}

(* Each stream is listed once, with one reference for every node that      *)
(* carries its hash, and no node's hash is missing: c.blobs and the node   *)
(* tree are two accounts of the same files, however the tree was edited.   *)
BlobsMatchNodes ==
  /\ \A i, j \in DOMAIN found : found[i].hash = found[j].hash => i = j
  /\ \A i \in DOMAIN found : found[i].refs = Cardinality(Users(found[i].hash))
  /\ \A i \in DOMAIN nodes : nodes[i].hash # ZeroHash =>
       \E j \in DOMAIN found : found[j].hash = nodes[i].hash

(* Every node's security id is the place of its own descriptor in a table  *)
(* that holds no descriptor twice; none is the -1 Windows rejects.         *)
SecurityTableExact ==
  /\ \A i, j \in DOMAIN security : security[i] = security[j] => i = j
  /\ \A i \in DOMAIN nodes :
       /\ nodes[i].sec + 1 \in DOMAIN security
       /\ security[nodes[i].sec + 1] = policy[nodes[i].entry]

(* A capture that succeeds holds, in lexical order and once each, every    *)
(* entry that was listed: those that were there all along among them.      *)
WalkIsComplete ==
  step = "captured" =>
    /\ Elems([i \in DOMAIN nodes |-> nodes[i].entry]) = listed
    /\ Dir \subseteq listed
    /\ \A i, j \in DOMAIN nodes : i < j => nodes[i].entry < nodes[j].entry
    /\ edits = 0 => listed = Entry

(* capture.go:144: "A zero-length file is recorded with an all-zero hash   *)
(* and no blob-table entry; only a file with content becomes a resource."  *)
OnlyContentBecomesBlob == \A i \in DOMAIN found : Size[found[i].hash] > 0
=============================================================================
