--------------------------- MODULE WimWriterProofs ---------------------------
(***************************************************************************)
(* The capture pass and the Writer, for every tree, every content, every   *)
(* SecurityFunc, every destination and every sequence of calls, edits and  *)
(* failures.  The blobs that a walk hands to the writer are exactly the    *)
(* streams of the nodes it built, and every node's descriptor is in the    *)
(* table.  What the Writer has recorded lies where it says, nothing is     *)
(* written behind damage, and its user sees images added one by one until  *)
(* the file is sealed or has failed.                                       *)
(*                                                                         *)
(* What makes the walk's invariant inductive is the node that is being     *)
(* made: between stat and hash it is the last one, and it carries the zero *)
(* hash still.  What makes the Writer's inductive is that w.pos follows    *)
(* the destination's cursor from the moment the header's place is reserved *)
(* until it is filled in, and that every phase of a call knows how far the *)
(* Writer has got.                                                         *)
(***************************************************************************)
EXTENDS WimWriter, FiniteSetTheorems, SequenceTheorems, WellFoundedInduction, TLAPS

(* The capture pass.                                                       *)

Pending ==
  step = "hash" => nodes # <<>> /\ nodes[Len(nodes)].hash = ZeroHash

CaptureInv == CaptureTypeInv /\ Pending /\ BlobsMatchNodes /\ SecurityTableExact

CaptureStep == BeginCapture \/ Walk \/ Environment

LEMMA UsersFinite == ASSUME CaptureTypeInv, NEW h PROVE IsFiniteSet(Users(h))
<1>1. Users(h) \subseteq 1 .. Len(nodes)  BY DEF Users, CaptureTypeInv
<1>2. Len(nodes) \in Nat  BY DEF CaptureTypeInv
<1>3. IsFiniteSet(1 .. Len(nodes))  BY <1>2, FS_Interval
<1>. QED  BY <1>1, <1>3, FS_Subset

LEMMA CaptureInitInv == CaptureInit => CaptureInv
<1>. SUFFICES ASSUME CaptureInit PROVE CaptureInv  OBVIOUS
<1>1. CaptureTypeInv
  <2>1. disk \in [File -> Content \union {Gone}]  BY DEF CaptureInit
  <2>2. edits \in 0 .. MaxEdits /\ cursor \in 1 .. N + 1
    BY CaptureAssumption DEF CaptureInit
  <2>3. nodes \in Seq(Node) /\ security \in Seq(Descriptor) /\ found \in Seq(Blob)
    BY DEF CaptureInit
  <2>. QED  BY <2>1, <2>2, <2>3 DEF CaptureInit, CaptureTypeInv
<1>. QED
  BY <1>1 DEF CaptureInit, CaptureInv, Pending, BlobsMatchNodes, SecurityTableExact

LEMMA BeginInv == ASSUME CaptureInv, BeginCapture PROVE CaptureInv'
<1>1. CaptureTypeInv'
  <2>1. cursor' \in 1 .. N + 1 /\ listed' \subseteq Entry
    BY CaptureAssumption DEF BeginCapture, Entry
  <2>2. nodes' \in Seq(Node) /\ security' \in Seq(Descriptor) /\ found' \in Seq(Blob)
    BY DEF BeginCapture
  <2>. QED  BY <2>1, <2>2 DEF CaptureInv, BeginCapture, CaptureTypeInv
<1>. QED
  BY <1>1 DEF BeginCapture, CaptureInv, Pending, BlobsMatchNodes, SecurityTableExact

(* What the tree's owner does, and leaving the walk, touch nothing of it.  *)
LEMMA QuietInv ==
  ASSUME CaptureInv, Environment \/ WalkFails \/ WalkEnds
         \/ (UNCHANGED captureVars)
  PROVE  CaptureInv'
<1>1. UNCHANGED <<policy, walkVars>> /\ (step' = "hash" => step = "hash")
  BY DEF Environment, Edit, Cancel, WalkFails, WalkEnds, captureVars
<1>2. disk' \in [File -> Content \union {Gone}] /\ edits' \in 0 .. MaxEdits
      /\ cancelled' \in BOOLEAN
  <2>. USE DEF CaptureInv, CaptureTypeInv
  <2>1. CASE Cancel \/ WalkFails \/ WalkEnds \/ UNCHANGED captureVars
    BY <2>1 DEF Cancel, WalkFails, WalkEnds, captureVars, treeVars
  <2>2. ASSUME NEW f \in File, NEW c \in Content \union {Gone}, Edit(f, c)
        PROVE disk' \in [File -> Content \union {Gone}] /\ edits' \in 0 .. MaxEdits
              /\ cancelled' \in BOOLEAN
    BY <2>2, CaptureAssumption DEF Edit
  <2>. QED  BY <2>1, <2>2 DEF Environment
<1>3. CaptureTypeInv'
  BY <1>1, <1>2 DEF CaptureInv, CaptureTypeInv, walkVars
<1>. QED
  BY <1>1, <1>3
  DEF CaptureInv, Pending, BlobsMatchNodes, SecurityTableExact, Users, walkVars

-----------------------------------------------------------------------------
(* The table grows at its end only, stays without duplicates, and the id   *)
(* of a descriptor is where it is found.                                   *)
LEMMA SecurityGrows ==
  ASSUME security \in Seq(Descriptor), NEW sd \in Descriptor,
         \A i, j \in DOMAIN security : security[i] = security[j] => i = j
  PROVE  /\ SecurityWith(sd) \in Seq(Descriptor)
         /\ \A i \in DOMAIN security :
              i \in DOMAIN SecurityWith(sd) /\ SecurityWith(sd)[i] = security[i]
         /\ \A i, j \in DOMAIN SecurityWith(sd) :
              SecurityWith(sd)[i] = SecurityWith(sd)[j] => i = j
         /\ SecurityId(sd) \in Nat /\ SecurityId(sd) + 1 \in DOMAIN SecurityWith(sd)
         /\ SecurityWith(sd)[SecurityId(sd) + 1] = sd
<1>1. CASE sd \in Elems(security)
  <2>1. PICK i \in DOMAIN security : security[i] = sd  BY <1>1 DEF Elems
  <2>2. SecurityWith(sd) = security  BY <1>1 DEF SecurityWith
  <2>3. SecurityId(sd) + 1 \in DOMAIN security /\ security[SecurityId(sd) + 1] = sd
        /\ SecurityId(sd) \in Nat
    BY <2>1, <2>2 DEF SecurityId
  <2>. QED  BY <2>2, <2>3
<1>2. CASE sd \notin Elems(security)
  <2>. DEFINE t == Append(security, sd)
  <2>1. SecurityWith(sd) = t  BY <1>2 DEF SecurityWith
  <2>2. t \in Seq(Descriptor) /\ Len(t) = Len(security) + 1 /\ Len(security) \in Nat
        /\ t[Len(security) + 1] = sd
        /\ \A i \in 1 .. Len(security) : t[i] = security[i]
    OBVIOUS
  <2>3. \A i \in DOMAIN security : security[i] # sd  BY <1>2 DEF Elems
  <2>4. DOMAIN t = 1 .. Len(security) + 1 /\ DOMAIN security = 1 .. Len(security)
    BY <2>2
  <2>. HIDE DEF t
  <2>5. \A i, j \in DOMAIN t : t[i] = t[j] => i = j
    BY <2>2, <2>3, <2>4
  <2>6. SecurityId(sd) + 1 \in DOMAIN t /\ t[SecurityId(sd) + 1] = sd
        /\ SecurityId(sd) \in Nat
    <3>1. Len(security) + 1 \in DOMAIN t  BY <2>2, <2>4
    <3>2. SecurityId(sd) = (CHOOSE i \in DOMAIN t : t[i] = sd) - 1
      BY <2>1 DEF SecurityId
    <3>. QED  BY <2>2, <2>4, <3>1, <3>2
  <2>. QED  BY <2>1, <2>2, <2>4, <2>5, <2>6
<1>. QED  BY <1>1, <1>2

LEMMA StatInv == ASSUME CaptureInv, Stat PROVE CaptureInv'
<1>. USE CaptureAssumption
<1>. DEFINE sd == policy[cursor]
            n == [entry |-> cursor, size |-> StatSize(cursor),
                  hash |-> ZeroHash, sec |-> SecurityId(sd)]
<1>1. cursor \in Entry /\ sd \in Descriptor
  BY DEF Stat, CaptureInv, CaptureTypeInv, Entry
<1>2. StatSize(cursor) \in Nat /\ (StatSize(cursor) > 0 => cursor \in File)
  BY <1>1 DEF Stat, StatSize, Present, CaptureInv, CaptureTypeInv, File
<1>3. security' = SecurityWith(sd) /\ nodes' = Append(nodes, n) /\ UNCHANGED <<found, policy>>
  BY DEF Stat
<1>4. security \in Seq(Descriptor) /\ nodes \in Seq(Node)
      /\ \A i, j \in DOMAIN security : security[i] = security[j] => i = j
  BY DEF CaptureInv, CaptureTypeInv, SecurityTableExact
<1>5. n \in Node
  BY <1>1, <1>2, <1>4, SecurityGrows DEF Node, Digest
<1>11. /\ security' \in Seq(Descriptor)
       /\ \A i \in DOMAIN security :
            i \in DOMAIN security' /\ security'[i] = security[i]
       /\ \A i, j \in DOMAIN security' : security'[i] = security'[j] => i = j
       /\ SecurityId(sd) + 1 \in DOMAIN security'
       /\ security'[SecurityId(sd) + 1] = sd
  <2>. HIDE DEF sd
  <2>1. /\ SecurityWith(sd) \in Seq(Descriptor)
        /\ \A i \in DOMAIN security :
             i \in DOMAIN SecurityWith(sd) /\ SecurityWith(sd)[i] = security[i]
        /\ \A i, j \in DOMAIN SecurityWith(sd) :
             SecurityWith(sd)[i] = SecurityWith(sd)[j] => i = j
        /\ SecurityId(sd) + 1 \in DOMAIN SecurityWith(sd)
        /\ SecurityWith(sd)[SecurityId(sd) + 1] = sd
    BY <1>1, <1>4, SecurityGrows
  <2>. QED  BY <1>3, <2>1
<1>12. n.entry = cursor /\ n.hash = ZeroHash /\ n.sec = SecurityId(sd)  OBVIOUS
<1>. HIDE DEF n
<1>6. /\ nodes' \in Seq(Node) /\ Len(nodes) \in Nat /\ Len(nodes') = Len(nodes) + 1
      /\ DOMAIN nodes = 1 .. Len(nodes) /\ DOMAIN nodes' = 1 .. Len(nodes) + 1
      /\ nodes'[Len(nodes) + 1] = n /\ \A i \in 1 .. Len(nodes) : nodes'[i] = nodes[i]
  BY <1>3, <1>4, <1>5
<1>7. CaptureTypeInv'
  <2>1. security' \in Seq(Descriptor)  BY <1>11
  <2>2. listed' \subseteq Entry
    <3>1. listed \subseteq Entry /\ listed' = ListedAt(cursor)
      BY DEF Stat, CaptureInv, CaptureTypeInv
    <3>2. 2 .. N \subseteq Entry  BY DEF Entry
    <3>. QED  BY <3>1, <3>2 DEF ListedAt
  <2>3. cursor' \in 1 .. N + 1 /\ (step' = "hash" => cursor' \in File)
    BY <1>1, <1>2 DEF Stat, Successors, Entry
  <2>. QED
    BY <1>3, <1>6, <2>1, <2>2, <2>3 DEF Stat, treeVars, CaptureInv, CaptureTypeInv
<1>8. Pending'
  BY <1>6, <1>12 DEF Pending
<1>9. BlobsMatchNodes'
  <2>1. \A i \in DOMAIN found : found[i].hash # ZeroHash
    <3>1. \A i \in DOMAIN found : found[i] \in Blob
      BY DEF CaptureInv, CaptureTypeInv
    <3>. QED  BY <3>1 DEF Blob
  <2>. DEFINE UsersNext(h) == {k \in DOMAIN nodes' : nodes'[k].hash = h}
  <2>2. ASSUME NEW h, h # ZeroHash PROVE UsersNext(h) = Users(h)
    BY <1>6, <1>12, <2>2 DEF Users
  <2>3. ASSUME NEW i \in DOMAIN found
        PROVE found[i].refs = Cardinality(UsersNext(found[i].hash))
    <3>. HIDE DEF UsersNext
    <3>1. UsersNext(found[i].hash) = Users(found[i].hash)  BY <2>1, <2>2
    <3>. QED  BY <3>1 DEF BlobsMatchNodes, CaptureInv
  <2>4. \A i \in DOMAIN nodes' : nodes'[i].hash # ZeroHash =>
          \E j \in DOMAIN found : found[j].hash = nodes'[i].hash
    BY <1>6, <1>12 DEF BlobsMatchNodes, CaptureInv
  <2>. QED  BY <1>3, <2>3, <2>4 DEF BlobsMatchNodes, CaptureInv, Users
<1>10. SecurityTableExact'
  <2>1. ASSUME NEW i \in DOMAIN nodes'
        PROVE nodes'[i].sec + 1 \in DOMAIN security'
              /\ security'[nodes'[i].sec + 1] = policy[nodes'[i].entry]
    <3>1. CASE i = Len(nodes) + 1
      BY <1>6, <1>11, <1>12, <3>1
    <3>2. CASE i \in DOMAIN nodes
      BY <1>6, <1>11, <3>2 DEF CaptureInv, SecurityTableExact
    <3>. QED  BY <1>6, <3>1, <3>2
  <2>2. \A i, j \in DOMAIN security' : security'[i] = security'[j] => i = j
    BY <1>11
  <2>. QED  BY <1>3, <2>1, <2>2 DEF SecurityTableExact
<1>. QED  BY <1>7, <1>8, <1>9, <1>10 DEF CaptureInv

(* Hashing gives the last node its stream, and that stream one reference.  *)
LEMMA HashFileInv == ASSUME CaptureInv, HashFile PROVE CaptureInv'
<1>. USE CaptureAssumption
<1>. DEFINE c == disk[cursor]
            last == Len(nodes)
            UsersNext(h) == {k \in DOMAIN nodes' : nodes'[k].hash = h}
<1>1. cursor \in File /\ c \in Content /\ c # ZeroHash
  BY DEF HashFile, CaptureInv, CaptureTypeInv
<1>2. /\ nodes \in Seq(Node) /\ last \in DOMAIN nodes /\ nodes[last].hash = ZeroHash
      /\ DOMAIN nodes = 1 .. last /\ last \in Nat
  BY DEF HashFile, CaptureInv, CaptureTypeInv, Pending
<1>3. nodes' = [nodes EXCEPT ![last].hash = c] /\ found' = FoundWith(c)
      /\ UNCHANGED <<policy, security, treeVars, listed>> /\ step' = "walk"
  BY DEF HashFile
<1>. HIDE DEF c, last
<1>4. /\ DOMAIN nodes' = DOMAIN nodes /\ nodes'[last].hash = c
      /\ nodes'[last].sec = nodes[last].sec /\ nodes'[last].entry = nodes[last].entry
      /\ \A i \in DOMAIN nodes : i # last => nodes'[i] = nodes[i]
  <2>1. nodes[last] \in Node  BY <1>2
  <2>. QED  BY <1>2, <1>3, <2>1 DEF Node
<1>5. nodes' \in Seq(Node)
  <2>1. \A i \in DOMAIN nodes : nodes[i] \in Node  BY <1>2
  <2>2. [nodes[last] EXCEPT !.hash = c] \in Node  BY <2>1, <1>1, <1>2 DEF Node, Digest
  <2>. QED  BY <1>2, <1>3, <2>1, <2>2
<1>6. UsersNext(c) = Users(c) \union {last} /\ last \notin Users(c)
  BY <1>1, <1>2, <1>4 DEF Users
<1>7. ASSUME NEW h, h # c, h # ZeroHash PROVE UsersNext(h) = Users(h)
  BY <1>2, <1>4, <1>7 DEF Users
<1>8. Cardinality(UsersNext(c)) = Cardinality(Users(c)) + 1
  <2>1. IsFiniteSet(Users(c))  BY UsersFinite DEF CaptureInv
  <2>. HIDE DEF UsersNext
  <2>. QED  BY <1>6, <2>1, FS_AddElement
<1>9. /\ \A i \in DOMAIN found : found[i] \in Blob
      /\ \A i \in DOMAIN found : found[i].hash # ZeroHash /\ found[i].refs \in Nat
      /\ found \in Seq(Blob) /\ DOMAIN found = 1 .. Len(found) /\ Len(found) \in Nat
  <2>1. found \in Seq(Blob)  BY DEF CaptureInv, CaptureTypeInv
  <2>2. \A i \in DOMAIN found : found[i] \in Blob  BY <2>1
  <2>. QED  BY <2>1, <2>2 DEF Blob
<1>10. /\ found' \in Seq(Blob)
       /\ \A i, j \in DOMAIN found' : found'[i].hash = found'[j].hash => i = j
       /\ \A i \in DOMAIN found' : found'[i].refs = Cardinality(UsersNext(found'[i].hash))
       /\ \A i \in DOMAIN found : \E j \in DOMAIN found' : found'[j].hash = found[i].hash
       /\ \E j \in DOMAIN found' : found'[j].hash = c
  <2>. HIDE DEF UsersNext
  <2>0. /\ \A i, j \in DOMAIN found : found[i].hash = found[j].hash => i = j
        /\ \A i \in DOMAIN found : found[i].refs = Cardinality(Users(found[i].hash))
    BY DEF CaptureInv, BlobsMatchNodes
  <2>1. CASE \E i \in DOMAIN found : found[i].hash = c
    <3>1. found' = [i \in DOMAIN found |->
            IF found[i].hash = c THEN [found[i] EXCEPT !.refs = @ + 1] ELSE found[i]]
      BY <1>3, <2>1 DEF FoundWith
    <3>2. ASSUME NEW i \in DOMAIN found
          PROVE found'[i] \in Blob /\ found'[i].hash = found[i].hash
                /\ found'[i].refs = IF found[i].hash = c THEN found[i].refs + 1
                                                         ELSE found[i].refs
      <4>1. found[i] \in Blob  BY <1>9
      <4>. QED  BY <3>1, <4>1 DEF Blob
    <3>3. DOMAIN found' = DOMAIN found  BY <3>1
    <3>4. found' \in Seq(Blob)  BY <3>1, <3>2, <3>3, <1>9
    <3>5. ASSUME NEW i \in DOMAIN found
          PROVE found'[i].refs = Cardinality(UsersNext(found'[i].hash))
      <4>1. CASE found[i].hash = c
        BY <4>1, <3>2, <1>8, <2>0
      <4>2. CASE found[i].hash # c
        <5>1. UsersNext(found[i].hash) = Users(found[i].hash)  BY <4>2, <1>7, <1>9
        <5>. QED  BY <4>2, <5>1, <3>2, <2>0
      <4>. QED  BY <4>1, <4>2
    <3>. QED  BY <2>0, <2>1, <3>2, <3>3, <3>4, <3>5
  <2>2. CASE ~ \E i \in DOMAIN found : found[i].hash = c
    <3>. DEFINE b == [path |-> cursor, hash |-> c, refs |-> 1]
    <3>1. found' = Append(found, b)  BY <1>3, <2>2 DEF FoundWith
    <3>2. b \in Blob /\ b.hash = c /\ b.refs = 1  BY <1>1 DEF Blob
    <3>. HIDE DEF b
    <3>3. /\ found' \in Seq(Blob) /\ DOMAIN found' = 1 .. Len(found) + 1
          /\ found'[Len(found) + 1] = b /\ \A i \in DOMAIN found : found'[i] = found[i]
      BY <1>9, <3>1, <3>2
    <3>4. Users(c) = {}
      BY <1>1, <2>2 DEF CaptureInv, BlobsMatchNodes, Users
    <3>5. Cardinality(UsersNext(c)) = 1  BY <3>4, <1>8, FS_EmptySet
    <3>6. ASSUME NEW i \in DOMAIN found
          PROVE found'[i].refs = Cardinality(UsersNext(found'[i].hash))
      <4>1. UsersNext(found[i].hash) = Users(found[i].hash)  BY <2>2, <1>7, <1>9
      <4>. QED  BY <4>1, <3>3, <2>0
    <3>7. Len(found) + 1 \in DOMAIN found' /\ DOMAIN found \subseteq DOMAIN found'
      BY <3>3, <1>9
    <3>8. \A i \in DOMAIN found' : i \in DOMAIN found \/ i = Len(found) + 1
      BY <3>3, <1>9
    <3>9. \A i, j \in DOMAIN found' : found'[i].hash = found'[j].hash => i = j
      BY <2>0, <2>2, <3>2, <3>3, <3>8
    <3>10. \A i \in DOMAIN found' : found'[i].refs = Cardinality(UsersNext(found'[i].hash))
      BY <3>2, <3>3, <3>5, <3>6, <3>8
    <3>. QED  BY <3>2, <3>3, <3>7, <3>9, <3>10
  <2>. QED  BY <2>1, <2>2
<1>11. CaptureTypeInv'
  <2>1. cursor' \in 1 .. N + 1
    BY <1>1 DEF HashFile, Successors, File, Entry
  <2>. QED
    BY <1>3, <1>5, <1>10, <2>1 DEF treeVars, CaptureInv, CaptureTypeInv
<1>12. BlobsMatchNodes'
  <2>1. ASSUME NEW i \in DOMAIN nodes', nodes'[i].hash # ZeroHash
        PROVE \E j \in DOMAIN found' : found'[j].hash = nodes'[i].hash
    <3>1. CASE i = last  BY <3>1, <1>4, <1>10
    <3>2. CASE i # last
      <4>1. i \in DOMAIN nodes /\ nodes'[i] = nodes[i]  BY <3>2, <1>4
      <4>2. PICK j \in DOMAIN found : found[j].hash = nodes[i].hash
        BY <2>1, <4>1 DEF CaptureInv, BlobsMatchNodes
      <4>. QED  BY <4>1, <4>2, <1>10
    <3>. QED  BY <3>1, <3>2
  <2>. QED  BY <1>10, <2>1 DEF BlobsMatchNodes, Users
<1>13. SecurityTableExact'
  BY <1>2, <1>3, <1>4 DEF CaptureInv, SecurityTableExact
<1>14. Pending'  BY <1>3 DEF Pending
<1>. QED  BY <1>11, <1>12, <1>13, <1>14 DEF CaptureInv

-----------------------------------------------------------------------------
LEMMA CaptureStepInv ==
  ASSUME CaptureInv, CaptureStep \/ UNCHANGED captureVars PROVE CaptureInv'
<1>1. CASE BeginCapture  BY <1>1, BeginInv
<1>2. CASE Stat  BY <1>2, StatInv
<1>3. CASE HashFile  BY <1>3, HashFileInv
<1>4. CASE WalkFails \/ WalkEnds \/ Environment \/ UNCHANGED captureVars
  BY <1>4, QuietInv
<1>. QED  BY <1>1, <1>2, <1>3, <1>4 DEF CaptureStep, Walk

THEOREM CaptureInvariance == CaptureSpec => []CaptureInv
<1>1. CaptureInv /\ [CaptureNext]_captureVars => CaptureInv'
  BY CaptureStepInv DEF CaptureNext, CaptureStep
<1>. QED  BY <1>1, CaptureInitInv, PTL DEF CaptureSpec

(* A walk builds nodes, descriptors and blobs of the right kind.           *)
THEOREM CaptureTypeCorrect == CaptureSpec => []CaptureTypeInv
<1>1. CaptureInv => CaptureTypeInv  BY DEF CaptureInv
<1>. QED  BY <1>1, CaptureInvariance, PTL

(* Whatever the tree's owner does between stat and read, the streams that  *)
(* are written and the hashes in the tree are the same, with exact counts. *)
THEOREM BlobsAreExact == CaptureSpec => []BlobsMatchNodes
<1>1. CaptureInv => BlobsMatchNodes  BY DEF CaptureInv
<1>. QED  BY <1>1, CaptureInvariance, PTL

(* Deduplicating descriptors never gives a node another node's.            *)
THEOREM DescriptorsAreExact == CaptureSpec => []SecurityTableExact
<1>1. CaptureInv => SecurityTableExact  BY DEF CaptureInv
<1>. QED  BY <1>1, CaptureInvariance, PTL

-----------------------------------------------------------------------------
(* The walk.                                                               *)

(* A set of numbers has a least one.                                       *)
LEMMA LeastOf ==
  ASSUME NEW T, T \subseteq Nat, T # {}
  PROVE  \E x \in T : \A y \in T : x <= y
<1>. DEFINE R == OpToRel(<, Nat)
<1>1. \A x, y \in Nat : y < x => <<y, x>> \in R  BY DEF OpToRel
<1>2. IsWellFoundedOn(R, Nat)  BY NatLessThanWellFounded
<1>. HIDE DEF R
<1>3. PICK x \in T : \A y \in T : ~ (<<y, x>> \in R)  BY <1>2, WFMin
<1>4. \A y \in T : ~ (y < x)  BY <1>1, <1>3, Zenon
<1>5. T \subseteq Nat /\ x \in Nat  OBVIOUS
<1>. QED  BY <1>4, <1>5

(* The walk has been at e.                                                 *)
Walked(e) == e < cursor \/ (step = "hash" /\ e = cursor)

(* What a walk that does not fail has made of the part that is behind it.  *)
(* A directory is never gone, so that only edits keep an entry from being  *)
(* listed with its directory.                                              *)
WalkInv ==
  /\ edits = 0 => \A f \in File : disk[f] # Gone
  /\ step = "captured" => cursor = N + 1
  /\ step \in {"walk", "hash", "captured"} =>
       /\ 1 \in listed /\ cursor \in listed \union {N + 1}
       /\ \A e \in Entry :
            (\E i \in DOMAIN nodes : nodes[i].entry = e) <=> e \in listed /\ Walked(e)
       /\ \A i, j \in DOMAIN nodes : i < j => nodes[i].entry < nodes[j].entry
       /\ \A e \in 2 .. N : (e \in Dir \/ edits = 0) /\ Walked(Parent[e]) => e \in listed

LEMMA WalkInitInv == CaptureInit => WalkInv
  BY CaptureAssumption DEF CaptureInit, WalkInv, File

LEMMA BeginWalk == ASSUME CaptureInv, WalkInv, BeginCapture PROVE WalkInv'
<1>1. \A e \in Entry : e >= 1  BY DEF Entry
<1>2. \A e \in 2 .. N : Parent[e] \in Entry  BY CaptureAssumption DEF Entry
<1>. QED  BY <1>1, <1>2 DEF BeginCapture, WalkInv, Walked, Entry

(* What the assumption says of the directory of an entry.                  *)
LEMMA TreeFacts ==
  /\ N \in Nat /\ Dir \subseteq Nat
  /\ \A y \in 2 .. N : Parent[y] \in Dir /\ Parent[y] \in Nat /\ Parent[y] < y
<1>1. N \in Nat /\ Dir \subseteq 1 .. N  BY CaptureAssumption DEF Entry
<1>2. \A y \in 2 .. N : Parent[y] \in Dir  BY CaptureAssumption
<1>3. \A y \in 2 .. N : Parent[y] < y  BY CaptureAssumption
<1>4. Dir \subseteq Nat  BY <1>1
<1>. QED  BY <1>1, <1>2, <1>3, <1>4

(* From e the walk goes to the next entry that was listed, and no          *)
(* directory is passed over: the first of those would be in one that the   *)
(* walk has been at.                                                       *)
LEMMA MovesOn ==
  ASSUME NEW L \in SUBSET Entry, NEW e \in Entry, NEW x \in Successors(e, L),
         \A y \in 2 .. N : (y \in Dir \/ edits = 0) /\ Parent[y] <= e => y \in L
  PROVE  /\ x \in e + 1 .. N + 1 /\ x \in L \union {N + 1}
         /\ \A y \in L : y <= e <=> y < x
         /\ \A y \in 2 .. N : (y \in Dir \/ edits = 0) /\ Parent[y] < x => y \in L
<1>0. Dir \subseteq Entry  BY CaptureAssumption
<1>1. /\ x \in e + 1 .. N + 1 /\ x \in L \union {N + 1}
      /\ \A y \in L : y <= e \/ x <= y
  BY DEF Successors
<1>2. e \in Nat /\ N \in Nat /\ L \subseteq Nat /\ Dir \subseteq Nat /\ x \in Nat
  BY <1>1, TreeFacts DEF Entry
<1>3. \A y \in L : y <= e <=> y < x  BY <1>1, <1>2
<1>. DEFINE T == {d \in Dir : e < d /\ d < x}
<1>4. T = {}
  <2>. SUFFICES ASSUME T # {} PROVE FALSE  OBVIOUS
  <2>1. T \subseteq Nat  BY <1>2
  <2>2. PICK d \in T : \A y \in T : d <= y  BY <2>1, LeastOf
  <2>3. d \in Dir /\ e < d /\ d < x /\ d \in 2 .. N  BY <1>0, <1>1, <1>2 DEF Entry
  <2>4. Parent[d] \in Dir /\ Parent[d] \in Nat /\ Parent[d] < d /\ d \in Nat
    BY <2>3, TreeFacts
  <2>5. Parent[d] \notin T
    <3>1. ~ (d <= Parent[d])  BY <2>4
    <3>. QED  BY <2>2, <3>1, Zenon
  <2>6. Parent[d] <= e  BY <1>1, <1>2, <2>3, <2>4, <2>5
  <2>7. d \in L  BY <2>3, <2>6
  <2>. QED  BY <1>1, <1>2, <2>3, <2>7
<1>5. ASSUME NEW y \in 2 .. N, Parent[y] < x PROVE Parent[y] <= e
  <2>1. Parent[y] \in Dir /\ Parent[y] \in Nat  BY TreeFacts
  <2>2. ~ (e < Parent[y])  BY <1>4, <1>5, <2>1
  <2>. QED  BY <1>2, <2>1, <2>2
<1>. QED  BY <1>1, <1>3, <1>5

LEMMA StatWalk == ASSUME CaptureInv, WalkInv, Stat PROVE WalkInv'
<1>. USE CaptureAssumption
<1>1. /\ step = "walk" /\ cursor \in Entry /\ Present(cursor) /\ cursor \in Nat /\ N \in Nat
      /\ listed \in SUBSET Entry /\ listed' = ListedAt(cursor)
      /\ UNCHANGED <<disk, edits>> /\ nodes \in Seq(Node)
  BY DEF Stat, treeVars, CaptureInv, CaptureTypeInv, Entry
<1>2. /\ 1 \in listed /\ cursor \in listed
      /\ \A e \in Entry :
           (\E i \in DOMAIN nodes : nodes[i].entry = e) <=> e \in listed /\ e < cursor
      /\ \A i, j \in DOMAIN nodes : i < j => nodes[i].entry < nodes[j].entry
      /\ \A e \in 2 .. N : (e \in Dir \/ edits = 0) /\ Parent[e] < cursor => e \in listed
  BY <1>1 DEF WalkInv, Walked, Entry
<1>3. \A e \in 2 .. N : Parent[e] \in Dir /\ Parent[e] < e /\ Parent[e] \in Nat
  BY TreeFacts
<1>4. listed' \in SUBSET Entry /\ listed \subseteq listed'
      /\ \A e \in listed' : e \in listed \/ (e \in 2 .. N /\ e > cursor)
  <2>1. \A e \in 2 .. N : e \in Entry  BY DEF Entry
  <2>. QED  BY <1>1, <1>3, <2>1 DEF ListedAt
<1>5. ASSUME NEW e \in 2 .. N, e \in Dir \/ edits = 0, Parent[e] <= cursor
      PROVE e \in listed'
  <2>1. CASE Parent[e] < cursor  BY <1>2, <1>4, <1>5, <2>1
  <2>2. CASE Parent[e] = cursor
    <3>1. cursor \in Dir  BY <1>3, <2>2
    <3>2. Present(e)  BY <1>5 DEF WalkInv, Present, File
    <3>. QED  BY <1>1, <2>2, <3>1, <3>2 DEF ListedAt
  <2>. QED  BY <1>1, <1>3, <1>5, <2>1, <2>2
<1>6. /\ DOMAIN nodes' = DOMAIN nodes \union {Len(nodes) + 1} /\ Len(nodes) \in Nat
      /\ DOMAIN nodes = 1 .. Len(nodes)
      /\ \A i \in DOMAIN nodes : nodes'[i] = nodes[i]
      /\ nodes'[Len(nodes) + 1].entry = cursor
  <2>. DEFINE n == [entry |-> cursor, size |-> StatSize(cursor),
                    hash |-> ZeroHash, sec |-> SecurityId(policy[cursor])]
  <2>1. nodes' = Append(nodes, n) /\ n.entry = cursor  BY DEF Stat
  <2>. HIDE DEF n
  <2>. QED  BY <1>1, <2>1
<1>7. \A e \in Entry :
        (\E i \in DOMAIN nodes' : nodes'[i].entry = e) <=> e \in listed' /\ e <= cursor
  <2>. SUFFICES ASSUME NEW e \in Entry
                PROVE (\E i \in DOMAIN nodes' : nodes'[i].entry = e)
                        <=> e \in listed' /\ e <= cursor
    OBVIOUS
  <2>1. (\E i \in DOMAIN nodes' : nodes'[i].entry = e)
          <=> (\E i \in DOMAIN nodes : nodes[i].entry = e) \/ e = cursor
    BY <1>6
  <2>2. e \in Nat  BY DEF Entry
  <2>. QED  BY <1>1, <1>2, <1>4, <2>1, <2>2
<1>8. \A i, j \in DOMAIN nodes' : i < j => nodes'[i].entry < nodes'[j].entry
  <2>. SUFFICES ASSUME NEW i \in DOMAIN nodes', NEW j \in DOMAIN nodes', i < j
                PROVE nodes'[i].entry < nodes'[j].entry
    OBVIOUS
  <2>1. i \in DOMAIN nodes  BY <1>6
  <2>2. nodes[i].entry < cursor
    <3>1. nodes[i] \in Node  BY <1>1, <2>1
    <3>2. nodes[i].entry \in Entry  BY <3>1 DEF Node
    <3>. QED  BY <1>2, <2>1, <3>2
  <2>3. CASE j = Len(nodes) + 1  BY <1>6, <2>1, <2>2, <2>3
  <2>4. CASE j \in DOMAIN nodes  BY <1>2, <1>6, <2>1, <2>4
  <2>. QED  BY <1>6, <2>3, <2>4
<1>9. CASE step' = "hash" /\ UNCHANGED cursor
  <2>1. \A e \in Entry : Walked(e)' <=> e <= cursor  BY <1>1, <1>9 DEF Walked, Entry
  <2>2. \A e \in 2 .. N : Walked(Parent[e])' => Parent[e] <= cursor
    BY <1>1, <1>3, <1>9 DEF Walked
  <2>. QED  BY <1>1, <1>2, <1>4, <1>5, <1>7, <1>8, <1>9, <2>1, <2>2 DEF WalkInv
<1>10. CASE step' = "walk" /\ cursor' \in Successors(cursor, listed')
  <2>1. /\ cursor' \in cursor + 1 .. N + 1 /\ cursor' \in listed' \union {N + 1}
        /\ \A y \in listed' : y <= cursor <=> y < cursor'
        /\ \A y \in 2 .. N : (y \in Dir \/ edits = 0) /\ Parent[y] < cursor' => y \in listed'
    <3>1. PICK L : L = listed'  OBVIOUS
    <3>2. PICK x : x = cursor'  OBVIOUS
    <3>. QED  BY <1>1, <1>4, <1>5, <1>10, <3>1, <3>2, MovesOn
  <2>2. \A e \in Entry : Walked(e)' <=> e < cursor'  BY <1>10 DEF Walked
  <2>3. \A e \in 2 .. N : Walked(Parent[e])' => Parent[e] < cursor'
    BY <1>10 DEF Walked
  <2>4. \A e \in Entry :
          (\E i \in DOMAIN nodes' : nodes'[i].entry = e) <=> e \in listed' /\ Walked(e)'
    BY <1>7, <2>1, <2>2
  <2>. QED  BY <1>1, <1>2, <1>4, <1>8, <1>10, <2>1, <2>3, <2>4 DEF WalkInv
<1>. QED  BY <1>9, <1>10 DEF Stat

LEMMA HashWalk == ASSUME CaptureInv, WalkInv, HashFile PROVE WalkInv'
<1>1. /\ step = "hash" /\ step' = "walk" /\ cursor \in Entry /\ cursor \in Nat
      /\ cursor' \in Successors(cursor, listed) /\ listed \in SUBSET Entry
      /\ UNCHANGED <<disk, edits, listed>>
  BY DEF HashFile, treeVars, CaptureInv, CaptureTypeInv, Entry, File
<1>2. /\ 1 \in listed
      /\ \A e \in Entry :
           (\E i \in DOMAIN nodes : nodes[i].entry = e) <=> e \in listed /\ e <= cursor
      /\ \A i, j \in DOMAIN nodes : i < j => nodes[i].entry < nodes[j].entry
  BY <1>1 DEF WalkInv, Walked, Entry
<1>3. \A e \in 2 .. N : (e \in Dir \/ edits = 0) /\ Parent[e] <= cursor => e \in listed
  BY <1>1, TreeFacts DEF WalkInv, Walked
<1>4. /\ cursor' \in cursor + 1 .. N + 1 /\ cursor' \in listed \union {N + 1}
      /\ \A y \in listed : y <= cursor <=> y < cursor'
      /\ \A y \in 2 .. N : (y \in Dir \/ edits = 0) /\ Parent[y] < cursor' => y \in listed
  <2>1. PICK x : x = cursor'  OBVIOUS
  <2>. QED  BY <1>1, <1>3, <2>1, MovesOn
<1>5. DOMAIN nodes' = DOMAIN nodes /\ \A i \in DOMAIN nodes : nodes'[i].entry = nodes[i].entry
  <2>1. nodes \in Seq(Node) /\ Len(nodes) \in DOMAIN nodes
    BY <1>1 DEF CaptureInv, CaptureTypeInv, Pending
  <2>2. \A i \in DOMAIN nodes : nodes[i] \in Node  BY <2>1
  <2>3. nodes' = [nodes EXCEPT ![Len(nodes)] = [nodes[Len(nodes)] EXCEPT !.hash = disk[cursor]]]
    BY DEF HashFile
  <2>. QED  BY <2>1, <2>2, <2>3 DEF Node
<1>6. \A e \in Entry : Walked(e)' <=> e < cursor'  BY <1>1 DEF Walked
<1>7. \A e \in 2 .. N : Walked(Parent[e])' <=> Parent[e] < cursor'  BY <1>1 DEF Walked
<1>8. \A e \in Entry :
        (\E i \in DOMAIN nodes' : nodes'[i].entry = e) <=> e \in listed' /\ Walked(e)'
  BY <1>1, <1>2, <1>4, <1>5, <1>6
<1>9. \A i, j \in DOMAIN nodes' : i < j => nodes'[i].entry < nodes'[j].entry
  BY <1>2, <1>5
<1>10. edits' = 0 => \A f \in File : disk'[f] # Gone  BY <1>1 DEF WalkInv
<1>. QED  BY <1>1, <1>2, <1>4, <1>7, <1>8, <1>9, <1>10 DEF WalkInv

LEMMA QuietWalk ==
  ASSUME CaptureInv, WalkInv,
         Environment \/ WalkFails \/ WalkEnds \/ (UNCHANGED captureVars)
  PROVE  WalkInv'
<1>1. CASE \E f \in File, c \in Content \union {Gone} : Edit(f, c)
  <2>1. edits' # 0 /\ (edits' = 0 => edits = 0) /\ UNCHANGED <<step, walkVars>>
    BY <1>1 DEF Edit, CaptureInv, CaptureTypeInv
  <2>2. \A e : Walked(e)' <=> Walked(e)  BY <2>1 DEF Walked, walkVars
  <2>. QED  BY <2>1, <2>2 DEF WalkInv, walkVars
<1>2. CASE Cancel \/ UNCHANGED captureVars
  <2>1. UNCHANGED <<disk, edits, step, walkVars>>
    BY <1>2 DEF Cancel, captureVars, treeVars
  <2>2. \A e : Walked(e)' <=> Walked(e)  BY <2>1 DEF Walked, walkVars
  <2>. QED  BY <2>1, <2>2 DEF WalkInv, walkVars
<1>3. CASE WalkFails
  <2>1. UNCHANGED <<disk, edits>> /\ step' = "failed"  BY <1>3 DEF WalkFails, treeVars
  <2>. QED  BY <2>1 DEF WalkInv
<1>4. CASE WalkEnds
  <2>1. UNCHANGED <<disk, edits, walkVars>> /\ step = "walk" /\ step' = "captured"
        /\ cursor > N
    BY <1>4 DEF WalkEnds, treeVars
  <2>2. \A e : Walked(e)' <=> Walked(e)  BY <2>1 DEF Walked, walkVars
  <2>3. cursor = N + 1  BY <2>1, TreeFacts DEF CaptureInv, CaptureTypeInv
  <2>. QED  BY <2>1, <2>2, <2>3 DEF WalkInv, walkVars
<1>. QED  BY <1>1, <1>2, <1>3, <1>4 DEF Environment

(* A capture that succeeds has a node, once and in lexical order, for      *)
(* every entry that was listed: for every directory, and for every entry   *)
(* at all when nobody edited the tree.                                     *)
THEOREM WalksAreComplete == CaptureSpec => []WalkIsComplete
<1>1. CaptureInit => CaptureInv /\ WalkInv  BY CaptureInitInv, WalkInitInv
<1>2. CaptureInv /\ WalkInv /\ [CaptureNext]_captureVars => CaptureInv' /\ WalkInv'
  <2>. SUFFICES ASSUME CaptureInv, WalkInv, [CaptureNext]_captureVars
                PROVE CaptureInv' /\ WalkInv'
    OBVIOUS
  <2>1. CASE BeginCapture  BY <2>1, BeginInv, BeginWalk
  <2>2. CASE Stat  BY <2>2, StatInv, StatWalk
  <2>3. CASE HashFile  BY <2>3, HashFileInv, HashWalk
  <2>4. CASE WalkFails \/ WalkEnds \/ Environment \/ UNCHANGED captureVars
    BY <2>4, QuietInv, QuietWalk
  <2>. QED  BY <2>1, <2>2, <2>3, <2>4 DEF CaptureNext, Walk
<1>3. CaptureInv /\ WalkInv => WalkIsComplete
  <2>. SUFFICES ASSUME CaptureInv, WalkInv, step = "captured" PROVE WalkIsComplete
    BY DEF WalkIsComplete
  <2>1. cursor = N + 1 /\ N \in Nat /\ Dir \subseteq Entry /\ Entry = 1 .. N
    BY TreeFacts, CaptureAssumption DEF WalkInv, Entry
  <2>2. \A e \in Entry : Walked(e)  BY <2>1 DEF Walked
  <2>3. \A e \in 2 .. N : Parent[e] < N + 1  BY TreeFacts
  <2>4. \A e \in 2 .. N : e \in Dir \/ edits = 0 => e \in listed
    BY <2>1, <2>3 DEF WalkInv, Walked
  <2>5. 1 \in listed /\ listed \subseteq Entry  BY DEF WalkInv, CaptureInv, CaptureTypeInv
  <2>6. \A e \in Entry : (\E i \in DOMAIN nodes : nodes[i].entry = e) <=> e \in listed
    BY <2>2 DEF WalkInv
  <2>7. \A i \in DOMAIN nodes : nodes[i].entry \in Entry
    <3>1. \A i \in DOMAIN nodes : nodes[i] \in Node  BY DEF CaptureInv, CaptureTypeInv
    <3>. QED  BY <3>1 DEF Node
  <2>8. Elems([i \in DOMAIN nodes |-> nodes[i].entry]) = listed
    <3>1. \A e : e \in Elems([i \in DOMAIN nodes |-> nodes[i].entry])
                   <=> \E i \in DOMAIN nodes : nodes[i].entry = e
      BY DEF Elems
    <3>. QED  BY <2>5, <2>6, <2>7, <3>1
  <2>9. Dir \subseteq listed
    <3>1. \A e \in Dir : e = 1 \/ e \in 2 .. N  BY <2>1
    <3>. QED  BY <2>4, <2>5, <3>1
  <2>10. edits = 0 => listed = Entry
    <3>1. \A e \in Entry : e = 1 \/ e \in 2 .. N  BY <2>1
    <3>. QED  BY <2>4, <2>5, <3>1
  <2>11. \A i, j \in DOMAIN nodes : i < j => nodes[i].entry < nodes[j].entry
    BY DEF WalkInv
  <2>. QED  BY <2>8, <2>9, <2>10, <2>11 DEF WalkIsComplete
<1>. QED  BY <1>1, <1>2, <1>3, PTL DEF CaptureSpec

-----------------------------------------------------------------------------
(* The Writer.                                                             *)


Adding == {"walk", "hash", "captured", "failed", "blob"}
Sealing == {"table", "xml", "seal"}

BlobEntry == [res: ResType, hash: Digest, refs: Nat \ {0}]
Image == [info: Infos, res: ResType, meta: MetaType]

Typed == WriterTypeInv /\ order \in Seq(TableEntry)

(* How far a Writer has got that is in the middle of a call.               *)
Phases ==
  /\ step # "idle" => ~err
  /\ step \in Adding => ~closed /\ adding \in Infos
  /\ step \in Sealing => closed /\ images # <<>>
  /\ step = "blob" \/ images # <<>> => started

(* What the destination's first bytes are, and where its cursor is.        *)
HeaderFollows ==
  /\ ~started /\ ~err => header.kind = "none"
  /\ started /\ ~closed /\ ~err => header.kind = "reserved"
  /\ step \in Sealing => header.kind = "reserved"
  /\ header.kind = "reserved" => pos = at
  /\ Damaged => err

WriterInv ==
  /\ CaptureInv /\ Typed /\ Phases /\ HeaderFollows
  /\ ResourcesOnDisk /\ MetadataFollowsHeader

(* A Writer that nothing has been asked of yet.                            *)
Fresh ==
  /\ step = "idle" /\ started = FALSE /\ closed = FALSE /\ err = FALSE /\ pos = 0
  /\ blobs = <<>> /\ images = <<>> /\ adding = NoInfo /\ turn = 1 /\ order = <<>>
  /\ tableRes = NoRes /\ xmlRes = NoRes /\ captures = 0 /\ ret = "none"

LEMMA FreshWrites ==
  ASSUME CaptureInv, Fresh, at \in Nat, header = [kind |-> "none", says |-> Zeros], extents = {}
  PROVE  WriterInv
<1>. USE WriterAssumption DEF Fresh
<1>1. Typed
  <2>1. NoRes \in ResType  BY DEF NoRes, Res, ResType
  <2>2. captures \in 0 .. MaxImages /\ turn \in Nat \ {0} /\ pos \in Nat  OBVIOUS
  <2>3. CaptureTypeInv  BY DEF CaptureInv
  <2>4. blobs \in Seq(BlobEntry) /\ images \in Seq(Image) /\ order \in Seq(TableEntry)
    OBVIOUS
  <2>. QED
    BY <2>1, <2>2, <2>3, <2>4 DEF Typed, WriterTypeInv, BlobEntry, Image
<1>2. Phases  BY DEF Phases, Adding, Sealing
<1>3. HeaderFollows  BY DEF HeaderFollows, Sealing, Damaged
<1>4. ResourcesOnDisk /\ MetadataFollowsHeader
  BY DEF ResourcesOnDisk, MetadataFollowsHeader
<1>. QED  BY <1>1, <1>2, <1>3, <1>4 DEF WriterInv

LEMMA InitWrites == WriterInit => WriterInv
<1>. SUFFICES ASSUME WriterInit PROVE WriterInv  OBVIOUS
<1>1. CaptureInv  BY CaptureInitInv DEF WriterInit
<1>2. Fresh /\ at \in Nat /\ header = [kind |-> "none", says |-> Zeros] /\ extents = {}
  BY WriterAssumption DEF WriterInit, CaptureInit, Fresh
<1>. QED  BY <1>1, <1>2, FreshWrites

-----------------------------------------------------------------------------
(* Steps that lead on in a call and leave the capture as it is.            *)
LEMMA CaptureKept ==
  ASSUME CaptureInv, UNCHANGED <<treeVars, policy, walkVars>>, step' # "hash"
  PROVE  CaptureInv'
<1>1. UNCHANGED <<disk, edits, cancelled, policy, cursor, listed, nodes, security, found>>
  BY DEF treeVars, walkVars
<1>. QED
  BY <1>1 DEF CaptureInv, CaptureTypeInv, Pending, BlobsMatchNodes, SecurityTableExact, Users

(* What has been recorded stays true while the destination only grows.     *)
LEMMA RecordsKept ==
  ASSUME ResourcesOnDisk, MetadataFollowsHeader, extents \subseteq extents',
         UNCHANGED <<opts, blobs, images>>
  PROVE  ResourcesOnDisk' /\ MetadataFollowsHeader'
BY DEF ResourcesOnDisk, MetadataFollowsHeader, Describes

(* The capture, its environment, and what a caller does in between.        *)
LEMMA CapturingKeeps ==
  ASSUME WriterInv, UNCHANGED writerVars, CaptureStep \/ UNCHANGED captureVars,
         step' \in Adding => step \in Adding,
         step' # "idle" => step # "idle",
         step' \in Sealing \union {"blob"} => step' = step,
         step' \in {"idle", "walk", "hash", "captured", "failed", "blob"} \union Sealing
  PROVE  WriterInv'
<1>1. CaptureInv'  BY CaptureStepInv DEF WriterInv
<1>2. UNCHANGED <<opts, started, closed, err, pos, blobs, images, adding, turn, order,
                  tableRes, xmlRes, captures, ret, at, header, extents>>
  BY DEF writerVars, stateVars, callVars, dstVars
<1>3. Typed'
  BY <1>1, <1>2 DEF WriterInv, Typed, WriterTypeInv, CaptureInv, Sealing
<1>4. Phases' /\ HeaderFollows'
  BY <1>2 DEF WriterInv, Phases, HeaderFollows, Adding, Sealing, Damaged
<1>5. ResourcesOnDisk' /\ MetadataFollowsHeader'
  BY <1>2, RecordsKept DEF WriterInv
<1>. QED  BY <1>1, <1>3, <1>4, <1>5 DEF WriterInv

LEMMA OutsideKeeps == ASSUME WriterInv, Outside PROVE WriterInv'
<1>1. UNCHANGED step /\ UNCHANGED writerVars /\ CaptureStep
  BY DEF Outside, Environment, Edit, Cancel, CaptureStep
<1>2. step \in {"idle", "walk", "hash", "captured", "failed", "blob"} \union Sealing
  BY DEF WriterInv, Typed, WriterTypeInv, Sealing
<1>. QED  BY <1>1, <1>2, CapturingKeeps

LEMMA WalkKeeps == ASSUME WriterInv, Capturing PROVE WriterInv'
<1>1. UNCHANGED writerVars /\ CaptureStep  BY DEF Capturing, CaptureStep
<1>2. step \in {"walk", "hash"} /\ step' \in {"walk", "hash", "captured", "failed"}
  BY DEF Capturing, Walk, Stat, HashFile, WalkFails, WalkEnds
<1>. QED  BY <1>1, <1>2, CapturingKeeps DEF Adding, Sealing
-----------------------------------------------------------------------------
(* The calls, and what ends them before anything is written.               *)

LEMMA AddImageKeeps ==
  ASSUME WriterInv, NEW info \in Infos, AddImage(info) PROVE WriterInv'
<1>1. step = "idle" /\ step' = "walk" /\ ~err /\ ~closed
      /\ adding' = info /\ turn' = 1 /\ captures' = captures + 1 /\ captures < MaxImages
      /\ UNCHANGED <<opts, started, closed, err, pos, blobs, images, order,
                     tableRes, xmlRes, ret, at, header, extents>>
  BY DEF AddImage, Accepts, BeginCapture, stateVars, dstVars
<1>2. CaptureInv'  BY BeginInv DEF AddImage, WriterInv
<1>3. Typed'
  <2>1. captures' \in 0 .. MaxImages /\ turn' \in Nat \ {0}
    BY <1>1, WriterAssumption DEF WriterInv, Typed, WriterTypeInv
  <2>. QED
    BY <1>1, <1>2, <2>1 DEF WriterInv, Typed, WriterTypeInv, CaptureInv
<1>4. Phases' /\ HeaderFollows'
  BY <1>1 DEF WriterInv, Phases, HeaderFollows, Adding, Sealing, Damaged
<1>5. ResourcesOnDisk' /\ MetadataFollowsHeader'
  BY <1>1, RecordsKept DEF WriterInv
<1>. QED  BY <1>2, <1>3, <1>4, <1>5 DEF WriterInv

LEMMA RefusalKeeps ==
  ASSUME WriterInv, (\E info \in Infos : RefuseImage(info)) \/ RefuseClose \/ CaptureFailed
  PROVE  WriterInv'
<1>1. ret' = "error" /\ step' = "idle"
      /\ UNCHANGED <<treeVars, policy, walkVars, opts, started, closed, err, pos, blobs,
                     images, adding, turn, order, tableRes, xmlRes, captures,
                     at, header, extents>>
  BY DEF RefuseImage, RefuseClose, CaptureFailed, captureVars, stateVars, dstVars
<1>2. CaptureInv'  BY <1>1, CaptureKept DEF WriterInv
<1>3. Typed'
  BY <1>1, <1>2 DEF WriterInv, Typed, WriterTypeInv, CaptureInv
<1>4. Phases' /\ HeaderFollows'
  BY <1>1 DEF WriterInv, Phases, HeaderFollows, Adding, Sealing, Damaged
<1>5. ResourcesOnDisk' /\ MetadataFollowsHeader'
  BY <1>1, RecordsKept DEF WriterInv
<1>. QED  BY <1>2, <1>3, <1>4, <1>5 DEF WriterInv

LEMMA StartKeeps == ASSUME WriterInv, Start PROVE WriterInv'
<1>. USE WriterAssumption
<1>1. step = "captured" /\ step' = "blob"
      /\ UNCHANGED <<treeVars, policy, walkVars, opts, closed, err, blobs, images,
                     adding, turn, order, tableRes, xmlRes, captures, ret, extents>>
  BY DEF Start, callVars, stateVars, dstVars
<1>2. started' = TRUE
      /\ \/ started /\ UNCHANGED <<pos, at, header>>
         \/ pos' = HeaderSize /\ at' = HeaderSize /\ header' = [kind |-> "reserved", says |-> Zeros]
  BY DEF Start, HeaderEnd, stateVars, dstVars, WriterInv, Typed, WriterTypeInv
<1>3. CaptureInv'  BY <1>1, CaptureKept DEF WriterInv
<1>4. Typed'
  <2>1. pos' \in Nat /\ at' \in Nat
    BY <1>2 DEF WriterInv, Typed, WriterTypeInv
  <2>. QED
    BY <1>1, <1>2, <1>3, <2>1 DEF WriterInv, Typed, WriterTypeInv, CaptureInv
<1>5. Phases' /\ HeaderFollows'
  BY <1>1, <1>2 DEF WriterInv, Phases, HeaderFollows, Adding, Sealing, Damaged
<1>6. ResourcesOnDisk' /\ MetadataFollowsHeader'
  BY <1>1, RecordsKept DEF WriterInv
<1>. QED  BY <1>3, <1>4, <1>5, <1>6 DEF WriterInv

-----------------------------------------------------------------------------
(* Failing for good, wherever a write stopped.                             *)
LEMMA FailKeeps ==
  ASSUME WriterInv, Fail, UNCHANGED started,
         pos' \in Nat, at' \in Nat, extents \subseteq extents',
         \/ header'.kind = "torn"
         \/ UNCHANGED header /\ (header.kind = "reserved" => pos' = at')
  PROVE  WriterInv'
<1>1. err' = TRUE /\ ret' = "error" /\ step' = "idle"
      /\ UNCHANGED <<treeVars, policy, walkVars, adding, turn, order, tableRes, xmlRes,
                     captures, opts, closed, blobs, images>>
  BY DEF Fail, Failure
<1>2. CaptureInv'  BY <1>1, CaptureKept DEF WriterInv
<1>3. Typed'
  BY <1>1, <1>2 DEF WriterInv, Typed, WriterTypeInv, CaptureInv
<1>4. Phases'
  BY <1>1 DEF WriterInv, Phases, Adding, Sealing
<1>5. HeaderFollows'
  BY <1>1 DEF WriterInv, HeaderFollows, Sealing
<1>6. ResourcesOnDisk' /\ MetadataFollowsHeader'
  BY <1>1, RecordsKept DEF WriterInv
<1>. QED  BY <1>2, <1>3, <1>4, <1>5, <1>6 DEF WriterInv

LEMMA TornKeeps ==
  ASSUME WriterInv, Fail, UNCHANGED started, NEW n \in Nat, Torn(n)
  PROVE  WriterInv'
<1>1. pos \in Nat /\ at \in Nat /\ (header.kind = "reserved" => pos = at)
  BY DEF WriterInv, Typed, WriterTypeInv, HeaderFollows
<1>2. pos' = pos + n /\ at' = at + n /\ UNCHANGED header /\ extents \subseteq extents'
  BY DEF Torn
<1>3. pos' \in Nat /\ at' \in Nat /\ (header.kind = "reserved" => pos' = at')
  BY <1>1, <1>2
<1>. QED  BY <1>2, <1>3, FailKeeps

LEMMA StartFailsKeeps == ASSUME WriterInv, StartFails \/ SealFails PROVE WriterInv'
<1>1. Fail /\ UNCHANGED <<started, pos, extents>>  BY DEF StartFails, SealFails, dstVars
<1>2. pos \in Nat /\ at \in Nat /\ (header.kind = "reserved" => pos = at)
  BY DEF WriterInv, Typed, WriterTypeInv, HeaderFollows
<1>3. at' \in Nat
      /\ (header'.kind = "torn" \/ UNCHANGED <<at, header>>)
  BY <1>2, WriterAssumption DEF StartFails, SealFails, dstVars
<1>. QED  BY <1>1, <1>2, <1>3, FailKeeps

LEMMA StoredLenIsNat ==
  ASSUME NEW u \in Nat, NEW p \in Nat, NEW m \in BOOLEAN
  PROVE  StoredLen(u, p, m) \in Nat
BY DEF StoredLen

LEMMA ContentLens ==
  ASSUME NEW c \in Content
  PROVE  Size[c] \in Nat /\ PackedSize[c] \in Nat
         /\ StoredLen(Size[c], PackedSize[c], FALSE) \in Nat
<1>1. Size[c] \in Nat /\ PackedSize[c] \in Nat
  BY WriterAssumption, CaptureAssumption
<1>. QED  BY <1>1, StoredLenIsNat

(* The blob the loop of addImage is at, and its file.                      *)
LEMMA BlobAtTurn ==
  ASSUME WriterInv, turn <= Len(found)
  PROVE  /\ turn \in DOMAIN found /\ found[turn] \in Blob
         /\ disk[found[turn].path] \in Content \union {Gone}
<1>1. turn \in Nat \ {0} /\ found \in Seq(Blob) /\ disk \in [File -> Content \union {Gone}]
  BY DEF WriterInv, Typed, WriterTypeInv, CaptureTypeInv
<1>2. turn \in DOMAIN found  BY <1>1
<1>3. found[turn] \in Blob  BY <1>1, <1>2
<1>4. found[turn].path \in File  BY <1>3 DEF Blob
<1>. QED  BY <1>1, <1>2, <1>3, <1>4

LEMMA BlobFailsKeeps == ASSUME WriterInv, BlobFails PROVE WriterInv'
<1>1. Fail /\ UNCHANGED started /\ turn <= Len(found)  BY DEF BlobFails
<1>2. CASE UNCHANGED <<pos, dstVars>>
  <2>1. UNCHANGED <<pos, at, header, extents>>  BY <1>2 DEF dstVars
  <2>2. pos \in Nat /\ at \in Nat /\ (header.kind = "reserved" => pos = at)
    BY DEF WriterInv, Typed, WriterTypeInv, HeaderFollows
  <2>. QED  BY <1>1, <2>1, <2>2, FailKeeps
<1>3. ASSUME disk[found[turn].path] # Gone,
             NEW n \in 0 .. StoredLen(Size[disk[found[turn].path]],
                                      PackedSize[disk[found[turn].path]], FALSE),
             Torn(n)
      PROVE WriterInv'
  <2>1. disk[found[turn].path] \in Content  BY <1>1, <1>3, BlobAtTurn
  <2>2. n \in Nat  BY <1>3, <2>1, ContentLens
  <2>. QED  BY <1>1, <1>3, <2>2, TornKeeps
<1>. QED  BY <1>2, <1>3 DEF BlobFails

(* Metadata, table and XML have a length, so a write of them stops at one. *)
LEMMA TornLens ==
  ASSUME WriterInv, MetadataFails \/ CloseFails PROVE \E n \in Nat : Torn(n)
<1>1. MetaLen \in Nat  BY WriterAssumption, StoredLenIsNat DEF MetaLen
<1>2. order \in Seq(TableEntry)  BY DEF WriterInv, Typed
<1>3. Len(order) \in Nat /\ EntrySize \in Nat /\ XmlSize \in Nat
  BY <1>2, WriterAssumption
<1>4. TableLen \in Nat  BY <1>3 DEF TableLen
<1>. QED  BY <1>1, <1>3, <1>4 DEF MetadataFails, CloseFails

LEMMA OtherFailsKeep == ASSUME WriterInv, MetadataFails \/ CloseFails PROVE WriterInv'
<1>1. Fail /\ UNCHANGED started  BY DEF MetadataFails, CloseFails
<1>2. PICK n \in Nat : Torn(n)  BY TornLens
<1>. QED  BY <1>1, <1>2, TornKeeps
-----------------------------------------------------------------------------
(* Writing.                                                                *)

(* Bytes written whole lie where the Writer says they do.                  *)
LEMMA WrittenDescribes ==
  ASSUME NEW data, NEW u \in Nat, NEW p \in Nat, NEW m \in BOOLEAN,
         pos = at, Written(Body(data, u, p, m), StoredLen(u, p, m)),
         NEW res, res = Resource(u, p, m)
  PROVE  Describes(res, data)'
<1>. DEFINE x == [off |-> at, len |-> StoredLen(u, p, m), body |-> Body(data, u, p, m),
                  whole |-> TRUE]
<1>1. PICK y : y = x  OBVIOUS
<1>2. y \in extents'  BY <1>1 DEF Written
<1>3. res.offset = pos /\ res.size = StoredLen(u, p, m) /\ res.compressed = Packed(u, p, m)
  BY DEF Resource, Res
<1>4. y.whole /\ y.off = res.offset /\ y.len = res.size
      /\ y.body = [data |-> data, packed |-> res.compressed]
  BY <1>1, <1>3 DEF Body
<1>. QED  BY <1>2, <1>4 DEF Describes

LEMMA ResourceIsRes ==
  ASSUME pos \in Nat, NEW u \in Nat, NEW p \in Nat, NEW m \in BOOLEAN
  PROVE  Resource(u, p, m) \in ResType
<1>1. StoredLen(u, p, m) \in Nat /\ Packed(u, p, m) \in BOOLEAN
  BY StoredLenIsNat DEF Packed
<1>. QED  BY <1>1 DEF Resource, Res, ResType

(* Where the Writer has got when it writes.                                *)
LEMMA WritingFacts ==
  ASSUME WriterInv, step = "blob" \/ step \in Sealing
  PROVE  /\ header.kind = "reserved" /\ pos = at /\ ~err /\ started
         /\ pos \in Nat /\ at \in Nat /\ ~Damaged
BY DEF WriterInv, Typed, WriterTypeInv, Phases, HeaderFollows, Sealing, Adding

LEMMA WrittenKeepsHeader ==
  ASSUME WriterInv, step = "blob" \/ step \in Sealing, NEW body, NEW n \in Nat,
         Written(body, n)
  PROVE  /\ pos' \in Nat /\ at' \in Nat /\ pos' = at' /\ extents \subseteq extents'
         /\ UNCHANGED header /\ ~Damaged'
<1>1. pos' = pos + n /\ at' = at + n /\ UNCHANGED header /\ extents \subseteq extents'
      /\ \A x \in extents' : x \in extents \/ x.whole
  BY DEF Written
<1>2. header.kind = "reserved" /\ \A x \in extents : x.whole
  BY WritingFacts DEF Damaged
<1>. QED  BY <1>1, <1>2, WritingFacts DEF Damaged

(* A reference more changes nothing else of an entry.                      *)
LEMMA ReferredEntries ==
  ASSUME WriterInv, ReferBlob
  PROVE  /\ blobs' \in Seq(BlobEntry) /\ DOMAIN blobs' = DOMAIN blobs
         /\ \A i \in DOMAIN blobs :
              /\ blobs'[i].res = blobs[i].res /\ blobs'[i].hash = blobs[i].hash
              /\ blobs'[i].refs = IF blobs[i].hash = found[turn].hash
                                  THEN blobs[i].refs + found[turn].refs ELSE blobs[i].refs
<1>. DEFINE n == found[turn].refs
            with(i) == IF blobs[i].hash = found[turn].hash
                       THEN [blobs[i] EXCEPT !.refs = @ + n] ELSE blobs[i]
<1>1. turn <= Len(found) /\ blobs' = [i \in DOMAIN blobs |-> with(i)]
  BY DEF ReferBlob, BlobsReferenced
<1>2. blobs \in Seq(BlobEntry) /\ n \in Nat \ {0}
  BY <1>1, BlobAtTurn DEF WriterInv, Typed, WriterTypeInv, BlobEntry, Blob
<1>3. \A i \in DOMAIN blobs : blobs[i] \in BlobEntry  BY <1>2
<1>4. \A i \in DOMAIN blobs :
        /\ with(i) \in BlobEntry /\ with(i).res = blobs[i].res /\ with(i).hash = blobs[i].hash
        /\ with(i).refs = IF blobs[i].hash = found[turn].hash THEN blobs[i].refs + n
                                                              ELSE blobs[i].refs
  BY <1>2, <1>3 DEF BlobEntry
<1>. HIDE DEF with
<1>5. DOMAIN blobs = 1 .. Len(blobs) /\ Len(blobs) \in Nat  BY <1>2
<1>. QED  BY <1>1, <1>4, <1>5

LEMMA ReferBlobKeeps == ASSUME WriterInv, ReferBlob PROVE WriterInv'
<1>1. step = "blob" /\ turn <= Len(found) /\ turn' = turn + 1
      /\ blobs' = BlobsReferenced(found[turn])
      /\ UNCHANGED <<treeVars, policy, step, walkVars, opts, started, closed, err, pos,
                     images, adding, order, tableRes, xmlRes, captures, ret,
                     at, header, extents>>
  BY DEF ReferBlob, captureVars, dstVars
<1>2. turn \in Nat \ {0}  BY DEF WriterInv, Typed, WriterTypeInv
<1>3. /\ blobs' \in Seq(BlobEntry) /\ DOMAIN blobs' = DOMAIN blobs
      /\ \A i \in DOMAIN blobs : blobs'[i].res = blobs[i].res /\ blobs'[i].hash = blobs[i].hash
  BY ReferredEntries
<1>4. CaptureInv'
  <2>1. step' # "hash"  BY <1>1
  <2>. QED  BY <1>1, <2>1, CaptureKept DEF WriterInv
<1>5. Typed'
  <2>1. turn' \in Nat \ {0}  BY <1>1, <1>2
  <2>. QED
    BY <1>1, <1>3, <1>4, <2>1 DEF WriterInv, Typed, WriterTypeInv, CaptureInv, BlobEntry
<1>6. Phases' /\ HeaderFollows'
  BY <1>1 DEF WriterInv, Phases, HeaderFollows, Adding, Sealing, Damaged
<1>7. ResourcesOnDisk' /\ MetadataFollowsHeader'
  BY <1>1, <1>3 DEF WriterInv, ResourcesOnDisk, MetadataFollowsHeader, Describes
<1>. QED  BY <1>4, <1>5, <1>6, <1>7 DEF WriterInv

LEMMA StoreBlobKeeps == ASSUME WriterInv, StoreBlob PROVE WriterInv'
<1>. DEFINE b == found[turn]
            c == disk[b.path]
            len == StoredLen(Size[c], PackedSize[c], FALSE)
            e == [res |-> Resource(Size[c], PackedSize[c], FALSE), hash |-> b.hash,
                  refs |-> b.refs]
<1>1. step = "blob" /\ turn <= Len(found) /\ turn' = turn + 1 /\ c # Gone /\ c = b.hash
      /\ Written(Body(c, Size[c], PackedSize[c], FALSE), len)
      /\ blobs' = Append(blobs, e)
      /\ UNCHANGED <<treeVars, policy, step, walkVars, opts, started, closed, err,
                     images, adding, order, tableRes, xmlRes, captures, ret>>
  BY DEF StoreBlob, captureVars, Unchanged, FirstReferences
<1>2. b \in Blob /\ c \in Content /\ Size[c] \in Nat /\ PackedSize[c] \in Nat /\ len \in Nat
  BY <1>1, BlobAtTurn, ContentLens
<1>3. pos = at /\ pos \in Nat /\ started /\ ~err  BY <1>1, WritingFacts
<1>4. pos' \in Nat /\ at' \in Nat /\ pos' = at' /\ extents \subseteq extents'
      /\ UNCHANGED header /\ ~Damaged'
  BY <1>1, <1>2, WrittenKeepsHeader
<1>5. e \in BlobEntry
  <2>1. e.res \in ResType  BY <1>2, <1>3, ResourceIsRes
  <2>. QED  BY <1>2, <2>1 DEF BlobEntry, Blob, Digest
<1>6. PICK d : d = e  OBVIOUS
<1>7. Describes(d.res, d.hash)'
  <2>1. PICK r : r = Resource(Size[c], PackedSize[c], FALSE)  OBVIOUS
  <2>2. PICK k : k = c  OBVIOUS
  <2>3. PICK u \in Nat, p \in Nat : u = Size[c] /\ p = PackedSize[c]  BY <1>2
  <2>4. Written(Body(k, u, p, FALSE), StoredLen(u, p, FALSE)) /\ r = Resource(u, p, FALSE)
    BY <1>1, <2>1, <2>2, <2>3
  <2>5. Describes(r, k)'  BY <1>3, <2>4, WrittenDescribes
  <2>6. d.res = r /\ d.hash = k  BY <1>1, <1>6, <2>1, <2>2
  <2>. QED  BY <2>5, <2>6
<1>. HIDE DEF b, c, len, e
<1>8. blobs \in Seq(BlobEntry) /\ turn \in Nat \ {0}
  BY DEF WriterInv, Typed, WriterTypeInv, BlobEntry
<1>9. blobs' \in Seq(BlobEntry) /\ turn' \in Nat \ {0}
      /\ \A i \in DOMAIN blobs' : (i \in DOMAIN blobs /\ blobs'[i] = blobs[i]) \/ blobs'[i] = d
  BY <1>1, <1>5, <1>6, <1>8
<1>10. CaptureInv'
  <2>1. step' # "hash"  BY <1>1
  <2>. QED  BY <1>1, <2>1, CaptureKept DEF WriterInv
<1>11. Typed'
  BY <1>1, <1>4, <1>9, <1>10 DEF WriterInv, Typed, WriterTypeInv, CaptureInv, BlobEntry
<1>12. Phases' /\ HeaderFollows'
  BY <1>1, <1>3, <1>4 DEF WriterInv, Phases, HeaderFollows, Adding, Sealing
<1>13. ResourcesOnDisk' /\ MetadataFollowsHeader'
  <2>. USE DEF WriterInv
  <2>1. ResourcesOnDisk'
    <3>1. ASSUME NEW i \in DOMAIN blobs'
          PROVE  Describes(blobs[i].res, blobs[i].hash)'
      <4>1. CASE i \in DOMAIN blobs /\ blobs'[i] = blobs[i]
        BY <1>4, <4>1 DEF ResourcesOnDisk, Describes
      <4>2. CASE blobs'[i] = d  BY <1>6, <1>7, <4>2 DEF Describes
      <4>. QED  BY <1>9, <4>1, <4>2
    <3>2. ASSUME NEW i \in DOMAIN images'
          PROVE  Describes(images[i].res, images[i].meta)'
      BY <1>1, <1>4 DEF ResourcesOnDisk, Describes
    <3>. QED  BY <3>1, <3>2 DEF ResourcesOnDisk
  <2>2. MetadataFollowsHeader'  BY <1>1 DEF MetadataFollowsHeader
  <2>. QED  BY <2>1, <2>2
<1>. QED  BY <1>10, <1>11, <1>12, <1>13 DEF WriterInv
LEMMA StoreMetadataKeeps == ASSUME WriterInv, StoreMetadata PROVE WriterInv'
<1>. USE WriterAssumption
<1>. DEFINE e == [info |-> adding, res |-> Resource(MetaSize, PackedMetaSize, TRUE),
                  meta |-> Metadata]
<1>1. step = "blob" /\ step' = "idle" /\ ret' = "ok"
      /\ Written(Body(Metadata, MetaSize, PackedMetaSize, TRUE), MetaLen)
      /\ images' = Append(images, e)
      /\ UNCHANGED <<treeVars, policy, walkVars, opts, started, closed, err, blobs,
                     adding, turn, order, tableRes, xmlRes, captures>>
  BY DEF StoreMetadata
<1>2. pos = at /\ pos \in Nat /\ started /\ ~err /\ MetaLen \in Nat
  BY <1>1, WritingFacts, StoredLenIsNat DEF MetaLen
<1>3. pos' \in Nat /\ at' \in Nat /\ pos' = at' /\ extents \subseteq extents'
      /\ UNCHANGED header /\ ~Damaged'
  BY <1>1, <1>2, WrittenKeepsHeader
<1>4. e \in Image /\ (e.res.compressed = (opts.codec = "lzx"))
  <2>1. e.res \in ResType  BY <1>2, ResourceIsRes
  <2>2. Metadata \in MetaType
    BY DEF WriterInv, Typed, WriterTypeInv, CaptureTypeInv, Metadata, MetaType
  <2>3. adding \in Infos  BY <1>1 DEF WriterInv, Phases, Adding
  <2>4. Packed(MetaSize, PackedMetaSize, TRUE) = (opts.codec = "lzx")
    BY DEF Packed
  <2>. QED  BY <2>1, <2>2, <2>3, <2>4 DEF Image, Resource, Res
<1>5. PICK d : d = e  OBVIOUS
<1>6. Describes(d.res, d.meta)'
  <2>1. PICK r : r = Resource(MetaSize, PackedMetaSize, TRUE)  OBVIOUS
  <2>2. PICK k : k = Metadata  OBVIOUS
  <2>3. Written(Body(k, MetaSize, PackedMetaSize, TRUE),
                StoredLen(MetaSize, PackedMetaSize, TRUE))
    BY <1>1, <2>2 DEF MetaLen
  <2>4. Describes(r, k)'  BY <1>2, <2>1, <2>3, WrittenDescribes
  <2>5. d.res = r /\ d.meta = k  BY <1>5, <2>1, <2>2
  <2>. QED  BY <2>4, <2>5
<1>. HIDE DEF e
<1>7. images \in Seq(Image)  BY DEF WriterInv, Typed, WriterTypeInv, Image
<1>8. images' \in Seq(Image)
      /\ \A i \in DOMAIN images' :
           (i \in DOMAIN images /\ images'[i] = images[i]) \/ images'[i] = d
  BY <1>1, <1>4, <1>5, <1>7
<1>9. CaptureInv'
  <2>1. step' # "hash"  BY <1>1
  <2>. QED  BY <1>1, <2>1, CaptureKept DEF WriterInv
<1>10. Typed'
  BY <1>1, <1>3, <1>8, <1>9 DEF WriterInv, Typed, WriterTypeInv, CaptureInv, Image
<1>11. Phases' /\ HeaderFollows'
  BY <1>1, <1>2, <1>3 DEF WriterInv, Phases, HeaderFollows, Adding, Sealing
<1>12. ResourcesOnDisk' /\ MetadataFollowsHeader'
  <2>. USE DEF WriterInv
  <2>1. ResourcesOnDisk'
    <3>1. ASSUME NEW r, NEW k, Describes(r, k) PROVE Describes(r, k)'
      BY <1>3, <3>1 DEF Describes
    <3>2. (\A i \in DOMAIN blobs : Describes(blobs[i].res, blobs[i].hash))'
      BY <1>1, <3>1 DEF ResourcesOnDisk
    <3>3. ASSUME NEW i \in DOMAIN images' PROVE \E x \in extents' :
            /\ x.whole /\ x.off = images'[i].res.offset /\ x.len = images'[i].res.size
            /\ x.body = [data |-> images'[i].meta, packed |-> images'[i].res.compressed]
      <4>1. CASE images'[i] = d  BY <1>6, <4>1 DEF Describes
      <4>2. CASE i \in DOMAIN images /\ images'[i] = images[i]
        <5>1. Describes(images[i].res, images[i].meta)  BY <4>2 DEF ResourcesOnDisk
        <5>. QED  BY <1>3, <4>2, <5>1 DEF Describes
      <4>. QED  BY <1>8, <4>1, <4>2
    <3>. QED  BY <3>2, <3>3 DEF ResourcesOnDisk, Describes
  <2>2. MetadataFollowsHeader'
    BY <1>1, <1>4, <1>5, <1>8 DEF MetadataFollowsHeader
  <2>. QED  BY <2>1, <2>2
<1>. QED  BY <1>9, <1>10, <1>11, <1>12 DEF WriterInv

-----------------------------------------------------------------------------
(* Sealing.                                                                *)

LEMMA EntriesAreTyped == ASSUME Typed PROVE Entries \in Seq(TableEntry)
<1>. DEFINE m == [i \in DOMAIN images |->
                    [res |-> images[i].res, hash |-> images[i].meta, refs |-> 1]]
<1>1. blobs \in Seq(BlobEntry) /\ images \in Seq(Image)
  BY DEF Typed, WriterTypeInv, BlobEntry, Image
<1>2. blobs \in Seq(TableEntry)
  <2>1. BlobEntry \subseteq TableEntry  BY DEF BlobEntry, TableEntry
  <2>. QED  BY <1>1, <2>1
<1>3. m \in Seq(TableEntry)
  <2>1. \A i \in DOMAIN images : images[i] \in Image  BY <1>1
  <2>2. \A i \in DOMAIN images : m[i] \in TableEntry
    BY <2>1 DEF Image, TableEntry
  <2>3. DOMAIN m = 1 .. Len(images) /\ DOMAIN images = 1 .. Len(images)
        /\ Len(images) \in Nat
    BY <1>1
  <2>4. m \in [1 .. Len(images) -> TableEntry]
    <3>1. m = [i \in 1 .. Len(images) |-> m[i]]  BY <2>3
    <3>. HIDE DEF m
    <3>. QED  BY <2>2, <2>3, <3>1
  <2>. HIDE DEF m
  <2>. QED  BY <2>3, <2>4
<1>. HIDE DEF m
<1>4. blobs \o m \in Seq(TableEntry)  BY <1>2, <1>3
<1>. QED  BY <1>4 DEF Entries, m

LEMMA SortedIsTyped ==
  ASSUME NEW es \in Seq(TableEntry), NEW o \in Sorted(es)
  PROVE  o \in Seq(TableEntry)
<1>1. PICK p \in [DOMAIN es -> DOMAIN es] : o = [i \in DOMAIN es |-> es[p[i]]]
  BY DEF Sorted
<1>2. DOMAIN es = 1 .. Len(es) /\ Len(es) \in Nat
      /\ \A i \in DOMAIN es : es[i] \in TableEntry
  OBVIOUS
<1>3. \A i \in DOMAIN es : p[i] \in DOMAIN es  BY <1>1
<1>4. o \in [1 .. Len(es) -> TableEntry]  BY <1>1, <1>2, <1>3
<1>. QED  BY <1>2, <1>4

LEMMA CloseKeeps == ASSUME WriterInv, Close PROVE WriterInv'
<1>1. step = "idle" /\ ~err /\ ~closed /\ images # <<>> /\ closed' = TRUE /\ step' = "table"
      /\ order' \in Sorted(Entries)
      /\ UNCHANGED <<treeVars, policy, walkVars, opts, started, err, pos, blobs, images,
                     adding, turn, tableRes, xmlRes, captures, ret, at, header, extents>>
  BY DEF Close, dstVars
<1>2. CaptureInv'
  <2>1. step' # "hash"  BY <1>1
  <2>. QED  BY <1>1, <2>1, CaptureKept DEF WriterInv
<1>3. order' \in Seq(TableEntry)
  BY <1>1, EntriesAreTyped, SortedIsTyped DEF WriterInv
<1>4. Typed'
  BY <1>1, <1>2, <1>3 DEF WriterInv, Typed, WriterTypeInv, CaptureInv
<1>5. Phases' /\ HeaderFollows'
  BY <1>1 DEF WriterInv, Phases, HeaderFollows, Adding, Sealing, Damaged
<1>6. ResourcesOnDisk' /\ MetadataFollowsHeader'
  BY <1>1, RecordsKept DEF WriterInv
<1>. QED  BY <1>2, <1>4, <1>5, <1>6 DEF WriterInv

LEMMA StoreTableKeeps == ASSUME WriterInv, StoreTable \/ StoreXml PROVE WriterInv'
<1>. USE WriterAssumption
<1>1. step \in Sealing /\ step' \in Sealing
      /\ UNCHANGED <<treeVars, policy, walkVars, opts, started, closed, err, blobs, images,
                     adding, turn, order, captures, ret>>
  BY DEF StoreTable, StoreXml, Sealing
<1>2. pos \in Nat /\ TableLen \in Nat /\ XmlSize \in Nat
  <2>1. pos \in Nat /\ order \in Seq(TableEntry)
    BY DEF WriterInv, Typed, WriterTypeInv
  <2>2. Len(order) \in Nat /\ EntrySize \in Nat  BY <2>1
  <2>. QED  BY <2>1, <2>2 DEF TableLen
<1>3. pos' \in Nat /\ at' \in Nat /\ pos' = at' /\ extents \subseteq extents'
      /\ UNCHANGED header /\ ~Damaged'
  BY <1>1, <1>2, WrittenKeepsHeader DEF StoreTable, StoreXml
<1>4. tableRes' \in ResType /\ xmlRes' \in ResType
  <2>1. tableRes \in ResType /\ xmlRes \in ResType  BY DEF WriterInv, Typed, WriterTypeInv
  <2>2. Res(pos, TableLen, TableLen, FALSE, FALSE) \in ResType
        /\ Res(pos, XmlSize, XmlSize, FALSE, FALSE) \in ResType
    BY <1>2 DEF Res, ResType
  <2>. QED  BY <2>1, <2>2 DEF StoreTable, StoreXml
<1>5. CaptureInv'
  <2>1. step' # "hash"  BY <1>1 DEF Sealing
  <2>. QED  BY <1>1, <2>1, CaptureKept DEF WriterInv
<1>6. Typed'
  BY <1>1, <1>3, <1>4, <1>5 DEF WriterInv, Typed, WriterTypeInv, CaptureInv, Sealing
<1>7. Phases' /\ HeaderFollows'
  BY <1>1, <1>3 DEF WriterInv, Phases, HeaderFollows, Adding, Sealing
<1>8. ResourcesOnDisk' /\ MetadataFollowsHeader'
  BY <1>1, <1>3, RecordsKept DEF WriterInv
<1>. QED  BY <1>5, <1>6, <1>7, <1>8 DEF WriterInv

LEMMA SealKeeps == ASSUME WriterInv, Seal PROVE WriterInv'
<1>1. step = "seal" /\ step' = "idle" /\ ret' = "ok" /\ at' = HeaderSize
      /\ header' = [kind |-> "sealed", says |-> Header]
      /\ UNCHANGED <<treeVars, policy, walkVars, opts, started, closed, err, pos, blobs,
                     images, extents, adding, turn, order, tableRes, xmlRes, captures>>
  BY DEF Seal, stateVars
<1>2. header'.kind = "sealed"  BY <1>1
<1>3. started /\ ~err /\ ~Damaged /\ closed
  BY <1>1, WritingFacts DEF WriterInv, Phases, Sealing
<1>4. CaptureInv'
  <2>1. step' # "hash"  BY <1>1
  <2>. QED  BY <1>1, <2>1, CaptureKept DEF WriterInv
<1>5. Typed'
  BY <1>1, <1>4, WriterAssumption DEF WriterInv, Typed, WriterTypeInv, CaptureInv
<1>6. Phases' /\ HeaderFollows'
  BY <1>1, <1>2, <1>3 DEF WriterInv, Phases, HeaderFollows, Adding, Sealing, Damaged
<1>7. ResourcesOnDisk' /\ MetadataFollowsHeader'
  BY <1>1, RecordsKept DEF WriterInv
<1>. QED  BY <1>4, <1>5, <1>6, <1>7 DEF WriterInv

LEMMA NextWrites == WriterInv /\ [Next]_vars => WriterInv'
<1>. SUFFICES ASSUME WriterInv, [Next]_vars PROVE WriterInv'  OBVIOUS
<1>1. CASE UNCHANGED vars
  <2>1. UNCHANGED writerVars /\ UNCHANGED captureVars /\ UNCHANGED step
    BY <1>1 DEF vars, captureVars
  <2>2. step \in {"idle", "walk", "hash", "captured", "failed", "blob"} \union Sealing
    BY DEF WriterInv, Typed, WriterTypeInv, Sealing
  <2>. QED  BY <2>1, <2>2, CapturingKeeps
<1>2. CASE Outside \/ Capturing  BY <1>2, OutsideKeeps, WalkKeeps
<1>3. CASE Called
  BY <1>3, AddImageKeeps, RefusalKeeps, CloseKeeps DEF Called
<1>4. CASE Storing
  BY <1>4, RefusalKeeps, StartKeeps, StartFailsKeeps, ReferBlobKeeps, StoreBlobKeeps,
     BlobFailsKeeps, StoreMetadataKeeps, OtherFailsKeep
  DEF Storing
<1>5. CASE Closing
  BY <1>5, StoreTableKeeps, OtherFailsKeep, SealKeeps, StartFailsKeeps DEF Closing
<1>. QED  BY <1>1, <1>2, <1>3, <1>4, <1>5 DEF Next, Working

LEMMA WriterInvariance == Spec => []WriterInv
<1>1. WriterInit => WriterInv  BY InitWrites
<1>2. WriterInv /\ [Next]_vars => WriterInv'  BY NextWrites
<1>. QED  BY <1>1, <1>2, PTL DEF Spec
(* The Writer's own state keeps its shape, through every failure; no       *)
(* stream has zero references (writer.go, Writer).                         *)
THEOREM WriterIsTyped == Spec => []WriterTypeInv
<1>1. WriterInv => WriterTypeInv  BY DEF WriterInv, Typed
<1>. QED  BY <1>1, WriterInvariance, PTL

(* What has been recorded lies where it was recorded, and a file stream is *)
(* the one its hash names (writeResource, storeBlob).                      *)
THEOREM RecordsAreOnDisk == Spec => []ResourcesOnDisk
<1>1. WriterInv => ResourcesOnDisk  BY DEF WriterInv
<1>. QED  BY <1>1, WriterInvariance, PTL

(* Metadata is compressed exactly if the header says so (writeResource).   *)
THEOREM MetadataIsAsTheHeaderSays == Spec => []MetadataFollowsHeader
<1>1. WriterInv => MetadataFollowsHeader  BY DEF WriterInv
<1>. QED  BY <1>1, WriterInvariance, PTL

(* Once a write has failed nothing more is written: a Writer that failed   *)
(* is in no call, and begins none (w.err in AddImage and Close).           *)
THEOREM DamageIsFinal == Spec => NothingAfterDamage
<1>1. WriterInv /\ [Next]_vars => [Damaged => UNCHANGED dstVars]_vars
  <2>. SUFFICES ASSUME WriterInv, Next, Damaged PROVE UNCHANGED dstVars  OBVIOUS
  <2>1. err /\ step = "idle"
    BY DEF WriterInv, Typed, WriterTypeInv, Phases, HeaderFollows
  <2>2. CASE Outside  BY <2>2 DEF Outside, writerVars
  <2>3. CASE Called
    BY <2>1, <2>3 DEF Called, AddImage, Accepts, RefuseImage, Close, RefuseClose
  <2>4. CASE Working
    BY <2>1, <2>4
    DEF Working, Capturing, Walk, Stat, HashFile, WalkFails, WalkEnds, Storing, Closing,
        CaptureFailed, Start, StartFails, ReferBlob, StoreBlob, BlobFails, StoreMetadata,
        MetadataFails, StoreTable, StoreXml, CloseFails, Seal, SealFails
  <2>. QED  BY <2>2, <2>3, <2>4 DEF Next
<1>. QED  BY <1>1, WriterInvariance, PTL DEF Spec, NothingAfterDamage

-----------------------------------------------------------------------------
(* The Writer as its user sees it.                                         *)

UserState ==
  IF err THEN "failed" ELSE IF header.kind = "sealed" THEN "sealed" ELSE "open"
Shown(ims) == [i \in DOMAIN ims |-> [info |-> ims[i].info, tree |-> ims[i].meta]]
UserImages == Shown(images)

UserImage == [info: Infos, tree: MetaType]

LEMMA ShownIsTyped ==
  ASSUME NEW ims \in Seq(Image)
  PROVE  /\ Shown(ims) \in Seq(UserImage) /\ Len(Shown(ims)) = Len(ims)
         /\ \A i \in 1 .. Len(ims) :
              Shown(ims)[i] = [info |-> ims[i].info, tree |-> ims[i].meta]
<1>1. DOMAIN ims = 1 .. Len(ims) /\ Len(ims) \in Nat
      /\ \A i \in DOMAIN ims : ims[i] \in Image
  OBVIOUS
<1>2. Shown(ims) = [i \in 1 .. Len(ims) |-> [info |-> ims[i].info, tree |-> ims[i].meta]]
  BY <1>1 DEF Shown
<1>3. \A i \in DOMAIN ims : [info |-> ims[i].info, tree |-> ims[i].meta] \in UserImage
  BY <1>1 DEF Image, UserImage
<1>4. Shown(ims) \in [1 .. Len(ims) -> UserImage]  BY <1>1, <1>2, <1>3
<1>5. Shown(ims) \in Seq(UserImage)  BY <1>1, <1>4
<1>6. Len(Shown(ims)) = Len(ims)  BY <1>1, <1>4, <1>5
<1>. QED  BY <1>1, <1>2, <1>5, <1>6

(* A call in progress is on a Writer that is open to its user.             *)
LEMMA BusyIsOpen ==
  ASSUME WriterInv, step # "idle"
  PROVE  ~err /\ header.kind # "sealed" /\ UserState = "open"
<1>1. ~err  BY DEF WriterInv, Phases
<1>2. step \in Adding \union Sealing
  BY DEF WriterInv, Typed, WriterTypeInv, Adding, Sealing
<1>3. header.kind \in {"none", "reserved"}
  BY <1>1, <1>2 DEF WriterInv, Phases, HeaderFollows, Typed, WriterTypeInv
<1>. QED  BY <1>1, <1>3 DEF UserState

LEMMA FailureRefines ==
  ASSUME WriterInv, step # "idle", Fail
  PROVE  UserState = "open" /\ UserState' = "failed" /\ UNCHANGED UserImages
<1>1. err' /\ UNCHANGED images  BY DEF Fail, Failure
<1>. QED  BY <1>1, BusyIsOpen DEF UserState, UserImages

LEMMA MetadataRefines ==
  ASSUME WriterInv, StoreMetadata
  PROVE  /\ UserState = "open" /\ UNCHANGED UserState
         /\ Len(UserImages') = Len(UserImages) + 1
         /\ SubSeq(UserImages', 1, Len(UserImages)) = UserImages
<1>1. step = "blob" /\ UNCHANGED <<err, header>>
  BY DEF StoreMetadata, Written
<1>2. UserState = "open" /\ UNCHANGED UserState
  BY <1>1, BusyIsOpen DEF UserState
<1>3. images \in Seq(Image) /\ images' \in Seq(Image)
  BY StoreMetadataKeeps DEF WriterInv, Typed, WriterTypeInv, Image
<1>4. Len(images') = Len(images) + 1 /\ Len(images) \in Nat
      /\ \A i \in 1 .. Len(images) : images'[i] = images[i]
  BY <1>3 DEF StoreMetadata
<1>5. /\ UserImages \in Seq(UserImage) /\ Len(UserImages) = Len(images)
      /\ \A i \in 1 .. Len(images) :
           UserImages[i] = [info |-> images[i].info, tree |-> images[i].meta]
  BY <1>3, ShownIsTyped DEF UserImages
<1>6. /\ UserImages' \in Seq(UserImage) /\ Len(UserImages') = Len(images')
      /\ \A i \in 1 .. Len(images') :
           UserImages'[i] = [info |-> images'[i].info, tree |-> images'[i].meta]
  BY <1>3, ShownIsTyped DEF UserImages
<1>7. \A i \in 1 .. Len(UserImages) : UserImages'[i] = UserImages[i]
  BY <1>4, <1>5, <1>6
<1>8. SubSeq(UserImages', 1, Len(UserImages)) = UserImages
  BY <1>4, <1>5, <1>6, <1>7
<1>. QED  BY <1>2, <1>4, <1>5, <1>6, <1>8

(* Images are added one by one, whole or not at all, until the Writer is   *)
(* sealed or has failed, and it is never both (AddImage, Close, w.fail).   *)
THEOREM WriterImplementsArchive == Spec => ImplementsArchive
<1>1. WriterInit => Archive!Init
  BY DEF WriterInit, Archive!Init
<1>2. WriterInv /\ [Next]_vars => [Archive!Next]_<<UserState, UserImages>>
  <2>. SUFFICES ASSUME WriterInv, [Next]_vars
                PROVE  [Archive!Next]_<<UserState, UserImages>>
    OBVIOUS
  <2>. DEFINE Same == UNCHANGED <<UserState, UserImages>>
  <2>1. UNCHANGED <<err, header, images>> => Same
    BY DEF UserState, UserImages
  <2>2. CASE UNCHANGED vars
    BY <2>1, <2>2 DEF vars, writerVars, stateVars, dstVars
  <2>3. CASE Outside \/ Capturing
    BY <2>1, <2>3 DEF Outside, Capturing, writerVars, stateVars, dstVars
  <2>4. CASE Called
    BY <2>1, <2>4
    DEF Called, AddImage, RefuseImage, Close, RefuseClose, stateVars, dstVars
  <2>5. CASE CaptureFailed \/ ReferBlob \/ StoreBlob \/ StoreTable \/ StoreXml
    BY <2>1, <2>5
    DEF CaptureFailed, ReferBlob, StoreBlob, StoreTable, StoreXml, Written,
        stateVars, dstVars
  <2>6. CASE Start
    <3>1. step # "idle" /\ UNCHANGED <<err, images>>  BY <2>6 DEF Start, stateVars
    <3>2. header'.kind # "sealed"
      BY <2>6, <3>1, BusyIsOpen DEF Start, dstVars
    <3>. QED  BY <3>1, <3>2, BusyIsOpen DEF UserState, UserImages
  <2>7. CASE StartFails \/ BlobFails \/ MetadataFails \/ CloseFails \/ SealFails
    <3>1. step # "idle" /\ Fail
      BY <2>7 DEF StartFails, BlobFails, MetadataFails, CloseFails, SealFails
    <3>2. UserState = "open" /\ UserState' = "failed" /\ UNCHANGED UserImages
      BY <3>1, FailureRefines
    <3>. QED  BY <3>2 DEF Archive!Next, Archive!Fail, UserState, UserImages, Shown
  <2>8. CASE StoreMetadata
    BY <2>8, MetadataRefines
    DEF Archive!Next, Archive!Add, UserState, UserImages, Shown
  <2>9. CASE Seal
    <3>1. step = "seal" /\ UNCHANGED <<err, images>> /\ header'.kind = "sealed"
      BY <2>9 DEF Seal, stateVars
    <3>2. images # <<>> /\ images \in Seq(Image)
      BY <3>1 DEF WriterInv, Phases, Sealing, Typed, WriterTypeInv, Image
    <3>3. UserImages # <<>>
      <4>1. Len(UserImages) = Len(images) /\ UserImages \in Seq(UserImage)
        BY <3>2, ShownIsTyped DEF UserImages
      <4>. QED  BY <3>2, <4>1
    <3>4. UserState = "open" /\ UserState' = "sealed" /\ UNCHANGED UserImages
      BY <3>1, BusyIsOpen DEF UserState, UserImages
    <3>. QED
      BY <3>3, <3>4 DEF Archive!Next, Archive!Seal, UserState, UserImages, Shown
  <2>. QED
    BY <2>2, <2>3, <2>4, <2>5, <2>6, <2>7, <2>8, <2>9
    DEF Next, Working, Storing, Closing
<1>. QED
  BY <1>1, <1>2, WriterInvariance, PTL
  DEF Spec, ImplementsArchive, Archive!Spec, UserState, UserImages, Shown

-----------------------------------------------------------------------------
(* Reference counts.                                                       *)

(* The running AddImage has already counted this stream.                   *)
Counted(h) == step = "blob" /\ \E k \in 1 .. turn - 1 : found[k].hash = h

(* What is counted of a stream: its uses by the images that are there, and *)
(* those by the image to come once the loop has been at it.                *)
CountedUses(h) ==
  Cardinality(Uses(h)) + (IF Counted(h) THEN Cardinality(Users(h)) ELSE 0)

Counts ==
  /\ \A h \in Content : IsFiniteSet(Uses(h)) /\ (Uses(h) # {} \/ Counted(h) => Known(h))
  /\ \A i \in DOMAIN blobs : blobs[i].hash \in Content
  /\ \A i, j \in DOMAIN blobs : blobs[i].hash = blobs[j].hash => i = j
  /\ ~err => \A h \in Content : \A i \in DOMAIN blobs :
       blobs[i].hash = h => blobs[i].refs = CountedUses(h)
  /\ step \in Adding \ {"blob"} => turn = 1
  /\ step = "blob" => turn <= Len(found) + 1

LEMMA InitCounts == WriterInit => Counts
<1>. SUFFICES ASSUME WriterInit PROVE Counts  OBVIOUS
<1>1. images = <<>> /\ blobs = <<>> /\ turn = 1 /\ step = "idle"
  BY DEF WriterInit, CaptureInit
<1>2. \A h \in Content : Uses(h) = {} /\ ~Counted(h)  BY <1>1 DEF Uses, Counted
<1>. QED  BY <1>1, <1>2, FS_EmptySet DEF Counts

(* A step that stores nothing.  Either it stands where the loop of         *)
(* addImage does, or the loop is not running before it or after it.        *)
LEMMA CountsKept ==
  ASSUME Counts, UNCHANGED <<blobs, images>>,
         err' \/ UNCHANGED err,
         step' \in Adding \ {"blob"} => turn' = 1,
         \/ step # "blob" /\ step' # "blob"
         \/ err' /\ step' # "blob"
         \/ UNCHANGED <<step, turn, found, nodes>>
  PROVE  Counts'
<1>1. \A h : Uses(h)' = Uses(h) /\ (Known(h)' <=> Known(h))  BY DEF Uses, Known
<1>2. CASE step' # "blob" /\ (step # "blob" \/ err')
  <2>1. step # "blob" => \A h : CountedUses(h)' = CountedUses(h)
    BY <1>1, <1>2 DEF CountedUses, Counted
  <2>2. \A h : ~Counted(h)'  BY <1>2 DEF Counted
  <2>. QED  BY <1>1, <1>2, <2>1, <2>2 DEF Counts
<1>3. CASE UNCHANGED <<step, turn, found, nodes>>
  <2>1. \A h : CountedUses(h)' = CountedUses(h)
    BY <1>1, <1>3 DEF CountedUses, Counted, Users
  <2>2. \A h : Counted(h)' <=> Counted(h)  BY <1>3 DEF Counted
  <2>. QED  BY <1>1, <1>3, <2>1, <2>2 DEF Counts
<1>. QED  BY <1>2, <1>3

LEMMA FailCounts ==
  ASSUME Counts, Fail PROVE Counts'
<1>1. err' /\ step' = "idle" /\ UNCHANGED <<blobs, images>>  BY DEF Fail, Failure
<1>. QED  BY <1>1, CountsKept DEF Adding

LEMMA CallCounts ==
  ASSUME WriterInv, Counts, Called \/ CaptureFailed \/ StoreTable \/ StoreXml \/ Seal
  PROVE  Counts'
<1>1. CASE \E info \in Infos : AddImage(info)
  <2>1. step = "idle" /\ step' = "walk" /\ turn' = 1 /\ UNCHANGED <<err, blobs, images>>
    BY <1>1 DEF AddImage, BeginCapture, stateVars
  <2>. QED  BY <2>1, CountsKept
<1>2. CASE \/ \E info \in Infos : RefuseImage(info)
           \/ RefuseClose \/ Close \/ CaptureFailed \/ StoreTable \/ StoreXml \/ Seal
  <2>1. step # "blob" /\ step' \in {"idle"} \union Sealing /\ UNCHANGED <<err, blobs, images>>
    BY <1>2
    DEF RefuseImage, RefuseClose, Close, CaptureFailed, StoreTable, StoreXml, Seal,
        captureVars, stateVars, Sealing
  <2>. QED  BY <2>1, CountsKept DEF Adding, Sealing
<1>. QED  BY <1>1, <1>2 DEF Called

LEMMA CaptureCounts ==
  ASSUME WriterInv, Counts, Outside \/ Capturing \/ (UNCHANGED vars)
  PROVE  Counts'
<1>1. UNCHANGED <<err, blobs, images, turn>>
  BY DEF Outside, Capturing, vars, writerVars, stateVars, callVars
<1>2. CASE Outside \/ (UNCHANGED vars)
  <2>1. UNCHANGED <<step, found, nodes>>
    BY <1>2 DEF Outside, Environment, Edit, Cancel, vars, captureVars, walkVars
  <2>2. step' \in Adding \ {"blob"} => turn' = 1  BY <1>1, <2>1 DEF Counts
  <2>. QED  BY <1>1, <2>1, <2>2, CountsKept
<1>3. CASE Capturing
  <2>1. step \in {"walk", "hash"} /\ step' \in {"walk", "hash", "captured", "failed"}
    BY <1>3 DEF Capturing, Walk, Stat, HashFile, WalkFails, WalkEnds
  <2>2. turn' = 1  BY <1>1, <2>1 DEF Counts, Adding
  <2>. QED  BY <1>1, <2>1, <2>2, CountsKept
<1>. QED  BY <1>2, <1>3

LEMMA StartCounts == ASSUME WriterInv, Counts, Start PROVE Counts'
<1>1. step = "captured" /\ step' = "blob" /\ turn = 1
      /\ UNCHANGED <<err, blobs, images, turn, found, nodes>>
  BY DEF Start, Counts, Adding, stateVars, callVars, walkVars
<1>2. \A h : Uses(h)' = Uses(h) /\ (Known(h)' <=> Known(h))  BY <1>1 DEF Uses, Known
<1>3. \A h : CountedUses(h)' = CountedUses(h)
  BY <1>1, <1>2 DEF CountedUses, Counted
<1>4. Len(found) \in Nat  BY DEF WriterInv, Typed, WriterTypeInv, CaptureTypeInv
<1>5. \A h : ~Counted(h)'  BY <1>1 DEF Counted
<1>. QED  BY <1>1, <1>2, <1>3, <1>4, <1>5 DEF Counts, Adding

(* The stream at hand was not counted yet, and no other is counted now.    *)
LEMMA TurnCounts ==
  ASSUME WriterInv, Counts, step = "blob", step' = "blob", turn <= Len(found),
         turn' = turn + 1, UNCHANGED <<found, nodes, images>>
  PROVE  /\ found[turn] \in Blob /\ found[turn].refs = Cardinality(Users(found[turn].hash))
         /\ ~Counted(found[turn].hash)
         /\ \A h : Counted(h)' <=> Counted(h) \/ h = found[turn].hash
         /\ \A h : Uses(h)' = Uses(h) /\ Users(h)' = Users(h)
<1>1. turn \in Nat \ {0} /\ turn \in DOMAIN found /\ found[turn] \in Blob /\ found \in Seq(Blob)
  BY BlobAtTurn DEF WriterInv, Typed, WriterTypeInv, CaptureTypeInv
<1>2. /\ found[turn].refs = Cardinality(Users(found[turn].hash))
      /\ \A i, j \in DOMAIN found : found[i].hash = found[j].hash => i = j
  BY <1>1 DEF WriterInv, CaptureInv, BlobsMatchNodes
<1>3. ~Counted(found[turn].hash)
  <2>. SUFFICES ASSUME NEW k \in 1 .. turn - 1, found[k].hash = found[turn].hash PROVE FALSE
    BY DEF Counted
  <2>1. k \in DOMAIN found /\ k # turn  BY <1>1
  <2>. QED  BY <1>1, <1>2, <2>1
<1>4. \A h : Counted(h)' <=> Counted(h) \/ h = found[turn].hash
  <2>1. \A k : k \in 1 .. turn' - 1 <=> k \in 1 .. turn - 1 \/ k = turn  BY <1>1
  <2>. QED  BY <1>1, <2>1 DEF Counted
<1>5. \A h : Uses(h)' = Uses(h) /\ Users(h)' = Users(h)  BY DEF Uses, Users
<1>. QED  BY <1>1, <1>2, <1>3, <1>4, <1>5

LEMMA UsesAreCounted ==
  ASSUME WriterInv, Counts, NEW h \in Content
  PROVE  Cardinality(Uses(h)) \in Nat /\ Cardinality(Users(h)) \in Nat /\ IsFiniteSet(Users(h))
<1>1. IsFiniteSet(Users(h))  BY UsersFinite DEF WriterInv, CaptureInv
<1>2. IsFiniteSet(Uses(h))  BY DEF Counts
<1>. QED  BY <1>1, <1>2, FS_CardinalityType

LEMMA ReferCounts == ASSUME WriterInv, Counts, ReferBlob PROVE Counts'
<1>1. /\ step = "blob" /\ step' = "blob" /\ turn <= Len(found) /\ turn' = turn + 1
      /\ UNCHANGED <<err, images, found, nodes>>
      /\ blobs' = BlobsReferenced(found[turn]) /\ Known(found[turn].hash)
  BY DEF ReferBlob, captureVars, walkVars
<1>2. ~err  BY <1>1 DEF WriterInv, Phases
<1>3. PICK b \in Blob : b = found[turn]  BY <1>1, TurnCounts
<1>4. /\ b.hash \in Content /\ b.refs = Cardinality(Users(b.hash)) /\ ~Counted(b.hash)
      /\ \A h : Counted(h)' <=> Counted(h) \/ h = b.hash
      /\ \A h : Uses(h)' = Uses(h) /\ Users(h)' = Users(h)
  BY <1>1, <1>3, TurnCounts DEF Blob
<1>5. /\ DOMAIN blobs' = DOMAIN blobs
      /\ \A i \in DOMAIN blobs :
           /\ blobs'[i].hash = blobs[i].hash
           /\ blobs'[i].refs = IF blobs[i].hash = b.hash THEN blobs[i].refs + b.refs
                                                        ELSE blobs[i].refs
  BY <1>3, ReferredEntries
<1>6. \A h : Known(h)' <=> Known(h)  BY <1>5 DEF Known
<1>7. \A h \in Content : \A i \in DOMAIN blobs' :
        blobs'[i].hash = h => blobs'[i].refs = CountedUses(h)'
  <2>. SUFFICES ASSUME NEW h \in Content, NEW i \in DOMAIN blobs, blobs[i].hash = h
                PROVE blobs'[i].refs = CountedUses(h)'
    BY <1>5
  <2>1. blobs[i].refs = CountedUses(h)  BY <1>2 DEF Counts
  <2>2. Cardinality(Uses(h)) \in Nat /\ Cardinality(Users(h)) \in Nat  BY UsesAreCounted
  <2>3. CASE h = b.hash
    <3>1. blobs[i].refs = Cardinality(Uses(h))  BY <1>4, <2>1, <2>2, <2>3 DEF CountedUses
    <3>2. CountedUses(h)' = Cardinality(Uses(h)) + Cardinality(Users(h))
      BY <1>4, <2>3 DEF CountedUses
    <3>3. blobs'[i].refs = blobs[i].refs + Cardinality(Users(h))  BY <1>4, <1>5, <2>3
    <3>. QED  BY <3>1, <3>2, <3>3
  <2>4. CASE h # b.hash
    <3>1. CountedUses(h)' = CountedUses(h)  BY <1>4, <2>4 DEF CountedUses
    <3>. QED  BY <1>5, <2>1, <2>4, <3>1
  <2>. QED  BY <2>3, <2>4
<1>8. \A h \in Content : IsFiniteSet(Uses(h)') /\ (Uses(h)' # {} \/ Counted(h)' => Known(h)')
  BY <1>1, <1>3, <1>4, <1>6 DEF Counts
<1>9. /\ \A i \in DOMAIN blobs' : blobs'[i].hash \in Content
      /\ \A i, j \in DOMAIN blobs' : blobs'[i].hash = blobs'[j].hash => i = j
  BY <1>5 DEF Counts
<1>10. turn' <= Len(found') + 1
  <2>1. turn \in Nat /\ Len(found) \in Nat
    BY DEF WriterInv, Typed, WriterTypeInv, CaptureTypeInv
  <2>. QED  BY <1>1, <2>1
<1>. QED  BY <1>1, <1>7, <1>8, <1>9, <1>10 DEF Counts, Adding

(* A stream that is stored now is used by no image so far: the images'     *)
(* streams are all in the table.                                           *)
LEMMA StoreCounts == ASSUME WriterInv, Counts, StoreBlob PROVE Counts'
<1>1. /\ step = "blob" /\ step' = "blob" /\ turn <= Len(found) /\ turn' = turn + 1
      /\ UNCHANGED <<err, images, found, nodes>> /\ ~Known(found[turn].hash)
  BY DEF StoreBlob, captureVars, walkVars
<1>2. ~err  BY <1>1 DEF WriterInv, Phases
<1>3. PICK b \in Blob : b = found[turn]  BY <1>1, TurnCounts
<1>4. /\ b.hash \in Content /\ b.refs = Cardinality(Users(b.hash)) /\ ~Counted(b.hash)
      /\ \A h : Counted(h)' <=> Counted(h) \/ h = b.hash
      /\ \A h : Uses(h)' = Uses(h) /\ Users(h)' = Users(h)
  BY <1>1, <1>3, TurnCounts DEF Blob
<1>5. PICK e : blobs' = Append(blobs, e) /\ e.hash = b.hash /\ e.refs = b.refs
  <2>1. PICK d : d = Resource(Size[disk[b.path]], PackedSize[disk[b.path]], FALSE)  OBVIOUS
  <2>2. blobs' = Append(blobs, [res |-> d, hash |-> b.hash, refs |-> b.refs])
    BY <1>3, <2>1 DEF StoreBlob, FirstReferences
  <2>3. PICK e : e = [res |-> d, hash |-> b.hash, refs |-> b.refs]  OBVIOUS
  <2>4. e.hash = b.hash /\ e.refs = b.refs  BY <2>3
  <2>. QED  BY <2>2, <2>3, <2>4
<1>6. /\ DOMAIN blobs' = DOMAIN blobs \union {Len(blobs) + 1} /\ Len(blobs) \in Nat
      /\ DOMAIN blobs = 1 .. Len(blobs)
      /\ blobs'[Len(blobs) + 1] = e /\ \A i \in DOMAIN blobs : blobs'[i] = blobs[i]
  <2>1. blobs \in Seq(BlobEntry)  BY DEF WriterInv, Typed, WriterTypeInv, BlobEntry
  <2>. QED  BY <1>5, <2>1
<1>7. \A h : Known(h)' <=> Known(h) \/ h = b.hash  BY <1>5, <1>6 DEF Known
<1>8. \A i \in DOMAIN blobs : blobs[i].hash # b.hash  BY <1>1, <1>3 DEF Known
<1>9. Uses(b.hash) = {}  BY <1>1, <1>3, <1>4 DEF Counts
<1>10. \A h \in Content : \A i \in DOMAIN blobs' :
         blobs'[i].hash = h => blobs'[i].refs = CountedUses(h)'
  <2>. SUFFICES ASSUME NEW h \in Content, NEW i \in DOMAIN blobs', blobs'[i].hash = h
                PROVE blobs'[i].refs = CountedUses(h)'
    OBVIOUS
  <2>1. CASE h = b.hash
    <3>1. i = Len(blobs) + 1  BY <1>6, <1>8, <2>1
    <3>2. CountedUses(h)' = Cardinality(Uses(h)) + Cardinality(Users(h))
      BY <1>4, <2>1 DEF CountedUses
    <3>3. Cardinality(Users(h)) \in Nat  BY UsesAreCounted
    <3>. QED  BY <1>4, <1>5, <1>6, <1>9, <2>1, <3>1, <3>2, <3>3, FS_EmptySet
  <2>2. CASE h # b.hash
    <3>1. i \in DOMAIN blobs /\ blobs'[i] = blobs[i]  BY <1>5, <1>6, <2>2
    <3>2. blobs[i].refs = CountedUses(h)  BY <1>2, <3>1 DEF Counts
    <3>3. CountedUses(h)' = CountedUses(h)  BY <1>4, <2>2 DEF CountedUses
    <3>. QED  BY <3>1, <3>2, <3>3
  <2>. QED  BY <2>1, <2>2
<1>11. \A h \in Content : IsFiniteSet(Uses(h)') /\ (Uses(h)' # {} \/ Counted(h)' => Known(h)')
  BY <1>4, <1>7 DEF Counts
<1>12. /\ \A i \in DOMAIN blobs' : blobs'[i].hash \in Content
       /\ \A i, j \in DOMAIN blobs' : blobs'[i].hash = blobs'[j].hash => i = j
  BY <1>4, <1>5, <1>6, <1>8 DEF Counts
<1>13. turn' <= Len(found') + 1
  <2>1. turn \in Nat /\ Len(found) \in Nat
    BY DEF WriterInv, Typed, WriterTypeInv, CaptureTypeInv
  <2>. QED  BY <1>1, <2>1
<1>. QED  BY <1>1, <1>10, <1>11, <1>12, <1>13 DEF Counts, Adding

(* An image brings its nodes' uses of a stream, and no other.              *)
LEMMA UsesGrow ==
  ASSUME NEW h, NEW e, images \in Seq(Image), images' = Append(images, e),
         e.meta.nodes = nodes, IsFiniteSet(Uses(h)), IsFiniteSet(Users(h))
  PROVE  /\ IsFiniteSet(Uses(h)') /\ (Uses(h)' # {} => Uses(h) # {} \/ Users(h) # {})
         /\ Cardinality(Uses(h)') = Cardinality(Uses(h)) + Cardinality(Users(h))
<1>. DEFINE m == Len(images) + 1
            f == [j \in Users(h) |-> <<m, j>>]
            T == {<<m, j>> : j \in Users(h)}
<1>1. /\ DOMAIN images = 1 .. Len(images) /\ Len(images) \in Nat
      /\ DOMAIN images' = DOMAIN images \union {m} /\ m \notin DOMAIN images
      /\ images'[m] = e /\ \A i \in DOMAIN images : images'[i] = images[i]
  OBVIOUS
<1>2. Uses(h)' = Uses(h) \union T
  <2>1. \A u : u \in Uses(h)' <=>
          \E i \in DOMAIN images' : \E j \in DOMAIN images'[i].meta.nodes :
            images'[i].meta.nodes[j].hash = h /\ u = <<i, j>>
    BY DEF Uses
  <2>2. \A u : u \in Uses(h) <=>
          \E i \in DOMAIN images : \E j \in DOMAIN images[i].meta.nodes :
            images[i].meta.nodes[j].hash = h /\ u = <<i, j>>
    BY DEF Uses
  <2>3. \A u : u \in T <=> \E j \in DOMAIN nodes : nodes[j].hash = h /\ u = <<m, j>>
    BY DEF Users
  <2>. HIDE DEF T, m
  <2>. QED  BY <1>1, <2>1, <2>2, <2>3
<1>3. Uses(h) \cap T = {}
  <2>1. \A u \in Uses(h) : \E i \in DOMAIN images : \E j : u = <<i, j>>  BY DEF Uses
  <2>. HIDE DEF m
  <2>2. \A u \in T : \E j : u = <<m, j>>  OBVIOUS
  <2>. HIDE DEF T
  <2>. QED  BY <1>1, <2>1, <2>2
<1>4. IsFiniteSet(T) /\ Cardinality(T) = Cardinality(Users(h))
  <2>1. f \in Bijection(Users(h), T)
    <3>. HIDE DEF m
    <3>. QED  BY DEF Bijection, Injection, Surjection, IsInjective
  <2>2. ExistsBijection(Users(h), T)  BY <2>1 DEF ExistsBijection
  <2>. HIDE DEF T, f
  <2>. QED  BY <2>2, FS_Bijection
<1>5. Users(h) = {} => T = {}  OBVIOUS
<1>. HIDE DEF T
<1>6. /\ IsFiniteSet(Uses(h) \union T)
      /\ Cardinality(Uses(h) \union T) = Cardinality(Uses(h)) + Cardinality(T) - Cardinality({})
  <2>1. Cardinality(Uses(h) \union T)
          = Cardinality(Uses(h)) + Cardinality(T) - Cardinality(Uses(h) \cap T)
        /\ IsFiniteSet(Uses(h) \union T)
    BY <1>4, FS_Union
  <2>. QED  BY <1>3, <2>1, Zenon
<1>7. Cardinality({}) = 0 /\ Cardinality(Uses(h)) \in Nat /\ Cardinality(T) \in Nat
  BY <1>4, FS_EmptySet, FS_CardinalityType
<1>. QED  BY <1>2, <1>4, <1>5, <1>6, <1>7

(* The image that comes brings what was counted for it.                    *)
LEMMA MetadataCounts == ASSUME WriterInv, Counts, StoreMetadata PROVE Counts'
<1>1. /\ step = "blob" /\ step' = "idle" /\ turn > Len(found)
      /\ UNCHANGED <<err, blobs, found, nodes, turn>>
  BY DEF StoreMetadata, walkVars
<1>2. PICK e : images' = Append(images, e) /\ e.meta.nodes = nodes
  <2>1. PICK d : d = Resource(MetaSize, PackedMetaSize, TRUE)  OBVIOUS
  <2>2. Metadata.nodes = nodes  BY DEF Metadata
  <2>3. PICK t : t = Metadata /\ t.nodes = nodes  BY <2>2
  <2>4. images' = Append(images, [info |-> adding, res |-> d, meta |-> t])
    BY <2>1, <2>3 DEF StoreMetadata
  <2>5. PICK e : e = [info |-> adding, res |-> d, meta |-> t]  OBVIOUS
  <2>6. e.meta.nodes = nodes  BY <2>3, <2>5
  <2>. QED  BY <2>4, <2>5, <2>6
<1>3. /\ images \in Seq(Image) /\ found \in Seq(Blob) /\ turn \in Nat /\ ~err
  BY <1>1 DEF WriterInv, Typed, WriterTypeInv, CaptureTypeInv, Image, Phases
<1>4. DOMAIN found = 1 .. turn - 1
  <2>1. turn = Len(found) + 1  BY <1>1, <1>3 DEF Counts
  <2>. QED  BY <1>3, <2>1
<1>5. \A h \in Content :
        /\ IsFiniteSet(Uses(h)') /\ (Uses(h)' # {} => Uses(h) # {} \/ Users(h) # {})
        /\ Cardinality(Uses(h)') = Cardinality(Uses(h)) + Cardinality(Users(h))
  <2>. SUFFICES ASSUME NEW h \in Content
                PROVE  /\ IsFiniteSet(Uses(h)')
                       /\ (Uses(h)' # {} => Uses(h) # {} \/ Users(h) # {})
                       /\ Cardinality(Uses(h)') = Cardinality(Uses(h)) + Cardinality(Users(h))
    OBVIOUS
  <2>1. IsFiniteSet(Uses(h)) /\ IsFiniteSet(Users(h))  BY UsesAreCounted DEF Counts
  <2>. QED  BY <1>2, <1>3, <2>1, UsesGrow
<1>6. \A h : (Known(h)' <=> Known(h)) /\ ~Counted(h)'  BY <1>1 DEF Known, Counted
<1>7. ASSUME NEW h \in Content, ~Counted(h) PROVE Users(h) = {}
  <2>1. \A n \in DOMAIN nodes : nodes[n].hash # ZeroHash =>
          \E k \in DOMAIN found : found[k].hash = nodes[n].hash
    BY DEF WriterInv, CaptureInv, BlobsMatchNodes
  <2>2. \A k \in DOMAIN found : found[k].hash # h  BY <1>1, <1>4, <1>7 DEF Counted
  <2>3. h # ZeroHash  BY CaptureAssumption
  <2>. QED  BY <2>1, <2>2, <2>3 DEF Users
<1>8. \A h \in Content : IsFiniteSet(Uses(h)') /\ (Uses(h)' # {} \/ Counted(h)' => Known(h)')
  BY <1>5, <1>6, <1>7 DEF Counts
<1>9. \A h \in Content : \A i \in DOMAIN blobs' :
        blobs'[i].hash = h => blobs'[i].refs = CountedUses(h)'
  <2>. SUFFICES ASSUME NEW h \in Content, NEW i \in DOMAIN blobs, blobs[i].hash = h
                PROVE blobs[i].refs = CountedUses(h)'
    BY <1>1
  <2>1. blobs[i].refs = CountedUses(h)  BY <1>3 DEF Counts
  <2>2. Cardinality(Uses(h)) \in Nat /\ Cardinality(Users(h)) \in Nat  BY UsesAreCounted
  <2>3. CountedUses(h)' = Cardinality(Uses(h)) + Cardinality(Users(h))
    BY <1>5, <1>6, <2>2 DEF CountedUses
  <2>4. CountedUses(h) = Cardinality(Uses(h)) + Cardinality(Users(h))
    <3>1. ~Counted(h) => Cardinality(Users(h)) = 0  BY <1>7, FS_EmptySet
    <3>. QED  BY <2>2, <3>1 DEF CountedUses
  <2>. QED  BY <2>1, <2>3, <2>4
<1>10. /\ \A i \in DOMAIN blobs' : blobs'[i].hash \in Content
       /\ \A i, j \in DOMAIN blobs' : blobs'[i].hash = blobs'[j].hash => i = j
  BY <1>1 DEF Counts
<1>. QED  BY <1>1, <1>8, <1>9, <1>10 DEF Counts, Adding

LEMMA NextCounts == ASSUME WriterInv, Counts, [Next]_vars PROVE Counts'
<1>1. CASE StartFails \/ BlobFails \/ MetadataFails \/ CloseFails \/ SealFails
  <2>1. Fail  BY <1>1 DEF StartFails, BlobFails, MetadataFails, CloseFails, SealFails
  <2>. QED  BY <2>1, FailCounts
<1>2. CASE Start \/ ReferBlob \/ StoreBlob \/ StoreMetadata
  BY <1>2, StartCounts, ReferCounts, StoreCounts, MetadataCounts
<1>3. CASE Called \/ CaptureFailed \/ StoreTable \/ StoreXml \/ Seal  BY <1>3, CallCounts
<1>4. CASE Outside \/ Capturing \/ UNCHANGED vars  BY <1>4, CaptureCounts
<1>. QED  BY <1>1, <1>2, <1>3, <1>4 DEF Next, Working, Storing, Closing

(* The blob table counts every use of a stream by every image, over        *)
(* images that share streams, edits between the passes and failures        *)
(* half-way (addImage, storeBlob): a step that fails leaves a Writer that  *)
(* takes no more images, so no stream is counted twice.                    *)
THEOREM ReferencesAreExact == Spec => []ReferencesExact
<1>1. WriterInit => WriterInv /\ Counts  BY InitWrites, InitCounts
<1>2. WriterInv /\ Counts /\ [Next]_vars => WriterInv' /\ Counts'  BY NextWrites, NextCounts
<1>3. WriterInv /\ Counts => ReferencesExact
  <2>. SUFFICES ASSUME WriterInv, Counts, step = "idle", ~err PROVE ReferencesExact
    BY DEF ReferencesExact
  <2>1. \A i \in DOMAIN blobs : blobs[i].refs = Cardinality(Uses(blobs[i].hash))
    <3>. SUFFICES ASSUME NEW i \in DOMAIN blobs
                  PROVE blobs[i].refs = Cardinality(Uses(blobs[i].hash))
      OBVIOUS
    <3>1. IsFiniteSet(Uses(blobs[i].hash))  BY DEF Counts
    <3>2. Cardinality(Uses(blobs[i].hash)) \in Nat  BY <3>1, FS_CardinalityType
    <3>3. blobs[i].refs = CountedUses(blobs[i].hash)  BY DEF Counts
    <3>4. ~Counted(blobs[i].hash)  BY DEF Counted
    <3>. QED  BY <3>2, <3>3, <3>4 DEF CountedUses
  <2>2. ASSUME NEW i \in DOMAIN images, NEW n \in Elems(images[i].meta.nodes),
               n.hash # ZeroHash
        PROVE Known(n.hash)
    <3>1. PICK k \in DOMAIN images[i].meta.nodes : n = images[i].meta.nodes[k]
      BY DEF Elems
    <3>2. <<i, k>> \in Uses(n.hash)  BY <3>1 DEF Uses
    <3>3. n.hash \in Content
      <4>1. images[i] \in Image
        <5>1. images \in Seq(Image)  BY DEF WriterInv, Typed, WriterTypeInv, Image
        <5>. QED  BY <5>1
      <4>2. images[i].meta.nodes \in Seq(Node)  BY <4>1 DEF Image, MetaType
      <4>3. n \in Node  BY <3>1, <4>2
      <4>. QED  BY <2>2, <4>3 DEF Node, Digest
    <3>. QED  BY <3>2, <3>3 DEF Counts
  <2>3. \A i, j \in DOMAIN blobs : blobs[i].hash = blobs[j].hash => i = j  BY DEF Counts
  <2>. QED  BY <2>1, <2>2, <2>3 DEF ReferencesExact
<1>. QED  BY <1>1, <1>2, <1>3, PTL DEF Spec
=============================================================================
