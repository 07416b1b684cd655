--------------------------- MODULE MetadataLayout ---------------------------
(***************************************************************************)
(* encodeMetadata (metadata.go): where every dentry of a captured tree     *)
(* lies.  Behind the security table comes a list that holds the root       *)
(* alone, then, breadth first, one list for every directory: its           *)
(* children's dentries end to end, and eight zero bytes.  Offsets are laid *)
(* out in one pass and written in another.                                 *)
(***************************************************************************)
EXTENDS Integers, Sequences

CONSTANTS
  Trees,    \* the captured trees
  Tables    \* the security tables: their descriptors and their bytes

(* A captured tree.  Units is the length of a name in UTF-16; hash and     *)
(* name go into the dentry as they are.                                    *)
Reachable(t) ==
  \A S \in SUBSET t.nodes :
    t.root \in S /\ (\A d \in S : \A i \in DOMAIN t.kids[d] : t.kids[d][i] \in S)
      => S = t.nodes

IsTree(t) ==
  /\ t.root \in t.nodes /\ 0 \notin t.nodes
  /\ t.dirs \subseteq t.nodes /\ t.root \in t.dirs
  /\ t.kids \in [t.nodes -> Seq(t.nodes)]
  /\ \A n \in t.nodes \ t.dirs : t.kids[n] = <<>>
  /\ \A d, e \in t.nodes : \A i \in DOMAIN t.kids[d], j \in DOMAIN t.kids[e] :
       /\ t.kids[d][i] # t.root
       /\ t.kids[d][i] = t.kids[e][j] => d = e /\ i = j
  /\ t.units \in [t.nodes -> Nat]
  /\ Reachable(t)

IsTable(s) == s.count \in Nat \ {0} /\ s.total \in Nat /\ s.total >= 8 + 8 * s.count

ASSUME LayoutAssumption ==
  /\ \A t \in Trees : IsTree(t)
  /\ \A s \in Tables : IsTable(s)

VARIABLES
  tree,     \* c.root
  table,    \* c.security
  pass,     \* "start", "next", "list", "queue", "laid"
  pos,
  off,      \* n.dentryOff, 0 as long as it is not set
  sub,      \* n.subdirOffset
  queue,
  dir,      \* the directory whose list is laid out, or 0
  k         \* the next of its children, in either loop

lvars == <<tree, table, pass, pos, off, sub, queue, dir, k>>

-----------------------------------------------------------------------------
dentryFixedSize == 102
Align8(n) == ((n + 7) \div 8) * 8

(* Bug: the terminator of the name is forgotten.                           *)
DentryLenUnended(n) == Align8(dentryFixedSize + 2 * tree.units[n])

(* dentryLen: with the name and its terminator, rounded.                   *)
DentryLen(n) == Align8(dentryFixedSize + 2 * tree.units[n] + 2)

Kids(d) == tree.kids[d]

(* encodeSecurityTable pads the table to eight; its length does not say so *)
TableEnd == Align8(table.total)

LayoutStart(t, s) ==
  /\ tree = t /\ table = s
  /\ pass = "start" /\ pos = 0
  /\ off = [n \in t.nodes |-> 0]
  /\ sub = [n \in t.nodes |-> 0]
  /\ queue = <<>> /\ dir = 0 /\ k = 0

LayoutInit == \E t \in Trees, s \in Tables : LayoutStart(t, s)

(* The root's own list: the root and the terminator behind it.             *)
LayRoot ==
  /\ pass = "start"
  /\ off' = [off EXCEPT ![tree.root] = TableEnd]
  /\ pos' = TableEnd + DentryLen(tree.root) + 8
  /\ queue' = <<tree.root>>
  /\ pass' = "next"
  /\ UNCHANGED <<tree, table, sub, dir, k>>

(* Every directory gets a list, the empty ones included.                   *)
OpenList ==
  /\ pass = "next" /\ queue # <<>>
  /\ dir' = Head(queue) /\ queue' = Tail(queue) /\ k' = 1
  /\ sub' = [sub EXCEPT ![Head(queue)] = pos]
  /\ pass' = "list"
  /\ UNCHANGED <<tree, table, pos, off>>

(* Bug: the offset is taken after the dentry's length is added.            *)
PlaceBehind ==
  /\ pass = "list" /\ k \in DOMAIN Kids(dir)
  /\ pos' = pos + DentryLen(Kids(dir)[k])
  /\ off' = [off EXCEPT ![Kids(dir)[k]] = pos']
  /\ k' = k + 1
  /\ UNCHANGED <<tree, table, pass, sub, queue, dir>>

PlaceChild ==
  /\ pass = "list" /\ k \in DOMAIN Kids(dir)
  /\ off' = [off EXCEPT ![Kids(dir)[k]] = pos]
  /\ pos' = pos + DentryLen(Kids(dir)[k])
  /\ k' = k + 1
  /\ UNCHANGED <<tree, table, pass, sub, queue, dir>>

(* Bug: no room is kept for the zero bytes.                                *)
CloseWithoutRoom ==
  /\ pass = "list" /\ k \notin DOMAIN Kids(dir)
  /\ pass' = "queue" /\ k' = 1
  /\ UNCHANGED <<tree, table, pos, off, sub, queue, dir>>

CloseList ==
  /\ pass = "list" /\ k \notin DOMAIN Kids(dir)
  /\ pos' = pos + 8
  /\ pass' = "queue" /\ k' = 1
  /\ UNCHANGED <<tree, table, off, sub, queue, dir>>

QueueChild ==
  /\ pass = "queue" /\ k \in DOMAIN Kids(dir)
  /\ queue' = IF Kids(dir)[k] \in tree.dirs THEN Append(queue, Kids(dir)[k]) ELSE queue
  /\ k' = k + 1
  /\ UNCHANGED <<tree, table, pass, pos, off, sub, dir>>

NextList ==
  /\ pass = "queue" /\ k \notin DOMAIN Kids(dir)
  /\ pass' = "next" /\ dir' = 0 /\ k' = 0
  /\ UNCHANGED <<tree, table, pos, off, sub, queue>>

(* The offsets are all known: the dentries can be written.                 *)
Laid ==
  /\ pass = "next" /\ queue = <<>>
  /\ pass' = "laid"
  /\ UNCHANGED <<tree, table, pos, off, sub, queue, dir, k>>

Laying ==
  \/ LayRoot \/ OpenList \/ PlaceChild \/ CloseList \/ QueueChild \/ NextList \/ Laid
=============================================================================
