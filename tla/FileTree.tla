------------------------------ MODULE FileTree ------------------------------
(***************************************************************************)
(* What an image's fs.FS promises (FS in fs.go, and the io/fs contract its *)
(* tests run): a read-only tree, or one error for all that is asked of it. *)
(* Which of the two is settled before the first answer and for good.       *)
(* Every operation is answered from that one tree, whoever else asks; a    *)
(* directory or a file read in pieces is read exactly once, in order.      *)
(***************************************************************************)
EXTENDS Integers, FiniteSetsExt, SequencesExt

CONSTANTS
  Clients,
  Contents,   \* the trees: from every path of the tree to [dir, missing, size]
  Failures,   \* the errors that may take the place of a tree
  Requests,   \* [op, path, n]
  Invalid,    \* the path that is none
  None

VARIABLES
  content,    \* a member of Contents, once there is one
  failure,    \* a member of Failures, or "nil"
  asked,      \* what every client waits for
  handle,     \* what it has open: [path, left], with the names or bytes to come
  answer

Smaller(a, b) == IF a <= b THEN a ELSE b

Answered(err) == [err |-> err, names |-> <<>>, n |-> 0]

(* A set of names, as far as the n-th, in order.                           *)
First(n, S) == SubSeq(SetToSortSeq(S, LAMBDA a, b : a < b), 1, n)
Listing(n, S) == [Answered("nil") EXCEPT !.names = First(n, S)]

Below(p) == {q[Len(q)] : q \in {r \in DOMAIN content : r # <<>> /\ Front(r) = p}}

(* The root is called ".", which is no name.                               *)
NameOf(p) == IF p = <<>> THEN 0 ELSE Last(p)

Reply(c, a, h) == answer' = [answer EXCEPT ![c] = a] /\ handle' = [handle EXCEPT ![c] = h]
Deny(c, err) == Reply(c, Answered(err), handle[c])

Stat(c, p) ==
  Reply(c, [err |-> "nil", names |-> <<NameOf(p)>>, n |-> content[p].size], handle[c])

ReadDir(c, p) ==
  IF content[p].dir THEN Reply(c, Listing(Cardinality(Below(p)), Below(p)), handle[c])
  ELSE Deny(c, "invalid")

Open(c, p) ==
  IF content[p].missing THEN Deny(c, "corrupt")
  ELSE Reply(c, Answered("nil"),
             [path |-> p, left |-> IF content[p].dir THEN Below(p) ELSE content[p].size])

OnPath(c, q) ==
  /\ q.op \in {"stat", "readdir", "open"}
  /\ \/ q.path = Invalid /\ Deny(c, "invalid")
     \/ q.path # Invalid /\ failure # "nil" /\ Deny(c, failure)
     \/ /\ q.path # Invalid /\ failure = "nil" /\ content # None
        /\ \/ q.path \notin DOMAIN content /\ Deny(c, "notexist")
           \/ /\ q.path \in DOMAIN content
              /\ \/ q.op = "stat" /\ Stat(c, q.path)
                 \/ q.op = "readdir" /\ ReadDir(c, q.path)
                 \/ q.op = "open" /\ Open(c, q.path)

(* ReadDir(n) of an open directory: n names, or what is left of them.      *)
NextNames(c, n) ==
  LET left == handle[c].left
      m == IF n <= 0 THEN Cardinality(left) ELSE Smaller(n, Cardinality(left)) IN
  IF left = {} /\ n > 0 THEN Deny(c, "eof")
  ELSE Reply(c, Listing(m, left), [handle[c] EXCEPT !.left = @ \ Range(First(m, @))])

(* Read: n bytes, or what is left of them; EOF only with or behind the last. *)
NextBytes(c, n) ==
  LET m == Smaller(n, handle[c].left) IN
  \E err \in {"nil", "eof"} :
    /\ err = "nil" => m = n
    /\ err = "eof" => m = handle[c].left
    /\ Reply(c, [Answered(err) EXCEPT !.n = m], [handle[c] EXCEPT !.left = @ - m])

OnHandle(c, q) ==
  /\ q.op \in {"next", "read"}
  /\ LET d == content[handle[c].path].dir IN
     \/ q.op = "next" /\ d /\ NextNames(c, q.n)
     \/ q.op = "read" /\ d /\ Deny(c, "invalid")
     \/ q.op = "read" /\ ~d /\ NextBytes(c, q.n)

-----------------------------------------------------------------------------
Init ==
  /\ content = None /\ failure = "nil"
  /\ asked = [c \in Clients |-> None]
  /\ handle = [c \in Clients |-> None]
  /\ answer = [c \in Clients |-> None]

Settle ==
  /\ content = None /\ failure = "nil"
  /\ \/ content' \in Contents /\ UNCHANGED failure
     \/ failure' \in Failures /\ UNCHANGED content
  /\ UNCHANGED <<asked, handle, answer>>

Ask(c) ==
  /\ asked[c] = None
  /\ \E q \in Requests : asked' = [asked EXCEPT ![c] = q]
  /\ answer' = [answer EXCEPT ![c] = None]
  /\ UNCHANGED <<content, failure, handle>>

Answer(c) ==
  /\ asked[c] # None
  /\ OnPath(c, asked[c]) \/ OnHandle(c, asked[c])
  /\ asked' = [asked EXCEPT ![c] = None]
  /\ UNCHANGED <<content, failure>>

Next == Settle \/ \E c \in Clients : Ask(c) \/ Answer(c)

Spec == Init /\ [][Next]_<<content, failure, asked, handle, answer>>
=============================================================================
